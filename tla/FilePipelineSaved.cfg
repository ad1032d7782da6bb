CONSTANTS
  None = None
  mm = mm
  inch = inch
  t1 = t1
  t2 = t2
  a = a
  b = b
  L = L
  V = V
  h1 = h1
  h2 = h2
  File = {a}
  Request = {h1, h2}
  Tab = {t1, t2}
  PaperTabs <- OnePaperTab
  Layers = {L}
  Unit = {mm, inch}
  Detected = mm
  Millimetre = mm
  View = {V}
  Ops = {"match", "unit"}
  Slots = 1
  MaxAttempts = 2
  MaxRequests = 4
  MaxJobs = 4
  Faults = {"crash"}
  MaxFaults = 1
SPECIFICATION ReadySpec
SYMMETRY Symmetry
INVARIANT RescaleDropsMatch
CHECK_DEADLOCK FALSE
