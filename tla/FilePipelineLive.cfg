CONSTANTS
  None = None
  mm = mm
  inch = inch
  t1 = t1
  t2 = t2
  a = a
  b = b
  L = L
  V = V
  h1 = h1
  h2 = h2
  File = {b}
  Request = {h1, h2}
  Tab = {t1, t2}
  PaperTabs <- TwoPaperTabs
  Layers = {L}
  Unit = {mm, inch}
  Detected = mm
  Millimetre = mm
  View = {V}
  Ops = {"upload", "skip", "unit", "layers", "layout", "discover",
         "match", "reprocess", "regions", "check", "signoff", "unsign"}
  Slots = 2
  MaxAttempts = 2
  MaxRequests = 2
  MaxJobs = 2
  Faults = {"crash", "raise"}
  MaxFaults = 2
SPECIFICATION LifeSpec
INVARIANT BusyIsPending
PROPERTY BusyEnds
PROPERTY SignedAtRestIsFrozen
CHECK_DEADLOCK FALSE
