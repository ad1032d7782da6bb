CONSTANTS
  None = None
  mm = mm
  inch = inch
  t1 = t1
  t2 = t2
  a = a
  b = b
  L = L
  V = V
  h1 = h1
  h2 = h2
  File = {b}
  Request = {h1, h2}
  Tab = {t1, t2}
  PaperTabs <- TwoPaperTabs
  Layers = {L}
  Unit = {mm}
  Detected = mm
  Millimetre = mm
  View = {V}
  Ops = {"upload", "skip", "replace", "delete", "unit", "layers", "layout"}
  Slots = 2
  MaxAttempts = 2
  MaxRequests = 3
  MaxJobs = 3
  Faults = {"crash", "raise", "callback", "web"}
  MaxFaults = 1
SPECIFICATION Spec
SYMMETRY Symmetry
INVARIANT TypeOK
INVARIANT StatusHasArtefact
CHECK_DEADLOCK FALSE
