CONSTANTS
  w1 = w1
  w2 = w2
  None = None
  Worker = {w1, w2}
  MaxJobs = 3
  MaxAttempts = 2
  Slots = 1
  Faults = {"crash"}
  MaxFaults = 1
SPECIFICATION Spec
INVARIANT BatchDoneMeansAllRan
