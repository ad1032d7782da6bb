CONSTANTS
  w1 = w1
  w2 = w2
  None = None
  Worker = {w1, w2}
  MaxJobs = 2
  MaxAttempts = 2
  Slots = 2
  Faults = {"crash", "db", "pool", "pause", "raise"}
  MaxFaults = 1
SPECIFICATION FairSpec
PROPERTY JobsEnd
PROPERTY BatchEnds
