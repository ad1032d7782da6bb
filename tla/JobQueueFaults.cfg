CONSTANTS
  w1 = w1
  w2 = w2
  None = None
  Worker = {w1, w2}
  MaxJobs = 3
  MaxAttempts = 2
  Slots = 1
  Faults = {"crash", "db", "pool", "raise", "web", "week"}
  MaxFaults = 2
SPECIFICATION Spec
SYMMETRY Symmetry
INVARIANT TypeOK
INVARIANT AttemptsBounded
INVARIANT ExclusiveExecution
INVARIANT BatchCloses
PROPERTY SettledIsFinal
