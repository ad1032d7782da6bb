SPECIFICATION Spec
CONSTANTS
  File = {f1, f2, f3}
  Thread = {t1}
  Address = {a1, a2}
  Capacity = 1
  MaxPuts = 0
  None = None
INVARIANTS
  OwnIndex
