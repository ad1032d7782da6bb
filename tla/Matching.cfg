SPECIFICATION SideBySide
CONSTANTS
  t1 = t1
  t2 = t2
  A = A
  B = B
  h1 = h1
  h2 = h2
  h3 = h3
  pad = pad
  part = part
  Model = Model
  File = {f1, f2}
  Thread = {a1, a2}
  Address = {b1, b2, b3}
  Capacity = 1
  MaxPuts = 1
  None = None
SYMMETRY Symmetry
INVARIANTS
  TypesOK
  NoOlderDrawing
  PickerIsRight
  MatchesAreCopies
  MatchJsonIsExact
CHECK_DEADLOCK FALSE
