SPECIFICATION SideBySide
CONSTANTS
  a1 = a1
  a2 = a2
  b1 = b1
  b2 = b2
  w1 = w1
  w2 = w2
  k1 = k1
  k2 = k2
  s1 = s1
  s2 = s2
  h1 = h1
  h2 = h2
  Empty = Empty
  Point = Point
  BadPoint = BadPoint
  Wrong = Wrong
  None = None
  MaxCalls = 3
  MaxDrops = 3
  MaxOutages = 2
INVARIANTS
  TypesOK
  WritesAreSound
  Ready
  OverridesReach
  
  ContractIsFair
PROPERTIES
  RowsKept
  
CHECK_DEADLOCK FALSE
