SPECIFICATION Spec
CONSTANTS
  ann = ann
  bob = bob
  lab = lab
  acme = acme
  board = board
  r1 = r1
  r2 = r2
  User <- TheUsers
  Dept = {lab}
  Customer = {acme}
  Product = {board}
  CustomerOf <- OneProduct
  Grant <- TheEditors
  Request = {r1, r2}
  At <- Apart
  Bootstrap = {ann, bob}
  MaxCalls = 4
  None = None
PROPERTIES
  OneWriter
CHECK_DEADLOCK FALSE
