CONSTANTS
  None = None
  ann = ann
  bob = bob
  page1 = page1
  page2 = page2
  page3 = page3
  User = {ann, bob}
  Page = {page1, page3}
  Laptop = {page1}
  Owner <- TwoUsers
SPECIFICATION FairSpec
INVARIANT TypeOK
PROPERTY LeaseSpec
PROPERTY LossIsNoticed
CHECK_DEADLOCK FALSE
