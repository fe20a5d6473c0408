SPECIFICATION Spec
CONSTANTS
  Payouts = {p1, p2}
  Submits = {s1, s2}
  Service = service
  Wallet = wallet
  NoAdmin = noadmin
  None = none
  Staffs <- MCStaffs
  Environments <- MCEnvironments
  MaxOther = 1
  MaxEdits = 1
SYMMETRY CallSymmetry
CHECK_DEADLOCK FALSE
INVARIANTS
  NeverBothLand
  CompletedMeansLanded
  BooksAgree
PROPERTIES
  PaidLikeALedger
