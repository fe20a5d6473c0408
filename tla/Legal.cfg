SPECIFICATION Spec
CONSTANTS
  rebalance = rebalance
  run = run
  prepare = prepare
  Publishers = {p1, p2, p3, p4}
  Actions <- MCActions
  Kind <- MCKind
  Overlaps = {TRUE, FALSE}
  None = none
SYMMETRY PublisherSymmetry
CHECK_DEADLOCK FALSE
INVARIANTS
  VersionNamesOneDocument
PROPERTIES
  ContextIdStable
