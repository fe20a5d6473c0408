SPECIFICATION Spec
CONSTANTS
  platform = platform
  stranger = stranger
  Addresses <- MCAddresses
  Keys = {k1, k2}
  Directions <- MCDirections
  Amounts <- MCAmounts
  MaxAmount = 3
  NoAdmin = none
  MaxFlows = 6
CONSTRAINT FewFlows
INVARIANTS
  BalancesMatchFlows
