SPECIFICATION Spec
CONSTANTS
  Schedules = {s1}
  OneOff = {}
  Employees = {e1, e2}
  Forms <- MCForms
  Calls = {c1, c2}
  Environments <- MCEnvironments
  Period = 3
  MaxTime = 0
  Platform = platform
  NoAdmin = none
CONSTRAINT OthersKeepWallets
SYMMETRY CallSymmetry
INVARIANTS
  CompletedMeansSettled
  RecordImpliesPaid
  MoneyLeavesARow
PROPERTIES
  DryRunIsHarmless
