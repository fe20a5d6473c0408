SPECIFICATION Spec
CONSTANTS
  agent = agent
  company = company
  stranger = stranger
  Addresses <- MCAddresses
  RunIds = {r1, r2, r3}
  Totals <- MCTotals
  Counts <- MCCounts
  NoAdmin = none
INVARIANTS
  SettledOnce
  IndexMatchesEvents
PROPERTIES
  ImplementsLedger
