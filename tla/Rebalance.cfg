SPECIFICATION Spec
CONSTANTS
  pool = pool
  vault = vault
  d1 = d1
  Calls = {c1, c2, c3}
  Refs = {pool, vault}
  SymbolOf <- MCSymbolOf
  Amounts = {0, 1, 2, 3}
  Decisions = {d1}
  Payload <- MCPayload
  Settings <- MCSettings
  Funds = 2
  DefindexLive = FALSE
  NoDecision = nodecision
  NoRef = null
  Platform = platform
  NoAdmin = none
  MaxAmount = 9
SYMMETRY CallSymmetry
CHECK_DEADLOCK FALSE
INVARIANTS
  TypeOK
  SerialMovesAreCovered
  BooksMatchVenues
  NothingMinted
  SerialDecisionOnce
