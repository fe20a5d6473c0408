SPECIFICATION FairSpec
CONSTANTS
  tab1 = tab1
  tab2 = tab2
  w1 = w1
  w2 = w2
  acme = acme
  rival = rival
  Tabs = {tab1, tab2}
  Wallets = {w1, w2}
  Tenants = {acme, rival}
  Home <- MCHome
  Earlier = earlier
  None = None
  PageTab = tab1
  Loads = {l1, l2}
  Public = public
  Platform = platform
  MaxChanges = 2
  TTL = 2
  MaxRead = 1
  Sites <- MCSites
CHECK_DEADLOCK FALSE
INVARIANTS
  OneIdentityPerWallet
  CacheIsOwn
  SettledPageIsOwn
  AnswersAreRecent
PROPERTIES
  EventuallyShows
