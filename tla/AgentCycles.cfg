SPECIFICATION FairSpec
CONSTANTS
  Edits = {e1, e2}
  RiskRules <- MCRules
  DefaultRules = "default"
  NoRow = NoRow
  Jobs <- MCJobs
  JobVenue <- MCJobVenue
  Others <- MCOthers
  Deployments <- MCDeployments
  Ceiling = 2
  Funds = 5
  MaxGain = 2
  CappedTargets <- MCCapped
  GatewayTargets <- MCGateways
  SpendingLimit = 3
  PeriodLedgers = 2
  AssetRuleId = 1
  PoolRuleId = 2
  Asset = "asset"
  Pool = "pool"
CHECK_DEADLOCK FALSE
INVARIANTS
  BandHolds
  SpendCapped
  ExecutedMeansLanded
  MovesAreRecorded
PROPERTIES
  SerialTogglesKeepRules
  SwitchStops
  CyclesConclude
