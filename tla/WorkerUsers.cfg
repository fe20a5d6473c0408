SPECIFICATION FairWorkerSpec
CONSTANTS
  Schedules = {s1}
  OneOff = {s1}
  Employees = {e1}
  Forms <- DateForms
  Calls = {c1, u1}
  UserCalls = {u1}
  Restarts = TRUE
  Environments <- UserEnvironments
  Period = 2
  MaxTime = 0
  Platform = platform
  NoAdmin = none
  NoCall = nocall
  AgentDryRun = FALSE
CONSTRAINT PayingTenant
INVARIANTS
  NoPaydaySkipped
PROPERTIES
  RunsConclude
