SPECIFICATION WorkerSpec
CONSTANTS
  Schedules = {s1}
  OneOff = {}
  Employees = {e1}
  Forms <- NoForms
  Calls = {c1, c2}
  UserCalls = {}
  Restarts = FALSE
  Environments <- RecordRejected
  Period = 2
  MaxTime = 1
  Platform = platform
  NoAdmin = none
  NoCall = nocall
  AgentDryRun = FALSE
SYMMETRY CallSymmetry
INVARIANTS
  PaidOncePerPayday
