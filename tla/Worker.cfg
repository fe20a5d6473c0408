SPECIFICATION WorkerSpec
CONSTANTS
  Schedules = {s1}
  OneOff = {}
  Employees = {e1}
  Forms <- DateForms
  Calls = {c1, c2, c3}
  UserCalls = {}
  Restarts = FALSE
  Environments <- WorkerEnvironments
  Period = 1
  MaxTime = 2
  Platform = platform
  NoAdmin = none
  NoCall = nocall
  AgentDryRun = FALSE
CONSTRAINT WorkerBound
SYMMETRY CallSymmetry
INVARIANTS
  
  
  
  WorkerPaysWhatIsDue
