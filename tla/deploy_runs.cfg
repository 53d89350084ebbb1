SPECIFICATION FairSpec
CONSTANTS
  Instance = {i1, i2}
  Session = {s1, s2}
  NoSession = NoSession
  Undefined = Undefined
  Clustered = TRUE
  LocalLeader = {i1, i2}
  MaxAsks = 1
  MaxErrors = 0
  MaxLapses = 1
  Job = {j1}
  Call = {c1, c2}
  NoInstance = NoInstance
  NoJob = NoJob
  IsLive = TRUE
  DoClean = TRUE
  MaxFlows = 1
  MaxDowns = 0
CHECK_DEADLOCK FALSE
PROPERTY RunsContinuously
INVARIANT OneSeederWithLock StartedServiceRuns
