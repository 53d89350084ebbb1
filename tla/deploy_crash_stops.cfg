SPECIFICATION FairSpec
CONSTANTS
  Instance = {i1, i2}
  Session = {s1, s2, s3}
  NoSession = NoSession
  Undefined = Undefined
  Clustered = TRUE
  LocalLeader = {i1, i2}
  MaxAsks = 1
  MaxErrors = 0
  MaxLapses = 0
  Job = {j1}
  Call = {c1}
  NoInstance = NoInstance
  NoJob = NoJob
  IsLive = TRUE
  DoClean = FALSE
  MaxFlows = 1
  MaxDowns = 1
CHECK_DEADLOCK FALSE
PROPERTY RunsContinuously
