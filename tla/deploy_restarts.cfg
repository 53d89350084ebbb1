SPECIFICATION FairSpec
CONSTANTS
  Instance = {i1, i2}
  Session = {s1}
  NoSession = NoSession
  Undefined = Undefined
  Clustered = TRUE
  LocalLeader = {i1}
  MaxAsks = 1
  MaxErrors = 0
  MaxLapses = 0
  Job = {j1, j2}
  Call = {c1, c2}
  NoInstance = NoInstance
  NoJob = NoJob
  IsLive = TRUE
  DoClean = FALSE
  MaxFlows = 1
  MaxDowns = 1
CHECK_DEADLOCK FALSE
PROPERTY RunsUnlessLost
