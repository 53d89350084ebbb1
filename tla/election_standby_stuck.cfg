SPECIFICATION FairSpec
CONSTANTS
  Instance = {i1, i2}
  Session = {s1, s2}
  NoSession = NoSession
  Undefined = Undefined
  Clustered = TRUE
  LocalLeader = {i1, i2}
  MaxAsks = 1
  MaxErrors = 0
  MaxLapses = 0
CHECK_DEADLOCK FALSE
PROPERTY StandbyTakesOver
