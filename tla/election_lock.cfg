SPECIFICATION BusyStoreSpec
CONSTANTS
  Instance = {i1, i2}
  Session = {s1, s2}
  NoSession = NoSession
  Undefined = Undefined
  Clustered = TRUE
  LocalLeader = {i1, i2}
  MaxAsks = 2
  MaxErrors = 1
  MaxLapses = 1
CHECK_DEADLOCK FALSE
INVARIANT TypeOK LeaderHoldsLock LeaderResolved StandbyIsTold
PROPERTY StopFreesLock StandbyTakesOver
