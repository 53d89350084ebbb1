SPECIFICATION Spec
CONSTANTS
  Instance = {i1, i2}
  Job = {j1, j2}
  Call = {c1, c2}
  NoInstance = NoInstance
  NoJob = NoJob
  IsLive = FALSE
  DoClean = TRUE
  MaxFlows = 1
  MaxDowns = 2
CHECK_DEADLOCK FALSE
SYMMETRY Symmetry
INVARIANT TypeOK LoopDiesOnlyInWindow ChainsHaveOrigins LeaderLeavesLoopRunning
PROPERTY RefinesRecheckChain
