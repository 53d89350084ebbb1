SPECIFICATION FairSpec
CONSTANTS
  Missing = Missing
  NaN = NaN
  Instance = {i1}
  Bundler = {}
  Pool = {}
  Turbo = {u}
  Min = 1
  Max = 1
  Job = {j1, j2}
  Tx = {t1, t2}
  First = 1
  Funds = 2
  MaxErrors = 1
  MaxDowns = 1
CHECK_DEADLOCK FALSE
PROPERTY DepletedIsRefilled
INVARIANT SeesPendingTopUps
