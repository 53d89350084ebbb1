SPECIFICATION FairSpec
CONSTANTS
  Missing = Missing
  NaN = NaN
  Instance = {i1}
  Bundler = {}
  Pool = {p}
  Turbo = {}
  Min = 2
  Max = 3
  Job = {j1, j2}
  Tx = {t1, t2}
  First = 1
  Funds = 4
  MaxErrors = 0
  MaxDowns = 0
CHECK_DEADLOCK FALSE
PROPERTY DepletedIsRefilled
