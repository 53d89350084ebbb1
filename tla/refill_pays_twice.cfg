SPECIFICATION Spec
CONSTANTS
  Missing = Missing
  NaN = NaN
  Instance = {i1, i2}
  Bundler = {b}
  Pool = {}
  Turbo = {}
  Min = 1
  Max = 2
  Job = {j1, j2}
  Tx = {t1, t2}
  First = 1
  Funds = 4
  MaxErrors = 0
  MaxDowns = 1
CHECK_DEADLOCK FALSE
SYMMETRY Symmetry
INVARIANT PaysOnce
