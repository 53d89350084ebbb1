SPECIFICATION Spec
CONSTANTS
  Missing = Missing
  NaN = NaN
  Instance = {i1, i2}
  Bundler = {}
  Pool = {p}
  Turbo = {}
  Min = 2
  Max = 3
  Job = {j1, j2}
  Tx = {t1, t2}
  First = 1
  Funds = 6
  MaxErrors = 1
  MaxDowns = 2
CHECK_DEADLOCK FALSE
SYMMETRY Symmetry
INVARIANT TypeOK OverfillsOnlyByOverlap PaysAtMostTwice DryRunSendsNothing
