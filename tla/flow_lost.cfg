SPECIFICATION FairSpec
CONSTANTS
  Instance = {i1, i2}
  Round = {r1}
  Check = {bundler, hodler}
  Refilled = {bundler}
  Review = Review
  None = None
  MaxErrors = 0
  MaxDowns = 2
  MaxLapses = 0
CHECK_DEADLOCK FALSE
PROPERTY ReadingsAreStored
