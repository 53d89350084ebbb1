SPECIFICATION FairSpec
CONSTANTS
  Instance = {i1, i2}
  Round = {r1, r2}
  Check = {bundler, hodler}
  Refilled = {bundler}
  Review = Review
  None = None
  MaxErrors = 1
  MaxDowns = 1
  MaxLapses = 1
CHECK_DEADLOCK FALSE
INVARIANT TypeOK ReviewedRoundIsStored CopiesNeedRetries ChecksFailByStallingOnly ReviewsAwaitChecks
PROPERTY RefinesReadingsLog RoundsReviewed
