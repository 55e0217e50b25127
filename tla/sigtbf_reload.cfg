SPECIFICATION Spec
CONSTANTS
  TBF_MAX = 3
  Params <- MCParams
  Asks = {1, 2}
INVARIANT LiveBucketsFilled
CHECK_DEADLOCK FALSE
