SPECIFICATION FairSpec
CONSTANTS
  TBF_MAX = 3
  Params <- MCParams
  Asks = {1, 2}
INVARIANTS
  TypeOK
  TakesWhatIsThere
  SpoilsOnlyInDestroy
  KilledOnlyInUnload
  HandlesLive
PROPERTIES
  BucketsSpec
  FetchReturns
CHECK_DEADLOCK FALSE
