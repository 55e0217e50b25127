SPECIFICATION FairSpec
CONSTANTS
  Callers = {c1}
  Accs = {a1}
  TBF_MAX = 1
  Params <- MCParams
  Asks = {2}
  Nobody = nobody
PROPERTY DestroyReturns
CHECK_DEADLOCK FALSE
