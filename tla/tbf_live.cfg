SPECIFICATION FairSpec
CONSTANTS
  Callers = {c1, c2}
  Accs = {a1, a2}
  TBF_MAX = 1
  Params <- MCParams
  Asks = {2}
  Nobody = nobody
PROPERTY FetchServed
CHECK_DEADLOCK FALSE
