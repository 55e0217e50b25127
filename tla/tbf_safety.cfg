SPECIFICATION Spec
CONSTANTS
  Callers = {c1, c2}
  Accs = {a1, a2}
  TBF_MAX = 2
  Params <- MCParams
  Asks = {2}
  Nobody = nobody
SYMMETRY MCSymmetry
INVARIANTS
  TypeOK
  TokenBounded
  NoLostWakeup
  HandlesLive
  SlotReserved
  CrashOnlyByDestroy
PROPERTY BucketsSpec
CHECK_DEADLOCK FALSE
