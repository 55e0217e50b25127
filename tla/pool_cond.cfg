SPECIFICATION FairSpec
CONSTANTS
  START = 1
  END = 5
  Workers = {w1, w2, w3}
  Main = main
  Nobody = nobody
INVARIANTS
  TypeOK
  ExactlyOnce
  NoLostWakeup
  ReportComplete
PROPERTIES
  PoolSpec
  Terminates
