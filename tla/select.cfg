SPECIFICATION FairSpec
CONSTANTS
  Clients = {c1, c2}
  NoClient = noclient
  FD_LIMIT = 6
  MaxData = 1
  MAX_CONNECT = 3
INVARIANTS
  TypeOK
  Watched
  TableExact
  NeverBlocks
PROPERTY ClientHeard
CHECK_DEADLOCK FALSE
