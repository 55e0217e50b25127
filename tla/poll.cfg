SPECIFICATION FairSpec
CONSTANTS
  Clients = {c1, c2, c3}
  Talkers = {c1, c2}
  NoClient = noclient
  FD_LIMIT = 7
  MaxData = 1
  MAX_CONNECT = 4
INVARIANTS
  TypeOK
  ArrayExact
PROPERTY Served
CHECK_DEADLOCK FALSE
