SPECIFICATION FairSpec
CONSTANTS
  Libraries <- MCLibraries
  HALF = 4
  FD_LIMIT = 9
  MAX_MSG = 12
  LEN_MAX = 13
INVARIANTS
  TypeOK
  ListExact
  EntriesRead
PROPERTY GetsList
CHECK_DEADLOCK FALSE
