SPECIFICATION SamplesFairSpec
CONSTANTS
  CPS = 2
  MaxSize = 2
  Text = 3
  MaxFile = 6
  PIECE = 2
  PIPE_SIZE = 4
  THRNR = 3
  Nobody = nobody
  Pids = {p1, p2, p3}
  Empty = empty
  Pollers = {w1, w2, w3}
  Boss = main
  NoOwner = unlocked
  START = 4
  Ends = {4, 8}
  Texts <- MCTexts
  BUFSIZE = 3
  STEP = 2
INVARIANT RunsAlone
PROPERTIES
  CopiesComplete
  TakesTurns
  HandsOut
CHECK_DEADLOCK FALSE
