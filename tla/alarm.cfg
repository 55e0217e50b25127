SPECIFICATION Spec
CONSTANTS
  MAX_ALARM = 3
  Seconds = {0, 1, 2}
INVARIANTS
  TypeOK
  FiresOnTime
  OwnAlarmKept
CHECK_DEADLOCK FALSE
