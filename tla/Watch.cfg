CONSTANTS
  Interval = 2
  Timeout = 7
  MaxLoad = 1
  MaxLate = 1
  MaxErrors = 2
  MaxChanges = 2
SPECIFICATION Spec
CHECK_DEADLOCK FALSE
INVARIANTS
  NoBusySpin
  EndsInTime
  RecoveryNotMissed
PROPERTY Terminates
