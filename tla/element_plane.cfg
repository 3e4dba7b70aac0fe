CONSTANTS
  MaxBuffers = 2
  Width = 4
SPECIFICATION Spec
CHECK_DEADLOCK FALSE
INVARIANTS
  TypeOK
  BuffersAlive
  NoMissedWakeup
PROPERTIES
  DriftOnlyWhenStopped
  DeinitCompletesOrHeld
  StopCompletesOrLost
