SPECIFICATION LiveSpec
CONSTANTS
  Threads = {1, 2}
  Programs <- MCPrograms

INVARIANTS UserArmed NoLineSkipped ReturnsInFrame
PROPERTY MotionEnds
CHECK_DEADLOCK FALSE
