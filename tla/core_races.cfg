SPECIFICATION Spec
CONSTANTS
  Tid = {1, 2, 3}
  Leader = 1
  CodeSize = 1
  Byte <- MCByte
  INT3 = "INT3"
  Images <- MCImages
  Signal = {10}
  SIGSTOP = 19
  MaxId = 2
  Commands = {"break", "delete", "continue", "stepi", "thread", "detach", "quit"}
  Races = {"child_first", "group_exit", "leader_exit"}
INVARIANTS PatchDiscipline SingleRunner LiftedForOwner ReleasedPristine
PROPERTY SignalKept
CHECK_DEADLOCK FALSE
