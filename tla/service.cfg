SPECIFICATION Spec
CONSTANTS
  Tid = {1, 2}
  Leader = 1
  CodeSize = 2
  Byte <- MCByte
  INT3 = "INT3"
  Images <- MCImages
  Signal = {10}
  SIGSTOP = 19
  MaxId = 2
  Commands = {"break", "delete", "continue", "thread", "write", "detach", "quit"}
  Races = {}

INVARIANTS RegistryFaithful NoEndlessWait
PROPERTY ImplementsService
CHECK_DEADLOCK FALSE
