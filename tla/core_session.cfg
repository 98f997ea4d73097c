SPECIFICATION Spec
CONSTANTS
  Unknown = "t0"
  Entry = 1
  Handler = 18
  Restorer = 27
  Programs <- MCPrograms

INVARIANTS FramesTrue ShownTrue SelectionOwned
CHECK_DEADLOCK FALSE
