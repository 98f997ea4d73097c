SPECIFICATION Spec
CONSTANTS
  Programs <- MCPrograms
  Entry = 1
  Junk = 99

INVARIANTS BacktraceTrue CutExplained BtSound FinishTrue
CHECK_DEADLOCK FALSE
