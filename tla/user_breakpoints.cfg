SPECIFICATION Spec
CONSTANTS
  Entry = 1
  RBrk = 6
  Func = {2, 7}
  Base = {3, 4}
  Environments <- MCEnvironments

INVARIANTS EntriesBacked RequestsFollow SafeDetach
CHECK_DEADLOCK FALSE
