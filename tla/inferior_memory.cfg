SPECIFICATION Spec
CONSTANTS
  WordSize = 2
  Top = 6
  Mapped = {0, 1, 2, 3, 5}
  Values = {"x", "y"}
  Int3 = "cc"
  BpAddr = {1, 2}
  MaxWrite = 3

INVARIANTS ViewTrue ReadTrue
CHECK_DEADLOCK FALSE
