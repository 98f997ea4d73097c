CONSTANTS
  Tid = {1, 2}
  Leader = 1
  Origins = {"Launched", "Attached"}
  Faults = {"refuse", "clone", "kill"}
SPECIFICATION Spec

INVARIANTS AsFound HitReported BreakpointBack
CHECK_DEADLOCK FALSE
