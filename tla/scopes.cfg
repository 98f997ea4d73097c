SPECIFICATION Spec
CONSTANTS
  Pcs = {1, 2, 3}
  Names = {x, y}
  Versions = {4, 5}
  kMaxInlineContexts = 2
  MaxDies = 5

INVARIANTS PrintTrue LocalsTrue InlineOwned
CHECK_DEADLOCK FALSE
