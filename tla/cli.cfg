SPECIFICATION Spec
CONSTANTS
  Pid = {1, 2}
  Tid = {1, 2}
  Image = {i1, i2}
  MaxClock = 4
  Environments = {
    {"fork", "clone", "exec", "exit", "throw", "motion_exec", "bad_exec_elf", "bad_process_elf"},
    {"fork", "exec", "throw", "partial_write"}}

INVARIANTS ValueTrue ImageTrue
CHECK_DEADLOCK FALSE
