SPECIFICATION FairSpec
CONSTANTS
  Tid = {1, 2, 3, 4, 5}
  Leader = 2
  MaxPasses = 3
  MaxTasks = 4
  Races = {"group_exit", "leader_exit", "signal"}

INVARIANTS AttachComplete FailedAttachReleases
PROPERTY AttachEnds
CHECK_DEADLOCK FALSE
