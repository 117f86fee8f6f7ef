SPECIFICATION Spec
CONSTANTS
  Priority = {0, 1, 2}
  msg_drop_priority = 1
  max_msg_age_secs = 1
  TicksPerSec = 2
  MaxMsgs = 4
  MaxNow = 5
INVARIANTS TypeOK NoEmptyQueue OldestInFront FifoWithinPriority NothingLost
PROPERTIES NothingStaleKept ShedOnlyBehindStale ImplementsPriorityBuffer
CHECK_DEADLOCK FALSE
