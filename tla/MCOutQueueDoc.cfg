SPECIFICATION Spec
CONSTANTS
  Priority = {0, 1, 2}
  msg_drop_priority = 1
  max_msg_age_secs = 1
  TicksPerSec = 2
  MaxMsgs = 4
  MaxNow = 5
INVARIANT ExpiredQueuesAsDocumented
CHECK_DEADLOCK FALSE
