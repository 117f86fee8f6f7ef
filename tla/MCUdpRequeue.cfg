SPECIFICATION Spec
CONSTANTS
  Priority = {0, 1}
  msg_drop_priority = 1
  max_msg_age_secs = 0
  TicksPerSec = 1
  SndCap = 1
  MaxMsgs = 2
  MaxNow = 1
  MaxErrs = 1
  MaxPartial = 0
  MayInterrupt = FALSE
INVARIANT FailedSendRequeued
CHECK_DEADLOCK FALSE
