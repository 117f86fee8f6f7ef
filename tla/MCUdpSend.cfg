SPECIFICATION FairSpec
CONSTANTS
  Priority = {0, 1}
  msg_drop_priority = 1
  max_msg_age_secs = 0
  TicksPerSec = 1
  SndCap = 1
  MaxMsgs = 3
  MaxNow = 1
  MaxErrs = 1
  MaxPartial = 1
  MayInterrupt = TRUE
INVARIANTS TypeOK EveryMessageAccounted SentInOrder NoStrandedWrite
PROPERTY AcceptedIsSent
CHECK_DEADLOCK FALSE
