SPECIFICATION FairSpec
CONSTANTS
  Priority = {0, 1}
  msg_drop_priority = 1
  max_msg_age_secs = 0
  TicksPerSec = 1
  NullCtx = null
  SERIALIZED_U32_LEN = 1
  ENCRYPTED_U32_LEN = 2
  U32 = 4
  max_payload_size = 1
  Lens = {1}
  LastLong = 0
  SndCap = 2
  RcvCap = 2
  BufLen = 2
  MaxMsgs = 2
  MaxNow = 1
  FirstCtx = key
  SecondCtx = key
  SwitchAfter = 0
  KeepOnErr = {}
  AllowReset = FALSE
  AllowClose = TRUE
  AllowEncErr = TRUE
  MayInterrupt = TRUE
PROPERTIES AcceptedIsWritten WrittenIsDelivered CloseIsSeen
CHECK_DEADLOCK FALSE
