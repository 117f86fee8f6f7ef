SPECIFICATION Spec
CONSTANTS
  Priority = {0}
  msg_drop_priority = 1
  max_msg_age_secs = 0
  TicksPerSec = 1
  NullCtx = null
  SERIALIZED_U32_LEN = 1
  ENCRYPTED_U32_LEN = 2
  U32 = 4
  max_payload_size = 1
  Lens = {1, 2}
  LastLong = 0
  SndCap = 2
  RcvCap = 2
  BufLen = 2
  MaxMsgs = 3
  MaxNow = 0
  FirstCtx = null
  SecondCtx = key
  SwitchAfter = 1
  KeepOnErr = {}
  AllowReset = FALSE
  AllowClose = FALSE
  AllowEncErr = FALSE
  MayInterrupt = TRUE
INVARIANTS ContextsAgree ReaderBounded
CHECK_DEADLOCK FALSE
