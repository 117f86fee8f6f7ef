SPECIFICATION Spec
CONSTANTS
  Priority = {0, 1}
  msg_drop_priority = 1
  max_msg_age_secs = 0
  TicksPerSec = 1
  NullCtx = null
  SERIALIZED_U32_LEN = 1
  ENCRYPTED_U32_LEN = 2
  U32 = 2
  max_payload_size = 1
  Lens = {1, 3}
  LastLong = 1
  SndCap = 2
  RcvCap = 2
  BufLen = 2
  MaxMsgs = 3
  MaxNow = 1
  FirstCtx = key
  SecondCtx = key
  SwitchAfter = 0
  KeepOnErr = {"Io"}
  AllowReset = TRUE
  AllowClose = TRUE
  AllowEncErr = TRUE
  MayInterrupt = TRUE
INVARIANTS TypeOK WellFramed DeliveredInOrder EofAfterAll OkTrueMeansWritten NoStrandedMessage NoStrandedWrite
PROPERTIES UrgentFirst ImplementsMsgChannel
CHECK_DEADLOCK FALSE
