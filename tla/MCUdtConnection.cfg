SPECIFICATION FairSpec
CONSTANTS
  Priority = {0, 1}
  msg_drop_priority = 1
  max_msg_age_secs = 0
  TicksPerSec = 1
  NullCtx = null
  SERIALIZED_U32_LEN = 1
  ENCRYPTED_U32_LEN = 2
  U32 = 4
  max_payload_size = 1
  Kinds <- MCKinds
  Cap = 2
  KeepOnErr = {"Udt"}
  MaxMsgs = 2
  MaxNow = 1
  Idle = idle
  MaxCalls = 1
INVARIANTS TypeOK DeliveredInOrder
PROPERTIES ImplementsMsgChannel AcceptedIsDelivered
