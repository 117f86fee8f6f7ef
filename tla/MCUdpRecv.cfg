SPECIFICATION FairSpec
CONSTANTS
  NullCtx = null
  SERIALIZED_U32_LEN = 1
  ENCRYPTED_U32_LEN = 2
  U32 = 4
  Contexts = {null, key}
  RcvCap = 2
  MaxArrivals = 3
  MaxErrs = 1
  MaxSwitches = 2
  MayInterrupt = TRUE
INVARIANTS TypeOK ReturnedAsArrived
PROPERTY ArrivedIsReturned
CHECK_DEADLOCK FALSE
