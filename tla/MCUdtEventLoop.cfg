SPECIFICATION FairSpec
CONSTANTS
  Callers = {c1, c2}
  Socks = {s1, s2}
  Tokens = {t1, t2}
  Interests = {{"IN"}, {"OUT"}}
  Idle = idle
  MaxCalls = 3
INVARIANTS TypeOK MapsAgree RegisteredAsAsked NoStaleEvent
PROPERTIES DropTerminates QueuedIsApplied
CHECK_DEADLOCK FALSE
