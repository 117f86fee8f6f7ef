------------------------- MODULE UdtEventLoopProofs -------------------------
(***************************************************************************)
(* What the runs check of UdtEventLoop, proved for any number of callers,   *)
(* sockets, tokens and calls.                                               *)
(*                                                                          *)
(* RegisteredAsAsked speaks of moments when no batch is under way.  Its     *)
(* inductive form, LoopInv, follows the actions that met in the set through *)
(* the three places they can be in: the set, then the batch, where their    *)
(* number shrinks, then the two maps, which show the last one carried out.  *)
(***************************************************************************)
EXTENDS UdtEventLoop, TLAPS

(* An action, a token and an event are there because of a call. *)
FromCalls ==
  /\ \A a \in (queued_actions \cup drained) \ {ShutdownEventLoop} : a.sock \in DOMAIN met
  /\ DOMAIN token_map \subseteq DOMAIN met
  /\ \A e \in notified : e[1] \in DOMAIN met

(* The actions of a socket that met are in the set; else in the batch; else *)
(* one of them at least was carried out, and the maps show the latest.      *)
MetFollowed ==
  \A s \in DOMAIN met :
    /\ met[s] # {} /\ \A a \in met[s] : a.sock = s
    /\ OnSock(queued_actions, s) \in {{}, met[s]}
    /\ OnSock(queued_actions, s) = {} =>
         /\ OnSock(drained, s) \subseteq met[s]
         /\ OnSock(drained, s) # met[s] /\ pc # "exited" /\ s \notin closed =>
              \E a \in met[s] : AsAsked(a)

LoopInv ==
  /\ TypeOK
  /\ MapsAgree
  /\ DOMAIN watched \cap closed = {}
  /\ FromCalls
  /\ MetFollowed
  /\ NoStaleEvent
-----------------------------------------------------------------------------
(* The variants of QueuedAction are told apart by their tags, and both      *)
(* kinds of call name a socket.                                             *)
LEMMA ActionShape ==
  /\ \A a \in Register : /\ a # ShutdownEventLoop /\ a \notin Deregister
                         /\ a.sock \in Socks /\ a.token \in Tokens
                         /\ a.event_set \in Interests
  /\ \A a \in Deregister : a # ShutdownEventLoop /\ a \notin Register /\ a.sock \in Socks
<1>1. ASSUME NEW a \in Register
      PROVE  a.tag = "Register" /\ a.sock \in Socks /\ a.token \in Tokens /\ a.event_set \in Interests
  BY DEF Register
<1>2. ASSUME NEW a \in Deregister
      PROVE  a.tag = "Deregister" /\ a.sock \in Socks
  BY DEF Deregister
<1>3. ShutdownEventLoop.tag = "ShutdownEventLoop"
  BY DEF ShutdownEventLoop
<1> QED
  BY <1>1, <1>2, <1>3

(* The empty map has no key. *)
LEMMA EmptyShape == DOMAIN Empty = {} /\ Range(Empty) = {}
BY DEF Empty, Range

-----------------------------------------------------------------------------
(* The type invariant holds at first. *)
LEMMA TypeInit == Init => TypeOK
BY UdtEventLoopAssumption, EmptyShape DEF Init, TypeOK, UdtEventLoopAssumption

(* Every step keeps the type invariant. *)
LEMMA TypeStep == TypeOK /\ [Next]_vars => TypeOK'
<1> SUFFICES ASSUME TypeOK, [Next]_vars PROVE TypeOK'
  OBVIOUS
<1> USE DEF TypeOK
<1>1. ASSUME NEW c \in Callers, NEW a \in Register \cup Deregister, Upgrade(c, a) PROVE TypeOK'
  BY <1>1, UdtEventLoopAssumption DEF Upgrade, UdtEventLoopAssumption
<1>2. ASSUME NEW c \in Callers, Insert(c) PROVE TypeOK'
  <2> DEFINE a == call[c]
  <2>1. a \in Register \cup Deregister /\ a.sock \in Socks
    BY <1>2, ActionShape DEF Insert
  <2>2. queued_actions' = queued_actions \cup {a} /\ call' = [call EXCEPT ![c] = Idle]
    BY <1>2 DEF Insert
  <2>3. OnSock(queued_actions', a.sock) \subseteq Register \cup Deregister
    BY <2>1, <2>2 DEF OnSock
  <2>4. DOMAIN met' \subseteq Socks /\ Range(met') \subseteq SUBSET (Register \cup Deregister)
    <3> DEFINE S == OnSock(queued_actions', a.sock)
    <3>1. met' = [s \in DOMAIN met \cup {a.sock} |-> IF s = a.sock THEN S ELSE met[s]]
      BY <1>2 DEF Insert
    <3> HIDE DEF a, S
    <3>2. DOMAIN met' = DOMAIN met \cup {a.sock} /\ Range(met') \subseteq Range(met) \cup {S}
      BY <3>1 DEF Range
    <3> QED
      BY <3>2, <2>1, <2>3 DEF S
  <2>5. UNCHANGED <<pc, drained, token_map, notified, watched, closed, epoll_loop, calls>>
    BY <1>2 DEF Insert
  <2> HIDE DEF a
  <2> QED
    BY <2>1, <2>2, <2>3, <2>4, <2>5
<1>3. ASSUME NEW s \in Socks, Close(s) PROVE TypeOK'
  BY <1>3 DEF Close, Restrict, Range
<1>4. CASE DropUpgrade
  BY <1>4 DEF DropUpgrade
<1>5. CASE DropInsert
  BY <1>5 DEF DropInsert
<1>6. CASE Join
  BY <1>6 DEF Join
<1>7. CASE Wait
  BY <1>7 DEF Wait, Range
<1>8. CASE Drain
  BY <1>8 DEF Drain
<1>9. ASSUME NEW a \in drained, ApplyRegister(a) PROVE TypeOK'
  <2>1. a.sock \in Socks /\ a.token \in Tokens /\ a.event_set \in Interests
    BY <1>9, ActionShape DEF ApplyRegister
  <2>2. DOMAIN token_map' \subseteq Socks /\ Range(token_map') \subseteq Tokens
    BY <1>9, <2>1 DEF ApplyRegister, Range
  <2>3. DOMAIN watched' \subseteq Socks /\ Range(watched') \subseteq Interests
    BY <1>9, <2>1 DEF ApplyRegister, Range
  <2> QED
    BY <1>9, <2>2, <2>3 DEF ApplyRegister, Done
<1>10. ASSUME NEW a \in drained, ApplyDeregister(a) PROVE TypeOK'
  BY <1>10 DEF ApplyDeregister, Done, Restrict, Range
<1>11. CASE ApplyShutdown
  BY <1>11, EmptyShape DEF ApplyShutdown
<1>12. CASE UNCHANGED vars
  BY <1>12 DEF vars
<1> QED
  BY <1>1, <1>2, <1>3, <1>4, <1>5, <1>6, <1>7, <1>8, <1>9, <1>10, <1>11, <1>12
     DEF Next, Handles, Thread

(* Type correctness of the loop, its handles and the history. *)
THEOREM LoopTypeCorrect == Spec => []TypeOK
BY TypeInit, TypeStep, PTL DEF Spec

-----------------------------------------------------------------------------
(* A step that leaves the set, the batch, the maps and the history alone    *)
(* keeps the invariant. *)
LEMMA LoopFrame ==
  ASSUME LoopInv, TypeOK',
         UNCHANGED <<queued_actions, pc, drained, token_map, notified, watched, closed, met>>
  PROVE  LoopInv'
BY DEF LoopInv, MapsAgree, FromCalls, MetFollowed, AsAsked, NoStaleEvent, OnSock

(* The insertion of a call's action: what is then in the set for its socket *)
(* is what met.                                                             *)
LEMMA InsertStep ==
  ASSUME LoopInv, TypeOK', NEW c \in Callers, Insert(c)
  PROVE  LoopInv'
<1> DEFINE a == call[c]
           t == a.sock
<1>1. /\ queued_actions' = queued_actions \cup {a}
      /\ met' = [s \in DOMAIN met \cup {t} |->
                  IF s = t THEN OnSock(queued_actions', s) ELSE met[s]]
      /\ UNCHANGED <<pc, drained, token_map, notified, watched, closed>>
  BY DEF Insert
<1>2. a \in Register \cup Deregister /\ a # ShutdownEventLoop
  BY ActionShape DEF Insert, LoopInv, TypeOK
<1> HIDE DEF a
<1>3. a \in OnSock(queued_actions', t)
  BY <1>1, <1>2 DEF OnSock
<1>4. ASSUME NEW s, s # t PROVE OnSock(queued_actions', s) = OnSock(queued_actions, s)
  BY <1>1, <1>2, <1>4 DEF OnSock
<1>5. DOMAIN met' = DOMAIN met \cup {t} /\ met'[t] = OnSock(queued_actions', t)
  BY <1>1
<1>6. ASSUME NEW s \in DOMAIN met, s # t PROVE met'[s] = met[s]
  BY <1>1, <1>6
<1> HIDE DEF t
<1>7. FromCalls'
  BY <1>1, <1>2, <1>5 DEF FromCalls, LoopInv, t
<1>8. MetFollowed'
  <2> SUFFICES ASSUME NEW s \in DOMAIN met'
               PROVE  /\ met'[s] # {} /\ \A b \in met'[s] : b.sock = s
                      /\ OnSock(queued_actions', s) \in {{}, met'[s]}
                      /\ OnSock(queued_actions', s) = {} =>
                           /\ OnSock(drained', s) \subseteq met'[s]
                           /\ OnSock(drained', s) # met'[s] /\ pc' # "exited" /\ s \notin closed' =>
                                \E b \in met'[s] : AsAsked(b)'
    BY DEF MetFollowed, OnSock
  <2>1. CASE s = t
    <3>1. \A b \in OnSock(queued_actions', t) : b.sock = t
      BY DEF OnSock
    <3> QED
      BY <2>1, <3>1, <1>3, <1>5
  <2>2. CASE s # t
    <3>1. s \in DOMAIN met /\ met'[s] = met[s]
      BY <2>2, <1>5, <1>6
    <3>2. \A b : AsAsked(b)' <=> AsAsked(b)
      BY <1>1 DEF AsAsked
    <3> QED
      BY <3>1, <3>2, <2>2, <1>1, <1>4 DEF LoopInv, MetFollowed
  <2> QED
    BY <2>1, <2>2
<1>9. NoStaleEvent'
  <2> SUFFICES ASSUME NEW e \in notified', OnSock(queued_actions', e[1]) = {}
               PROVE  \E b \in met'[e[1]] \cap Register : b.token = e[2]
    BY DEF NoStaleEvent, OnSock
  <2>1. e[1] # t
    BY <1>3
  <2>2. e \in notified /\ OnSock(queued_actions, e[1]) = {} /\ e[1] \in DOMAIN met
    BY <2>1, <1>1, <1>4 DEF LoopInv, FromCalls
  <2> QED
    BY <2>1, <2>2, <1>6 DEF LoopInv, NoStaleEvent
<1> QED
  BY <1>1, <1>7, <1>8, <1>9 DEF LoopInv, MapsAgree

(* The application closes a socket: what it last asked for is moot. *)
LEMMA CloseStep ==
  ASSUME LoopInv, TypeOK', NEW t \in Socks, Close(t)
  PROVE  LoopInv'
<1>1. /\ closed' = closed \cup {t}
      /\ watched' = Restrict(watched, DOMAIN watched \ {t})
      /\ UNCHANGED <<queued_actions, pc, drained, token_map, notified, met>>
  BY DEF Close
<1>2. DOMAIN watched' = DOMAIN watched \ {t} /\ \A s \in DOMAIN watched : s # t => watched'[s] = watched[s]
  BY <1>1 DEF Restrict
<1>3. MetFollowed'
  <2>1. ASSUME NEW a, a.sock # t PROVE AsAsked(a) => AsAsked(a)'
    BY <2>1, <1>1, <1>2 DEF AsAsked
  <2> QED
    BY <2>1, <1>1 DEF LoopInv, MetFollowed, OnSock
<1>4. NoStaleEvent' /\ FromCalls'
  BY <1>1 DEF LoopInv, NoStaleEvent, FromCalls, OnSock
<1> QED
  BY <1>1, <1>2, <1>3, <1>4 DEF LoopInv, MapsAgree

(* ShutdownEventLoop is no call for a socket. *)
LEMMA DropInsertStep ==
  ASSUME LoopInv, TypeOK', DropInsert
  PROVE  LoopInv'
<1>1. \A s : OnSock(queued_actions', s) = OnSock(queued_actions, s)
  BY DEF DropInsert, OnSock
<1>2. UNCHANGED <<pc, drained, token_map, notified, watched, closed, met>>
  BY DEF DropInsert
<1>3. MetFollowed'
  <2> SUFFICES ASSUME NEW s \in DOMAIN met
               PROVE  /\ met[s] # {} /\ \A a \in met[s] : a.sock = s
                      /\ OnSock(queued_actions', s) \in {{}, met[s]}
                      /\ OnSock(queued_actions', s) = {} =>
                           /\ OnSock(drained, s) \subseteq met[s]
                           /\ OnSock(drained, s) # met[s] /\ pc # "exited" /\ s \notin closed =>
                                \E a \in met[s] : AsAsked(a)'
    BY <1>2 DEF MetFollowed, OnSock
  <2>1. \A a : AsAsked(a)' <=> AsAsked(a)
    BY <1>2 DEF AsAsked
  <2> QED
    BY <2>1, <1>1 DEF LoopInv, MetFollowed
<1>4. NoStaleEvent'
  BY <1>1, <1>2 DEF LoopInv, NoStaleEvent, OnSock
<1>5. FromCalls'
  BY <1>2 DEF LoopInv, FromCalls, DropInsert
<1> QED
  BY <1>2, <1>3, <1>4, <1>5 DEF LoopInv, MapsAgree

(* The events of a wait: no batch is under way, so a socket epoll reports   *)
(* is registered as one of the calls that met last asked, unless those are  *)
(* still in the set.                                                        *)
LEMMA WaitStep ==
  ASSUME LoopInv, TypeOK', Wait
  PROVE  LoopInv'
<1>1. PICK ready \in SUBSET DOMAIN watched :
        notified' = {<<s, token_map[s]>> : s \in ready \cap DOMAIN token_map}
  BY DEF Wait
<1>2. /\ pc = "wait" /\ pc' = "drain" /\ drained = {}
      /\ UNCHANGED <<queued_actions, drained, token_map, watched, closed, met>>
  BY DEF Wait, LoopInv, TypeOK
<1>3. ASSUME NEW e \in notified'
      PROVE  /\ e[1] \in DOMAIN watched /\ e[1] \in DOMAIN token_map
             /\ e[2] = token_map[e[1]] /\ e[1] \in DOMAIN met /\ e[1] \notin closed
  BY <1>1 DEF LoopInv, FromCalls
<1>4. NoStaleEvent'
  <2> SUFFICES ASSUME NEW e \in notified', OnSock(queued_actions', e[1]) = {}
               PROVE  \E a \in met'[e[1]] \cap Register : a.token = e[2]
    BY DEF NoStaleEvent, OnSock
  <2>1. e[1] \in DOMAIN met /\ OnSock(queued_actions, e[1]) = {} /\ OnSock(drained, e[1]) = {}
    BY <1>2, <1>3 DEF OnSock
  <2>2. PICK a \in met[e[1]] : AsAsked(a) /\ a.sock = e[1]
    BY <2>1, <1>2, <1>3 DEF LoopInv, MetFollowed
  <2> QED
    BY <2>2, <1>2, <1>3 DEF AsAsked
<1>5. MetFollowed'
  BY <1>2 DEF LoopInv, MetFollowed, AsAsked, OnSock
<1>6. FromCalls'
  BY <1>2, <1>3 DEF LoopInv, FromCalls
<1> QED
  BY <1>2, <1>4, <1>5, <1>6 DEF LoopInv, MapsAgree

(* The set becomes the batch: no batch was under way. *)
LEMMA DrainStep ==
  ASSUME LoopInv, TypeOK', Drain
  PROVE  LoopInv'
<1>1. /\ pc = "drain" /\ drained = {} /\ pc' # "exited"
      /\ drained' = queued_actions /\ queued_actions' = {} /\ notified' = {}
      /\ UNCHANGED <<token_map, watched, closed, met>>
  BY DEF Drain, LoopInv, TypeOK
<1>2. \A s : /\ OnSock(drained, s) = {} /\ OnSock(queued_actions', s) = {}
             /\ OnSock(drained', s) = OnSock(queued_actions, s)
  BY <1>1 DEF OnSock
<1>3. MetFollowed'
  <2> SUFFICES ASSUME NEW s \in DOMAIN met
               PROVE  /\ met[s] # {} /\ \A a \in met[s] : a.sock = s
                      /\ OnSock(drained', s) \subseteq met[s]
                      /\ OnSock(drained', s) # met[s] /\ s \notin closed =>
                           \E a \in met[s] : AsAsked(a)'
    BY <1>1, <1>2 DEF MetFollowed, OnSock
  <2>1. \A a : AsAsked(a)' <=> AsAsked(a)
    BY <1>1 DEF AsAsked
  <2> QED
    BY <2>1, <1>1, <1>2 DEF LoopInv, MetFollowed
<1>4. NoStaleEvent' /\ FromCalls'
  BY <1>1 DEF LoopInv, NoStaleEvent, FromCalls
<1> QED
  BY <1>1, <1>3, <1>4 DEF LoopInv, MapsAgree

-----------------------------------------------------------------------------
(* Carrying out an action of the batch changes the maps for its socket      *)
(* only, and the batch shrinks by it: enough that the maps then show it.    *)
LEMMA ApplyStep ==
  ASSUME LoopInv, TypeOK', NEW a \in drained, a \in Register \cup Deregister, Done(a),
         UNCHANGED <<queued_actions, closed, met>>,
         \A s : s # a.sock => /\ s \in DOMAIN token_map' <=> s \in DOMAIN token_map
                              /\ s \in DOMAIN watched' <=> s \in DOMAIN watched
                              /\ s \in DOMAIN token_map => token_map'[s] = token_map[s]
                              /\ s \in DOMAIN watched => watched'[s] = watched[s],
         a.sock \in DOMAIN watched' => a.sock \in DOMAIN token_map',
         a.sock \in DOMAIN token_map' => a.sock \in DOMAIN watched' \cup closed,
         a.sock \in DOMAIN watched' => a.sock \notin closed,
         a.sock \notin closed => AsAsked(a)'
  PROVE  LoopInv'
<1> DEFINE t == a.sock
<1>1. pc = "apply" /\ drained' = drained \ {a} /\ notified' = {} /\ a # ShutdownEventLoop
  BY ActionShape DEF Done, LoopInv, TypeOK
<1>2. t \in DOMAIN met /\ a \in OnSock(drained, t)
  BY <1>1 DEF LoopInv, FromCalls, OnSock
<1>3. \A s : /\ OnSock(drained', s) \subseteq OnSock(drained, s)
             /\ s # t => OnSock(drained', s) = OnSock(drained, s)
  BY <1>1 DEF OnSock
<1>4. MetFollowed'
  <2> SUFFICES ASSUME NEW s \in DOMAIN met
               PROVE  /\ met[s] # {} /\ \A b \in met[s] : b.sock = s
                      /\ OnSock(queued_actions, s) \in {{}, met[s]}
                      /\ OnSock(queued_actions, s) = {} =>
                           /\ OnSock(drained', s) \subseteq met[s]
                           /\ OnSock(drained', s) # met[s] /\ pc' # "exited" /\ s \notin closed =>
                                \E b \in met[s] : AsAsked(b)'
    BY DEF MetFollowed, OnSock
  <2>1. CASE s = t
    <3>1. OnSock(queued_actions, s) = {} => a \in met[s]
      BY <2>1, <1>2 DEF LoopInv, MetFollowed
    <3> QED
      BY <2>1, <3>1, <1>3 DEF LoopInv, MetFollowed
  <2>2. CASE s # t
    <3>1. \A b : b.sock = s /\ AsAsked(b) => AsAsked(b)'
      BY <2>2 DEF AsAsked
    <3>2. pc # "exited"
      BY <1>1
    <3> QED
      BY <2>2, <3>1, <3>2, <1>3 DEF LoopInv, MetFollowed
  <2> QED
    BY <2>1, <2>2
<1>5. FromCalls'
  <2>1. DOMAIN token_map' \subseteq DOMAIN met
    BY <1>2 DEF LoopInv, FromCalls
  <2> QED
    BY <2>1, <1>1 DEF LoopInv, FromCalls
<1>6. NoStaleEvent'
  BY <1>1 DEF NoStaleEvent
<1>7. MapsAgree' /\ DOMAIN watched' \cap closed' = {}
  BY DEF LoopInv, MapsAgree
<1> QED
  BY <1>4, <1>5, <1>6, <1>7 DEF LoopInv

(* A register of the batch is carried out. *)
LEMMA RegisterStep ==
  ASSUME LoopInv, TypeOK', NEW a \in drained, ApplyRegister(a)
  PROVE  LoopInv'
<1>1. a \in Register /\ Done(a) /\ UNCHANGED <<queued_actions, closed, met>>
  BY DEF ApplyRegister, Done
<1>2. /\ DOMAIN token_map' = DOMAIN token_map \cup {a.sock}
      /\ token_map'[a.sock] = a.token
      /\ \A s \in DOMAIN token_map : s # a.sock => token_map'[s] = token_map[s]
  BY DEF ApplyRegister
<1>3. a.sock \notin closed => /\ DOMAIN watched' = DOMAIN watched \cup {a.sock}
                              /\ watched'[a.sock] = a.event_set
                              /\ \A s \in DOMAIN watched : s # a.sock => watched'[s] = watched[s]
  BY DEF ApplyRegister
<1>4. a.sock \in closed => watched' = watched /\ a.sock \notin DOMAIN watched
  BY DEF ApplyRegister, LoopInv
<1>5. a.sock \notin closed => AsAsked(a)'
  BY <1>1, <1>2, <1>3 DEF AsAsked
<1> HIDE DEF LoopInv
<1> QED
  BY <1>1, <1>2, <1>3, <1>4, <1>5, ApplyStep

(* A deregister of the batch is carried out. *)
LEMMA DeregisterStep ==
  ASSUME LoopInv, TypeOK', NEW a \in drained, ApplyDeregister(a)
  PROVE  LoopInv'
<1>1. /\ a \in Deregister /\ a \notin Register /\ Done(a)
      /\ UNCHANGED <<queued_actions, closed, met>>
  BY ActionShape DEF ApplyDeregister, Done
<1>2. /\ DOMAIN token_map' = DOMAIN token_map \ {a.sock}
      /\ \A s \in DOMAIN token_map : s # a.sock => token_map'[s] = token_map[s]
      /\ DOMAIN watched' = DOMAIN watched \ {a.sock}
      /\ \A s \in DOMAIN watched : s # a.sock => watched'[s] = watched[s]
  BY DEF ApplyDeregister, Restrict
<1>3. AsAsked(a)'
  BY <1>1, <1>2 DEF AsAsked
<1> QED
  BY <1>1, <1>2, <1>3, ApplyStep

(* The thread returns with both maps dropped. *)
LEMMA ShutdownStep ==
  ASSUME LoopInv, TypeOK', ApplyShutdown
  PROVE  LoopInv'
<1>1. /\ pc' = "exited" /\ drained' = {} /\ notified' = {}
      /\ DOMAIN token_map' = {} /\ DOMAIN watched' = {}
      /\ UNCHANGED <<queued_actions, closed, met>>
  BY EmptyShape DEF ApplyShutdown, LoopInv, TypeOK
<1> QED
  BY <1>1 DEF LoopInv, MapsAgree, FromCalls, MetFollowed, NoStaleEvent, OnSock

-----------------------------------------------------------------------------
(* LoopInv holds at first. *)
LEMMA LoopInit == Init => LoopInv
BY TypeInit, EmptyShape
   DEF Init, LoopInv, MapsAgree, FromCalls, MetFollowed, NoStaleEvent

(* Every step of the handles, the application and the thread keeps it. *)
LEMMA LoopStep == LoopInv /\ [Next]_vars => LoopInv'
<1> SUFFICES ASSUME LoopInv, [Next]_vars PROVE LoopInv'
  OBVIOUS
<1>0. TypeOK'
  BY TypeStep DEF LoopInv
<1>1. CASE UNCHANGED vars \/ DropUpgrade \/ Join
           \/ \E c \in Callers, a \in Register \cup Deregister : Upgrade(c, a)
  BY <1>0, <1>1, LoopFrame DEF vars, DropUpgrade, Join, Upgrade
<1>2. CASE Handles
  BY <1>0, <1>1, <1>2, InsertStep, CloseStep, DropInsertStep DEF Handles
<1>3. CASE Thread
  BY <1>0, <1>3, WaitStep, DrainStep, RegisterStep, DeregisterStep, ShutdownStep DEF Thread
<1> QED
  BY <1>1, <1>2, <1>3 DEF Next

(* LoopInv is an invariant. *)
THEOREM LoopInvariant == Spec => []LoopInv
BY LoopInit, LoopStep, PTL DEF Spec

(* Every event epoll can report finds a token in token_map, and every token *)
(* there is of a socket that is watched or was closed, for every            *)
(* interleaving of calls, closes and batches.                               *)
THEOREM MapsCorrect == Spec => []MapsAgree
<1>1. LoopInv => MapsAgree
  BY DEF LoopInv
<1> QED
  BY <1>1, LoopInvariant, PTL

(* Nothing pending: one of the calls that met was carried out last. *)
LEMMA AskedKept == LoopInv => RegisteredAsAsked
<1> SUFFICES ASSUME LoopInv, pc \in {"wait", "drain"},
                    NEW s \in DOMAIN met \ closed, OnSock(queued_actions, s) = {}
             PROVE  \E a \in met[s] : AsAsked(a)
  BY DEF RegisteredAsAsked
<1>1. OnSock(drained, s) = {}
  BY DEF LoopInv, TypeOK, OnSock
<1> QED
  BY <1>1 DEF LoopInv, MetFollowed

(* With no batch under way and nothing pending for it, an open socket is    *)
(* registered as its last call asked, or as one of those that call met.     *)
THEOREM RegistrationCorrect == Spec => []RegisteredAsAsked
BY AskedKept, LoopInvariant, PTL

(* No event carries a token other than one its socket was last registered   *)
(* with, and none comes for a socket last deregistered.                     *)
THEOREM EventsFresh == Spec => []NoStaleEvent
<1>1. LoopInv => NoStaleEvent
  BY DEF LoopInv
<1> QED
  BY <1>1, LoopInvariant, PTL
=============================================================================
