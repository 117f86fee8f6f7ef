---------------------------- MODULE UdtEventLoop ----------------------------
(***************************************************************************)
(* The event loop of UDT sockets (src/udt/udt_event_loop.rs; the crate      *)
(* keeps the source but no longer builds it).  Handles put actions in a set *)
(* behind a mutex; the loop's thread takes the set after each epoll.wait    *)
(* and carries the actions out, in whatever order a HashSet yields them.    *)
(* The thread owns the only lasting Arc of the set: a handle upgrades its   *)
(* Weak first and locks the mutex later, so the thread may end in between.  *)
(*                                                                          *)
(* epoll is external: a set of watched sockets that wait reports on.  A     *)
(* UdtSock that is dropped closes its socket and does not deregister it.    *)
(***************************************************************************)
EXTENDS Integers, FiniteSets, Functions

CONSTANTS
  Callers,    \* threads that use a Handle
  Socks,      \* UDT sockets
  Tokens,     \* tokens the application gives them
  Interests,  \* event sets, without UDT_EPOLL_ERR, which every one has
  Idle,       \* the call of a caller that is in none
  MaxCalls    \* bound: number of calls of register and deregister

ASSUME UdtEventLoopAssumption ==
  /\ IsFiniteSet(Callers) /\ IsFiniteSet(Socks)
  /\ Interests \subseteq SUBSET {"IN", "OUT"}
  /\ MaxCalls \in Nat

VARIABLES
  queued_actions,  \* the set behind the mutex
  pc,              \* the thread: "wait", "drain", "apply" or "exited"
  drained,         \* the thread: drained_queued_actions not yet carried out
  token_map,       \* the thread: token_map
  notified,        \* sockets and tokens of the events of the last wait, until the drain
  watched,         \* epoll: the event set of each socket it watches
  closed,          \* sockets that were closed
  call,            \* the action of each caller between upgrade and lock
  epoll_loop,      \* EpollLoop: "alive", "dropping" (inside upgrade), "joining", "dropped"
  calls,           \* number of calls begun
  met              \* history: what was in the set for a socket when its last action
                   \* was inserted, that action included

vars == <<queued_actions, pc, drained, token_map, notified, watched, closed, call,
          epoll_loop, calls, met>>

(* The variants of QueuedAction. *)
Register == [tag : {"Register"}, sock : Socks, token : Tokens, event_set : Interests]
Deregister == [tag : {"Deregister"}, sock : Socks]
ShutdownEventLoop == [tag |-> "ShutdownEventLoop"]

OnSock(actions, s) == {a \in actions \ {ShutdownEventLoop} : a.sock = s}

Empty == [s \in {} |-> {}]

(* start_event_loop. *)
Init ==
  /\ queued_actions = {} /\ pc = "wait" /\ drained = {}
  /\ token_map = Empty /\ notified = {} /\ watched = Empty /\ closed = {}
  /\ call = [c \in Callers |-> Idle]
  /\ epoll_loop = "alive" /\ calls = 0
  /\ met = Empty

-----------------------------------------------------------------------------
(* The handles.                                                             *)

(* Weak::upgrade succeeds while the thread, or another caller, has the Arc. *)
CanUpgrade ==
  \/ pc # "exited"
  \/ epoll_loop = "dropping"
  \/ \E c \in Callers : call[c] # Idle

(* register or deregister begins: it upgrades, or returns NoUdtEpoll.  The  *)
(* application makes no call for a socket it closed.                        *)
Upgrade(c, a) ==
  /\ call[c] = Idle /\ calls < MaxCalls /\ a.sock \notin closed
  /\ call' = [call EXCEPT ![c] = IF CanUpgrade THEN a ELSE Idle]
  /\ calls' = calls + 1
  /\ UNCHANGED <<queued_actions, pc, drained, token_map, notified, watched, closed, epoll_loop,
                 met>>

(* It locks the mutex, inserts its action and returns Ok. *)
Insert(c) ==
  LET a == call[c]
  IN  /\ a # Idle
      /\ queued_actions' = queued_actions \cup {a}
      /\ call' = [call EXCEPT ![c] = Idle]
      /\ met' = [s \in DOMAIN met \cup {a.sock} |->
                   IF s = a.sock THEN OnSock(queued_actions', s) ELSE met[s]]
      /\ UNCHANGED <<pc, drained, token_map, notified, watched, closed, epoll_loop, calls>>

(* Drop for the Inner of a UdtSock: the library forgets the socket. *)
Close(s) ==
  /\ s \notin closed /\ \A c \in Callers : call[c] # Idle => call[c].sock # s
  /\ closed' = closed \cup {s}
  /\ watched' = Restrict(watched, DOMAIN watched \ {s})
  /\ UNCHANGED <<queued_actions, pc, drained, token_map, notified, call, epoll_loop, calls,
                 met>>

(* Drop for EpollLoop: upgrade ... *)
DropUpgrade ==
  /\ epoll_loop = "alive"
  /\ epoll_loop' = IF CanUpgrade THEN "dropping" ELSE "joining"
  /\ UNCHANGED <<queued_actions, pc, drained, token_map, notified, watched, closed, call, calls,
                 met>>

(* ... insert ShutdownEventLoop ... *)
DropInsert ==
  /\ epoll_loop = "dropping"
  /\ queued_actions' = queued_actions \cup {ShutdownEventLoop}
  /\ epoll_loop' = "joining"
  /\ UNCHANGED <<pc, drained, token_map, notified, watched, closed, call, calls, met>>

(* ... and the Joiner waits for the thread. *)
Join ==
  /\ epoll_loop = "joining" /\ pc = "exited"
  /\ epoll_loop' = "dropped"
  /\ UNCHANGED <<queued_actions, pc, drained, token_map, notified, watched, closed, call, calls,
                 met>>

-----------------------------------------------------------------------------
(* The thread: event_loop_impl.                                             *)

(* epoll.wait returns sockets that are ready, or none and maybe an error.   *)
(* The notifier gets an event for each of them that has a token.            *)
Wait ==
  /\ pc = "wait"
  /\ \E ready \in SUBSET DOMAIN watched :
       notified' = {<<s, token_map[s]>> : s \in ready \cap DOMAIN token_map}
  /\ pc' = "drain"
  /\ UNCHANGED <<queued_actions, drained, token_map, watched, closed, call, epoll_loop,
                 calls, met>>

Drain_clone ==
  /\ pc = "drain"
  /\ drained' = queued_actions /\ notified' = {}
  /\ pc' = IF drained' = {} THEN "wait" ELSE "apply"
  /\ UNCHANGED <<queued_actions, token_map, watched, closed, call, epoll_loop, calls,
                 met>>

(* mem::replace under the lock. *)
Drain ==
  /\ pc = "drain"
  /\ drained' = queued_actions /\ notified' = {}
  /\ queued_actions' = {}
  /\ pc' = IF drained' = {} THEN "wait" ELSE "apply"
  /\ UNCHANGED <<token_map, watched, closed, call, epoll_loop, calls, met>>

Done_breaks(a) ==
  /\ pc = "apply" /\ a \in drained
  /\ drained' = drained \ {a}
  /\ pc' = "wait"
  /\ UNCHANGED <<queued_actions, notified, closed, call, epoll_loop, calls, met>>

(* One action of the batch is done; after the last the thread waits. *)
Done(a) ==
  /\ pc = "apply" /\ a \in drained
  /\ drained' = drained \ {a}
  /\ pc' = IF drained' = {} THEN "wait" ELSE "apply"
  /\ UNCHANGED <<queued_actions, notified, closed, call, epoll_loop, calls, met>>

ApplyRegister_first_token(a) ==
  /\ a \in Register
  /\ Done(a)
  /\ watched' = IF a.sock \in closed THEN watched
                ELSE [s \in DOMAIN watched \cup {a.sock} |->
                        IF s = a.sock THEN a.event_set ELSE watched[s]]
  /\ token_map' = [s \in DOMAIN token_map \cup {a.sock} |->
                     IF s \in DOMAIN token_map THEN token_map[s] ELSE a.token]

ApplyRegister_no_remove(a) ==
  /\ a \in Register
  /\ Done(a)
  /\ watched' = IF a.sock \in closed \cup DOMAIN watched THEN watched
                ELSE [s \in DOMAIN watched \cup {a.sock} |->
                        IF s = a.sock THEN a.event_set ELSE watched[s]]
  /\ token_map' = [s \in DOMAIN token_map \cup {a.sock} |->
                     IF s = a.sock THEN a.token ELSE token_map[s]]

(* remove_usock, which may fail, then add_usock, which fails for a closed   *)
(* socket; the token is stored whatever they return.                        *)
ApplyRegister(a) ==
  /\ a \in Register
  /\ Done(a)
  /\ watched' = IF a.sock \in closed THEN watched
                ELSE [s \in DOMAIN watched \cup {a.sock} |->
                        IF s = a.sock THEN a.event_set ELSE watched[s]]
  /\ token_map' = [s \in DOMAIN token_map \cup {a.sock} |->
                     IF s = a.sock THEN a.token ELSE token_map[s]]

ApplyDeregister_watching(a) ==
  /\ a \in Deregister
  /\ Done(a)
  /\ token_map' = Restrict(token_map, DOMAIN token_map \ {a.sock})
  /\ UNCHANGED watched

ApplyDeregister(a) ==
  /\ a \in Deregister
  /\ Done(a)
  /\ watched' = Restrict(watched, DOMAIN watched \ {a.sock})
  /\ token_map' = Restrict(token_map, DOMAIN token_map \ {a.sock})

ApplyShutdown_when_alone ==
  /\ pc = "apply" /\ ShutdownEventLoop \in drained
  /\ pc' = IF drained = {ShutdownEventLoop} THEN "exited" ELSE "wait"
  /\ drained' = {} /\ token_map' = Empty /\ watched' = Empty
  /\ UNCHANGED <<queued_actions, notified, closed, call, epoll_loop, calls, met>>

(* The thread returns at once: the rest of the batch is dropped, and so are *)
(* its maps and its Arc.                                                    *)
ApplyShutdown ==
  /\ pc = "apply" /\ ShutdownEventLoop \in drained
  /\ pc' = "exited"
  /\ drained' = {} /\ token_map' = Empty /\ watched' = Empty
  /\ UNCHANGED <<queued_actions, notified, closed, call, epoll_loop, calls, met>>

-----------------------------------------------------------------------------
Handles ==
  \/ \E c \in Callers : Insert(c) \/ \E a \in Register \cup Deregister : Upgrade(c, a)
  \/ \E s \in Socks : Close(s)
  \/ DropUpgrade \/ DropInsert \/ Join

Thread ==
  \/ Wait \/ Drain \/ ApplyShutdown
  \/ \E a \in drained : ApplyRegister(a) \/ ApplyDeregister(a)

Next == Handles \/ Thread

Spec == Init /\ [][Next]_vars

(* Threads run and epoll.wait times out after a second; nothing makes the   *)
(* application call.                                                        *)
Fairness ==
  /\ WF_vars(Thread) /\ WF_vars(DropInsert) /\ WF_vars(Join)
  /\ \A c \in Callers : WF_vars(Insert(c))

FairSpec == Spec /\ Fairness

-----------------------------------------------------------------------------
(* The variables have their types; the set that a batch is drawn from holds *)
(* only actions, and a batch is under way only inside the loop over it.     *)
TypeOK ==
  /\ queued_actions \subseteq Register \cup Deregister \cup {ShutdownEventLoop}
  /\ drained \subseteq Register \cup Deregister \cup {ShutdownEventLoop}
  /\ pc \in {"wait", "drain", "apply", "exited"} /\ (pc = "apply" <=> drained # {})
  /\ DOMAIN token_map \subseteq Socks /\ Range(token_map) \subseteq Tokens
  /\ notified \subseteq Socks \X Tokens /\ (notified # {} => pc = "drain")
  /\ DOMAIN watched \subseteq Socks /\ Range(watched) \subseteq Interests
  /\ closed \subseteq Socks
  /\ call \in [Callers -> Register \cup Deregister \cup {Idle}]
  /\ epoll_loop \in {"alive", "dropping", "joining", "dropped"}
  /\ calls \in 0 .. MaxCalls
  /\ DOMAIN met \subseteq Socks /\ Range(met) \subseteq SUBSET (Register \cup Deregister)

(* The two maps of the thread agree: every socket epoll watches has a       *)
(* token, so no event it reports is thrown away for want of one, and only a *)
(* socket that was closed has a token and is not watched, whatever order    *)
(* the batches were carried out in.                                         *)
MapsAgree ==
  /\ DOMAIN watched \subseteq DOMAIN token_map
  /\ DOMAIN token_map \ DOMAIN watched \subseteq closed

(* The maps show for its socket what an action asks. *)
AsAsked(a) ==
  IF a \in Register
  THEN /\ a.sock \in DOMAIN token_map /\ token_map[a.sock] = a.token
       /\ a.sock \in DOMAIN watched /\ watched[a.sock] = a.event_set
  ELSE a.sock \notin DOMAIN token_map /\ a.sock \notin DOMAIN watched

(* Once nothing is pending, a socket is registered as its last call asked.  *)
(* If that call met others in the set, any one of those may win, but as a   *)
(* whole: never a call of an earlier batch, nor the token of one and the    *)
(* event set of another.                                                    *)
RegisteredAsAsked ==
  pc \in {"wait", "drain"} =>
    \A s \in DOMAIN met \ closed :
      OnSock(queued_actions, s) = {} => \E a \in met[s] : AsAsked(a)

(* An event carries the token its socket was last registered with, and none *)
(* comes for a socket last deregistered; if calls met in the set, it is the *)
(* token of one of those, and of none before them.                          *)
NoStaleEvent ==
  \A e \in notified :
    OnSock(queued_actions, e[1]) = {} =>
      \E a \in met[e[1]] \cap Register : a.token = e[2]

(* Dropping the EpollLoop comes to an end: the thread sees the shutdown and *)
(* the join returns, whatever calls race with it.                           *)
DropTerminates == epoll_loop = "dropping" ~> epoll_loop = "dropped"

(* An action in the set is carried out, unless the loop is shut down.       *)
QueuedIsApplied ==
  \A s \in Socks :
    OnSock(queued_actions, s) # {} ~>
      \/ pc \in {"wait", "drain"} /\ OnSock(queued_actions, s) = {}
      \/ pc = "exited"
=============================================================================
