--------------------------- MODULE UdtConnection ---------------------------
(***************************************************************************)
(* The two UdtSocks of UdtSock served by the event loop of UdtEventLoop:    *)
(* the application registers them through a Handle, the loop's thread waits *)
(* for the library's epoll, which is level-triggered, and the Notifier      *)
(* passes events to the application, whose thread then calls read or        *)
(* write(None).  That thread has both sockets, so it is in one call at a    *)
(* time; the loop's thread and the library run beside it.  The EpollLoop    *)
(* outlives the connection.                                                 *)
(***************************************************************************)
EXTENDS UdtSock, FiniteSets

CONSTANTS
  Idle,     \* the call of an application that is in none
  MaxCalls  \* bound: number of later calls of register, reregister and deregister

ASSUME UdtConnectionAssumption == MaxCalls \in Nat

VARIABLES queued_actions, pc, drained, token_map, notified, watched, call, epoll_loop,
          calls, met

loopVars == <<queued_actions, pc, drained, token_map, notified, watched, call, epoll_loop,
              calls, met>>
vars == <<sockVars, loopVars>>

Socks == {"snd", "rcv"}

(* The sockets the application dropped. *)
closed ==
  (IF w_pc = "closed" THEN {"snd"} ELSE {}) \cup (IF r_pc = "closed" THEN {"rcv"} ELSE {})

(* A socket's token is its own name, and one direction needs one interest. *)
Loop == INSTANCE UdtEventLoop
  WITH Callers <- {"app"}, Tokens <- Socks, Interests <- {{"IN"}, {"OUT"}}

(* Evented for Inner: register and reregister are one. *)
Register(s) ==
  [tag |-> "Register", sock |-> s, token |-> s,
   event_set |-> IF s = "snd" THEN {"OUT"} ELSE {"IN"}]

Deregister(s) == [tag |-> "Deregister", sock |-> s]

(* Both sockets were registered, and the loop has carried that out. *)
Init ==
  /\ InitSock
  /\ queued_actions = {} /\ pc = "wait" /\ drained = {} /\ notified = {}
  /\ token_map = [s \in Socks |-> s] /\ watched = [s \in Socks |-> Register(s).event_set]
  /\ call = [c \in {"app"} |-> Idle] /\ epoll_loop = "alive" /\ calls = 0
  /\ met = [s \in Socks |-> {Register(s)}]

-----------------------------------------------------------------------------
(* The application's thread is in no call of read, write or the Handle. *)
Free == r_pc # "recv" /\ w_pc # "flush" /\ call["app"] = Idle

Evented ==
  /\ UNCHANGED sockVars
  /\ \/ \E s \in Socks : \E a \in {Register(s), Deregister(s)} :
          Free /\ Loop!Upgrade("app", a)
     \/ Loop!Insert("app")

(* epoll.wait returns the watched sockets that are ready; the Notifier      *)
(* passes the event of each that has a token to the application.            *)
Wait ==
  /\ UNCHANGED <<senderVars, libVars, receiverVars, now, next_id, written, delivered, gone>>
  /\ notified' = {<<s, token_map[s]>> : s \in Ready \cap DOMAIN watched \cap DOMAIN token_map}
  /\ events' = events \cup {e[2] : e \in notified'}
  /\ Loop!Wait

Thread ==
  \/ Wait
  \/ /\ UNCHANGED sockVars
     /\ Loop!Drain \/ \E a \in drained : Loop!ApplyRegister(a) \/ Loop!ApplyDeregister(a)

(* A handler of the receiver runs; an error makes the application drop it,  *)
(* and a dropped socket leaves epoll without being deregistered.            *)
Reading ==
  /\ (Free /\ (OnReadable \/ ReadBuffered)) \/ Recv
  /\ IF r_pc' = "closed" THEN Loop!Close("rcv") ELSE UNCHANGED loopVars

Writing ==
  /\ \/ \E m \in Kinds : Free /\ Write(m)
     \/ Free /\ (WriteUnencodable \/ OnWritable)
     \/ Flush
  /\ UNCHANGED loopVars

CloseSender == Free /\ DropSender /\ Loop!Close("snd")

Environment == (Library \/ Break \/ Tick) /\ UNCHANGED loopVars

Next == Evented \/ Thread \/ Reading \/ Writing \/ CloseSender \/ Environment

Spec == Init /\ [][Next]_vars

(* The application's thread ends a call it is in and handles a writable     *)
(* event.                                                                   *)
HandlesWritable ==
  \/ ((Free /\ OnWritable) \/ Flush) /\ UNCHANGED loopVars
  \/ UNCHANGED sockVars /\ Loop!Insert("app")

(* The threads run, epoll.wait returns, the library connects and transmits; *)
(* nothing makes the application write, register or drop a socket.  Its     *)
(* thread handles the events of a poll in turn, so writable events do not   *)
(* keep it from a readable one for ever.                                    *)
Fairness ==
  /\ WF_vars(Thread) /\ WF_vars(HandlesWritable) /\ SF_vars(Reading)
  /\ WF_vars(Library /\ UNCHANGED loopVars)

FairSpec == Spec /\ Fairness

-----------------------------------------------------------------------------
(* The variables of the sockets and of the loop have their types. *)
TypeOK == SockTypeOK /\ Loop!TypeOK

(* The application's last call for the socket registered it, and met no     *)
(* deregister of the socket in the set.                                     *)
Registered(s) == s \in DOMAIN met /\ met[s] = {Register(s)}

(* The ids of the messages accepted that were neither delivered nor shed. *)
Pending ==
  1 .. next_id - 1 \ ({delivered[i] : i \in DOMAIN delivered} \cup {f.id : f \in gone})

(* A message is in the receiver's buffer to its last byte. *)
Received(i) ==
  \E k \in DOMAIN read_state.read_buffer :
    LET c == read_state.read_buffer[k]
    IN  c.frame.id = i /\ c.k = Len(serialize_with_len(c.frame))

Returned(i) == \E k \in DOMAIN delivered : delivered[k] = i

(* Every message accepted is delivered or shed while both sockets are       *)
(* registered, the sender is not dropped and the connection holds:          *)
(* registering again while events are on their way, events for what is      *)
(* already read and a full buffer hold up nothing.  What was received is    *)
(* returned whatever follows: an error of recv takes nothing from an        *)
(* application that reads on, and neither waiting for an event nor the end  *)
(* comes before it.                                                         *)
AcceptedIsDelivered ==
  /\ Pending # {} ~>
       \/ Pending = {}
       \/ link = "broken" \/ closed # {}
       \/ \E s \in Socks : ~Registered(s)
  /\ [](r_pc \in {"idle", "closed"} => \A i \in 1 .. MaxMsgs : ~Received(i))
  /\ [][\A i \in 1 .. MaxMsgs : Received(i) => (Received(i) \/ Returned(i))']_vars
=============================================================================
