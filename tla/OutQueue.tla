------------------------------ MODULE OutQueue ------------------------------
(***************************************************************************)
(* The outgoing message queue of every socket (src/out_queue.rs): a map     *)
(* from priority to a queue of timestamped messages.  This module holds     *)
(* the operations as operators on a value `inner` of the map; the machines  *)
(* that own such a map (OutQueueMachine, TcpSock) apply them in actions.    *)
(*                                                                          *)
(* inner is a function whose DOMAIN is the set of keys in the BTreeMap, so  *)
(* a key bound to an empty queue and an absent key are different values:    *)
(* next_msg unwraps the front of the first queue and panics on the former.  *)
(* An entry [at, msg] is the (Instant, T) pair.                             *)
(***************************************************************************)
EXTENDS Integers, Sequences

CONSTANTS
  Priority,           \* the priorities in use, of type u8; smaller is more urgent
  msg_drop_priority,  \* SocketConfig: priorities below this one are never dropped
  max_msg_age_secs,   \* SocketConfig: age, in seconds, up to which a queue is kept
  TicksPerSec         \* clock ticks in a second, so that ages have a fraction

ASSUME OutQueueAssumption ==
  /\ Priority \subseteq 0 .. 255
  /\ msg_drop_priority \in 0 .. 255
  /\ max_msg_age_secs \in Nat
  /\ TicksPerSec \in Nat \ {0}

(* inner of OutQueue::new: no priority has a queue. *)
new == [p \in {} |-> <<>>]

(* timestamp.elapsed().as_secs(): whole seconds, the fraction is cut off. *)
elapsed_secs(at, now) == (now - at) \div TicksPerSec

(* The messages of one priority, or none if the priority has no queue. *)
QueueAt(inner, p) == IF p \in DOMAIN inner THEN inner[p] ELSE <<>>

-----------------------------------------------------------------------------
push_at_front(inner, when, msg, priority) ==
  [p \in DOMAIN inner \cup {priority} |->
     IF p = priority THEN <<[at |-> when, msg |-> msg]>> \o QueueAt(inner, p)
                     ELSE inner[p]]

push_at_off_by_one(inner, when, msg, priority) ==
  [p \in DOMAIN inner \cup {priority + 1} |->
     IF p = priority + 1 THEN Append(QueueAt(inner, p), [at |-> when, msg |-> msg])
                         ELSE inner[p]]

(* push, push_at: append to the priority's queue, created when absent. *)
push_at(inner, when, msg, priority) ==
  [p \in DOMAIN inner \cup {priority} |->
     IF p = priority THEN Append(QueueAt(inner, p), [at |-> when, msg |-> msg])
                     ELSE inner[p]]

-----------------------------------------------------------------------------
is_queue_valid_by_back(priority, queue, now) ==
  \/ priority < msg_drop_priority
  \/ queue = <<>>
  \/ elapsed_secs(queue[Len(queue)].at, now) <= max_msg_age_secs

is_queue_valid_any_priority(priority, queue, now) ==
  \/ queue = <<>>
  \/ elapsed_secs(Head(queue).at, now) <= max_msg_age_secs

(* Whether a queue must be kept: it is high priority, or its front message, *)
(* if there is one, is young enough.                                        *)
is_queue_valid(priority, queue, now) ==
  \/ priority < msg_drop_priority
  \/ queue = <<>>
  \/ elapsed_secs(Head(queue).at, now) <= max_msg_age_secs

expired_queues_take_while(inner, now) ==
  {p \in DOMAIN inner :
     \E q \in DOMAIN inner : p <= q /\ ~is_queue_valid(q, inner[q], now)}

(* The keys left by skip_while(is_queue_valid) on the map in key order: the *)
(* first invalid queue and every queue after it, valid or not.              *)
expired_queues(inner, now) ==
  {p \in DOMAIN inner :
     \E q \in DOMAIN inner : q <= p /\ ~is_queue_valid(q, inner[q], now)}

(* inner after drop_expired. *)
drop_expired(inner, now) ==
  [p \in DOMAIN inner \ expired_queues(inner, now) |-> inner[p]]

-----------------------------------------------------------------------------
next_key_last(inner) ==
  CHOOSE p \in DOMAIN inner : \A q \in DOMAIN inner : q <= p

(* The first key of the map in iteration order: inner.iter_mut().next(). *)
next_key(inner) ==
  CHOOSE p \in DOMAIN inner : \A q \in DOMAIN inner : p <= q

(* next_msg on a map with a key: the message it returns ... *)
next_msg(inner) == Head(inner[next_key(inner)]).msg

after_next_msg_kept(inner) == [inner EXCEPT ![next_key(inner)] = Tail(@)]

(* ... and inner after it, without the key whose queue it emptied. *)
after_next_msg(inner) ==
  LET key == next_key(inner)
      queue == Tail(inner[key])
  IN  IF queue = <<>> THEN [p \in DOMAIN inner \ {key} |-> inner[p]]
                      ELSE [inner EXCEPT ![key] = queue]

-----------------------------------------------------------------------------
(* The messages in the queues, as a set. *)
Queued(inner) ==
  UNION {{inner[p][i].msg : i \in DOMAIN inner[p]} : p \in DOMAIN inner}
=============================================================================
