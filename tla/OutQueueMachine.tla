--------------------------- MODULE OutQueueMachine ---------------------------
(***************************************************************************)
(* One OutQueue driven through its public methods in any order, while time *)
(* passes.  A message is the record [id, priority]; ids number the pushes.  *)
(***************************************************************************)
EXTENDS OutQueue

CONSTANTS
  MaxMsgs,  \* bound: number of messages pushed
  MaxNow    \* bound: last tick of the clock

ASSUME MachineAssumption == MaxMsgs \in Nat /\ MaxNow \in Nat

VARIABLES
  inner,    \* OutQueue.inner
  now,      \* the clock Instant::now() reads, in ticks
  next_id,  \* history: id of the next message pushed
  taken,    \* history: the messages next_msg returned, in order
  shed      \* history: the messages drop_expired removed

vars == <<inner, now, next_id, taken, shed>>

Message == [id : Nat, priority : Priority]

Entry == [at : Nat, msg : Message]

-----------------------------------------------------------------------------
Init ==
  /\ inner = new
  /\ now = 0
  /\ next_id = 1
  /\ taken = <<>>
  /\ shed = {}

Push(p) ==
  /\ next_id <= MaxMsgs
  /\ inner' = push_at(inner, now, [id |-> next_id, priority |-> p], p)
  /\ next_id' = next_id + 1
  /\ UNCHANGED <<now, taken, shed>>

DropExpired ==
  /\ inner' = drop_expired(inner, now)
  /\ shed' = shed \cup (Queued(inner) \ Queued(inner'))
  /\ UNCHANGED <<now, next_id, taken>>

(* next_msg returns None, and changes nothing, when the map has no key. *)
NextMsg ==
  /\ DOMAIN inner # {}
  /\ taken' = Append(taken, next_msg(inner))
  /\ inner' = after_next_msg(inner)
  /\ UNCHANGED <<now, next_id, shed>>

Tick ==
  /\ now < MaxNow
  /\ now' = now + 1
  /\ UNCHANGED <<inner, next_id, taken, shed>>

Next == (\E p \in Priority : Push(p)) \/ DropExpired \/ NextMsg \/ Tick

Spec == Init /\ [][Next]_vars

-----------------------------------------------------------------------------
(* The variables have their types. *)
TypeOK ==
  /\ DOMAIN inner \subseteq Priority
  /\ inner \in [DOMAIN inner -> Seq(Entry)]
  /\ now \in Nat
  /\ next_id \in Nat \ {0}
  /\ taken \in Seq(Message)
  /\ shed \subseteq Message

(* No key is bound to an empty queue, so unwrap!(queue.pop_front()) in      *)
(* next_msg never panics, whatever pushes, pops and drops came before.      *)
NoEmptyQueue == \A p \in DOMAIN inner : inner[p] # <<>>

(* The front of a queue is its oldest message and nothing is stamped in the *)
(* future: what entitles is_queue_valid to look at the front alone.         *)
OldestInFront ==
  \A p \in DOMAIN inner : \A i \in 1 .. Len(inner[p]) :
    /\ inner[p][i].at <= now
    /\ \A j \in i .. Len(inner[p]) : inner[p][i].at <= inner[p][j].at

(* A message is queued under its own priority, in the order of the pushes,  *)
(* and ids are those of the messages pushed.                                *)
QueuedInOrder ==
  \A p \in DOMAIN inner : \A i \in 1 .. Len(inner[p]) :
    /\ inner[p][i].msg.priority = p
    /\ inner[p][i].msg.id \in 1 .. next_id - 1
    /\ \A j \in i + 1 .. Len(inner[p]) : inner[p][i].msg.id < inner[p][j].msg.id

(* Messages of one priority leave the queue in the order they were pushed:  *)
(* those taken are in order and those waiting or shed were pushed later.    *)
FifoWithinPriority ==
  \A i \in 1 .. Len(taken) :
    /\ \A j \in i + 1 .. Len(taken) :
         taken[i].priority = taken[j].priority => taken[i].id < taken[j].id
    /\ \A p \in DOMAIN inner : \A j \in 1 .. Len(inner[p]) :
         taken[i].priority = p => taken[i].id < inner[p][j].msg.id

(* The messages taken are among those pushed. *)
TakenNumbered == \A i \in 1 .. Len(taken) : taken[i].id \in 1 .. next_id - 1

(* The inductive invariant behind the order of the messages. *)
OrderInv ==
  /\ TypeOK /\ NoEmptyQueue /\ OldestInFront /\ QueuedInOrder
  /\ TakenNumbered /\ FifoWithinPriority

(* Only drop_expired loses messages, and never one of a priority below      *)
(* msg_drop_priority: every pushed message is waiting, taken or shed, in    *)
(* exactly one of the three, and what is shed is droppable.                 *)
NothingLost ==
  LET waiting == Queued(inner)
      gone == {taken[i] : i \in 1 .. Len(taken)}
  IN  /\ {m.id : m \in waiting \cup gone \cup shed} = 1 .. next_id - 1
      /\ \A m, n \in waiting \cup gone \cup shed : m.id = n.id => m = n
      /\ waiting \cap gone = {} /\ waiting \cap shed = {} /\ gone \cap shed = {}
      /\ \A m \in shed : m.priority >= msg_drop_priority

(* After drop_expired no droppable message older than the limit waits, at   *)
(* the front or further back, although only fronts were looked at.          *)
NothingStaleKept ==
  [][DropExpired =>
       \A p \in DOMAIN inner' : \A i \in 1 .. Len(inner'[p]) :
         p >= msg_drop_priority =>
           elapsed_secs(inner'[p][i].at, now) <= max_msg_age_secs]_vars

(* Messages are shed only behind a stale one: some message of the same or a *)
(* more urgent droppable priority, shed with them, is over the age limit.   *)
ShedOnlyBehindStale ==
  [][\A m \in shed' \ shed :
       \E p \in DOMAIN inner : \E i \in 1 .. Len(inner[p]) :
         /\ msg_drop_priority <= p /\ p <= m.priority
         /\ elapsed_secs(inner[p][i].at, now) > max_msg_age_secs
         /\ inner[p][i].msg \in shed']_vars

(* What the doc comment of expired_queues says it returns: "Returns a list  *)
(* of out queues with expired messages or no messages at all."              *)
ExpiredQueuesAsDocumented ==
  \A p \in expired_queues(inner, now) :
    \/ inner[p] = <<>>
    \/ \E i \in 1 .. Len(inner[p]) :
         elapsed_secs(inner[p][i].at, now) > max_msg_age_secs

(* The queue implements the buffer it promises to be. *)
Abstract == INSTANCE PriorityBuffer
              WITH waiting <- Queued(inner), accepted <- next_id - 1

ImplementsPriorityBuffer == Abstract!Spec
=============================================================================
