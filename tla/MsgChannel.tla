----------------------------- MODULE MsgChannel -----------------------------
(***************************************************************************)
(* What a connected pair of sockets promises in one direction, without      *)
(* bytes, buffers or system calls: a message waits, is sent and is          *)
(* delivered, whole, once, in the order of sending; messages of one         *)
(* priority do not overtake one another; a message that waits is discarded  *)
(* only if it is droppable or the connection ends.                          *)
(***************************************************************************)
EXTENDS Integers, Sequences

CONSTANTS Priority, msg_drop_priority

VARIABLES
  waiting,    \* the accepted messages, records [id, priority], not yet sent
  accepted,   \* how many messages were accepted; ids count from 1
  sent,       \* the messages sent, in order
  delivered,  \* how many of the messages sent were delivered
  broken      \* the connection has ended for the sender

vars == <<waiting, accepted, sent, delivered, broken>>

Init ==
  waiting = {} /\ accepted = 0 /\ sent = <<>> /\ delivered = 0 /\ broken = FALSE

Droppable == {w \in waiting : w.priority >= msg_drop_priority}

(* One call may discard droppable messages and accept one. *)
ShedAndAccept(p) ==
  /\ accepted' = accepted + 1
  /\ \E drop \in SUBSET Droppable :
       waiting' = (waiting \ drop) \cup {[id |-> accepted', priority |-> p]}
  /\ UNCHANGED <<sent, delivered, broken>>

Shed ==
  /\ \E drop \in SUBSET Droppable : waiting' = waiting \ drop
  /\ UNCHANGED <<accepted, sent, delivered, broken>>

Send ==
  \E m \in waiting :
    /\ ~broken
    /\ \A w \in waiting : w.priority = m.priority => m.id <= w.id
    /\ sent' = Append(sent, m)
    /\ waiting' = waiting \ {m}
    /\ UNCHANGED <<accepted, delivered, broken>>

Deliver ==
  /\ delivered < Len(sent)
  /\ delivered' = delivered + 1
  /\ UNCHANGED <<waiting, accepted, sent, broken>>

(* The connection ends, and what waits may then be discarded. *)
Break ==
  /\ broken' = TRUE
  /\ waiting' \in SUBSET waiting
  /\ UNCHANGED <<accepted, sent, delivered>>

Next ==
  \/ \E p \in Priority : ShedAndAccept(p)
  \/ Shed \/ Send \/ Deliver \/ Break

Spec == Init /\ [][Next]_vars
=============================================================================
