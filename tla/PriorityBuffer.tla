--------------------------- MODULE PriorityBuffer ---------------------------
(***************************************************************************)
(* What the outgoing queue promises, without timestamps and without the    *)
(* map: accepted messages wait; the one taken next is the oldest of the     *)
(* most urgent; waiting messages are shed only from some droppable          *)
(* priority onwards, all of them at once.                                   *)
(***************************************************************************)
EXTENDS Integers, Sequences

CONSTANTS Priority, msg_drop_priority

VARIABLES
  waiting,   \* the accepted messages, records [id, priority], not yet taken or shed
  accepted,  \* how many messages were accepted; ids count from 1 in this order
  taken,     \* the messages taken, in order
  shed       \* the messages shed

vars == <<waiting, accepted, taken, shed>>

Init == waiting = {} /\ accepted = 0 /\ taken = <<>> /\ shed = {}

Accept(p) ==
  /\ accepted' = accepted + 1
  /\ waiting' = waiting \cup {[id |-> accepted', priority |-> p]}
  /\ UNCHANGED <<taken, shed>>

(* m goes before every other waiting message. *)
First(m) ==
  \A w \in waiting : \/ m.priority < w.priority
                     \/ m.priority = w.priority /\ m.id <= w.id

Take ==
  \E m \in waiting :
    /\ First(m)
    /\ taken' = Append(taken, m)
    /\ waiting' = waiting \ {m}
    /\ UNCHANGED <<accepted, shed>>

Shed(cut) ==
  LET behind == {w \in waiting : w.priority >= cut}
  IN  /\ cut >= msg_drop_priority
      /\ shed' = shed \cup behind
      /\ waiting' = waiting \ behind
      /\ UNCHANGED <<accepted, taken>>

Next == Take \/ \E p \in Priority : Accept(p) \/ Shed(p)

Spec == Init /\ [][Next]_vars
=============================================================================
