---------------------------- MODULE UdpSendProofs ----------------------------
(***************************************************************************)
(* What the runs check of UdpSend, proved for every set of priorities,      *)
(* every drop rule, any number of messages and errors and a send buffer of  *)
(* any size.                                                                *)
(*                                                                          *)
(* The argument is about sets: a message is waiting in one of the two       *)
(* methods, was sent whole, was shed or was lost.  What push, drop_expired  *)
(* and next_msg do to those sets are the facts of OutQueueTheorems.         *)
(***************************************************************************)
EXTENDS UdpSend, OutQueueTheorems, FiniteSetTheorems

(* What both methods sent whole, and shed. *)
AllSent == {sent[i].msg : i \in {i \in DOMAIN sent : sent[i].whole}}

Shed == UNION {shed[m] : m \in Modes}

(* The messages accepted that still exist somewhere. *)
Known == Waiting \cup AllSent \cup Shed \cup Lost

(* The queues are as next_msg needs them, and current_write, which holds at *)
(* most one message, is ahead of the queue.                                 *)
QueuesInv ==
  \A m \in Modes :
    /\ Numbered(out_queue[m], next_id - 1)
    /\ Len(current_write[m]) <= 1
    /\ \A x \in Held(m) : \A y \in Queued(out_queue[m]) :
         x.priority = y.priority => x.id < y.id

(* What was sent through a method is ahead of what waits in it. *)
SentInv ==
  /\ \A i \in DOMAIN sent : sent[i].msg.id \in 1 .. next_id - 1
  /\ SentInOrder
  /\ \A i \in DOMAIN sent : \A x \in Waits(sent[i].mode) :
       x.priority = sent[i].msg.priority => sent[i].msg.id <= x.id

(* Every message has an id of its own and is in one place. *)
PlacesInv ==
  /\ \A x \in Known : x.id \in 1 .. next_id - 1
  /\ \A x, y \in Known : x.id = y.id => x = y
  /\ w_pc # "gone" => 1 .. next_id - 1 \subseteq {x.id : x \in Known}
  /\ Waits("write") \cap Waits("write_to") = {}
  /\ Waiting \cap AllSent = {} /\ Waiting \cap Shed = {} /\ Waiting \cap Lost = {}
  /\ AllSent \cap Shed = {} /\ AllSent \cap Lost = {} /\ Shed \cap Lost = {}
  /\ \A i, j \in DOMAIN sent : sent[i].whole /\ sent[j].whole /\ sent[i].msg = sent[j].msg => i = j
  /\ \A x \in Shed : x.priority >= msg_drop_priority

(* What a method has, sent, shed or lost was given to it. *)
GivenInv ==
  /\ \A m \in Modes : \A x \in Waits(m) \cup shed[m] \cup lost[m] : x.id \in given[m]
  /\ \A i \in DOMAIN sent : sent[i].msg.id \in given[sent[i].mode]
  /\ given["write"] \cap given["write_to"] = {}
  /\ given["write"] \cup given["write_to"] = 1 .. next_id - 1

(* Data waits only where something will come for it. *)
WakeInv ==
  /\ \A m \in Modes :
       HasData(m) => \/ w_pc = m
                     \/ m \in to_flush \cup interrupted \/ wr_event \/ in_kernel = SndCap
  /\ w_pc = "gone" => \A m \in Modes : ~HasData(m)

SendInv == TypeOK /\ QueuesInv /\ SentInv /\ PlacesInv /\ GivenInv /\ WakeInv

-----------------------------------------------------------------------------
(* The definitions, in the form the steps below use them.                   *)

(* The messages of UdpSend are those OutQueueTheorems numbers. *)
LEMMA MessageShape ==
  /\ Message = NumberedMessage
  /\ \A x \in Message : x.id \in Nat /\ x.priority \in Nat /\ x.priority \in Priority
  /\ msg_drop_priority \in Nat
<1>1. Message = NumberedMessage
  BY DEF Message, NumberedMessage
<1>2. msg_drop_priority \in Nat
  BY OutQueueAssumption DEF OutQueueAssumption
<1> QED
  BY <1>1, <1>2, IdOrderShape

(* Ids count from 1. *)
LEMMA IdBelow == \A k \in Nat \ {0} : k - 1 \in Nat
OBVIOUS

(* Waiting is what the two methods still have to send. *)
LEMMA WaitingShape ==
  /\ Waiting = Waits("write") \cup Waits("write_to")
  /\ Waiting' = Waits("write")' \cup Waits("write_to")'
BY DEF Waiting, Waits, Held, Modes

(* What the invariant says of one method. *)
LEMMA MethodShape ==
  ASSUME TypeOK, QueuesInv, NEW m \in Modes
  PROVE  /\ next_id - 1 \in Nat /\ Numbered(out_queue[m], next_id - 1)
         /\ current_write[m] \in Seq(Message)
         /\ current_write[m] = <<>> => Held(m) = {}
         /\ current_write[m] # <<>> => Held(m) = {current_write[m][1]}
         /\ Held(m) \subseteq Message /\ Queued(out_queue[m]) \subseteq Message
         /\ HasData(m) <=> Waits(m) # {}
<1>1. next_id - 1 \in Nat /\ Numbered(out_queue[m], next_id - 1)
  BY DEF TypeOK, QueuesInv
<1>2. /\ Queued(out_queue[m]) \subseteq Message
      /\ DOMAIN out_queue[m] = {} <=> Queued(out_queue[m]) = {}
  BY <1>1, NumberedQueued, MessageShape
<1>3. current_write[m] \in Seq(Message) /\ Len(current_write[m]) <= 1
  BY DEF TypeOK, QueuesInv
<1>4. CASE current_write[m] = <<>>
  <2>1. Held(m) = {}
    BY <1>4 DEF Held
  <2> QED
    BY <1>1, <1>2, <1>3, <1>4, <2>1 DEF HasData, Waits
<1>5. CASE current_write[m] # <<>>
  <2>1. Len(current_write[m]) = 1 /\ DOMAIN current_write[m] = {1}
    <3>1. Len(current_write[m]) \in Nat \ {0}
      BY <1>3, <1>5
    <3>2. Len(current_write[m]) = 1
      <4> DEFINE l == Len(current_write[m])
      <4>1. l \in Nat \ {0} /\ l <= 1
        BY <1>3, <3>1
      <4> HIDE DEF l
      <4>2. l = 1
        BY <4>1
      <4> QED
        BY <4>2 DEF l
    <3>3. DOMAIN current_write[m] = 1 .. 1
      BY <1>3, <3>2
    <3> QED
      BY <3>2, <3>3
  <2>2. Held(m) = {current_write[m][1]}
    BY <2>1 DEF Held
  <2>3. current_write[m][1] \in Message
    BY <1>3, <2>1, ElementOfSeq
  <2> QED
    BY <1>1, <1>2, <1>3, <1>5, <2>2, <2>3 DEF HasData, Waits
<1> QED
  BY <1>4, <1>5

(* What a datagram sent is made of. *)
LEMMA SentShape ==
  ASSUME TypeOK
  PROVE  /\ Len(sent) \in Nat /\ DOMAIN sent = 1 .. Len(sent)
         /\ \A i \in DOMAIN sent : /\ sent[i].mode \in Modes /\ sent[i].msg \in Message
                                   /\ sent[i].whole \in BOOLEAN
<1>1. sent \in Seq([mode : Modes, msg : Message, whole : BOOLEAN])
  BY DEF TypeOK
<1>2. Len(sent) \in Nat /\ DOMAIN sent = 1 .. Len(sent)
  BY <1>1
<1>3. \A i \in 1 .. Len(sent) : sent[i] \in [mode : Modes, msg : Message, whole : BOOLEAN]
  BY <1>1, ElementOfSeq
<1> QED
  BY <1>2, <1>3

(* A message sent whole is one of the datagrams sent whole. *)
LEMMA AllSentShape ==
  \A x : x \in AllSent <=> \E i \in DOMAIN sent : sent[i].whole /\ sent[i].msg = x
BY DEF AllSent

-----------------------------------------------------------------------------
(* The start of a call: drop_expired moves messages from the queue to shed, *)
(* and write(Some) adds one with a new id.                                  *)
LEMMA StartStep ==
  ASSUME SendInv, NEW m \in Modes, StartCall(m), w_pc' # "gone",
         NEW Q, out_queue' = [out_queue EXCEPT ![m] = Q],
         NEW fresh, Queued(Q) = Queued(Kept(m)) \cup fresh, Numbered(Q, next_id' - 1),
         \/ fresh = {} /\ next_id' = next_id
         \/ \E p \in Priority : /\ fresh = {[id |-> next_id, priority |-> p]}
                                /\ next_id' = next_id + 1
  PROVE  QueuesInv' /\ SentInv' /\ PlacesInv' /\ shed' \in [Modes -> SUBSET Message]
<1> DEFINE n == next_id - 1
           old == Queued(out_queue[m])
           kept == Queued(Kept(m))
<1>1. TypeOK /\ QueuesInv /\ SentInv /\ PlacesInv
  BY DEF SendInv
<1>2. /\ n \in Nat /\ next_id = n + 1 /\ now \in Nat /\ Numbered(out_queue[m], n)
      /\ old \subseteq Message
  <2>1. next_id \in Nat \ {0} /\ now \in Nat
    BY <1>1 DEF TypeOK
  <2>2. Numbered(out_queue[m], n) /\ old \subseteq Message
    BY <1>1, MethodShape
  <2> QED
    BY <2>1, <2>2
<1>3. /\ kept \subseteq old
      /\ \A x \in old \ kept : x.priority >= msg_drop_priority
  BY <1>2, DropNumbered DEF Kept
<1>4. /\ shed' = [shed EXCEPT ![m] = @ \cup (old \ kept)] /\ Shed' = Shed \cup (old \ kept)
      /\ UNCHANGED <<current_write, sent, lost>> /\ Lost' = Lost
  <2>1. shed \in [Modes -> SUBSET Message]
    BY <1>1 DEF TypeOK
  <2>2. shed' = [shed EXCEPT ![m] = @ \cup (old \ kept)] /\ UNCHANGED <<current_write, sent, lost>>
    BY DEF StartCall
  <2> HIDE DEF old, kept
  <2>3. Shed' = Shed \cup (old \ kept)
    BY <2>1, <2>2 DEF Shed
  <2> QED
    BY <2>2, <2>3 DEF Lost
<1>5. \/ fresh = {} /\ next_id' - 1 = n
      \/ \E f \in Message : fresh = {f} /\ f.id = n + 1 /\ next_id' - 1 = n + 1
  <2>1. CASE fresh = {} /\ next_id' = next_id
    BY <2>1
  <2>2. ASSUME NEW p \in Priority, fresh = {[id |-> next_id, priority |-> p]}, next_id' = next_id + 1
        PROVE  \E f \in Message : fresh = {f} /\ f.id = n + 1 /\ next_id' - 1 = n + 1
    <3> DEFINE f == [id |-> next_id, priority |-> p]
    <3>1. f \in Message /\ f.id = n + 1
      BY <1>2 DEF Message
    <3>2. next_id' - 1 = n + 1
      BY <1>2, <2>2
    <3> QED
      BY <2>2, <3>1, <3>2
  <2> QED
    BY <2>1, <2>2
<1>6. /\ out_queue'[m] = Q
      /\ \A o \in Modes : o # m => out_queue'[o] = out_queue[o]
  BY <1>1 DEF TypeOK
<1>7. \A o \in Modes : Held(o)' = Held(o)
  BY <1>4 DEF Held
<1>8. Held(m) \cap old = {} /\ Held(m) \subseteq Message
  <2>1. Held(m) \subseteq Message
    BY <1>1, MethodShape
  <2>2. \A x \in Held(m) : x \in old => x.id < x.id /\ x.id \in Nat
    BY <1>1, <2>1, MessageShape DEF QueuesInv
  <2> QED
    BY <2>1, <2>2
<1>9. /\ Waits(m)' = (Waits(m) \ (old \ kept)) \cup fresh
      /\ \A o \in Modes : o # m => Waits(o)' = Waits(o)
      /\ old \subseteq Waits(m)
  BY <1>3, <1>6, <1>7, <1>8 DEF Waits
<1>10. AllSent' = AllSent
  BY <1>4 DEF AllSent
<1>11. Waiting' = (Waiting \ (old \ kept)) \cup fresh
  BY <1>1, <1>9, WaitingShape DEF Modes, PlacesInv
<1> HIDE DEF n, old, kept
<1>12. Known' = Known \cup fresh
  BY <1>4, <1>9, <1>10, <1>11, WaitingShape DEF Known, Modes
<1>13. \A x \in Known : x.id \in 1 .. n
  BY <1>1 DEF PlacesInv, n
<1>14. fresh \cap Known = {}
  BY <1>2, <1>5, <1>13
<1>15. QueuesInv'
  <2> SUFFICES ASSUME NEW o \in Modes
               PROVE  /\ Numbered(out_queue'[o], next_id' - 1)
                      /\ Len(current_write'[o]) <= 1
                      /\ \A x \in Held(o)' : \A y \in Queued(out_queue'[o]) :
                           x.priority = y.priority => x.id < y.id
    BY DEF QueuesInv
  <2>1. CASE o = m
    <3>1. ASSUME NEW x \in Held(m), NEW y \in fresh PROVE x.id < y.id
      <4>1. x \in Known
        BY WaitingShape DEF Known, Waits, Modes
      <4> QED
        BY <4>1, <1>2, <1>5, <1>13
    <3>2. ASSUME NEW x \in Held(m), NEW y \in kept, x.priority = y.priority PROVE x.id < y.id
      BY <3>2, <1>1, <1>3 DEF QueuesInv, old
    <3> QED
      BY <2>1, <3>1, <3>2, <1>1, <1>4, <1>6, <1>7 DEF QueuesInv, kept
  <2>2. CASE o # m
    <3>1. Numbered(out_queue[o], next_id' - 1)
      <4>1. Numbered(out_queue[o], n)
        BY <1>1 DEF QueuesInv, n
      <4> QED
        BY <4>1, <1>2, <1>5, NumberedQueued
    <3> QED
      BY <2>2, <3>1, <1>1, <1>4, <1>6, <1>7 DEF QueuesInv
  <2> QED
    BY <2>1, <2>2
<1>16. SentInv'
  <2>1. \A i \in DOMAIN sent' : sent'[i].msg.id \in 1 .. next_id' - 1
    BY <1>1, <1>2, <1>4, <1>5 DEF SentInv, n
  <2>2. SentInOrder'
    BY <1>1, <1>4 DEF SentInv, SentInOrder
  <2>3. ASSUME NEW i \in DOMAIN sent', NEW o \in Modes, sent'[i].mode = o,
               NEW x \in Waits(o)', x.priority = sent'[i].msg.priority
        PROVE  sent'[i].msg.id <= x.id
    <3>1. i \in DOMAIN sent /\ sent'[i] = sent[i]
      BY <1>4
    <3>2. x \in Waits(o) \/ x \in fresh
      BY <1>9
    <3>3. sent[i].msg.id \in 1 .. n
      BY <3>1, <1>1 DEF SentInv, n
    <3>4. CASE x \in fresh
      BY <3>1, <3>3, <3>4, <1>2, <1>5
    <3>5. CASE x \in Waits(o)
      BY <2>3, <3>1, <3>5, <1>1 DEF SentInv
    <3> QED
      BY <3>2, <3>4, <3>5
  <2>4. \A i \in DOMAIN sent' : sent'[i].mode \in Modes
    BY <1>1, <1>4, SentShape
  <2> QED
    BY <2>1, <2>2, <2>3, <2>4 DEF SentInv
<1>17. PlacesInv'
  <2>1. \A x \in Known' : x.id \in 1 .. next_id' - 1
    BY <1>2, <1>5, <1>12, <1>13
  <2>2. \A x, y \in Known' : x.id = y.id => x = y
    <3>1. \A x, y \in Known : x.id = y.id => x = y
      BY <1>1 DEF PlacesInv
    <3>2. \A x \in Known : \A f \in fresh : x.id # f.id
      BY <1>2, <1>5, <1>13
    <3>3. \A f, g \in fresh : f = g
      BY <1>5
    <3> QED
      BY <3>1, <3>2, <3>3, <1>12
  <2>3. 1 .. next_id' - 1 \subseteq {x.id : x \in Known'}
    <3>1. 1 .. n \subseteq {x.id : x \in Known}
      BY <1>1 DEF PlacesInv, StartCall, n
    <3>2. ASSUME NEW i \in 1 .. next_id' - 1 PROVE i \in 1 .. n \/ \E x \in fresh : x.id = i
      BY <1>2, <1>5
    <3> QED
      BY <3>1, <3>2, <1>12
  <2>4. Waits("write")' \cap Waits("write_to")' = {}
    <3>1. Waits("write") \cap Waits("write_to") = {}
      BY <1>1 DEF PlacesInv
    <3>2. \A o \in Modes : Waits(o) \cap fresh = {}
      BY <1>14, WaitingShape DEF Known, Modes
    <3> QED
      BY <3>1, <3>2, <1>9 DEF Modes
  <2>5. /\ Waiting' \cap AllSent' = {} /\ Waiting' \cap Shed' = {} /\ Waiting' \cap Lost' = {}
        /\ AllSent' \cap Shed' = {} /\ AllSent' \cap Lost' = {} /\ Shed' \cap Lost' = {}
    <3>1. old \ kept \subseteq Waiting
      BY <1>9, WaitingShape DEF Modes
    <3>2. fresh \cap Waiting = {} /\ fresh \cap AllSent = {} /\ fresh \cap Shed = {} /\ fresh \cap Lost = {}
      BY <1>14 DEF Known
    <3>3. /\ Waiting \cap AllSent = {} /\ Waiting \cap Shed = {} /\ Waiting \cap Lost = {}
          /\ AllSent \cap Shed = {} /\ AllSent \cap Lost = {} /\ Shed \cap Lost = {}
      BY <1>1 DEF PlacesInv
    <3> QED
      BY <3>1, <3>2, <3>3, <1>4, <1>10, <1>11
  <2>6. \A i, j \in DOMAIN sent' :
          sent'[i].whole /\ sent'[j].whole /\ sent'[i].msg = sent'[j].msg => i = j
    BY <1>1, <1>4 DEF PlacesInv
  <2>7. \A x \in Shed' : x.priority >= msg_drop_priority
    BY <1>1, <1>3, <1>4 DEF PlacesInv
  <2> QED
    BY <2>1, <2>2, <2>3, <2>4, <2>5, <2>6, <2>7 DEF PlacesInv
<1>18. shed' \in [Modes -> SUBSET Message]
  BY <1>1, <1>2, <1>4 DEF TypeOK
<1> QED
  BY <1>15, <1>16, <1>17, <1>18

-----------------------------------------------------------------------------
(* A turn of the flush loop.                                                *)

(* The data a turn takes goes before what its method keeps, and the queue   *)
(* then is without it.                                                      *)
LEMMA DataFirst ==
  ASSUME TypeOK, QueuesInv, NEW m \in Modes, HasData(m)
  PROVE  /\ Data(m) \in Message /\ Data(m) \in Waits(m)
         /\ Numbered(QueueWithoutData(m), next_id - 1)
         /\ Queued(QueueWithoutData(m)) = Waits(m) \ {Data(m)}
         /\ \A x \in Waits(m) :
              x.priority = Data(m).priority => x = Data(m) \/ Data(m).id < x.id
<1>1. /\ next_id - 1 \in Nat /\ Numbered(out_queue[m], next_id - 1)
      /\ current_write[m] = <<>> => Held(m) = {}
      /\ current_write[m] # <<>> => Held(m) = {current_write[m][1]}
      /\ Held(m) \subseteq Message /\ Queued(out_queue[m]) \subseteq Message
  BY MethodShape
<1>2. CASE current_write[m] # <<>>
  <2> DEFINE d == current_write[m][1]
  <2>1. Data(m) = d /\ QueueWithoutData(m) = out_queue[m] /\ Held(m) = {d}
    BY <1>1, <1>2 DEF Data, QueueWithoutData
  <2>2. d \in Message /\ d.id \in Nat
    BY <1>1, <2>1, MessageShape
  <2> HIDE DEF d
  <2>3. \A y \in Queued(out_queue[m]) : d.priority = y.priority => d.id < y.id
    BY <2>1 DEF QueuesInv
  <2>4. d \notin Queued(out_queue[m])
    BY <2>2, <2>3
  <2> QED
    BY <1>1, <2>1, <2>2, <2>3, <2>4 DEF Waits
<1>3. CASE current_write[m] = <<>>
  <2> DEFINE q == out_queue[m]
             d == next_msg(q)
  <2>1. /\ Data(m) = d /\ QueueWithoutData(m) = after_next_msg(q)
        /\ Waits(m) = Queued(q) /\ DOMAIN q # {}
    BY <1>1, <1>3 DEF Data, QueueWithoutData, Waits, HasData
  <2>2. /\ Numbered(after_next_msg(q), next_id - 1)
        /\ d \in Queued(q)
        /\ Queued(after_next_msg(q)) = Queued(q) \ {d}
        /\ \A x \in Queued(q) : \/ d.priority < x.priority
                                \/ d.priority = x.priority /\ (x = d \/ d.id < x.id)
    BY <1>1, <2>1, NextNumbered
  <2>3. \A x \in Queued(q) : x.priority \in Nat
    BY <1>1, MessageShape
  <2> HIDE DEF q, d
  <2>4. \A x \in Queued(q) : x.priority = d.priority => x = d \/ d.id < x.id
    BY <2>2, <2>3
  <2> QED
    BY <1>1, <2>1, <2>2, <2>4 DEF q
<1> QED
  BY <1>2, <1>3

(* A turn that puts the data back leaves everything waiting; one that does  *)
(* not takes exactly the data.                                              *)
LEMMA TurnStep ==
  ASSUME SendInv, NEW m \in Modes, NEW again, Turn(m, again),
         again = <<>> \/ again = <<Data(m)>>
  PROVE  /\ QueuesInv' /\ current_write' \in [Modes -> Seq(Message)]
         /\ Data(m) \in Message /\ Data(m) \in Waits(m)
         /\ Waits(m)' = IF again = <<>> THEN Waits(m) \ {Data(m)} ELSE Waits(m)
         /\ \A o \in Modes : o # m => Waits(o)' = Waits(o)
         /\ \A x \in Waits(m) :
              x.priority = Data(m).priority => x = Data(m) \/ Data(m).id < x.id
<1> DEFINE d == Data(m)
           q == QueueWithoutData(m)
<1>1. TypeOK /\ QueuesInv
  BY DEF SendInv
<1>2. /\ d \in Message /\ d \in Waits(m)
      /\ Numbered(q, next_id - 1)
      /\ Queued(q) = Waits(m) \ {d}
      /\ \A x \in Waits(m) : x.priority = d.priority => x = d \/ d.id < x.id
  BY <1>1, DataFirst DEF Turn
<1>3. /\ out_queue' = [out_queue EXCEPT ![m] = q]
      /\ current_write' = [current_write EXCEPT ![m] = again]
      /\ next_id' = next_id
  BY DEF Turn
<1>4. DOMAIN out_queue = Modes /\ current_write \in [Modes -> Seq(Message)]
  BY <1>1 DEF TypeOK
<1> HIDE DEF d, q
<1>5. /\ out_queue'[m] = q /\ current_write'[m] = again
      /\ \A o \in Modes : o # m => out_queue'[o] = out_queue[o] /\ current_write'[o] = current_write[o]
  BY <1>3, <1>4
<1>6. again \in Seq(Message) /\ Len(again) <= 1
  <2>1. CASE again = <<>>
    BY <2>1
  <2>2. CASE again = <<d>>
    BY <2>2, <1>2
  <2> QED
    BY <2>1, <2>2 DEF d
<1>7. current_write' \in [Modes -> Seq(Message)]
  BY <1>3, <1>4, <1>6
<1>8. Held(m)' = IF again = <<>> THEN {} ELSE {d}
  <2>1. Held(m)' = {again[i] : i \in DOMAIN again}
    BY <1>5 DEF Held
  <2>2. CASE again = <<>>
    BY <2>1, <2>2
  <2>3. CASE again = <<d>>
    <3>1. DOMAIN again = {1} /\ again[1] = d /\ again # <<>>
      BY <2>3
    <3> QED
      BY <2>1, <3>1
  <2> QED
    BY <2>2, <2>3 DEF d
<1>9. \A o \in Modes : o # m => Held(o)' = Held(o) /\ Waits(o)' = Waits(o)
  BY <1>5 DEF Held, Waits
<1>10. Waits(m)' = IF again = <<>> THEN Waits(m) \ {d} ELSE Waits(m)
  BY <1>2, <1>5, <1>8 DEF Waits
<1>11. QueuesInv'
  <2> SUFFICES ASSUME NEW o \in Modes
               PROVE  /\ Numbered(out_queue'[o], next_id' - 1)
                      /\ Len(current_write'[o]) <= 1
                      /\ \A x \in Held(o)' : \A y \in Queued(out_queue'[o]) :
                           x.priority = y.priority => x.id < y.id
    BY DEF QueuesInv
  <2>1. CASE o = m
    <3>1. \A x \in Held(m)' : \A y \in Queued(q) : x.priority = y.priority => x.id < y.id
      BY <1>2, <1>8
    <3> QED
      BY <2>1, <3>1, <1>2, <1>3, <1>5, <1>6
  <2>2. CASE o # m
    BY <2>2, <1>1, <1>3, <1>5, <1>9 DEF QueuesInv
  <2> QED
    BY <2>1, <2>2
<1> QED
  BY <1>2, <1>7, <1>9, <1>10, <1>11 DEF d

-----------------------------------------------------------------------------
(* Steps that send nothing and number nothing: messages stay waiting, or    *)
(* those of L are lost, or the socket is taken apart.                       *)
LEMMA RestStep ==
  ASSUME SendInv, UNCHANGED <<sent, shed, next_id>>,
         NEW L, L \subseteq Waiting, Lost' = Lost \cup L, L \cap Waiting' = {},
         \A o \in Modes : Waits(o)' \subseteq Waits(o),
         w_pc' # "gone" => w_pc # "gone" /\ Waiting \subseteq Waiting' \cup L
  PROVE  SentInv' /\ PlacesInv'
<1>1. TypeOK /\ SentInv /\ PlacesInv
  BY DEF SendInv
<1>2. AllSent' = AllSent /\ Shed' = Shed
  BY DEF AllSent, Shed
<1>3. Waiting' \subseteq Waiting
  BY WaitingShape DEF Modes
<1>4. Known' \subseteq Known /\ (w_pc' # "gone" => Known' = Known)
  BY <1>2, <1>3 DEF Known
<1>5. SentInv'
  <2>1. \A i \in DOMAIN sent : sent[i].mode \in Modes
    BY <1>1, SentShape
  <2>2. ASSUME NEW i \in DOMAIN sent, NEW o \in Modes, sent[i].mode = o,
               NEW x \in Waits(o)', x.priority = sent[i].msg.priority
        PROVE  sent[i].msg.id <= x.id
    BY <2>2, <1>1 DEF SentInv
  <2> QED
    BY <2>1, <2>2, <1>1 DEF SentInv, SentInOrder
<1>6. PlacesInv'
  <2>1. /\ \A x \in Known' : x.id \in 1 .. next_id' - 1
        /\ \A x, y \in Known' : x.id = y.id => x = y
        /\ w_pc' # "gone" => 1 .. next_id' - 1 \subseteq {x.id : x \in Known'}
    BY <1>1, <1>4 DEF PlacesInv
  <2>2. Waits("write")' \cap Waits("write_to")' = {}
    BY <1>1 DEF PlacesInv, Modes
  <2>3. /\ Waiting' \cap AllSent' = {} /\ Waiting' \cap Shed' = {} /\ Waiting' \cap Lost' = {}
        /\ AllSent' \cap Shed' = {} /\ AllSent' \cap Lost' = {} /\ Shed' \cap Lost' = {}
    BY <1>1, <1>2, <1>3 DEF PlacesInv
  <2>4. /\ \A i, j \in DOMAIN sent' :
             sent'[i].whole /\ sent'[j].whole /\ sent'[i].msg = sent'[j].msg => i = j
        /\ \A x \in Shed' : x.priority >= msg_drop_priority
    BY <1>1, <1>2 DEF PlacesInv
  <2> QED
    BY <2>1, <2>2, <2>3, <2>4 DEF PlacesInv
<1> QED
  BY <1>5, <1>6

(* A datagram is sent: whole, and its message waits no more, or in part,    *)
(* and it waits to be sent again.                                           *)
LEMMA SendStep ==
  ASSUME SendInv, UNCHANGED <<shed, lost, next_id>>, NEW m \in Modes, NEW whole \in BOOLEAN,
         Turn(m, IF whole THEN <<>> ELSE <<Data(m)>>), KernelTakes(m, whole)
  PROVE  SentInv' /\ PlacesInv' /\ sent' \in Seq([mode : Modes, msg : Message, whole : BOOLEAN])
<1> DEFINE d == Data(m)
           again == IF whole THEN <<>> ELSE <<d>>
           e == [mode |-> m, msg |-> d, whole |-> whole]
<1>1. TypeOK /\ QueuesInv /\ SentInv /\ PlacesInv
  BY DEF SendInv
<1>2. again = <<>> \/ again = <<d>>
  OBVIOUS
<1>3. Turn(m, again) /\ (again = <<>> <=> whole)
  OBVIOUS
<1> HIDE DEF again
<1>4. /\ d \in Message /\ d \in Waits(m)
      /\ Waits(m)' = IF again = <<>> THEN Waits(m) \ {d} ELSE Waits(m)
      /\ \A o \in Modes : o # m => Waits(o)' = Waits(o)
      /\ \A x \in Waits(m) : x.priority = d.priority => x = d \/ d.id < x.id
  BY <1>2, <1>3, TurnStep
<1>5. w_pc # "gone" /\ Shed' = Shed /\ Lost' = Lost
  BY DEF Turn, Modes, Shed, Lost
<1>6. sent' = Append(sent, e) /\ sent \in Seq([mode : Modes, msg : Message, whole : BOOLEAN])
  BY <1>1 DEF KernelTakes, TypeOK
<1> HIDE DEF d
<1>7. e \in [mode : Modes, msg : Message, whole : BOOLEAN]
  BY <1>4
<1>8. e.mode = m /\ e.msg = d /\ e.whole = whole
  OBVIOUS
<1>9. Len(sent) \in Nat /\ DOMAIN sent = 1 .. Len(sent)
  BY <1>1, SentShape
<1> HIDE DEF e
<1>10. /\ sent' \in Seq([mode : Modes, msg : Message, whole : BOOLEAN])
       /\ Len(sent') = Len(sent) + 1
       /\ \A i \in 1 .. Len(sent) : sent'[i] = sent[i]
       /\ sent'[Len(sent) + 1] = e
  BY <1>6, <1>7, AppendProperties
<1> DEFINE k == Len(sent)
           l == k + 1
<1>11. /\ DOMAIN sent' = 1 .. l /\ l \in Nat /\ l \notin DOMAIN sent
       /\ \A i : i \in DOMAIN sent' <=> i \in DOMAIN sent \/ i = l
       /\ \A i \in DOMAIN sent : sent'[i] = sent[i] /\ i < l
       /\ sent'[l] = e
  <2>1. /\ k \in Nat /\ DOMAIN sent = 1 .. k /\ DOMAIN sent' = 1 .. l
        /\ \A i \in 1 .. k : sent'[i] = sent[i]
        /\ sent'[l] = e
    BY <1>9, <1>10
  <2> HIDE DEF k
  <2>2. /\ l \in Nat /\ l \notin 1 .. k /\ \A i \in 1 .. k : i < l
        /\ \A i : i \in 1 .. l <=> i \in 1 .. k \/ i = l
    BY <2>1
  <2> QED
    BY <2>1, <2>2
<1> HIDE DEF l, k
<1>12. d.id \in 1 .. next_id - 1 /\ d \in Waiting /\ d \in Known
  BY <1>1, <1>4, WaitingShape DEF PlacesInv, Known, Modes
<1>13. d.id \in Nat
  BY <1>4, MessageShape
<1>14. SentInv'
  <2>1. \A i \in DOMAIN sent' : sent'[i].msg.id \in 1 .. next_id' - 1
    BY <1>1, <1>8, <1>11, <1>12 DEF SentInv
  <2>2. ASSUME NEW i \in DOMAIN sent, sent[i].mode = m, sent[i].msg.priority = d.priority
        PROVE  sent[i].msg.id <= d.id
    BY <2>2, <1>1, <1>4 DEF SentInv
  <2>3. SentInOrder'
    <3> SUFFICES ASSUME NEW i \in DOMAIN sent', NEW j \in DOMAIN sent', i < j,
                        sent'[i].mode = sent'[j].mode,
                        sent'[i].msg.priority = sent'[j].msg.priority
                 PROVE  sent'[i].msg.id <= sent'[j].msg.id
      BY DEF SentInOrder
    <3>1. i \in DOMAIN sent
      <4>1. i \in Nat /\ j \in Nat /\ j <= l
        BY <1>11
      <4>2. i # l
        BY <4>1, <1>11
      <4> QED
        BY <4>2, <1>11
    <3>2. CASE j = l
      BY <3>1, <3>2, <2>2, <1>8, <1>11
    <3>3. CASE j \in DOMAIN sent
      BY <3>1, <3>3, <1>1, <1>11 DEF SentInv, SentInOrder
    <3> QED
      BY <3>2, <3>3, <1>11
  <2>4. ASSUME NEW i \in DOMAIN sent', NEW o \in Modes, sent'[i].mode = o,
               NEW x \in Waits(o)', x.priority = sent'[i].msg.priority
        PROVE  sent'[i].msg.id <= x.id
    <3>1. x \in Waits(o)
      BY <1>4
    <3>2. CASE i = l
      <4>1. sent'[i].msg = d /\ o = m
        BY <2>4, <3>2, <1>8, <1>11
      <4>2. x = d \/ d.id < x.id
        BY <2>4, <3>1, <4>1, <1>4
      <4>3. x \in Message
        BY <3>1, <1>1, MethodShape DEF Waits
      <4>4. x.id \in Nat
        BY <4>3, MessageShape
      <4> QED
        BY <4>1, <4>2, <4>4, <1>13
    <3>3. CASE i \in DOMAIN sent
      <4>1. sent'[i] = sent[i]
        BY <3>3, <1>11
      <4> QED
        BY <2>4, <3>1, <3>3, <4>1, <1>1 DEF SentInv
    <3> QED
      BY <3>2, <3>3, <1>11
  <2>5. \A i \in DOMAIN sent' : sent'[i].mode \in Modes
    BY <1>1, <1>8, <1>11, SentShape
  <2> QED
    BY <2>1, <2>3, <2>4, <2>5 DEF SentInv
<1>15. AllSent' = IF whole THEN AllSent \cup {d} ELSE AllSent
  <2>1. \A x : x \in AllSent' <=> \E i \in DOMAIN sent' : sent'[i].whole /\ sent'[i].msg = x
    BY DEF AllSent
  <2>2. \A x : x \in AllSent' <=> x \in AllSent \/ (whole /\ x = d)
    BY <2>1, <1>8, <1>11, AllSentShape
  <2> QED
    BY <2>2
<1>16. Waiting' = IF whole THEN Waiting \ {d} ELSE Waiting
  <2>1. Waits("write") \cap Waits("write_to") = {}
    BY <1>1 DEF PlacesInv
  <2> QED
    BY <2>1, <1>3, <1>4, WaitingShape DEF Modes
<1>17. Known' = Known
  BY <1>5, <1>12, <1>15, <1>16 DEF Known
<1>18. PlacesInv'
  <2>1. /\ \A x \in Known' : x.id \in 1 .. next_id' - 1
        /\ \A x, y \in Known' : x.id = y.id => x = y
        /\ 1 .. next_id' - 1 \subseteq {x.id : x \in Known'}
    BY <1>1, <1>5, <1>17 DEF PlacesInv
  <2>2. Waits("write")' \cap Waits("write_to")' = {}
    BY <1>1, <1>4 DEF PlacesInv, Modes
  <2>3. /\ Waiting' \cap AllSent' = {} /\ Waiting' \cap Shed' = {} /\ Waiting' \cap Lost' = {}
        /\ AllSent' \cap Shed' = {} /\ AllSent' \cap Lost' = {} /\ Shed' \cap Lost' = {}
    BY <1>1, <1>5, <1>12, <1>15, <1>16 DEF PlacesInv
  <2>4. ASSUME NEW i \in DOMAIN sent', NEW j \in DOMAIN sent',
               sent'[i].whole, sent'[j].whole, sent'[i].msg = sent'[j].msg
        PROVE  i = j
    <3>1. d \notin AllSent
      BY <1>1, <1>12 DEF PlacesInv
    <3>2. \A z \in DOMAIN sent : sent[z].whole => sent[z].msg # d
      BY <3>1, AllSentShape
    <3>3. CASE i \in DOMAIN sent /\ j \in DOMAIN sent
      BY <2>4, <3>3, <1>1, <1>11 DEF PlacesInv
    <3>4. CASE i = l \/ j = l
      BY <2>4, <3>2, <3>4, <1>8, <1>11
    <3> QED
      BY <3>3, <3>4, <1>11
  <2>5. \A x \in Shed' : x.priority >= msg_drop_priority
    BY <1>1, <1>5 DEF PlacesInv
  <2> QED
    BY <2>1, <2>2, <2>3, <2>4, <2>5 DEF PlacesInv
<1> QED
  BY <1>10, <1>14, <1>18

-----------------------------------------------------------------------------
(* Whether a method has data, told from what it has to send. *)
LEMMA HasDataShape ==
  ASSUME NEW n \in Nat, NEW q, Numbered(q, n), NEW c \in Seq(Message)
  PROVE  (c # <<>> \/ DOMAIN q # {}) <=> Queued(q) \cup {c[i] : i \in DOMAIN c} # {}
<1>1. DOMAIN q = {} <=> Queued(q) = {}
  BY NumberedQueued
<1>2. c = <<>> <=> DOMAIN c = {}
  <2>1. CASE c = <<>>
    BY <2>1
  <2>2. CASE c # <<>>
    <3>1. Len(c) \in Nat \ {0} /\ DOMAIN c = 1 .. Len(c)
      BY <2>2
    <3>2. 1 \in DOMAIN c
      BY <3>1
    <3> QED
      BY <2>2, <3>2
  <2> QED
    BY <2>1, <2>2
<1> QED
  BY <1>1, <1>2

(* The queues of UdpSend have their types if they are as next_msg needs. *)
LEMMA QueueTypes ==
  ASSUME QueuesInv'
  PROVE  \A m \in Modes :
           /\ DOMAIN out_queue'[m] \subseteq Priority
           /\ out_queue'[m] \in [DOMAIN out_queue'[m] -> Seq([at : Nat, msg : Message])]
BY MessageShape DEF QueuesInv, Numbered, QueueMap

(* Data waits where it did, or the step names what will come for it. *)
LEMMA WakeStep ==
  ASSUME SendInv, TypeOK', QueuesInv',
         \A o \in Modes :
           Waits(o)' # {} =>
             \/ w_pc' = o
             \/ o \in to_flush' \cup interrupted' \/ wr_event' \/ in_kernel' = SndCap
             \/ /\ Waits(o) # {}
                /\ o \in to_flush \cup interrupted => o \in to_flush' \cup interrupted'
                /\ wr_event => wr_event'
                /\ in_kernel = SndCap => in_kernel' = SndCap
                /\ w_pc # o,
         w_pc' = "gone" => \A o \in Modes : Waits(o)' = {}
  PROVE  WakeInv'
<1>1. ASSUME NEW o \in Modes PROVE HasData(o) <=> Waits(o) # {}
  BY MethodShape DEF SendInv
<1>2. ASSUME NEW o \in Modes PROVE HasData(o)' <=> Waits(o)' # {}
  <2>1. Numbered(out_queue'[o], next_id' - 1)
    BY DEF QueuesInv
  <2>2. next_id' - 1 \in Nat /\ current_write'[o] \in Seq(Message)
    <3>1. next_id' \in Nat \ {0}
      BY DEF TypeOK
    <3>2. next_id' - 1 \in Nat
      BY <3>1, IdBelow, Zenon
    <3>3. current_write' \in [Modes -> Seq(Message)]
      BY DEF TypeOK
    <3> QED
      BY <3>2, <3>3
  <2> DEFINE q == out_queue'[o]
             c == current_write'[o]
  <2>4. (c # <<>> \/ DOMAIN q # {}) <=> Queued(q) \cup {c[i] : i \in DOMAIN c} # {}
    <3> HIDE DEF q, c
    <3> QED
      BY <2>1, <2>2, HasDataShape DEF q, c
  <2>5. HasData(o)' <=> c # <<>> \/ DOMAIN q # {}
    BY DEF HasData
  <2>6. Waits(o)' = Queued(q) \cup {c[i] : i \in DOMAIN c}
    BY DEF Waits, Held
  <2> QED
    BY <2>4, <2>5, <2>6
<1> QED
  BY <1>1, <1>2 DEF SendInv, WakeInv

-----------------------------------------------------------------------------
(* The invariant holds at first: nothing waits and nothing was sent. *)
LEMMA SendInit == Init => SendInv
<1> SUFFICES ASSUME Init PROVE SendInv
  OBVIOUS
<1>1. QueueMap(new, NumberedMessage) /\ DOMAIN new = {} /\ SortedBy(new, IdOrder)
  BY NewMap
<1>2. /\ next_id = 1 /\ sent = <<>> /\ w_pc = "idle"
      /\ \A m \in Modes : shed[m] = {} /\ lost[m] = {} /\ given[m] = {}
  BY DEF Init
<1>3. DOMAIN sent = {} /\ 1 .. next_id - 1 = {}
  BY <1>2
<1>4. \A m \in Modes : /\ out_queue[m] = new /\ current_write[m] = <<>>
                       /\ DOMAIN out_queue[m] = {} /\ Len(current_write[m]) = 0
  BY <1>1 DEF Init
<1>5. \A m \in Modes : Queued(out_queue[m]) = {} /\ Held(m) = {} /\ Waits(m) = {} /\ ~HasData(m)
  BY <1>1, <1>4 DEF Queued, Held, Waits, HasData
<1>6. QueuesInv
  <2>1. Numbered(new, next_id - 1)
    BY <1>1 DEF Numbered
  <2> QED
    BY <2>1, <1>4, <1>5 DEF QueuesInv
<1>7. TypeOK
  <2>1. out_queue \in [Modes -> {new}] /\ current_write \in [Modes -> Seq(Message)]
    BY DEF Init
  <2>2. sent \in Seq([mode : Modes, msg : Message, whole : BOOLEAN])
    BY <1>2
  <2>3. \A m \in Modes : /\ DOMAIN out_queue[m] \subseteq Priority
                         /\ out_queue[m] \in [DOMAIN out_queue[m] -> Seq([at : Nat, msg : Message])]
    BY <1>6, MessageShape DEF QueuesInv, Numbered, QueueMap
  <2>4. {peer, wr_event} \subseteq BOOLEAN
    BY DEF Init
  <2>5. in_kernel \in 0 .. SndCap
    BY UdpSendAssumption DEF Init, UdpSendAssumption
  <2>6. /\ w_pc \in {"idle", "gone"} \cup Modes
        /\ interrupted \subseteq Modes /\ to_flush \subseteq Modes
        /\ now \in Nat /\ next_id \in Nat \ {0}
        /\ given \in [Modes -> SUBSET Nat]
        /\ shed \in [Modes -> SUBSET Message] /\ lost \in [Modes -> SUBSET Message]
    BY DEF Init, Modes
  <2>7. DOMAIN out_queue = Modes
    BY <2>1
  <2> QED
    BY <2>1, <2>2, <2>3, <2>4, <2>5, <2>6, <2>7 DEF TypeOK
<1>8. Known = {} /\ Waiting = {} /\ AllSent = {} /\ Shed = {} /\ Lost = {}
  BY <1>2, <1>3, <1>5, WaitingShape DEF Known, AllSent, Shed, Lost, Modes
<1>9. SentInv /\ PlacesInv /\ GivenInv /\ WakeInv
  BY <1>2, <1>3, <1>5, <1>8 DEF SentInv, SentInOrder, PlacesInv, GivenInv, WakeInv, Modes
<1> QED
  BY <1>6, <1>7, <1>9 DEF SendInv

-----------------------------------------------------------------------------
(* Every step keeps the invariant.                                          *)

(* A step that leaves the messages alone. *)
LEMMA StillStep ==
  ASSUME SendInv, UNCHANGED <<out_queue, current_write, given, sent, shed, lost, next_id>>,
         w_pc' # "gone" => w_pc # "gone"
  PROVE  QueuesInv' /\ SentInv' /\ PlacesInv' /\ GivenInv' /\ \A o \in Modes : Waits(o)' = Waits(o)
<1>1. \A o \in Modes : Held(o)' = Held(o) /\ Waits(o)' = Waits(o)
  BY DEF Held, Waits
<1>2. QueuesInv'
  BY <1>1 DEF SendInv, QueuesInv
<1>3. Waiting' = Waiting
  BY <1>1, WaitingShape DEF Modes
<1>4. SentInv' /\ PlacesInv'
  <2> DEFINE L == {}
  <2>1. L \subseteq Waiting /\ Lost' = Lost \cup L /\ L \cap Waiting' = {}
    BY DEF Lost
  <2>2. w_pc' # "gone" => w_pc # "gone" /\ Waiting \subseteq Waiting' \cup L
    BY <1>3
  <2> HIDE DEF L
  <2> QED
    BY <1>1, <2>1, <2>2, RestStep
<1>5. GivenInv'
  BY <1>1 DEF SendInv, GivenInv
<1> QED
  BY <1>1, <1>2, <1>4, <1>5

(* A step gives its method at most a new id, and what a method then has was *)
(* its own or has that id.                                                  *)
LEMMA GivenStep ==
  ASSUME SendInv, \A m \in Modes : given[m] \subseteq given'[m],
         given'["write"] \cap given'["write_to"] = {},
         given'["write"] \cup given'["write_to"] = 1 .. next_id' - 1,
         \A m \in Modes : \A x \in Waits(m)' \cup shed'[m] \cup lost'[m] :
           x \in Waits(m) \cup shed[m] \cup lost[m] \/ x.id \in given'[m],
         \A i \in DOMAIN sent' :
           \/ i \in DOMAIN sent /\ sent'[i] = sent[i]
           \/ sent'[i].mode \in Modes /\ sent'[i].msg.id \in given'[sent'[i].mode]
  PROVE  GivenInv'
<1>1. GivenInv /\ \A i \in DOMAIN sent : sent[i].mode \in Modes
  BY SentShape DEF SendInv
<1>2. \A m \in Modes : \A x \in Waits(m)' \cup shed'[m] \cup lost'[m] : x.id \in given'[m]
  BY <1>1 DEF GivenInv
<1>3. \A i \in DOMAIN sent' : sent'[i].msg.id \in given'[sent'[i].mode]
  BY <1>1 DEF GivenInv
<1> QED
  BY <1>2, <1>3 DEF GivenInv

(* The same of the start of a call: what is fresh has the new id. *)
LEMMA GivenStart ==
  ASSUME SendInv, NEW m \in Modes, StartCall(m),
         NEW Q, out_queue' = [out_queue EXCEPT ![m] = Q],
         NEW fresh, Queued(Q) = Queued(Kept(m)) \cup fresh,
         \/ fresh = {} /\ next_id' = next_id /\ given' = given
         \/ \E p \in Priority : /\ fresh = {[id |-> next_id, priority |-> p]}
                                /\ next_id' = next_id + 1
                                /\ given' = [given EXCEPT ![m] = @ \cup {next_id}]
  PROVE  GivenInv' /\ given' \in [Modes -> SUBSET Nat]
<1>1. /\ DOMAIN out_queue = Modes /\ given \in [Modes -> SUBSET Nat]
      /\ shed \in [Modes -> SUBSET Message] /\ next_id \in Nat \ {0} /\ GivenInv
  BY DEF SendInv, TypeOK
<1> DEFINE ids == IF fresh = {} THEN {} ELSE {next_id}
<1>2. /\ given' = [given EXCEPT ![m] = @ \cup ids] /\ ids \subseteq Nat
      /\ \A x \in fresh : x.id \in ids
      /\ ids \cap 1 .. next_id - 1 = {} /\ 1 .. next_id' - 1 = 1 .. next_id - 1 \cup ids
  <2>1. CASE fresh = {} /\ next_id' = next_id /\ given' = given
    <3>1. ids = {}
      BY <2>1
    <3> QED
      BY <1>1, <2>1, <3>1
  <2>2. ASSUME NEW p \in Priority, fresh = {[id |-> next_id, priority |-> p]},
               next_id' = next_id + 1, given' = [given EXCEPT ![m] = @ \cup {next_id}]
        PROVE  /\ given' = [given EXCEPT ![m] = @ \cup ids] /\ ids \subseteq Nat
               /\ \A x \in fresh : x.id \in ids
               /\ ids \cap 1 .. next_id - 1 = {} /\ 1 .. next_id' - 1 = 1 .. next_id - 1 \cup ids
    <3>1. ids = {next_id} /\ \A x \in fresh : x.id = next_id
      <4> DEFINE y == [id |-> next_id, priority |-> p]
      <4>1. fresh = {y} /\ y.id = next_id
        BY <2>2
      <4> HIDE DEF y
      <4> QED
        BY <4>1
    <3>2. ids \cap 1 .. next_id - 1 = {} /\ 1 .. next_id' - 1 = 1 .. next_id - 1 \cup ids
      BY <1>1, <2>2, <3>1
    <3> QED
      BY <1>1, <2>2, <3>1, <3>2
  <2> QED
    BY <2>1, <2>2
<1> HIDE DEF ids
<1>3. /\ given' \in [Modes -> SUBSET Nat] /\ given'[m] = given[m] \cup ids
      /\ \A o \in Modes : o # m => given'[o] = given[o]
  BY <1>1, <1>2
<1>4. Queued(Kept(m)) \subseteq Queued(out_queue[m])
  <2>1. next_id - 1 \in Nat /\ now \in Nat /\ Numbered(out_queue[m], next_id - 1)
    BY MethodShape DEF SendInv, TypeOK
  <2> QED
    BY <2>1, DropNumbered DEF Kept
<1>5. /\ shed' = [shed EXCEPT ![m] = @ \cup (Queued(out_queue[m]) \ Queued(Kept(m)))]
      /\ UNCHANGED <<current_write, sent, lost>>
  BY DEF StartCall
<1>6. \A o \in Modes : Held(o)' = Held(o)
  BY <1>5 DEF Held
<1>7. /\ Waits(m)' \subseteq Waits(m) \cup fresh /\ Queued(out_queue[m]) \subseteq Waits(m)
      /\ \A o \in Modes : o # m => Waits(o)' = Waits(o)
  BY <1>1, <1>4, <1>6 DEF Waits
<1>8. /\ shed'[m] \subseteq shed[m] \cup Waits(m)
      /\ \A o \in Modes : o # m => shed'[o] = shed[o]
  BY <1>1, <1>5, <1>7
<1>9. /\ given'["write"] \cap given'["write_to"] = {}
      /\ given'["write"] \cup given'["write_to"] = 1 .. next_id' - 1
  BY <1>1, <1>2, <1>3 DEF GivenInv, Modes
<1>10. ASSUME NEW o \in Modes
       PROVE  /\ given[o] \subseteq given'[o]
              /\ \A x \in Waits(o)' \cup shed'[o] \cup lost'[o] :
                   x \in Waits(o) \cup shed[o] \cup lost[o] \/ x.id \in given'[o]
  <2>1. CASE o = m
    BY <2>1, <1>2, <1>3, <1>5, <1>7, <1>8
  <2>2. CASE o # m
    BY <2>2, <1>3, <1>5, <1>7, <1>8
  <2> QED
    BY <2>1, <2>2
<1> QED
  BY <1>3, <1>5, <1>9, <1>10, GivenStep

(* The start of write(Some), and of a call with a queue left as it is kept. *)
LEMMA CallStep ==
  ASSUME SendInv, NEW m \in Modes, StartCall(m), w_pc' \in {"idle", m},
         next_id' \in Nat \ {0}, to_flush' \subseteq Modes,
         NEW Q, out_queue' = [out_queue EXCEPT ![m] = Q],
         NEW fresh, Queued(Q) = Queued(Kept(m)) \cup fresh, Numbered(Q, next_id' - 1),
         \/ fresh = {} /\ next_id' = next_id /\ given' = given
         \/ \E p \in Priority : /\ fresh = {[id |-> next_id, priority |-> p]}
                                /\ next_id' = next_id + 1
                                /\ given' = [given EXCEPT ![m] = @ \cup {next_id}],
         w_pc' = m \/ (fresh = {} /\ to_flush' = to_flush), to_flush \ {m} \subseteq to_flush',
         wr_event' = wr_event
  PROVE  SendInv'
<1>1. /\ w_pc = "idle"
      /\ UNCHANGED <<current_write, peer, interrupted, in_kernel, now, sent, lost>>
  BY DEF StartCall
<1>2. w_pc' # "gone"
  BY DEF Modes
<1>3. QueuesInv' /\ SentInv' /\ PlacesInv' /\ shed' \in [Modes -> SUBSET Message]
  BY <1>2, StartStep
<1>8. GivenInv' /\ given' \in [Modes -> SUBSET Nat]
  BY GivenStart
<1>4. DOMAIN out_queue = Modes /\ DOMAIN out_queue' = Modes
  BY DEF SendInv, TypeOK
<1>5. TypeOK'
  <2>1. /\ current_write' \in [Modes -> Seq(Message)] /\ {peer', wr_event'} \subseteq BOOLEAN
        /\ interrupted' \subseteq Modes /\ in_kernel' \in 0 .. SndCap /\ now' \in Nat
        /\ sent' \in Seq([mode : Modes, msg : Message, whole : BOOLEAN]) /\ lost' \in [Modes -> SUBSET Message]
    BY <1>1 DEF SendInv, TypeOK
  <2> QED
    BY <2>1, <1>1, <1>3, <1>4, <1>8, QueueTypes DEF TypeOK, Modes
<1>6. ASSUME NEW o \in Modes, Waits(o)' # {}, ~(w_pc' = o) PROVE Waits(o) # {}
  <2>1. CASE o # m
    <3>1. out_queue'[o] = out_queue[o]
      BY <2>1, <1>4
    <3> QED
      BY <3>1, <1>1, <1>6 DEF Waits, Held
  <2>2. CASE o = m
    <3>1. fresh = {} /\ out_queue'[o] = Q
      BY <2>2, <1>1, <1>4, <1>6
    <3>2. next_id - 1 \in Nat /\ now \in Nat /\ Numbered(out_queue[m], next_id - 1)
      BY MethodShape DEF SendInv, TypeOK
    <3>3. Queued(Kept(m)) \subseteq Queued(out_queue[m])
      BY <3>2, DropNumbered DEF Kept
    <3> QED
      BY <2>2, <3>1, <3>3, <1>1, <1>6 DEF Waits, Held
  <2> QED
    BY <2>1, <2>2
<1>7. WakeInv'
  <2>1. ASSUME NEW o \in Modes, Waits(o)' # {}
        PROVE  \/ w_pc' = o
               \/ /\ Waits(o) # {}
                  /\ o \in to_flush \cup interrupted => o \in to_flush' \cup interrupted'
                  /\ wr_event => wr_event'
                  /\ in_kernel = SndCap => in_kernel' = SndCap
                  /\ w_pc # o
    BY <2>1, <1>1, <1>6 DEF Modes
  <2> QED
    BY <2>1, <1>2, <1>3, <1>5, WakeStep
<1> QED
  BY <1>3, <1>5, <1>7, <1>8 DEF SendInv

(* A call of write or write_to starts. *)
LEMMA CallsStep ==
  ASSUME SendInv, NEW m \in Modes,
         (\E p \in Priority : Write(m, p)) \/ WriteUnencodable(m) \/ WriteNone(m)
  PROVE  SendInv'
<1>1. next_id \in Nat \ {0} /\ next_id - 1 \in Nat /\ now \in Nat /\ to_flush \subseteq Modes
  BY DEF SendInv, TypeOK
<1>2. Numbered(Kept(m), next_id - 1)
  <2>1. Numbered(out_queue[m], next_id - 1)
    BY MethodShape DEF SendInv
  <2> QED
    BY <1>1, <2>1, DropNumbered DEF Kept
<1>3. ASSUME NEW p \in Priority, Write(m, p) PROVE SendInv'
  <2> DEFINE x == [id |-> next_id, priority |-> p]
             Q == push_at(Kept(m), now, x, p)
             fresh == {x}
  <2>1. x = [id |-> (next_id - 1) + 1, priority |-> p]
    BY <1>1
  <2>2. Numbered(Q, (next_id - 1) + 1) /\ Queued(Q) = Queued(Kept(m)) \cup fresh
    <3> HIDE DEF x
    <3> QED
      BY <1>1, <1>2, <2>1, PushNumbered
  <2>3. /\ StartCall(m) /\ w_pc' = m /\ next_id' = next_id + 1
        /\ given' = [given EXCEPT ![m] = @ \cup {next_id}]
        /\ out_queue' = [out_queue EXCEPT ![m] = Q]
        /\ to_flush' = to_flush /\ wr_event' = wr_event
    BY <1>3 DEF Write, Enqueue
  <2>4. Numbered(Q, next_id' - 1) /\ next_id' \in Nat \ {0}
    <3>1. (next_id - 1) + 1 = next_id' - 1
      BY <1>1, <2>3
    <3> QED
      BY <2>2, <2>3, <3>1, <1>1
  <2>5. \E r \in Priority : /\ fresh = {[id |-> next_id, priority |-> r]}
                          /\ next_id' = next_id + 1
                          /\ given' = [given EXCEPT ![m] = @ \cup {next_id}]
    BY <2>3
  <2>6. w_pc' \in {"idle", m} /\ to_flush' \subseteq Modes /\ to_flush \ {m} \subseteq to_flush'
    BY <2>3, <1>1
  <2> HIDE DEF Q, fresh, x
  <2> QED
    BY <2>2, <2>3, <2>4, <2>5, <2>6, CallStep
<1>4. ASSUME WriteUnencodable(m) \/ WriteNone(m) PROVE SendInv'
  <2> DEFINE fresh == {}
             Q == Kept(m)
  <2>1. /\ StartCall(m) /\ w_pc' \in {"idle", m} /\ next_id' = next_id /\ given' = given
        /\ out_queue' = [out_queue EXCEPT ![m] = Q]
        /\ to_flush \ {m} \subseteq to_flush' /\ to_flush' \subseteq to_flush /\ wr_event' = wr_event
        /\ w_pc' = m \/ to_flush' = to_flush
    BY <1>4 DEF WriteUnencodable, WriteNone
  <2>2. Queued(Q) = Queued(Kept(m)) \cup fresh /\ fresh = {}
    OBVIOUS
  <2>3. Numbered(Q, next_id' - 1) /\ next_id' \in Nat \ {0} /\ to_flush' \subseteq Modes
    BY <1>1, <1>2, <2>1
  <2> HIDE DEF Q, fresh
  <2> QED
    BY <2>1, <2>2, <2>3, CallStep
<1> QED
  BY <1>3, <1>4

(* The kernel takes a datagram, whole or in part. *)
LEMMA FlushSendStep ==
  ASSUME SendInv, NEW m \in Modes, FlushSend(m) \/ FlushPartial(m)
  PROVE  SendInv'
<1>1. PICK whole \in BOOLEAN :
        Turn(m, IF whole THEN <<>> ELSE <<Data(m)>>) /\ KernelTakes(m, whole)
  <2>1. CASE FlushSend(m)
    <3> WITNESS TRUE \in BOOLEAN
    <3> QED
      BY <2>1 DEF FlushSend
  <2>2. CASE FlushPartial(m)
    <3> WITNESS FALSE \in BOOLEAN
    <3> QED
      BY <2>2 DEF FlushPartial
  <2> QED
    BY <2>1, <2>2
<1> DEFINE again == IF whole THEN <<>> ELSE <<Data(m)>>
<1>2. again = <<>> \/ again = <<Data(m)>>
  OBVIOUS
<1>3. Turn(m, again)
  BY <1>1
<1> HIDE DEF again
<1>4. /\ QueuesInv' /\ current_write' \in [Modes -> Seq(Message)]
      /\ Waits(m)' = IF again = <<>> THEN Waits(m) \ {Data(m)} ELSE Waits(m)
      /\ \A o \in Modes : o # m => Waits(o)' = Waits(o)
  BY <1>2, <1>3, TurnStep
<1>5. /\ UNCHANGED <<shed, lost, next_id, given, peer, wr_event, now, w_pc, interrupted, to_flush>>
      /\ w_pc = m /\ in_kernel < SndCap /\ in_kernel' = in_kernel + 1
      /\ out_queue' = [out_queue EXCEPT ![m] = QueueWithoutData(m)]
  BY <1>1 DEF FlushSend, FlushPartial, Turn, KernelTakes
<1>6. SentInv' /\ PlacesInv' /\ sent' \in Seq([mode : Modes, msg : Message, whole : BOOLEAN])
  BY <1>1, <1>5, SendStep
<1>7. in_kernel \in 0 .. SndCap /\ SndCap \in Nat
  BY UdpSendAssumption DEF SendInv, TypeOK, UdpSendAssumption
<1>8. TypeOK'
  <2>1. in_kernel' \in 0 .. SndCap
    BY <1>5, <1>7
  <2>2. DOMAIN out_queue' = Modes
    BY <1>5 DEF SendInv, TypeOK
  <2>3. /\ {peer', wr_event'} \subseteq BOOLEAN
        /\ w_pc' \in {"idle", "gone"} \cup Modes
        /\ interrupted' \subseteq Modes /\ to_flush' \subseteq Modes
        /\ now' \in Nat /\ next_id' \in Nat \ {0}
        /\ given' \in [Modes -> SUBSET Nat]
        /\ shed' \in [Modes -> SUBSET Message] /\ lost' \in [Modes -> SUBSET Message]
    BY <1>5 DEF SendInv, TypeOK
  <2> QED
    BY <2>1, <2>2, <2>3, <1>4, <1>6, QueueTypes DEF TypeOK
<1>9. WakeInv'
  <2>1. in_kernel # SndCap
    BY <1>5, <1>7
  <2>2. ASSUME NEW o \in Modes, Waits(o)' # {}
        PROVE  \/ w_pc' = o
               \/ /\ Waits(o) # {}
                  /\ o \in to_flush \cup interrupted => o \in to_flush' \cup interrupted'
                  /\ wr_event => wr_event'
                  /\ in_kernel = SndCap => in_kernel' = SndCap
                  /\ w_pc # o
    BY <2>1, <2>2, <1>4, <1>5
  <2>3. w_pc' # "gone"
    BY <1>5 DEF Modes
  <2> QED
    BY <2>2, <2>3, <1>4, <1>8, WakeStep
<1>10. GivenInv'
  <2> DEFINE e == [mode |-> m, msg |-> Data(m), whole |-> whole]
  <2>1. sent' = Append(sent, e) /\ sent \in Seq([mode : Modes, msg : Message, whole : BOOLEAN])
    BY <1>1 DEF KernelTakes, SendInv, TypeOK
  <2>2. Data(m) \in Waits(m) /\ Data(m) \in Message
    BY <1>2, <1>3, TurnStep
  <2>3. e \in [mode : Modes, msg : Message, whole : BOOLEAN] /\ e.mode = m /\ e.msg.id \in given[m]
    BY <2>2 DEF SendInv, GivenInv
  <2> HIDE DEF e
  <2>4. \A i \in DOMAIN sent' : (i \in DOMAIN sent /\ sent'[i] = sent[i]) \/ sent'[i] = e
    BY <2>1, <2>3, AppendProperties
  <2>5. \A o \in Modes : Waits(o)' \subseteq Waits(o)
    BY <1>4
  <2>6. /\ given["write"] \cap given["write_to"] = {}
        /\ given["write"] \cup given["write_to"] = 1 .. next_id - 1
    BY DEF SendInv, GivenInv
  <2> QED
    BY <2>3, <2>4, <2>5, <2>6, <1>5, GivenStep
<1> QED
  BY <1>4, <1>6, <1>8, <1>9, <1>10 DEF SendInv

(* The call ends with the data put back: there was no room, or it was       *)
(* interrupted; or with the data lost to an error.                          *)
LEMMA FlushEndsStep ==
  ASSUME SendInv, NEW m \in Modes,
         FlushWouldBlock(m) \/ FlushInterrupted(m) \/ FlushErr(m)
  PROVE  SendInv'
<1> DEFINE d == Data(m)
<1>1. PICK L \in {{}, {d}} :
        /\ Turn(m, IF L = {} THEN <<d>> ELSE <<>>)
        /\ lost' = [lost EXCEPT ![m] = @ \cup L]
        /\ L = {} => to_flush' = to_flush
        /\ to_flush \subseteq to_flush' /\ to_flush' \subseteq to_flush \cup {m}
        /\ m \in to_flush' \cup interrupted' \/ in_kernel = SndCap
        /\ interrupted \ {m} \subseteq interrupted' /\ interrupted' \subseteq interrupted \cup {m}
        /\ w_pc' = "idle" /\ UNCHANGED <<in_kernel, sent>>
  <2> DEFINE none == [lost EXCEPT ![m] = @ \cup {}]
  <2>0. none = lost
    BY DEF SendInv, TypeOK
  <2>1. CASE FlushWouldBlock(m)
    <3> WITNESS {} \in {{}, {d}}
    <3> QED
      BY <2>0, <2>1 DEF FlushWouldBlock, NotSent, Returned
  <2>2. CASE FlushInterrupted(m)
    <3> WITNESS {} \in {{}, {d}}
    <3> QED
      BY <2>0, <2>2 DEF FlushInterrupted, NotSent, Returned
  <2>3. CASE FlushErr(m)
    <3> WITNESS {d} \in {{}, {d}}
    <3> QED
      BY <2>3 DEF FlushErr, SendFails, Returned
  <2> QED
    BY <2>1, <2>2, <2>3
<1> DEFINE again == IF L = {} THEN <<d>> ELSE <<>>
<1>2. again = <<>> \/ again = <<d>>
  OBVIOUS
<1>3. Turn(m, again) /\ (again = <<>> <=> L = {d}) /\ (again # <<>> <=> L = {})
  BY <1>1
<1> HIDE DEF again
<1>4. /\ QueuesInv' /\ current_write' \in [Modes -> Seq(Message)]
      /\ d \in Message /\ d \in Waits(m)
      /\ Waits(m)' = IF again = <<>> THEN Waits(m) \ {d} ELSE Waits(m)
      /\ \A o \in Modes : o # m => Waits(o)' = Waits(o)
  BY <1>2, <1>3, TurnStep
<1>5. /\ UNCHANGED <<peer, wr_event, now, next_id, given, shed>>
      /\ w_pc = m
      /\ out_queue' = [out_queue EXCEPT ![m] = QueueWithoutData(m)]
  BY <1>1 DEF Turn
<1> HIDE DEF d
<1>6. L \subseteq Waiting /\ L \cap Waiting' = {} /\ Waiting \subseteq Waiting' \cup L
  <2>1. Waits("write") \cap Waits("write_to") = {}
    BY DEF SendInv, PlacesInv
  <2> QED
    BY <2>1, <1>1, <1>3, <1>4, WaitingShape DEF Modes
<1>7. \A o \in Modes : Waits(o)' \subseteq Waits(o)
  BY <1>4
<1>8. SentInv' /\ PlacesInv'
  <2>1. w_pc # "gone"
    BY <1>5 DEF Modes
  <2>2. UNCHANGED <<sent, shed, next_id>>
    BY <1>1, <1>5
  <2>3. Lost' = Lost \cup L
    <3>1. lost \in [Modes -> SUBSET Message]
      BY DEF SendInv, TypeOK
    <3> QED
      BY <1>1, <3>1 DEF Lost
  <2> QED
    BY <2>1, <2>2, <2>3, <1>6, <1>7, RestStep
<1>9. TypeOK'
  <2>1. DOMAIN out_queue' = Modes
    BY <1>5 DEF SendInv, TypeOK
  <2>2. /\ {peer', wr_event'} \subseteq BOOLEAN
        /\ in_kernel' \in 0 .. SndCap
        /\ sent' \in Seq([mode : Modes, msg : Message, whole : BOOLEAN])
        /\ now' \in Nat /\ next_id' \in Nat \ {0} /\ shed' \in [Modes -> SUBSET Message]
        /\ given' \in [Modes -> SUBSET Nat] /\ w_pc' \in {"idle", "gone"} \cup Modes
    BY <1>1, <1>5 DEF SendInv, TypeOK
  <2>3. interrupted' \subseteq Modes /\ to_flush' \subseteq Modes /\ lost' \in [Modes -> SUBSET Message]
    <3>1. interrupted \subseteq Modes /\ to_flush \subseteq Modes /\ lost \in [Modes -> SUBSET Message]
      BY DEF SendInv, TypeOK
    <3> QED
      BY <3>1, <1>1, <1>4
  <2> QED
    BY <2>1, <2>2, <2>3, <1>1, <1>4, QueueTypes DEF TypeOK
<1>10. WakeInv'
  <2>1. ASSUME NEW o \in Modes, Waits(o)' # {}
        PROVE  \/ o \in to_flush' \cup interrupted' \/ in_kernel' = SndCap
               \/ /\ Waits(o) # {}
                  /\ o \in to_flush \cup interrupted => o \in to_flush' \cup interrupted'
                  /\ wr_event => wr_event'
                  /\ in_kernel = SndCap => in_kernel' = SndCap
                  /\ w_pc # o
    BY <2>1, <1>1, <1>4, <1>5
  <2>2. w_pc' # "gone"
    BY <1>1
  <2> QED
    BY <2>1, <2>2, <1>4, <1>9, WakeStep
<1>11. GivenInv'
  <2>1. /\ given["write"] \cap given["write_to"] = {}
        /\ given["write"] \cup given["write_to"] = 1 .. next_id - 1
    BY DEF SendInv, GivenInv
  <2>2. ASSUME NEW o \in Modes PROVE lost'[o] \subseteq lost[o] \cup Waits(o)
    <3>1. lost \in [Modes -> SUBSET Message]
      BY DEF SendInv, TypeOK
    <3> QED
      BY <1>1, <1>4, <3>1
  <2> QED
    BY <2>1, <2>2, <1>1, <1>5, <1>7, GivenStep
<1> QED
  BY <1>4, <1>8, <1>9, <1>10, <1>11 DEF SendInv

(* A flush ends with nothing left, the socket is connected, the handler or  *)
(* the kernel runs, time passes.                                            *)
LEMMA QuietStep ==
  ASSUME SendInv,
         \/ \E m \in Modes : FlushDone(m)
         \/ Connect \/ OnWritable \/ Transmit \/ Tick \/ UNCHANGED vars
  PROVE  SendInv'
<1>1. UNCHANGED <<out_queue, current_write, given, sent, shed, lost, next_id>>
  BY DEF FlushDone, Connect, OnWritable, Transmit, Tick, vars
<1>2. w_pc' = w_pc \/ (w_pc' = "idle" /\ w_pc \in Modes)
  BY DEF FlushDone, Returned, Connect, OnWritable, Transmit, Tick, vars
<1>3. QueuesInv' /\ SentInv' /\ PlacesInv' /\ GivenInv'
  <2>1. w_pc' # "gone" => w_pc # "gone"
    BY <1>2 DEF Modes
  <2>2. UNCHANGED <<out_queue, current_write, given, sent, shed, lost, next_id>>
    BY <1>1
  <2> QED
    BY <2>1, <2>2, StillStep
<1>4. \A m \in Modes : HasData(m)' <=> HasData(m)
  BY <1>1 DEF HasData
<1>5. TypeOK /\ WakeInv
  BY DEF SendInv
<1>6. SndCap \in Nat \ {0} /\ in_kernel \in 0 .. SndCap
  BY <1>5, UdpSendAssumption DEF UdpSendAssumption, TypeOK
<1>7. TypeOK'
  <2>1. in_kernel' \in 0 .. SndCap
    <3>1. in_kernel' = in_kernel \/ (in_kernel > 0 /\ in_kernel' = in_kernel - 1)
      BY DEF FlushDone, Connect, OnWritable, Transmit, Tick, vars
    <3> QED
      BY <1>6, <3>1
  <2>2. now' \in Nat
    <3>1. now' = now \/ now' = now + 1
      BY DEF FlushDone, Connect, OnWritable, Transmit, Tick, vars
    <3> QED
      BY <1>5, <3>1 DEF TypeOK
  <2>3. peer' \in BOOLEAN
    <3>1. peer' = peer \/ peer' = TRUE
      BY DEF FlushDone, Connect, OnWritable, Transmit, Tick, vars
    <3>2. peer \in BOOLEAN
      BY <1>5 DEF TypeOK
    <3> QED
      BY <3>1, <3>2
  <2>4. wr_event' \in BOOLEAN
    <3>1. wr_event' = wr_event \/ wr_event' = FALSE \/ wr_event' = (wr_event \/ in_kernel = SndCap)
      BY DEF FlushDone, Connect, OnWritable, Transmit, Tick, vars
    <3>2. wr_event \in BOOLEAN
      BY <1>5 DEF TypeOK
    <3> QED
      BY <3>1, <3>2
  <2>5. interrupted' \subseteq Modes /\ to_flush' \subseteq Modes
    <3>1. interrupted' \subseteq interrupted /\ (to_flush' = to_flush \/ to_flush' = Modes)
      BY DEF FlushDone, Returned, Connect, OnWritable, Transmit, Tick, vars
    <3> QED
      BY <1>5, <3>1 DEF TypeOK
  <2>6. w_pc' \in {"idle", "gone"} \cup Modes
    BY <1>2, <1>5 DEF TypeOK
  <2>7. {peer', wr_event'} \subseteq BOOLEAN
    BY <2>3, <2>4
  <2>8. /\ current_write' \in [Modes -> Seq(Message)]
        /\ next_id' \in Nat \ {0}
        /\ given' \in [Modes -> SUBSET Nat]
        /\ shed' \in [Modes -> SUBSET Message] /\ lost' \in [Modes -> SUBSET Message]
        /\ sent' \in Seq([mode : Modes, msg : Message, whole : BOOLEAN])
        /\ DOMAIN out_queue' = Modes
    BY <1>1, <1>5 DEF TypeOK
  <2> QED
    BY <2>1, <2>2, <2>5, <2>6, <2>7, <2>8, <1>3, QueueTypes DEF TypeOK
<1>8. WakeInv'
  <2>1. ASSUME NEW o \in Modes, HasData(o)
        PROVE  \/ w_pc' = o
               \/ o \in to_flush' \cup interrupted' \/ wr_event' \/ in_kernel' = SndCap
    <3>1. \/ w_pc = o
          \/ o \in to_flush \cup interrupted \/ wr_event \/ in_kernel = SndCap
      BY <2>1, <1>5 DEF WakeInv
    <3>2. ASSUME NEW m \in Modes, FlushDone(m)
          PROVE  \/ w_pc' = o
                 \/ o \in to_flush' \cup interrupted' \/ wr_event' \/ in_kernel' = SndCap
      BY <2>1, <3>1, <3>2 DEF FlushDone, Returned
    <3>3. CASE OnWritable
      BY <3>3 DEF OnWritable
    <3>4. CASE Transmit
      BY <3>1, <3>4 DEF Transmit
    <3>5. CASE Connect \/ Tick \/ UNCHANGED vars
      BY <3>1, <3>5 DEF Connect, Tick, vars
    <3> QED
      BY <3>2, <3>3, <3>4, <3>5
  <2>2. w_pc' = "gone" => w_pc = "gone"
    BY <1>2
  <2> QED
    BY <2>1, <2>2, <1>4, <1>5 DEF WakeInv
<1> QED
  BY <1>3, <1>7, <1>8 DEF SendInv

(* The socket is taken apart, and nothing waits any more. *)
LEMMA GoneStep ==
  ASSUME SendInv, IntoUnderlyingSock
  PROVE  SendInv'
<1>1. /\ UNCHANGED <<peer, interrupted, wr_event, in_kernel, now, next_id, given, sent, shed,
                  lost>>
      /\ w_pc' = "gone" /\ to_flush' = {}
      /\ out_queue' = [m \in Modes |-> new] /\ current_write' = [m \in Modes |-> <<>>]
  BY DEF IntoUnderlyingSock
<1>2. QueueMap(new, NumberedMessage) /\ DOMAIN new = {} /\ SortedBy(new, IdOrder)
  BY NewMap
<1>3. \A m \in Modes : /\ out_queue'[m] = new /\ current_write'[m] = <<>>
                       /\ DOMAIN out_queue'[m] = {} /\ Len(current_write'[m]) = 0
  BY <1>1, <1>2
<1>4. \A m \in Modes : /\ Queued(out_queue'[m]) = {} /\ Held(m)' = {} /\ Waits(m)' = {}
                       /\ ~HasData(m)'
  BY <1>2, <1>3 DEF Queued, Held, Waits, HasData
<1>5. Queued(new) = {}
  BY <1>2 DEF Queued
<1>6. QueuesInv'
  <2>1. Numbered(new, next_id' - 1)
    BY <1>2, <1>5 DEF Numbered
  <2> QED
    BY <2>1, <1>3, <1>4 DEF QueuesInv
<1>7. SentInv' /\ PlacesInv'
  <2> DEFINE L == {}
  <2>1. L \subseteq Waiting /\ Lost' = Lost \cup L /\ L \cap Waiting' = {}
    BY <1>1 DEF Lost
  <2>2. UNCHANGED <<sent, shed, next_id>> /\ \A o \in Modes : Waits(o)' \subseteq Waits(o)
    BY <1>1, <1>4
  <2> HIDE DEF L
  <2> QED
    BY <1>1, <2>1, <2>2, RestStep
<1>8. TypeOK'
  <2>1. /\ DOMAIN out_queue' = Modes /\ current_write' \in [Modes -> Seq(Message)]
        /\ w_pc' \in {"idle", "gone"} \cup Modes /\ to_flush' \subseteq Modes
    BY <1>1
  <2>2. /\ {peer', wr_event'} \subseteq BOOLEAN
        /\ interrupted' \subseteq Modes /\ in_kernel' \in 0 .. SndCap
        /\ now' \in Nat /\ next_id' \in Nat \ {0}
        /\ given' \in [Modes -> SUBSET Nat]
        /\ shed' \in [Modes -> SUBSET Message] /\ lost' \in [Modes -> SUBSET Message]
        /\ sent' \in Seq([mode : Modes, msg : Message, whole : BOOLEAN])
    BY <1>1 DEF SendInv, TypeOK
  <2> QED
    BY <2>1, <2>2, <1>6, QueueTypes DEF TypeOK
<1>9. WakeInv'
  BY <1>4 DEF WakeInv
<1>10. GivenInv'
  <2>1. /\ given["write"] \cap given["write_to"] = {}
        /\ given["write"] \cup given["write_to"] = 1 .. next_id - 1
    BY DEF SendInv, GivenInv
  <2> QED
    BY <2>1, <1>1, <1>4, GivenStep
<1> QED
  BY <1>6, <1>7, <1>8, <1>9, <1>10 DEF SendInv

(* Every step keeps the invariant. *)
LEMMA SendNext == SendInv /\ [Next]_vars => SendInv'
<1> SUFFICES ASSUME SendInv, [Next]_vars PROVE SendInv'
  OBVIOUS
<1>1. ASSUME NEW m \in Modes,
             (\E p \in Priority : Write(m, p)) \/ WriteUnencodable(m) \/ WriteNone(m)
      PROVE  SendInv'
  BY <1>1, CallsStep
<1>2. ASSUME NEW m \in Modes, Flush(m)
      PROVE  SendInv'
  <2>1. CASE FlushDone(m)
    BY <2>1, QuietStep
  <2>2. CASE FlushSend(m) \/ FlushPartial(m)
    BY <2>2, FlushSendStep
  <2>3. CASE FlushWouldBlock(m) \/ FlushInterrupted(m) \/ FlushErr(m)
    BY <2>3, FlushEndsStep
  <2> QED
    BY <1>2, <2>1, <2>2, <2>3 DEF Flush
<1>3. CASE Connect \/ OnWritable \/ Transmit \/ Tick \/ UNCHANGED vars
  BY <1>3, QuietStep
<1>4. CASE IntoUnderlyingSock
  BY <1>4, GoneStep
<1> QED
  BY <1>1, <1>2, <1>3, <1>4 DEF Next

-----------------------------------------------------------------------------
(* The results.                                                             *)

(* The inductive invariant holds in every state of a run of the sender. *)
THEOREM SendInvariant == Spec => []SendInv
BY SendInit, SendNext, PTL DEF Spec

(* The fields of UdpSock keep their types. *)
THEOREM SendTypeCorrect == Spec => []TypeOK
<1>1. SendInv => TypeOK
  BY DEF SendInv
<1> QED
  BY <1>1, SendInvariant, PTL

(* Whatever was interleaved with the flushes of write and write_to, data    *)
(* waits only for a writable event that will come.                          *)
THEOREM SendNotStranded == Spec => []NoStrandedWrite
<1>1. SendInv => NoStrandedWrite
  BY DEF SendInv, WakeInv, NoStrandedWrite, Modes
<1> QED
  BY <1>1, SendInvariant, PTL

(* Through one method, messages of one priority leave in the order written. *)
THEOREM SendOrdered == Spec => []SentInOrder
<1>1. SendInv => SentInOrder
  BY DEF SendInv, SentInv
<1> QED
  BY <1>1, SendInvariant, PTL

(* The datagrams a method sent whole are as many as their messages. *)
LEMMA WholeOnce ==
  ASSUME SendInv, NEW m \in Modes
  PROVE  Cardinality(WholeSends(m)) = Cardinality(SentWhole(m))
<1> DEFINE D == WholeSends(m)
           f == [i \in D |-> sent[i].msg]
<1>1. DOMAIN sent = 1 .. Len(sent) /\ Len(sent) \in Nat
  BY SentShape DEF SendInv
<1>2. IsFiniteSet(D)
  <2>1. IsFiniteSet(1 .. Len(sent))
    BY <1>1, FS_Interval
  <2>2. D \subseteq 1 .. Len(sent)
    BY <1>1 DEF WholeSends
  <2> QED
    BY <2>1, <2>2, FS_Subset
<1>3. f \in Bijection(D, SentWhole(m))
  <2>1. \A i, j \in D : f[i] = f[j] => i = j
    BY DEF SendInv, PlacesInv, WholeSends
  <2>2. \A i \in D : f[i] \in SentWhole(m)
    BY DEF SentWhole
  <2>3. \A x \in SentWhole(m) : \E i \in D : f[i] = x
    BY DEF SentWhole
  <2> HIDE DEF D
  <2> QED
    BY <2>1, <2>2, <2>3 DEF Bijection, Injection, Surjection, IsInjective
<1>4. ExistsBijection(D, SentWhole(m))
  BY <1>3 DEF ExistsBijection
<1> QED
  BY <1>2, <1>4, FS_Bijection

(* What is known of is known of one method. *)
LEMMA KnownShape ==
  ASSUME SendInv
  PROVE  /\ \A x \in Known : \E m \in Modes : x \in Waits(m) \cup SentWhole(m) \cup shed[m] \cup lost[m]
         /\ \A m \in Modes : /\ Waits(m) \subseteq Waiting /\ SentWhole(m) \subseteq AllSent
                             /\ shed[m] \subseteq Shed /\ lost[m] \subseteq Lost
<1>1. \A x \in AllSent : \E m \in Modes : x \in SentWhole(m)
  <2>1. \A i \in DOMAIN sent : sent[i].mode \in Modes
    BY SentShape DEF SendInv
  <2> QED
    BY <2>1 DEF AllSent, SentWhole, WholeSends
<1>2. \A m \in Modes : SentWhole(m) \subseteq AllSent
  BY DEF AllSent, SentWhole, WholeSends
<1> QED
  BY <1>1, <1>2 DEF Known, Waiting, Shed, Lost

(* A message given to write or write_to is in exactly one place, of that    *)
(* method: waiting, sent whole once, shed and droppable, or in hand when    *)
(* send failed.  Neither method has, sends, sheds or loses one that was     *)
(* given to the other.                                                      *)
THEOREM SendAccounted == Spec => []EveryMessageAccounted
<1>1. SendInv => EveryMessageAccounted
  <2> SUFFICES ASSUME SendInv, w_pc # "gone", NEW m \in Modes
               PROVE  LET groups == <<Waits(m), SentWhole(m), shed[m], lost[m]>>
                      IN  /\ {x.id : x \in UNION {groups[i] : i \in 1 .. 4}} = given[m]
                          /\ \A i, j \in 1 .. 4 : i # j => groups[i] \cap groups[j] = {}
                          /\ Cardinality(WholeSends(m)) = Cardinality(SentWhole(m))
                          /\ \A x \in shed[m] : x.priority >= msg_drop_priority
    BY DEF EveryMessageAccounted
  <2> DEFINE groups == <<Waits(m), SentWhole(m), shed[m], lost[m]>>
             Has(o) == Waits(o) \cup SentWhole(o) \cup shed[o] \cup lost[o]
  <2>1. 1 .. 4 = {1, 2, 3, 4}
    OBVIOUS
  <2>2. groups[1] = Waits(m) /\ groups[2] = SentWhole(m) /\ groups[3] = shed[m] /\ groups[4] = lost[m]
    OBVIOUS
  <2> HIDE DEF groups
  <2>3. UNION {groups[i] : i \in 1 .. 4} = Has(m)
    BY <2>1, <2>2
  <2>4. {x.id : x \in Has(m)} = given[m]
    <3>1. \A o \in Modes : \A x \in Has(o) : x.id \in given[o]
      BY DEF SendInv, GivenInv, SentWhole, WholeSends
    <3>2. ASSUME NEW k \in given[m] PROVE \E x \in Has(m) : x.id = k
      <4>1. k \in 1 .. next_id - 1
        BY DEF SendInv, GivenInv, Modes
      <4>2. PICK x \in Known : x.id = k
        BY <4>1 DEF SendInv, PlacesInv
      <4>3. PICK o \in Modes : x \in Has(o)
        BY KnownShape
      <4>4. o = m
        BY <3>1, <4>2, <4>3 DEF SendInv, GivenInv, Modes
      <4> QED
        BY <4>2, <4>3, <4>4
    <3> HIDE DEF Has
    <3> QED
      BY <3>1, <3>2
  <2>5. \A i, j \in 1 .. 4 : i # j => groups[i] \cap groups[j] = {}
    <3>1. /\ Waiting \cap AllSent = {} /\ Waiting \cap Shed = {} /\ Waiting \cap Lost = {}
          /\ AllSent \cap Shed = {} /\ AllSent \cap Lost = {} /\ Shed \cap Lost = {}
      BY DEF SendInv, PlacesInv
    <3>2. /\ Waits(m) \subseteq Waiting /\ SentWhole(m) \subseteq AllSent
          /\ shed[m] \subseteq Shed /\ lost[m] \subseteq Lost
      BY KnownShape
    <3> QED
      BY <2>1, <2>2, <3>1, <3>2
  <2>6. \A x \in shed[m] : x.priority >= msg_drop_priority
    BY DEF SendInv, PlacesInv, Shed
  <2> QED
    BY <2>3, <2>4, <2>5, <2>6, WholeOnce DEF groups
<1> QED
  BY <1>1, SendInvariant, PTL
==============================================================================
