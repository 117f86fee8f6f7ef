--------------------------- MODULE OutQueueProofs ---------------------------
(***************************************************************************)
(* Proofs about OutQueueMachine, for every set of priorities, drop          *)
(* priority, age limit and clock resolution.                                *)
(***************************************************************************)
EXTENDS OutQueueMachine, OutQueueTheorems

-----------------------------------------------------------------------------
(* What the operations do to the map, one priority at a time.               *)

(* What the type invariant says of one queued message. *)
LEMMA EntryType ==
  ASSUME TypeOK, NEW p \in DOMAIN inner, NEW i \in 1 .. Len(inner[p])
  PROVE  /\ inner[p][i] \in Entry
         /\ inner[p][i].at \in Nat
         /\ inner[p][i].msg \in Message
         /\ inner[p][i].msg.id \in Nat
         /\ inner[p][i].msg.priority \in Priority
<1>1. inner[p] \in Seq(Entry)
  BY DEF TypeOK
<1>2. inner[p][i] \in Entry
  BY <1>1, ElementOfSeq
<1> QED
  BY <1>2 DEF Entry, Message

(* The messages in the queues are messages. *)
LEMMA QueuedType ==
  ASSUME TypeOK
  PROVE  Queued(inner) \subseteq Message
<1> SUFFICES ASSUME NEW m \in Queued(inner) PROVE m \in Message
  OBVIOUS
<1>1. PICK p \in DOMAIN inner : \E i \in DOMAIN inner[p] : m = inner[p][i].msg
  BY DEF Queued
<1>2. PICK i \in DOMAIN inner[p] : m = inner[p][i].msg
  BY <1>1
<1>3. DOMAIN inner[p] = 1 .. Len(inner[p])
  BY DEF TypeOK
<1> QED
  BY <1>2, <1>3, EntryType

(* push leaves the other queues alone and appends to the one it names. *)
LEMMA PushShape ==
  ASSUME TypeOK, NEW p \in Priority, NEW e \in Entry
  PROVE  LET q == push_at(inner, e.at, e.msg, p)
         IN  /\ DOMAIN q = DOMAIN inner \cup {p}
             /\ \A r \in DOMAIN inner \ {p} : q[r] = inner[r]
             /\ q[p] = Append(QueueAt(inner, p), e)
             /\ QueueAt(inner, p) \in Seq(Entry)
             /\ q \in [DOMAIN q -> Seq(Entry)]
<1> DEFINE q == push_at(inner, e.at, e.msg, p)
<1>1. QueueAt(inner, p) \in Seq(Entry)
  BY DEF TypeOK, QueueAt
<1>2. e = [at |-> e.at, msg |-> e.msg]
  BY DEF Entry
<1>3. /\ DOMAIN q = DOMAIN inner \cup {p}
      /\ \A r \in DOMAIN inner \ {p} : q[r] = inner[r]
      /\ q[p] = Append(QueueAt(inner, p), e)
  BY <1>2 DEF push_at
<1>4. Append(QueueAt(inner, p), e) \in Seq(Entry)
  BY <1>1, AppendProperties
<1>5. q = [r \in DOMAIN q |-> q[r]]
  BY DEF push_at
<1>6. \A r \in DOMAIN q : q[r] \in Seq(Entry)
  BY <1>3, <1>4 DEF TypeOK
<1>7. q \in [DOMAIN q -> Seq(Entry)]
  BY <1>5, <1>6
<1> QED
  BY <1>1, <1>3, <1>7

(* drop_expired removes whole queues. *)
LEMMA DropShape ==
  ASSUME TypeOK
  PROVE  LET q == drop_expired(inner, now)
         IN  /\ DOMAIN q \subseteq DOMAIN inner
             /\ \A r \in DOMAIN q : q[r] = inner[r]
             /\ q \in [DOMAIN q -> Seq(Entry)]
BY DEF TypeOK, drop_expired

(* next_msg takes the head of the first queue and leaves the others alone;  *)
(* the first queue goes with its last message.                              *)
LEMMA NextShape ==
  ASSUME TypeOK, NoEmptyQueue, DOMAIN inner # {}
  PROVE  LET q == after_next_msg(inner)
             k == next_key(inner)
         IN  /\ k \in DOMAIN inner
             /\ inner[k] \in Seq(Entry) /\ inner[k] # <<>>
             /\ next_msg(inner) = inner[k][1].msg
             /\ DOMAIN q \subseteq DOMAIN inner
             /\ DOMAIN inner \ {k} \subseteq DOMAIN q
             /\ \A r \in DOMAIN q \ {k} : q[r] = inner[r]
             /\ k \in DOMAIN q => q[k] = Tail(inner[k]) /\ q[k] # <<>>
             /\ q \in [DOMAIN q -> Seq(Entry)]
<1> DEFINE q == after_next_msg(inner)
           k == next_key(inner)
<1>1. k \in DOMAIN inner
  BY NextKey DEF TypeOK
<1>2. inner[k] \in Seq(Entry) /\ inner[k] # <<>>
  BY <1>1 DEF TypeOK, NoEmptyQueue
<1>3. Tail(inner[k]) \in Seq(Entry)
  BY <1>2, HeadTailProperties
<1>4. next_msg(inner) = inner[k][1].msg
  BY <1>2 DEF next_msg
<1>5. CASE Tail(inner[k]) = <<>>
  <2>1. q = [p \in DOMAIN inner \ {k} |-> inner[p]]
    BY <1>5 DEF after_next_msg
  <2> QED
    BY <2>1, <1>1, <1>2, <1>4 DEF TypeOK
<1>6. CASE Tail(inner[k]) # <<>>
  <2>1. q = [inner EXCEPT ![k] = Tail(inner[k])]
    BY <1>6 DEF after_next_msg
  <2>2. /\ DOMAIN q = DOMAIN inner
        /\ \A r \in DOMAIN q \ {k} : q[r] = inner[r]
        /\ q[k] = Tail(inner[k])
    BY <2>1, <1>1 DEF TypeOK
  <2>3. q \in [DOMAIN q -> Seq(Entry)]
    BY <2>1, <1>1, <1>3 DEF TypeOK
  <2> QED
    BY <2>2, <2>3, <1>1, <1>2, <1>4, <1>6
<1> QED
  BY <1>5, <1>6

-----------------------------------------------------------------------------
(* Type correctness needs NoEmptyQueue: next_msg takes the head of a queue. *)

(* OutQueue::new has no queue at all. *)
LEMMA TypeInit == Init => TypeOK /\ NoEmptyQueue
<1> SUFFICES ASSUME Init PROVE TypeOK /\ NoEmptyQueue
  OBVIOUS
<1>1. inner = [p \in {} |-> <<>>]
  BY DEF Init, new
<1>2. DOMAIN inner = {} /\ inner \in [DOMAIN inner -> Seq(Entry)]
  BY <1>1
<1>3. taken \in Seq(Message)
  BY DEF Init
<1> QED
  BY <1>2, <1>3 DEF Init, TypeOK, NoEmptyQueue

(* push creates a queue with its first message and next_msg removes a queue *)
(* with its last one, so types and NoEmptyQueue are preserved together.     *)
LEMMA TypeStep ==
  ASSUME TypeOK, NoEmptyQueue, [Next]_vars
  PROVE  TypeOK' /\ NoEmptyQueue'
<1>1. ASSUME NEW p \in Priority, Push(p) PROVE TypeOK' /\ NoEmptyQueue'
  <2> DEFINE e == [at |-> now, msg |-> [id |-> next_id, priority |-> p]]
  <2>1. e \in Entry
    BY DEF TypeOK, Entry, Message
  <2>2. inner' = push_at(inner, e.at, e.msg, p)
    BY <1>1 DEF Push
  <2>3. /\ DOMAIN inner' = DOMAIN inner \cup {p}
        /\ \A r \in DOMAIN inner \ {p} : inner'[r] = inner[r]
        /\ inner'[p] = Append(QueueAt(inner, p), e)
        /\ QueueAt(inner, p) \in Seq(Entry)
        /\ inner' \in [DOMAIN inner' -> Seq(Entry)]
    BY <2>1, <2>2, PushShape
  <2>4. TypeOK'
    BY <1>1, <2>3 DEF TypeOK, Push
  <2>5. inner'[p] # <<>>
    BY <2>1, <2>3, AppendProperties
  <2>6. NoEmptyQueue'
    BY <2>3, <2>5 DEF NoEmptyQueue
  <2> QED
    BY <2>4, <2>6
<1>2. ASSUME DropExpired PROVE TypeOK' /\ NoEmptyQueue'
  <2>1. /\ DOMAIN inner' \subseteq DOMAIN inner
        /\ \A r \in DOMAIN inner' : inner'[r] = inner[r]
        /\ inner' \in [DOMAIN inner' -> Seq(Entry)]
    BY <1>2, DropShape DEF DropExpired
  <2>2. Queued(inner) \subseteq Message
    BY QueuedType
  <2>3. shed' \subseteq Message
    BY <1>2, <2>2 DEF DropExpired, TypeOK
  <2>4. TypeOK'
    BY <1>2, <2>1, <2>3 DEF TypeOK, DropExpired
  <2>5. NoEmptyQueue'
    BY <2>1 DEF NoEmptyQueue
  <2> QED
    BY <2>4, <2>5
<1>3. ASSUME NextMsg PROVE TypeOK' /\ NoEmptyQueue'
  <2> DEFINE k == next_key(inner)
  <2>1. /\ k \in DOMAIN inner
        /\ inner[k] \in Seq(Entry) /\ inner[k] # <<>>
        /\ next_msg(inner) = inner[k][1].msg
        /\ DOMAIN inner' \subseteq DOMAIN inner
        /\ \A r \in DOMAIN inner' \ {k} : inner'[r] = inner[r]
        /\ k \in DOMAIN inner' => inner'[k] # <<>>
        /\ inner' \in [DOMAIN inner' -> Seq(Entry)]
    BY <1>3, NextShape DEF NextMsg
  <2>2. next_msg(inner) \in Message
    <3>1. 1 \in 1 .. Len(inner[k])
      BY <2>1
    <3> QED
      BY <2>1, <3>1, EntryType
  <2>3. taken' \in Seq(Message)
    BY <1>3, <2>2, AppendProperties DEF NextMsg, TypeOK
  <2>4. TypeOK'
    BY <1>3, <2>1, <2>3 DEF TypeOK, NextMsg
  <2>5. NoEmptyQueue'
    BY <2>1 DEF NoEmptyQueue
  <2> QED
    BY <2>4, <2>5
<1>4. ASSUME Tick PROVE TypeOK' /\ NoEmptyQueue'
  BY <1>4 DEF Tick, TypeOK, NoEmptyQueue
<1>5. ASSUME UNCHANGED vars PROVE TypeOK' /\ NoEmptyQueue'
  BY <1>5 DEF vars, TypeOK, NoEmptyQueue
<1> QED
  BY <1>1, <1>2, <1>3, <1>4, <1>5 DEF Next

(* The variables of the queue always have their types. *)
THEOREM TypeCorrect == Spec => []TypeOK
<1>1. TypeOK /\ NoEmptyQueue /\ [Next]_vars => (TypeOK /\ NoEmptyQueue)'
  BY TypeStep
<1> QED
  BY <1>1, TypeInit, PTL DEF Spec

(* The front of the first queue can always be popped: next_msg never        *)
(* panics, after any sequence of pushes, drops and pops.                    *)
THEOREM NextMsgNeverPanics == Spec => []NoEmptyQueue
<1>1. TypeOK /\ NoEmptyQueue /\ [Next]_vars => (TypeOK /\ NoEmptyQueue)'
  BY TypeStep
<1> QED
  BY <1>1, TypeInit, PTL DEF Spec

-----------------------------------------------------------------------------
(* The order of the messages.  What each action does to one position of one *)
(* queue:                                                                   *)

(* push adds one position, the last of its queue, and changes none. *)
LEMMA PushElements ==
  ASSUME TypeOK, NEW p \in Priority, Push(p),
         NEW q \in DOMAIN inner', NEW i \in 1 .. Len(inner'[q])
  PROVE  \/ /\ q \in DOMAIN inner
            /\ i \in 1 .. Len(inner[q])
            /\ inner'[q][i] = inner[q][i]
         \/ /\ q = p
            /\ i = Len(inner'[q])
            /\ inner'[q][i] = [at |-> now, msg |-> [id |-> next_id, priority |-> p]]
<1> DEFINE e == [at |-> now, msg |-> [id |-> next_id, priority |-> p]]
<1>1. e \in Entry
  BY DEF TypeOK, Entry, Message
<1>2. inner' = push_at(inner, e.at, e.msg, p)
  BY DEF Push
<1>3. /\ DOMAIN inner' = DOMAIN inner \cup {p}
      /\ \A r \in DOMAIN inner \ {p} : inner'[r] = inner[r]
      /\ inner'[p] = Append(QueueAt(inner, p), e)
      /\ QueueAt(inner, p) \in Seq(Entry)
  BY <1>1, <1>2, PushShape
<1>4. CASE q # p
  BY <1>3, <1>4
<1>5. CASE q = p
  <2> DEFINE s == QueueAt(inner, p)
  <2>1. /\ Len(inner'[p]) = Len(s) + 1
        /\ \A j \in 1 .. Len(s) : inner'[p][j] = s[j]
        /\ inner'[p][Len(s) + 1] = e
    BY <1>1, <1>3, AppendProperties
  <2>2. Len(s) \in Nat
    BY <1>3
  <2>3. CASE i = Len(s) + 1
    BY <1>5, <2>1, <2>3
  <2>4. CASE i # Len(s) + 1
    <3>1. i \in 1 .. Len(s)
      BY <1>5, <2>1, <2>2, <2>4
    <3>2. p \in DOMAIN inner /\ s = inner[p]
      BY <3>1 DEF QueueAt
    <3> QED
      BY <1>5, <2>1, <3>1, <3>2
  <2> QED
    BY <2>3, <2>4
<1> QED
  BY <1>4, <1>5

(* Every queue drop_expired leaves is one there was. *)
LEMMA DropElements ==
  ASSUME TypeOK, DropExpired, NEW q \in DOMAIN inner'
  PROVE  q \in DOMAIN inner /\ inner'[q] = inner[q]
BY DropShape DEF DropExpired

(* next_msg moves the positions of the first queue down by one. *)
LEMMA NextElements ==
  ASSUME TypeOK, NoEmptyQueue, NextMsg, NEW q \in DOMAIN inner'
  PROVE  LET d == IF q = next_key(inner) THEN 1 ELSE 0
         IN  /\ q \in DOMAIN inner
             /\ Len(inner'[q]) \in Nat
             /\ Len(inner[q]) = Len(inner'[q]) + d
             /\ \A i \in 1 .. Len(inner'[q]) : inner'[q][i] = inner[q][i + d]
<1> DEFINE k == next_key(inner)
<1>1. /\ k \in DOMAIN inner
      /\ inner[k] \in Seq(Entry) /\ inner[k] # <<>>
      /\ DOMAIN inner' \subseteq DOMAIN inner
      /\ \A r \in DOMAIN inner' \ {k} : inner'[r] = inner[r]
      /\ k \in DOMAIN inner' => inner'[k] = Tail(inner[k])
      /\ inner' \in [DOMAIN inner' -> Seq(Entry)]
  BY NextShape DEF NextMsg
<1>2. inner'[q] \in Seq(Entry) /\ inner[q] \in Seq(Entry)
  BY <1>1 DEF TypeOK
<1>3. CASE q # k
  BY <1>1, <1>2, <1>3
<1>4. CASE q = k
  <2>1. /\ Len(Tail(inner[k])) = Len(inner[k]) - 1
        /\ \A i \in 1 .. Len(Tail(inner[k])) : Tail(inner[k])[i] = inner[k][i + 1]
    BY <1>1, HeadTailProperties
  <2>2. inner'[q] = Tail(inner[k]) /\ inner[q] = inner[k] /\ q \in DOMAIN inner
    BY <1>1, <1>4
  <2>3. Len(inner'[q]) \in Nat /\ Len(inner[q]) \in Nat
    BY <1>2
  <2>4. /\ Len(inner[q]) = Len(inner'[q]) + 1
        /\ \A i \in 1 .. Len(inner'[q]) : inner'[q][i] = inner[q][i + 1]
    BY <2>1, <2>2, <2>3
  <2> QED
    BY <1>4, <2>2, <2>3, <2>4
<1> QED
  BY <1>3, <1>4

(* OldestInFront is preserved: the clock never goes back. *)
LEMMA OldestStep ==
  ASSUME TypeOK, NoEmptyQueue, OldestInFront, [Next]_vars
  PROVE  OldestInFront'
<1> USE DEF OldestInFront
<1>1. ASSUME NEW p \in Priority, Push(p) PROVE OldestInFront'
  <2> SUFFICES ASSUME NEW q \in DOMAIN inner', NEW i \in 1 .. Len(inner'[q])
               PROVE  /\ inner'[q][i].at <= now'
                      /\ \A j \in i .. Len(inner'[q]) : inner'[q][i].at <= inner'[q][j].at
    OBVIOUS
  <2>1. now' = now /\ now \in Nat
    BY <1>1 DEF Push, TypeOK
  <2>2. inner'[q][i].at <= now /\ inner'[q][i].at \in Nat
    <3>1. CASE q \in DOMAIN inner /\ i \in 1 .. Len(inner[q]) /\ inner'[q][i] = inner[q][i]
      BY <3>1, EntryType
    <3>2. CASE inner'[q][i] = [at |-> now, msg |-> [id |-> next_id, priority |-> p]]
      BY <2>1, <3>2
    <3> QED
      BY <1>1, <3>1, <3>2, PushElements
  <2>3. ASSUME NEW j \in i .. Len(inner'[q]) PROVE inner'[q][i].at <= inner'[q][j].at
    <3>1. i \in Nat /\ j \in 1 .. Len(inner'[q]) /\ j >= i
      OBVIOUS
    <3>2. CASE /\ q = p /\ j = Len(inner'[q])
               /\ inner'[q][j] = [at |-> now, msg |-> [id |-> next_id, priority |-> p]]
      BY <2>2, <3>2
    <3>3. CASE q \in DOMAIN inner /\ j \in 1 .. Len(inner[q]) /\ inner'[q][j] = inner[q][j]
      <4>1. CASE q \in DOMAIN inner /\ i \in 1 .. Len(inner[q]) /\ inner'[q][i] = inner[q][i]
        <5>1. j \in i .. Len(inner[q])
          BY <3>1, <3>3
        <5> QED
          BY <3>3, <4>1, <5>1
      <4>2. CASE i = Len(inner'[q])
        <5>1. i = j
          BY <3>1, <4>2
        <5> QED
          BY <2>2, <5>1
      <4> QED
        BY <1>1, <4>1, <4>2, PushElements
    <3> QED
      BY <1>1, <3>1, <3>2, <3>3, PushElements
  <2> QED
    BY <2>1, <2>2, <2>3
<1>2. ASSUME DropExpired PROVE OldestInFront'
  BY <1>2, DropElements DEF DropExpired
<1>3. ASSUME NextMsg PROVE OldestInFront'
  <2> SUFFICES ASSUME NEW q \in DOMAIN inner', NEW i \in 1 .. Len(inner'[q])
               PROVE  /\ inner'[q][i].at <= now'
                      /\ \A j \in i .. Len(inner'[q]) : inner'[q][i].at <= inner'[q][j].at
    OBVIOUS
  <2> DEFINE d == IF q = next_key(inner) THEN 1 ELSE 0
  <2>1. /\ q \in DOMAIN inner
        /\ Len(inner'[q]) \in Nat
        /\ Len(inner[q]) = Len(inner'[q]) + d
        /\ \A j \in 1 .. Len(inner'[q]) : inner'[q][j] = inner[q][j + d]
    BY <1>3, NextElements
  <2>2. d \in 0 .. 1 /\ i \in Nat
    OBVIOUS
  <2> HIDE DEF d
  <2>3. i + d \in 1 .. Len(inner[q])
    BY <2>1, <2>2
  <2>4. inner'[q][i].at <= now'
    BY <1>3, <2>1, <2>3 DEF NextMsg
  <2>5. ASSUME NEW j \in i .. Len(inner'[q]) PROVE inner'[q][i].at <= inner'[q][j].at
    <3>1. j \in 1 .. Len(inner'[q]) /\ j + d \in i + d .. Len(inner[q])
      BY <2>1, <2>2
    <3> QED
      BY <2>1, <2>3, <3>1
  <2> QED
    BY <2>4, <2>5
<1>4. ASSUME Tick PROVE OldestInFront'
  <2>1. inner' = inner /\ now' = now + 1 /\ now \in Nat
    BY <1>4 DEF Tick, TypeOK
  <2>2. ASSUME NEW q \in DOMAIN inner, NEW i \in 1 .. Len(inner[q])
        PROVE  inner[q][i].at <= now + 1
    BY <2>1, <2>2, EntryType
  <2> QED
    BY <2>1, <2>2
<1>5. ASSUME UNCHANGED vars PROVE OldestInFront'
  BY <1>5 DEF vars
<1> QED
  BY <1>1, <1>2, <1>3, <1>4, <1>5 DEF Next

(* QueuedInOrder is preserved: the message pushed has the largest id. *)
LEMMA QueuedStep ==
  ASSUME TypeOK, NoEmptyQueue, QueuedInOrder, [Next]_vars
  PROVE  QueuedInOrder'
<1> USE DEF QueuedInOrder
<1>1. ASSUME NEW p \in Priority, Push(p) PROVE QueuedInOrder'
  <2> SUFFICES ASSUME NEW q \in DOMAIN inner', NEW i \in 1 .. Len(inner'[q])
               PROVE  /\ inner'[q][i].msg.priority = q
                      /\ inner'[q][i].msg.id \in 1 .. next_id' - 1
                      /\ \A j \in i + 1 .. Len(inner'[q]) :
                           inner'[q][i].msg.id < inner'[q][j].msg.id
    OBVIOUS
  <2> DEFINE e == [at |-> now, msg |-> [id |-> next_id, priority |-> p]]
             Old(j) == q \in DOMAIN inner /\ j \in 1 .. Len(inner[q]) /\ inner'[q][j] = inner[q][j]
             Last(j) == q = p /\ j = Len(inner'[q]) /\ inner'[q][j] = e
  <2>1. next_id' = next_id + 1 /\ next_id \in Nat \ {0}
    BY <1>1 DEF Push, TypeOK
  <2>2. \A j \in 1 .. Len(inner'[q]) : Old(j) \/ Last(j)
    BY <1>1, PushElements
  <2>3. CASE Old(i)
    <3>1. inner'[q][i].msg.priority = q /\ inner'[q][i].msg.id \in 1 .. next_id - 1
      BY <2>3
    <3>2. ASSUME NEW j \in i + 1 .. Len(inner'[q])
          PROVE  inner'[q][i].msg.id < inner'[q][j].msg.id
      <4>1. CASE Old(j)
        <5>1. j \in i + 1 .. Len(inner[q])
          BY <4>1
        <5> QED
          BY <2>3, <4>1, <5>1
      <4>2. CASE Last(j)
        <5>1. inner'[q][j].msg.id = next_id
          BY <4>2
        <5> QED
          BY <2>1, <3>1, <5>1
      <4> QED
        BY <2>2, <4>1, <4>2
    <3> QED
      BY <2>1, <3>1, <3>2
  <2>4. CASE Last(i)
    <3>1. inner'[q][i].msg.priority = q /\ inner'[q][i].msg.id = next_id
      BY <2>4
    <3>2. i + 1 .. Len(inner'[q]) = {}
      BY <2>4
    <3> QED
      BY <2>1, <3>1, <3>2
  <2> QED
    BY <2>2, <2>3, <2>4
<1>2. ASSUME DropExpired PROVE QueuedInOrder'
  BY <1>2, DropElements DEF DropExpired
<1>3. ASSUME NextMsg PROVE QueuedInOrder'
  <2> SUFFICES ASSUME NEW q \in DOMAIN inner', NEW i \in 1 .. Len(inner'[q])
               PROVE  /\ inner'[q][i].msg.priority = q
                      /\ inner'[q][i].msg.id \in 1 .. next_id' - 1
                      /\ \A j \in i + 1 .. Len(inner'[q]) :
                           inner'[q][i].msg.id < inner'[q][j].msg.id
    OBVIOUS
  <2> DEFINE d == IF q = next_key(inner) THEN 1 ELSE 0
  <2>1. /\ q \in DOMAIN inner
        /\ Len(inner'[q]) \in Nat
        /\ Len(inner[q]) = Len(inner'[q]) + d
        /\ \A j \in 1 .. Len(inner'[q]) : inner'[q][j] = inner[q][j + d]
    BY <1>3, NextElements
  <2>2. d \in 0 .. 1 /\ i \in Nat
    OBVIOUS
  <2> HIDE DEF d
  <2>3. i + d \in 1 .. Len(inner[q])
    BY <2>1, <2>2
  <2>4. inner'[q][i].msg.priority = q /\ inner'[q][i].msg.id \in 1 .. next_id' - 1
    BY <1>3, <2>1, <2>3 DEF NextMsg
  <2>5. ASSUME NEW j \in i + 1 .. Len(inner'[q])
        PROVE  inner'[q][i].msg.id < inner'[q][j].msg.id
    <3>1. j \in 1 .. Len(inner'[q]) /\ j + d \in (i + d) + 1 .. Len(inner[q])
      BY <2>1, <2>2
    <3> QED
      BY <2>1, <2>3, <3>1
  <2> QED
    BY <2>4, <2>5
<1>4. ASSUME Tick PROVE QueuedInOrder'
  BY <1>4 DEF Tick
<1>5. ASSUME UNCHANGED vars PROVE QueuedInOrder'
  BY <1>5 DEF vars
<1> QED
  BY <1>1, <1>2, <1>3, <1>4, <1>5 DEF Next

(* The messages taken stay in order and ahead of those queued: next_msg     *)
(* takes the head of its queue, and a push comes after all of them.         *)
LEMMA FifoStep ==
  ASSUME OrderInv, [Next]_vars
  PROVE  TakenNumbered' /\ FifoWithinPriority'
<1> USE DEF OrderInv, TakenNumbered, FifoWithinPriority
<1>0. taken \in Seq(Message) /\ Len(taken) \in Nat /\ next_id \in Nat \ {0}
  BY DEF TypeOK
<1>1. ASSUME NEW p \in Priority, Push(p) PROVE TakenNumbered' /\ FifoWithinPriority'
  <2>1. taken' = taken /\ next_id' = next_id + 1
    BY <1>1 DEF Push
  <2>2. ASSUME NEW i \in 1 .. Len(taken), NEW q \in DOMAIN inner',
               NEW j \in 1 .. Len(inner'[q]), taken[i].priority = q
        PROVE  taken[i].id < inner'[q][j].msg.id
    <3>1. CASE q \in DOMAIN inner /\ j \in 1 .. Len(inner[q]) /\ inner'[q][j] = inner[q][j]
      BY <2>2, <3>1
    <3>2. CASE inner'[q][j] = [at |-> now, msg |-> [id |-> next_id, priority |-> p]]
      <4>1. inner'[q][j].msg.id = next_id
        BY <3>2
      <4> QED
        BY <1>0, <4>1
    <3> QED
      BY <1>1, <3>1, <3>2, PushElements
  <2> QED
    BY SMTT(20), <1>0, <2>1, <2>2
<1>2. ASSUME DropExpired PROVE TakenNumbered' /\ FifoWithinPriority'
  <2>1. taken' = taken /\ next_id' = next_id
    BY <1>2 DEF DropExpired
  <2> QED
    BY <1>2, <2>1, DropElements
<1>3. ASSUME NextMsg PROVE TakenNumbered' /\ FifoWithinPriority'
  <2> DEFINE k == next_key(inner)
             m == inner[k][1].msg
  <2>1. /\ k \in DOMAIN inner /\ inner[k] \in Seq(Entry) /\ inner[k] # <<>>
        /\ next_msg(inner) = m
    BY <1>3, NextShape DEF NextMsg
  <2>2. 1 \in 1 .. Len(inner[k])
    BY <2>1
  <2>3. m \in Message /\ m.priority = k /\ m.id \in 1 .. next_id - 1
    BY <2>1, <2>2, EntryType DEF QueuedInOrder
  <2>4. taken' = Append(taken, m) /\ next_id' = next_id
    BY <1>3, <2>1 DEF NextMsg
  <2>5. \A i \in 1 .. Len(taken) : taken[i].priority = k => taken[i].id < m.id
    BY <2>1, <2>2
  <2>6. ASSUME NEW q \in DOMAIN inner', NEW j \in 1 .. Len(inner'[q]), k = q
        PROVE  m.id < inner'[q][j].msg.id
    <3>1. Len(inner[k]) = Len(inner'[k]) + 1 /\ inner'[k][j] = inner[k][j + 1]
      BY <1>3, <2>6, NextElements
    <3>2. j + 1 \in 1 + 1 .. Len(inner[k])
      BY <2>6, <3>1
    <3> QED
      BY <2>1, <2>2, <2>6, <3>1, <3>2 DEF QueuedInOrder
  <2>7. ASSUME NEW i \in 1 .. Len(taken), NEW q \in DOMAIN inner',
               NEW j \in 1 .. Len(inner'[q]), taken[i].priority = q
        PROVE  taken[i].id < inner'[q][j].msg.id
    <3> DEFINE d == IF q = k THEN 1 ELSE 0
    <3>1. /\ q \in DOMAIN inner
          /\ Len(inner'[q]) \in Nat
          /\ Len(inner[q]) = Len(inner'[q]) + d
          /\ inner'[q][j] = inner[q][j + d]
      BY <1>3, NextElements
    <3>2. d \in 0 .. 1
      OBVIOUS
    <3>3. j + d \in 1 .. Len(inner[q])
      BY <3>1, <3>2
    <3> QED
      BY <2>7, <3>1, <3>3
  <2>8. /\ Len(taken') = Len(taken) + 1
        /\ \A i \in 1 .. Len(taken) : taken'[i] = taken[i]
        /\ taken'[Len(taken) + 1] = m
    BY <1>0, <2>3, <2>4, AppendProperties
  <2> HIDE DEF m, k
  <2>9. TakenNumbered'
    BY <1>0, <2>3, <2>4, <2>8
  <2>10. ASSUME NEW i \in 1 .. Len(taken'), NEW j \in i + 1 .. Len(taken'),
                taken'[i].priority = taken'[j].priority
         PROVE  taken'[i].id < taken'[j].id
    <3>1. i \in 1 .. Len(taken) /\ taken'[i] = taken[i]
      BY <1>0, <2>8
    <3>2. CASE j = Len(taken) + 1
      BY <2>3, <2>5, <2>8, <2>10, <3>1, <3>2
    <3>3. CASE j # Len(taken) + 1
      <4>1. j \in i + 1 .. Len(taken) /\ taken'[j] = taken[j]
        BY <1>0, <2>8, <3>1, <3>3
      <4> QED
        BY <2>10, <3>1, <4>1
    <3> QED
      BY <3>2, <3>3
  <2>11. ASSUME NEW i \in 1 .. Len(taken'), NEW q \in DOMAIN inner',
                NEW j \in 1 .. Len(inner'[q]), taken'[i].priority = q
         PROVE  taken'[i].id < inner'[q][j].msg.id
    <3>1. CASE i = Len(taken) + 1
      BY <2>3, <2>6, <2>8, <2>11, <3>1
    <3>2. CASE i # Len(taken) + 1
      <4>1. i \in 1 .. Len(taken) /\ taken'[i] = taken[i]
        BY <1>0, <2>8, <3>2
      <4> QED
        BY <2>7, <2>11, <4>1
    <3> QED
      BY <3>1, <3>2
  <2> QED
    BY <2>9, <2>10, <2>11
<1>4. ASSUME Tick PROVE TakenNumbered' /\ FifoWithinPriority'
  BY <1>4 DEF Tick
<1>5. ASSUME UNCHANGED vars PROVE TakenNumbered' /\ FifoWithinPriority'
  BY <1>5 DEF vars
<1> QED
  BY <1>1, <1>2, <1>3, <1>4, <1>5 DEF Next

(* A new queue is in order: it holds and has returned nothing. *)
LEMMA OrderInit == Init => OrderInv
<1> SUFFICES ASSUME Init PROVE OrderInv
  OBVIOUS
<1>1. TypeOK /\ NoEmptyQueue
  BY TypeInit
<1>2. DOMAIN inner = {} /\ taken = <<>>
  BY DEF Init, new
<1> QED
  BY <1>1, <1>2 DEF OrderInv, OldestInFront, QueuedInOrder, TakenNumbered, FifoWithinPriority

(* OrderInv is inductive: push, drop_expired and next_msg each preserve it. *)
LEMMA OrderStep == OrderInv /\ [Next]_vars => OrderInv'
<1> SUFFICES ASSUME OrderInv, [Next]_vars PROVE OrderInv'
  OBVIOUS
<1>1. TypeOK' /\ NoEmptyQueue'
  BY TypeStep DEF OrderInv
<1>2. OldestInFront'
  BY OldestStep DEF OrderInv
<1>3. QueuedInOrder'
  BY QueuedStep DEF OrderInv
<1>4. TakenNumbered' /\ FifoWithinPriority'
  BY FifoStep
<1> QED
  BY <1>1, <1>2, <1>3, <1>4 DEF OrderInv

(* OrderInv holds of every state a sequence of calls can reach. *)
LEMMA OrderInvariant == Spec => []OrderInv
BY OrderInit, OrderStep, PTL DEF Spec

(* Messages of one priority leave the queue in the order they were pushed,  *)
(* whatever drops and more urgent messages come between.                    *)
THEOREM FifoCorrect == Spec => []FifoWithinPriority
<1>1. OrderInv => FifoWithinPriority
  BY DEF OrderInv
<1> QED
  BY <1>1, OrderInvariant, PTL

(* The front of every queue is its oldest message, as is_queue_valid takes  *)
(* for granted.                                                             *)
THEOREM OldestCorrect == Spec => []OldestInFront
<1>1. OrderInv => OldestInFront
  BY DEF OrderInv
<1> QED
  BY <1>1, OrderInvariant, PTL

-----------------------------------------------------------------------------
(* The expiry rule.                                                         *)

(* Whole seconds grow with ticks. *)
LEMMA ElapsedMonotone ==
  ASSUME NEW a \in Nat, NEW b \in Nat, NEW t \in Nat, a <= b, b <= t
  PROVE  elapsed_secs(b, t) <= elapsed_secs(a, t)
<1> DEFINE x == (t - b) \div TicksPerSec
           y == (t - a) \div TicksPerSec
<1>1. TicksPerSec \in Nat /\ TicksPerSec > 0
  BY OutQueueAssumption DEF OutQueueAssumption
<1>2. x \in Int /\ y \in Int
  BY <1>1
<1>3. TicksPerSec * x <= t - b /\ t - a < TicksPerSec * (y + 1)
  BY <1>1, SMTT(30)
<1>4. TicksPerSec * x < TicksPerSec * (y + 1)
  BY <1>1, <1>2, <1>3, SMTT(30)
<1>5. x < y + 1
  BY <1>1, <1>2, <1>4, SMTT(30)
<1> QED
  BY <1>2, <1>5 DEF elapsed_secs

(* A queue that drop_expired keeps has no stale message, if it is droppable. *)
LEMMA StaleStep ==
  ASSUME OrderInv, DropExpired,
         NEW p \in DOMAIN inner', NEW i \in 1 .. Len(inner'[p]), p >= msg_drop_priority
  PROVE  elapsed_secs(inner'[p][i].at, now) <= max_msg_age_secs
<1>1. p \in DOMAIN inner /\ inner'[p] = inner[p]
  BY DropElements DEF OrderInv
<1>2. p \in Nat /\ msg_drop_priority \in Nat /\ max_msg_age_secs \in Nat
  <2>1. p \in Nat
    BY <1>1, PriorityNat DEF OrderInv, TypeOK
  <2>2. msg_drop_priority \in 0 .. 255 /\ max_msg_age_secs \in Nat
    BY OutQueueAssumption DEF OutQueueAssumption
  <2> QED
    BY <2>1, <2>2
<1>3. p \notin expired_queues(inner, now)
  BY DEF DropExpired, drop_expired
<1>4. is_queue_valid(p, inner[p], now)
  BY <1>1, <1>2, <1>3 DEF expired_queues
<1>5. inner[p] \in Seq(Entry) /\ inner[p] # <<>> /\ 1 \in 1 .. Len(inner[p])
  BY <1>1 DEF OrderInv, TypeOK, NoEmptyQueue
<1>6. elapsed_secs(inner[p][1].at, now) <= max_msg_age_secs
  BY <1>2, <1>4, <1>5 DEF is_queue_valid
<1>7. i \in 1 .. Len(inner[p]) /\ inner[p][1].at \in Nat /\ inner[p][i].at \in Nat /\ now \in Nat
  BY <1>1, <1>5, EntryType DEF OrderInv, TypeOK
<1>8. inner[p][1].at <= inner[p][i].at /\ inner[p][i].at <= now
  BY <1>1, <1>5, <1>7 DEF OrderInv, OldestInFront
<1>9. elapsed_secs(inner[p][i].at, now) <= elapsed_secs(inner[p][1].at, now)
  BY <1>7, <1>8, ElapsedMonotone
<1>10. /\ elapsed_secs(inner[p][i].at, now) \in Int
       /\ elapsed_secs(inner[p][1].at, now) \in Int
  BY <1>7, OutQueueAssumption DEF elapsed_secs, OutQueueAssumption
<1> QED
  BY <1>1, <1>2, <1>6, <1>9, <1>10

(* drop_expired leaves no droppable message over the age limit anywhere in  *)
(* a queue, although it only looks at the fronts.                           *)
THEOREM ExpiryCorrect == Spec => NothingStaleKept
<1>1. OrderInv /\ [Next]_vars =>
        [DropExpired =>
           \A p \in DOMAIN inner' : \A i \in 1 .. Len(inner'[p]) :
             p >= msg_drop_priority =>
               elapsed_secs(inner'[p][i].at, now) <= max_msg_age_secs]_vars
  BY StaleStep
<1> QED
  BY <1>1, OrderInvariant, PTL DEF Spec, NothingStaleKept

-----------------------------------------------------------------------------
(* The queue as a set of messages: the ledger of what was pushed, and the   *)
(* buffer the queue implements.                                             *)

Gone == {taken[i] : i \in 1 .. Len(taken)}

(* The invariant of the order makes the map one OutQueueTheorems speaks of. *)
LEMMA MapNumbered ==
  ASSUME OrderInv
  PROVE  next_id - 1 \in Nat /\ now \in Nat /\ Numbered(inner, next_id - 1)
<1>1. TypeOK /\ NoEmptyQueue /\ QueuedInOrder
  BY DEF OrderInv
<1>2. next_id - 1 \in Nat /\ now \in Nat
  BY <1>1 DEF TypeOK
<1>3. QueueMap(inner, NumberedMessage)
  BY <1>1 DEF QueueMap, TypeOK, NoEmptyQueue, Entry, Message, NumberedMessage
<1>4. \A p \in DOMAIN inner : \A i \in 1 .. Len(inner[p]) :
        inner[p][i].msg.priority = p /\ inner[p][i].msg.id \in 1 .. next_id - 1
  BY <1>1 DEF QueuedInOrder
<1>5. SortedBy(inner, IdOrder)
  <2> SUFFICES ASSUME NEW p \in DOMAIN inner, NEW i \in 1 .. Len(inner[p]),
                      NEW j \in i + 1 .. Len(inner[p])
               PROVE  <<inner[p][i].msg, inner[p][j].msg>> \in IdOrder
    BY DEF SortedBy
  <2>1. Len(inner[p]) \in Nat /\ \A k \in 1 .. Len(inner[p]) : inner[p][k].msg \in NumberedMessage
    BY <1>3, QueueEntry
  <2>2. j \in 1 .. Len(inner[p])
    BY <2>1
  <2>3. inner[p][i].msg.id < inner[p][j].msg.id
    BY <1>1 DEF QueuedInOrder
  <2> QED
    BY <2>1, <2>2, <2>3, IdOrderShape
<1> QED
  BY <1>2, <1>3, <1>4, <1>5 DEF Numbered

(* What each step does to the messages waiting. *)
LEMMA WaitingStep ==
  ASSUME OrderInv
  PROVE  /\ \A p \in Priority :
              Push(p) => Queued(inner') = Queued(inner) \cup {[id |-> next_id, priority |-> p]}
         /\ DropExpired =>
              /\ Queued(inner') \subseteq Queued(inner)
              /\ \/ Queued(inner') = Queued(inner)
                 \/ \E cut \in DOMAIN inner :
                      /\ Queued(inner) \ Queued(inner') = {x \in Queued(inner) : x.priority >= cut}
                      /\ cut >= msg_drop_priority
                      /\ elapsed_secs(inner[cut][1].at, now) > max_msg_age_secs
         /\ NextMsg =>
              /\ next_msg(inner) \in Queued(inner)
              /\ Queued(inner') = Queued(inner) \ {next_msg(inner)}
              /\ \A x \in Queued(inner) :
                   \/ next_msg(inner).priority < x.priority
                   \/ /\ next_msg(inner).priority = x.priority
                      /\ x = next_msg(inner) \/ next_msg(inner).id < x.id
<1> DEFINE n == next_id - 1
<1>1. n \in Nat /\ now \in Nat /\ Numbered(inner, n)
  BY MapNumbered
<1>2. next_id = n + 1
  BY DEF OrderInv, TypeOK
<1> HIDE DEF n
<1>3. ASSUME NEW p \in Priority, Push(p)
      PROVE  Queued(inner') = Queued(inner) \cup {[id |-> next_id, priority |-> p]}
  <2> DEFINE x == [id |-> next_id, priority |-> p]
  <2>1. x = [id |-> n + 1, priority |-> p]
    BY <1>2
  <2>2. inner' = push_at(inner, now, x, p)
    BY <1>3 DEF Push
  <2> HIDE DEF x
  <2>3. Queued(push_at(inner, now, x, p)) = Queued(inner) \cup {x}
    BY <1>1, <2>1, PushNumbered
  <2> QED
    BY <2>2, <2>3 DEF x
<1>4. ASSUME DropExpired
      PROVE  /\ Queued(inner') \subseteq Queued(inner)
             /\ \/ Queued(inner') = Queued(inner)
                \/ \E cut \in DOMAIN inner :
                     /\ Queued(inner) \ Queued(inner') = {x \in Queued(inner) : x.priority >= cut}
                     /\ cut >= msg_drop_priority
                     /\ elapsed_secs(inner[cut][1].at, now) > max_msg_age_secs
  <2>1. inner' = drop_expired(inner, now)
    BY <1>4 DEF DropExpired
  <2> QED
    BY <1>1, <2>1, DropNumbered
<1>5. ASSUME NextMsg
      PROVE  /\ next_msg(inner) \in Queued(inner)
             /\ Queued(inner') = Queued(inner) \ {next_msg(inner)}
             /\ \A x \in Queued(inner) :
                  \/ next_msg(inner).priority < x.priority
                  \/ /\ next_msg(inner).priority = x.priority
                     /\ x = next_msg(inner) \/ next_msg(inner).id < x.id
  <2>1. inner' = after_next_msg(inner) /\ DOMAIN inner # {}
    BY <1>5 DEF NextMsg
  <2> QED
    BY <1>1, <2>1, NextNumbered
<1> QED
  BY <1>3, <1>4, <1>5

(* What next_msg returned is now among the messages taken. *)
LEMMA GoneStep ==
  ASSUME TypeOK, NEW h, taken' = Append(taken, h)
  PROVE  Gone' = Gone \cup {h}
<1> DEFINE l == Len(taken)
<1>1. taken \in Seq(Message) /\ l \in Nat
  BY DEF TypeOK
<1>2. Len(taken') = l + 1 /\ taken'[l + 1] = h /\ \A i \in 1 .. l : taken'[i] = taken[i]
  BY <1>1
<1>3. 1 .. l + 1 = (1 .. l) \cup {l + 1}
  BY <1>1
<1> HIDE DEF l
<1>4. Gone = {taken[i] : i \in 1 .. l} /\ Gone' = {taken'[i] : i \in 1 .. l + 1}
  BY <1>2 DEF Gone, l
<1> QED
  BY <1>2, <1>3, <1>4

(* The ledger holds at first, and every step keeps it. *)
LEMMA LedgerStep ==
  /\ Init => NothingLost
  /\ OrderInv /\ NothingLost /\ [Next]_vars => NothingLost'
<1>1. ASSUME Init PROVE NothingLost
  <2>1. DOMAIN inner = {} /\ next_id = 1 /\ taken = <<>> /\ shed = {}
    BY <1>1, NewMap DEF Init
  <2>2. Queued(inner) = {} /\ Gone = {} /\ 1 .. next_id - 1 = {}
    BY <2>1 DEF Queued, Gone
  <2> QED
    BY <2>1, <2>2 DEF NothingLost, Gone
<1>2. ASSUME OrderInv, NothingLost, [Next]_vars PROVE NothingLost'
  <2> DEFINE W == Queued(inner)
             n == next_id - 1
             All == W \cup Gone \cup shed
  <2>1. TypeOK
    BY <1>2 DEF OrderInv
  <2>2. n \in Nat /\ next_id = n + 1
    BY <2>1 DEF TypeOK
  <2>3. /\ {m.id : m \in All} = 1 .. n
        /\ \A x, y \in All : x.id = y.id => x = y
        /\ W \cap Gone = {} /\ W \cap shed = {} /\ Gone \cap shed = {}
        /\ \A m \in shed : m.priority >= msg_drop_priority
    BY <1>2 DEF NothingLost, Gone
  <2> SUFFICES /\ {m.id : m \in All'} = 1 .. next_id' - 1
               /\ \A x, y \in All' : x.id = y.id => x = y
               /\ W' \cap Gone' = {} /\ W' \cap shed' = {} /\ Gone' \cap shed' = {}
               /\ \A m \in shed' : m.priority >= msg_drop_priority
    BY DEF NothingLost, Gone
  <2>4. ASSUME NEW p \in Priority, Push(p)
        PROVE  /\ {m.id : m \in All'} = 1 .. next_id' - 1
               /\ \A x, y \in All' : x.id = y.id => x = y
               /\ W' \cap Gone' = {} /\ W' \cap shed' = {} /\ Gone' \cap shed' = {}
               /\ \A m \in shed' : m.priority >= msg_drop_priority
    <3> DEFINE f == [id |-> next_id, priority |-> p]
    <3>1. W' = W \cup {f}
      BY <1>2, <2>4, WaitingStep
    <3>2. f.id = n + 1
      BY <2>2
    <3>3. next_id' - 1 = n + 1 /\ UNCHANGED <<taken, shed>>
      BY <2>2, <2>4 DEF Push
    <3>4. Gone' = Gone
      BY <3>3 DEF Gone
    <3>5. 1 .. n + 1 = (1 .. n) \cup {n + 1} /\ n + 1 \notin 1 .. n
      BY <2>2
    <3> HIDE DEF W, n, f
    <3>6. All' = All \cup {f}
      BY <3>1, <3>3, <3>4
    <3>7. \A m \in All : m.id # f.id
      BY <2>3, <3>2, <3>5
    <3>8. {m.id : m \in All'} = 1 .. next_id' - 1
      BY <2>3, <3>2, <3>3, <3>5, <3>6
    <3> QED
      BY <2>3, <3>1, <3>3, <3>4, <3>6, <3>7, <3>8
  <2>5. CASE DropExpired
    <3>1. shed' = shed \cup (W \ W') /\ UNCHANGED <<next_id, taken>>
      BY <2>5 DEF DropExpired
    <3>2. W' \subseteq W /\ \A x \in W \ W' : x.priority >= msg_drop_priority
      <4>1. Numbered(inner, n) /\ n \in Nat /\ now \in Nat
        BY <1>2, MapNumbered
      <4>2. inner' = drop_expired(inner, now)
        BY <2>5 DEF DropExpired
      <4> QED
        BY <4>1, <4>2, DropNumbered
    <3>3. Gone' = Gone
      BY <3>1 DEF Gone
    <3> HIDE DEF W
    <3>4. All' = All
      BY <3>1, <3>2, <3>3
    <3> QED
      BY <2>3, <3>1, <3>2, <3>3, <3>4
  <2>6. CASE NextMsg
    <3> DEFINE h == next_msg(inner)
    <3>1. h \in W /\ W' = W \ {h}
      BY <1>2, <2>6, WaitingStep
    <3>2. taken' = Append(taken, h) /\ UNCHANGED <<next_id, shed>>
      BY <2>6 DEF NextMsg
    <3>3. Gone' = Gone \cup {h}
      BY <2>1, <3>2, GoneStep
    <3> HIDE DEF W, h
    <3>4. All' = All
      BY <3>1, <3>2, <3>3
    <3> QED
      BY <2>3, <3>1, <3>2, <3>3, <3>4
  <2>7. CASE Tick \/ UNCHANGED vars
    <3>1. UNCHANGED <<inner, next_id, taken, shed>>
      BY <2>7 DEF Tick, vars
    <3> QED
      BY <2>3, <3>1 DEF Gone
  <2> QED
    BY <1>2, <2>4, <2>5, <2>6, <2>7 DEF Next
<1> QED
  BY <1>1, <1>2

(* Every message pushed is waiting, was taken by next_msg or was shed, in   *)
(* exactly one of the three, and what drop_expired shed was droppable.      *)
THEOREM LedgerCorrect == Spec => []NothingLost
BY LedgerStep, OrderInvariant, PTL DEF Spec

(* A step of the queue sheds only behind a stale message. *)
LEMMA ShedStep ==
  ASSUME OrderInv, [Next]_vars, NEW m \in shed' \ shed
  PROVE  \E p \in DOMAIN inner : \E i \in 1 .. Len(inner[p]) :
           /\ msg_drop_priority <= p /\ p <= m.priority
           /\ elapsed_secs(inner[p][i].at, now) > max_msg_age_secs
           /\ inner[p][i].msg \in shed'
<1>1. DropExpired
  BY DEF Next, Push, NextMsg, Tick, vars
<1>2. /\ shed' = shed \cup (Queued(inner) \ Queued(inner'))
      /\ m \in Queued(inner) \ Queued(inner')
  BY <1>1 DEF DropExpired
<1>3. PICK cut \in DOMAIN inner :
        /\ Queued(inner) \ Queued(inner') = {x \in Queued(inner) : x.priority >= cut}
        /\ cut >= msg_drop_priority
        /\ elapsed_secs(inner[cut][1].at, now) > max_msg_age_secs
  BY <1>1, <1>2, WaitingStep
<1>4. Numbered(inner, next_id - 1)
  BY MapNumbered
<1>5. QueueMap(inner, NumberedMessage)
  BY <1>4 DEF Numbered
<1>6. Len(inner[cut]) \in Nat \ {0} /\ DOMAIN inner[cut] = 1 .. Len(inner[cut]) /\ cut \in Nat
  BY <1>5, QueueEntry
<1>7. 1 \in 1 .. Len(inner[cut])
  BY <1>6
<1> DEFINE x == inner[cut][1].msg
<1>8. x.priority = cut
  BY <1>4, <1>7 DEF Numbered
<1>9. x \in Queued(inner)
  BY <1>6, <1>7 DEF Queued
<1>10. x \in shed'
  BY <1>2, <1>3, <1>6, <1>8, <1>9
<1>11. msg_drop_priority \in Nat
  BY OutQueueAssumption DEF OutQueueAssumption
<1>12. m.priority >= cut /\ m.priority \in Nat
  <2>1. m \in NumberedMessage
    BY <1>2, <1>5, QueuedIn
  <2> QED
    BY <2>1, <1>2, <1>3, IdOrderShape
<1>13. msg_drop_priority <= cut /\ cut <= m.priority
  BY <1>3, <1>6, <1>11, <1>12
<1> QED
  BY <1>3, <1>7, <1>10, <1>13

(* drop_expired sheds a message only together with one over the age limit,  *)
(* of the same or a more urgent droppable priority.                         *)
THEOREM ShedCorrect == Spec => ShedOnlyBehindStale
<1>1. OrderInv /\ [Next]_vars =>
        [\A m \in shed' \ shed :
           \E p \in DOMAIN inner : \E i \in 1 .. Len(inner[p]) :
             /\ msg_drop_priority <= p /\ p <= m.priority
             /\ elapsed_secs(inner[p][i].at, now) > max_msg_age_secs
             /\ inner[p][i].msg \in shed']_vars
  BY ShedStep
<1> QED
  BY <1>1, OrderInvariant, PTL DEF Spec, ShedOnlyBehindStale

(* Every step of the queue is a step of the buffer, or none of it. *)
LEMMA BufferStep == OrderInv /\ [Next]_vars => [Abstract!Next]_(Abstract!vars)
<1> SUFFICES ASSUME OrderInv, [Next]_vars PROVE [Abstract!Next]_(Abstract!vars)
  OBVIOUS
<1> DEFINE W == Queued(inner)
<1>1. TypeOK /\ next_id \in Nat \ {0}
  BY DEF OrderInv, TypeOK
<1>2. ASSUME NEW p \in Priority, Push(p) PROVE Abstract!Next
  <2>1. W' = W \cup {[id |-> next_id, priority |-> p]}
    BY <1>2, WaitingStep
  <2>2. next_id' = next_id + 1 /\ UNCHANGED <<taken, shed>>
    BY <1>2 DEF Push
  <2>3. next_id' - 1 = (next_id - 1) + 1 /\ next_id' - 1 = next_id
    BY <1>1, <2>2
  <2>4. Abstract!Accept(p)
    BY <2>1, <2>2, <2>3 DEF Abstract!Accept
  <2> QED
    BY <2>4 DEF Abstract!Next
<1>3. CASE DropExpired
  <2>1. shed' = shed \cup (W \ W') /\ UNCHANGED <<next_id, taken>>
    BY <1>3 DEF DropExpired
  <2>2. CASE W' = W
    BY <2>1, <2>2 DEF Abstract!vars
  <2>3. CASE W' # W
    <3>1. W' \subseteq W
      BY <1>3, WaitingStep
    <3>2. PICK cut \in DOMAIN inner : /\ W \ W' = {x \in W : x.priority >= cut}
                                      /\ cut >= msg_drop_priority
      BY <1>3, <2>3, WaitingStep
    <3>3. cut \in Priority
      BY <1>1 DEF TypeOK
    <3> HIDE DEF W
    <3>4. W' = W \ {x \in W : x.priority >= cut}
      BY <3>1, <3>2
    <3>5. Abstract!Shed(cut)
      BY <2>1, <3>2, <3>4 DEF Abstract!Shed, W
    <3> QED
      BY <3>3, <3>5 DEF Abstract!Next
  <2> QED
    BY <2>2, <2>3
<1>4. CASE NextMsg
  <2> DEFINE h == next_msg(inner)
  <2>1. /\ h \in W /\ W' = W \ {h}
        /\ \A x \in W : \/ h.priority < x.priority
                        \/ h.priority = x.priority /\ (x = h \/ h.id < x.id)
    BY <1>4, WaitingStep
  <2>2. taken' = Append(taken, h) /\ UNCHANGED <<next_id, shed>>
    BY <1>4 DEF NextMsg
  <2>3. \A x \in W : x.id \in Nat
    <3>1. W \subseteq NumberedMessage
      BY MapNumbered, NumberedQueued
    <3> QED
      BY <3>1, IdOrderShape
  <2>4. \A x \in W : \/ h.priority < x.priority
                     \/ h.priority = x.priority /\ h.id <= x.id
    <3> HIDE DEF h, W
    <3> QED
      BY <2>1, <2>3
  <2>5. Abstract!First(h)
    BY <2>4 DEF Abstract!First
  <2>6. Abstract!Take
    BY <2>1, <2>2, <2>5 DEF Abstract!Take
  <2> QED
    BY <2>6 DEF Abstract!Next
<1>5. CASE Tick \/ UNCHANGED vars
  BY <1>5 DEF Tick, vars, Abstract!vars
<1> QED
  BY <1>2, <1>3, <1>4, <1>5 DEF Next

(* The queue implements the buffer it promises to be: next_msg takes the    *)
(* oldest of the most urgent messages, and drop_expired sheds all messages  *)
(* from some droppable priority on, or none.                                *)
THEOREM QueueRefinement == Spec => ImplementsPriorityBuffer
<1>1. Init => Abstract!Init
  <2> SUFFICES ASSUME Init PROVE Abstract!Init
    OBVIOUS
  <2>1. DOMAIN inner = {} /\ next_id = 1 /\ taken = <<>> /\ shed = {}
    BY NewMap DEF Init
  <2>2. Queued(inner) = {} /\ next_id - 1 = 0
    BY <2>1 DEF Queued
  <2> QED
    BY <2>1, <2>2 DEF Abstract!Init
<1> QED
  BY <1>1, BufferStep, OrderInvariant, PTL DEF Spec, ImplementsPriorityBuffer, Abstract!Spec
=============================================================================
