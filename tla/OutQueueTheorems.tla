-------------------------- MODULE OutQueueTheorems --------------------------
(***************************************************************************)
(* What the operations of OutQueue do to any map of queues, whatever the    *)
(* messages are: the facts that the proofs about the owners of such a map   *)
(* (OutQueueMachine, UdpSend, TcpSock) rest on.                             *)
(*                                                                          *)
(* The facts speak of which message waits under which priority, In, and of  *)
(* the order within a priority, SortedBy a relation R, given as a set of    *)
(* pairs.  Positions and timestamps stay behind them.                       *)
(***************************************************************************)
EXTENDS OutQueue, SequenceTheorems, WellFoundedInduction, TLAPS

(* q is a map of queues of messages in M, as OutQueue keeps it: no queue is *)
(* empty.                                                                   *)
QueueMap(q, M) ==
  /\ DOMAIN q \subseteq Priority
  /\ q \in [DOMAIN q -> Seq([at : Nat, msg : M])]
  /\ \A p \in DOMAIN q : q[p] # <<>>

(* The message m waits under priority p. *)
In(q, p, m) == p \in DOMAIN q /\ \E i \in 1 .. Len(q[p]) : q[p][i].msg = m

(* Within a priority, messages are in the order R. *)
SortedBy(q, R) ==
  \A p \in DOMAIN q : \A i, j \in 1 .. Len(q[p]) :
    i < j => <<q[p][i].msg, q[p][j].msg>> \in R

-----------------------------------------------------------------------------
(* A nonempty set of naturals has a least element. *)
LEMMA LeastNat ==
  ASSUME NEW D, D \subseteq Nat, D # {}
  PROVE  \E p \in D : \A q \in D : p <= q
<1>1. \E x \in D : \A y \in D : ~(<<y, x>> \in OpToRel(<, Nat))
  BY NatLessThanWellFounded, WFMin
<1>2. PICK x \in D : \A y \in D : ~(<<y, x>> \in OpToRel(<, Nat))
  BY <1>1
<1>3. ASSUME NEW y \in D PROVE x <= y
  <2>1. x \in Nat /\ y \in Nat
    OBVIOUS
  <2>2. ~(y < x)
    BY <1>2, <2>1 DEF OpToRel
  <2> QED
    BY <2>1, <2>2
<1> QED
  BY <1>3

(* Priorities are u8 values. *)
LEMMA PriorityNat == Priority \subseteq Nat
<1>1. Priority \subseteq 0 .. 255
  BY OutQueueAssumption DEF OutQueueAssumption
<1> QED
  BY <1>1

(* iter_mut().next() yields the smallest key. *)
LEMMA NextKey ==
  ASSUME NEW q, DOMAIN q \subseteq Priority, DOMAIN q # {}
  PROVE  /\ next_key(q) \in DOMAIN q
         /\ \A p \in DOMAIN q : next_key(q) <= p
<1>1. DOMAIN q \subseteq Nat
  BY PriorityNat
<1> QED
  BY <1>1, LeastNat DEF next_key

(* What a map of queues holds. *)
LEMMA QueueEntry ==
  ASSUME NEW M, NEW q, QueueMap(q, M), NEW p \in DOMAIN q
  PROVE  /\ p \in Priority /\ p \in Nat
         /\ q[p] \in Seq([at : Nat, msg : M]) /\ q[p] # <<>>
         /\ Len(q[p]) \in Nat \ {0} /\ DOMAIN q[p] = 1 .. Len(q[p])
         /\ \A i \in 1 .. Len(q[p]) : q[p][i].at \in Nat /\ q[p][i].msg \in M
<1>1. q[p] \in Seq([at : Nat, msg : M]) /\ q[p] # <<>> /\ p \in Priority
  BY DEF QueueMap
<1>2. \A i \in 1 .. Len(q[p]) : q[p][i] \in [at : Nat, msg : M]
  BY <1>1, ElementOfSeq
<1> QED
  BY <1>1, <1>2, PriorityNat

(* The messages in the queues are those that wait under some priority; a    *)
(* map without keys has none, and a map with a key has one.                 *)
LEMMA QueuedIn ==
  ASSUME NEW M, NEW q, QueueMap(q, M)
  PROVE  /\ \A m : m \in Queued(q) <=> \E p \in Priority : In(q, p, m)
         /\ Queued(q) \subseteq M
         /\ DOMAIN q = {} <=> Queued(q) = {}
         /\ \A p, m : In(q, p, m) => p \in Priority /\ m \in M
<1>1. ASSUME NEW m PROVE m \in Queued(q) <=> \E p \in Priority : In(q, p, m)
  <2>1. m \in Queued(q) <=> \E p \in DOMAIN q : \E i \in DOMAIN q[p] : m = q[p][i].msg
    BY DEF Queued
  <2> QED
    BY <2>1, QueueEntry DEF In
<1>2. ASSUME NEW p, NEW m, In(q, p, m) PROVE p \in Priority /\ m \in M
  <2>1. p \in DOMAIN q /\ \E i \in 1 .. Len(q[p]) : q[p][i].msg = m
    BY <1>2 DEF In
  <2>2. p \in Priority /\ \A i \in 1 .. Len(q[p]) : q[p][i].msg \in M
    BY <2>1, QueueEntry
  <2> QED
    BY <2>1, <2>2
<1>3. ASSUME NEW p \in DOMAIN q PROVE Queued(q) # {}
  <2>0. Len(q[p]) \in Nat \ {0}
    BY QueueEntry
  <2>1. 1 \in 1 .. Len(q[p])
    BY <2>0
  <2>2. In(q, p, q[p][1].msg)
    BY <2>1 DEF In
  <2> QED
    BY <2>2, <1>1, <1>2
<1>4. DOMAIN q = {} => Queued(q) = {}
  BY DEF Queued
<1> QED
  BY <1>1, <1>2, <1>3, <1>4

-----------------------------------------------------------------------------
(* OutQueue::new holds nothing. *)
LEMMA NewMap ==
  ASSUME NEW M
  PROVE  /\ QueueMap(new, M) /\ DOMAIN new = {}
         /\ \A R : SortedBy(new, R)
         /\ \A p, m : ~In(new, p, m)
<1>1. new = [p \in {} |-> <<>>]
  BY DEF new
<1>2. DOMAIN new = {} /\ new \in [DOMAIN new -> Seq([at : Nat, msg : M])]
  BY <1>1
<1> QED
  BY <1>2 DEF QueueMap, SortedBy, In

(* push adds its message behind those of its priority. *)
LEMMA PushMap ==
  ASSUME NEW M, NEW q, QueueMap(q, M), NEW t \in Nat, NEW x \in M, NEW p \in Priority
  PROVE  LET r == push_at(q, t, x, p)
         IN  /\ QueueMap(r, M)
             /\ \A k, m : In(r, k, m) <=> In(q, k, m) \/ (k = p /\ m = x)
             /\ \A R : /\ SortedBy(q, R)
                       /\ \A m : In(q, p, m) => <<m, x>> \in R
                       => SortedBy(r, R)
<1> DEFINE E == [at : Nat, msg : M]
           s == QueueAt(q, p)
           e == [at |-> t, msg |-> x]
           r == push_at(q, t, x, p)
<1>1. s \in Seq(E) /\ e \in E
  <2>1. p \in DOMAIN q => q[p] \in Seq(E)
    BY DEF QueueMap
  <2>2. <<>> \in Seq(E) /\ e \in E
    OBVIOUS
  <2> HIDE DEF E
  <2> QED
    BY <2>1, <2>2 DEF QueueAt
<1>2. /\ DOMAIN r = DOMAIN q \cup {p}
      /\ \A k \in DOMAIN q \ {p} : r[k] = q[k]
      /\ r[p] = Append(s, e)
      /\ r = [k \in DOMAIN r |-> r[k]]
  BY DEF push_at
<1>3. /\ Append(s, e) \in Seq(E) /\ Append(s, e) # <<>>
      /\ Len(Append(s, e)) = Len(s) + 1 /\ Len(s) \in Nat
      /\ \A i \in 1 .. Len(s) : Append(s, e)[i] = s[i]
      /\ Append(s, e)[Len(s) + 1] = e
  BY <1>1, AppendProperties
<1>4. e.msg = x
  OBVIOUS
<1>5. p \in DOMAIN q => s = q[p]
  BY DEF QueueAt
<1>6. p \notin DOMAIN q => Len(s) = 0
  BY DEF QueueAt
<1> HIDE DEF s, e, r, E
<1>7. QueueMap(r, M)
  <2>1. \A k \in DOMAIN r : r[k] \in Seq(E) /\ r[k] # <<>>
    BY <1>2, <1>3 DEF QueueMap, E
  <2> QED
    BY <1>2, <2>1 DEF QueueMap, E
<1>8. /\ Len(r[p]) = Len(s) + 1
      /\ \A i \in 1 .. Len(s) : r[p][i] = s[i]
      /\ r[p][Len(s) + 1].msg = x
  BY <1>2, <1>3, <1>4
<1>9. ASSUME NEW k, NEW m PROVE In(r, k, m) <=> In(q, k, m) \/ (k = p /\ m = x)
  <2>1. CASE k # p
    BY <2>1, <1>2 DEF In
  <2>2. CASE k = p
    <3>1. In(r, p, m) <=> \E i \in 1 .. Len(s) + 1 : r[p][i].msg = m
      BY <1>2, <1>8 DEF In
    <3>2. In(q, p, m) <=> \E i \in 1 .. Len(s) : s[i].msg = m
      BY <1>5, <1>6 DEF In
    <3>3. \A i : i \in 1 .. Len(s) + 1 <=> i \in 1 .. Len(s) \/ i = Len(s) + 1
      BY <1>3
    <3> QED
      BY <2>2, <3>1, <3>2, <3>3, <1>8
  <2> QED
    BY <2>1, <2>2
<1>10. ASSUME NEW R, SortedBy(q, R), \A m : In(q, p, m) => <<m, x>> \in R
       PROVE  SortedBy(r, R)
  <2> SUFFICES ASSUME NEW k \in DOMAIN r, NEW i \in 1 .. Len(r[k]), NEW j \in 1 .. Len(r[k]), i < j
               PROVE  <<r[k][i].msg, r[k][j].msg>> \in R
    BY DEF SortedBy
  <2>1. CASE k # p
    BY <2>1, <1>2, <1>10 DEF SortedBy
  <2>2. CASE k = p
    <3>1. i \in 1 .. Len(s) /\ (j \in 1 .. Len(s) \/ j = Len(s) + 1)
      BY <2>2, <1>3, <1>8
    <3>2. p \in DOMAIN q /\ s = q[p]
      BY <3>1, <1>5, <1>6
    <3>3. In(q, p, s[i].msg)
      BY <3>1, <3>2 DEF In
    <3> QED
      BY <2>2, <3>1, <3>2, <3>3, <1>8, <1>10 DEF SortedBy
  <2> QED
    BY <2>1, <2>2
<1> QED
  BY <1>7, <1>9, <1>10 DEF r

(* drop_expired removes the queues from one key on, if any: the key is      *)
(* droppable and the front of its queue over age.                           *)
LEMMA DropMap ==
  ASSUME NEW M, NEW q, QueueMap(q, M), NEW t \in Nat
  PROVE  LET r == drop_expired(q, t)
         IN  /\ QueueMap(r, M)
             /\ \A k, m : In(r, k, m) <=> In(q, k, m) /\ k \notin expired_queues(q, t)
             /\ \A R : SortedBy(q, R) => SortedBy(r, R)
             /\ \/ expired_queues(q, t) = {}
                \/ \E cut \in DOMAIN q :
                     /\ expired_queues(q, t) = {k \in DOMAIN q : cut <= k}
                     /\ cut >= msg_drop_priority
                     /\ elapsed_secs(q[cut][1].at, t) > max_msg_age_secs
<1> DEFINE r == drop_expired(q, t)
           X == expired_queues(q, t)
<1>1. DOMAIN r = DOMAIN q \ X /\ \A k \in DOMAIN r : r[k] = q[k]
  BY DEF drop_expired
<1>2. r = [k \in DOMAIN r |-> r[k]]
  BY DEF drop_expired
<1> HIDE DEF r
<1>3. QueueMap(r, M)
  BY <1>1, <1>2 DEF QueueMap
<1>4. \A k, m : In(r, k, m) <=> In(q, k, m) /\ k \notin X
  BY <1>1 DEF In
<1>5. \A R : SortedBy(q, R) => SortedBy(r, R)
  BY <1>1 DEF SortedBy
<1>6. CASE X = {}
  BY <1>3, <1>4, <1>5, <1>6 DEF r
<1>7. CASE X # {}
  <2> DEFINE Invalid == {k \in DOMAIN q : ~is_queue_valid(k, q[k], t)}
  <2>1. Invalid # {} /\ Invalid \subseteq Nat
    BY <1>7, QueueEntry DEF expired_queues
  <2>2. PICK cut \in Invalid : \A k \in Invalid : cut <= k
    BY <2>1, LeastNat
  <2>3. cut \in DOMAIN q /\ cut \in Nat /\ ~is_queue_valid(cut, q[cut], t)
    BY <2>1
  <2>4. X = {k \in DOMAIN q : cut <= k}
    <3>1. ASSUME NEW k \in DOMAIN q PROVE k \in X <=> \E j \in Invalid : j <= k
      BY DEF expired_queues
    <3>2. ASSUME NEW k \in DOMAIN q, NEW j \in Invalid, j <= k PROVE cut <= k
      <4>1. cut \in Nat /\ j \in Nat /\ k \in Nat /\ cut <= j
        BY <2>1, <2>2, <2>3, QueueEntry
      <4> QED
        BY <3>2, <4>1
    <3>3. X \subseteq DOMAIN q
      BY DEF expired_queues
    <3> HIDE DEF Invalid, X
    <3> QED
      BY <3>1, <3>2, <3>3
  <2>5. msg_drop_priority \in Nat /\ max_msg_age_secs \in Nat /\ TicksPerSec \in Nat \ {0}
    BY OutQueueAssumption DEF OutQueueAssumption
  <2>6. q[cut][1].at \in Nat /\ q[cut] # <<>> /\ Head(q[cut]) = q[cut][1]
    <3>1. /\ q[cut] \in Seq([at : Nat, msg : M]) /\ q[cut] # <<>> /\ Len(q[cut]) \in Nat \ {0}
          /\ \A i \in 1 .. Len(q[cut]) : q[cut][i].at \in Nat
      BY <2>3, QueueEntry
    <3>2. 1 \in 1 .. Len(q[cut])
      BY <3>1
    <3> QED
      BY <3>1, <3>2
  <2>7. elapsed_secs(q[cut][1].at, t) \in Int
    BY <2>5, <2>6 DEF elapsed_secs
  <2>8. cut >= msg_drop_priority /\ elapsed_secs(q[cut][1].at, t) > max_msg_age_secs
    BY <2>3, <2>5, <2>6, <2>7 DEF is_queue_valid
  <2> QED
    BY <1>3, <1>4, <1>5, <2>3, <2>4, <2>8 DEF r
<1> QED
  BY <1>6, <1>7

(* next_msg returns the first message of the most urgent priority, and that *)
(* one goes; R must tell a message from those behind it.                    *)
LEMMA NextMap ==
  ASSUME NEW M, NEW q, QueueMap(q, M), DOMAIN q # {}, NEW R, SortedBy(q, R),
         \A m \in M : <<m, m>> \notin R
  PROVE  LET r == after_next_msg(q)
             h == next_msg(q)
             f == next_key(q)
         IN  /\ QueueMap(r, M) /\ SortedBy(r, R)
             /\ In(q, f, h)
             /\ \A k, m : In(q, k, m) => f <= k
             /\ \A m : In(q, f, m) => m = h \/ <<h, m>> \in R
             /\ \A k, m : In(r, k, m) <=> In(q, k, m) /\ ~(k = f /\ m = h)
<1> DEFINE E == [at : Nat, msg : M]
           r == after_next_msg(q)
           f == next_key(q)
           s == q[f]
           u == Tail(s)
<1>1. f \in DOMAIN q /\ \A k \in DOMAIN q : f <= k
  BY NextKey DEF QueueMap
<1>2. /\ s \in Seq(E) /\ s # <<>> /\ Len(s) \in Nat \ {0}
      /\ \A i \in 1 .. Len(s) : s[i].msg \in M
  BY <1>1, QueueEntry
<1>3. /\ u \in Seq(E) /\ Len(u) = Len(s) - 1
      /\ \A i \in 1 .. Len(u) : u[i] = s[i + 1]
  BY <1>2, HeadTailProperties
<1>4. next_msg(q) = s[1].msg
  BY <1>2 DEF next_msg
<1>5. /\ DOMAIN r \ {f} = DOMAIN q \ {f}
      /\ \A k \in DOMAIN q \ {f} : r[k] = q[k]
      /\ f \in DOMAIN r <=> u # <<>>
      /\ f \in DOMAIN r => r[f] = u
      /\ r = [k \in DOMAIN r |-> r[k]]
  <2>1. CASE u = <<>>
    <3>1. r = [p \in DOMAIN q \ {f} |-> q[p]]
      BY <2>1 DEF after_next_msg
    <3> QED
      BY <2>1, <3>1
  <2>2. CASE u # <<>>
    <3>1. r = [q EXCEPT ![f] = u]
      BY <2>2 DEF after_next_msg
    <3> QED
      BY <2>2, <3>1, <1>1 DEF QueueMap
  <2> QED
    BY <2>1, <2>2
<1>6. u = <<>> <=> Len(u) = 0
  BY <1>3, EmptySeq
<1> HIDE DEF r, u, s, f, E
<1>7. QueueMap(r, M)
  <2>1. \A k \in DOMAIN r : k \in Priority /\ r[k] \in Seq(E) /\ r[k] # <<>>
    BY ZenonT(40), <1>1, <1>3, <1>5 DEF QueueMap, E
  <2> QED
    BY <1>5, <2>1 DEF QueueMap, E
<1>8. SortedBy(r, R)
  <2> SUFFICES ASSUME NEW k \in DOMAIN r, NEW i \in 1 .. Len(r[k]), NEW j \in 1 .. Len(r[k]), i < j
               PROVE  <<r[k][i].msg, r[k][j].msg>> \in R
    BY DEF SortedBy
  <2>1. CASE k # f
    BY <2>1, <1>5 DEF SortedBy
  <2>2. CASE k = f
    <3>1. r[k] = u /\ u[i] = s[i + 1] /\ u[j] = s[j + 1]
      BY <2>2, <1>3, <1>5
    <3>2. i + 1 \in 1 .. Len(s) /\ j + 1 \in 1 .. Len(s) /\ i + 1 < j + 1
      BY <3>1, <1>2, <1>3
    <3> QED
      BY <3>1, <3>2, <1>1 DEF SortedBy, s
  <2> QED
    BY <2>1, <2>2
<1>9. In(q, f, s[1].msg)
  BY <1>1, <1>2 DEF In, s
<1>10. ASSUME NEW m, In(q, f, m) PROVE m = s[1].msg \/ <<s[1].msg, m>> \in R
  <2>1. PICK i \in 1 .. Len(s) : s[i].msg = m
    BY <1>10 DEF In, s
  <2>2. i = 1 \/ (1 < i /\ 1 \in 1 .. Len(s))
    BY <1>2
  <2> QED
    BY <2>1, <2>2, <1>1 DEF SortedBy, s
<1>11. \A k, m : In(q, k, m) => f <= k
  BY <1>1 DEF In
<1>12. ASSUME NEW k, NEW m PROVE In(r, k, m) <=> In(q, k, m) /\ ~(k = f /\ m = s[1].msg)
  <2>1. CASE k # f
    BY <2>1, <1>5 DEF In
  <2>2. CASE k = f
    <3>1. In(q, f, m) <=> \E i \in 1 .. Len(s) : s[i].msg = m
      BY <1>1 DEF In, s
    <3>2. In(r, f, m) <=> \E i \in 1 .. Len(u) : u[i].msg = m
      BY <1>3, <1>5, <1>6 DEF In
    <3>3. ASSUME NEW i \in 1 .. Len(u) PROVE i + 1 \in 1 .. Len(s) /\ u[i] = s[i + 1] /\ 1 < i + 1
      BY <1>2, <1>3
    <3>4. ASSUME NEW i \in 1 .. Len(s), i # 1 PROVE i - 1 \in 1 .. Len(u) /\ u[i - 1] = s[i]
      BY <1>2, <1>3, <3>4
    <3>5. ASSUME NEW i \in 1 .. Len(s), i # 1 PROVE s[i].msg # s[1].msg
      <4>1. <<s[1].msg, s[i].msg>> \in R
        BY <3>5, <1>1, <1>2 DEF SortedBy, s
      <4> QED
        BY <4>1, <1>2
    <3>6. In(r, f, m) => In(q, f, m) /\ m # s[1].msg
      <4> SUFFICES ASSUME NEW i \in 1 .. Len(u), u[i].msg = m
                   PROVE  In(q, f, m) /\ m # s[1].msg
        BY <3>2
      <4>1. i + 1 \in 1 .. Len(s) /\ i + 1 # 1 /\ s[i + 1].msg = m
        BY <3>3
      <4> QED
        BY <4>1, <3>1, <3>5
    <3>7. In(q, f, m) /\ m # s[1].msg => In(r, f, m)
      BY <3>1, <3>2, <3>4
    <3> QED
      BY <2>2, <3>6, <3>7
  <2> QED
    BY <2>1, <2>2
<1> QED
  BY <1>4, <1>7, <1>8, <1>9, <1>10, <1>11, <1>12 DEF r, f

-----------------------------------------------------------------------------
(* Queues of numbered messages, as OutQueueMachine and UdpSend keep them:   *)
(* each under its own priority, in the order of their numbers, up to n.     *)
NumberedMessage == [id : Nat, priority : Priority]

IdOrder == {ab \in NumberedMessage \X NumberedMessage : ab[1].id < ab[2].id}

Numbered(q, n) ==
  /\ QueueMap(q, NumberedMessage) /\ SortedBy(q, IdOrder)
  /\ \A p \in DOMAIN q : \A i \in 1 .. Len(q[p]) :
       q[p][i].msg.priority = p /\ q[p][i].msg.id \in 1 .. n

(* IdOrder compares the numbers of messages, and no message precedes itself. *)
LEMMA IdOrderShape ==
  /\ \A a, b \in NumberedMessage : <<a, b>> \in IdOrder <=> a.id < b.id
  /\ \A a \in NumberedMessage : a.id \in Nat /\ a.priority \in Nat /\ a.priority \in Priority
  /\ \A a \in NumberedMessage : <<a, a>> \notin IdOrder
<1>1. \A a \in NumberedMessage : a.id \in Nat /\ a.priority \in Nat /\ a.priority \in Priority
  BY PriorityNat DEF NumberedMessage
<1>2. \A a, b \in NumberedMessage : <<a, b>> \in IdOrder <=> a.id < b.id
  BY DEF IdOrder
<1> QED
  BY <1>1, <1>2

(* A message that waits in such a map waits under its priority. *)
LEMMA NumberedIn ==
  ASSUME NEW n, NEW q, Numbered(q, n)
  PROVE  \A p, x : In(q, p, x) => x.priority = p /\ x.id \in 1 .. n
BY DEF Numbered, In

(* What such a map says of the messages in it. *)
LEMMA NumberedQueued ==
  ASSUME NEW n \in Nat, NEW q, Numbered(q, n)
  PROVE  /\ Queued(q) \subseteq NumberedMessage
         /\ \A x \in Queued(q) : x.id \in 1 .. n /\ In(q, x.priority, x)
         /\ DOMAIN q = {} <=> Queued(q) = {}
         /\ Numbered(q, n + 1)
<1>1. QueueMap(q, NumberedMessage)
  BY DEF Numbered, In
<1>2. /\ \A m : m \in Queued(q) <=> \E p \in Priority : In(q, p, m)
      /\ Queued(q) \subseteq NumberedMessage
      /\ DOMAIN q = {} <=> Queued(q) = {}
  BY <1>1, QueuedIn
<1>3. \A x \in Queued(q) : x.id \in 1 .. n /\ In(q, x.priority, x)
  BY <1>2 DEF Numbered, In
<1>4. \A i : i \in 1 .. n => i \in 1 .. n + 1
  OBVIOUS
<1>5. Numbered(q, n + 1)
  BY <1>4 DEF Numbered, In
<1> QED
  BY <1>2, <1>3, <1>5

(* push of the message with the next number. *)
LEMMA PushNumbered ==
  ASSUME NEW n \in Nat, NEW q, Numbered(q, n), NEW t \in Nat, NEW p \in Priority,
         NEW x, x = [id |-> n + 1, priority |-> p]
  PROVE  LET r == push_at(q, t, x, p)
         IN  Numbered(r, n + 1) /\ Queued(r) = Queued(q) \cup {x}
<1> DEFINE r == push_at(q, t, x, p)
<1>1. x \in NumberedMessage /\ x.id = n + 1 /\ x.priority = p
  BY DEF NumberedMessage
<1>2. QueueMap(q, NumberedMessage) /\ SortedBy(q, IdOrder)
  BY DEF Numbered, In
<1>3. /\ QueueMap(r, NumberedMessage)
      /\ \A k, m : In(r, k, m) <=> In(q, k, m) \/ (k = p /\ m = x)
      /\ \A R : /\ SortedBy(q, R)
                /\ \A m : In(q, p, m) => <<m, x>> \in R
                => SortedBy(r, R)
  BY <1>1, <1>2, PushMap
<1> HIDE DEF r
<1>4. ASSUME NEW m, In(q, p, m) PROVE <<m, x>> \in IdOrder
  <2>1. m \in NumberedMessage
    BY <1>2, <1>4, QueuedIn
  <2>2. m.id \in 1 .. n
    BY <1>4 DEF Numbered, In
  <2> QED
    BY <1>1, <2>1, <2>2, IdOrderShape
<1>5. SortedBy(r, IdOrder)
  BY <1>2, <1>3, <1>4
<1>6. \A i : i \in 1 .. n => i \in 1 .. n + 1
  OBVIOUS
<1>7. ASSUME NEW k, NEW m, In(r, k, m) PROVE m.priority = k /\ m.id \in 1 .. n + 1
  <2>1. CASE In(q, k, m)
    BY <2>1, <1>6 DEF Numbered, In
  <2>2. CASE k = p /\ m = x
    BY <2>2, <1>1
  <2> QED
    BY <2>1, <2>2, <1>3, <1>7
<1>8. /\ \A m : m \in Queued(q) <=> \E k \in Priority : In(q, k, m)
      /\ \A m : m \in Queued(r) <=> \E k \in Priority : In(r, k, m)
  BY <1>2, <1>3, QueuedIn
<1>9. \A m : m \in Queued(r) <=> m \in Queued(q) \cup {x}
  BY <1>3, <1>8
<1>10. Numbered(r, n + 1)
  BY <1>3, <1>5, <1>7 DEF Numbered, In
<1> QED
  BY <1>9, <1>10 DEF r

(* drop_expired takes away the messages from some droppable priority on, if *)
(* any, behind a message over the age limit.                                *)
LEMMA DropNumbered ==
  ASSUME NEW n \in Nat, NEW q, Numbered(q, n), NEW t \in Nat
  PROVE  LET r == drop_expired(q, t)
         IN  /\ Numbered(r, n)
             /\ Queued(r) \subseteq Queued(q)
             /\ \A x \in Queued(q) \ Queued(r) : x.priority >= msg_drop_priority
             /\ \/ Queued(r) = Queued(q)
                \/ \E cut \in DOMAIN q :
                     /\ Queued(q) \ Queued(r) = {x \in Queued(q) : x.priority >= cut}
                     /\ cut >= msg_drop_priority
                     /\ elapsed_secs(q[cut][1].at, t) > max_msg_age_secs
<1> DEFINE r == drop_expired(q, t)
           X == expired_queues(q, t)
<1>1. QueueMap(q, NumberedMessage)
  BY DEF Numbered, In
<1>2. /\ QueueMap(r, NumberedMessage)
      /\ \A k, m : In(r, k, m) <=> In(q, k, m) /\ k \notin X
      /\ \A R : SortedBy(q, R) => SortedBy(r, R)
      /\ \/ X = {}
         \/ \E cut \in DOMAIN q :
              /\ X = {k \in DOMAIN q : cut <= k}
              /\ cut >= msg_drop_priority
              /\ elapsed_secs(q[cut][1].at, t) > max_msg_age_secs
  BY <1>1, DropMap
<1> HIDE DEF r, X
<1>3. Numbered(r, n)
  <2>1. \A k, m : In(r, k, m) => m.priority = k /\ m.id \in 1 .. n
    BY <1>2, NumberedIn
  <2>2. SortedBy(r, IdOrder)
    BY <1>2 DEF Numbered
  <2> QED
    BY <1>2, <2>1, <2>2 DEF Numbered, In
<1>4. \A x : x \in Queued(r) <=> x \in Queued(q) /\ x.priority \notin X
  <2>1. /\ \A m : m \in Queued(q) <=> \E k \in Priority : In(q, k, m)
        /\ \A m : m \in Queued(r) <=> \E k \in Priority : In(r, k, m)
    BY <1>1, <1>2, QueuedIn
  <2>2. \A k, m : In(q, k, m) => m.priority = k
    BY DEF Numbered, In
  <2> QED
    BY <2>1, <2>2, <1>2
<1>5. CASE X = {}
  BY <1>3, <1>4, <1>5 DEF r
<1>6. ASSUME NEW cut \in DOMAIN q,
             X = {k \in DOMAIN q : cut <= k}, cut >= msg_drop_priority,
             elapsed_secs(q[cut][1].at, t) > max_msg_age_secs
      PROVE  /\ Queued(q) \ Queued(r) = {x \in Queued(q) : x.priority >= cut}
             /\ \A x \in Queued(q) \ Queued(r) : x.priority >= msg_drop_priority
  <2>1. ASSUME NEW x \in Queued(q) PROVE x.priority \in DOMAIN q
    BY NumberedQueued DEF In
  <2>2. \A k \in DOMAIN q : k \in Nat
    BY <1>1, QueueEntry
  <2>3. msg_drop_priority \in Nat
    BY OutQueueAssumption DEF OutQueueAssumption
  <2>4. ASSUME NEW x \in Queued(q) PROVE x \notin Queued(r) <=> x.priority >= cut
    BY <1>4, <1>6, <2>1, <2>2
  <2>5. ASSUME NEW x \in Queued(q), x.priority >= cut PROVE x.priority >= msg_drop_priority
    BY <1>6, <2>1, <2>2, <2>3, <2>5
  <2> QED
    BY <2>4, <2>5
<1> QED
  BY <1>2, <1>3, <1>4, <1>5, <1>6 DEF r

(* next_msg returns the message that goes before all others, and that one   *)
(* goes.                                                                    *)
LEMMA NextNumbered ==
  ASSUME NEW n \in Nat, NEW q, Numbered(q, n), DOMAIN q # {}
  PROVE  LET r == after_next_msg(q)
             h == next_msg(q)
         IN  /\ Numbered(r, n)
             /\ h \in Queued(q)
             /\ Queued(r) = Queued(q) \ {h}
             /\ \A x \in Queued(q) : \/ h.priority < x.priority
                                     \/ h.priority = x.priority /\ (x = h \/ h.id < x.id)
<1> DEFINE r == after_next_msg(q)
           h == next_msg(q)
           f == next_key(q)
<1>1. QueueMap(q, NumberedMessage) /\ SortedBy(q, IdOrder)
  BY DEF Numbered, In
<1>2. /\ QueueMap(r, NumberedMessage) /\ SortedBy(r, IdOrder)
      /\ In(q, f, h)
      /\ \A k, m : In(q, k, m) => f <= k
      /\ \A m : In(q, f, m) => m = h \/ <<h, m>> \in IdOrder
      /\ \A k, m : In(r, k, m) <=> In(q, k, m) /\ ~(k = f /\ m = h)
  BY <1>1, NextMap, IdOrderShape
<1> HIDE DEF r, h, f
<1>3. Numbered(r, n)
  <2>1. \A k, m : In(r, k, m) => m.priority = k /\ m.id \in 1 .. n
    BY <1>2, NumberedIn
  <2>2. SortedBy(r, IdOrder)
    BY <1>2 DEF Numbered
  <2> QED
    BY <1>2, <2>1, <2>2 DEF Numbered, In
<1>4. /\ \A m : m \in Queued(q) <=> \E k \in Priority : In(q, k, m)
      /\ \A m : m \in Queued(r) <=> \E k \in Priority : In(r, k, m)
      /\ \A p, m : In(q, p, m) => p \in Priority /\ m \in NumberedMessage
  BY <1>1, <1>2, QueuedIn
<1>5. \A k, m : In(q, k, m) => m.priority = k
  BY DEF Numbered, In
<1>6. h \in Queued(q) /\ h.priority = f /\ h \in NumberedMessage
  BY <1>2, <1>4, <1>5
<1>7. \A m : m \in Queued(r) <=> m \in Queued(q) /\ m # h
  BY <1>2, <1>4, <1>5, <1>6
<1>8. ASSUME NEW x \in Queued(q)
      PROVE  \/ h.priority < x.priority
             \/ h.priority = x.priority /\ (x = h \/ h.id < x.id)
  <2>1. In(q, x.priority, x) /\ x \in NumberedMessage
    BY <1>4, <1>5
  <2>2. f <= x.priority /\ f \in Nat /\ x.priority \in Nat
    BY <1>2, <1>6, <2>1, IdOrderShape
  <2>3. CASE x.priority = f
    <3>1. x = h \/ <<h, x>> \in IdOrder
      BY <1>2, <2>1, <2>3
    <3>2. x = h \/ h.id < x.id
      BY <1>6, <2>1, <3>1, IdOrderShape
    <3> QED
      BY <1>6, <2>3, <3>2
  <2>4. CASE x.priority # f
    <3>1. h.priority < x.priority
      BY <1>6, <2>2, <2>4
    <3> QED
      BY <3>1
  <2> QED
    BY <2>3, <2>4
<1> QED
  BY <1>3, <1>6, <1>7, <1>8 DEF r, h
=============================================================================
