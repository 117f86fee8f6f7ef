---------------------------- MODULE FrameTheorems ----------------------------
(***************************************************************************)
(* Facts about encoded frames, for the sockets that write them to a byte    *)
(* stream (TcpSock, UdtSock): what serialize_with_len returns, what the     *)
(* operations of OutQueue do to a map of queues of encoded frames, and what *)
(* try_read leaves of its buffer.  F is the set of frames there can be.     *)
(***************************************************************************)
EXTENDS LenDelimitedReader, OutQueueTheorems

FrameSet(F) == \A f \in F : f.id \in Nat /\ f.priority \in Priority /\ f.len \in Nat

Cells(F) == [frame : F, k : Nat]

FrameLen(f) == encrypted_size_len(f.ctx) + f.len

Encoded(F) == {serialize_with_len(f) : f \in F}

(* d is the rest of the encoding of a frame, from some byte on. *)
IsRest(d, F) ==
  /\ d \in Seq(Cells(F)) /\ d # <<>>
  /\ d[1].k \in 1 .. FrameLen(d[1].frame)
  /\ Len(d) = FrameLen(d[1].frame) - d[1].k + 1
  /\ \A i \in 1 .. Len(d) : d[i] = [frame |-> d[1].frame, k |-> d[1].k + i - 1]

-----------------------------------------------------------------------------
(* A header is not empty. *)
LEMMA HeaderLen == \A ctx : encrypted_size_len(ctx) \in Nat \ {0}
BY CryptoAssumption DEF CryptoAssumption, encrypted_size_len

(* Neither is a frame. *)
LEMMA FrameLenNat == ASSUME NEW f, f.len \in Nat PROVE FrameLen(f) \in Nat \ {0}
<1>1. encrypted_size_len(f.ctx) \in Nat \ {0}
  BY HeaderLen
<1> QED
  BY <1>1 DEF FrameLen

(* An encoded frame is the rest of itself from its first byte on. *)
LEMMA EncodedShape ==
  ASSUME NEW F, FrameSet(F), NEW f \in F
  PROVE  LET d == serialize_with_len(f)
         IN  /\ IsRest(d, F) /\ d[1].frame = f /\ d[1].k = 1 /\ Len(d) = FrameLen(f)
<1> DEFINE d == serialize_with_len(f)
           n == FrameLen(f)
<1>1. n \in Nat \ {0}
  BY FrameLenNat DEF FrameSet
<1>2. d = [k \in 1 .. n |-> [frame |-> f, k |-> k]]
  BY DEF serialize_with_len, FrameLen
<1> HIDE DEF d, n
<1>3. d \in [1 .. n -> Cells(F)]
  <2>1. \A k \in 1 .. n : [frame |-> f, k |-> k] \in Cells(F)
    <3>1. \A k \in 1 .. n : k \in Nat
      BY <1>1
    <3> QED
      BY <3>1 DEF Cells
  <2> QED
    BY <1>2, <2>1
<1>4. d \in Seq(Cells(F)) /\ Len(d) = n
  BY <1>1, <1>3, IsASeq
<1>5. \A i \in 1 .. n : d[i] = [frame |-> f, k |-> i]
  BY <1>2
<1>6. 1 \in 1 .. n
  BY <1>1
<1>7. d[1].frame = f /\ d[1].k = 1
  <2>1. d[1] = [frame |-> f, k |-> 1]
    BY <1>5, <1>6
  <2> QED
    BY <2>1
<1>8. \A i \in 1 .. n : 1 + i - 1 = i
  OBVIOUS
<1>9. \A i \in 1 .. Len(d) : d[i] = [frame |-> d[1].frame, k |-> d[1].k + i - 1]
  BY <1>4, <1>5, <1>7, <1>8
<1>10. d # <<>>
  BY <1>1, <1>4
<1>11. d[1].k \in 1 .. FrameLen(d[1].frame) /\ Len(d) = FrameLen(d[1].frame) - d[1].k + 1
  BY <1>1, <1>4, <1>7 DEF n
<1>12. IsRest(d, F)
  BY <1>4, <1>9, <1>10, <1>11 DEF IsRest
<1> QED
  BY <1>4, <1>7, <1>12 DEF d, n

(* What there is in Encoded(F). *)
LEMMA EncodedElements ==
  ASSUME NEW F, FrameSet(F), NEW d \in Encoded(F)
  PROVE  /\ IsRest(d, F) /\ d[1].frame \in F /\ d[1].k = 1 /\ Len(d) = FrameLen(d[1].frame)
         /\ d = serialize_with_len(d[1].frame)
<1>1. PICK f \in F : d = serialize_with_len(f)
  BY DEF Encoded
<1>2. IsRest(d, F) /\ d[1].frame = f /\ d[1].k = 1 /\ Len(d) = FrameLen(f)
  BY <1>1, EncodedShape
<1> QED
  BY <1>1, <1>2

(* The parts of a rest: the bytes up to the n-th, and the rest after them. *)
LEMMA RestSplit ==
  ASSUME NEW F, FrameSet(F), NEW d, IsRest(d, F), NEW n \in 0 .. Len(d)
  PROVE  LET e == SubSeq(d, n + 1, Len(d))
         IN  /\ e \in Seq(Cells(F)) /\ SubSeq(d, 1, n) \in Seq(Cells(F))
             /\ n = Len(d) => e = <<>>
             /\ n # Len(d) => IsRest(e, F) /\ e[1].frame = d[1].frame /\ e[1].k = d[1].k + n
             /\ SubSeq(d, 1, n) \o e = d
<1> DEFINE e == SubSeq(d, n + 1, Len(d))
           f == d[1].frame
           l == Len(d)
           a == d[1].k
           m == FrameLen(f)
<1>1. /\ d \in Seq(Cells(F)) /\ l \in Nat /\ l # 0 /\ n \in 0 .. l
      /\ a \in 1 .. m /\ l = m - a + 1
      /\ \A i \in 1 .. l : d[i] = [frame |-> f, k |-> a + i - 1]
  BY DEF IsRest
<1>2. \A i \in 1 .. l : d[i] \in Cells(F)
  BY <1>1, ElementOfSeq
<1>3. f \in F /\ m \in Nat
  <2>1. d[1] \in Cells(F)
    BY <1>1, <1>2
  <2>2. f \in F
    BY <2>1 DEF Cells
  <2> QED
    BY <2>2, FrameLenNat DEF FrameSet
<1> HIDE DEF f, l, a, m
<1>4. SubSeq(d, 1, n) \in Seq(Cells(F))
  <2>1. \A i \in 1 .. n : d[i] \in Cells(F)
    BY <1>1, <1>2
  <2>2. 1 \in Int /\ n \in Int
    BY <1>1
  <2> QED
    BY <2>1, <2>2, SubSeqProperties
<1>5. /\ e \in Seq(Cells(F))
      /\ Len(e) = IF n + 1 <= l THEN l - (n + 1) + 1 ELSE 0
      /\ \A i \in 1 .. l - (n + 1) + 1 : e[i] = d[(n + 1) + i - 1]
  <2>1. \A i \in n + 1 .. l : d[i] \in Cells(F)
    BY <1>1, <1>2
  <2>2. n + 1 \in Int /\ l \in Int
    BY <1>1
  <2> QED
    BY <2>1, <2>2, SubSeqProperties DEF l
<1>6. SubSeq(d, 1, n) \o e = d
  <2>1. 1 \in 1 .. Len(d) + 1 /\ n \in 1 - 1 .. Len(d) /\ Len(d) \in n .. Len(d)
    BY <1>1 DEF l
  <2>2. SubSeq(d, 1, n) \o e = SubSeq(d, 1, Len(d))
    BY <1>1, <2>1, ConcatAdjacentSubSeq
  <2> QED
    BY <1>1, <2>2, SubSeqFull
<1> HIDE DEF e
<1>7. n = l => e = <<>>
  BY <1>1, <1>5
<1>8. ASSUME n # l PROVE IsRest(e, F) /\ e[1].frame = f /\ e[1].k = a + n
  <2>1. Len(e) = l - n /\ l - n \in Nat /\ l - n # 0
    BY <1>1, <1>5, <1>8
  <2>2. ASSUME NEW i \in 1 .. l - n PROVE e[i] = [frame |-> f, k |-> (a + n) + i - 1]
    <3>1. i \in 1 .. l - (n + 1) + 1 /\ (n + 1) + i - 1 \in 1 .. l
      BY <1>1, <2>1
    <3>2. a + ((n + 1) + i - 1) - 1 = (a + n) + i - 1
      BY <1>1, <1>3, <2>1
    <3>3. e[i] = d[(n + 1) + i - 1]
      BY <1>5, <3>1
    <3> QED
      BY <1>1, <3>1, <3>2, <3>3
  <2>3. 1 \in 1 .. l - n /\ (a + n) + 1 - 1 = a + n
    BY <1>1, <1>3, <2>1
  <2>4. e[1] = [frame |-> f, k |-> a + n]
    BY <2>2, <2>3
  <2>5. e[1].frame = f /\ e[1].k = a + n
    BY <2>4
  <2>6. \A i \in 1 .. Len(e) : e[i] = [frame |-> e[1].frame, k |-> e[1].k + i - 1]
    BY <2>1, <2>2, <2>5
  <2>7. a + n \in 1 .. m /\ l - n = m - (a + n) + 1
    BY <1>1, <1>3, <1>8
  <2>8. e # <<>>
    BY <2>1
  <2> QED
    BY <1>5, <2>1, <2>5, <2>6, <2>7, <2>8 DEF IsRest, m
<1> QED
  BY <1>4, <1>5, <1>6, <1>7, <1>8 DEF e, f, l, a

-----------------------------------------------------------------------------
(* Queues of encoded frames: each under its own priority, in the order of   *)
(* their ids, which are distinct and at most n.                             *)
FrameOrder(F) ==
  {ab \in Encoded(F) \X Encoded(F) : ab[1][1].frame.id < ab[2][1].frame.id}

FrameQueue(q, F, n) ==
  /\ QueueMap(q, Encoded(F)) /\ SortedBy(q, FrameOrder(F))
  /\ \A p, d : In(q, p, d) => d[1].frame.priority = p /\ d[1].frame.id \in 1 .. n
  /\ \A p, d, r, e : In(q, p, d) /\ In(q, r, e) /\ d[1].frame.id = e[1].frame.id => d = e

(* The frames in the queues. *)
QFrames(q) == {d[1].frame : d \in Queued(q)}

(* FrameOrder compares the ids of frames. *)
LEMMA FrameOrderShape ==
  ASSUME NEW F, FrameSet(F)
  PROVE  /\ \A d, e \in Encoded(F) :
              <<d, e>> \in FrameOrder(F) <=> d[1].frame.id < e[1].frame.id
         /\ \A d \in Encoded(F) : d[1].frame \in F /\ d[1].frame.id \in Nat
         /\ \A d \in Encoded(F) : <<d, d>> \notin FrameOrder(F)
<1>1. \A d, e \in Encoded(F) : <<d, e>> \in FrameOrder(F) <=> d[1].frame.id < e[1].frame.id
  BY DEF FrameOrder
<1>2. \A d \in Encoded(F) : d[1].frame \in F
  BY EncodedElements
<1>3. \A d \in Encoded(F) : d[1].frame.id \in Nat
  BY <1>2 DEF FrameSet
<1>4. ASSUME NEW d \in Encoded(F) PROVE <<d, d>> \notin FrameOrder(F)
  <2>1. d[1].frame.id \in Nat
    BY <1>3
  <2>2. ~(d[1].frame.id < d[1].frame.id)
    BY <2>1
  <2> QED
    BY <1>1, <2>2
<1> QED
  BY <1>1, <1>2, <1>3, <1>4

(* What such a map says of the frames in it. *)
LEMMA FramesIn ==
  ASSUME NEW F, FrameSet(F), NEW n \in Nat, NEW q, FrameQueue(q, F, n)
  PROVE  /\ QFrames(q) \subseteq F
         /\ \A f \in QFrames(q) : f.id \in 1 .. n
         /\ \A f, g \in QFrames(q) : f.id = g.id => f = g
         /\ \A f : f \in QFrames(q) <=> \E d : In(q, f.priority, d) /\ d[1].frame = f
         /\ DOMAIN q = {} <=> QFrames(q) = {}
         /\ FrameQueue(q, F, n + 1)
         /\ Queued(q) \subseteq Encoded(F)
<1>1. /\ \A d : d \in Queued(q) <=> \E p \in Priority : In(q, p, d)
      /\ Queued(q) \subseteq Encoded(F)
      /\ DOMAIN q = {} <=> Queued(q) = {}
      /\ \A p, d : In(q, p, d) => p \in Priority /\ d \in Encoded(F)
  <2>1. QueueMap(q, Encoded(F))
    BY DEF FrameQueue
  <2> QED
    BY <2>1, QueuedIn
<1>2. \A p, d : In(q, p, d) => d[1].frame.priority = p /\ d[1].frame.id \in 1 .. n
  BY DEF FrameQueue
<1>3. \A p, d, r, e : In(q, p, d) /\ In(q, r, e) /\ d[1].frame.id = e[1].frame.id => d = e
  BY DEF FrameQueue
<1>4. QFrames(q) \subseteq F
  BY <1>1, FrameOrderShape DEF QFrames
<1>5. \A f : f \in QFrames(q) <=> \E d : In(q, f.priority, d) /\ d[1].frame = f
  BY <1>1, <1>2 DEF QFrames
<1>6. \A f \in QFrames(q) : f.id \in 1 .. n
  BY <1>2, <1>5
<1>7. \A f, g \in QFrames(q) : f.id = g.id => f = g
  BY <1>3, <1>5
<1>8. DOMAIN q = {} <=> QFrames(q) = {}
  BY <1>1 DEF QFrames
<1>9. FrameQueue(q, F, n + 1)
  <2>1. \A i : i \in 1 .. n => i \in 1 .. n + 1
    OBVIOUS
  <2> QED
    BY <1>2, <1>3, <2>1 DEF FrameQueue
<1> QED
  BY <1>1, <1>4, <1>5, <1>6, <1>7, <1>8, <1>9

(* OutQueue::new holds no frame. *)
LEMMA NewFrames ==
  ASSUME NEW F, FrameSet(F), NEW n \in Nat
  PROVE  FrameQueue(new, F, n) /\ QFrames(new) = {} /\ DOMAIN new = {}
<1>1. /\ QueueMap(new, Encoded(F)) /\ DOMAIN new = {} /\ SortedBy(new, FrameOrder(F))
      /\ \A p, m : ~In(new, p, m)
  BY NewMap
<1>2. FrameQueue(new, F, n)
  BY <1>1 DEF FrameQueue
<1> QED
  BY <1>1, <1>2, FramesIn

(* push of the frame with the next id. *)
LEMMA PushFrames ==
  ASSUME NEW F, FrameSet(F), NEW n \in Nat, NEW q, FrameQueue(q, F, n), NEW t \in Nat,
         NEW f \in F, f.id = n + 1
  PROVE  LET r == push_at(q, t, serialize_with_len(f), f.priority)
         IN  FrameQueue(r, F, n + 1) /\ QFrames(r) = QFrames(q) \cup {f}
<1> DEFINE x == serialize_with_len(f)
           p == f.priority
           r == push_at(q, t, x, p)
<1>1. x \in Encoded(F) /\ x[1].frame = f /\ p \in Priority
  BY EncodedShape DEF Encoded, FrameSet
<1>2. QueueMap(q, Encoded(F)) /\ SortedBy(q, FrameOrder(F))
  BY DEF FrameQueue
<1> HIDE DEF x, p
<1>3. /\ QueueMap(r, Encoded(F))
      /\ \A k, m : In(r, k, m) <=> In(q, k, m) \/ (k = p /\ m = x)
      /\ \A R : /\ SortedBy(q, R)
                /\ \A m : In(q, p, m) => <<m, x>> \in R
                => SortedBy(r, R)
  BY <1>1, <1>2, PushMap
<1> HIDE DEF r
<1>4. \A k, m : In(q, k, m) => m \in Encoded(F) /\ m[1].frame.priority = k /\ m[1].frame.id \in 1 .. n
  BY <1>2, QueuedIn DEF FrameQueue
<1>5. \A i : i \in 1 .. n => i \in 1 .. n + 1 /\ i < n + 1 /\ i # n + 1
  OBVIOUS
<1>6. SortedBy(r, FrameOrder(F))
  <2>1. ASSUME NEW m, In(q, p, m) PROVE <<m, x>> \in FrameOrder(F)
    <3>1. m \in Encoded(F) /\ m[1].frame.id < x[1].frame.id
      BY <1>1, <1>4, <1>5, <2>1
    <3> QED
      BY <1>1, <3>1, FrameOrderShape
  <2> QED
    BY <1>2, <1>3, <2>1
<1>7. ASSUME NEW k, NEW m, In(r, k, m) PROVE m[1].frame.priority = k /\ m[1].frame.id \in 1 .. n + 1
  <2>1. CASE In(q, k, m)
    BY <1>4, <1>5, <2>1
  <2>2. CASE k = p /\ m = x
    <3>1. n + 1 \in 1 .. n + 1
      OBVIOUS
    <3> QED
      BY <1>1, <2>2, <3>1 DEF p
  <2> QED
    BY <1>3, <1>7, <2>1, <2>2
<1>8. ASSUME NEW k, NEW d, NEW o, NEW e, In(r, k, d), In(r, o, e), d[1].frame.id = e[1].frame.id
      PROVE  d = e
  <2>1. \A i, m : In(q, i, m) => m[1].frame.id # x[1].frame.id
    BY <1>1, <1>4, <1>5
  <2>2. \A i, m, j, l : In(q, i, m) /\ In(q, j, l) /\ m[1].frame.id = l[1].frame.id => m = l
    BY DEF FrameQueue
  <2> QED
    BY <1>3, <1>8, <2>1, <2>2
<1>9. FrameQueue(r, F, n + 1)
  BY <1>3, <1>6, <1>7, <1>8 DEF FrameQueue
<1>10. QFrames(r) = QFrames(q) \cup {f}
  <2>1. /\ \A m : m \in Queued(q) <=> \E k \in Priority : In(q, k, m)
        /\ \A m : m \in Queued(r) <=> \E k \in Priority : In(r, k, m)
    BY <1>2, <1>3, QueuedIn
  <2>2. \A m : m \in Queued(r) <=> m \in Queued(q) \/ m = x
    BY <1>1, <1>3, <2>1
  <2> QED
    BY <1>1, <2>2 DEF QFrames
<1> QED
  BY <1>9, <1>10 DEF r, x, p

(* drop_expired takes away frames of droppable priorities. *)
LEMMA DropFrames ==
  ASSUME NEW F, FrameSet(F), NEW n \in Nat, NEW q, FrameQueue(q, F, n), NEW t \in Nat
  PROVE  LET r == drop_expired(q, t)
         IN  /\ FrameQueue(r, F, n)
             /\ QFrames(r) \subseteq QFrames(q)
             /\ {d[1].frame : d \in Queued(q) \ Queued(r)} = QFrames(q) \ QFrames(r)
             /\ \A f \in QFrames(q) \ QFrames(r) : f.priority >= msg_drop_priority
<1> DEFINE r == drop_expired(q, t)
           X == expired_queues(q, t)
<1>1. QueueMap(q, Encoded(F)) /\ SortedBy(q, FrameOrder(F))
  BY DEF FrameQueue
<1>2. /\ QueueMap(r, Encoded(F))
      /\ \A k, m : In(r, k, m) <=> In(q, k, m) /\ k \notin X
      /\ \A R : SortedBy(q, R) => SortedBy(r, R)
      /\ \/ X = {}
         \/ \E cut \in DOMAIN q :
              /\ X = {k \in DOMAIN q : cut <= k}
              /\ cut >= msg_drop_priority
              /\ elapsed_secs(q[cut][1].at, t) > max_msg_age_secs
  BY <1>1, DropMap
<1> HIDE DEF r, X
<1>3. SortedBy(r, FrameOrder(F))
  BY <1>1, <1>2
<1>4. /\ \A k, d : In(q, k, d) => d[1].frame.priority = k /\ d[1].frame.id \in 1 .. n
      /\ \A p, d, k, e : In(q, p, d) /\ In(q, k, e) /\ d[1].frame.id = e[1].frame.id => d = e
  BY DEF FrameQueue
<1>5. FrameQueue(r, F, n)
  <2>1. \A k, d : In(r, k, d) => d[1].frame.priority = k /\ d[1].frame.id \in 1 .. n
    BY <1>2, <1>4
  <2>2. \A p, d, k, e : In(r, p, d) /\ In(r, k, e) /\ d[1].frame.id = e[1].frame.id => d = e
    BY <1>2, <1>4
  <2> QED
    BY <1>2, <1>3, <2>1, <2>2 DEF FrameQueue
<1>6. /\ \A m : m \in Queued(q) <=> \E k \in Priority : In(q, k, m)
      /\ \A m : m \in Queued(r) <=> \E k \in Priority : In(r, k, m)
  BY <1>1, <1>2, QueuedIn
<1>7. Queued(r) \subseteq Queued(q)
  BY <1>2, <1>6
<1>8. \A d, e \in Queued(q) : d[1].frame = e[1].frame => d = e
  BY <1>4, <1>6
<1>9. {d[1].frame : d \in Queued(q) \ Queued(r)} = QFrames(q) \ QFrames(r)
  <2>1. ASSUME NEW d \in Queued(q) \ Queued(r) PROVE d[1].frame \in QFrames(q) \ QFrames(r)
    BY <1>7, <1>8 DEF QFrames
  <2>2. ASSUME NEW f \in QFrames(q) \ QFrames(r) PROVE \E d \in Queued(q) \ Queued(r) : d[1].frame = f
    BY DEF QFrames
  <2> QED
    BY <2>1, <2>2
<1>10. ASSUME NEW d \in Queued(q) \ Queued(r) PROVE d[1].frame.priority >= msg_drop_priority
  <2>1. PICK k \in Priority : In(q, k, d)
    BY <1>6
  <2>2. k \in X /\ k \in DOMAIN q /\ d[1].frame.priority = k
    <3>1. ~In(r, k, d)
      BY <1>6, <2>1
    <3>2. k \in X
      BY <1>2, <2>1, <3>1
    <3>3. k \in DOMAIN q
      BY <2>1 DEF In
    <3> QED
      BY <1>4, <2>1, <3>2, <3>3
  <2>3. PICK cut \in DOMAIN q :
          /\ X = {i \in DOMAIN q : cut <= i}
          /\ cut >= msg_drop_priority
          /\ elapsed_secs(q[cut][1].at, t) > max_msg_age_secs
    <3>1. X # {}
      BY <2>2
    <3> QED
      BY <1>2, <3>1, Zenon
  <2>4. cut \in Nat /\ k \in Nat /\ msg_drop_priority \in Nat
    <3>1. \A i \in DOMAIN q : i \in Nat
      BY <1>1, QueueEntry
    <3> QED
      BY <2>2, <3>1, OutQueueAssumption DEF OutQueueAssumption
  <2>5. cut <= k
    BY <2>2, <2>3
  <2> QED
    BY <2>2, <2>3, <2>4, <2>5
<1>11. \A f \in QFrames(q) \ QFrames(r) : f.priority >= msg_drop_priority
  BY <1>9, <1>10
<1>12. QFrames(r) \subseteq QFrames(q)
  BY <1>7 DEF QFrames
<1> QED
  BY <1>5, <1>9, <1>11, <1>12 DEF r

(* next_msg returns the first frame of the most urgent priority, and that   *)
(* one goes.                                                                *)
LEMMA NextFrames ==
  ASSUME NEW F, FrameSet(F), NEW n \in Nat, NEW q, FrameQueue(q, F, n), DOMAIN q # {}
  PROVE  LET r == after_next_msg(q)
             d == next_msg(q)
         IN  /\ FrameQueue(r, F, n)
             /\ d \in Encoded(F) /\ d[1].frame \in QFrames(q)
             /\ QFrames(r) = QFrames(q) \ {d[1].frame}
             /\ \A g \in QFrames(q) :
                  /\ d[1].frame.priority <= g.priority
                  /\ g.priority = d[1].frame.priority => g = d[1].frame \/ d[1].frame.id < g.id
<1> DEFINE r == after_next_msg(q)
           h == next_msg(q)
           p == next_key(q)
           f == h[1].frame
<1>1. QueueMap(q, Encoded(F)) /\ SortedBy(q, FrameOrder(F))
  BY DEF FrameQueue
<1>2. /\ QueueMap(r, Encoded(F)) /\ SortedBy(r, FrameOrder(F))
      /\ In(q, p, h)
      /\ \A k, m : In(q, k, m) => p <= k
      /\ \A m : In(q, p, m) => m = h \/ <<h, m>> \in FrameOrder(F)
      /\ \A k, m : In(r, k, m) <=> In(q, k, m) /\ ~(k = p /\ m = h)
  BY <1>1, NextMap, FrameOrderShape
<1> HIDE DEF r, h, p
<1>3. /\ \A k, d : In(q, k, d) => d[1].frame.priority = k /\ d[1].frame.id \in 1 .. n
      /\ \A o, d, k, e : In(q, o, d) /\ In(q, k, e) /\ d[1].frame.id = e[1].frame.id => d = e
  BY DEF FrameQueue
<1>4. FrameQueue(r, F, n)
  <2>1. \A k, d : In(r, k, d) => d[1].frame.priority = k /\ d[1].frame.id \in 1 .. n
    BY <1>2, <1>3
  <2>2. \A o, d, k, e : In(r, o, d) /\ In(r, k, e) /\ d[1].frame.id = e[1].frame.id => d = e
    BY <1>2, <1>3
  <2> QED
    BY <1>2, <2>1, <2>2 DEF FrameQueue
<1>5. /\ \A m : m \in Queued(q) <=> \E k \in Priority : In(q, k, m)
      /\ \A m : m \in Queued(r) <=> \E k \in Priority : In(r, k, m)
      /\ \A k, m : In(q, k, m) => k \in Priority /\ m \in Encoded(F)
  BY <1>1, <1>2, QueuedIn
<1>6. h \in Encoded(F) /\ h \in Queued(q) /\ f \in QFrames(q) /\ f.priority = p
  BY <1>2, <1>3, <1>5 DEF QFrames
<1>7. \A m : m \in Queued(r) <=> m \in Queued(q) /\ m # h
  BY <1>2, <1>3, <1>5
<1>8. \A d \in Queued(q) : d[1].frame = f => d = h
  BY <1>3, <1>5, <1>6
<1>9. QFrames(r) = QFrames(q) \ {f}
  BY <1>7, <1>8 DEF QFrames
<1>10. ASSUME NEW g \in QFrames(q)
       PROVE  /\ f.priority <= g.priority
              /\ g.priority = f.priority => g = f \/ f.id < g.id
  <2>1. PICK d \in Queued(q) : d[1].frame = g
    BY DEF QFrames
  <2>2. In(q, g.priority, d) /\ d \in Encoded(F)
    BY <1>3, <1>5, <2>1
  <2>3. f.priority <= g.priority
    BY <1>2, <1>6, <2>2
  <2>4. ASSUME g.priority = f.priority PROVE g = f \/ f.id < g.id
    <3>1. d = h \/ <<h, d>> \in FrameOrder(F)
      BY <1>2, <1>6, <2>2, <2>4
    <3> QED
      BY <1>6, <2>1, <2>2, <3>1, FrameOrderShape
  <2> QED
    BY <2>3, <2>4
<1> QED
  BY <1>4, <1>6, <1>9, <1>10 DEF r, h

-----------------------------------------------------------------------------
(* A line of bytes: s are the bytes on the way from a sender to a reader.   *)
(* W are the frames written, in order, of which s holds the last ones; P is *)
(* the frame being written, if any, as a singleton.  While the line is      *)
(* live, all of the frame being written counts as part of s; once it is     *)
(* not, s may end in the middle of a frame.                                 *)

AtEnd(c) == c.k = FrameLen(c.frame)

Done(W) == {W[j] : j \in 1 .. Len(W)}

(* A frame goes on until it ends. *)
Unbroken(s) ==
  /\ \A i \in 1 .. Len(s) : s[i].k \in 1 .. FrameLen(s[i].frame)
  /\ \A i, j \in 1 .. Len(s) :
       i <= j /\ s[i].k + (j - i) <= FrameLen(s[i].frame) =>
         s[j] = [frame |-> s[i].frame, k |-> s[i].k + (j - i)]

(* After a frame that ended comes the one written next, from its beginning. *)
Chained(s, W, live) ==
  /\ \A i \in 1 .. Len(s) :
       AtEnd(s[i]) => s[i].frame \in Done(W) \/ (live /\ i = Len(s))
  /\ \A i \in 1 .. Len(s) - 1 : \A j \in 1 .. Len(W) :
       AtEnd(s[i]) /\ s[i].frame = W[j] =>
         /\ s[i + 1].k = 1
         /\ j < Len(W) => s[i + 1].frame = W[j + 1]
         /\ j = Len(W) => s[i + 1].frame \notin Done(W)

(* A live line ends with the last frame begun, all of it. *)
EndsWhole(s, W, P) ==
  /\ \A i \in 1 .. Len(s) : s[i].frame \in Done(W) \cup P
  /\ P \cap Done(W) = {} /\ \A f, g \in P : f = g
  /\ s # <<>> =>
       /\ AtEnd(s[Len(s)])
       /\ P = {} => W # <<>> /\ s[Len(s)].frame = W[Len(W)]
       /\ P # {} => s[Len(s)].frame \in P

LineInv(F, s, W, live, P) ==
  /\ s \in Seq(Cells(F)) /\ W \in Seq(F)
  /\ \A i, j \in 1 .. Len(W) : W[i] = W[j] => i = j
  /\ Unbroken(s) /\ Chained(s, W, live)
  /\ live => EndsWhole(s, W, P)

(* What a line is made of. *)
LEMMA LineTypes ==
  ASSUME NEW F, FrameSet(F), NEW s \in Seq(Cells(F))
  PROVE  /\ Len(s) \in Nat
         /\ \A i \in 1 .. Len(s) : s[i].frame \in F /\ s[i].k \in Nat /\ FrameLen(s[i].frame) \in Nat
<1>1. \A i \in 1 .. Len(s) : s[i] \in Cells(F)
  BY ElementOfSeq
<1>2. \A i \in 1 .. Len(s) : s[i].frame \in F /\ s[i].k \in Nat
  BY <1>1 DEF Cells
<1>3. \A f \in F : FrameLen(f) \in Nat
  BY FrameLenNat DEF FrameSet
<1> QED
  BY <1>2, <1>3

(* A part of a line, up to or from some byte. *)
LEMMA PartShape ==
  ASSUME NEW C, NEW s \in Seq(C), NEW k \in 0 .. Len(s)
  PROVE  LET a == SubSeq(s, 1, k)
             b == SubSeq(s, k + 1, Len(s))
         IN  /\ a \in Seq(C) /\ Len(a) = k /\ \A i \in 1 .. k : a[i] = s[i]
             /\ b \in Seq(C) /\ Len(b) = Len(s) - k /\ \A i \in 1 .. Len(s) - k : b[i] = s[k + i]
             /\ a \o b = s
<1> DEFINE a == SubSeq(s, 1, k)
           b == SubSeq(s, k + 1, Len(s))
           l == Len(s)
<1>1. l \in Nat /\ k \in Nat /\ k <= l /\ \A i \in 1 .. l : s[i] \in C
  BY ElementOfSeq
<1>2. a \o b = s
  <2>1. 1 \in 1 .. Len(s) + 1 /\ k \in 1 - 1 .. Len(s) /\ Len(s) \in k .. Len(s)
    BY <1>1
  <2>2. a \o b = SubSeq(s, 1, Len(s))
    BY <2>1, ConcatAdjacentSubSeq
  <2> QED
    BY <2>2, SubSeqFull
<1> HIDE DEF l
<1>3. /\ a \in Seq(C) /\ Len(a) = IF 1 <= k THEN k - 1 + 1 ELSE 0
      /\ \A i \in 1 .. k - 1 + 1 : a[i] = s[1 + i - 1]
  <2>1. 1 \in Int /\ k \in Int /\ \A i \in 1 .. k : s[i] \in C
    BY <1>1
  <2> QED
    BY <2>1, SubSeqProperties
<1>4. /\ b \in Seq(C) /\ Len(b) = IF k + 1 <= l THEN l - (k + 1) + 1 ELSE 0
      /\ \A i \in 1 .. l - (k + 1) + 1 : b[i] = s[(k + 1) + i - 1]
  <2>1. k + 1 \in Int /\ l \in Int /\ \A i \in k + 1 .. l : s[i] \in C
    BY <1>1
  <2> QED
    BY <2>1, SubSeqProperties DEF l
<1> HIDE DEF a, b
<1>5. Len(a) = k /\ \A i \in 1 .. k : a[i] = s[i]
  <2>1. \A i \in 1 .. k : i \in 1 .. k - 1 + 1 /\ 1 + i - 1 = i
    BY <1>1
  <2>2. Len(a) = k
    BY <1>1, <1>3
  <2> QED
    BY <1>3, <2>1, <2>2
<1>6. Len(b) = l - k /\ \A i \in 1 .. l - k : b[i] = s[k + i]
  <2>1. \A i \in 1 .. l - k : i \in 1 .. l - (k + 1) + 1 /\ (k + 1) + i - 1 = k + i
    BY <1>1
  <2>2. Len(b) = l - k
    BY <1>1, <1>4
  <2> QED
    BY <1>4, <2>1, <2>2
<1> QED
  BY <1>2, <1>3, <1>4, <1>5, <1>6 DEF a, b, l

(* A frame taken from the queue begins behind a line of whole frames. *)
LEMMA LineBegin ==
  ASSUME NEW F, FrameSet(F), NEW s, NEW W, LineInv(F, s, W, TRUE, {}),
         NEW d, IsRest(d, F), d[1].k = 1, d[1].frame \notin Done(W)
  PROVE  LineInv(F, s \o d, W, TRUE, {d[1].frame})
<1> DEFINE t == s \o d
           f == d[1].frame
           l == Len(s)
           m == FrameLen(f)
<1>1. /\ s \in Seq(Cells(F)) /\ W \in Seq(F)
      /\ \A i, j \in 1 .. Len(W) : W[i] = W[j] => i = j
      /\ Unbroken(s) /\ Chained(s, W, TRUE) /\ EndsWhole(s, W, {})
  BY DEF LineInv
<1>2. /\ d \in Seq(Cells(F)) /\ d # <<>> /\ Len(d) = m
      /\ \A i \in 1 .. m : d[i] = [frame |-> f, k |-> i]
      /\ f \in F /\ m \in Nat /\ m # 0
  <2>1. d \in Seq(Cells(F)) /\ d # <<>> /\ Len(d) = m - 1 + 1
    BY DEF IsRest
  <2>2. 1 \in 1 .. Len(d) /\ Len(d) # 0
    BY <2>1
  <2>3. f \in F /\ m \in Nat
    BY <2>1, <2>2, LineTypes
  <2>4. Len(d) = m
    <3> HIDE DEF m
    <3> QED
      BY <2>1, <2>3
  <2>5. ASSUME NEW i \in 1 .. m PROVE d[i] = [frame |-> f, k |-> i]
    <3>1. d[i] = [frame |-> f, k |-> 1 + i - 1]
      BY <2>4 DEF IsRest
    <3>2. 1 + i - 1 = i
      OBVIOUS
    <3> QED
      BY <3>1, <3>2
  <2> QED
    BY <2>1, <2>2, <2>3, <2>4, <2>5
<1>3. l \in Nat /\ \A i \in 1 .. l : /\ s[i].frame \in F /\ s[i].k \in Nat
                                     /\ FrameLen(s[i].frame) \in Nat
  BY <1>1, LineTypes
<1>4. t \in Seq(Cells(F)) /\ Len(t) = l + m
      /\ \A i \in 1 .. l + m : t[i] = IF i <= l THEN s[i] ELSE d[i - l]
  BY <1>1, <1>2, ConcatProperties
<1> HIDE DEF t, f, l, m
<1>5. \A i \in 1 .. l : i \in 1 .. l + m /\ t[i] = s[i]
  BY <1>2, <1>3, <1>4
<1>6. ASSUME NEW i \in 1 .. l + m, i \notin 1 .. l
      PROVE  i - l \in 1 .. m /\ t[i] = [frame |-> f, k |-> i - l] /\ t[i].frame = f /\ t[i].k = i - l
  <2>1. i - l \in 1 .. m /\ ~(i <= l)
    BY <1>2, <1>3, <1>6
  <2>2. t[i] = d[i - l]
    BY <1>4, <2>1
  <2>3. t[i] = [frame |-> f, k |-> i - l]
    BY <1>2, <2>1, <2>2
  <2> QED
    BY <2>1, <2>3
<1>7. ASSUME s # <<>> PROVE l \in 1 .. l /\ AtEnd(s[l]) /\ W # <<>> /\ s[l].frame = W[Len(W)]
  BY <1>1, <1>3, <1>7 DEF EndsWhole, l
<1>8. Unbroken(t)
  <2>1. ASSUME NEW i \in 1 .. l + m PROVE t[i].k \in 1 .. FrameLen(t[i].frame)
    <3>1. CASE i \in 1 .. l
      BY <1>1, <1>5, <3>1 DEF Unbroken, l
    <3>2. CASE i \notin 1 .. l
      BY <1>6, <3>2 DEF m
    <3> QED
      BY <3>1, <3>2
  <2>2. ASSUME NEW i \in 1 .. l + m, NEW j \in 1 .. l + m, i <= j,
               t[i].k + (j - i) <= FrameLen(t[i].frame)
        PROVE  t[j] = [frame |-> t[i].frame, k |-> t[i].k + (j - i)]
    <3>1. CASE j \in 1 .. l
      <4>1. i \in 1 .. l
        BY <1>3, <2>2, <3>1
      <4>2. t[i] = s[i] /\ t[j] = s[j]
        BY <1>5, <3>1, <4>1
      <4>3. s[i].k + (j - i) <= FrameLen(s[i].frame)
        BY <2>2, <4>2
      <4>4. s[j] = [frame |-> s[i].frame, k |-> s[i].k + (j - i)]
        BY <1>1, <2>2, <3>1, <4>1, <4>3 DEF Unbroken, l
      <4> QED
        BY <4>2, <4>4
    <3>2. CASE i \notin 1 .. l
      <4>1. j \notin 1 .. l
        BY <1>2, <1>3, <2>2, <3>2
      <4>2. t[i].frame = f /\ t[i].k = i - l /\ t[j] = [frame |-> f, k |-> j - l]
        BY <1>6, <3>2, <4>1
      <4>3. (i - l) + (j - i) = j - l
        BY <1>2, <1>3
      <4> QED
        BY <4>2, <4>3
    <3>3. CASE i \in 1 .. l /\ j \notin 1 .. l
      <4> DEFINE a == s[i].k
                 b == FrameLen(s[i].frame)
      <4>1. a \in Nat /\ b \in Nat /\ i \in Nat /\ j \in Nat /\ j > l /\ i <= l
        BY <1>2, <1>3, <3>3
      <4>2. a + (j - i) <= b
        BY <1>5, <2>2, <3>3
      <4>3. l \in 1 .. l /\ AtEnd(s[l])
        <5>1. s # <<>>
          BY <3>3 DEF l
        <5> QED
          BY <1>7, <5>1
      <4>4. a + (l - i) < b
        <5> HIDE DEF a, b
        <5> QED
          BY <1>3, <4>1, <4>2
      <4>5. s[l] = [frame |-> s[i].frame, k |-> a + (l - i)]
        <5>1. a + (l - i) <= b
          <6> HIDE DEF a, b
          <6> QED
            BY <1>3, <4>1, <4>4
        <5> QED
          BY <1>1, <3>3, <4>1, <4>3, <5>1 DEF Unbroken, l
      <4>6. a + (l - i) = b
        BY <4>3, <4>5 DEF AtEnd
      <4> HIDE DEF a, b
      <4> QED
        BY <1>3, <4>1, <4>4, <4>6
    <3> QED
      BY <3>1, <3>2, <3>3
  <2> QED
    BY <1>4, <2>1, <2>2 DEF Unbroken
<1>9. ASSUME NEW i \in 1 .. l + m, AtEnd(t[i]), i # l + m PROVE i \in 1 .. l
  <2> SUFFICES ASSUME i \notin 1 .. l PROVE FALSE
    OBVIOUS
  <2>1. i - l = m
    BY <1>6, <1>9 DEF AtEnd, m
  <2> QED
    BY <1>2, <1>3, <1>9, <2>1
<1>10. Chained(t, W, TRUE)
  <2>1. ASSUME NEW i \in 1 .. l + m, AtEnd(t[i]) PROVE t[i].frame \in Done(W) \/ i = l + m
    <3>1. CASE i \in 1 .. l
      <4>1. s # <<>> /\ AtEnd(s[i]) /\ t[i] = s[i]
        BY <1>5, <2>1, <3>1 DEF l
      <4>2. s[i].frame \in Done(W) \/ i = l
        BY <1>1, <3>1, <4>1 DEF Chained, l
      <4>3. W # <<>> => W[Len(W)] \in Done(W)
        BY <1>1 DEF Done
      <4> QED
        BY <1>7, <4>1, <4>2, <4>3
    <3>2. CASE i \notin 1 .. l
      BY <1>9, <2>1, <3>2
    <3> QED
      BY <3>1, <3>2
  <2>2. ASSUME NEW i \in 1 .. (l + m) - 1, NEW j \in 1 .. Len(W), AtEnd(t[i]), t[i].frame = W[j]
        PROVE  /\ t[i + 1].k = 1
               /\ j < Len(W) => t[i + 1].frame = W[j + 1]
               /\ j = Len(W) => t[i + 1].frame \notin Done(W)
    <3>1. i \in 1 .. l /\ t[i] = s[i] /\ s # <<>>
      <4>1. i \in 1 .. l + m /\ i # l + m
        BY <1>2, <1>3
      <4>2. i \in 1 .. l
        BY <1>9, <2>2, <4>1
      <4> QED
        BY <1>5, <4>2 DEF l
    <3>2. CASE i = l
      <4>1. i + 1 \in 1 .. l + m /\ i + 1 \notin 1 .. l /\ (i + 1) - l = 1
        BY <1>2, <1>3, <3>2
      <4>2. t[i + 1].frame = f /\ t[i + 1].k = 1
        BY <1>6, <4>1
      <4>3. Len(W) \in 1 .. Len(W) /\ W[j] = W[Len(W)]
        BY <1>1, <1>7, <2>2, <3>1, <3>2
      <4>4. j = Len(W)
        BY <1>1, <4>3
      <4> QED
        BY <4>2, <4>4 DEF f
    <3>3. CASE i # l
      <4>1. i \in 1 .. l - 1 /\ i + 1 \in 1 .. l
        BY <1>3, <3>1, <3>3
      <4>2. t[i + 1] = s[i + 1]
        BY <1>5, <4>1
      <4> QED
        BY <1>1, <2>2, <3>1, <4>1, <4>2 DEF Chained, l
    <3> QED
      BY <3>2, <3>3
  <2> QED
    BY <1>4, <2>1, <2>2 DEF Chained
<1>11. EndsWhole(t, W, {f})
  <2>1. ASSUME NEW i \in 1 .. l + m PROVE t[i].frame \in Done(W) \cup {f}
    <3>1. CASE i \in 1 .. l
      BY <1>1, <1>5, <3>1 DEF EndsWhole, l
    <3>2. CASE i \notin 1 .. l
      BY <1>6, <3>2
    <3> QED
      BY <3>1, <3>2
  <2>2. l + m \in 1 .. l + m /\ l + m \notin 1 .. l /\ (l + m) - l = m
    BY <1>2, <1>3
  <2>3. t[l + m].frame = f /\ AtEnd(t[l + m])
    BY <1>6, <2>2 DEF AtEnd, m
  <2>4. {f} \cap Done(W) = {}
    BY DEF f
  <2> QED
    BY <1>4, <2>1, <2>3, <2>4 DEF EndsWhole
<1> QED
  BY <1>1, <1>4, <1>8, <1>10, <1>11 DEF LineInv, t, f

(* The frame being written is written to the end. *)
LEMMA LineComplete ==
  ASSUME NEW F, FrameSet(F), NEW s, NEW W, NEW f \in F, f \notin Done(W),
         LineInv(F, s, W, TRUE, {f})
  PROVE  LineInv(F, s, Append(W, f), TRUE, {})
<1> DEFINE V == Append(W, f)
           n == Len(W)
<1>1. /\ s \in Seq(Cells(F)) /\ W \in Seq(F)
      /\ \A i, j \in 1 .. n : W[i] = W[j] => i = j
      /\ Unbroken(s) /\ Chained(s, W, TRUE) /\ EndsWhole(s, W, {f})
  BY DEF LineInv
<1>2. V \in Seq(F) /\ Len(V) = n + 1 /\ V[n + 1] = f /\ n \in Nat /\ \A i \in 1 .. n : V[i] = W[i]
  BY <1>1, AppendProperties
<1>3. 1 .. n + 1 = (1 .. n) \cup {n + 1}
  BY <1>2
<1> HIDE DEF V
<1>4. Done(V) = Done(W) \cup {f}
  BY <1>2, <1>3 DEF Done
<1>5. \A i \in 1 .. n : W[i] # f
  BY DEF Done
<1>6. \A i, j \in 1 .. n + 1 : V[i] = V[j] => i = j
  BY <1>1, <1>2, <1>3, <1>5
<1>7. Len(s) \in Nat
  BY <1>1
<1>8. Chained(s, V, TRUE)
  <2>1. \A i \in 1 .. Len(s) : AtEnd(s[i]) => s[i].frame \in Done(V) \/ i = Len(s)
    BY <1>1, <1>4 DEF Chained
  <2>2. ASSUME NEW i \in 1 .. Len(s) - 1, NEW j \in 1 .. n + 1, AtEnd(s[i]), s[i].frame = V[j]
        PROVE  /\ s[i + 1].k = 1
               /\ j < n + 1 => s[i + 1].frame = V[j + 1]
               /\ j = n + 1 => s[i + 1].frame \notin Done(V)
    <3>1. i \in 1 .. Len(s) /\ i # Len(s) /\ i + 1 \in 1 .. Len(s)
      BY <1>7
    <3>2. s[i].frame \in Done(W)
      BY <1>1, <2>2, <3>1 DEF Chained
    <3>3. j \in 1 .. n /\ V[j] = W[j]
      BY <1>2, <1>3, <2>2, <3>2
    <3>4. /\ s[i + 1].k = 1
          /\ j < n => s[i + 1].frame = W[j + 1]
          /\ j = n => s[i + 1].frame \notin Done(W)
      BY <1>1, <2>2, <3>3 DEF Chained
    <3>5. CASE j = n
      <4>1. s[i + 1].frame = f
        BY <1>1, <3>1, <3>4, <3>5 DEF EndsWhole
      <4>2. ~(n = n + 1)
        BY <1>2
      <4> QED
        BY <1>2, <3>4, <3>5, <4>1, <4>2
    <3>6. CASE j # n
      <4>1. j < n /\ j + 1 \in 1 .. n /\ j # n + 1
        BY <1>2, <3>3, <3>6
      <4> QED
        BY <1>2, <3>4, <4>1
    <3> QED
      BY <3>5, <3>6
  <2> QED
    BY ZenonT(40), <1>2, <2>1, <2>2 DEF Chained
<1>9. EndsWhole(s, V, {})
  <2>1. \A i \in 1 .. Len(s) : s[i].frame \in Done(V)
    BY <1>1, <1>4 DEF EndsWhole
  <2>2. s # <<>> => AtEnd(s[Len(s)]) /\ s[Len(s)].frame = f
    BY <1>1 DEF EndsWhole
  <2>3. V # <<>>
    BY <1>2
  <2> QED
    BY <1>2, <2>1, <2>2, <2>3 DEF EndsWhole
<1> QED
  BY <1>1, <1>2, <1>6, <1>8, <1>9 DEF LineInv, V

(* The reader takes bytes off the front of the line. *)
LEMMA LineSuffix ==
  ASSUME NEW F, FrameSet(F), NEW s, NEW W, NEW live \in BOOLEAN, NEW P,
         LineInv(F, s, W, live, P), NEW k \in 0 .. Len(s)
  PROVE  LineInv(F, SubSeq(s, k + 1, Len(s)), W, live, P)
<1> DEFINE t == SubSeq(s, k + 1, Len(s))
           l == Len(s)
<1>1. /\ s \in Seq(Cells(F)) /\ W \in Seq(F)
      /\ \A i, j \in 1 .. Len(W) : W[i] = W[j] => i = j
      /\ Unbroken(s) /\ Chained(s, W, live) /\ (live => EndsWhole(s, W, P))
  BY DEF LineInv
<1>2. t \in Seq(Cells(F)) /\ Len(t) = l - k /\ \A i \in 1 .. l - k : t[i] = s[k + i]
  BY <1>1, PartShape
<1>3. l \in Nat /\ k \in 0 .. l
  BY <1>1
<1> HIDE DEF t, l
<1>4. \A i \in 1 .. l - k : k + i \in 1 .. l /\ (i = l - k <=> k + i = l)
  BY <1>3
<1>5. Unbroken(t)
  <2>1. \A i \in 1 .. l - k : t[i].k \in 1 .. FrameLen(t[i].frame)
    BY <1>1, <1>2, <1>4 DEF Unbroken, l
  <2>2. ASSUME NEW i \in 1 .. l - k, NEW j \in 1 .. l - k, i <= j,
               t[i].k + (j - i) <= FrameLen(t[i].frame)
        PROVE  t[j] = [frame |-> t[i].frame, k |-> t[i].k + (j - i)]
    <3>1. k + i <= k + j /\ (k + j) - (k + i) = j - i
      BY <1>3, <2>2
    <3>2. t[i] = s[k + i] /\ t[j] = s[k + j] /\ k + i \in 1 .. l /\ k + j \in 1 .. l
      BY <1>2, <1>4
    <3>3. s[k + i].k + ((k + j) - (k + i)) <= FrameLen(s[k + i].frame)
      BY <2>2, <3>1, <3>2
    <3>4. s[k + j] = [frame |-> s[k + i].frame, k |-> s[k + i].k + ((k + j) - (k + i))]
      BY <1>1, <3>1, <3>2, <3>3 DEF Unbroken, l
    <3> QED
      BY <3>1, <3>2, <3>4
  <2> QED
    BY <1>2, <2>1, <2>2 DEF Unbroken
<1>6. Chained(t, W, live)
  <2>1. ASSUME NEW i \in 1 .. l - k, AtEnd(t[i])
        PROVE  t[i].frame \in Done(W) \/ (live /\ i = l - k)
    BY <1>1, <1>2, <1>4, <2>1 DEF Chained, l
  <2>2. ASSUME NEW i \in 1 .. (l - k) - 1, NEW j \in 1 .. Len(W), AtEnd(t[i]), t[i].frame = W[j]
        PROVE  /\ t[i + 1].k = 1
               /\ j < Len(W) => t[i + 1].frame = W[j + 1]
               /\ j = Len(W) => t[i + 1].frame \notin Done(W)
    <3>1. i \in 1 .. l - k /\ i + 1 \in 1 .. l - k /\ k + i \in 1 .. l - 1 /\ k + (i + 1) = (k + i) + 1
      BY <1>3
    <3>2. t[i] = s[k + i] /\ t[i + 1] = s[(k + i) + 1]
      BY <1>2, <3>1
    <3> QED
      BY <1>1, <2>2, <3>1, <3>2 DEF Chained, l
  <2> QED
    BY <1>2, <2>1, <2>2 DEF Chained
<1>7. ASSUME live PROVE EndsWhole(t, W, P)
  <2>1. \A i \in 1 .. l - k : t[i].frame \in Done(W) \cup P
    BY <1>1, <1>2, <1>4, <1>7 DEF EndsWhole, l
  <2>2. ASSUME t # <<>> PROVE s # <<>> /\ t[l - k] = s[l]
    <3>1. l - k \in 1 .. l - k /\ k + (l - k) = l /\ l # 0
      BY <1>2, <1>3, <2>2
    <3> QED
      BY <1>2, <3>1 DEF l
  <2> QED
    BY <1>1, <1>2, <1>7, <2>1, <2>2 DEF EndsWhole, l
<1> QED
  BY <1>1, <1>2, <1>5, <1>6, <1>7 DEF LineInv, t

(* The end of the line is cut off: nothing more comes. *)
LEMMA LineCut ==
  ASSUME NEW F, FrameSet(F), NEW s, NEW W, NEW live \in BOOLEAN, NEW P,
         LineInv(F, s, W, live, P), NEW k \in 0 .. Len(s), live /\ P # {} => k # Len(s), NEW Q
  PROVE  LineInv(F, SubSeq(s, 1, k), W, FALSE, Q)
<1> DEFINE t == SubSeq(s, 1, k)
           l == Len(s)
<1>1. /\ s \in Seq(Cells(F)) /\ W \in Seq(F)
      /\ \A i, j \in 1 .. Len(W) : W[i] = W[j] => i = j
      /\ Unbroken(s) /\ Chained(s, W, live) /\ (live => EndsWhole(s, W, P))
  BY DEF LineInv
<1>2. t \in Seq(Cells(F)) /\ Len(t) = k /\ \A i \in 1 .. k : t[i] = s[i]
  BY <1>1, PartShape
<1>3. l \in Nat /\ k \in 0 .. l
  BY <1>1
<1> HIDE DEF t, l
<1>4. \A i \in 1 .. k : i \in 1 .. l
  BY <1>3
<1>5. Unbroken(t)
  BY <1>1, <1>2, <1>4 DEF Unbroken, l
<1>6. Chained(t, W, FALSE)
  <2>1. ASSUME NEW i \in 1 .. k, AtEnd(t[i]) PROVE t[i].frame \in Done(W)
    <3>1. t[i] = s[i] /\ i \in 1 .. l
      BY <1>2, <1>4
    <3>2. CASE ~live \/ i # l
      BY <1>1, <2>1, <3>1, <3>2 DEF Chained, l
    <3>3. CASE live /\ i = l
      <4>1. k = l /\ s # <<>>
        BY <1>3, <3>3 DEF l
      <4>2. P = {}
        BY <3>3, <4>1 DEF l
      <4>3. W # <<>> /\ s[l].frame = W[Len(W)]
        BY <1>1, <3>3, <4>1, <4>2 DEF EndsWhole, l
      <4>4. Len(W) \in 1 .. Len(W)
        BY <1>1, <4>3
      <4> QED
        BY <3>1, <3>3, <4>3, <4>4 DEF Done
    <3> QED
      BY <3>2, <3>3
  <2>2. ASSUME NEW i \in 1 .. k - 1, NEW j \in 1 .. Len(W), AtEnd(t[i]), t[i].frame = W[j]
        PROVE  /\ t[i + 1].k = 1
               /\ j < Len(W) => t[i + 1].frame = W[j + 1]
               /\ j = Len(W) => t[i + 1].frame \notin Done(W)
    <3>1. i \in 1 .. k /\ i + 1 \in 1 .. k /\ i \in 1 .. l - 1
      BY <1>3
    <3>2. t[i] = s[i] /\ t[i + 1] = s[i + 1]
      BY <1>2, <3>1
    <3> QED
      BY <1>1, <2>2, <3>1, <3>2 DEF Chained, l
  <2> QED
    BY <1>2, <2>1, <2>2 DEF Chained
<1> QED
  BY <1>1, <1>2, <1>5, <1>6 DEF LineInv, t
-----------------------------------------------------------------------------
(* Four buffers in a row. *)
Buffers(C, a, b, c, d) == a \in Seq(C) /\ b \in Seq(C) /\ c \in Seq(C) /\ d \in Seq(C)

(* Bytes change place: b leaves the front of one buffer and joins the one   *)
(* before it.                                                               *)
LEMMA MoveBytes ==
  ASSUME NEW C, NEW a, NEW b, NEW c, NEW d, Buffers(C, a, b, c, d)
  PROVE  (a \o b) \o (c \o d) = a \o ((b \o c) \o d)
<1> DEFINE t == c \o d
<1>1. a \in Seq(C) /\ b \in Seq(C) /\ c \in Seq(C) /\ d \in Seq(C)
  BY DEF Buffers
<1>2. t \in Seq(C)
  BY <1>1, ConcatProperties
<1>3. (b \o c) \o d = b \o t
  BY SMTT(20), <1>1, ConcatAssociative
<1> HIDE DEF t
<1>4. (a \o b) \o t = a \o (b \o t)
  <2>1. a \in Seq(C) /\ b \in Seq(C)
    BY <1>1
  <2> QED
    BY <1>2, <2>1, ConcatAssociative
<1> QED
  BY <1>3, <1>4 DEF t

(* The line of four buffers, as two parts. *)
LEMMA LineParts ==
  ASSUME NEW C, NEW a, NEW b, NEW c, NEW d, Buffers(C, a, b, c, d)
  PROVE  /\ a \o (b \o (c \o d)) = (a \o b) \o (c \o d)
         /\ a \o (b \o (c \o d)) = (a \o (b \o c)) \o d
<1> DEFINE t == c \o d
           u == b \o c
<1>1. a \in Seq(C) /\ b \in Seq(C) /\ c \in Seq(C) /\ d \in Seq(C)
  BY DEF Buffers
<1>2. t \in Seq(C)
  BY <1>1, ConcatProperties
<1>3. u \in Seq(C)
  BY <1>1, ConcatProperties
<1>4. u \o d = b \o t
  BY SMTT(20), <1>1, ConcatAssociative
<1> HIDE DEF t, u
<1>5. (a \o b) \o t = a \o (b \o t)
  <2>1. a \in Seq(C) /\ b \in Seq(C)
    BY <1>1
  <2> QED
    BY <1>2, <2>1, ConcatAssociative
<1>6. (a \o u) \o d = a \o (u \o d)
  <2>1. a \in Seq(C) /\ d \in Seq(C)
    BY <1>1
  <2> QED
    BY <1>3, <2>1, ConcatAssociative
<1> QED
  BY <1>4, <1>5, <1>6 DEF t, u

(* The same line, put together from the left. *)
LEMMA LineWhole ==
  ASSUME NEW C, NEW a, NEW b, NEW c, NEW d, Buffers(C, a, b, c, d)
  PROVE  ((a \o b) \o c) \o d = a \o (b \o (c \o d))
<1> DEFINE x == a \o b
<1>1. a \in Seq(C) /\ b \in Seq(C)
  BY DEF Buffers
<1>2. x \in Seq(C)
  BY <1>1, ConcatProperties
<1>3. a \o (b \o (c \o d)) = x \o (c \o d)
  BY LineParts
<1> HIDE DEF x
<1>4. c \in Seq(C) /\ d \in Seq(C)
  BY DEF Buffers
<1>5. (x \o c) \o d = x \o (c \o d)
  BY <1>2, <1>4, ConcatAssociative
<1> QED
  BY <1>3, <1>5 DEF x

(* What comes after a byte of a line. *)
LEMMA LineNext ==
  ASSUME NEW F, FrameSet(F), NEW s, NEW W, NEW live \in BOOLEAN, NEW P,
         LineInv(F, s, W, live, P), NEW i \in 1 .. Len(s) - 1
  PROVE  /\ i \in 1 .. Len(s) /\ i + 1 \in 1 .. Len(s)
         /\ s[i].k < FrameLen(s[i].frame) => s[i + 1] = [frame |-> s[i].frame, k |-> s[i].k + 1]
         /\ ~(s[i].k < FrameLen(s[i].frame)) =>
              /\ s[i + 1].frame # s[i].frame /\ s[i + 1].k = 1
              /\ \E j \in 1 .. Len(W) : s[i].frame = W[j]
<1> DEFINE f == s[i].frame
           k == s[i].k
           l == FrameLen(f)
<1>1. s \in Seq(Cells(F)) /\ W \in Seq(F) /\ Unbroken(s) /\ Chained(s, W, live)
      /\ \A x, y \in 1 .. Len(W) : W[x] = W[y] => x = y
  BY DEF LineInv
<1>2. Len(s) \in Nat /\ i \in 1 .. Len(s) /\ i + 1 \in 1 .. Len(s) /\ i <= i + 1 /\ (i + 1) - i = 1
      /\ i # Len(s)
  BY <1>1, LineTypes
<1>3. k \in 1 .. l /\ l \in Nat
  BY <1>1, <1>2, LineTypes DEF Unbroken
<1>4. k + 1 <= l => s[i + 1] = [frame |-> f, k |-> k + 1]
  <2>1. \A j \in 1 .. Len(s) : i <= j /\ k + (j - i) <= l => s[j] = [frame |-> f, k |-> k + (j - i)]
    BY <1>1, <1>2 DEF Unbroken
  <2>2. k + ((i + 1) - i) <= l => s[i + 1] = [frame |-> f, k |-> k + ((i + 1) - i)]
    BY <1>2, <2>1
  <2> QED
    BY <1>2, <2>2
<1>5. ASSUME k = l
      PROVE  /\ s[i + 1].frame # f /\ s[i + 1].k = 1
             /\ \E j \in 1 .. Len(W) : f = W[j]
  <2>1. AtEnd(s[i])
    BY <1>5 DEF AtEnd
  <2>2. f \in Done(W)
    BY <1>1, <1>2, <2>1 DEF Chained
  <2>3. PICK j \in 1 .. Len(W) : f = W[j]
    BY <2>2 DEF Done
  <2>4. /\ s[i + 1].k = 1
        /\ j < Len(W) => s[i + 1].frame = W[j + 1]
        /\ j = Len(W) => s[i + 1].frame \notin Done(W)
    BY <1>1, <2>1, <2>3 DEF Chained
  <2>5. s[i + 1].frame # f
    <3>1. CASE j < Len(W)
      <4>1. j + 1 \in 1 .. Len(W) /\ j + 1 # j
        BY <1>1, <3>1
      <4> QED
        BY <1>1, <2>3, <2>4, <3>1, <4>1
    <3>2. CASE j = Len(W)
      BY <2>2, <2>4, <3>2
    <3> QED
      BY <1>1, <3>1, <3>2
  <2> QED
    BY <2>3, <2>4, <2>5
<1> HIDE DEF f, k, l
<1>6. (k < l => k + 1 <= l) /\ (~(k < l) => k = l)
  BY <1>3
<1> QED
  BY <1>2, <1>4, <1>5, <1>6 DEF f, k, l

(* The parts of a concatenation. *)
LEMMA ConcatParts ==
  ASSUME NEW C, NEW a \in Seq(C), NEW b \in Seq(C)
  PROVE  /\ a \o b \in Seq(C) /\ Len(a \o b) = Len(a) + Len(b)
         /\ Len(a) \in Nat /\ Len(b) \in Nat
         /\ \A i \in 1 .. Len(a) : (a \o b)[i] = a[i]
         /\ \A i \in 1 .. Len(b) : (a \o b)[Len(a) + i] = b[i]
         /\ SubSeq(a \o b, 1, Len(a)) = a
<1> DEFINE s == a \o b
           l == Len(a)
           m == Len(b)
<1>1. s \in Seq(C) /\ Len(s) = l + m /\ l \in Nat /\ m \in Nat
      /\ \A i \in 1 .. l + m : s[i] = IF i <= l THEN a[i] ELSE b[i - l]
  BY ConcatProperties
<1> HIDE DEF s
<1>2. ASSUME NEW i \in 1 .. l PROVE i \in 1 .. l + m /\ s[i] = a[i]
  <2>1. i \in 1 .. l + m /\ i <= l
    BY <1>1
  <2> QED
    BY <1>1, <2>1
<1>3. ASSUME NEW i \in 1 .. m PROVE s[l + i] = b[i]
  <2>1. l + i \in 1 .. l + m /\ ~(l + i <= l) /\ (l + i) - l = i
    BY <1>1
  <2> QED
    BY <1>1, <2>1
<1>4. SubSeq(s, 1, l) = a
  <2>1. l \in 0 .. Len(s)
    BY <1>1
  <2>2. SubSeq(s, 1, l) \in Seq(C) /\ Len(SubSeq(s, 1, l)) = l /\ \A i \in 1 .. l : SubSeq(s, 1, l)[i] = s[i]
    BY <1>1, <2>1, PartShape
  <2> QED
    BY <1>2, <2>2, SeqEqual
<1> QED
  BY <1>1, <1>2, <1>3, <1>4 DEF s

(* Bytes are taken off the front of the first of two parts. *)
Parts(C, a, b, k) == a \in Seq(C) /\ b \in Seq(C) /\ k \in 0 .. Len(a)

After(s, k) == SubSeq(s, k + 1, Len(s))

LEMMA FrontTaken ==
  ASSUME NEW C, NEW a, NEW b, NEW k, Parts(C, a, b, k)
  PROVE  k \in 0 .. Len(a \o b) /\ After(a, k) \o b = After(a \o b, k)
<1> DEFINE s == a \o b
           l == Len(a)
           m == Len(b)
<1> a \in Seq(C) /\ b \in Seq(C) /\ k \in 0 .. Len(a)
  BY DEF Parts
<1>1. s \in Seq(C) /\ Len(s) = l + m /\ l \in Nat /\ m \in Nat
  BY ConcatParts
<1>2. \A i \in 1 .. l : s[i] = a[i]
  BY ConcatParts
<1>3. \A i \in 1 .. m : s[l + i] = b[i]
  BY ConcatParts
<1> HIDE DEF s
<1> DEFINE u == SubSeq(a, k + 1, l)
           v == SubSeq(s, k + 1, Len(s))
<1>4. u \in Seq(C) /\ Len(u) = l - k /\ \A i \in 1 .. l - k : u[i] = a[k + i]
  BY PartShape
<1>5. v \in Seq(C) /\ Len(v) = (l + m) - k /\ \A i \in 1 .. (l + m) - k : v[i] = s[k + i]
  <2>1. k \in 0 .. Len(s)
    BY <1>1
  <2> QED
    BY <1>1, <2>1, PartShape
<1> HIDE DEF u, v
<1>6. u \o b \in Seq(C) /\ Len(u \o b) = (l - k) + m
      /\ \A i \in 1 .. (l - k) + m : (u \o b)[i] = IF i <= l - k THEN u[i] ELSE b[i - (l - k)]
  <2>1. /\ u \o b \in Seq(C) /\ Len(u \o b) = Len(u) + Len(b)
        /\ \A i \in 1 .. Len(u) + Len(b) : (u \o b)[i] = IF i <= Len(u) THEN u[i] ELSE b[i - Len(u)]
    BY <1>4, ConcatProperties
  <2> QED
    BY <1>4, <2>1
<1>7. k \in 0 .. Len(s)
  BY <1>1
<1> HIDE DEF l, m
<1>8. (l - k) + m = (l + m) - k
  BY <1>1
<1>9. ASSUME NEW i \in 1 .. (l + m) - k PROVE (u \o b)[i] = v[i]
  <2>1. CASE i <= l - k
    <3>1. i \in 1 .. l - k /\ k + i \in 1 .. l
      BY <1>1, <2>1
    <3> QED
      BY <1>2, <1>4, <1>5, <1>6, <1>8, <2>1, <3>1
  <2>2. CASE ~(i <= l - k)
    <3>1. i - (l - k) \in 1 .. m /\ l + (i - (l - k)) = k + i
      BY <1>1, <2>2
    <3>2. s[k + i] = b[i - (l - k)]
      BY <1>3, <3>1
    <3> QED
      BY <1>5, <1>6, <1>8, <2>2, <3>2
  <2> QED
    BY <2>1, <2>2
<1>10. Len(u \o b) = Len(v)
  BY <1>5, <1>6, <1>8
<1>11. \A i \in 1 .. Len(v) : (u \o b)[i] = v[i]
  BY <1>5, <1>9
<1>12. u \o b = v
  BY <1>5, <1>6, <1>10, <1>11, SeqEqual
<1> QED
  BY <1>12, <1>7 DEF u, v, s, l, After

(* p is what is left of s when its last bytes d go: the first k bytes. *)
IsFront(p, s, d, k) ==
  /\ k \in 0 .. Len(s) /\ p = SubSeq(s, 1, k)
  /\ d # <<>> => k # Len(s)
  /\ \A i \in 1 .. Len(s) : i <= k \/ \E j \in 1 .. Len(d) : s[i] = d[j]

(* The front of a line of two parts. *)
LEMMA LinePrefix ==
  ASSUME NEW C, NEW p \in Seq(C), NEW d \in Seq(C)
  PROVE  \E k : IsFront(p, p \o d, d, k)
<1> DEFINE s == p \o d
           m == Len(p)
           n == Len(d)
           l == Len(s)
<1>1. l = m + n /\ m \in Nat /\ n \in Nat
  BY ConcatParts
<1>2. SubSeq(s, 1, m) = p /\ \A j \in 1 .. n : s[m + j] = d[j]
  BY ConcatParts
<1>3. d # <<>> => n # 0
  OBVIOUS
<1> HIDE DEF s, m, n, l
<1>4. m \in 0 .. l /\ (n # 0 => m # l)
  BY <1>1
<1>5. ASSUME NEW i \in 1 .. l PROVE i <= m \/ \E j \in 1 .. n : s[i] = d[j]
  <2> SUFFICES ASSUME ~(i <= m) PROVE \E j \in 1 .. n : s[i] = d[j]
    OBVIOUS
  <2>1. i - m \in 1 .. n /\ m + (i - m) = i
    BY <1>1
  <2> QED
    BY <1>2, <2>1
<1>6. /\ m \in 0 .. l /\ p = SubSeq(s, 1, m) /\ (d # <<>> => m # l)
      /\ \A i \in 1 .. l : i <= m \/ \E j \in 1 .. n : s[i] = d[j]
  BY <1>2, <1>3, <1>4, <1>5
<1>7. IsFront(p, s, d, m)
  BY <1>6 DEF IsFront, l, n
<1> QED
  BY <1>7 DEF s

-----------------------------------------------------------------------------
(* What try_read returns and leaves behind.                                 *)

Readers(F) == [read_buffer : Seq(Cells(F)), read_len : Nat]

(* There is not enough in the buffer to go on. *)
Starved(rd, ctx) ==
  Len(rd.read_buffer) < IF rd.read_len = 0 THEN encrypted_size_len(ctx) ELSE rd.read_len

(* Results are told apart by their tags. *)
LEMMA Results ==
  /\ None.tag = "None"
  /\ \A e : Err(e).tag = "Err" /\ Err(e).err = e /\ Err(e) # None
  /\ \A id, size : /\ Some(id, size).tag = "Some" /\ Some(id, size) # None
                   /\ Some(id, size).id = id /\ Some(id, size).size = size
BY DEF None, Err, Some

(* The outcomes of try_read_header ... *)
LEMMA HeaderOutcome ==
  ASSUME NEW rd, NEW ctx, NEW o \in try_read_header(rd, ctx)
  PROVE  LET b == rd.read_buffer
             h == encrypted_size_len(ctx)
         IN  \/ Len(b) < h /\ o = [res |-> None, reader |-> rd]
             \/ /\ ~(Len(b) < h)
                /\ \E n \in decrypt_len(SubSeq(b, 1, h), ctx) :
                     \/ n = Failed /\ o = [res |-> Err("Crypto"), reader |-> rd]
                     \/ /\ n # Failed /\ n > max_payload_size
                        /\ o = [res |-> Err("PayloadSizeProhibitive"),
                                reader |-> [rd EXCEPT !.read_len = n]]
                     \/ /\ n # Failed /\ ~(n > max_payload_size)
                        /\ o = [res |-> None,
                                reader |-> [read_buffer |-> SubSeq(b, h + 1, Len(b)),
                                            read_len |-> n]]
BY DEF try_read_header, take_header

(* ... of try_read_body ... *)
LEMMA BodyOutcome ==
  ASSUME NEW rd, NEW ctx, NEW o \in try_read_body(rd, ctx)
  PROVE  LET b == rd.read_buffer
             l == rd.read_len
         IN  \/ l > Len(b) /\ o = [res |-> None, reader |-> rd]
             \/ /\ ~(l > Len(b))
                /\ \E id \in decrypt_msg(SubSeq(b, 1, l), ctx) :
                     \/ id = Failed /\ o = [res |-> Err("Crypto"), reader |-> rd]
                     \/ /\ id # Failed
                        /\ o = [res |-> Some(id, l),
                                reader |-> [read_buffer |-> SubSeq(b, l + 1, Len(b)),
                                            read_len |-> 0]]
BY DEF try_read_body, take_body, mark_read

(* ... and of try_read, which goes on to the body once a length is known. *)
LEMMA ReadOutcome ==
  ASSUME NEW rd, NEW ctx, NEW o \in try_read(rd, ctx)
  PROVE  \/ rd.read_len # 0 /\ o \in try_read_body(rd, ctx)
         \/ /\ rd.read_len = 0
            /\ \E h \in try_read_header(rd, ctx) :
                 \/ h.res = None /\ h.reader.read_len > 0 /\ o \in try_read_body(h.reader, ctx)
                 \/ ~(h.res = None /\ h.reader.read_len > 0) /\ o = h
BY DEF try_read

(* A header decrypts to a length of 32 bits, if at all. *)
LEMMA HeaderType ==
  ASSUME NEW F, FrameSet(F), NEW c \in Seq(Cells(F)), Len(c) # 0, NEW ctx,
         NEW n \in decrypt_len(c, ctx), n # Failed
  PROVE  n \in 0 .. U32 - 1 /\ n \in Nat
<1>1. U32 \in Nat \ {0}
  BY CryptoAssumption DEF CryptoAssumption
<1>2. c[1].frame.len \in Nat
  <2>1. 1 \in 1 .. Len(c)
    OBVIOUS
  <2>2. c[1].frame \in F
    BY <2>1, LineTypes
  <2> QED
    BY <2>2 DEF FrameSet
<1>3. n = c[1].frame.len % U32 \/ n \in 0 .. U32 - 1
  BY DEF decrypt_len
<1> HIDE DEF Failed
<1> QED
  BY <1>1, <1>2, <1>3

(* A body decrypts to the id of a message or to garbage, if at all. *)
LEMMA BodyType ==
  ASSUME NEW F, FrameSet(F), NEW c \in Seq(Cells(F)), Len(c) # 0, NEW ctx,
         NEW id \in decrypt_msg(c, ctx), id # Failed
  PROVE  id \in Nat
<1>1. c[1].frame.id \in Nat
  <2>1. 1 \in 1 .. Len(c)
    OBVIOUS
  <2>2. c[1].frame \in F
    BY <2>1, LineTypes
  <2> QED
    BY <2>2 DEF FrameSet
<1> QED
  BY <1>1 DEF decrypt_msg, Garbage

(* try_read takes bytes off the front of the buffer, if any. *)
LEMMA HeaderShape ==
  ASSUME NEW F, FrameSet(F), NEW rd \in Readers(F), NEW ctx, NEW o \in try_read_header(rd, ctx)
  PROVE  /\ o.reader \in Readers(F)
         /\ \E k \in 0 .. Len(rd.read_buffer) :
              o.reader.read_buffer = SubSeq(rd.read_buffer, k + 1, Len(rd.read_buffer))
         /\ o.res \in {None, Err("Crypto"), Err("PayloadSizeProhibitive")}
<1> DEFINE b == rd.read_buffer
           h == encrypted_size_len(ctx)
<1>1. b \in Seq(Cells(F)) /\ Len(b) \in Nat /\ h \in Nat \ {0} /\ rd.read_len \in Nat
  BY HeaderLen DEF Readers
<1>2. 0 \in 0 .. Len(b) /\ b = SubSeq(b, 0 + 1, Len(b))
  BY <1>1, SubSeqFull
<1>4. ASSUME ~(Len(b) < h), NEW n \in decrypt_len(SubSeq(b, 1, h), ctx), n = Failed,
             o = [res |-> Err("Crypto"), reader |-> rd]
      PROVE  /\ o.res = Err("Crypto") /\ o.reader \in Readers(F)
             /\ o.reader.read_buffer = SubSeq(b, 0 + 1, Len(b))
  <2>1. o.res = Err("Crypto") /\ o.reader = rd
    BY <1>4
  <2> QED
    BY <1>2, <2>1
<1>5. ASSUME ~(Len(b) < h), NEW n \in decrypt_len(SubSeq(b, 1, h), ctx), n # Failed
      PROVE  n \in Nat /\ h \in 0 .. Len(b) /\ SubSeq(b, h + 1, Len(b)) \in Seq(Cells(F))
  <2>1. h \in 0 .. Len(b)
    BY <1>1, <1>5
  <2>2. /\ SubSeq(b, 1, h) \in Seq(Cells(F)) /\ Len(SubSeq(b, 1, h)) = h
        /\ SubSeq(b, h + 1, Len(b)) \in Seq(Cells(F))
    BY <1>1, <2>1, PartShape
  <2>3. Len(SubSeq(b, 1, h)) # 0
    BY <1>1, <2>2
  <2> QED
    BY <1>5, <2>1, <2>2, <2>3, HeaderType
<1>6. ASSUME ~(Len(b) < h), NEW n \in decrypt_len(SubSeq(b, 1, h), ctx), n # Failed,
             o = [res |-> Err("PayloadSizeProhibitive"), reader |-> [rd EXCEPT !.read_len = n]]
      PROVE  /\ o.res = Err("PayloadSizeProhibitive") /\ o.reader \in Readers(F)
             /\ o.reader.read_buffer = SubSeq(b, 0 + 1, Len(b))
  <2>1. n \in Nat
    BY <1>5, <1>6
  <2>2. /\ o.res = Err("PayloadSizeProhibitive") /\ o.reader = [rd EXCEPT !.read_len = n]
    BY <1>6
  <2>3. o.reader \in Readers(F) /\ o.reader.read_buffer = b
    BY <2>1, <2>2 DEF Readers
  <2> QED
    BY <1>2, <2>2, <2>3
<1>7. ASSUME ~(Len(b) < h), NEW n \in decrypt_len(SubSeq(b, 1, h), ctx), n # Failed,
             o = [res |-> None, reader |-> [read_buffer |-> SubSeq(b, h + 1, Len(b)), read_len |-> n]]
      PROVE  /\ o.res = None /\ o.reader \in Readers(F) /\ h \in 0 .. Len(b)
             /\ o.reader.read_buffer = SubSeq(b, h + 1, Len(b))
  <2>1. n \in Nat /\ h \in 0 .. Len(b) /\ SubSeq(b, h + 1, Len(b)) \in Seq(Cells(F))
    BY <1>5, <1>7
  <2>2. o.res = None /\ o.reader = [read_buffer |-> SubSeq(b, h + 1, Len(b)), read_len |-> n]
    BY <1>7
  <2> HIDE DEF h
  <2>3. o.reader \in Readers(F) /\ o.reader.read_buffer = SubSeq(b, h + 1, Len(b))
    BY <2>1, <2>2 DEF Readers
  <2> QED
    BY <2>1, <2>2, <2>3
<1> HIDE DEF b, h
<1>8. \/ Len(b) < h /\ o = [res |-> None, reader |-> rd]
      \/ /\ ~(Len(b) < h)
         /\ \E n \in decrypt_len(SubSeq(b, 1, h), ctx) :
              \/ n = Failed /\ o = [res |-> Err("Crypto"), reader |-> rd]
              \/ /\ n # Failed
                 /\ o = [res |-> Err("PayloadSizeProhibitive"),
                         reader |-> [rd EXCEPT !.read_len = n]]
              \/ /\ n # Failed
                 /\ o = [res |-> None,
                         reader |-> [read_buffer |-> SubSeq(b, h + 1, Len(b)), read_len |-> n]]
  BY HeaderOutcome DEF b, h
<1> DEFINE Taken == \E k \in 0 .. Len(b) : o.reader.read_buffer = SubSeq(b, k + 1, Len(b))
<1>9. o.reader \in Readers(F) /\ Taken /\ o.res \in {None, Err("Crypto"), Err("PayloadSizeProhibitive")}
  <2>1. CASE Len(b) < h /\ o = [res |-> None, reader |-> rd]
    <3>1. o.res = None /\ o.reader = rd
      BY <2>1
    <3>2. o.reader.read_buffer = SubSeq(b, 0 + 1, Len(b))
      BY <1>2, <3>1 DEF b
    <3> QED
      BY <1>2, <3>1, <3>2
  <2>2. ASSUME ~(Len(b) < h), NEW n \in decrypt_len(SubSeq(b, 1, h), ctx), n = Failed,
               o = [res |-> Err("Crypto"), reader |-> rd]
        PROVE  o.reader \in Readers(F) /\ Taken /\ o.res = Err("Crypto")
    BY <1>2, <1>4, <2>2
  <2>3. ASSUME ~(Len(b) < h), NEW n \in decrypt_len(SubSeq(b, 1, h), ctx), n # Failed,
               o = [res |-> Err("PayloadSizeProhibitive"), reader |-> [rd EXCEPT !.read_len = n]]
        PROVE  o.reader \in Readers(F) /\ Taken /\ o.res = Err("PayloadSizeProhibitive")
    BY <1>2, <1>6, <2>3
  <2>4. ASSUME ~(Len(b) < h), NEW n \in decrypt_len(SubSeq(b, 1, h), ctx), n # Failed,
               o = [res |-> None, reader |-> [read_buffer |-> SubSeq(b, h + 1, Len(b)), read_len |-> n]]
        PROVE  o.reader \in Readers(F) /\ Taken /\ o.res = None
    BY <1>7, <2>4
  <2> HIDE DEF Taken
  <2> QED
    BY <1>8, <2>1, <2>2, <2>3, <2>4
<1> QED
  BY <1>9 DEF b
(* The same for the body, which is decrypted before it is taken. *)
LEMMA BodyShape ==
  ASSUME NEW F, FrameSet(F), NEW rd \in Readers(F), rd.read_len # 0, NEW ctx,
         NEW o \in try_read_body(rd, ctx)
  PROVE  /\ o.reader \in Readers(F)
         /\ \E k \in 0 .. Len(rd.read_buffer) :
              o.reader.read_buffer = SubSeq(rd.read_buffer, k + 1, Len(rd.read_buffer))
         /\ \/ o.res \in {None, Err("Crypto")}
            \/ \E id \in Nat : o.res = Some(id, rd.read_len)
<1> DEFINE b == rd.read_buffer
           l == rd.read_len
           Taken == \E k \in 0 .. Len(b) : o.reader.read_buffer = SubSeq(b, k + 1, Len(b))
<1>1. b \in Seq(Cells(F)) /\ Len(b) \in Nat /\ l \in Nat \ {0}
  BY DEF Readers
<1>2. 0 \in 0 .. Len(b) /\ b = SubSeq(b, 0 + 1, Len(b))
  BY <1>1, SubSeqFull
<1>3. ASSUME o.reader = rd PROVE o.reader \in Readers(F) /\ Taken
  <2>1. o.reader.read_buffer = SubSeq(b, 0 + 1, Len(b))
    BY <1>2, <1>3
  <2> QED
    BY <1>2, <1>3, <2>1
<1> HIDE DEF b, l
<1>4. \/ l > Len(b) /\ o = [res |-> None, reader |-> rd]
      \/ /\ ~(l > Len(b))
         /\ \E id \in decrypt_msg(SubSeq(b, 1, l), ctx) :
              \/ id = Failed /\ o = [res |-> Err("Crypto"), reader |-> rd]
              \/ /\ id # Failed
                 /\ o = [res |-> Some(id, l),
                         reader |-> [read_buffer |-> SubSeq(b, l + 1, Len(b)), read_len |-> 0]]
  BY BodyOutcome DEF b, l
<1>5. CASE l > Len(b) /\ o = [res |-> None, reader |-> rd]
  <2>1. o.res = None /\ o.reader = rd
    BY <1>5
  <2> QED
    BY <1>3, <2>1 DEF b, l
<1>6. CASE o = [res |-> Err("Crypto"), reader |-> rd]
  <2>1. o.res = Err("Crypto") /\ o.reader = rd
    BY <1>6
  <2> QED
    BY <1>3, <2>1 DEF b, l
<1>7. ASSUME ~(l > Len(b)), NEW id \in decrypt_msg(SubSeq(b, 1, l), ctx), id # Failed,
             o = [res |-> Some(id, l),
                  reader |-> [read_buffer |-> SubSeq(b, l + 1, Len(b)), read_len |-> 0]]
      PROVE  o.reader \in Readers(F) /\ Taken /\ id \in Nat /\ o.res = Some(id, l)
  <2>1. l \in 0 .. Len(b)
    BY <1>1, <1>7
  <2>2. /\ SubSeq(b, 1, l) \in Seq(Cells(F)) /\ Len(SubSeq(b, 1, l)) = l
        /\ SubSeq(b, l + 1, Len(b)) \in Seq(Cells(F))
    BY <1>1, <2>1, PartShape
  <2>3. Len(SubSeq(b, 1, l)) # 0
    BY <1>1, <2>2
  <2>4. id \in Nat
    BY <1>7, <2>2, <2>3, BodyType
  <2>5. o.res = Some(id, l) /\ o.reader = [read_buffer |-> SubSeq(b, l + 1, Len(b)), read_len |-> 0]
    BY <1>7
  <2>6. o.reader \in Readers(F) /\ o.reader.read_buffer = SubSeq(b, l + 1, Len(b))
    <3> DEFINE e == SubSeq(b, l + 1, Len(b))
    <3>1. e \in Seq(Cells(F)) /\ o.reader = [read_buffer |-> e, read_len |-> 0]
      BY <2>2, <2>5
    <3> HIDE DEF e
    <3>2. o.reader \in Readers(F) /\ o.reader.read_buffer = e
      BY <3>1 DEF Readers
    <3> QED
      BY <3>2 DEF e
  <2> QED
    BY <2>1, <2>4, <2>5, <2>6
<1> HIDE DEF Taken
<1>8. \/ o.reader \in Readers(F) /\ Taken /\ o.res \in {None, Err("Crypto")}
      \/ o.reader \in Readers(F) /\ Taken /\ \E id \in Nat : o.res = Some(id, l)
  <2>1. CASE \E id \in decrypt_msg(SubSeq(b, 1, l), ctx) :
               /\ ~(l > Len(b)) /\ id # Failed
               /\ o = [res |-> Some(id, l),
                       reader |-> [read_buffer |-> SubSeq(b, l + 1, Len(b)), read_len |-> 0]]
    BY <1>7, <2>1
  <2>2. CASE o.reader = rd /\ o.res \in {None, Err("Crypto")}
    BY <1>3, <2>2
  <2> QED
    BY <1>4, <1>5, <1>6, <2>1, <2>2
<1> QED
  BY <1>8 DEF b, l, Taken

(* Bytes taken off the front twice. *)
LEMMA SuffixTwice ==
  ASSUME NEW C, NEW s \in Seq(C), NEW k \in 0 .. Len(s),
         NEW j \in 0 .. Len(SubSeq(s, k + 1, Len(s)))
  PROVE  LET t == SubSeq(s, k + 1, Len(s))
         IN  /\ k + j \in 0 .. Len(s)
             /\ SubSeq(t, j + 1, Len(t)) = SubSeq(s, (k + j) + 1, Len(s))
<1> DEFINE t == SubSeq(s, k + 1, Len(s))
           l == Len(s)
           u == SubSeq(t, j + 1, Len(t))
           v == SubSeq(s, (k + j) + 1, Len(s))
<1>1. t \in Seq(C) /\ Len(t) = l - k /\ \A i \in 1 .. l - k : t[i] = s[k + i]
  BY PartShape
<1>2. l \in Nat /\ k \in 0 .. l /\ j \in 0 .. l - k
  BY <1>1
<1>3. k + j \in 0 .. l
  BY <1>2
<1>4. v \in Seq(C) /\ Len(v) = l - (k + j) /\ \A i \in 1 .. l - (k + j) : v[i] = s[(k + j) + i]
  BY <1>3, PartShape
<1>5. u \in Seq(C) /\ Len(u) = Len(t) - j /\ \A i \in 1 .. Len(t) - j : u[i] = t[j + i]
  <2>1. j \in 0 .. Len(t)
    OBVIOUS
  <2> HIDE DEF t
  <2> QED
    BY <1>1, <2>1, PartShape
<1> HIDE DEF t, l, u, v
<1>6. Len(u) = Len(v) /\ Len(u) = l - (k + j)
  BY <1>1, <1>2, <1>4, <1>5
<1>7. ASSUME NEW i \in 1 .. l - (k + j) PROVE u[i] = v[i]
  <2>1. i \in 1 .. (l - k) - j /\ j + i \in 1 .. l - k /\ k + (j + i) = (k + j) + i
    BY <1>2
  <2> QED
    BY <1>1, <1>4, <1>5, <2>1
<1>8. u = v
  BY <1>4, <1>5, <1>6, <1>7, SeqEqual
<1> QED
  BY <1>3, <1>8 DEF t, l, u, v

(* What one call of try_read does, whatever is in the buffer. *)
LEMMA ReadShape ==
  ASSUME NEW F, FrameSet(F), NEW rd \in Readers(F), NEW ctx, NEW o \in try_read(rd, ctx)
  PROVE  /\ o.reader \in Readers(F)
         /\ \E k \in 0 .. Len(rd.read_buffer) :
              o.reader.read_buffer = SubSeq(rd.read_buffer, k + 1, Len(rd.read_buffer))
         /\ \/ o.res \in {None, Err("Crypto"), Err("PayloadSizeProhibitive")}
            \/ \E id, size \in Nat : o.res = Some(id, size)
<1>1. rd.read_len \in Nat /\ rd.read_buffer \in Seq(Cells(F))
  BY DEF Readers
<1>2. CASE rd.read_len # 0 /\ o \in try_read_body(rd, ctx)
  BY <1>1, <1>2, BodyShape
<1>3. ASSUME NEW h \in try_read_header(rd, ctx), o = h
      PROVE  /\ o.reader \in Readers(F)
             /\ \E k \in 0 .. Len(rd.read_buffer) :
                  o.reader.read_buffer = SubSeq(rd.read_buffer, k + 1, Len(rd.read_buffer))
             /\ o.res \in {None, Err("Crypto"), Err("PayloadSizeProhibitive")}
  BY <1>3, HeaderShape
<1>4. ASSUME NEW h \in try_read_header(rd, ctx), h.reader.read_len > 0,
             o \in try_read_body(h.reader, ctx)
      PROVE  /\ o.reader \in Readers(F)
             /\ \E k \in 0 .. Len(rd.read_buffer) :
                  o.reader.read_buffer = SubSeq(rd.read_buffer, k + 1, Len(rd.read_buffer))
             /\ \/ o.res \in {None, Err("Crypto"), Err("PayloadSizeProhibitive")}
                \/ \E id, size \in Nat : o.res = Some(id, size)
  <2> DEFINE b == rd.read_buffer
             c == h.reader.read_buffer
  <2>1. h.reader \in Readers(F)
    BY HeaderShape
  <2>2. PICK k \in 0 .. Len(b) : c = SubSeq(b, k + 1, Len(b))
    BY HeaderShape
  <2>3. h.reader.read_len \in Nat /\ h.reader.read_len # 0
    BY <1>4, <2>1 DEF Readers
  <2>4. /\ o.reader \in Readers(F)
        /\ \E j \in 0 .. Len(c) : o.reader.read_buffer = SubSeq(c, j + 1, Len(c))
        /\ \/ o.res \in {None, Err("Crypto")}
           \/ \E id \in Nat : o.res = Some(id, h.reader.read_len)
    <3> DEFINE g == h.reader
    <3>1. g \in Readers(F) /\ g.read_len # 0 /\ o \in try_read_body(g, ctx)
      BY <1>4, <2>1, <2>3
    <3> HIDE DEF g
    <3>2. /\ o.reader \in Readers(F)
          /\ \E j \in 0 .. Len(g.read_buffer) :
               o.reader.read_buffer = SubSeq(g.read_buffer, j + 1, Len(g.read_buffer))
          /\ o.res \in {None, Err("Crypto")} \/ \E id \in Nat : o.res = Some(id, g.read_len)
      BY <3>1, BodyShape
    <3> QED
      BY <3>2 DEF g
  <2>5. PICK j \in 0 .. Len(c) : o.reader.read_buffer = SubSeq(c, j + 1, Len(c))
    BY <2>4
  <2>6. k + j \in 0 .. Len(b) /\ o.reader.read_buffer = SubSeq(b, (k + j) + 1, Len(b))
    BY <1>1, <2>2, <2>5, SuffixTwice
  <2> QED
    BY <2>3, <2>4, <2>6
<1> QED
  BY <1>2, <1>3, <1>4, ReadOutcome

-----------------------------------------------------------------------------
(* Where the reader stands on a line s: W was written, and n messages were  *)
(* delivered.                                                               *)

(* The first byte c is one of the next frame: of its header, or of its body *)
(* when the length len is known.                                            *)
AtFrame(c, W, n, len) ==
  /\ n < Len(W) => c.frame = W[n + 1]
  /\ n = Len(W) => c.frame \notin Done(W)
  /\ \/ len = 0 /\ c.k = 1
     \/ len = c.frame.len % U32 /\ c.k = encrypted_size_len(c.frame.ctx) + 1

(* The frames written and not delivered are on the line to their ends. *)
Ahead(s, W, n) ==
  \A j \in n + 1 .. Len(W) : \E i \in 1 .. Len(s) : s[i].frame = W[j] /\ AtEnd(s[i])

Position(s, W, n, len, live, whole) ==
  /\ n \in 0 .. Len(W) /\ len \in Nat /\ len <= max_payload_size
  /\ s # <<>> => AtFrame(s[1], W, n, len)
  /\ live /\ s = <<>> => n = Len(W) /\ len = 0
  /\ whole => Ahead(s, W, n)

(* No header says that the body is empty. *)
Bodies(F) == \A f \in F : f.len % U32 # 0

(* A header that says so is that of an empty body. *)
Fits(F) == \A f \in F : f.len % U32 = 0 => f.len = 0

(* A context that can tell whether it is given bytes of frame f. *)
Tells(ctx, f) ==
  \/ ctx # NullCtx /\ f.ctx # NullCtx
  \/ f.ctx = ctx /\ f.len < U32

(* A context that decrypts frame f. *)
Decrypts(ctx, f) == f.ctx = ctx /\ f.len < U32

(* The frames of F that may be the next one the reader meets. *)
Coming(F, W, n) ==
  {f \in F : (n < Len(W) => f = W[n + 1]) /\ (n = Len(W) => f \notin Done(W))}

Told(F, ctx, W, n) == \A f \in Coming(F, W, n) : Tells(ctx, f)

(* The reader stands at a frame that its context does not decrypt. *)
Foreign(F, ctx, W, n) == \E f \in Coming(F, W, n) : ~Decrypts(ctx, f)

(* A frame taken from the queue begins. *)
LEMMA PositionBegin ==
  ASSUME NEW F, FrameSet(F), NEW s \in Seq(Cells(F)), NEW W, NEW n, NEW len, NEW whole \in BOOLEAN,
         Position(s, W, n, len, TRUE, whole),
         NEW d, IsRest(d, F), d[1].k = 1, d[1].frame \notin Done(W)
  PROVE  Position(s \o d, W, n, len, TRUE, whole)
<1> DEFINE t == s \o d
<1>1. d \in Seq(Cells(F)) /\ d # <<>>
  BY DEF IsRest
<1>2. /\ t \in Seq(Cells(F)) /\ Len(t) = Len(s) + Len(d) /\ Len(s) \in Nat /\ Len(d) \in Nat
      /\ \A i \in 1 .. Len(s) : t[i] = s[i]
      /\ \A i \in 1 .. Len(d) : t[Len(s) + i] = d[i]
  BY <1>1, ConcatParts
<1>3. Len(d) # 0 /\ (s = <<>> <=> Len(s) = 0)
  BY <1>1
<1> HIDE DEF t
<1>4. AtFrame(t[1], W, n, len) /\ t # <<>>
  <2>1. CASE s # <<>>
    <3>1. t[1] = s[1] /\ Len(t) # 0
      BY <1>2, <1>3, <2>1
    <3> QED
      BY <1>2, <2>1, <3>1 DEF Position
  <2>2. CASE s = <<>>
    <3>1. t[0 + 1] = d[1] /\ Len(t) # 0
      BY <1>2, <1>3, <2>2
    <3>2. n = Len(W) /\ len = 0
      BY <2>2 DEF Position
    <3>3. Len(W) \in Nat
      BY <3>2 DEF Position
    <3> QED
      BY <1>2, <3>1, <3>2, <3>3 DEF AtFrame
  <2> QED
    BY <2>1, <2>2
<1>5. ASSUME Ahead(s, W, n) PROVE Ahead(t, W, n)
  <2>1. \A i \in 1 .. Len(s) : i \in 1 .. Len(t) /\ t[i] = s[i]
    BY <1>2
  <2> QED
    BY <1>5, <2>1 DEF Ahead
<1> QED
  BY <1>4, <1>5 DEF Position, t

(* The frame being written is written to the end. *)
LEMMA PositionComplete ==
  ASSUME NEW F, FrameSet(F), NEW s, s # <<>>, NEW W, NEW n, NEW len, NEW whole \in BOOLEAN,
         NEW f \in F, f \notin Done(W), LineInv(F, s, W, TRUE, {f}),
         Position(s, W, n, len, TRUE, whole)
  PROVE  Position(s, Append(W, f), n, len, TRUE, whole)
<1> DEFINE V == Append(W, f)
           m == Len(W)
<1>1. W \in Seq(F) /\ s \in Seq(Cells(F)) /\ EndsWhole(s, W, {f})
  BY DEF LineInv
<1>2. m \in Nat /\ Len(V) = m + 1 /\ V[m + 1] = f /\ \A i \in 1 .. m : V[i] = W[i]
  BY <1>1, AppendProperties
<1>3. Len(s) \in 1 .. Len(s) /\ 1 \in 1 .. Len(s)
  BY <1>1
<1>4. s[Len(s)].frame = f /\ AtEnd(s[Len(s)]) /\ s[1].frame \in Done(W) \cup {f}
  BY <1>1, <1>3 DEF EndsWhole
<1>5. n \in 0 .. m /\ AtFrame(s[1], W, n, len)
  BY DEF Position
<1> HIDE DEF V
<1>6. AtFrame(s[1], V, n, len)
  <2>1. s[1].frame = V[n + 1]
    <3>1. CASE n < m
      <4>1. n + 1 \in 1 .. m
        BY <1>2, <1>5, <3>1
      <4> QED
        BY <1>2, <1>5, <3>1, <4>1 DEF AtFrame
    <3>2. CASE n = m
      BY <1>2, <1>4, <1>5, <3>2 DEF AtFrame
    <3> QED
      BY <1>2, <1>5, <3>1, <3>2
  <2>2. n # Len(V)
    BY <1>2, <1>5
  <2> QED
    BY <1>5, <2>1, <2>2 DEF AtFrame
<1>7. ASSUME Ahead(s, W, n) PROVE Ahead(s, V, n)
  <2> SUFFICES ASSUME NEW j \in n + 1 .. Len(V)
               PROVE  \E i \in 1 .. Len(s) : s[i].frame = V[j] /\ AtEnd(s[i])
    BY DEF Ahead
  <2>1. CASE j = m + 1
    BY <1>2, <1>3, <1>4, <2>1
  <2>2. CASE j # m + 1
    <3>1. j \in n + 1 .. m /\ j \in 1 .. m
      BY <1>2, <1>5, <2>2
    <3> QED
      BY <1>2, <1>7, <3>1 DEF Ahead
  <2> QED
    BY <2>1, <2>2
<1>8. n \in 0 .. Len(V)
  BY <1>2, <1>5
<1> QED
  BY <1>6, <1>7, <1>8 DEF Position, V

(* The end of the line is cut off; what is whole stays, if what is cut off  *)
(* is none of it.                                                           *)
LEMMA PositionCut ==
  ASSUME NEW C, NEW s \in Seq(C), NEW W, NEW n, NEW len, NEW live \in BOOLEAN,
         NEW whole \in BOOLEAN, Position(s, W, n, len, live, whole),
         NEW k \in 0 .. Len(s), NEW still \in BOOLEAN,
         still => whole /\ \A i \in 1 .. Len(s) : i <= k \/ s[i].frame \notin Done(W)
  PROVE  Position(SubSeq(s, 1, k), W, n, len, FALSE, still)
<1> DEFINE t == SubSeq(s, 1, k)
<1>1. t \in Seq(C) /\ Len(t) = k /\ \A i \in 1 .. k : t[i] = s[i]
  BY PartShape
<1> HIDE DEF t
<1>2. ASSUME t # <<>> PROVE AtFrame(t[1], W, n, len)
  <2>1. t[1] = s[1] /\ s # <<>>
    BY <1>1, <1>2
  <2> QED
    BY <2>1 DEF Position
<1>3. ASSUME still PROVE Ahead(t, W, n)
  <2> SUFFICES ASSUME NEW j \in n + 1 .. Len(W)
               PROVE  \E i \in 1 .. Len(t) : t[i].frame = W[j] /\ AtEnd(t[i])
    BY DEF Ahead
  <2>1. PICK i \in 1 .. Len(s) : s[i].frame = W[j] /\ AtEnd(s[i])
    BY <1>3 DEF Position, Ahead
  <2>2. j \in 1 .. Len(W)
    BY DEF Position
  <2>3. W[j] \in Done(W)
    BY <2>2 DEF Done
  <2>4. i \in 1 .. k
    BY <1>3, <2>1, <2>3
  <2> QED
    BY <1>1, <2>1, <2>4
<1> QED
  BY <1>2, <1>3 DEF Position, t

(* The bytes of the frame at the front of a line: as many as are there, up  *)
(* to its end, and a byte of its end is not before them.                    *)
LEMMA FrontOfFrame ==
  ASSUME NEW F, FrameSet(F), NEW s \in Seq(Cells(F)), s # <<>>, Unbroken(s)
  PROVE  LET f == s[1].frame
             k == s[1].k
         IN  /\ f \in F /\ k \in 1 .. FrameLen(f) /\ FrameLen(f) \in Nat /\ 1 \in 1 .. Len(s)
             /\ \A i \in 1 .. Len(s) :
                  k + i - 1 <= FrameLen(f) => s[i] = [frame |-> f, k |-> k + i - 1]
             /\ \A i \in 1 .. Len(s) : k + i - 1 < FrameLen(f) => ~AtEnd(s[i])
             /\ \A i \in 1 .. Len(s) : k + i - 1 = FrameLen(f) => AtEnd(s[i])
<1> DEFINE f == s[1].frame
           k == s[1].k
           l == FrameLen(f)
<1>1. Len(s) \in Nat /\ 1 \in 1 .. Len(s)
  OBVIOUS
<1>2. f \in F /\ l \in Nat
  BY <1>1, LineTypes
<1>3. k \in 1 .. l
  BY <1>1 DEF Unbroken
<1>4. ASSUME NEW i \in 1 .. Len(s), k + i - 1 <= l
      PROVE  s[i] = [frame |-> f, k |-> k + i - 1]
  <2>1. \A j \in 1 .. Len(s) : 1 <= j /\ k + (j - 1) <= l => s[j] = [frame |-> f, k |-> k + (j - 1)]
    BY <1>1 DEF Unbroken
  <2>2. 1 <= i /\ k + (i - 1) = k + i - 1
    BY <1>1, <1>3
  <2> QED
    BY <1>4, <2>1, <2>2
<1> HIDE DEF f, k, l
<1>5. ASSUME NEW i \in 1 .. Len(s), k + i - 1 <= l
      PROVE  AtEnd(s[i]) <=> k + i - 1 = l
  <2>1. s[i] = [frame |-> f, k |-> k + i - 1]
    BY <1>4, <1>5
  <2>2. s[i].frame = f /\ s[i].k = k + i - 1
    BY <2>1
  <2> QED
    BY <2>2 DEF AtEnd, l
<1>6. \A i \in 1 .. Len(s) : k + i - 1 \in Int /\ (k + i - 1 < l \/ k + i - 1 = l => k + i - 1 <= l)
      /\ (k + i - 1 < l => k + i - 1 # l)
  BY <1>2, <1>3
<1> QED
  BY <1>1, <1>2, <1>3, <1>4, <1>5, <1>6 DEF f, k, l

(* What is behind the first k bytes of a line, and where it stands.         *)
LEMMA AheadSuffix ==
  ASSUME NEW C, NEW s \in Seq(C), NEW W, NEW n, NEW m, NEW k \in 0 .. Len(s), Ahead(s, W, n),
         n \in Nat, m \in Nat, n <= m,
         \A i \in 1 .. Len(s) : i <= k /\ AtEnd(s[i]) =>
           \A j \in m + 1 .. Len(W) : s[i].frame # W[j]
  PROVE  Ahead(SubSeq(s, k + 1, Len(s)), W, m)
<1> DEFINE t == SubSeq(s, k + 1, Len(s))
<1>1. t \in Seq(C) /\ Len(t) = Len(s) - k /\ \A i \in 1 .. Len(s) - k : t[i] = s[k + i]
  BY PartShape
<1> HIDE DEF t
<1> SUFFICES ASSUME NEW j \in m + 1 .. Len(W)
             PROVE  \E i \in 1 .. Len(t) : t[i].frame = W[j] /\ AtEnd(t[i])
  BY DEF Ahead, t
<1>2. j \in n + 1 .. Len(W)
  OBVIOUS
<1>3. PICK i \in 1 .. Len(s) : s[i].frame = W[j] /\ AtEnd(s[i])
  BY <1>2 DEF Ahead
<1>4. ~(i <= k)
  BY <1>3
<1>5. i - k \in 1 .. Len(s) - k /\ k + (i - k) = i
  BY <1>4
<1> QED
  BY <1>1, <1>3, <1>5

(* The reader takes a header.                                               *)
LEMMA HeaderTaken ==
  ASSUME NEW F, FrameSet(F), NEW s, NEW W, NEW live \in BOOLEAN, NEW P,
         LineInv(F, s, W, live, P), NEW n, NEW whole \in BOOLEAN,
         Position(s, W, n, 0, live, whole), s # <<>>, s[1].k = 1,
         NEW h, h = encrypted_size_len(s[1].frame.ctx), h <= Len(s),
         s[1].frame.len % U32 # 0, s[1].frame.len % U32 <= max_payload_size
  PROVE  /\ h \in 0 .. Len(s) /\ s[1].frame.len % U32 \in Nat \ {0}
         /\ \A i \in 1 .. h : s[i] = [frame |-> s[1].frame, k |-> i]
         /\ Position(SubSeq(s, h + 1, Len(s)), W, n, s[1].frame.len % U32, live, whole)
<1> DEFINE f == s[1].frame
           b == f.len % U32
           t == SubSeq(s, h + 1, Len(s))
<1>1. s \in Seq(Cells(F)) /\ Unbroken(s) /\ (live => EndsWhole(s, W, P))
  BY DEF LineInv
<1>2. /\ f \in F /\ FrameLen(f) \in Nat /\ 1 \in 1 .. Len(s)
      /\ \A i \in 1 .. Len(s) :
           s[1].k + i - 1 <= FrameLen(f) => s[i] = [frame |-> f, k |-> s[1].k + i - 1]
      /\ \A i \in 1 .. Len(s) : s[1].k + i - 1 < FrameLen(f) => ~AtEnd(s[i])
  BY <1>1, FrontOfFrame
<1>3. f.len \in Nat /\ U32 \in Nat \ {0} /\ h \in Nat \ {0} /\ b # 0
  BY <1>2, CryptoAssumption, HeaderLen DEF FrameSet, CryptoAssumption
<1>4. b \in Nat /\ b <= f.len
  BY <1>3
<1>5. FrameLen(f) = h + f.len /\ h < FrameLen(f) /\ h \in 0 .. Len(s) /\ Len(s) \in Nat
  BY <1>1, <1>3, <1>4 DEF FrameLen
<1>6. AtFrame(s[1], W, n, 0)
  BY DEF Position
<1>7. s[1].k = 1
  OBVIOUS
<1> HIDE DEF b
<1>8. \A i \in 1 .. h : s[i] = [frame |-> f, k |-> i] /\ ~AtEnd(s[i])
  <2> SUFFICES ASSUME NEW i \in 1 .. h PROVE s[i] = [frame |-> f, k |-> i] /\ ~AtEnd(s[i])
    OBVIOUS
  <2>1. i \in 1 .. Len(s) /\ 1 + i - 1 = i /\ i <= FrameLen(f) /\ i < FrameLen(f)
    BY <1>2, <1>5
  <2> QED
    BY <1>2, <1>7, <2>1
<1>9. t \in Seq(Cells(F)) /\ Len(t) = Len(s) - h /\ \A i \in 1 .. Len(s) - h : t[i] = s[h + i]
  BY <1>1, <1>5, PartShape
<1> HIDE DEF t
<1>10. ASSUME t # <<>> PROVE AtFrame(t[1], W, n, b)
  <2>1. 1 \in 1 .. Len(s) - h /\ h + 1 \in 1 .. Len(s)
    BY <1>3, <1>5, <1>9, <1>10
  <2>2. t[1] = s[h + 1]
    BY <1>9, <2>1
  <2>3. 1 + (h + 1) - 1 = h + 1 /\ h + 1 <= FrameLen(f)
    BY <1>2, <1>3, <1>5
  <2>4. t[1] = [frame |-> f, k |-> h + 1]
    BY <1>2, <1>7, <2>1, <2>2, <2>3
  <2>5. t[1].frame = f /\ t[1].k = h + 1
    BY <2>4
  <2> HIDE DEF f
  <2>6. b = t[1].frame.len % U32 /\ t[1].k = encrypted_size_len(t[1].frame.ctx) + 1
    BY <2>5 DEF b, f
  <2>7. /\ n < Len(W) => f = W[n + 1]
        /\ n = Len(W) => f \notin Done(W)
    BY <1>6 DEF AtFrame, f
  <2> QED
    BY <2>5, <2>6, <2>7 DEF AtFrame
<1>11. ASSUME live PROVE t # <<>>
  <2>1. AtEnd(s[Len(s)])
    BY <1>1, <1>11 DEF EndsWhole
  <2>2. ~AtEnd(s[h])
    <3>1. h \in 1 .. h
      BY <1>3
    <3> QED
      BY <1>8, <3>1
  <2>3. Len(s) # h
    BY <2>1, <2>2
  <2>4. Len(t) # 0
    BY <1>5, <1>9, <2>3
  <2> QED
    BY <2>4
<1>12. n \in 0 .. Len(W)
  BY DEF Position
<1>13. ASSUME whole PROVE Ahead(t, W, n)
  <2>1. Ahead(s, W, n)
    BY <1>13 DEF Position
  <2>2. \A i \in 1 .. Len(s) : i <= h => i \in 1 .. h
    BY <1>5
  <2> HIDE DEF t, f
  <2>3. \A i \in 1 .. Len(s) : i <= h /\ AtEnd(s[i]) => \A j \in n + 1 .. Len(W) : s[i].frame # W[j]
    BY <1>8, <2>2
  <2>4. n \in Nat /\ n <= n
    BY <1>12
  <2> QED
    BY <1>1, <1>5, <2>1, <2>3, <2>4, AheadSuffix DEF t
<1>14. Position(t, W, n, b, live, whole)
  <2> HIDE DEF t
  <2>1. b <= max_payload_size
    BY DEF b
  <2> QED
    BY <1>4, <1>10, <1>11, <1>12, <1>13, <2>1 DEF Position
<1> QED
  BY <1>3, <1>4, <1>5, <1>8, <1>14 DEF b, t

(* The reader takes the last m bytes of a frame: it is the next one written. *)
LEMMA FrameEnds ==
  ASSUME NEW F, FrameSet(F), NEW s, NEW W, NEW live \in BOOLEAN, NEW P,
         LineInv(F, s, W, live, P), NEW n, NEW len, NEW whole \in BOOLEAN,
         Position(s, W, n, len, live, whole), s # <<>>,
         NEW m \in Nat \ {0}, s[1].k + m - 1 = FrameLen(s[1].frame), m <= Len(s),
         live /\ P # {} => m # Len(s)
  PROVE  /\ m \in 0 .. Len(s)
         /\ n + 1 \in 1 .. Len(W) /\ W[n + 1] = s[1].frame
         /\ \A i \in 1 .. m : s[i] = [frame |-> s[1].frame, k |-> s[1].k + i - 1]
         /\ Position(SubSeq(s, m + 1, Len(s)), W, n + 1, 0, live, whole)
<1> DEFINE f == s[1].frame
           k == s[1].k
           l == FrameLen(f)
           t == SubSeq(s, m + 1, Len(s))
<1>1. /\ s \in Seq(Cells(F)) /\ Unbroken(s) /\ Chained(s, W, live) /\ (live => EndsWhole(s, W, P))
      /\ W \in Seq(F) /\ \A i, j \in 1 .. Len(W) : W[i] = W[j] => i = j
  BY DEF LineInv
<1>2. /\ f \in F /\ l \in Nat /\ k \in 1 .. l /\ 1 \in 1 .. Len(s)
      /\ \A i \in 1 .. Len(s) : k + i - 1 <= l => s[i] = [frame |-> f, k |-> k + i - 1]
      /\ \A i \in 1 .. Len(s) : k + i - 1 = l => AtEnd(s[i])
  BY <1>1, FrontOfFrame
<1>3. AtFrame(s[1], W, n, len) /\ n \in 0 .. Len(W)
  BY DEF Position
<1>4. k + m - 1 = l
  OBVIOUS
<1>5. m \in 0 .. Len(s) /\ m \in 1 .. Len(s) /\ Len(s) \in Nat /\ Len(W) \in Nat
  BY <1>1
<1> HIDE DEF f, k, l
<1>6. \A i \in 1 .. m : s[i] = [frame |-> f, k |-> k + i - 1]
  <2> SUFFICES ASSUME NEW i \in 1 .. m PROVE s[i] = [frame |-> f, k |-> k + i - 1]
    OBVIOUS
  <2>1. i \in 1 .. Len(s) /\ k + i - 1 <= l
    BY <1>2, <1>4, <1>5
  <2> QED
    BY <1>2, <2>1
<1>7. AtEnd(s[m]) /\ s[m].frame = f
  <2>1. m \in 1 .. m
    OBVIOUS
  <2>2. s[m] = [frame |-> f, k |-> k + m - 1]
    BY <1>6, <2>1
  <2> QED
    BY <1>2, <1>4, <1>5, <2>2
<1>8. f \in Done(W)
  <2>1. f \in Done(W) \/ (live /\ m = Len(s))
    BY <1>1, <1>5, <1>7 DEF Chained
  <2>2. CASE live /\ m = Len(s)
    <3>1. W # <<>> /\ s[Len(s)].frame = W[Len(W)]
      BY <1>1, <2>2 DEF EndsWhole
    <3>2. Len(W) \in 1 .. Len(W)
      BY <1>1, <3>1
    <3> QED
      BY <1>7, <2>2, <3>1, <3>2 DEF Done
  <2> QED
    BY <2>1, <2>2
<1>9. n + 1 \in 1 .. Len(W) /\ W[n + 1] = f
  <2>1. n # Len(W)
    BY <1>3, <1>8 DEF AtFrame, f
  <2>2. n < Len(W)
    BY <1>3, <1>5, <2>1
  <2> QED
    BY <1>3, <1>5, <2>2 DEF AtFrame, f
<1>10. t \in Seq(Cells(F)) /\ Len(t) = Len(s) - m /\ \A i \in 1 .. Len(s) - m : t[i] = s[m + i]
  BY <1>1, <1>5, PartShape
<1> HIDE DEF t
<1>11. ASSUME t # <<>> PROVE AtFrame(t[1], W, n + 1, 0)
  <2>1. Len(t) # 0
    BY <1>10, <1>11
  <2>2. 1 \in 1 .. Len(s) - m /\ m \in 1 .. Len(s) - 1
    BY <1>5, <1>10, <2>1
  <2>3. t[1] = s[m + 1]
    BY <1>10, <2>2
  <2>4. /\ s[m + 1].k = 1
        /\ n + 1 < Len(W) => s[m + 1].frame = W[(n + 1) + 1]
        /\ n + 1 = Len(W) => s[m + 1].frame \notin Done(W)
    BY <1>1, <1>7, <1>9, <2>2 DEF Chained
  <2> QED
    BY <2>3, <2>4 DEF AtFrame
<1>12. ASSUME live, t = <<>> PROVE n + 1 = Len(W)
  <2>1. Len(t) = 0
    BY <1>12
  <2>2. m = Len(s)
    BY <1>5, <1>10, <2>1
  <2>3. P = {}
    BY <1>12, <2>2
  <2>4. W # <<>> /\ f = W[Len(W)]
    BY <1>1, <1>7, <1>12, <2>2, <2>3 DEF EndsWhole
  <2>5. Len(W) \in 1 .. Len(W)
    BY <1>1, <2>4
  <2> QED
    BY <1>1, <1>9, <2>4, <2>5
<1>13. ASSUME whole PROVE Ahead(t, W, n + 1)
  <2>1. Ahead(s, W, n)
    BY <1>13 DEF Position
  <2>2. \A i \in 1 .. Len(s) : i <= m => i \in 1 .. m
    BY <1>5
  <2>3. ASSUME NEW i \in 1 .. m PROVE s[i].frame = f
    <3> DEFINE c == k + i - 1
    <3>1. s[i] = [frame |-> f, k |-> c]
      BY <1>6
    <3> HIDE DEF c
    <3> QED
      BY <3>1
  <2>4. \A j \in (n + 1) + 1 .. Len(W) : j \in 1 .. Len(W) /\ j # n + 1
    BY <1>3, <1>5
  <2>5. \A j \in (n + 1) + 1 .. Len(W) : f # W[j]
    BY <1>1, <1>9, <2>4
  <2>6. \A i \in 1 .. Len(s) : i <= m /\ AtEnd(s[i]) =>
          \A j \in (n + 1) + 1 .. Len(W) : s[i].frame # W[j]
    BY <2>2, <2>3, <2>5
  <2>7. n \in Nat /\ n + 1 \in Nat /\ n <= n + 1
    BY <1>3
  <2> QED
    BY <1>1, <1>5, <2>1, <2>6, <2>7, AheadSuffix DEF t
<1>14. Position(t, W, n + 1, 0, live, whole)
  <2>1. 0 <= max_payload_size /\ n + 1 \in 0 .. Len(W)
    BY <1>5, <1>9, ReaderAssumption DEF ReaderAssumption
  <2> QED
    BY <1>11, <1>12, <1>13, <2>1 DEF Position
<1> QED
  BY <1>5, <1>6, <1>9, <1>14 DEF f, k, t

(* The reader takes a body: it is that of the next frame written. *)
LEMMA BodyTaken ==
  ASSUME NEW F, FrameSet(F), NEW s, NEW W, NEW live \in BOOLEAN, NEW P,
         LineInv(F, s, W, live, P), NEW n, NEW len, NEW whole \in BOOLEAN,
         Position(s, W, n, len, live, whole), len # 0, s # <<>>,
         s[1].frame.len < U32, len <= Len(s), live /\ P # {} => len # Len(s)
  PROVE  /\ len \in 0 .. Len(s) /\ len = s[1].frame.len
         /\ n + 1 \in 1 .. Len(W) /\ W[n + 1] = s[1].frame
         /\ \A i \in 1 .. len :
              s[i] = [frame |-> s[1].frame, k |-> encrypted_size_len(s[1].frame.ctx) + i]
         /\ Position(SubSeq(s, len + 1, Len(s)), W, n + 1, 0, live, whole)
<1> DEFINE f == s[1].frame
           h == encrypted_size_len(f.ctx)
<1>1. f \in F
  <2>1. s \in Seq(Cells(F)) /\ Unbroken(s)
    BY DEF LineInv
  <2> QED
    BY <2>1, FrontOfFrame
<1>2. f.len \in Nat /\ U32 \in Nat \ {0} /\ h \in Nat \ {0}
  BY <1>1, CryptoAssumption, HeaderLen DEF FrameSet, CryptoAssumption
<1>3. f.len % U32 = f.len
  BY <1>2
<1>4. AtFrame(s[1], W, n, len) /\ len \in Nat
  BY DEF Position
<1>5. len = f.len /\ s[1].k = h + 1
  BY <1>3, <1>4 DEF AtFrame
<1>6. FrameLen(f) = h + len
  BY <1>5 DEF FrameLen
<1>7. len \in Nat \ {0} /\ s[1].k + len - 1 = FrameLen(s[1].frame)
  BY <1>2, <1>4, <1>5, <1>6
<1>8. /\ len \in 0 .. Len(s) /\ n + 1 \in 1 .. Len(W) /\ W[n + 1] = s[1].frame
      /\ \A i \in 1 .. len : s[i] = [frame |-> s[1].frame, k |-> s[1].k + i - 1]
      /\ Position(SubSeq(s, len + 1, Len(s)), W, n + 1, 0, live, whole)
  BY SMTT(20), <1>7, FrameEnds
<1>9. ASSUME NEW i \in 1 .. len PROVE s[i] = [frame |-> f, k |-> h + i]
  <2>1. s[1].k + i - 1 = h + i
    BY <1>2, <1>4, <1>5
  <2> QED
    BY <1>8, <2>1
<1> QED
  BY <1>5, <1>8, <1>9 DEF f, h

(* Nothing comes of a reader that is starved. *)
LEMMA StarvedNone ==
  ASSUME NEW rd, rd.read_len \in Nat, Len(rd.read_buffer) \in Nat, NEW ctx, Starved(rd, ctx),
         NEW o \in try_read(rd, ctx)
  PROVE  o.res = None /\ o.reader = rd
<1> DEFINE b == rd.read_buffer
           l == rd.read_len
           h == encrypted_size_len(ctx)
<1>1. h \in Nat \ {0}
  BY HeaderLen
<1>2. CASE l = 0
  <2>1. Len(b) < h
    BY <1>2 DEF Starved
  <2>2. \A x \in try_read_header(rd, ctx) : x = [res |-> None, reader |-> rd]
    <3> SUFFICES ASSUME NEW x \in try_read_header(rd, ctx) PROVE x = [res |-> None, reader |-> rd]
      OBVIOUS
    <3> QED
      BY <2>1, HeaderOutcome
  <2>3. PICK x \in try_read_header(rd, ctx) :
          \/ x.res = None /\ x.reader.read_len > 0 /\ o \in try_read_body(x.reader, ctx)
          \/ ~(x.res = None /\ x.reader.read_len > 0) /\ o = x
    BY <1>2, ReadOutcome
  <2>4. x.reader = rd /\ x.res = None
    BY <2>2
  <2>5. ~(x.reader.read_len > 0)
    BY <1>2, <2>4
  <2> QED
    BY <2>3, <2>4, <2>5
<1>3. CASE l # 0
  <2>1. l > Len(b)
    BY <1>3 DEF Starved
  <2>2. o \in try_read_body(rd, ctx)
    BY <1>3, ReadOutcome
  <2>3. o = [res |-> None, reader |-> rd]
    BY <2>1, <2>2, BodyOutcome
  <2> QED
    BY <2>3
<1> QED
  BY <1>2, <1>3

(* A starved reader at the end of a whole line has nothing to wait for. *)
LEMMA StarvedEnd ==
  ASSUME NEW F, FrameSet(F), Bodies(F), NEW rd \in Readers(F), NEW ctx, Starved(rd, ctx),
         NEW W, NEW live \in BOOLEAN, NEW P, LineInv(F, rd.read_buffer, W, live, P), NEW n,
         Position(rd.read_buffer, W, n, rd.read_len, live, TRUE), Told(F, ctx, W, n)
  PROVE  n = Len(W)
<1> DEFINE s == rd.read_buffer
           f == s[1].frame
           len == rd.read_len
           h == encrypted_size_len(f.ctx)
<1>1. s \in Seq(Cells(F)) /\ Unbroken(s) /\ n \in 0 .. Len(W) /\ W \in Seq(F) /\ len \in Nat
  BY DEF LineInv, Position
<1> SUFFICES ASSUME n # Len(W) PROVE FALSE
  OBVIOUS
<1>2. n + 1 \in n + 1 .. Len(W) /\ n < Len(W)
  BY <1>1
<1>3. PICK i \in 1 .. Len(s) : s[i].frame = W[n + 1] /\ AtEnd(s[i])
  BY <1>2 DEF Position, Ahead
<1>4. s # <<>> /\ Len(s) \in Nat
  BY <1>1, <1>3
<1>5. AtFrame(s[1], W, n, len)
  BY <1>4 DEF Position
<1>6. /\ f \in F /\ FrameLen(f) \in Nat
      /\ \A j \in 1 .. Len(s) : s[1].k + j - 1 < FrameLen(f) => ~AtEnd(s[j])
  BY <1>1, <1>4, FrontOfFrame
<1>7. ~(s[1].k + i - 1 < FrameLen(f))
  BY <1>3, <1>6
<1>8. f.len \in Nat /\ h \in Nat \ {0} /\ U32 \in Nat \ {0} /\ f.len % U32 <= f.len
  <2>1. f.len \in Nat /\ h \in Nat \ {0} /\ U32 \in Nat \ {0}
    BY <1>6, CryptoAssumption, HeaderLen DEF FrameSet, CryptoAssumption
  <2> QED
    BY <2>1
<1>9. encrypted_size_len(ctx) = h
  <2>1. f \in Coming(F, W, n)
    BY <1>5, <1>6 DEF AtFrame, Coming
  <2>2. Tells(ctx, f)
    BY <2>1 DEF Told
  <2> QED
    BY <2>2 DEF Tells, encrypted_size_len
<1>10. FrameLen(f) = h + f.len
  BY DEF FrameLen
<1>11. Len(s) < IF len = 0 THEN h ELSE len
  BY <1>9 DEF Starved
<1>12. (len = 0 /\ s[1].k = 1) \/ (len = f.len % U32 /\ s[1].k = h + 1)
  BY <1>5 DEF AtFrame
<1> HIDE DEF s, f, len, h
<1> DEFINE x == f.len
           y == x % U32
           k == s[1].k
           m == Len(s)
<1>13. x \in Nat /\ h \in Nat /\ y <= x /\ m \in Nat /\ i <= m /\ ~(k + i - 1 < h + x)
  BY <1>4, <1>7, <1>8, <1>10
<1>14. y \in Nat /\ y # 0
  BY <1>6, <1>8 DEF Bodies, f
<1>15. (len = 0 /\ k = 1 /\ m < h) \/ (len = y /\ k = h + 1 /\ (len = 0 => m < h) /\ (len # 0 => m < len))
  BY <1>11, <1>12
<1> HIDE DEF x, y, k, m
<1>16. CASE len = 0 /\ k = 1 /\ m < h
  BY <1>13, <1>16
<1>17. CASE len = y /\ k = h + 1 /\ len # 0 /\ m < len
  BY <1>13, <1>14, <1>17
<1> QED
  BY <1>14, <1>15, <1>16, <1>17

(* The first k bytes of the reader's buffer b are those of the line, and    *)
(* the line goes on behind them.                                            *)
LEMMA FrontBytes ==
  ASSUME NEW C, NEW a, NEW b, NEW k, Parts(C, a, b, k)
  PROVE  /\ After(a, k) \in Seq(C) /\ After(a, k) \o b = After(a \o b, k)
         /\ a \o b \in Seq(C) /\ k <= Len(a \o b) /\ k \in 0 .. Len(a \o b)
         /\ SubSeq(a, 1, k) \in Seq(C) /\ Len(SubSeq(a, 1, k)) = k
         /\ \A i \in 1 .. k : SubSeq(a, 1, k)[i] = (a \o b)[i]
         /\ b # <<>> => k # Len(a \o b)
<1>1. a \in Seq(C) /\ b \in Seq(C) /\ k \in 0 .. Len(a)
  BY DEF Parts
<1>2. After(a, k) \o b = After(a \o b, k) /\ k \in 0 .. Len(a \o b)
  BY FrontTaken
<1>3. SubSeq(a, 1, k) \in Seq(C) /\ Len(SubSeq(a, 1, k)) = k
      /\ \A i \in 1 .. k : SubSeq(a, 1, k)[i] = a[i]
  BY <1>1, PartShape
<1>4. After(a, k) \in Seq(C)
  BY <1>1, PartShape DEF After
<1> DEFINE s == a \o b
<1>5. /\ s \in Seq(C) /\ Len(s) = Len(a) + Len(b) /\ Len(a) \in Nat /\ Len(b) \in Nat
      /\ \A i \in 1 .. Len(a) : s[i] = a[i]
  BY <1>1, ConcatParts
<1> HIDE DEF s
<1>6. \A i \in 1 .. k : SubSeq(a, 1, k)[i] = s[i]
  <2> SUFFICES ASSUME NEW i \in 1 .. k PROVE SubSeq(a, 1, k)[i] = s[i]
    OBVIOUS
  <2>1. i \in 1 .. Len(a)
    BY <1>1
  <2>2. SubSeq(a, 1, k)[i] = a[i]
    BY <1>3
  <2> QED
    BY <1>5, <2>1, <2>2
<1>7. b # <<>> => Len(b) # 0
  BY <1>1
<1>8. k <= Len(s) /\ (b # <<>> => k # Len(s))
  BY <1>1, <1>5, <1>7
<1> QED
  BY <1>2, <1>3, <1>4, <1>5, <1>6, <1>8 DEF s

(* The same, with names for the line s and the front c. *)
FrontOf(C, a, b, k, s, c) ==
  /\ After(a, k) \in Seq(C) /\ After(a, k) \o b = After(s, k)
  /\ s \in Seq(C) /\ k <= Len(s) /\ k \in 0 .. Len(s)
  /\ c \in Seq(C) /\ Len(c) = k /\ \A i \in 1 .. k : c[i] = s[i]
  /\ b # <<>> => k # Len(s)

LEMMA FrontLine ==
  ASSUME NEW C, NEW a, NEW b, NEW k, Parts(C, a, b, k)
  PROVE  FrontOf(C, a, b, k, a \o b, SubSeq(a, 1, k))
<1> DEFINE s == a \o b
           c == SubSeq(a, 1, k)
<1>1. /\ After(a, k) \in Seq(C) /\ After(a, k) \o b = After(s, k)
      /\ s \in Seq(C) /\ k <= Len(s) /\ k \in 0 .. Len(s)
      /\ c \in Seq(C) /\ Len(c) = k /\ \A i \in 1 .. k : c[i] = s[i]
      /\ b # <<>> => k # Len(s)
  BY FrontBytes
<1> HIDE DEF s, c
<1>2. FrontOf(C, a, b, k, s, c)
  BY <1>1 DEF FrontOf
<1> QED
  BY <1>2 DEF s, c

(* The reader stands on the line of its buffer and of the bytes q behind    *)
(* it.                                                                      *)
Stands(F, rd, q, W, n, live, P, whole) ==
  /\ rd \in Readers(F) /\ q \in Seq(Cells(F))
  /\ LineInv(F, rd.read_buffer \o q, W, live, P)
  /\ Position(rd.read_buffer \o q, W, n, rd.read_len, live, whole)
  /\ live /\ P # {} => q # <<>>

(* try_read_header leaves the reader where it is, or behind the header,      *)
(* which is all of the next frame if its body is empty.                     *)
LEMMA HeaderCases ==
  ASSUME NEW F, FrameSet(F), Fits(F), NEW rd, NEW q, NEW W, NEW n, NEW live \in BOOLEAN, NEW P,
         NEW whole \in BOOLEAN, Stands(F, rd, q, W, n, live, P, whole), rd.read_len = 0,
         NEW ctx, Told(F, ctx, W, n), NEW o \in try_read_header(rd, ctx)
  PROVE  \/ o.res = None /\ o.reader = rd /\ Starved(rd, ctx)
         \/ o.res = Err("Crypto") /\ o.reader = rd /\ Foreign(F, ctx, W, n)
         \/ o.res = Err("PayloadSizeProhibitive")
         \/ /\ o.res = None /\ o.reader.read_len > 0
            /\ Stands(F, o.reader, q, W, n, live, P, whole)
         \/ /\ o.res = None /\ o.reader.read_len = 0 /\ rd.read_buffer # <<>>
            /\ n + 1 \in 1 .. Len(W) /\ rd.read_buffer[1].frame = W[n + 1] /\ W[n + 1].len = 0
            /\ Stands(F, o.reader, q, W, n + 1, live, P, whole)
<1> DEFINE b == rd.read_buffer
           s == b \o q
           h == encrypted_size_len(ctx)
           c == SubSeq(b, 1, h)
           f == s[1].frame
<1>1. /\ rd \in Readers(F) /\ b \in Seq(Cells(F)) /\ q \in Seq(Cells(F))
      /\ LineInv(F, s, W, live, P) /\ Position(s, W, n, 0, live, whole) /\ Len(b) \in Nat
  BY DEF Stands, Readers
<1>2. h \in Nat \ {0}
  BY HeaderLen
<1>3. CASE Len(b) < h
  <2>1. o = [res |-> None, reader |-> rd]
    BY <1>3, HeaderOutcome
  <2> QED
    BY <1>3, <2>1 DEF Starved
<1>4. CASE ~(Len(b) < h)
  <2>1. PICK x \in decrypt_len(c, ctx) :
          \/ x = Failed /\ o = [res |-> Err("Crypto"), reader |-> rd]
          \/ /\ x # Failed /\ x > max_payload_size
             /\ o = [res |-> Err("PayloadSizeProhibitive"), reader |-> [rd EXCEPT !.read_len = x]]
          \/ /\ x # Failed /\ ~(x > max_payload_size)
             /\ o = [res |-> None,
                     reader |-> [read_buffer |-> SubSeq(b, h + 1, Len(b)), read_len |-> x]]
    BY <1>4, HeaderOutcome
  <2>2. Parts(Cells(F), b, q, h)
    BY <1>1, <1>2, <1>4 DEF Parts
  <2> HIDE DEF b, h
  <2>20. FrontOf(Cells(F), b, q, h, s, c)
    BY <2>2, FrontLine
  <2> HIDE DEF s, c
  <2>3. /\ After(b, h) \in Seq(Cells(F)) /\ After(b, h) \o q = After(s, h)
        /\ s \in Seq(Cells(F)) /\ h <= Len(s) /\ h \in 0 .. Len(s)
        /\ c \in Seq(Cells(F)) /\ Len(c) = h /\ \A i \in 1 .. h : c[i] = s[i]
        /\ q # <<>> => h # Len(s)
    BY <2>20 DEF FrontOf
  <2>4. s # <<>> /\ 1 \in 1 .. h /\ 1 \in 1 .. Len(s)
    BY <1>2, <2>3
  <2>5. f \in F /\ c[1].frame = f
    BY <2>3, <2>4, LineTypes
  <2>6. q # <<>> => h # Len(s)
    BY <2>3
  <2>7. f \in Coming(F, W, n) /\ Tells(ctx, f)
    <3>1. AtFrame(s[1], W, n, 0)
      BY <1>1, <2>4 DEF Position
    <3>2. f \in Coming(F, W, n)
      BY <2>5, <3>1 DEF AtFrame, Coming
    <3> QED
      BY <3>2 DEF Told
  <2>8. f.len \in Nat /\ U32 \in Nat \ {0} /\ max_payload_size \in Nat
    BY <2>5, CryptoAssumption, ReaderAssumption DEF FrameSet, CryptoAssumption, ReaderAssumption
  <2>9. ASSUME f.ctx = ctx
        PROVE  /\ IsHeader(c, ctx)
               /\ s[1].k = 1 /\ s[1].frame = f /\ FrameLen(f) = h + f.len
    <3>1. s[1].k = 1 /\ s[1].frame = f /\ FrameLen(f) = h + f.len
      <4>1. f \in F /\ s[1].k \in 1 .. FrameLen(f) /\ s[1].frame = f
        BY <1>1, <2>3, <2>4, FrontOfFrame DEF LineInv
      <4>2. FrameLen(f) = h + f.len /\ h = encrypted_size_len(f.ctx)
        BY <2>9 DEF FrameLen, h
      <4>3. AtFrame(s[1], W, n, 0)
        BY <1>1, <2>4 DEF Position
      <4>4. s[1].k = 1 \/ (f.len % U32 = 0 /\ s[1].k = h + 1)
        BY <4>2, <4>3 DEF AtFrame
      <4>5. f.len % U32 = 0 => f.len = 0
        BY <2>5 DEF Fits
      <4> HIDE DEF f
      <4> QED
        BY <1>2, <2>8, <4>1, <4>2, <4>4, <4>5
    <3>2. \A i \in 1 .. Len(s) :
            s[1].k + i - 1 <= FrameLen(f) => s[i] = [frame |-> f, k |-> s[1].k + i - 1]
      BY <1>1, <2>3, <2>4, FrontOfFrame DEF LineInv
    <3>3. ASSUME NEW i \in 1 .. h PROVE c[i] = [frame |-> f, k |-> i]
      <4>1. i \in 1 .. Len(s) /\ 1 + i - 1 = i /\ i <= h + f.len
        BY <1>2, <2>3, <2>8
      <4>2. s[i] = [frame |-> f, k |-> i]
        BY <3>1, <3>2, <4>1
      <4> QED
        BY <2>3, <4>2
    <3> QED
      BY <2>3, <2>5, <2>9, <3>1, <3>3 DEF IsHeader, h
  <2>10. CASE x # Failed /\ x > max_payload_size
    <3>1. o = [res |-> Err("PayloadSizeProhibitive"), reader |-> [rd EXCEPT !.read_len = x]]
      BY <2>1, <2>10
    <3> QED
      BY <3>1
  <2>11. CASE x = Failed
    <3>1. o = [res |-> Err("Crypto"), reader |-> rd]
      BY <2>1, <2>11
    <3>2. f.ctx # ctx
      <4> SUFFICES ASSUME f.ctx = ctx PROVE FALSE
        OBVIOUS
      <4>1. x = f.len % U32
        BY <2>5, <2>9 DEF decrypt_len
      <4> HIDE DEF f
      <4> QED
        BY <2>8, <2>11, <4>1 DEF Failed
    <3> QED
      BY <2>7, <3>1, <3>2 DEF Foreign, Decrypts
  <2>12. CASE x # Failed /\ ~(x > max_payload_size)
    <3>1. o = [res |-> None, reader |-> [read_buffer |-> After(b, h), read_len |-> x]]
      BY <2>1, <2>12 DEF After, b
    <3>2. o.res = None /\ o.reader.read_len = x /\ o.reader.read_buffer = After(b, h)
          /\ o.reader = [read_buffer |-> After(b, h), read_len |-> x]
      BY <3>1
    <3>3. f.ctx = ctx
      <4> SUFFICES ASSUME f.ctx # ctx PROVE FALSE
        OBVIOUS
      <4>1. ctx # NullCtx
        BY <2>7 DEF Tells
      <4>2. ~IsHeader(c, ctx)
        BY <2>5 DEF IsHeader
      <4> QED
        BY <2>12, <4>1, <4>2 DEF decrypt_len
    <3>5. s[1].k = 1 /\ s[1].frame = f /\ FrameLen(f) = h + f.len
      BY <2>9, <3>3
    <3>6. IsHeader(c, ctx)
      BY <2>9, <3>3
    <3>7. x = f.len % U32
      BY <2>5, <3>6 DEF decrypt_len
    <3>8. x \in Nat /\ x <= max_payload_size
      BY <2>8, <2>12, <3>7
    <3>9. LineInv(F, After(s, h), W, live, P)
      BY <1>1, <2>3, LineSuffix DEF After
    <3>10. [read_buffer |-> After(b, h), read_len |-> x] \in Readers(F)
      BY <2>3, <3>8 DEF Readers
    <3>11. live /\ P # {} => q # <<>>
      BY DEF Stands
    <3>12. ASSUME NEW i, Position(After(s, h), W, i, x, live, whole)
           PROVE  Stands(F, o.reader, q, W, i, live, P, whole)
      BY <1>1, <2>3, <3>2, <3>9, <3>10, <3>11, <3>12 DEF Stands
    <3>13. CASE x # 0
      <4>1. h = encrypted_size_len(s[1].frame.ctx) /\ s[1].frame.len % U32 = x
        BY <3>3, <3>5, <3>7 DEF h
      <4>2. Position(SubSeq(s, h + 1, Len(s)), W, n, s[1].frame.len % U32, live, whole)
        BY SMTT(60), <1>1, <2>3, <2>4, <3>5, <3>8, <3>13, <4>1, HeaderTaken
      <4>3. Stands(F, o.reader, q, W, n, live, P, whole)
        BY <3>12, <4>1, <4>2 DEF After
      <4> QED
        BY <3>2, <3>8, <3>13, <4>3
    <3>14. CASE x = 0
      <4>1. f.len = 0
        BY <2>5, <3>7, <3>14 DEF Fits
      <4>2. s[1].k + h - 1 = FrameLen(s[1].frame)
        <5> HIDE DEF f
        <5> QED
          BY <1>2, <3>5, <4>1
      <4>3. live /\ P # {} => h # Len(s)
        BY <2>6, <3>11
      <4>4. /\ n + 1 \in 1 .. Len(W) /\ W[n + 1] = s[1].frame
            /\ Position(SubSeq(s, h + 1, Len(s)), W, n + 1, 0, live, whole)
        <5>1. s # <<>> /\ h \in Nat \ {0} /\ h <= Len(s) /\ LineInv(F, s, W, live, P)
              /\ Position(s, W, n, 0, live, whole)
          BY <1>1, <1>2, <2>3, <2>4
        <5>2. /\ h \in 0 .. Len(s)
              /\ n + 1 \in 1 .. Len(W) /\ W[n + 1] = s[1].frame
              /\ \A i \in 1 .. h : s[i] = [frame |-> s[1].frame, k |-> s[1].k + i - 1]
              /\ Position(SubSeq(s, h + 1, Len(s)), W, n + 1, 0, live, whole)
          <6>1. ASSUME NEW m \in Nat \ {0}, s[1].k + m - 1 = FrameLen(s[1].frame), m <= Len(s),
                       live /\ P # {} => m # Len(s)
                PROVE  /\ m \in 0 .. Len(s)
                       /\ n + 1 \in 1 .. Len(W) /\ W[n + 1] = s[1].frame
                       /\ \A i \in 1 .. m : s[i] = [frame |-> s[1].frame, k |-> s[1].k + i - 1]
                       /\ Position(SubSeq(s, m + 1, Len(s)), W, n + 1, 0, live, whole)
            BY <5>1, <6>1, FrameEnds
          <6> QED
            BY <4>2, <4>3, <5>1, <6>1
        <5> QED
          BY <5>2
      <4>5. Stands(F, o.reader, q, W, n + 1, live, P, whole)
        BY <3>12, <3>14, <4>4 DEF After
      <4>6. b # <<>> /\ b[1].frame = W[n + 1]
        <5>1. b \in Seq(Cells(F)) /\ 1 \in 1 .. h /\ h \in 0 .. Len(b)
          BY <1>1, <1>2, <1>4 DEF b
        <5>2. SubSeq(b, 1, h)[1] = b[1]
          BY <5>1, PartShape
        <5>3. c[1] = b[1] /\ b # <<>>
          BY <1>2, <5>1, <5>2 DEF c
        <5> QED
          BY <2>5, <3>5, <4>4, <5>3
      <4> QED
        BY <3>2, <3>5, <3>14, <4>1, <4>4, <4>5, <4>6 DEF b
    <3> QED
      BY <3>13, <3>14
  <2> QED
    BY <2>10, <2>11, <2>12
<1> QED
  BY <1>3, <1>4

(* Without empty bodies, it leaves the reader where it is, or behind the    *)
(* header.                                                                  *)
LEMMA HeaderStep ==
  ASSUME NEW F, FrameSet(F), Bodies(F), NEW rd, NEW q, NEW W, NEW n, NEW live \in BOOLEAN, NEW P,
         NEW whole \in BOOLEAN, Stands(F, rd, q, W, n, live, P, whole), rd.read_len = 0,
         NEW ctx, Told(F, ctx, W, n), NEW o \in try_read_header(rd, ctx)
  PROVE  \/ o.res = None /\ o.reader = rd /\ Starved(rd, ctx)
         \/ o.res = Err("Crypto") /\ o.reader = rd /\ Foreign(F, ctx, W, n)
         \/ o.res = Err("PayloadSizeProhibitive")
         \/ /\ o.res = None /\ o.reader.read_len > 0
            /\ Stands(F, o.reader, q, W, n, live, P, whole)
<1>1. Fits(F)
  BY DEF Bodies, Fits
<1>2. n + 1 \in 1 .. Len(W) => W[n + 1].len # 0
  <2> SUFFICES ASSUME n + 1 \in 1 .. Len(W) PROVE W[n + 1].len # 0
    OBVIOUS
  <2>1. W \in Seq(F)
    BY DEF Stands, LineInv
  <2>2. W[n + 1] \in F /\ U32 \in Nat \ {0}
    BY <2>1, ElementOfSeq, CryptoAssumption DEF CryptoAssumption
  <2>3. W[n + 1].len % U32 # 0 /\ 0 % U32 = 0
    BY <2>2 DEF Bodies
  <2> QED
    BY <2>3
<1> QED
  BY <1>1, <1>2, HeaderCases

(* try_read_body leaves the reader where it is, or behind the body of the   *)
(* next message.                                                            *)
LEMMA BodyStep ==
  ASSUME NEW F, FrameSet(F), NEW rd, NEW q, NEW W, NEW n, NEW live \in BOOLEAN, NEW P,
         NEW whole \in BOOLEAN, Stands(F, rd, q, W, n, live, P, whole), rd.read_len # 0,
         NEW ctx, Told(F, ctx, W, n), NEW o \in try_read_body(rd, ctx)
  PROVE  \/ o.res = None /\ o.reader = rd /\ Starved(rd, ctx)
         \/ o.res = Err("Crypto") /\ o.reader = rd /\ Foreign(F, ctx, W, n)
         \/ /\ n + 1 \in 1 .. Len(W) /\ o.res = Some(W[n + 1].id, W[n + 1].len)
            /\ Stands(F, o.reader, q, W, n + 1, live, P, whole)
<1> DEFINE b == rd.read_buffer
           s == b \o q
           l == rd.read_len
           c == SubSeq(b, 1, l)
           f == s[1].frame
           h == encrypted_size_len(f.ctx)
<1>1. /\ rd \in Readers(F) /\ b \in Seq(Cells(F)) /\ q \in Seq(Cells(F))
      /\ LineInv(F, s, W, live, P) /\ Position(s, W, n, l, live, whole) /\ Len(b) \in Nat
      /\ l \in Nat
  BY DEF Stands, Readers
<1>2. CASE l > Len(b)
  <2>1. o = [res |-> None, reader |-> rd]
    BY <1>2, BodyOutcome
  <2> QED
    BY <1>1, <1>2, <2>1 DEF Starved
<1>3. CASE ~(l > Len(b))
  <2>1. PICK x \in decrypt_msg(c, ctx) :
          \/ x = Failed /\ o = [res |-> Err("Crypto"), reader |-> rd]
          \/ /\ x # Failed
             /\ o = [res |-> Some(x, l),
                     reader |-> [read_buffer |-> SubSeq(b, l + 1, Len(b)), read_len |-> 0]]
    BY <1>3, BodyOutcome
  <2>2. Parts(Cells(F), b, q, l)
    BY <1>1, <1>3 DEF Parts
  <2> HIDE DEF b, l
  <2>20. FrontOf(Cells(F), b, q, l, s, c)
    BY <2>2, FrontLine
  <2> HIDE DEF s, c
  <2>3. /\ After(b, l) \in Seq(Cells(F)) /\ After(b, l) \o q = After(s, l)
        /\ s \in Seq(Cells(F)) /\ l <= Len(s) /\ l \in 0 .. Len(s)
        /\ c \in Seq(Cells(F)) /\ Len(c) = l /\ \A i \in 1 .. l : c[i] = s[i]
        /\ q # <<>> => l # Len(s)
    BY <2>20 DEF FrontOf
  <2>4. l # 0
    BY DEF l
  <2>5. s # <<>> /\ 1 \in 1 .. l /\ 1 \in 1 .. Len(s)
    BY <1>1, <2>3, <2>4
  <2>6. f \in F /\ c[1].frame = f
    BY <2>3, <2>5, LineTypes
  <2>7. f.len \in Nat /\ f.id \in Nat /\ U32 \in Nat \ {0}
    BY <2>6, CryptoAssumption DEF FrameSet, CryptoAssumption
  <2>8. l = f.len % U32
    <3>1. AtFrame(s[1], W, n, l)
      BY <1>1, <2>5 DEF Position
    <3> QED
      BY <2>4, <3>1 DEF AtFrame
  <2> HIDE DEF f, h
  <2>11. f \in Coming(F, W, n) /\ Tells(ctx, f)
    <3>1. AtFrame(s[1], W, n, l)
      BY <1>1, <2>5 DEF Position
    <3>2. f \in Coming(F, W, n)
      BY <2>6, <3>1 DEF AtFrame, Coming, f
    <3> QED
      BY <3>2 DEF Told
  <2>9. CASE f.ctx = ctx /\ f.len < U32
    <3>1. live /\ P # {} => l # Len(s)
      BY <2>3 DEF Stands
    <3>2. s[1].frame.len < U32 /\ s[1].frame = f
      BY <2>9 DEF f
    <3>3. /\ l = f.len /\ n + 1 \in 1 .. Len(W) /\ W[n + 1] = f
          /\ \A i \in 1 .. l : s[i] = [frame |-> f, k |-> h + i]
          /\ Position(After(s, l), W, n + 1, 0, live, whole)
      <4>1. /\ l = s[1].frame.len /\ n + 1 \in 1 .. Len(W) /\ W[n + 1] = s[1].frame
            /\ \A i \in 1 .. l :
                 s[i] = [frame |-> s[1].frame, k |-> encrypted_size_len(s[1].frame.ctx) + i]
            /\ Position(SubSeq(s, l + 1, Len(s)), W, n + 1, 0, live, whole)
        <5>1. LineInv(F, s, W, live, P) /\ Position(s, W, n, l, live, whole)
          BY <1>1
        <5>2. /\ l # 0 /\ s # <<>> /\ s[1].frame.len < U32 /\ l <= Len(s)
              /\ live /\ P # {} => l # Len(s)
          BY <2>3, <2>4, <2>5, <2>9, <3>1, <3>2
        <5> QED
          BY <5>1, <5>2, BodyTaken
      <4> QED
        BY <3>2, <4>1 DEF After, h
    <3>4. IsBody(c, ctx)
      <4>1. \A i \in 1 .. l : c[i] = [frame |-> f, k |-> h + i]
        BY <2>3, <3>3
      <4> QED
        BY <2>3, <2>6, <2>9, <3>3, <4>1 DEF IsBody, h
    <3>5. x = f.id /\ x # Failed
      BY <2>6, <2>7, <3>4 DEF decrypt_msg, Failed
    <3>6. o = [res |-> Some(x, l), reader |-> [read_buffer |-> After(b, l), read_len |-> 0]]
      BY <2>1, <3>5 DEF After, b
    <3>7. /\ o.res = Some(x, l) /\ o.reader = [read_buffer |-> After(b, l), read_len |-> 0]
          /\ o.reader.read_buffer = After(b, l) /\ o.reader.read_len = 0
      BY <3>6
    <3>8. LineInv(F, After(s, l), W, live, P)
      BY <1>1, <2>3, LineSuffix DEF After
    <3>9. o.reader \in Readers(F)
      BY <2>3, <3>7 DEF Readers
    <3>10. Stands(F, o.reader, q, W, n + 1, live, P, whole)
      BY <1>1, <2>3, <3>3, <3>7, <3>8, <3>9 DEF Stands
    <3> QED
      BY <3>3, <3>5, <3>7, <3>10
  <2>10. CASE ~(f.ctx = ctx /\ f.len < U32)
    <3>1. ctx # NullCtx
      BY <2>10, <2>11 DEF Tells
    <3>2. ~IsBody(c, ctx)
      <4> SUFFICES ASSUME IsBody(c, ctx) PROVE FALSE
        OBVIOUS
      <4>1. c[1].frame.ctx = ctx /\ Len(c) = c[1].frame.len
        BY DEF IsBody
      <4>2. f.ctx = ctx /\ l = f.len
        BY <2>3, <2>6, <4>1
      <4>3. f.len % U32 < U32
        BY <2>7
      <4> QED
        BY <2>8, <2>10, <4>2, <4>3
    <3>3. x = Failed
      BY <3>1, <3>2 DEF decrypt_msg
    <3>4. o = [res |-> Err("Crypto"), reader |-> rd]
      BY <2>1, <3>3
    <3> QED
      BY <2>10, <2>11, <3>4 DEF Foreign, Decrypts
  <2> QED
    BY <2>9, <2>10
<1> QED
  BY <1>2, <1>3

(* One call of try_read: it returns the next message written, stays in      *)
(* place with an error, or waits for more bytes.                            *)
LEMMA ReadStands ==
  ASSUME NEW F, FrameSet(F), Bodies(F), NEW rd, NEW q, NEW W, NEW n, NEW live \in BOOLEAN, NEW P,
         NEW whole \in BOOLEAN, Stands(F, rd, q, W, n, live, P, whole),
         NEW ctx, Told(F, ctx, W, n), NEW o \in try_read(rd, ctx)
  PROVE  \/ o.res = None /\ Starved(o.reader, ctx) /\ Stands(F, o.reader, q, W, n, live, P, whole)
         \/ /\ o.res = Err("Crypto") /\ Stands(F, o.reader, q, W, n, live, P, whole)
            /\ Foreign(F, ctx, W, n)
         \/ o.res = Err("PayloadSizeProhibitive")
         \/ /\ n + 1 \in 1 .. Len(W) /\ o.res = Some(W[n + 1].id, W[n + 1].len)
            /\ Stands(F, o.reader, q, W, n + 1, live, P, whole)
<1>1. CASE rd.read_len # 0
  <2>1. o \in try_read_body(rd, ctx)
    BY <1>1, ReadOutcome
  <2> QED
    BY <1>1, <2>1, BodyStep
<1>2. CASE rd.read_len = 0
  <2>1. PICK h \in try_read_header(rd, ctx) :
          \/ h.res = None /\ h.reader.read_len > 0 /\ o \in try_read_body(h.reader, ctx)
          \/ ~(h.res = None /\ h.reader.read_len > 0) /\ o = h
    BY <1>2, ReadOutcome
  <2>2. \/ h.res = None /\ h.reader = rd /\ Starved(rd, ctx)
        \/ h.res = Err("Crypto") /\ h.reader = rd /\ Foreign(F, ctx, W, n)
        \/ h.res = Err("PayloadSizeProhibitive")
        \/ /\ h.res = None /\ h.reader.read_len > 0
           /\ Stands(F, h.reader, q, W, n, live, P, whole)
    BY <1>2, HeaderStep
  <2>3. CASE h.res = None /\ h.reader.read_len > 0 /\ o \in try_read_body(h.reader, ctx)
    <3>1. Stands(F, h.reader, q, W, n, live, P, whole) /\ h.reader.read_len # 0
      BY <1>2, <2>2, <2>3, Results
    <3> QED
      BY <2>3, <3>1, BodyStep
  <2>4. CASE ~(h.res = None /\ h.reader.read_len > 0) /\ o = h
    BY <2>2, <2>4
  <2> QED
    BY <2>1, <2>3, <2>4
<1> QED
  BY <1>1, <1>2
==============================================================================
