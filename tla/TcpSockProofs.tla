---------------------------- MODULE TcpSockProofs ----------------------------
(***************************************************************************)
(* What the runs check of TcpSock, proved for any number of messages of any *)
(* lengths and priorities, kernel buffers and read buffers of any size, and *)
(* every drop rule.                                                         *)
(*                                                                          *)
(* The argument is about the line: all bytes from the front of the reader's *)
(* buffer to the end of the frame being written.  A system call moves bytes *)
(* along the line and does not change it; it only grows, by a whole frame,  *)
(* when a frame is taken from the queue, and shrinks when try_read consumes *)
(* a header or a body, or when the connection ends.  What the line is made  *)
(* of is LineInv of FrameTheorems.                                          *)
(***************************************************************************)
EXTENDS TcpSock, FrameTheorems

(* Bytes may still be added to the line. *)
Live == ~reset /\ w_pc # "closed"

(* The part of the line that the sender's kernel has not accepted. *)
Unsent == IF Live THEN current_write ELSE <<>>

Line == msg_reader.read_buffer \o (rcv \o (snd \o Unsent))

(* The frame being written. *)
InProgress == IF current_write = <<>> THEN {} ELSE {current_write[1].frame}

(* The frames accepted that still wait or were written. *)
Known == QFrames(out_queue) \cup InProgress \cup Done(written)

(* The queues are as next_msg needs them, and current_write is the rest of  *)
(* one frame.                                                               *)
QueueInv ==
  /\ FrameQueue(out_queue, Frame, next_id - 1)
  /\ current_write # <<>> => IsRest(current_write, Frame)

(* Every frame has an id of its own and is in one place. *)
PlacesInv ==
  /\ \A f \in Known : f.id \in 1 .. next_id - 1
  /\ \A f, g \in Known : f.id = g.id => f = g
  /\ QFrames(out_queue) \cap InProgress = {}
  /\ (QFrames(out_queue) \cup InProgress) \cap Done(written) = {}

(* The message of a call that has not returned is not lost. *)
CallInv ==
  /\ w_pc = "flush" => /\ w_ret = "-"
                       /\ w_msg # 0 => \E f \in Known : f.id = w_msg
  /\ w_ret = "true" /\ w_msg # 0 => \E f \in Done(written) : f.id = w_msg

(* Data waits only where something will come for it. *)
WakeInv ==
  /\ HasData => \/ wr_event \/ reset \/ w_pc = "flush" \/ w_ret = "Interrupted" \/ MustWait
  /\ w_pc = "closed" => ~HasData

(* The bytes on the way are whole frames, in the order they were written. *)
BytesInv == LineInv(Frame, Line, written, Live, InProgress)

SendInv == TypeOK /\ QueueInv /\ PlacesInv /\ CallInv /\ WakeInv /\ BytesInv

-----------------------------------------------------------------------------
(* The definitions, in the form the steps below use them.                   *)

(* The frames of TcpSock are those FrameTheorems is about. *)
LEMMA FrameShape ==
  /\ FrameSet(Frame) /\ Cell = Cells(Frame)
  /\ FramesOf(Queued(out_queue)) = QFrames(out_queue)
<1>1. Lens \subseteq Nat
  BY TcpAssumption DEF TcpAssumption
<1>2. FrameSet(Frame)
  BY <1>1 DEF FrameSet, Frame
<1> QED
  BY <1>2 DEF Cell, Cells, FramesOf, QFrames

(* Ids count from 1. *)
LEMMA IdBelow == ASSUME TypeOK PROVE next_id - 1 \in Nat /\ next_id = (next_id - 1) + 1
<1>1. next_id \in Nat \ {0}
  BY DEF TypeOK
<1> QED
  BY <1>1

(* The buffers are sequences of bytes. *)
LEMMA BufferTypes ==
  ASSUME TypeOK
  PROVE  /\ msg_reader \in Readers(Frame) /\ msg_reader.read_buffer \in Seq(Cells(Frame))
         /\ rcv \in Seq(Cells(Frame)) /\ snd \in Seq(Cells(Frame))
         /\ current_write \in Seq(Cells(Frame)) /\ Unsent \in Seq(Cells(Frame))
         /\ snd \o Unsent \in Seq(Cells(Frame)) /\ rcv \o (snd \o Unsent) \in Seq(Cells(Frame))
         /\ Line \in Seq(Cells(Frame))
<1>1. /\ msg_reader \in Readers(Frame) /\ rcv \in Seq(Cells(Frame)) /\ snd \in Seq(Cells(Frame))
      /\ current_write \in Seq(Cells(Frame))
  BY FrameShape DEF TypeOK, Readers
<1>2. msg_reader.read_buffer \in Seq(Cells(Frame))
  BY <1>1 DEF Readers
<1>3. Unsent \in Seq(Cells(Frame))
  BY <1>1 DEF Unsent
<1>4. snd \o Unsent \in Seq(Cells(Frame))
  BY <1>1, <1>3, ConcatProperties
<1>5. rcv \o (snd \o Unsent) \in Seq(Cells(Frame))
  <2> DEFINE t == snd \o Unsent
  <2>1. t \in Seq(Cells(Frame))
    BY <1>4
  <2> HIDE DEF t
  <2>2. rcv \o t \in Seq(Cells(Frame))
    BY <1>1, <2>1, ConcatProperties
  <2> QED
    BY <2>2 DEF t
<1>6. Line \in Seq(Cells(Frame))
  <2> DEFINE t == rcv \o (snd \o Unsent)
  <2>1. t \in Seq(Cells(Frame))
    BY <1>5
  <2> HIDE DEF t
  <2>2. msg_reader.read_buffer \o t \in Seq(Cells(Frame))
    BY <1>2, <2>1, ConcatProperties
  <2> QED
    BY <2>2 DEF t, Line
<1> QED
  BY <1>1, <1>2, <1>3, <1>4, <1>5, <1>6

(* What a turn of the loop finds to write. *)
LEMMA DataShape ==
  ASSUME TypeOK, QueueInv, PlacesInv, HasData
  PROVE  LET f == Data[1].frame
         IN  /\ IsRest(Data, Frame) /\ Data \in Seq(Cells(Frame)) /\ f \in Frame
             /\ f \in Known /\ f \notin Done(written) /\ f.id \in 1 .. next_id - 1
             /\ FrameQueue(QueueWithoutData, Frame, next_id - 1)
             /\ f \notin QFrames(QueueWithoutData)
             /\ QFrames(out_queue) \cup InProgress = QFrames(QueueWithoutData) \cup {f}
             /\ current_write = <<>> =>
                  /\ InProgress = {} /\ Data[1].k = 1
                  /\ \A g \in QFrames(out_queue) : f.priority <= g.priority
             /\ current_write # <<>> => InProgress = {f} /\ Data = current_write
<1> DEFINE d == Data
           f == d[1].frame
           r == QueueWithoutData
           q == out_queue
           n == next_id - 1
<1>1. n \in Nat /\ FrameQueue(q, Frame, n) /\ FrameSet(Frame)
  BY IdBelow, FrameShape DEF QueueInv
<1>2. /\ IsRest(d, Frame) /\ FrameQueue(r, Frame, n) /\ f \notin QFrames(r)
      /\ QFrames(q) \cup InProgress = QFrames(r) \cup {f}
      /\ current_write = <<>> =>
           InProgress = {} /\ d[1].k = 1 /\ \A g \in QFrames(q) : f.priority <= g.priority
      /\ current_write # <<>> => InProgress = {f} /\ d = current_write
  <2>1. CASE current_write # <<>>
    <3>1. d = current_write /\ r = q
      BY <2>1 DEF Data, QueueWithoutData
    <3>2. InProgress = {f}
      BY <2>1, <3>1 DEF InProgress
    <3> QED
      BY <1>1, <2>1, <3>1, <3>2 DEF QueueInv, PlacesInv
  <2>2. CASE current_write = <<>>
    <3>1. DOMAIN q # {} /\ d = next_msg(q) /\ r = after_next_msg(q) /\ InProgress = {}
      BY <2>2 DEF HasData, Data, QueueWithoutData, InProgress
    <3> HIDE DEF d, r, q, n
    <3>2. /\ FrameQueue(r, Frame, n) /\ d \in Encoded(Frame) /\ f \in QFrames(q)
          /\ QFrames(r) = QFrames(q) \ {f}
          /\ \A g \in QFrames(q) : f.priority <= g.priority
      BY <1>1, <3>1, NextFrames
    <3>3. IsRest(d, Frame) /\ d[1].k = 1
      BY <1>1, <3>2, EncodedElements
    <3> QED
      BY <2>2, <3>1, <3>2, <3>3
  <2> QED
    BY <2>1, <2>2
<1>3. d \in Seq(Cells(Frame)) /\ 1 \in 1 .. Len(d)
  BY <1>2 DEF IsRest
<1>4. f \in Frame
  BY <1>1, <1>3, LineTypes
<1>5. f \in QFrames(q) \cup InProgress
  BY <1>2
<1> HIDE DEF d, f, r, q, n
<1>6. f \in Known /\ f \notin Done(written) /\ f.id \in 1 .. n
  BY <1>5 DEF PlacesInv, Known, q, n
<1> QED
  BY <1>2, <1>3, <1>4, <1>6 DEF d, f, r, q, n

(* The line with all of the data that a turn takes. *)
LEMMA FullLine ==
  ASSUME TypeOK, QueueInv, PlacesInv, BytesInv, Live, HasData
  PROVE  LineInv(Frame, msg_reader.read_buffer \o (rcv \o (snd \o Data)), written, TRUE,
                 {Data[1].frame})
<1> DEFINE C == Cells(Frame)
           rb == msg_reader.read_buffer
           d == Data
<1>1. rb \in Seq(C) /\ rcv \in Seq(C) /\ snd \in Seq(C) /\ d \in Seq(C) /\ FrameSet(Frame)
  BY BufferTypes, DataShape, FrameShape
<1>2. LineInv(Frame, Line, written, TRUE, InProgress)
  BY DEF BytesInv
<1>3. CASE current_write # <<>>
  <2>1. Unsent = d /\ InProgress = {d[1].frame}
    BY <1>3, DataShape DEF Unsent
  <2> QED
    BY <1>2, <2>1 DEF Line
<1>4. CASE current_write = <<>>
  <2>1. /\ Unsent = <<>> /\ InProgress = {} /\ IsRest(d, Frame) /\ d[1].k = 1
        /\ d[1].frame \notin Done(written)
    BY <1>4, DataShape DEF Unsent
  <2> HIDE DEF C, rb, d
  <2>2. snd \o Unsent = snd
    BY <1>1, <2>1, ConcatEmptySeq
  <2>3. Line = rb \o (rcv \o snd)
    BY <2>2 DEF Line, rb
  <2>4. LineInv(Frame, Line \o d, written, TRUE, {d[1].frame})
    <3>1. LineInv(Frame, Line, written, TRUE, {})
      BY <1>2, <2>1
    <3> QED
      BY <1>1, <2>1, <3>1, LineBegin
  <2>5. (rb \o (rcv \o snd)) \o d = rb \o ((rcv \o snd) \o d)
    <3> DEFINE t == rcv \o snd
    <3>1. t \in Seq(C)
      BY <1>1, ConcatProperties
    <3> HIDE DEF t
    <3>2. (rb \o t) \o d = rb \o (t \o d)
      BY SMTT(20), <1>1, <3>1, ConcatAssociative
    <3> QED
      BY <3>2 DEF t
  <2>6. (rcv \o snd) \o d = rcv \o (snd \o d)
    BY SMTT(20), <1>1, ConcatAssociative
  <2>7. Line \o d = rb \o (rcv \o (snd \o d))
    BY <2>3, <2>5, <2>6
  <2> QED
    BY <2>4, <2>7 DEF rb, d
<1> QED
  BY <1>3, <1>4

-----------------------------------------------------------------------------
(* Steps.  First the queue, the frame in progress and what was written.     *)

(* A step that leaves them alone. *)
LEMMA SenderSame ==
  ASSUME UNCHANGED <<out_queue, current_write, next_id, written>>
  PROVE  /\ QueueInv => QueueInv'
         /\ PlacesInv => PlacesInv'
         /\ Known' = Known /\ InProgress' = InProgress /\ HasData' = HasData
         /\ Done(written)' = Done(written)
<1>1. QueueInv => QueueInv'
  BY DEF QueueInv
<1>2. Known' = Known /\ InProgress' = InProgress /\ HasData' = HasData
  BY DEF Known, InProgress, HasData
<1>3. QFrames(out_queue)' = QFrames(out_queue) /\ Done(written)' = Done(written)
  OBVIOUS
<1>4. PlacesInv => PlacesInv'
  BY <1>2, <1>3 DEF PlacesInv
<1> QED
  BY <1>1, <1>2, <1>3, <1>4

(* drop_expired. *)
LEMMA KeptShape ==
  ASSUME TypeOK, QueueInv
  PROVE  /\ FrameQueue(Kept, Frame, next_id - 1) /\ QFrames(Kept) \subseteq QFrames(out_queue)
         /\ FramesOf(Queued(out_queue) \ Queued(Kept)) = QFrames(out_queue) \ QFrames(Kept)
         /\ \A f \in QFrames(out_queue) \ QFrames(Kept) : f.priority >= msg_drop_priority
         /\ QFrames(out_queue) \subseteq Frame
<1>1. next_id - 1 \in Nat /\ FrameSet(Frame) /\ FrameQueue(out_queue, Frame, next_id - 1) /\ now \in Nat
  BY IdBelow, FrameShape DEF QueueInv, TypeOK
<1>2. /\ FrameQueue(Kept, Frame, next_id - 1) /\ QFrames(Kept) \subseteq QFrames(out_queue)
      /\ {d[1].frame : d \in Queued(out_queue) \ Queued(Kept)} = QFrames(out_queue) \ QFrames(Kept)
      /\ \A f \in QFrames(out_queue) \ QFrames(Kept) : f.priority >= msg_drop_priority
  BY <1>1, DropFrames DEF Kept
<1>3. QFrames(out_queue) \subseteq Frame
  BY <1>1, FramesIn
<1> QED
  BY <1>2, <1>3 DEF FramesOf

(* The start of a call: drop_expired moves frames from the queue to shed,   *)
(* and write(Some) adds one with a new id.                                  *)
LEMMA StartStep ==
  ASSUME SendInv, StartWrite, NEW fresh, QFrames(out_queue)' = QFrames(Kept) \cup fresh,
         FrameQueue(out_queue, Frame, next_id - 1)',
         \/ fresh = {} /\ next_id' = next_id
         \/ \E f \in Frame : fresh = {f} /\ f.id = next_id /\ next_id' = next_id + 1
  PROVE  /\ QueueInv' /\ PlacesInv' /\ shed' \subseteq Frame
         /\ fresh \subseteq Known' /\ InProgress' = InProgress
<1> DEFINE n == next_id - 1
           Q == QFrames(out_queue)
           K == QFrames(Kept)
           D == Done(written)
<1>1. TypeOK /\ QueueInv /\ PlacesInv
  BY DEF SendInv
<1>2. n \in Nat /\ next_id = n + 1
  BY <1>1, IdBelow
<1>3. K \subseteq Q /\ Q \subseteq Frame /\ FramesOf(Queued(out_queue) \ Queued(Kept)) = Q \ K
  BY <1>1, KeptShape
<1>4. /\ UNCHANGED <<current_write, written>> /\ shed' = shed \cup (Q \ K)
  BY <1>3 DEF StartWrite
<1>5. InProgress' = InProgress /\ Done(written)' = D
  BY <1>4 DEF InProgress
<1>6. QueueInv'
  BY <1>1, <1>4 DEF QueueInv
<1>7. shed' \subseteq Frame
  BY <1>1, <1>3, <1>4 DEF TypeOK
<1>8. Known' = K \cup fresh \cup InProgress \cup D
  BY <1>5 DEF Known
<1>9. /\ \A f \in Q \cup InProgress \cup D : f.id \in 1 .. n
      /\ \A f, g \in Q \cup InProgress \cup D : f.id = g.id => f = g
      /\ Q \cap InProgress = {} /\ (Q \cup InProgress) \cap D = {}
  BY <1>1 DEF PlacesInv, Known
<1>10. PlacesInv'
  <2> HIDE DEF Q, K, D, n
  <2>1. CASE fresh = {} /\ next_id' = next_id
    <3>1. next_id' - 1 = n
      BY <2>1 DEF n
    <3>2. /\ \A f \in Known' : f.id \in 1 .. n
          /\ \A f, g \in Known' : f.id = g.id => f = g
          /\ K \cap InProgress = {} /\ (K \cup InProgress) \cap D = {}
      BY <1>3, <1>8, <1>9, <2>1
    <3>3. QFrames(out_queue)' = K
      BY <2>1 DEF K
    <3> QED
      BY <1>5, <3>1, <3>2, <3>3 DEF PlacesInv
  <2>2. ASSUME NEW f \in Frame, fresh = {f}, f.id = next_id, next_id' = next_id + 1
        PROVE  PlacesInv'
    <3>1. next_id' - 1 = n + 1 /\ f.id = n + 1
      BY <1>2, <2>2
    <3>2. \A i : i \in 1 .. n => i \in 1 .. n + 1 /\ i # n + 1
      BY <1>2
    <3>3. n + 1 \in 1 .. n + 1
      BY <1>2
    <3>4. \A g \in K \cup InProgress \cup D : g.id \in 1 .. n + 1 /\ g.id # n + 1
      BY <1>3, <1>9, <3>2
    <3>5. \A g \in Known' : g.id \in 1 .. n + 1
      BY <1>8, <2>2, <3>1, <3>3, <3>4
    <3>6. \A g, h \in Known' : g.id = h.id => g = h
      BY <1>3, <1>8, <1>9, <2>2, <3>1, <3>4
    <3>7. f \notin K \cup InProgress \cup D
      BY <3>1, <3>4
    <3>8. QFrames(out_queue)' = K \cup {f}
      BY <2>2 DEF K
    <3>9. (K \cup {f}) \cap InProgress = {} /\ ((K \cup {f}) \cup InProgress) \cap D = {}
      BY <1>3, <1>9, <3>7
    <3> QED
      BY <1>5, <3>1, <3>5, <3>6, <3>8, <3>9 DEF PlacesInv
  <2> QED
    BY <2>1, <2>2
<1> QED
  BY <1>5, <1>6, <1>7, <1>8, <1>10

(* A turn of the loop: the frame it takes stays in progress, is written to  *)
(* the end, or is lost.                                                     *)
LEMMA TurnStep ==
  ASSUME SendInv, HasData, out_queue' = QueueWithoutData, next_id' = next_id,
         (current_write # <<>> => IsRest(current_write, Frame))',
         NEW P, NEW D, InProgress' = P, Done(written)' = D,
         \/ P = {Data[1].frame} /\ D = Done(written)
         \/ P = {} /\ D = Done(written) \cup {Data[1].frame}
         \/ P = {} /\ D = Done(written)
  PROVE  /\ QueueInv' /\ PlacesInv'
         /\ P # {} \/ D # Done(written) => Known' = Known
<1> DEFINE n == next_id - 1
           Q == QFrames(out_queue)
           R == QFrames(QueueWithoutData)
           f == Data[1].frame
           W == Done(written)
<1>1. TypeOK /\ QueueInv /\ PlacesInv
  BY DEF SendInv
<1>2. /\ f \in Known /\ f \notin W /\ FrameQueue(QueueWithoutData, Frame, n)
      /\ f \notin R /\ Q \cup InProgress = R \cup {f}
  BY <1>1, DataShape
<1>3. QueueInv'
  BY <1>2 DEF QueueInv
<1>4. QFrames(out_queue)' = R
  OBVIOUS
<1>5. Known' = R \cup P \cup D /\ Known = Q \cup InProgress \cup W
  BY <1>4 DEF Known
<1>6. /\ \A g \in Known : g.id \in 1 .. n
      /\ \A g, h \in Known : g.id = h.id => g = h
      /\ (Q \cup InProgress) \cap W = {}
  BY <1>1 DEF PlacesInv
<1> HIDE DEF n, Q, R, f, W
<1>7. R \subseteq Known /\ R \cap W = {} /\ P \subseteq {f} /\ D \subseteq W \cup {f} /\ P \cap D = {}
  BY <1>2, <1>5, <1>6 DEF f, W
<1>8. Known' \subseteq Known
  BY <1>2, <1>5, <1>7
<1>9. P # {} \/ D # W => Known' = Known
  BY <1>2, <1>5, <1>8 DEF f, W
<1>10. PlacesInv'
  <2>1. next_id' - 1 = n
    BY DEF n
  <2>2. R \cap P = {} /\ (R \cup P) \cap D = {}
    BY <1>2, <1>7
  <2>3. (\A g \in Known' : g.id \in 1 .. n) /\ (\A g, h \in Known' : g.id = h.id => g = h)
    BY <1>6, <1>8
  <2> QED
    BY <1>4, <2>1, <2>2, <2>3 DEF PlacesInv
<1> QED
  BY <1>3, <1>9, <1>10 DEF W

(* A step that moves no byte. *)
LEMMA LineSame ==
  ASSUME BytesInv, UNCHANGED <<msg_reader, rcv, snd, current_write, reset, written>>,
         w_pc' = "closed" <=> w_pc = "closed"
  PROVE  BytesInv' /\ Line' = Line /\ Live' = Live
<1>1. Live' = Live
  BY DEF Live
<1>2. Line' = Line /\ InProgress' = InProgress
  BY <1>1 DEF Line, Unsent, InProgress
<1> QED
  BY <1>1, <1>2 DEF BytesInv

(* The type of the queues. *)
LEMMA QueueType ==
  ASSUME NEW q, NEW n, FrameQueue(q, Frame, n)
  PROVE  DOMAIN q \subseteq Priority /\ q \in [DOMAIN q -> Seq([at : Nat, msg : Seq(Cell)])]
<1> DEFINE E == [at : Nat, msg : Encoded(Frame)]
           T == [at : Nat, msg : Seq(Cell)]
<1>1. DOMAIN q \subseteq Priority /\ q \in [DOMAIN q -> Seq(E)]
  BY DEF FrameQueue, QueueMap
<1>2. Encoded(Frame) \subseteq Seq(Cell)
  BY FrameShape, EncodedElements DEF IsRest
<1>3. E \subseteq T
  BY <1>2
<1> HIDE DEF E, T
<1>4. \A s \in Seq(E) : s \in Seq(T)
  BY <1>3
<1> QED
  BY <1>1, <1>4 DEF T

(* write(Some) and write(None) up to the flush. *)
LEMMA WriteStep ==
  ASSUME SendInv, (\E p \in Priority, l \in Lens : Write(p, l)) \/ WriteUnencodable \/ OnWritable
  PROVE  SendInv'
<1> DEFINE n == next_id - 1
<1>1. /\ TypeOK /\ QueueInv /\ PlacesInv /\ CallInv /\ WakeInv /\ BytesInv
      /\ n \in Nat /\ next_id = n + 1 /\ next_id \in Nat \ {0} /\ now \in Nat
  BY IdBelow DEF SendInv, TypeOK
<1>2. /\ StartWrite /\ w_pc = "idle"
      /\ UNCHANGED <<current_write, enc_ctx, established, snd, rcv, fin, reset, rd_event,
                     msg_reader, dec_ctx, is_something_read, r_pc, r_ret, now, written, delivered>>
  BY DEF Write, WriteUnencodable, OnWritable, StartWrite, receiverVars
<1>3. FrameQueue(Kept, Frame, n) /\ QFrames(Kept) \subseteq QFrames(out_queue) /\ FrameSet(Frame)
  BY <1>1, KeptShape, FrameShape
<1>4. /\ QueueInv' /\ PlacesInv' /\ shed' \subseteq Frame
      /\ \/ w_pc' = "flush" /\ w_ret' = "-" /\ w_msg' \in Nat /\ wr_event' \in BOOLEAN
            /\ (w_msg' # 0 => \E f \in Known' : f.id = w_msg')
         \/ UNCHANGED <<w_pc, w_ret, w_msg, wr_event>> /\ out_queue' = Kept
      /\ next_id' \in Nat \ {0}
  <2>1. ASSUME NEW p \in Priority, NEW l \in Lens, Write(p, l)
        PROVE  /\ QueueInv' /\ PlacesInv' /\ shed' \subseteq Frame
               /\ w_pc' = "flush" /\ w_ret' = "-" /\ w_msg' \in Nat /\ wr_event' \in BOOLEAN
               /\ \E f \in Known' : f.id = w_msg'
               /\ next_id' \in Nat \ {0}
    <3> DEFINE f == [id |-> next_id, priority |-> p, len |-> l, ctx |-> enc_ctx]
    <3>1. /\ out_queue' = push_at(Kept, now, serialize_with_len(f), p)
          /\ next_id' = next_id + 1 /\ w_msg' = next_id /\ w_pc' = "flush" /\ w_ret' = "-"
          /\ wr_event' = wr_event
      BY <2>1 DEF Write
    <3>2. f \in Frame /\ f.id = n + 1 /\ f.priority = p /\ f.id = next_id
      <4>1. enc_ctx \in {FirstCtx, SecondCtx}
        BY <1>1 DEF TypeOK
      <4> QED
        BY <1>1, <4>1 DEF Frame
    <3> HIDE DEF f
    <3>3. FrameQueue(out_queue', Frame, n + 1) /\ QFrames(out_queue') = QFrames(Kept) \cup {f}
      <4>1. out_queue' = push_at(Kept, now, serialize_with_len(f), f.priority)
        BY <3>1, <3>2
      <4> HIDE DEF n
      <4> QED
        BY <1>1, <1>3, <3>2, <4>1, PushFrames
    <3>4. next_id' - 1 = n + 1 /\ next_id' \in Nat \ {0}
      BY <1>1, <3>1
    <3>5. FrameQueue(out_queue', Frame, next_id' - 1)
      BY <3>3, <3>4
    <3>6. /\ QueueInv' /\ PlacesInv' /\ shed' \subseteq Frame /\ {f} \subseteq Known'
      BY <1>2, <3>1, <3>2, <3>3, <3>5, StartStep
    <3> QED
      BY <1>1, <3>1, <3>2, <3>4, <3>6 DEF TypeOK
  <2>2. ASSUME out_queue' = Kept, next_id' = next_id
        PROVE  QueueInv' /\ PlacesInv' /\ shed' \subseteq Frame /\ next_id' \in Nat \ {0}
    <3>1. QFrames(out_queue)' = QFrames(Kept) \cup {} /\ FrameQueue(out_queue', Frame, next_id' - 1)
      BY <1>3, <2>2
    <3> QED
      BY <1>1, <1>2, <2>2, <3>1, StartStep
  <2>3. CASE WriteUnencodable
    <3>1. out_queue' = Kept /\ UNCHANGED <<w_pc, w_msg, w_ret, next_id, wr_event>>
      BY <2>3 DEF WriteUnencodable
    <3> QED
      BY <2>2, <3>1
  <2>4. CASE OnWritable
    <3>1. /\ out_queue' = Kept /\ next_id' = next_id
          /\ w_pc' = "flush" /\ w_ret' = "-" /\ w_msg' = 0 /\ wr_event' = FALSE
      BY <2>4 DEF OnWritable
    <3> QED
      BY <2>2, <3>1
  <2> QED
    BY <2>1, <2>3, <2>4
<1>5. w_pc' # "closed"
  BY <1>2, <1>4
<1>6. BytesInv'
  BY <1>1, <1>2, <1>5, LineSame
<1>7. CallInv'
  <2>1. CASE w_pc' = "flush" /\ w_ret' = "-" /\ (w_msg' # 0 => \E f \in Known' : f.id = w_msg')
    BY <2>1 DEF CallInv
  <2>2. CASE UNCHANGED <<w_pc, w_ret, w_msg>>
    BY <1>1, <1>2, <2>2 DEF CallInv
  <2> QED
    BY <1>4, <2>1, <2>2
<1>8. WakeInv'
  <2>1. CASE w_pc' = "flush"
    BY <2>1 DEF WakeInv
  <2>2. CASE UNCHANGED <<w_pc, w_ret, wr_event>> /\ out_queue' = Kept
    <3>1. MustWait' = MustWait
      BY <1>2 DEF MustWait
    <3>2. HasData' => HasData
      <4>1. n \in Nat /\ FrameQueue(out_queue, Frame, n) /\ FrameQueue(Kept, Frame, n)
        BY <1>1, <1>3 DEF QueueInv
      <4>2. DOMAIN out_queue = {} <=> QFrames(out_queue) = {}
        BY <1>3, <4>1, FramesIn
      <4>3. DOMAIN Kept = {} <=> QFrames(Kept) = {}
        BY <1>3, <4>1, FramesIn
      <4> QED
        BY <1>2, <1>3, <2>2, <4>2, <4>3 DEF HasData
    <3> QED
      BY <1>1, <1>2, <2>2, <3>1, <3>2 DEF WakeInv
  <2> QED
    BY <1>4, <2>1, <2>2
<1>9. TypeOK'
  <2>1. DOMAIN out_queue' \subseteq Priority
        /\ out_queue' \in [DOMAIN out_queue' -> Seq([at : Nat, msg : Seq(Cell)])]
    BY <1>4, QueueType DEF QueueInv
  <2> QED
    BY ZenonT(40), <1>1, <1>2, <1>4, <2>1 DEF TypeOK
<1> QED
  BY <1>4, <1>6, <1>7, <1>8, <1>9 DEF SendInv

(* A turn of the loop leaves the rest of the program alone. *)
LEMMA TurnFrame ==
  ASSUME TypeOK, NEW rest, Turn(rest)
  PROVE  /\ w_pc = "flush" /\ HasData /\ out_queue' = QueueWithoutData /\ current_write' = rest
         /\ UNCHANGED <<enc_ctx, w_msg, established, rcv, fin, reset, wr_event, rd_event,
                        msg_reader, dec_ctx, is_something_read, r_pc, r_ret, now, next_id,
                        delivered, shed>>
         /\ (QueueInv' /\ current_write' \in Seq(Cell) /\ snd' \in Seq(Cell) /\ written' \in Seq(Frame)
               /\ w_pc' \in {"idle", "flush"} /\ w_ret' \in {"-", "true", "false", "Interrupted", "Io"})
               => TypeOK'
<1>1. /\ w_pc = "flush" /\ HasData /\ out_queue' = QueueWithoutData /\ current_write' = rest
      /\ UNCHANGED <<enc_ctx, w_msg, established, rcv, fin, reset, wr_event, rd_event,
                     msg_reader, dec_ctx, is_something_read, r_pc, r_ret, now, next_id,
                     delivered, shed>>
  BY DEF Turn, receiverVars
<1>2. ASSUME QueueInv', current_write' \in Seq(Cell), snd' \in Seq(Cell), written' \in Seq(Frame),
             w_pc' \in {"idle", "flush"}, w_ret' \in {"-", "true", "false", "Interrupted", "Io"}
      PROVE  TypeOK'
  <2>1. DOMAIN out_queue' \subseteq Priority
        /\ out_queue' \in [DOMAIN out_queue' -> Seq([at : Nat, msg : Seq(Cell)])]
    BY <1>2, QueueType DEF QueueInv
  <2> QED
    BY <1>1, <1>2, <2>1 DEF TypeOK
<1> QED
  BY <1>1, <1>2

(* Nothing is left to write: the message of the call was written. *)
LEMMA FlushDoneStep ==
  ASSUME SendInv, FlushDone
  PROVE  SendInv'
<1>1. TypeOK /\ QueueInv /\ PlacesInv /\ CallInv /\ WakeInv /\ BytesInv
  BY DEF SendInv
<1>2. /\ w_pc = "flush" /\ ~HasData /\ w_pc' = "idle" /\ w_ret' = "true"
      /\ UNCHANGED <<out_queue, current_write, enc_ctx, w_msg, established, snd, rcv, fin, reset,
                     wr_event, rd_event, msg_reader, dec_ctx, is_something_read, r_pc, r_ret,
                     now, next_id, written, delivered, shed>>
  BY DEF FlushDone, Returned, kernelVars, receiverVars
<1>3. QueueInv' /\ PlacesInv' /\ HasData' = HasData /\ Done(written)' = Done(written)
  BY <1>1, <1>2, SenderSame
<1>4. Known = Done(written)
  <2>1. current_write = <<>> /\ DOMAIN out_queue = {}
    BY <1>2 DEF HasData
  <2>2. QFrames(out_queue) = {}
    BY <1>1, <2>1, IdBelow, FrameShape, FramesIn DEF QueueInv
  <2> QED
    BY <2>1, <2>2 DEF Known, InProgress
<1>5. CallInv'
  BY <1>1, <1>2, <1>3, <1>4 DEF CallInv
<1>6. WakeInv'
  BY <1>2, <1>3 DEF WakeInv
<1>7. BytesInv'
  BY <1>1, <1>2, LineSame
<1>8. TypeOK'
  BY <1>1, <1>2 DEF TypeOK
<1> QED
  BY <1>3, <1>5, <1>6, <1>7, <1>8 DEF SendInv

(* The kernel accepts bytes: the line has the whole frame, and the frame is *)
(* written when its last byte was accepted.                                 *)
LEMMA FlushSendStep ==
  ASSUME SendInv, NEW n \in 1 .. SndCap, FlushSend(n)
  PROVE  /\ SendInv' /\ HasData /\ Live /\ Live'
         /\ Line' = msg_reader.read_buffer \o (rcv \o (snd \o Data))
         /\ written' = IF n = Len(Data) THEN Append(written, Data[1].frame) ELSE written
<1> DEFINE C == Cells(Frame)
           d == Data
           f == d[1].frame
           a == SubSeq(d, 1, n)
           e == SubSeq(d, n + 1, Len(d))
           rb == msg_reader.read_buffer
<1>1. TypeOK /\ QueueInv /\ PlacesInv /\ CallInv /\ WakeInv /\ BytesInv
  BY DEF SendInv
<1>2. /\ w_pc = "flush" /\ HasData /\ out_queue' = QueueWithoutData /\ current_write' = e
      /\ UNCHANGED <<w_msg, rcv, reset, msg_reader, next_id, wr_event, established, w_pc, w_ret>>
      /\ ~reset /\ n <= Len(d) /\ snd' = snd \o a
      /\ written' = IF n = Len(d) THEN Append(written, f) ELSE written
  BY <1>1, TurnFrame DEF FlushSend, Sent, KernelTakes
<1>3. /\ IsRest(d, Frame) /\ d \in Seq(C) /\ f \in Frame /\ f \notin Done(written)
      /\ FrameSet(Frame)
  BY <1>1, <1>2, DataShape, FrameShape
<1>4. Len(d) \in Nat /\ n \in 0 .. Len(d)
  <2>1. SndCap \in Nat
    BY TcpAssumption DEF TcpAssumption
  <2> QED
    BY <1>2, <1>3, <2>1
<1>5. /\ e \in Seq(C) /\ a \in Seq(C) /\ (n = Len(d) => e = <<>>)
      /\ (n # Len(d) => IsRest(e, Frame) /\ e[1].frame = f)
      /\ a \o e = d
  BY <1>3, <1>4, RestSplit
<1>6. Live /\ Live'
  BY <1>2 DEF Live
<1>7. LineInv(Frame, rb \o (rcv \o (snd \o d)), written, TRUE, {f})
  BY <1>1, <1>2, <1>6, FullLine
<1>8. rb \in Seq(C) /\ rcv \in Seq(C) /\ snd \in Seq(C) /\ written \in Seq(Frame)
  BY <1>1, BufferTypes DEF TypeOK
<1> HIDE DEF C, d, f, a, e, rb
<1>9. Line' = rb \o (rcv \o (snd \o d))
  <2>1. (snd \o a) \o e = snd \o d
    <3>1. snd \in Seq(C) /\ a \in Seq(C) /\ e \in Seq(C)
      BY <1>5, <1>8
    <3>2. (snd \o a) \o e = snd \o (a \o e)
      BY SMTT(20), <3>1, ConcatAssociative
    <3> QED
      BY <1>5, <3>2
  <2>2. Unsent' = e
    BY <1>2, <1>6 DEF Unsent
  <2> QED
    BY <1>2, <2>1, <2>2 DEF Line, rb
<1>10. /\ n # Len(d) => InProgress' = {f} /\ written' = written
       /\ n = Len(d) => InProgress' = {} /\ written' = Append(written, f)
  BY <1>2, <1>5 DEF InProgress, IsRest
<1>11. n = Len(d) => Done(written)' = Done(written) \cup {f}
  <2> SUFFICES ASSUME n = Len(d) PROVE Done(written') = Done(written) \cup {f}
    OBVIOUS
  <2> DEFINE V == Append(written, f)
             k == Len(written)
  <2>1. Len(V) = k + 1 /\ V[k + 1] = f /\ k \in Nat /\ \A i \in 1 .. k : V[i] = written[i]
    BY <1>3, <1>8, AppendProperties
  <2>2. 1 .. k + 1 = (1 .. k) \cup {k + 1}
    BY <2>1
  <2>3. written' = V
    BY <1>10
  <2> HIDE DEF V
  <2>4. Done(V) = Done(written) \cup {f}
    BY <2>1, <2>2 DEF Done
  <2> QED
    BY <2>3, <2>4
<1>12. current_write' # <<>> => IsRest(current_write', Frame)
  BY <1>2, <1>5
<1>13. QueueInv' /\ PlacesInv' /\ Known' = Known
  <2>1. CASE n = Len(d)
    <3>1. InProgress' = {} /\ Done(written)' = Done(written) \cup {Data[1].frame}
      BY <1>10, <1>11, <2>1 DEF f, d
    <3>2. Done(written)' # Done(written)
      BY <1>3, <3>1 DEF f, d
    <3> QED
      BY <1>2, <1>12, <3>1, <3>2, TurnStep
  <2>2. CASE n # Len(d)
    <3>1. InProgress' = {Data[1].frame} /\ Done(written)' = Done(written)
      BY <1>10, <2>2 DEF f, d
    <3> QED
      BY <1>2, <1>12, <3>1, TurnStep
  <2> QED
    BY <2>1, <2>2
<1>14. BytesInv'
  <2>1. CASE n = Len(d)
    <3>1. LineInv(Frame, rb \o (rcv \o (snd \o d)), Append(written, f), TRUE, {})
      BY <1>3, <1>7, LineComplete
    <3> QED
      BY <1>6, <1>9, <1>10, <2>1, <3>1 DEF BytesInv
  <2>2. CASE n # Len(d)
    BY <1>6, <1>7, <1>9, <1>10, <2>2 DEF BytesInv
  <2> QED
    BY <2>1, <2>2
<1>15. CallInv'
  <2>1. w_pc = "flush" /\ w_ret = "-" /\ (w_msg # 0 => \E g \in Known : g.id = w_msg)
    BY <1>1, <1>2 DEF CallInv
  <2> QED
    BY <1>2, <1>13, <2>1 DEF CallInv
<1>16. WakeInv'
  BY <1>2 DEF WakeInv
<1>17. TypeOK'
  <2>1. snd' \in Seq(C) /\ current_write' \in Seq(C)
    <3>1. snd \in Seq(C) /\ a \in Seq(C)
      BY <1>5, <1>8
    <3>2. snd \o a \in Seq(C)
      BY <3>1, ConcatProperties
    <3> QED
      BY <1>2, <1>5, <3>2
  <2>2. written' \in Seq(Frame)
    <3>1. written \in Seq(Frame) /\ f \in Frame
      BY <1>3, <1>8
    <3>2. Append(written, f) \in Seq(Frame)
      BY <3>1, AppendProperties
    <3> QED
      BY <1>8, <1>10, <3>2
  <2>3. Cell = C
    BY FrameShape DEF C
  <2>4. w_pc' \in {"idle", "flush"} /\ w_ret' \in {"-", "true", "false", "Interrupted", "Io"}
    BY <1>1, <1>2 DEF TypeOK
  <2>5. Turn(SubSeq(Data, n + 1, Len(Data)))
    BY DEF FlushSend, Sent
  <2> QED
    BY <1>1, <1>13, <2>1, <2>2, <2>3, <2>4, <2>5, TurnFrame
<1> QED
  BY <1>2, <1>6, <1>9, <1>13, <1>14, <1>15, <1>16, <1>17 DEF SendInv, rb, d, f

(* The data is kept: it is the frame in progress, and all of it is on the   *)
(* line.                                                                    *)
LEMMA FlushKeptStep ==
  ASSUME SendInv, FlushWouldBlock \/ FlushInterrupted
  PROVE  /\ SendInv' /\ HasData /\ Live /\ Live' /\ written' = written
         /\ Line' = msg_reader.read_buffer \o (rcv \o (snd \o Data))
<1> DEFINE d == Data
           f == d[1].frame
           rb == msg_reader.read_buffer
<1>1. TypeOK /\ QueueInv /\ PlacesInv /\ CallInv /\ WakeInv /\ BytesInv
  BY DEF SendInv
<1>2. /\ Turn(d) /\ ~reset /\ w_pc' = "idle" /\ UNCHANGED <<snd, written>>
      /\ \/ w_ret' = "false" /\ MustWait
         \/ w_ret' = "Interrupted"
  BY DEF FlushWouldBlock, FlushInterrupted, NotSent, Returned
<1>3. /\ w_pc = "flush" /\ HasData /\ out_queue' = QueueWithoutData /\ current_write' = d
      /\ UNCHANGED <<w_msg, rcv, reset, msg_reader, next_id, wr_event, established>>
  BY <1>1, <1>2, TurnFrame
<1>4. IsRest(d, Frame) /\ d \in Seq(Cells(Frame)) /\ d # <<>>
  BY <1>1, <1>3, DataShape DEF IsRest
<1>5. Live /\ Live'
  BY <1>2, <1>3 DEF Live
<1>6. LineInv(Frame, rb \o (rcv \o (snd \o d)), written, TRUE, {f})
  BY <1>1, <1>3, <1>5, FullLine
<1> HIDE DEF d, rb
<1>7. InProgress' = {f} /\ Done(written)' = Done(written)
  BY <1>2, <1>3, <1>4 DEF InProgress
<1>8. QueueInv' /\ PlacesInv'
  <2>1. InProgress' = {Data[1].frame} /\ (current_write # <<>> => IsRest(current_write, Frame))'
    BY <1>3, <1>4, <1>7 DEF d
  <2> QED
    BY <1>3, <1>7, <2>1, TurnStep
<1>9. BytesInv' /\ Line' = rb \o (rcv \o (snd \o d))
  <2>1. Unsent' = d
    BY <1>3, <1>5 DEF Unsent
  <2>2. Line' = rb \o (rcv \o (snd \o d))
    BY <1>2, <1>3, <2>1 DEF Line, rb
  <2> QED
    BY <1>2, <1>5, <1>6, <1>7, <2>2 DEF BytesInv
<1>10. CallInv'
  BY <1>2 DEF CallInv
<1>11. WakeInv'
  <2>1. MustWait' = MustWait
    BY <1>2, <1>3 DEF MustWait
  <2> QED
    BY <1>2, <2>1 DEF WakeInv
<1>12. TypeOK'
  <2>1. snd' \in Seq(Cell) /\ written' \in Seq(Frame) /\ current_write' \in Seq(Cell)
    BY <1>1, <1>2, <1>3, <1>4, FrameShape DEF TypeOK
  <2> QED
    BY <1>1, <1>2, <1>8, <2>1, TurnFrame
<1> QED
  BY <1>2, <1>3, <1>5, <1>8, <1>9, <1>10, <1>11, <1>12 DEF SendInv, rb, d

(* After a reset the data taken is lost. *)
LEMMA FlushErrStep ==
  ASSUME SendInv, FlushErr
  PROVE  SendInv' /\ ~Live /\ ~Live' /\ Line' = Line /\ written' = written
<1>1. TypeOK /\ QueueInv /\ PlacesInv /\ CallInv /\ WakeInv /\ BytesInv
  BY DEF SendInv
<1>2. Turn(<<>>) /\ reset /\ w_pc' = "idle" /\ w_ret' = "Io" /\ UNCHANGED <<snd, written>>
  BY DEF FlushErr, NotSent, Returned
<1>3. /\ w_pc = "flush" /\ HasData /\ out_queue' = QueueWithoutData /\ current_write' = <<>>
      /\ UNCHANGED <<w_msg, rcv, reset, msg_reader, next_id, wr_event, established>>
  BY <1>1, <1>2, TurnFrame
<1>4. ~Live /\ ~Live'
  BY <1>2, <1>3 DEF Live
<1>5. InProgress' = {} /\ Done(written)' = Done(written)
  BY <1>2, <1>3 DEF InProgress
<1>6. QueueInv' /\ PlacesInv'
  BY <1>3, <1>5, TurnStep
<1>7. BytesInv' /\ Line' = Line
  <2>1. Line' = Line
    BY <1>2, <1>3, <1>4 DEF Line, Unsent
  <2>2. Live = FALSE /\ Live' = FALSE
    BY <1>4 DEF Live
  <2>3. LineInv(Frame, Line, written, FALSE, InProgress)
    BY <1>1, <2>2 DEF BytesInv
  <2>4. LineInv(Frame, Line, written, FALSE, InProgress')
    BY <2>3 DEF LineInv
  <2> QED
    BY <1>2, <2>1, <2>2, <2>4 DEF BytesInv
<1>8. CallInv'
  BY <1>2 DEF CallInv
<1>9. WakeInv'
  BY <1>2, <1>3 DEF WakeInv
<1>10. TypeOK'
  <2>1. snd' \in Seq(Cell) /\ written' \in Seq(Frame) /\ current_write' \in Seq(Cell)
    BY <1>1, <1>2, <1>3 DEF TypeOK
  <2> QED
    BY <1>1, <1>2, <1>6, <2>1, TurnFrame
<1> QED
  BY <1>2, <1>4, <1>6, <1>7, <1>8, <1>9, <1>10 DEF SendInv

(* The line is cut behind the bytes up to some buffer: they are its front.  *)
LEMMA CutLine ==
  ASSUME TypeOK, UNCHANGED <<msg_reader, rcv>>, Unsent' = <<>>, snd' = snd \/ snd' = <<>>
  PROVE  \E k \in 0 .. Len(Line) :
           /\ Line' = SubSeq(Line, 1, k)
           /\ Unsent # <<>> => k # Len(Line)
           /\ snd' = snd =>
                \A i \in 1 .. Len(Line) : i <= k \/ \E j \in 1 .. Len(Unsent) : Line[i] = Unsent[j]
<1> DEFINE C == Cells(Frame)
           rb == msg_reader.read_buffer
           a == rb \o (rcv \o snd)
           b == rb \o rcv
           u == snd \o Unsent
<1>1. /\ rb \in Seq(C) /\ rcv \in Seq(C) /\ snd \in Seq(C) /\ Unsent \in Seq(C)
      /\ snd \o Unsent \in Seq(C)
  BY BufferTypes
<1> HIDE DEF C, rb
<1>2. Line = b \o u /\ Line = a \o Unsent
  <2>1. Buffers(C, rb, rcv, snd, Unsent)
    BY <1>1 DEF Buffers
  <2>2. rb \o (rcv \o (snd \o Unsent)) = (rb \o rcv) \o (snd \o Unsent)
    BY SMTT(20), <2>1, LineParts
  <2>3. rb \o (rcv \o (snd \o Unsent)) = (rb \o (rcv \o snd)) \o Unsent
    BY <2>1, LineParts
  <2> QED
    BY <2>2, <2>3 DEF Line, rb
<1>3. rcv \o snd \in Seq(C) /\ b \in Seq(C)
  BY <1>1, ConcatProperties
<1>4. a \in Seq(C)
  <2> DEFINE t == rcv \o snd
  <2>1. t \in Seq(C) /\ rb \in Seq(C)
    BY <1>1, <1>3
  <2> HIDE DEF t
  <2>2. rb \o t \in Seq(C)
    BY <2>1, ConcatProperties
  <2> QED
    BY <2>2 DEF t
<1>5. u \in Seq(C) /\ (Unsent # <<>> => u # <<>>)
  <2>1. Len(u) = Len(snd) + Len(Unsent) /\ Len(snd) \in Nat /\ Len(Unsent) \in Nat
    BY <1>1, ConcatParts
  <2>2. Unsent # <<>> => Len(Unsent) # 0
    BY <1>1
  <2>3. Unsent # <<>> => Len(u) # 0
    <3> HIDE DEF u
    <3> QED
      BY <2>1, <2>2
  <2> QED
    BY <1>1, <2>3
<1>6. CASE snd' = snd
  <2>1. snd \o <<>> = snd
    BY <1>1, ConcatEmptySeq
  <2>2. Line' = a
    BY <1>6, <2>1 DEF Line, rb
  <2> HIDE DEF a
  <2>3. a \in Seq(C) /\ Unsent \in Seq(C)
    BY <1>1, <1>4
  <2>4. PICK k : IsFront(a, a \o Unsent, Unsent, k)
    BY <2>3, LinePrefix
  <2>5. IsFront(Line', Line, Unsent, k)
    BY <1>2, <2>2, <2>4
  <2> QED
    BY <2>5 DEF IsFront
<1>7. CASE snd' = <<>>
  <2>1. <<>> \o <<>> = <<>> /\ rcv \o <<>> = rcv
    BY <1>1, ConcatEmptySeq
  <2>2. Line' = b
    BY <1>7, <2>1 DEF Line, rb
  <2> HIDE DEF b
  <2>3. CASE snd = <<>>
    BY <1>6, <1>7, <2>3
  <2>4. CASE snd # <<>>
    <3> HIDE DEF u
    <3>1. b \in Seq(C) /\ u \in Seq(C)
      BY <1>3, <1>5
    <3>2. PICK k : IsFront(b, b \o u, u, k)
      BY <3>1, LinePrefix
    <3>3. IsFront(Line', Line, u, k) /\ (Unsent # <<>> => u # <<>>)
      BY <1>2, <1>5, <2>2, <3>2
    <3> QED
      BY <1>7, <2>4, <3>3 DEF IsFront
  <2> QED
    BY <2>3, <2>4
<1> QED
  BY <1>6, <1>7

(* What is left of it is a line to which nothing is added.                  *)
LEMMA CutStep ==
  ASSUME SendInv, UNCHANGED <<msg_reader, rcv, written>>, ~Live', Unsent' = <<>>,
         snd' = snd \/ snd' = <<>>
  PROVE  BytesInv'
<1>1. TypeOK /\ BytesInv /\ FrameSet(Frame)
  BY FrameShape DEF SendInv
<1>2. Live \in BOOLEAN /\ Live' = FALSE /\ (InProgress # {} /\ Live => Unsent # <<>>)
  BY DEF Live, Unsent, InProgress
<1>3. PICK k \in 0 .. Len(Line) :
        /\ Line' = SubSeq(Line, 1, k)
        /\ Unsent # <<>> => k # Len(Line)
  BY <1>1, CutLine
<1>4. LineInv(Frame, SubSeq(Line, 1, k), written, FALSE, InProgress')
  <2>1. LineInv(Frame, Line, written, Live, InProgress)
    BY <1>1 DEF BytesInv
  <2>2. Live /\ InProgress # {} => k # Len(Line)
    BY <1>2, <1>3
  <2> QED
    BY <1>1, <1>2, <2>1, <2>2, LineCut
<1> QED
  BY <1>2, <1>3, <1>4 DEF BytesInv

(* Drop for Inner. *)
LEMMA DropSenderStep ==
  ASSUME SendInv, DropSender
  PROVE  SendInv'
<1>1. TypeOK /\ QueueInv /\ PlacesInv /\ CallInv /\ WakeInv /\ BytesInv
  BY DEF SendInv
<1>2. /\ w_pc' = "closed" /\ out_queue' = new /\ current_write' = <<>> /\ fin' = "sent"
      /\ UNCHANGED <<enc_ctx, w_msg, w_ret, established, snd, rcv, reset, wr_event, rd_event,
                     msg_reader, dec_ctx, is_something_read, r_pc, r_ret, now, next_id, written,
                     delivered, shed>>
  BY DEF DropSender, receiverVars
<1>3. /\ FrameQueue(new, Frame, next_id - 1) /\ QFrames(new) = {} /\ DOMAIN new = {}
  BY <1>1, IdBelow, FrameShape, NewFrames
<1>4. QueueInv' /\ ~HasData'
  BY <1>2, <1>3 DEF QueueInv, HasData
<1>5. PlacesInv'
  <2>1. InProgress' = {} /\ QFrames(out_queue)' = {} /\ Done(written)' = Done(written)
    BY <1>2, <1>3 DEF InProgress
  <2>2. Known' = Done(written) /\ Done(written) \subseteq Known
    BY <2>1 DEF Known
  <2> QED
    BY <1>1, <1>2, <2>1, <2>2 DEF PlacesInv
<1>6. CallInv'
  BY <1>1, <1>2 DEF CallInv
<1>7. WakeInv'
  BY <1>4 DEF WakeInv
<1>8. BytesInv'
  <2>1. ~Live' /\ Unsent' = <<>>
    BY <1>2 DEF Live, Unsent
  <2> QED
    BY <1>2, <2>1, CutStep
<1>9. TypeOK'
  <2>1. DOMAIN out_queue' \subseteq Priority
        /\ out_queue' \in [DOMAIN out_queue' -> Seq([at : Nat, msg : Seq(Cell)])]
    BY <1>4, QueueType DEF QueueInv
  <2>2. {current_write, snd, rcv}' \subseteq Seq(Cell)
    BY <1>1, <1>2 DEF TypeOK
  <2> QED
    BY <1>1, <1>2, <2>1, <2>2 DEF TypeOK
<1> QED
  BY <1>4, <1>5, <1>6, <1>7, <1>8, <1>9 DEF SendInv

-----------------------------------------------------------------------------
(* The steps of the kernels and of the receiver.                            *)

(* They leave the sender's socket alone. *)
LEMMA SenderIdle ==
  ASSUME SendInv, UNCHANGED <<out_queue, current_write, w_pc, w_msg, w_ret, next_id, written>>,
         wr_event \/ reset \/ MustWait => wr_event' \/ reset' \/ MustWait'
  PROVE  QueueInv' /\ PlacesInv' /\ CallInv' /\ WakeInv'
<1>1. QueueInv /\ PlacesInv /\ CallInv /\ WakeInv
  BY DEF SendInv
<1>2. /\ QueueInv' /\ PlacesInv'
      /\ Known' = Known /\ HasData' = HasData /\ Done(written)' = Done(written)
  BY <1>1, SenderSame
<1>3. CallInv'
  BY <1>1, <1>2 DEF CallInv
<1>4. WakeInv'
  BY <1>1, <1>2 DEF WakeInv
<1> QED
  BY <1>2, <1>3, <1>4

(* Bytes arrive: the line stays. *)
LEMMA DeliverStep ==
  ASSUME SendInv, NEW n \in 1 .. RcvCap, Deliver(n)
  PROVE  SendInv' /\ Line' = Line /\ Live' = Live
<1> DEFINE C == Cells(Frame)
           rb == msg_reader.read_buffer
           a == SubSeq(snd, 1, n)
           e == SubSeq(snd, n + 1, Len(snd))
<1>1. TypeOK /\ BytesInv
  BY DEF SendInv
<1>2. /\ n <= Len(snd) /\ rcv' = rcv \o a /\ snd' = e
      /\ rd_event' = TRUE /\ wr_event' = (wr_event \/ Len(snd) = SndCap)
      /\ UNCHANGED <<out_queue, current_write, enc_ctx, w_pc, w_msg, w_ret, established, fin, reset,
                     msg_reader, dec_ctx, is_something_read, r_pc, r_ret, now, next_id, written,
                     delivered, shed>>
  BY DEF Deliver, senderVars, receiverVars
<1>3. rb \in Seq(C) /\ rcv \in Seq(C) /\ snd \in Seq(C) /\ Unsent \in Seq(C)
  BY <1>1, BufferTypes
<1>4. n \in 0 .. Len(snd)
  <2>1. RcvCap \in Nat /\ Len(snd) \in Nat
    BY <1>3, TcpAssumption DEF TcpAssumption
  <2> QED
    BY <1>2, <2>1
<1>5. a \in Seq(C) /\ e \in Seq(C) /\ a \o e = snd
  BY <1>3, <1>4, PartShape
<1>6. Live' = Live /\ InProgress' = InProgress
  BY <1>2 DEF Live, InProgress
<1>7. Unsent' = Unsent
  BY <1>2, <1>6 DEF Unsent
<1> HIDE DEF C, rb, a, e
<1>8. Line' = Line
  <2>1. Buffers(C, rcv, a, e, Unsent)
    BY <1>3, <1>5 DEF Buffers
  <2>2. (rcv \o a) \o (e \o Unsent) = rcv \o ((a \o e) \o Unsent)
    BY <2>1, MoveBytes
  <2>3. (rcv \o a) \o (e \o Unsent) = rcv \o (snd \o Unsent)
    BY <1>5, <2>2
  <2> QED
    BY <1>2, <1>7, <2>3 DEF Line
<1>9. BytesInv'
  BY <1>1, <1>2, <1>6, <1>8 DEF BytesInv
<1>10. QueueInv' /\ PlacesInv' /\ CallInv' /\ WakeInv'
  <2>1. wr_event \/ reset \/ MustWait => wr_event' \/ reset' \/ MustWait'
    BY <1>2 DEF MustWait
  <2> QED
    BY <1>2, <2>1, SenderIdle
<1>11. TypeOK'
  <2>1. rcv' \in Seq(Cell) /\ snd' \in Seq(Cell)
    <3>1. rcv \in Seq(C) /\ a \in Seq(C)
      BY <1>3, <1>5
    <3>2. rcv \o a \in Seq(C)
      BY <3>1, ConcatProperties
    <3> QED
      BY <1>2, <1>5, <3>2, FrameShape DEF C
  <2>2. {established, reset, wr_event, rd_event, is_something_read}' \subseteq BOOLEAN
    BY <1>1, <1>2 DEF TypeOK
  <2>3. {current_write, snd, rcv}' \subseteq Seq(Cell)
    BY <1>1, <1>2, <2>1 DEF TypeOK
  <2> QED
    BY ZenonT(40), <1>1, <1>2, <2>2, <2>3 DEF TypeOK
<1> QED
  BY <1>6, <1>8, <1>9, <1>10, <1>11 DEF SendInv

(* The connection breaks: the bytes on the way and those to come are cut    *)
(* off.                                                                     *)
LEMMA ResetStep ==
  ASSUME SendInv, Reset
  PROVE  SendInv'
<1>1. TypeOK
  BY DEF SendInv
<1>2. /\ reset' = TRUE /\ snd' = <<>> /\ wr_event' = TRUE /\ rd_event' = TRUE
      /\ UNCHANGED <<out_queue, current_write, enc_ctx, w_pc, w_msg, w_ret, established, rcv, fin,
                     msg_reader, dec_ctx, is_something_read, r_pc, r_ret, now, next_id, written,
                     delivered, shed>>
  BY DEF Reset, senderVars, receiverVars
<1>3. QueueInv' /\ PlacesInv' /\ CallInv' /\ WakeInv'
  BY <1>2, SenderIdle
<1>4. BytesInv'
  <2>1. ~Live' /\ Unsent' = <<>>
    BY <1>2 DEF Live, Unsent
  <2> QED
    BY <1>2, <2>1, CutStep
<1>5. TypeOK'
  <2>1. {current_write, snd, rcv}' \subseteq Seq(Cell)
    BY <1>1, <1>2 DEF TypeOK
  <2> QED
    BY ZenonT(40), <1>1, <1>2, <2>1 DEF TypeOK
<1> QED
  BY <1>3, <1>4, <1>5 DEF SendInv

(* Steps that move no byte. *)
LEMMA StillStep ==
  ASSUME SendInv, \/ SetEncryptCtx \/ SetDecryptCtx \/ Establish \/ FinArrive \/ Tick
                  \/ OnReadable \/ DropReceiver \/ UNCHANGED vars
  PROVE  SendInv' /\ Line' = Line /\ Live' = Live
<1>1. TypeOK /\ BytesInv
  BY DEF SendInv
<1>2. /\ UNCHANGED <<out_queue, current_write, w_pc, w_msg, w_ret, next_id, written, snd, rcv, reset,
                     msg_reader>>
      /\ TypeOK'
      /\ (wr_event' = wr_event /\ established' = established) \/ wr_event'
  <2>1. CASE SetEncryptCtx
    BY ZenonT(40), <1>1, <2>1 DEF SetEncryptCtx, TypeOK, kernelVars, receiverVars
  <2>2. CASE SetDecryptCtx
    BY <1>1, <2>2 DEF SetDecryptCtx, TypeOK, senderVars, kernelVars
  <2>3. CASE Establish
    BY ZenonT(40), <1>1, <2>3 DEF Establish, TypeOK, senderVars, receiverVars
  <2>4. CASE FinArrive
    BY ZenonT(40), <1>1, <2>4 DEF FinArrive, TypeOK, senderVars, receiverVars
  <2>5. CASE Tick
    <3>1. now' \in Nat
      BY <1>1, <2>5 DEF Tick, TypeOK
    <3> QED
      BY ZenonT(40), <1>1, <2>5, <3>1 DEF Tick, TypeOK, senderVars, kernelVars, receiverVars
  <2>6. CASE OnReadable
    BY <1>1, <2>6 DEF OnReadable, TypeOK, senderVars
  <2>7. CASE DropReceiver
    BY <1>1, <2>7 DEF DropReceiver, TypeOK, senderVars, kernelVars
  <2>8. CASE UNCHANGED vars
    BY ZenonT(80), <1>1, <2>8 DEF vars, TypeOK, senderVars, kernelVars, receiverVars
  <2> QED
    BY <2>1, <2>2, <2>3, <2>4, <2>5, <2>6, <2>7, <2>8
<1>3. BytesInv' /\ Line' = Line /\ Live' = Live
  BY <1>1, <1>2, LineSame
<1>4. QueueInv' /\ PlacesInv' /\ CallInv' /\ WakeInv'
  <2>1. wr_event \/ reset \/ MustWait => wr_event' \/ reset' \/ MustWait'
    BY <1>2 DEF MustWait
  <2> QED
    BY <1>2, <2>1, SenderIdle
<1> QED
  BY <1>2, <1>3, <1>4 DEF SendInv

(* stream.read hands bytes to the reader: the line stays. *)
LEMMA RecvDataStep ==
  ASSUME SendInv, RecvData
  PROVE  /\ SendInv' /\ Line' = Line /\ Live' = Live
         /\ \E n \in 1 .. Len(rcv) :
              /\ msg_reader' = put_buf(msg_reader, SubSeq(rcv, 1, n))
              /\ msg_reader'.read_buffer = msg_reader.read_buffer \o SubSeq(rcv, 1, n)
              /\ msg_reader'.read_len = msg_reader.read_len
              /\ rcv' = SubSeq(rcv, n + 1, Len(rcv))
<1> DEFINE C == Cells(Frame)
           rb == msg_reader.read_buffer
           n == IF Len(rcv) < BufLen THEN Len(rcv) ELSE BufLen
           a == SubSeq(rcv, 1, n)
           e == SubSeq(rcv, n + 1, Len(rcv))
<1>1. TypeOK /\ BytesInv
  BY DEF SendInv
<1>2. /\ n > 0 /\ msg_reader' = put_buf(msg_reader, a) /\ rcv' = e /\ is_something_read' = TRUE
      /\ UNCHANGED <<out_queue, current_write, enc_ctx, w_pc, w_msg, w_ret, established, snd, fin,
                     reset, wr_event, rd_event, dec_ctx, r_pc, r_ret, now, next_id, written,
                     delivered, shed>>
  BY DEF RecvData, senderVars
<1>3. /\ rb \in Seq(C) /\ rcv \in Seq(C) /\ snd \o Unsent \in Seq(C)
      /\ msg_reader \in Readers(Frame)
  BY <1>1, BufferTypes
<1>4. n \in 1 .. Len(rcv) /\ n \in 0 .. Len(rcv)
  <2>1. BufLen \in Nat /\ Len(rcv) \in Nat
    BY <1>3, TcpAssumption DEF TcpAssumption
  <2> QED
    BY <1>2, <2>1
<1> HIDE DEF n
<1>5. a \in Seq(C) /\ e \in Seq(C) /\ a \o e = rcv
  BY <1>3, <1>4, PartShape
<1> HIDE DEF C, a, e
<1>6. /\ msg_reader'.read_buffer = rb \o a /\ msg_reader'.read_len = msg_reader.read_len
      /\ msg_reader' = [read_buffer |-> rb \o a, read_len |-> msg_reader.read_len]
  BY <1>2, <1>3 DEF put_buf, Readers
<1>7. Live' = Live /\ InProgress' = InProgress
  BY <1>2 DEF Live, InProgress
<1>8. Unsent' = Unsent
  BY <1>2, <1>7 DEF Unsent
<1>9. Line' = Line
  <2> DEFINE t == snd \o Unsent
  <2>1. t \in Seq(C)
    BY <1>3 DEF C
  <2> HIDE DEF t, rb
  <2>2. Buffers(C, rb, a, e, t)
    BY <1>3, <1>5, <2>1 DEF Buffers, C
  <2>3. (rb \o a) \o (e \o t) = rb \o ((a \o e) \o t)
    BY <2>2, MoveBytes
  <2>4. (rb \o a) \o (e \o t) = rb \o (rcv \o t)
    BY <1>5, <2>3
  <2> QED
    BY <1>2, <1>6, <1>8, <2>4 DEF Line, t, rb
<1>10. BytesInv'
  BY <1>1, <1>2, <1>7, <1>9 DEF BytesInv
<1>11. QueueInv' /\ PlacesInv' /\ CallInv' /\ WakeInv'
  <2>1. wr_event \/ reset \/ MustWait => wr_event' \/ reset' \/ MustWait'
    BY <1>2 DEF MustWait
  <2> QED
    BY <1>2, <2>1, SenderIdle
<1>12. TypeOK'
  <2>1. rb \o a \in Seq(C)
    <3>1. rb \in Seq(C) /\ a \in Seq(C)
      BY <1>3, <1>5 DEF C
    <3> QED
      BY <3>1, ConcatProperties
  <2> HIDE DEF rb
  <2>2. rb \o a \in Seq(Cell) /\ rcv' \in Seq(Cell)
    BY <1>2, <1>5, <2>1, FrameShape DEF C
  <2>3. msg_reader' \in [read_buffer : Seq(Cell), read_len : Nat]
    BY <1>3, <1>6, <2>2 DEF Readers
  <2>4. {established, reset, wr_event, rd_event, is_something_read}' \subseteq BOOLEAN
    BY <1>1, <1>2 DEF TypeOK
  <2>5. {current_write, snd, rcv}' \subseteq Seq(Cell)
    BY <1>1, <1>2, <2>2 DEF TypeOK
  <2> QED
    BY ZenonT(40), <1>1, <1>2, <2>3, <2>4, <2>5 DEF TypeOK
<1> QED
  BY <1>2, <1>4, <1>6, <1>7, <1>9, <1>10, <1>11, <1>12 DEF SendInv, a, e

(* The steps that look into the reader's buffer or end a call of read. *)
ReadStep == ReadBuffered \/ RecvWouldBlock \/ RecvInterrupted \/ RecvEof \/ RecvErr

(* The loop of read ends, and res is what that alone makes read return. *)
LoopEndsWith(res) ==
  \/ RecvWouldBlock /\ res = None
  \/ RecvInterrupted /\ res = [tag |-> "Interrupted"]
  \/ RecvEof /\ res = Err("ZeroByteRead")

(* They take an outcome of try_read, or leave the reader alone. *)
LEMMA ReadEffect ==
  ASSUME ReadStep
  PROVE  /\ UNCHANGED <<senderVars, kernelVars, dec_ctx, now, next_id, written, shed>>
         /\ \/ \E o \in try_read(msg_reader, dec_ctx) :
                 /\ msg_reader' = o.reader
                 /\ \/ /\ o.res = None /\ r_pc = "ready" /\ r_pc' = "recv" /\ r_ret' = "-"
                       /\ UNCHANGED <<delivered, is_something_read>>
                    \/ /\ o.res # None /\ ReadReturns(o.res)
                       /\ \/ r_pc = "ready" /\ UNCHANGED is_something_read
                          \/ r_pc = "recv" /\ is_something_read' = FALSE
                    \/ /\ o.res = None /\ r_pc = "recv" /\ is_something_read' = FALSE
                       /\ \E res : LoopEndsWith(res) /\ ReadReturns(res)
            \/ /\ ~is_something_read /\ r_pc = "recv" /\ is_something_read' = FALSE
               /\ UNCHANGED msg_reader
               /\ \E res : LoopEndsWith(res) /\ ReadReturns(res)
            \/ /\ r_pc = "recv" /\ reset /\ is_something_read' = FALSE
               /\ UNCHANGED msg_reader /\ ReadReturns(Err("Io"))
<1>1. CASE ReadBuffered
  BY <1>1 DEF ReadBuffered
<1> DEFINE B == UNCHANGED <<senderVars, kernelVars, dec_ctx, now, next_id, written, shed>>
<1>2. ASSUME NEW or, LoopEnds(or)
      PROVE  /\ B /\ is_something_read' = FALSE
             /\ \/ \E o \in try_read(msg_reader, dec_ctx) :
                     /\ msg_reader' = o.reader
                     /\ \/ o.res # None /\ ReadReturns(o.res)
                        \/ o.res = None /\ ReadReturns(or)
                \/ ~is_something_read /\ ReadReturns(or) /\ UNCHANGED msg_reader
  <2>1. B /\ is_something_read' = FALSE
    BY <1>2 DEF LoopEnds
  <2>2. \/ \E o \in try_read(msg_reader, dec_ctx) :
             msg_reader' = o.reader /\ ReadReturns(IF o.res = None THEN or ELSE o.res)
        \/ ~is_something_read /\ ReadReturns(or) /\ UNCHANGED msg_reader
    BY <1>2 DEF LoopEnds
  <2> QED
    BY <2>1, <2>2
<1>3. CASE RecvWouldBlock
  <2>1. r_pc = "recv" /\ LoopEnds(None) /\ LoopEndsWith(None)
    BY <1>3 DEF RecvWouldBlock, NothingToRead, LoopEndsWith
  <2> QED
    BY <1>2, <2>1
<1>4. CASE RecvInterrupted
  <2> DEFINE or == [tag |-> "Interrupted"]
  <2>1. r_pc = "recv" /\ LoopEnds(or) /\ LoopEndsWith(or)
    BY <1>4 DEF RecvInterrupted, LoopEndsWith
  <2> HIDE DEF or
  <2> QED
    BY <1>2, <2>1
<1>5. CASE RecvEof
  <2>1. r_pc = "recv" /\ LoopEnds(Err("ZeroByteRead")) /\ LoopEndsWith(Err("ZeroByteRead"))
    BY <1>5 DEF RecvEof, AtEof, LoopEndsWith
  <2> QED
    BY <1>2, <2>1
<1>6. CASE RecvErr
  BY <1>6 DEF RecvErr, LoopEndsAtOnce
<1> QED
  BY <1>1, <1>3, <1>4, <1>5, <1>6 DEF ReadStep

(* What a call of read returns has its type. *)
LEMMA ReturnTypes ==
  ASSUME TypeOK, NEW res, ReadReturns(res),
         \/ res \in {None, [tag |-> "Interrupted"]}
         \/ res \in {Err("Crypto"), Err("PayloadSizeProhibitive"), Err("ZeroByteRead"), Err("Io")}
         \/ \E id, size \in Nat : res = Some(id, size)
  PROVE  /\ r_pc' \in {"idle", "ready", "closed"}
         /\ r_ret' \in {"Some", "None", "Interrupted", "Crypto", "PayloadSizeProhibitive",
                        "ZeroByteRead", "Io"}
         /\ delivered' \in Seq([id : Nat, size : Nat])
         /\ res \in {None, [tag |-> "Interrupted"]} =>
              r_pc' = "idle" /\ r_ret' = res.tag /\ delivered' = delivered
         /\ \A e : res = Err(e) =>
              /\ r_pc' = (IF e \in KeepOnErr THEN "ready" ELSE "closed")
              /\ r_ret' = e /\ delivered' = delivered
         /\ \A id, size : res = Some(id, size) =>
              /\ r_pc' = "ready" /\ r_ret' = "Some"
              /\ delivered' = Append(delivered, [id |-> id, size |-> size])
<1>1. delivered \in Seq([id : Nat, size : Nat])
  BY DEF TypeOK
<1>2. CASE res \in {None, [tag |-> "Interrupted"]}
  <2>1. res.tag \in {"None", "Interrupted"}
    BY <1>2 DEF None
  <2>2. r_pc' = "idle" /\ r_ret' = res.tag /\ delivered' = delivered
    BY <2>1 DEF ReadReturns
  <2>3. (\A e : res # Err(e)) /\ (\A id, size : res # Some(id, size))
    BY <2>1, Results
  <2> QED
    BY <1>1, <2>1, <2>2, <2>3
<1>3. ASSUME NEW e, e \in {"Crypto", "PayloadSizeProhibitive", "ZeroByteRead", "Io"}, res = Err(e)
      PROVE  /\ r_pc' = (IF e \in KeepOnErr THEN "ready" ELSE "closed")
             /\ r_ret' = e /\ delivered' = delivered
             /\ res \notin {None, [tag |-> "Interrupted"]}
             /\ (\A x : res = Err(x) => x = e) /\ (\A id, size : res # Some(id, size))
  <2>1. res.tag = "Err" /\ res.err = e
    BY <1>3, Results
  <2>2. /\ r_pc' = (IF e \in KeepOnErr THEN "ready" ELSE "closed")
        /\ r_ret' = e /\ delivered' = delivered
    BY <2>1 DEF ReadReturns
  <2>3. res # None /\ res # [tag |-> "Interrupted"]
    BY <2>1, Results
  <2>4. (\A x : res = Err(x) => x = e) /\ (\A id, size : res # Some(id, size))
    BY <2>1, Results
  <2> QED
    BY <2>2, <2>3, <2>4
<1>4. ASSUME NEW i \in Nat, NEW s \in Nat, res = Some(i, s)
      PROVE  /\ r_pc' = "ready" /\ r_ret' = "Some"
             /\ delivered' = Append(delivered, [id |-> i, size |-> s])
             /\ delivered' \in Seq([id : Nat, size : Nat])
             /\ res \notin {None, [tag |-> "Interrupted"]} /\ (\A x : res # Err(x))
             /\ \A id, size : res = Some(id, size) => id = i /\ size = s
  <2>1. res.tag = "Some" /\ res.id = i /\ res.size = s
    BY <1>4, Results
  <2>2. /\ r_pc' = "ready" /\ r_ret' = "Some"
        /\ delivered' = Append(delivered, [id |-> i, size |-> s])
    BY <2>1 DEF ReadReturns
  <2>3. delivered' \in Seq([id : Nat, size : Nat])
    BY <1>1, <2>2
  <2>4. res # None /\ res # [tag |-> "Interrupted"] /\ (\A x : res # Err(x))
    BY <2>1, Results
  <2>5. \A id, size : res = Some(id, size) => id = i /\ size = s
    BY <2>1, Results
  <2> QED
    BY <2>2, <2>3, <2>4, <2>5
<1>5. CASE res \in {Err("Crypto"), Err("PayloadSizeProhibitive"), Err("ZeroByteRead"), Err("Io")}
  <2>1. PICK e \in {"Crypto", "PayloadSizeProhibitive", "ZeroByteRead", "Io"} : res = Err(e)
    BY <1>5
  <2>2. r_pc' \in {"ready", "closed"} /\ r_ret' = e /\ delivered' = delivered
    BY <1>3, <2>1
  <2> QED
    BY <1>1, <1>3, <2>1, <2>2
<1>6. CASE \E id, size \in Nat : res = Some(id, size)
  <2>1. PICK i \in Nat, s \in Nat : res = Some(i, s)
    BY <1>6
  <2>2. /\ r_pc' = "ready" /\ r_ret' = "Some"
        /\ delivered' = Append(delivered, [id |-> i, size |-> s])
        /\ delivered' \in Seq([id : Nat, size : Nat])
        /\ res \notin {None, [tag |-> "Interrupted"]} /\ (\A x : res # Err(x))
        /\ \A id, size : res = Some(id, size) => id = i /\ size = s
    BY <1>4, <2>1
  <2>3. \A id, size : res = Some(id, size) =>
          delivered' = Append(delivered, [id |-> id, size |-> size])
    BY <2>2
  <2> QED
    BY <2>2, <2>3
<1> QED
  BY <1>2, <1>5, <1>6

(* try_read takes what it takes off the front of the line. *)
LEMMA TakeStep ==
  ASSUME SendInv, NEW o \in try_read(msg_reader, dec_ctx), msg_reader' = o.reader,
         UNCHANGED <<rcv, snd, current_write, w_pc, reset, written>>
  PROVE  /\ BytesInv' /\ Live' = Live /\ msg_reader' \in Readers(Frame)
         /\ \A k \in 0 .. Len(msg_reader.read_buffer) :
              msg_reader'.read_buffer =
                  SubSeq(msg_reader.read_buffer, k + 1, Len(msg_reader.read_buffer)) =>
                k \in 0 .. Len(Line) /\ Line' = SubSeq(Line, k + 1, Len(Line))
         /\ \/ o.res \in {None, Err("Crypto"), Err("PayloadSizeProhibitive")}
            \/ \E id, size \in Nat : o.res = Some(id, size)
<1> DEFINE C == Cells(Frame)
           rb == msg_reader.read_buffer
           t == rcv \o (snd \o Unsent)
<1>1. TypeOK /\ BytesInv
  BY DEF SendInv
<1>2. msg_reader \in Readers(Frame) /\ rb \in Seq(C) /\ t \in Seq(C) /\ FrameSet(Frame)
  BY <1>1, BufferTypes, FrameShape
<1>3. /\ msg_reader' \in Readers(Frame)
      /\ \E k \in 0 .. Len(rb) : msg_reader'.read_buffer = SubSeq(rb, k + 1, Len(rb))
      /\ \/ o.res \in {None, Err("Crypto"), Err("PayloadSizeProhibitive")}
         \/ \E id, size \in Nat : o.res = Some(id, size)
  BY <1>2, ReadShape
<1>4. Live' = Live /\ InProgress' = InProgress /\ Live \in BOOLEAN
  BY DEF Live, InProgress
<1>5. Unsent' = Unsent
  BY <1>4 DEF Unsent
<1>6. Line = rb \o t /\ Line' = msg_reader'.read_buffer \o t
  BY <1>5 DEF Line
<1>7. ASSUME NEW k \in 0 .. Len(rb), msg_reader'.read_buffer = SubSeq(rb, k + 1, Len(rb))
      PROVE  k \in 0 .. Len(Line) /\ Line' = SubSeq(Line, k + 1, Len(Line))
  <2> HIDE DEF C, rb, t
  <2>1. Parts(C, rb, t, k)
    BY <1>2 DEF Parts
  <2>2. k \in 0 .. Len(rb \o t) /\ After(rb, k) \o t = After(rb \o t, k)
    BY <2>1, FrontTaken
  <2>3. Line' = After(rb, k) \o t
    BY <1>6, <1>7 DEF After
  <2>4. k \in 0 .. Len(Line) /\ Line' = After(Line, k)
    BY <1>6, <2>2, <2>3
  <2> QED
    BY <2>4 DEF After
<1>8. BytesInv'
  <2>1. PICK k \in 0 .. Len(rb) : msg_reader'.read_buffer = SubSeq(rb, k + 1, Len(rb))
    BY <1>3
  <2>2. k \in 0 .. Len(Line) /\ Line' = SubSeq(Line, k + 1, Len(Line))
    BY <1>7, <2>1
  <2>3. LineInv(Frame, Line, written, Live, InProgress)
    BY <1>1 DEF BytesInv
  <2>4. LineInv(Frame, SubSeq(Line, k + 1, Len(Line)), written, Live, InProgress)
    BY <1>2, <1>4, <2>2, <2>3, LineSuffix
  <2> QED
    BY <1>4, <2>2, <2>4 DEF BytesInv
<1> QED
  BY <1>3, <1>4, <1>7, <1>8

(* A step of a call of read. *)
LEMMA ReaderStep ==
  ASSUME SendInv, ReadStep
  PROVE  SendInv' /\ Live' = Live
<1>1. TypeOK /\ BytesInv
  BY DEF SendInv
<1>2. UNCHANGED <<out_queue, current_write, enc_ctx, w_pc, w_msg, w_ret, established, snd, rcv, fin,
                  reset, wr_event, rd_event, dec_ctx, now, next_id, written, shed>>
  BY ReadEffect DEF senderVars, kernelVars
<1>3. QueueInv' /\ PlacesInv' /\ CallInv' /\ WakeInv'
  <2>1. wr_event \/ reset \/ MustWait => wr_event' \/ reset' \/ MustWait'
    BY <1>2 DEF MustWait
  <2> QED
    BY <1>2, <2>1, SenderIdle
<1>4. /\ BytesInv' /\ Live' = Live /\ msg_reader' \in Readers(Frame)
  <2>1. CASE \E o \in try_read(msg_reader, dec_ctx) : msg_reader' = o.reader
    BY <1>2, <2>1, TakeStep
  <2>2. CASE msg_reader' = msg_reader
    BY <1>1, <1>2, <2>2, LineSame, BufferTypes
  <2> QED
    BY <2>1, <2>2, ReadEffect
<1>5. is_something_read' \in BOOLEAN
  BY <1>1, ReadEffect DEF TypeOK
<1>6. \A res : LoopEndsWith(res) => res \in {None, [tag |-> "Interrupted"]} \/ res = Err("ZeroByteRead")
  BY DEF LoopEndsWith
<1>7. /\ r_pc' \in {"idle", "ready", "recv", "closed"}
      /\ r_ret' \in {"-", "Some", "None", "Interrupted", "Crypto", "PayloadSizeProhibitive",
                     "ZeroByteRead", "Io"}
      /\ delivered' \in Seq([id : Nat, size : Nat])
  <2>1. CASE \E res : LoopEndsWith(res) /\ ReadReturns(res)
    BY <1>1, <1>6, <2>1, ReturnTypes
  <2>2. CASE ReadReturns(Err("Io"))
    BY <1>1, <2>2, ReturnTypes
  <2>3. ASSUME NEW o \in try_read(msg_reader, dec_ctx), msg_reader' = o.reader, ReadReturns(o.res)
        PROVE  /\ r_pc' \in {"idle", "ready", "closed"}
               /\ r_ret' \in {"Some", "None", "Interrupted", "Crypto", "PayloadSizeProhibitive",
                              "ZeroByteRead", "Io"}
               /\ delivered' \in Seq([id : Nat, size : Nat])
    <3>1. \/ o.res \in {None, Err("Crypto"), Err("PayloadSizeProhibitive")}
          \/ \E id, size \in Nat : o.res = Some(id, size)
      BY <1>2, <2>3, TakeStep
    <3> QED
      BY <1>1, <2>3, <3>1, ReturnTypes
  <2> QED
    BY <1>1, <2>1, <2>2, <2>3, ReadEffect DEF TypeOK
<1>8. TypeOK'
  <2>1. msg_reader' \in [read_buffer : Seq(Cell), read_len : Nat]
    BY <1>4, FrameShape DEF Readers
  <2>2. {established, reset, wr_event, rd_event, is_something_read}' \subseteq BOOLEAN
    BY <1>1, <1>2, <1>5 DEF TypeOK
  <2> QED
    BY <1>1, <1>2, <1>7, <2>1, <2>2 DEF TypeOK
<1> QED
  BY <1>3, <1>4, <1>8 DEF SendInv

-----------------------------------------------------------------------------
(* The invariant of the sender and of the line holds.                       *)

(* It holds initially ... *)
LEMMA SendInit == Init => SendInv
<1> SUFFICES ASSUME Init PROVE SendInv
  OBVIOUS
<1>1. /\ established \in BOOLEAN /\ snd = <<>> /\ rcv = <<>> /\ fin = "no" /\ reset = FALSE
      /\ wr_event = FALSE /\ rd_event = FALSE
      /\ out_queue = new /\ current_write = <<>> /\ enc_ctx = FirstCtx
      /\ w_pc = "idle" /\ w_msg = 0 /\ w_ret = "-"
      /\ msg_reader = [read_buffer |-> <<>>, read_len |-> 0] /\ dec_ctx = FirstCtx
      /\ is_something_read = FALSE /\ r_pc = "idle" /\ r_ret = "-"
      /\ now = 0 /\ next_id = 1 /\ written = <<>> /\ delivered = <<>> /\ shed = {}
  BY DEF Init, InitStream, new_reader
<1>2. FrameQueue(new, Frame, 0) /\ QFrames(new) = {} /\ DOMAIN new = {}
  BY FrameShape, NewFrames
<1>3. QueueInv
  BY <1>1, <1>2 DEF QueueInv
<1>4. InProgress = {} /\ Done(written) = {} /\ Known = {} /\ ~HasData
  BY <1>1, <1>2 DEF InProgress, Done, Known, HasData
<1>5. PlacesInv /\ CallInv /\ WakeInv
  BY <1>1, <1>2, <1>4 DEF PlacesInv, CallInv, WakeInv
<1>6. TypeOK
  <2>1. DOMAIN out_queue \subseteq Priority
        /\ out_queue \in [DOMAIN out_queue -> Seq([at : Nat, msg : Seq(Cell)])]
    BY <1>1, <1>2, QueueType
  <2>2. /\ {current_write, snd, rcv} \subseteq Seq(Cell) /\ written \in Seq(Frame)
        /\ delivered \in Seq([id : Nat, size : Nat])
        /\ msg_reader \in [read_buffer : Seq(Cell), read_len : Nat]
    BY <1>1
  <2>3. /\ {established, reset, wr_event, rd_event, is_something_read} \subseteq BOOLEAN
        /\ {now, w_msg} \subseteq Nat /\ next_id \in Nat \ {0} /\ shed \subseteq Frame
    <3>1. /\ established \in BOOLEAN /\ reset \in BOOLEAN /\ wr_event \in BOOLEAN
          /\ rd_event \in BOOLEAN /\ is_something_read \in BOOLEAN
      BY <1>1
    <3>2. now \in Nat /\ w_msg \in Nat /\ next_id \in Nat \ {0} /\ shed \subseteq Frame
      BY <1>1
    <3> QED
      BY <3>1, <3>2
  <2>4. /\ {enc_ctx, dec_ctx} \subseteq {FirstCtx, SecondCtx}
        /\ w_pc \in {"idle", "flush", "closed"}
        /\ w_ret \in {"-", "true", "false", "Interrupted", "Io"}
        /\ fin \in {"no", "sent", "arrived"}
        /\ r_pc \in {"idle", "ready", "recv", "closed"}
        /\ r_ret \in {"-", "Some", "None", "Interrupted", "Crypto", "PayloadSizeProhibitive",
                      "ZeroByteRead", "Io"}
    BY <1>1
  <2> QED
    BY <2>1, <2>2, <2>3, <2>4 DEF TypeOK
<1>7. BytesInv
  <2>1. Live = TRUE /\ Unsent = <<>>
    BY <1>1 DEF Live, Unsent
  <2>2. Line = <<>>
    <3>1. <<>> \o <<>> = <<>>
      OBVIOUS
    <3> QED
      BY <1>1, <2>1, <3>1 DEF Line
  <2>3. LineInv(Frame, <<>>, <<>>, TRUE, {})
    BY DEF LineInv, Unbroken, Chained, EndsWhole, Done
  <2> QED
    BY <1>1, <1>4, <2>1, <2>2, <2>3 DEF BytesInv
<1> QED
  BY <1>3, <1>5, <1>6, <1>7 DEF SendInv

(* ... and every step keeps it. *)
LEMMA SendNext == SendInv /\ [Next]_vars => SendInv'
<1> SUFFICES ASSUME SendInv, [Next]_vars PROVE SendInv'
  OBVIOUS
<1>1. CASE Sender
  <2>1. CASE Flush
    BY <2>1, FlushDoneStep, FlushSendStep, FlushKeptStep, FlushErrStep DEF Flush
  <2> QED
    BY <1>1, <2>1, WriteStep, StillStep, DropSenderStep DEF Sender
<1>2. CASE Receiver
  BY <1>2, StillStep, RecvDataStep, ReaderStep DEF Receiver, Recv, ReadStep
<1>3. CASE Kernel
  BY <1>3, DeliverStep, StillStep, ResetStep DEF Kernel
<1>4. CASE Tick \/ UNCHANGED vars
  BY <1>4, StillStep
<1> QED
  BY <1>1, <1>2, <1>3, <1>4 DEF Next

(* The queue, the frame in progress, the messages of calls and the bytes on *)
(* the way are always as SendInv says.                                      *)
THEOREM TcpInvariant == Spec => []SendInv
<1> QED
  BY SendInit, SendNext, PTL DEF Spec

(* The variables of the connection have their types. *)
THEOREM TcpTypeCorrect == Spec => []TypeOK
<1>1. SendInv => TypeOK
  BY DEF SendInv
<1> QED
  BY <1>1, TcpInvariant, PTL

(* flush_write_until_would_block leaves nothing behind that no event comes  *)
(* for.                                                                     *)
THEOREM WritesWake == Spec => []NoStrandedWrite
<1>1. SendInv => NoStrandedWrite
  BY DEF SendInv, WakeInv, NoStrandedWrite
<1> QED
  BY <1>1, TcpInvariant, PTL

(* write returns Ok(true) for a message whose last byte the kernel has. *)
THEOREM OkTrueCorrect == Spec => []OkTrueMeansWritten
<1>1. SendInv => OkTrueMeansWritten
  <2> SUFFICES ASSUME SendInv, w_ret = "true", w_msg # 0
               PROVE  \E i \in 1 .. Len(written) : written[i].id = w_msg
    BY DEF OkTrueMeansWritten
  <2>1. \E f \in Done(written) : f.id = w_msg
    BY DEF SendInv, CallInv
  <2> QED
    BY <2>1 DEF Done
<1> QED
  BY <1>1, TcpInvariant, PTL

(* While the connection lasts, the line is the stream. *)
LEMMA StreamIsLine ==
  ASSUME SendInv, ~reset
  PROVE  Stream = Line /\ Unsent = current_write
<1>1. TypeOK /\ WakeInv
  BY DEF SendInv
<1>2. Unsent = current_write
  BY <1>1 DEF Unsent, Live, WakeInv, HasData
<1>3. Buffers(Cells(Frame), msg_reader.read_buffer, rcv, snd, current_write)
  BY <1>1, BufferTypes DEF Buffers
<1> DEFINE rb == msg_reader.read_buffer
           cw == current_write
<1>4. Buffers(Cells(Frame), rb, rcv, snd, cw)
  BY <1>3
<1> HIDE DEF rb, cw
<1>5. ((rb \o rcv) \o snd) \o cw = rb \o (rcv \o (snd \o cw))
  BY SMTT(20), <1>4, LineWhole
<1> QED
  BY <1>2, <1>5 DEF Stream, Line, rb, cw

(* However writes, urgent messages, expiry, changes of context and system   *)
(* calls interleave, no frame on the wire is cut open by another.           *)
THEOREM FramesWhole == Spec => []WellFramed
<1>1. SendInv => WellFramed
  <2> SUFFICES ASSUME SendInv PROVE WellFramed
    OBVIOUS
  <2>1. QueueInv /\ BytesInv /\ FrameSet(Frame) /\ Live \in BOOLEAN
    BY FrameShape DEF SendInv, Live
  <2>2. ASSUME ~reset, NEW i \in 1 .. Len(Stream) - 1
        PROVE  Follows(Stream[i], Stream[i + 1])
    <3> DEFINE s == Line
    <3>1. Stream = s
      BY <2>2, StreamIsLine
    <3>2. LineInv(Frame, s, written, Live, InProgress)
      BY <2>1 DEF BytesInv
    <3> HIDE DEF s
    <3>3. i \in 1 .. Len(s) - 1
      BY <2>2, <3>1
    <3>4. /\ s[i].k < FrameLen(s[i].frame) => s[i + 1] = [frame |-> s[i].frame, k |-> s[i].k + 1]
          /\ ~(s[i].k < FrameLen(s[i].frame)) => s[i + 1].frame # s[i].frame /\ s[i + 1].k = 1
      BY <2>1, <3>2, <3>3, LineNext
    <3> QED
      BY <3>1, <3>4 DEF Follows, FrameLen
  <2>3. ASSUME current_write # <<>>
        PROVE  LET last == current_write[Len(current_write)]
               IN  last.k = encrypted_size_len(last.frame.ctx) + last.frame.len
    <3> DEFINE c == current_write
               f == c[1].frame
    <3>1. IsRest(c, Frame)
      BY <2>1, <2>3 DEF QueueInv
    <3>2. /\ c \in Seq(Cells(Frame)) /\ c # <<>> /\ c[1].k \in 1 .. FrameLen(f)
          /\ Len(c) = FrameLen(f) - c[1].k + 1
          /\ \A i \in 1 .. Len(c) : c[i] = [frame |-> f, k |-> c[1].k + i - 1]
      BY <3>1 DEF IsRest
    <3>3. Len(c) \in 1 .. Len(c) /\ 1 \in 1 .. Len(c)
      BY <3>2
    <3>4. FrameLen(f) \in Nat
      BY <2>1, <3>2, <3>3, LineTypes
    <3>5. c[Len(c)] = [frame |-> f, k |-> c[1].k + Len(c) - 1]
      BY <3>2, <3>3
    <3>6. c[1].k + Len(c) - 1 = FrameLen(f)
      BY <3>2, <3>4
    <3> QED
      BY <3>5, <3>6 DEF FrameLen
  <2> QED
    BY <2>2, <2>3 DEF WellFramed
<1> QED
  BY <1>1, TcpInvariant, PTL

(* An urgent message waits for the frame being written and for no other.    *)
THEOREM UrgentCorrect == Spec => UrgentFirst
<1> DEFINE A == current_write = <<>> /\ Len(snd') > Len(snd) =>
                  \A f \in FramesOf(Queued(out_queue)) :
                    snd'[Len(snd')].frame.priority <= f.priority
<1>1. SendInv /\ [Next]_vars => [A]_vars
  <2> SUFFICES ASSUME SendInv, Next, current_write = <<>>, Len(snd') > Len(snd),
                      NEW g \in FramesOf(Queued(out_queue))
               PROVE  snd'[Len(snd')].frame.priority <= g.priority
    OBVIOUS
  <2>1. TypeOK /\ QueueInv /\ PlacesInv /\ snd \in Seq(Cells(Frame)) /\ Len(snd) \in Nat
    BY BufferTypes DEF SendInv
  <2>2. PICK n \in 1 .. SndCap : FlushSend(n)
    <3>1. CASE snd' = snd
      BY <2>1, <3>1
    <3>2. CASE snd' = <<>>
      BY <2>1, <3>2
    <3>3. ASSUME NEW n \in 1 .. RcvCap, Deliver(n)
          PROVE  FALSE
      <4>1. n \in 0 .. Len(snd) /\ n # 0
        <5>1. RcvCap \in Nat
          BY TcpAssumption DEF TcpAssumption
        <5> QED
          BY <2>1, <3>3, <5>1 DEF Deliver
      <4>2. Len(snd') = Len(snd) - n
        BY <2>1, <3>3, <4>1, PartShape DEF Deliver
      <4> QED
        BY <2>1, <4>1, <4>2
    <3>4. CASE Sender
      <4>1. CASE Flush
        BY <3>1, <4>1 DEF Flush, FlushDone, FlushWouldBlock, FlushInterrupted, FlushErr, NotSent, kernelVars
      <4>2. CASE ~Flush
        BY <3>1, <3>4, <4>2 DEF Sender, Write, WriteUnencodable, OnWritable, StartWrite,
                                SetEncryptCtx, DropSender, kernelVars
      <4> QED
        BY <4>1, <4>2
    <3>5. CASE ReadStep
      BY <3>1, <3>5, ReadEffect DEF kernelVars
    <3>6. CASE Receiver /\ ~ReadStep
      BY <3>1, <3>6 DEF Receiver, Recv, ReadStep, OnReadable, RecvData, SetDecryptCtx,
                        DropReceiver, kernelVars
    <3>7. CASE Kernel
      BY <3>1, <3>2, <3>3, <3>7 DEF Kernel, Establish, FinArrive, Reset
    <3>8. CASE Tick
      BY <3>1, <3>8 DEF Tick, kernelVars
    <3> QED
      BY <3>4, <3>5, <3>6, <3>7, <3>8 DEF Next
  <2> DEFINE d == Data
             a == SubSeq(d, 1, n)
  <2>3. HasData /\ n <= Len(d) /\ snd' = snd \o a
    BY <2>2 DEF FlushSend, Sent, Turn, KernelTakes
  <2>4. IsRest(d, Frame) /\ d \in Seq(Cells(Frame))
        /\ \A h \in QFrames(out_queue) : d[1].frame.priority <= h.priority
    BY <2>1, <2>3, DataShape
  <2>5. n \in 0 .. Len(d) /\ n \in 1 .. Len(d) /\ n \in 1 .. n
    <3>1. SndCap \in Nat
      BY TcpAssumption DEF TcpAssumption
    <3> QED
      BY <2>3, <2>4, <3>1
  <2>6. a \in Seq(Cells(Frame)) /\ Len(a) = n /\ a[n] = d[n]
    BY <2>4, <2>5, PartShape
  <2>7. d[n].frame = d[1].frame
    <3>1. \A i \in 1 .. Len(d) : d[i] = [frame |-> d[1].frame, k |-> d[1].k + i - 1]
      BY <2>4 DEF IsRest
    <3> DEFINE f == d[1].frame
               m == d[1].k + n - 1
    <3>2. d[n] = [frame |-> f, k |-> m]
      BY <2>5, <3>1
    <3> HIDE DEF f, m
    <3>3. d[n].frame = f
      BY <3>2
    <3> QED
      BY <3>3 DEF f
  <2>8. g \in QFrames(out_queue)
    BY FrameShape
  <2> HIDE DEF d, a
  <2>9. snd'[Len(snd')] = a[n]
    <3>1. snd \in Seq(Cells(Frame)) /\ a \in Seq(Cells(Frame))
      BY <2>1, <2>6
    <3>2. Len(snd \o a) = Len(snd) + Len(a) /\ \A i \in 1 .. Len(a) : (snd \o a)[Len(snd) + i] = a[i]
      BY ONLY <3>1, ConcatParts
    <3> QED
      BY <2>3, <2>5, <2>6, <3>2
  <2> QED
    BY <2>4, <2>6, <2>7, <2>8, <2>9
<1> QED
  BY <1>1, TcpInvariant, PTL DEF Spec, UrgentFirst

-----------------------------------------------------------------------------
(* The receiver.                                                            *)

(* What it takes for every frame to be readable: no header says that the    *)
(* body is empty; the application drops its socket after a message that is  *)
(* too large, since the header of it stays; and a frame's context can tell  *)
(* its bytes from others: both ends encrypt, or neither does and lengths    *)
(* fit their header.  (Without the first two, or with long messages, what   *)
(* follows is false.)                                                       *)
Decodable ==
  /\ \A l \in Lens : l % U32 # 0
  /\ "PayloadSizeProhibitive" \notin KeepOnErr
  /\ \/ NullCtx \notin {FirstCtx, SecondCtx}
     \/ FirstCtx = SecondCtx /\ \A l \in Lens : l < U32

(* What was written whole can still arrive whole. *)
Whole == ~reset \/ fin = "arrived"

(* The reader stands at the next message, with or without its length, until *)
(* its socket is dropped.                                                   *)
PositionInv ==
  r_pc # "closed" =>
    Position(Line, written, Len(delivered), msg_reader.read_len, Live, Whole)

(* A call of read goes on to the kernel, or gives up, only when the reader  *)
(* needs more bytes.                                                        *)
WaitInv ==
  /\ r_pc = "recv" /\ ~is_something_read => Starved(msg_reader, dec_ctx)
  /\ r_pc = "idle" => /\ Starved(msg_reader, dec_ctx)
                      /\ rd_event \/ r_ret = "Interrupted" \/ rcv = <<>>

(* The end of the stream comes behind everything. *)
FinInv ==
  /\ fin # "no" => w_pc = "closed"
  /\ fin = "arrived" => snd = <<>>

EofInv == r_ret = "ZeroByteRead" => Len(delivered) = Len(written) /\ w_pc = "closed"

ReadInv == DeliveredInOrder /\ PositionInv /\ WaitInv /\ FinInv /\ EofInv

(* The frames on the line, and those that were written. *)
OnLine == {Line[i].frame : i \in 1 .. Len(Line)}

Here == OnLine \cup Done(written)

(* What a call of read needs of them: the context it has can tell the frame *)
(* that comes next.                                                         *)
Readable ==
  /\ \A l \in Lens : l % U32 # 0
  /\ "PayloadSizeProhibitive" \notin KeepOnErr
  /\ Told(Here, dec_ctx, written, Len(delivered))

LEMMA HereFrames ==
  ASSUME TypeOK
  PROVE  Here \subseteq Frame /\ FrameSet(Here) /\ written \in Seq(Here)
<1>1. Line \in Seq(Cells(Frame)) /\ FrameSet(Frame) /\ written \in Seq(Frame)
  BY BufferTypes, FrameShape DEF TypeOK
<1>2. \A i \in 1 .. Len(Line) : Line[i].frame \in Frame
  BY <1>1, LineTypes
<1>3. \A i \in 1 .. Len(written) : written[i] \in Frame
  BY <1>1, ElementOfSeq
<1>4. Here \subseteq Frame
  BY <1>2, <1>3 DEF Here, OnLine, Done
<1>5. written \in Seq(Here)
  <2>1. \A i \in 1 .. Len(written) : written[i] \in Here
    BY DEF Here, Done
  <2> QED
    BY <1>1, <2>1, SeqDef
<1> QED
  BY <1>1, <1>4, <1>5 DEF FrameSet

(* Decodable makes every frame readable. *)
LEMMA DecodableReads == Decodable /\ TypeOK => Readable
<1> SUFFICES ASSUME Decodable, TypeOK PROVE Readable
  OBVIOUS
<1>1. \A f \in Frame : f.len \in Lens /\ f.ctx \in {FirstCtx, SecondCtx}
  BY DEF Frame
<1>2. dec_ctx \in {FirstCtx, SecondCtx}
  BY DEF TypeOK
<1>3. \A f \in Frame : Tells(dec_ctx, f)
  BY <1>1, <1>2 DEF Tells, Decodable
<1>4. Here \subseteq Frame
  BY HereFrames
<1>5. Told(Here, dec_ctx, written, Len(delivered))
  BY <1>3, <1>4 DEF Told, Coming
<1> QED
  BY <1>5 DEF Readable, Decodable

LEMMA ReadableBodies == ASSUME TypeOK, Readable PROVE Bodies(Here)
<1>1. \A f \in Here : f.len \in Lens
  BY HereFrames DEF Frame
<1> QED
  BY <1>1 DEF Bodies, Readable

(* A step that leaves the receiver's socket alone. *)
LEMMA ReaderIdle ==
  ASSUME TypeOK, DeliveredInOrder, WaitInv, EofInv,
         UNCHANGED <<msg_reader, dec_ctx, is_something_read, r_pc, r_ret, delivered>>,
         rd_event' \/ UNCHANGED <<rd_event, rcv>>,
         w_pc = "closed" => w_pc' = "closed" /\ written' = written,
         written' = written \/ \E f \in Frame : written' = Append(written, f)
  PROVE  DeliveredInOrder' /\ WaitInv' /\ EofInv'
<1>1. /\ Len(delivered) <= Len(written) /\ Len(delivered) \in Nat /\ Len(written) \in Nat
      /\ \A i \in 1 .. Len(delivered) :
           delivered[i] = [id |-> written[i].id, size |-> written[i].len]
  BY DEF TypeOK, DeliveredInOrder
<1>2. Len(written) <= Len(written') /\ \A i \in 1 .. Len(written) : written'[i] = written[i]
  <2>1. CASE written' = written
    BY <1>1, <2>1
  <2>2. ASSUME NEW f \in Frame, written' = Append(written, f)
        PROVE  Len(written) <= Len(written') /\ \A i \in 1 .. Len(written) : written'[i] = written[i]
    <3>1. written \in Seq(Frame)
      BY DEF TypeOK
    <3>2. Len(written') = Len(written) + 1 /\ \A i \in 1 .. Len(written) : written'[i] = written[i]
      BY <2>2, <3>1, AppendProperties
    <3> QED
      BY <1>1, <3>2
  <2> QED
    BY <2>1, <2>2
<1>3. DeliveredInOrder'
  <2>1. Len(delivered) <= Len(written')
    BY <1>1, <1>2 DEF TypeOK
  <2>2. \A i \in 1 .. Len(delivered) :
          delivered[i] = [id |-> written'[i].id, size |-> written'[i].len]
    BY <1>1, <1>2
  <2> QED
    BY <2>1, <2>2 DEF DeliveredInOrder
<1>4. WaitInv'
  BY DEF WaitInv
<1>5. EofInv'
  BY DEF EofInv
<1> QED
  BY <1>3, <1>4, <1>5

(* A step that moves no byte. *)
LEMMA PositionSame ==
  ASSUME PositionInv, r_pc' = r_pc \/ r_pc # "closed", UNCHANGED <<written, delivered, reset, msg_reader>>,
         fin' = fin \/ ~reset, Line' = Line, Live' = Live
  PROVE  PositionInv'
<1>1. Whole' = Whole
  BY DEF Whole
<1> QED
  BY <1>1 DEF PositionInv

(* The line with all of the frame that a turn of the loop finds to write.   *)
LEMMA FullPosition ==
  ASSUME SendInv, Live, HasData, NEW n, NEW len,
         Position(Line, written, n, len, TRUE, TRUE)
  PROVE  /\ LineInv(Frame, msg_reader.read_buffer \o (rcv \o (snd \o Data)), written, TRUE,
                    {Data[1].frame})
         /\ Position(msg_reader.read_buffer \o (rcv \o (snd \o Data)), written, n, len, TRUE, TRUE)
         /\ msg_reader.read_buffer \o (rcv \o (snd \o Data)) # <<>>
<1> DEFINE C == Cells(Frame)
           rb == msg_reader.read_buffer
           d == Data
<1>1. TypeOK /\ QueueInv /\ PlacesInv /\ BytesInv
  BY DEF SendInv
<1>2. LineInv(Frame, rb \o (rcv \o (snd \o d)), written, TRUE, {d[1].frame})
  BY <1>1, FullLine
<1>3. rb \in Seq(C) /\ rcv \in Seq(C) /\ snd \in Seq(C) /\ d \in Seq(C) /\ FrameSet(Frame)
  BY <1>1, BufferTypes, DataShape, FrameShape
<1>4. IsRest(d, Frame) /\ d # <<>>
  BY <1>1, DataShape DEF IsRest
<1>5. Line \in Seq(C)
  BY <1>1, BufferTypes
<1>6. ASSUME current_write # <<>> PROVE Position(rb \o (rcv \o (snd \o d)), written, n, len, TRUE, TRUE)
  <2>1. Unsent = d
    BY <1>1, <1>6, DataShape DEF Unsent
  <2> QED
    BY <2>1 DEF Line
<1>7. ASSUME current_write = <<>> PROVE Position(rb \o (rcv \o (snd \o d)), written, n, len, TRUE, TRUE)
  <2>1. Unsent = <<>> /\ d[1].k = 1 /\ d[1].frame \notin Done(written)
    BY <1>1, <1>7, DataShape DEF Unsent
  <2> HIDE DEF C, rb, d
  <2>2. snd \o Unsent = snd
    BY <1>3, <2>1, ConcatEmptySeq
  <2>3. Line = rb \o (rcv \o snd)
    BY <2>2 DEF Line, rb
  <2>4. Position(Line \o d, written, n, len, TRUE, TRUE)
    BY <1>3, <1>4, <1>5, <2>1, PositionBegin DEF C
  <2>5. Buffers(C, rb, rcv, snd, d)
    BY <1>3 DEF Buffers
  <2>6. rb \o (rcv \o (snd \o d)) = (rb \o (rcv \o snd)) \o d
    BY <2>5, LineParts
  <2> QED
    BY <2>3, <2>4, <2>6 DEF rb, d
<1>8. Position(rb \o (rcv \o (snd \o d)), written, n, len, TRUE, TRUE)
  BY <1>6, <1>7
<1>9. rb \o (rcv \o (snd \o d)) # <<>>
  <2> HIDE DEF C, rb, d
  <2>1. Buffers(C, rb, rcv, snd, d)
    BY <1>3 DEF Buffers
  <2>2. rb \o (rcv \o (snd \o d)) = (rb \o (rcv \o snd)) \o d
    BY <2>1, LineParts
  <2> DEFINE t == rcv \o snd
  <2>3. t \in Seq(C)
    BY <1>3, ConcatProperties
  <2> HIDE DEF t
  <2> DEFINE u == rb \o t
  <2>4. u \in Seq(C)
    BY <1>3, <2>3, ConcatProperties
  <2> HIDE DEF u
  <2>5. Len(u \o d) = Len(u) + Len(d) /\ Len(u) \in Nat /\ Len(d) \in Nat /\ u \o d \in Seq(C)
    BY <1>3, <2>4, ConcatParts
  <2>6. Len(d) # 0
    BY <1>3, <1>4
  <2>7. Len(u \o d) # 0
    BY <2>5, <2>6
  <2>8. u \o d # <<>>
    BY <2>5, <2>7
  <2> QED
    BY <2>2, <2>8 DEF t, u
<1> QED
  BY <1>2, <1>8, <1>9

(* Steps that move no byte. *)
LEMMA ReadStill ==
  ASSUME SendInv, ReadInv,
         \/ \E p \in Priority, l \in Lens : Write(p, l)
         \/ WriteUnencodable \/ OnWritable \/ FlushDone \/ SetEncryptCtx \/ SetDecryptCtx
         \/ Establish \/ FinArrive \/ Tick \/ OnReadable \/ DropReceiver \/ UNCHANGED vars
  PROVE  ReadInv'
<1>1. TypeOK /\ BytesInv /\ DeliveredInOrder /\ PositionInv /\ WaitInv /\ FinInv /\ EofInv
  BY DEF SendInv, ReadInv
<1> DEFINE Keeps == /\ UNCHANGED <<msg_reader, rcv, snd, current_write, reset, written, delivered, r_ret,
                                   is_something_read>>
                    /\ w_pc' = "closed" <=> w_pc = "closed"
           Fin == fin' = fin \/ (fin = "sent" /\ snd = <<>> /\ ~reset)
           Same == UNCHANGED <<dec_ctx, r_pc>> /\ (rd_event' = rd_event \/ rd_event')
           Goes == r_pc # "closed" /\ r_pc' \in {"ready", "closed"}
<1>2. Keeps /\ Fin /\ (Same \/ Goes)
  <2>1. CASE \E p \in Priority, l \in Lens : Write(p, l)
    BY <2>1 DEF Write, StartWrite, receiverVars
  <2>2. CASE WriteUnencodable \/ OnWritable
    BY <2>2 DEF WriteUnencodable, OnWritable, StartWrite, receiverVars
  <2>3. CASE FlushDone
    BY <2>3 DEF FlushDone, Returned, kernelVars, receiverVars
  <2>4. CASE SetEncryptCtx
    BY <2>4 DEF SetEncryptCtx, kernelVars, receiverVars
  <2>5. CASE SetDecryptCtx
    BY <2>5 DEF SetDecryptCtx, senderVars, kernelVars
  <2>6. CASE Establish
    BY <2>6 DEF Establish, senderVars, receiverVars
  <2>7. CASE FinArrive
    BY <2>7 DEF FinArrive, senderVars, receiverVars
  <2>8. CASE Tick
    BY <2>8 DEF Tick, senderVars, kernelVars, receiverVars
  <2>9. CASE OnReadable
    BY <2>9 DEF OnReadable, senderVars
  <2>10. CASE DropReceiver
    BY <2>10 DEF DropReceiver, senderVars, kernelVars
  <2>11. CASE UNCHANGED vars
    BY <2>11 DEF vars, senderVars, kernelVars, receiverVars
  <2> QED
    BY <2>1, <2>2, <2>3, <2>4, <2>5, <2>6, <2>7, <2>8, <2>9, <2>10, <2>11
<1>3. Line' = Line /\ Live' = Live
  BY <1>1, <1>2, LineSame
<1>4. PositionInv'
  <2>1. (fin' = fin \/ ~reset) /\ (r_pc' = r_pc \/ r_pc # "closed")
    BY <1>2
  <2> QED
    BY <1>1, <1>2, <1>3, <2>1, PositionSame
<1>5. FinInv'
  BY <1>1, <1>2 DEF FinInv
<1>6. DeliveredInOrder' /\ EofInv'
  BY <1>1, <1>2 DEF DeliveredInOrder, EofInv
<1>7. WaitInv'
  BY <1>1, <1>2 DEF WaitInv
<1> QED
  BY <1>4, <1>5, <1>6, <1>7 DEF ReadInv

(* A turn of the loop that writes, keeps or loses the data. *)
LEMMA ReadFlush ==
  ASSUME SendInv, ReadInv,
         \/ \E n \in 1 .. SndCap : FlushSend(n)
         \/ FlushWouldBlock \/ FlushInterrupted \/ FlushErr
  PROVE  ReadInv'
<1>1. TypeOK /\ QueueInv /\ PlacesInv /\ DeliveredInOrder /\ PositionInv /\ WaitInv /\ FinInv /\ EofInv
  BY DEF SendInv, ReadInv
<1>2. PICK rest : Turn(rest)
  BY DEF FlushSend, Sent, FlushWouldBlock, FlushInterrupted, FlushErr, NotSent
<1>3. /\ w_pc = "flush" /\ HasData
      /\ UNCHANGED <<rcv, fin, reset, rd_event, msg_reader, dec_ctx, is_something_read, r_pc, r_ret,
                     delivered>>
  BY <1>1, <1>2, TurnFrame
<1>4. IsRest(Data, Frame) /\ Data[1].frame \in Frame /\ Data[1].frame \notin Done(written)
  BY <1>1, <1>3, DataShape
<1>5. fin = "no" /\ FinInv'
  BY <1>1, <1>3 DEF FinInv, TypeOK
<1> DEFINE t == msg_reader.read_buffer \o (rcv \o (snd \o Data))
           m == Len(delivered)
           l == msg_reader.read_len
<1>6. ASSUME ~reset, w_pc' # "closed", Line' = t,
             written' = written \/ written' = Append(written, Data[1].frame)
      PROVE  PositionInv'
  <2> SUFFICES ASSUME r_pc # "closed"
               PROVE  Position(Line', written', m, l, Live', Whole')
    BY <1>3 DEF PositionInv
  <2>1. Live = TRUE /\ Live' = TRUE /\ Whole = TRUE /\ Whole' = TRUE
    BY <1>3, <1>6 DEF Live, Whole
  <2>2. Position(Line, written, m, l, TRUE, TRUE)
    BY <1>1, <2>1 DEF PositionInv
  <2> HIDE DEF t, m, l
  <2>3. /\ LineInv(Frame, t, written, TRUE, {Data[1].frame}) /\ t # <<>>
        /\ Position(t, written, m, l, TRUE, TRUE)
    BY <1>3, <2>1, <2>2, FullPosition DEF t
  <2>4. Position(t, Append(written, Data[1].frame), m, l, TRUE, TRUE)
    <3> DEFINE f == Data[1].frame
    <3>1. f \in Frame /\ f \notin Done(written) /\ LineInv(Frame, t, written, TRUE, {f})
          /\ FrameSet(Frame)
      BY <1>4, <2>3, FrameShape
    <3> HIDE DEF f
    <3>2. Position(t, Append(written, f), m, l, TRUE, TRUE)
      BY <2>3, <3>1, PositionComplete
    <3> QED
      BY <3>2 DEF f
  <2> QED
    BY <1>6, <2>1, <2>3, <2>4
<1>7. /\ PositionInv'
      /\ written' = written \/ \E f \in Frame : written' = Append(written, f)
  <2>1. ASSUME NEW n \in 1 .. SndCap, FlushSend(n)
        PROVE  /\ PositionInv'
               /\ written' = written \/ \E f \in Frame : written' = Append(written, f)
    <3>1. /\ Live /\ Live' /\ Line' = t
          /\ written' = IF n = Len(Data) THEN Append(written, Data[1].frame) ELSE written
      BY <2>1, FlushSendStep
    <3>2. ~reset /\ w_pc' # "closed"
      BY <3>1 DEF Live
    <3>3. written' = written \/ written' = Append(written, Data[1].frame)
      BY <3>1
    <3> HIDE DEF t
    <3> QED
      BY <1>4, <1>6, <3>1, <3>2, <3>3
  <2>2. CASE FlushWouldBlock \/ FlushInterrupted
    <3>1. Live /\ Live' /\ Line' = t /\ written' = written
      BY <2>2, FlushKeptStep
    <3>2. ~reset /\ w_pc' # "closed"
      BY <3>1 DEF Live
    <3> HIDE DEF t
    <3> QED
      BY <1>6, <3>1, <3>2
  <2>3. CASE FlushErr
    <3>1. Live = FALSE /\ Live' = FALSE /\ Line' = Line /\ written' = written
      BY <2>3, FlushErrStep DEF Live
    <3> QED
      BY <1>1, <1>3, <3>1, PositionSame
  <2> QED
    BY <2>1, <2>2, <2>3
<1>8. DeliveredInOrder' /\ WaitInv' /\ EofInv'
  BY <1>1, <1>3, <1>7, ReaderIdle
<1> QED
  BY <1>5, <1>7, <1>8 DEF ReadInv

(* The end of the line is cut off.  Nothing that was written whole goes     *)
(* unless it was on its way when the connection broke.                      *)
LEMMA ReadCut ==
  ASSUME SendInv, ReadInv, DropSender \/ Reset
  PROVE  ReadInv'
<1>1. /\ TypeOK /\ QueueInv /\ PlacesInv /\ BytesInv
      /\ DeliveredInOrder /\ PositionInv /\ WaitInv /\ FinInv /\ EofInv
  BY DEF SendInv, ReadInv
<1>2. /\ UNCHANGED <<established, rcv, msg_reader, dec_ctx, is_something_read, r_pc, r_ret, written,
                     delivered>>
      /\ rd_event' \/ rd_event' = rd_event
      /\ w_pc = "closed" => w_pc' = "closed"
      /\ \/ DropSender /\ w_pc = "idle" /\ w_pc' = "closed" /\ fin' = "sent" /\ UNCHANGED <<reset, snd>>
         \/ Reset /\ ~reset /\ reset' = TRUE /\ snd' = <<>> /\ UNCHANGED <<fin, w_pc, current_write>>
  BY DEF DropSender, Reset, senderVars, receiverVars
<1>3. DeliveredInOrder' /\ WaitInv' /\ EofInv'
  BY <1>1, <1>2, ReaderIdle
<1>4. FinInv'
  BY <1>1, <1>2 DEF FinInv
<1>5. Live' = FALSE /\ Unsent' = <<>> /\ Live \in BOOLEAN /\ Whole \in BOOLEAN /\ Whole' \in BOOLEAN
  BY <1>2 DEF Live, Unsent, Whole
<1> DEFINE C == Cells(Frame)
<1>6. Line \in Seq(C) /\ Unsent \in Seq(C)
  BY <1>1, BufferTypes
<1> HIDE DEF C
<1>7. PICK k \in 0 .. Len(Line) :
        /\ Line' = SubSeq(Line, 1, k)
        /\ Unsent # <<>> => k # Len(Line)
        /\ snd' = snd =>
             \A i \in 1 .. Len(Line) : i <= k \/ \E j \in 1 .. Len(Unsent) : Line[i] = Unsent[j]
  <2>1. UNCHANGED <<msg_reader, rcv>> /\ Unsent' = <<>> /\ (snd' = snd \/ snd' = <<>>)
    BY <1>2, <1>5
  <2> QED
    BY <1>1, <2>1, CutLine
<1>8. \A j \in 1 .. Len(Unsent) : Unsent[j].frame \notin Done(written)
  <2> SUFFICES ASSUME NEW j \in 1 .. Len(Unsent) PROVE Unsent[j].frame \notin Done(written)
    OBVIOUS
  <2>1. Unsent # <<>> /\ Unsent = current_write
    BY <1>6 DEF Unsent
  <2>2. IsRest(current_write, Frame) /\ InProgress = {current_write[1].frame}
    BY <1>1, <2>1 DEF QueueInv, InProgress
  <2>3. current_write[j].frame = current_write[1].frame
    <3> DEFINE f == current_write[1].frame
               k1 == current_write[1].k + j - 1
    <3>1. j \in 1 .. Len(current_write)
      BY <2>1
    <3>2. \A i \in 1 .. Len(current_write) : current_write[i] = [frame |-> f, k |-> current_write[1].k + i - 1]
      BY <2>2 DEF IsRest
    <3>3. current_write[j] = [frame |-> f, k |-> k1]
      BY <3>1, <3>2
    <3> HIDE DEF f, k1
    <3>4. current_write[j].frame = f
      BY <3>3
    <3> QED
      BY <3>4 DEF f
  <2> QED
    BY <1>1, <2>1, <2>2, <2>3 DEF PlacesInv
<1>9. Whole' => /\ Whole
                /\ \A i \in 1 .. Len(Line) : i <= k \/ Line[i].frame \notin Done(written)
  <2> SUFFICES ASSUME Whole'
               PROVE  Whole /\ \A i \in 1 .. Len(Line) : i <= k \/ Line[i].frame \notin Done(written)
    OBVIOUS
  <2>1. Whole /\ snd' = snd
    BY <1>1, <1>2 DEF Whole, FinInv
  <2>2. ASSUME NEW i \in 1 .. Len(Line), ~(i <= k)
        PROVE  Line[i].frame \notin Done(written)
    <3>1. PICK j \in 1 .. Len(Unsent) : Line[i] = Unsent[j]
      BY <1>7, <2>1, <2>2
    <3> QED
      BY <1>8, <3>1
  <2> QED
    BY <2>1, <2>2
<1>10. PositionInv'
  <2> SUFFICES ASSUME r_pc # "closed"
               PROVE  Position(Line', written', Len(delivered'), msg_reader'.read_len, Live', Whole')
    BY <1>2 DEF PositionInv
  <2> DEFINE w == Whole'
             m == Len(delivered)
             l == msg_reader.read_len
  <2>1. Position(Line, written, m, l, Live, Whole)
    BY <1>1 DEF PositionInv
  <2>2. /\ w \in BOOLEAN
        /\ w => Whole /\ \A i \in 1 .. Len(Line) : i <= k \/ Line[i].frame \notin Done(written)
    BY <1>5, <1>9
  <2> HIDE DEF w, m, l
  <2>3. Position(SubSeq(Line, 1, k), written, m, l, FALSE, w)
    BY <1>5, <1>6, <2>1, <2>2, PositionCut
  <2> QED
    BY <1>2, <1>5, <1>7, <2>3 DEF w, m, l
<1> QED
  BY <1>3, <1>4, <1>10 DEF ReadInv

(* Bytes arrive. *)
LEMMA ReadDeliver ==
  ASSUME SendInv, ReadInv, NEW n \in 1 .. RcvCap, Deliver(n)
  PROVE  ReadInv'
<1>1. TypeOK /\ DeliveredInOrder /\ PositionInv /\ WaitInv /\ FinInv /\ EofInv
  BY DEF SendInv, ReadInv
<1>2. /\ n <= Len(snd) /\ rd_event' = TRUE
      /\ UNCHANGED <<w_pc, fin, reset, msg_reader, dec_ctx, is_something_read, r_pc, r_ret, written,
                     delivered>>
  BY DEF Deliver, senderVars, receiverVars
<1>3. PositionInv'
  <2>1. Line' = Line /\ Live' = Live
    BY DeliverStep
  <2> QED
    BY <1>1, <1>2, <2>1, PositionSame
<1>4. FinInv'
  <2>1. RcvCap \in Nat
    BY TcpAssumption DEF TcpAssumption
  <2>2. n \in Nat \ {0}
    BY <2>1
  <2>3. snd # <<>>
    BY <1>2, <2>2
  <2> QED
    BY <1>1, <1>2, <2>3 DEF FinInv
<1>5. DeliveredInOrder' /\ WaitInv' /\ EofInv'
  BY <1>1, <1>2, ReaderIdle
<1> QED
  BY <1>3, <1>4, <1>5 DEF ReadInv

(* stream.read hands bytes to the reader. *)
LEMMA ReadData ==
  ASSUME SendInv, ReadInv, RecvData
  PROVE  ReadInv'
<1>1. TypeOK /\ DeliveredInOrder /\ PositionInv /\ WaitInv /\ FinInv /\ EofInv
  BY DEF SendInv, ReadInv
<1>2. /\ r_pc = "recv" /\ is_something_read' = TRUE
      /\ UNCHANGED <<w_pc, snd, fin, reset, r_pc, r_ret, written, delivered>>
  BY DEF RecvData, senderVars
<1>3. Line' = Line /\ Live' = Live /\ msg_reader'.read_len = msg_reader.read_len
  BY RecvDataStep
<1>4. PositionInv'
  <2>1. Whole' = Whole
    BY <1>2 DEF Whole
  <2> QED
    BY <1>1, <1>2, <1>3, <2>1 DEF PositionInv
<1>5. DeliveredInOrder' /\ FinInv' /\ EofInv' /\ WaitInv'
  BY <1>1, <1>2 DEF DeliveredInOrder, FinInv, EofInv, WaitInv
<1> QED
  BY <1>4, <1>5 DEF ReadInv

(* The line as the reader sees it: its buffer, and the bytes behind. *)
Behind == rcv \o (snd \o Unsent)

ReaderStands(rd, n) == Stands(Here, rd, Behind, written, n, Live, InProgress, Whole)

(* A line whose frames are in G is one of bytes of G, and so are its parts. *)
LEMMA PartsOf ==
  ASSUME NEW F, NEW a \in Seq(Cells(F)), NEW b \in Seq(Cells(F)), NEW G,
         \A i \in 1 .. Len(a \o b) : (a \o b)[i].frame \in G
  PROVE  a \in Seq(Cells(G)) /\ b \in Seq(Cells(G)) /\ a \o b \in Seq(Cells(G))
<1> DEFINE s == a \o b
<1>1. /\ s \in Seq(Cells(F)) /\ Len(s) = Len(a) + Len(b) /\ Len(a) \in Nat /\ Len(b) \in Nat
      /\ \A i \in 1 .. Len(a) : s[i] = a[i]
      /\ \A i \in 1 .. Len(b) : s[Len(a) + i] = b[i]
  BY ConcatParts
<1>2. \A i \in 1 .. Len(s) : s[i].frame \in G
  OBVIOUS
<1> HIDE DEF s
<1>3. ASSUME NEW t \in Seq(Cells(F)), \A i \in 1 .. Len(t) : t[i].frame \in G
      PROVE  t \in Seq(Cells(G))
  <2>1. \A i \in 1 .. Len(t) : t[i] \in Cells(F)
    BY ElementOfSeq
  <2>2. \A i \in 1 .. Len(t) : t[i] \in Cells(G)
    BY <1>3, <2>1 DEF Cells
  <2> QED
    BY SMTT(20), <2>2, SeqDef
<1>4. ASSUME NEW i \in 1 .. Len(a) PROVE a[i].frame \in G
  <2>1. i \in 1 .. Len(s)
    BY <1>1
  <2> QED
    BY <1>1, <1>2, <2>1
<1>5. ASSUME NEW i \in 1 .. Len(b) PROVE b[i].frame \in G
  <2>1. Len(a) + i \in 1 .. Len(s)
    BY <1>1
  <2> QED
    BY <1>1, <1>2, <2>1
<1>6. a \in Seq(Cells(G)) /\ b \in Seq(Cells(G))
  BY <1>3, <1>4, <1>5
<1>7. s \in Seq(Cells(G))
  BY <1>1, <1>2, <1>3
<1> QED
  BY <1>6, <1>7 DEF s

LEMMA StandsNow ==
  ASSUME SendInv, PositionInv, r_pc # "closed"
  PROVE  ReaderStands(msg_reader, Len(delivered))
<1>1. TypeOK /\ QueueInv /\ BytesInv
  BY DEF SendInv
<1>2. msg_reader \in Readers(Frame) /\ Behind \in Seq(Cells(Frame)) /\ Line = msg_reader.read_buffer \o Behind
  BY <1>1, BufferTypes DEF Behind, Line
<1>3. Live \in BOOLEAN /\ Whole \in BOOLEAN
  BY DEF Live, Whole
<1>4. ASSUME Live, InProgress # {} PROVE Behind # <<>>
  <2>1. Unsent # <<>>
    BY <1>4 DEF Unsent, InProgress
  <2> DEFINE C == Cells(Frame)
             t == snd \o Unsent
  <2>2. rcv \in Seq(C) /\ snd \in Seq(C) /\ Unsent \in Seq(C) /\ t \in Seq(C)
    BY <1>1, BufferTypes
  <2>3. Len(t) = Len(snd) + Len(Unsent) /\ Len(snd) \in Nat /\ Len(Unsent) \in Nat
    BY <2>2, ConcatParts
  <2>4. Len(Unsent) # 0
    BY <2>1, <2>2
  <2> HIDE DEF C, t
  <2>5. Len(rcv \o t) = Len(rcv) + Len(t) /\ Len(rcv) \in Nat
    BY <2>2, ConcatParts
  <2>6. Len(rcv \o t) # 0
    BY <2>3, <2>4, <2>5
  <2>7. Len(Behind) # 0
    BY <2>6 DEF Behind, t
  <2> QED
    BY <1>2, <2>7
<1>5. LineInv(Frame, Line, written, Live, InProgress)
  BY <1>1 DEF BytesInv
<1>6. Position(msg_reader.read_buffer \o Behind, written, Len(delivered), msg_reader.read_len, Live, Whole)
  BY <1>2 DEF PositionInv
<1>7. /\ msg_reader.read_buffer \in Seq(Cells(Here)) /\ Behind \in Seq(Cells(Here))
      /\ msg_reader.read_buffer \o Behind \in Seq(Cells(Here))
  <2> DEFINE b == msg_reader.read_buffer
  <2>1. \A i \in 1 .. Len(Line) : Line[i].frame \in Here
    BY DEF Here, OnLine
  <2>2. b \in Seq(Cells(Frame)) /\ Behind \in Seq(Cells(Frame))
    BY <1>2 DEF Readers
  <2>3. \A i \in 1 .. Len(b \o Behind) : (b \o Behind)[i].frame \in Here
    BY <1>2, <2>1
  <2> HIDE DEF b, Behind
  <2> QED
    BY <2>2, <2>3, PartsOf DEF b
<1>8. msg_reader \in Readers(Here)
  BY <1>2, <1>7 DEF Readers
<1>9. written \in Seq(Here)
  BY <1>1, HereFrames
<1> HIDE DEF Behind
<1>10. LineInv(Here, msg_reader.read_buffer \o Behind, written, Live, InProgress)
  BY <1>2, <1>5, <1>7, <1>9 DEF LineInv
<1> QED
  BY <1>3, <1>4, <1>6, <1>7, <1>8, <1>10 DEF ReaderStands, Stands

(* ... and after a call that took something off the buffer. *)
LEMMA StandsNext ==
  ASSUME UNCHANGED <<rcv, snd, current_write, w_pc, reset, fin, written>>,
         ReaderStands(msg_reader', Len(delivered'))
  PROVE  PositionInv'
<1>1. Live' = Live /\ Whole' = Whole /\ InProgress' = InProgress
  BY DEF Live, Whole, InProgress
<1>2. Line' = msg_reader'.read_buffer \o Behind
  BY <1>1 DEF Line, Unsent, Behind
<1> HIDE DEF Behind
<1>3. Position(msg_reader'.read_buffer \o Behind, written, Len(delivered'), msg_reader'.read_len,
               Live, Whole)
  BY DEF ReaderStands, Stands
<1> QED
  BY <1>1, <1>2, <1>3 DEF PositionInv

(* The reader looks into its buffer only when it has the context of what    *)
(* comes next.                                                              *)
MayRead == r_pc = "recv" \/ (r_pc = "ready" /\ ~DecSwitchDue)

Ready == MayRead => Readable

LEMMA ReadsWhenReady == ReadStep => MayRead
BY DEF ReadStep, ReadBuffered, RecvWouldBlock, NothingToRead, RecvInterrupted, RecvEof, AtEof,
       RecvErr, MayRead

(* One look into the reader's buffer: what it returns is the next message   *)
(* written.                                                                 *)
LEMMA ReadOnce ==
  ASSUME Readable, SendInv, DeliveredInOrder, PositionInv, r_pc # "closed",
         NEW o \in try_read(msg_reader, dec_ctx)
  PROVE  LET n == Len(delivered)
         IN  \/ /\ o.res = None /\ Starved(o.reader, dec_ctx) /\ ReaderStands(o.reader, n)
             \/ /\ o.res = Err("Crypto") /\ ReaderStands(o.reader, n)
                /\ Foreign(Here, dec_ctx, written, n)
             \/ o.res = Err("PayloadSizeProhibitive")
             \/ /\ n + 1 \in 1 .. Len(written) /\ o.res = Some(written[n + 1].id, written[n + 1].len)
                /\ ReaderStands(o.reader, n + 1)
<1>1. TypeOK /\ FrameSet(Here) /\ Live \in BOOLEAN /\ Whole \in BOOLEAN
  BY HereFrames DEF SendInv, Live, Whole
<1> DEFINE n == Len(delivered)
<1>2. Bodies(Here) /\ Told(Here, dec_ctx, written, n)
  BY <1>1, ReadableBodies DEF Readable
<1>3. Stands(Here, msg_reader, Behind, written, n, Live, InProgress, Whole)
  BY StandsNow DEF ReaderStands
<1> HIDE DEF n, Behind
<1>4. \/ /\ o.res = None /\ Starved(o.reader, dec_ctx)
         /\ Stands(Here, o.reader, Behind, written, n, Live, InProgress, Whole)
      \/ /\ o.res = Err("Crypto")
         /\ Stands(Here, o.reader, Behind, written, n, Live, InProgress, Whole)
         /\ Foreign(Here, dec_ctx, written, n)
      \/ o.res = Err("PayloadSizeProhibitive")
      \/ /\ n + 1 \in 1 .. Len(written) /\ o.res = Some(written[n + 1].id, written[n + 1].len)
         /\ Stands(Here, o.reader, Behind, written, n + 1, Live, InProgress, Whole)
  BY <1>1, <1>2, <1>3, ReadStands
<1> QED
  BY <1>4 DEF ReaderStands, n

(* The message returned is the next one.                                    *)
LEMMA OneMore ==
  ASSUME TypeOK, DeliveredInOrder, UNCHANGED written, NEW n, n = Len(delivered),
         n + 1 \in 1 .. Len(written),
         delivered' = Append(delivered, [id |-> written[n + 1].id, size |-> written[n + 1].len])
  PROVE  DeliveredInOrder' /\ Len(delivered') = n + 1
<1> DEFINE m(i) == [id |-> written[i].id, size |-> written[i].len]
           T == [id : Nat, size : Nat]
<1>1. /\ delivered \in Seq(T) /\ n \in Nat /\ written[n + 1] \in Frame
      /\ \A i \in 1 .. n : delivered[i] = m(i)
  BY DEF TypeOK, DeliveredInOrder
<1>2. m(n + 1) \in T
  BY <1>1, FrameShape DEF FrameSet
<1> DEFINE x == m(n + 1)
           d == Append(delivered, x)
<1>3. Len(d) = n + 1 /\ d[n + 1] = x /\ \A i \in 1 .. n : d[i] = delivered[i]
  BY <1>1, <1>2, AppendProperties
<1>4. delivered' = d
  OBVIOUS
<1> HIDE DEF d, m
<1>5. \A i \in 1 .. n + 1 : d[i] = m(i)
  <2> SUFFICES ASSUME NEW i \in 1 .. n + 1 PROVE d[i] = m(i)
    OBVIOUS
  <2>1. i \in 1 .. n \/ i = n + 1
    BY <1>1
  <2> QED
    BY <1>1, <1>3, <2>1
<1>6. n + 1 <= Len(written)
  OBVIOUS
<1>7. Len(delivered') = n + 1 /\ \A i \in 1 .. n + 1 : delivered'[i] = m(i)
  BY <1>3, <1>4, <1>5
<1> QED
  BY <1>6, <1>7 DEF m, DeliveredInOrder

(* A starved reader at the end of the stream has returned everything.       *)
LEMMA EndReached ==
  ASSUME Readable, SendInv, FinInv, rcv = <<>>, fin = "arrived", NEW rd, Starved(rd, dec_ctx),
         ReaderStands(rd, Len(delivered))
  PROVE  Len(delivered) = Len(written) /\ w_pc = "closed"
<1> DEFINE n == Len(delivered)
<1>1. TypeOK /\ FrameSet(Here)
  BY HereFrames DEF SendInv
<1>2. w_pc = "closed" /\ snd = <<>>
  BY DEF FinInv
<1>3. Live = FALSE /\ Unsent = <<>> /\ Whole = TRUE
  BY <1>2 DEF Live, Unsent, Whole
<1>4. Behind = <<>>
  BY <1>2, <1>3 DEF Behind
<1>5. Bodies(Here) /\ Told(Here, dec_ctx, written, n)
  BY <1>1, ReadableBodies DEF Readable
<1> HIDE DEF Behind, n
<1>6. /\ rd \in Readers(Here) /\ LineInv(Here, rd.read_buffer \o <<>>, written, FALSE, InProgress)
      /\ Position(rd.read_buffer \o <<>>, written, n, rd.read_len, FALSE, TRUE)
  BY <1>3, <1>4 DEF ReaderStands, Stands, n
<1>7. rd.read_buffer \o <<>> = rd.read_buffer
  <2>1. rd.read_buffer \in Seq(Cells(Here))
    BY <1>6 DEF Readers
  <2> QED
    BY <2>1, ConcatEmptySeq
<1>8. /\ LineInv(Here, rd.read_buffer, written, FALSE, InProgress)
      /\ Position(rd.read_buffer, written, n, rd.read_len, FALSE, TRUE)
  BY <1>6, <1>7
<1>9. n = Len(written)
  BY <1>1, <1>5, <1>6, <1>8, StarvedEnd
<1> QED
  BY <1>2, <1>9 DEF n

(* What the end of the loop means for a reader that is starved. *)
LEMMA ReadEnds ==
  ASSUME Readable, SendInv, ReadInv, r_pc = "recv",
         UNCHANGED <<senderVars, kernelVars, dec_ctx, written>>, is_something_read' = FALSE,
         ReaderStands(msg_reader', Len(delivered)), Starved(msg_reader', dec_ctx),
         NEW res, LoopEndsWith(res), ReadReturns(res)
  PROVE  ReadInv'
<1>1. TypeOK /\ DeliveredInOrder /\ FinInv /\ EofInv
  BY DEF SendInv, ReadInv
<1>2. UNCHANGED <<rcv, snd, current_write, w_pc, reset, fin, rd_event>>
  BY DEF senderVars, kernelVars
<1>3. \/ res \in {None, [tag |-> "Interrupted"]}
      \/ res = Err("ZeroByteRead")
  BY DEF LoopEndsWith
<1>4. /\ delivered' = delivered
      /\ res \in {None, [tag |-> "Interrupted"]} => r_pc' = "idle" /\ r_ret' = res.tag
      /\ res = Err("ZeroByteRead") => r_pc' \in {"ready", "closed"} /\ r_ret' = "ZeroByteRead"
  BY <1>1, <1>3, ReturnTypes
<1>5. PositionInv'
  BY <1>2, <1>4, StandsNext
<1>6. FinInv' /\ DeliveredInOrder'
  BY <1>1, <1>2, <1>4 DEF FinInv, DeliveredInOrder
<1>7. WaitInv'
  <2>1. r_pc' # "recv"
    BY <1>3, <1>4
  <2>2. ASSUME r_pc' = "idle" PROVE r_ret' = "Interrupted" \/ rcv' = <<>>
    <3>1. CASE RecvWouldBlock
      BY <1>2, <3>1 DEF RecvWouldBlock, NothingToRead
    <3>2. CASE res = [tag |-> "Interrupted"]
      BY <1>4, <3>2
    <3>3. CASE RecvEof
      BY <1>2, <3>3 DEF RecvEof, AtEof
    <3> QED
      BY <3>1, <3>2, <3>3 DEF LoopEndsWith
  <2> QED
    BY <2>1, <2>2 DEF WaitInv
<1>8. EofInv'
  <2> SUFFICES ASSUME r_ret' = "ZeroByteRead"
               PROVE  Len(delivered') = Len(written') /\ w_pc' = "closed"
    BY DEF EofInv
  <2>1. res \notin {None, [tag |-> "Interrupted"]}
    BY <1>4, Results
  <2>2. rcv = <<>> /\ fin = "arrived"
    BY <2>1 DEF LoopEndsWith, RecvEof, AtEof
  <2>3. Len(delivered) = Len(written) /\ w_pc = "closed"
    BY <1>1, <2>2, EndReached
  <2> QED
    BY <1>2, <1>4, <2>3
<1> QED
  BY <1>5, <1>6, <1>7, <1>8 DEF ReadInv

(* The steps of a call of read. *)
LEMMA ReadRead ==
  ASSUME Readable, SendInv, ReadInv, ReadStep
  PROVE  ReadInv'
<1>1. TypeOK /\ DeliveredInOrder /\ PositionInv /\ WaitInv /\ FinInv /\ EofInv
  BY DEF SendInv, ReadInv
<1> DEFINE n == Len(delivered)
<1>2. /\ UNCHANGED <<senderVars, kernelVars, dec_ctx, written>>
      /\ UNCHANGED <<rcv, snd, current_write, w_pc, reset, fin, rd_event>>
  BY ReadEffect DEF senderVars, kernelVars
<1>3. FinInv'
  BY <1>1, <1>2 DEF FinInv
<1>4. ASSUME NEW o \in try_read(msg_reader, dec_ctx), msg_reader' = o.reader, o.res = None,
             r_pc = "ready", r_pc' = "recv", r_ret' = "-", UNCHANGED <<delivered, is_something_read>>
      PROVE  ReadInv'
  <2>1. Starved(o.reader, dec_ctx) /\ ReaderStands(o.reader, n)
    BY <1>1, <1>4, ReadOnce, Results
  <2>2. PositionInv'
    BY <1>2, <1>4, <2>1, StandsNext
  <2>3. DeliveredInOrder' /\ EofInv' /\ WaitInv'
    BY <1>1, <1>2, <1>4, <2>1 DEF DeliveredInOrder, EofInv, WaitInv
  <2> QED
    BY <1>3, <2>2, <2>3 DEF ReadInv
<1>5. ASSUME NEW o \in try_read(msg_reader, dec_ctx), msg_reader' = o.reader, o.res # None,
             ReadReturns(o.res), r_pc # "closed"
      PROVE  ReadInv'
  <2>1. \/ o.res = Err("Crypto") /\ ReaderStands(o.reader, n)
        \/ o.res = Err("PayloadSizeProhibitive")
        \/ /\ n + 1 \in 1 .. Len(written) /\ o.res = Some(written[n + 1].id, written[n + 1].len)
           /\ ReaderStands(o.reader, n + 1)
    BY <1>1, <1>5, ReadOnce
  <2>2. CASE o.res = Err("Crypto") /\ ReaderStands(o.reader, n)
    <3>1. /\ r_pc' \in {"ready", "closed"} /\ r_ret' = "Crypto" /\ delivered' = delivered
      BY <1>1, <1>5, <2>2, ReturnTypes
    <3>2. PositionInv'
      BY <1>2, <1>5, <2>2, <3>1, StandsNext
    <3>3. DeliveredInOrder' /\ EofInv' /\ WaitInv'
      BY <1>1, <1>2, <3>1 DEF DeliveredInOrder, EofInv, WaitInv
    <3> QED
      BY <1>3, <3>2, <3>3 DEF ReadInv
  <2>3. CASE o.res = Err("PayloadSizeProhibitive")
    <3>1. /\ r_pc' = "closed" /\ r_ret' = "PayloadSizeProhibitive" /\ delivered' = delivered
      BY <1>1, <1>5, <2>3, ReturnTypes DEF Readable
    <3>2. PositionInv'
      BY <3>1 DEF PositionInv
    <3>3. DeliveredInOrder' /\ EofInv' /\ WaitInv'
      BY <1>1, <1>2, <3>1 DEF DeliveredInOrder, EofInv, WaitInv
    <3> QED
      BY <1>3, <3>2, <3>3 DEF ReadInv
  <2>4. CASE /\ n + 1 \in 1 .. Len(written) /\ o.res = Some(written[n + 1].id, written[n + 1].len)
             /\ ReaderStands(o.reader, n + 1)
    <3>1. written[n + 1].id \in Nat /\ written[n + 1].len \in Nat
      BY <1>1, <2>4, FrameShape DEF FrameSet, TypeOK
    <3>2. /\ r_pc' = "ready" /\ r_ret' = "Some"
          /\ delivered' = Append(delivered, [id |-> written[n + 1].id, size |-> written[n + 1].len])
      BY <1>1, <1>5, <2>4, <3>1, ReturnTypes
    <3>3. DeliveredInOrder' /\ Len(delivered') = n + 1
      BY <1>1, <1>2, <2>4, <3>2, OneMore
    <3>4. PositionInv'
      BY <1>2, <1>5, <2>4, <3>3, StandsNext
    <3>5. EofInv' /\ WaitInv'
      BY <3>2 DEF EofInv, WaitInv
    <3> QED
      BY <1>3, <3>3, <3>4, <3>5 DEF ReadInv
  <2> QED
    BY <2>1, <2>2, <2>3, <2>4
<1>6. ASSUME NEW o \in try_read(msg_reader, dec_ctx), msg_reader' = o.reader, o.res = None,
             r_pc = "recv", is_something_read' = FALSE, NEW res, LoopEndsWith(res), ReadReturns(res)
      PROVE  ReadInv'
  <2>1. Starved(o.reader, dec_ctx) /\ ReaderStands(o.reader, n)
    BY <1>1, <1>6, ReadOnce, Results
  <2> QED
    BY <1>2, <1>6, <2>1, ReadEnds
<1>7. ASSUME ~is_something_read, r_pc = "recv", is_something_read' = FALSE, UNCHANGED msg_reader,
             NEW res, LoopEndsWith(res), ReadReturns(res)
      PROVE  ReadInv'
  <2>1. Starved(msg_reader, dec_ctx)
    BY <1>1, <1>7 DEF WaitInv
  <2>2. ReaderStands(msg_reader, n)
    BY <1>1, <1>7, StandsNow
  <2> QED
    BY <1>2, <1>7, <2>1, <2>2, ReadEnds
<1>8. ASSUME r_pc = "recv", UNCHANGED msg_reader, ReadReturns(Err("Io"))
      PROVE  ReadInv'
  <2>1. r_pc' \in {"ready", "closed"} /\ r_ret' = "Io" /\ delivered' = delivered
    BY <1>1, <1>8, ReturnTypes
  <2>2. ReaderStands(msg_reader, n)
    BY <1>1, <1>8, StandsNow
  <2>3. PositionInv'
    BY <1>2, <1>8, <2>1, <2>2, StandsNext
  <2>4. DeliveredInOrder' /\ EofInv' /\ WaitInv'
    BY <1>1, <1>2, <2>1 DEF DeliveredInOrder, EofInv, WaitInv
  <2> QED
    BY <1>3, <2>3, <2>4 DEF ReadInv
<1>9. \/ \E o \in try_read(msg_reader, dec_ctx) :
           /\ msg_reader' = o.reader
           /\ \/ /\ o.res = None /\ r_pc = "ready" /\ r_pc' = "recv" /\ r_ret' = "-"
                 /\ UNCHANGED <<delivered, is_something_read>>
              \/ o.res # None /\ ReadReturns(o.res) /\ r_pc # "closed"
              \/ /\ o.res = None /\ r_pc = "recv" /\ is_something_read' = FALSE
                 /\ \E res : LoopEndsWith(res) /\ ReadReturns(res)
      \/ /\ ~is_something_read /\ r_pc = "recv" /\ is_something_read' = FALSE
         /\ UNCHANGED msg_reader
         /\ \E res : LoopEndsWith(res) /\ ReadReturns(res)
      \/ r_pc = "recv" /\ UNCHANGED msg_reader /\ ReadReturns(Err("Io"))
  BY ReadEffect
<1> QED
  BY <1>4, <1>5, <1>6, <1>7, <1>8, <1>9

-----------------------------------------------------------------------------
(* The invariant of the receiver holds.                                     *)

LEMMA ReadInit == Init => ReadInv
<1> SUFFICES ASSUME Init PROVE ReadInv
  OBVIOUS
<1>1. /\ snd = <<>> /\ rcv = <<>> /\ fin = "no" /\ reset = FALSE /\ current_write = <<>>
      /\ msg_reader = [read_buffer |-> <<>>, read_len |-> 0]
      /\ r_pc = "idle" /\ r_ret = "-" /\ written = <<>> /\ delivered = <<>>
  BY DEF Init, InitStream, new_reader
<1>2. Len(written) = 0 /\ Len(delivered) = 0 /\ msg_reader.read_len = 0 /\ msg_reader.read_buffer = <<>>
  BY <1>1
<1>3. DeliveredInOrder /\ FinInv /\ EofInv
  BY <1>1, <1>2 DEF DeliveredInOrder, FinInv, EofInv
<1>4. WaitInv
  <2>1. Len(msg_reader.read_buffer) = 0
    BY <1>2
  <2>2. encrypted_size_len(dec_ctx) \in Nat \ {0}
    BY HeaderLen
  <2> QED
    BY <1>1, <1>2, <2>1, <2>2 DEF WaitInv, Starved
<1>5. PositionInv
  <2>1. <<>> \in Seq({}) /\ <<>> \o <<>> = <<>>
    BY ConcatEmptySeq
  <2>2. Unsent = <<>>
    BY <1>1 DEF Unsent
  <2>3. Line = <<>>
    BY <1>1, <1>2, <2>1, <2>2 DEF Line
  <2>4. Ahead(Line, written, 0)
    BY <1>2 DEF Ahead
  <2>5. max_payload_size \in Nat
    BY ReaderAssumption DEF ReaderAssumption
  <2> QED
    BY <1>2, <2>3, <2>4, <2>5 DEF PositionInv, Position
<1> QED
  BY <1>3, <1>4, <1>5 DEF ReadInv

LEMMA ReadNext == Ready /\ SendInv /\ ReadInv /\ [Next]_vars => ReadInv'
<1> SUFFICES ASSUME Ready, SendInv, ReadInv, [Next]_vars PROVE ReadInv'
  OBVIOUS
<1>1. CASE Sender
  BY <1>1, ReadStill, ReadFlush, ReadCut DEF Sender, Flush
<1>2. CASE Receiver
  <2>1. ReadStep => Readable
    BY ReadsWhenReady DEF Ready
  <2> QED
    BY <1>2, <2>1, ReadStill, ReadData, ReadRead DEF Receiver, Recv, ReadStep
<1>3. CASE Kernel
  BY <1>3, ReadDeliver, ReadStill, ReadCut DEF Kernel
<1>4. CASE Tick \/ UNCHANGED vars
  BY <1>4, ReadStill
<1> QED
  BY <1>1, <1>2, <1>3, <1>4 DEF Next

-----------------------------------------------------------------------------
(* What waits to be written, as the channel sees it.                        *)

(* The frames accepted that are not written: queued, or being written. *)
Waiting == QFrames(out_queue) \cup InProgress

Broken == reset \/ w_pc = "closed"

(* The frame being written goes before those of its priority. *)
OrderInv ==
  \A f \in InProgress : \A g \in QFrames(out_queue) : g.priority = f.priority => f.id < g.id

(* The frame a turn takes goes before those of its priority that stay. *)
LEMMA DataOldest ==
  ASSUME SendInv, OrderInv, HasData
  PROVE  \A g \in QFrames(QueueWithoutData) :
           g.priority = Data[1].frame.priority => Data[1].frame.id < g.id
<1> DEFINE d == Data
           r == QueueWithoutData
           n == next_id - 1
<1>1. n \in Nat /\ FrameQueue(out_queue, Frame, n) /\ FrameSet(Frame)
  BY IdBelow, FrameShape DEF SendInv, QueueInv
<1>2. CASE current_write # <<>>
  <2>1. d = current_write /\ r = out_queue /\ InProgress = {d[1].frame}
    BY <1>2 DEF Data, QueueWithoutData, InProgress
  <2> HIDE DEF d, r
  <2>2. \A g \in QFrames(r) : g.priority = d[1].frame.priority => d[1].frame.id < g.id
    BY <2>1 DEF OrderInv
  <2> QED
    BY <2>2 DEF d, r
<1>3. CASE current_write = <<>>
  <2>1. DOMAIN out_queue # {} /\ d = next_msg(out_queue) /\ r = after_next_msg(out_queue)
    BY <1>3 DEF HasData, Data, QueueWithoutData
  <2> HIDE DEF d, r, n
  <2>2. /\ QFrames(r) = QFrames(out_queue) \ {d[1].frame}
        /\ \A g \in QFrames(out_queue) :
             g.priority = d[1].frame.priority => g = d[1].frame \/ d[1].frame.id < g.id
    BY <1>1, <2>1, NextFrames
  <2>3. \A g \in QFrames(r) : g.priority = d[1].frame.priority => d[1].frame.id < g.id
    BY <2>2
  <2> QED
    BY <2>3 DEF d, r
<1> QED
  BY <1>2, <1>3

(* A call of write: droppable frames go, and the frame of a new message     *)
(* waits.                                                                   *)
LEMMA WaitingWrite ==
  ASSUME SendInv, OrderInv, NEW p \in Priority, NEW l \in Lens, Write(p, l)
  PROVE  /\ \E f \in Frame, drop \in SUBSET {g \in Waiting : g.priority >= msg_drop_priority} :
              /\ f.id = next_id /\ f.priority = p /\ f.ctx = enc_ctx
              /\ Waiting' = (Waiting \ drop) \cup {f}
         /\ next_id' = next_id + 1 /\ OrderInv'
         /\ UNCHANGED <<written, delivered>> /\ Broken' = Broken
<1> DEFINE n == next_id - 1
           f == [id |-> next_id, priority |-> p, len |-> l, ctx |-> enc_ctx]
           drop == QFrames(out_queue) \ QFrames(Kept)
<1>1. /\ TypeOK /\ QueueInv /\ PlacesInv
      /\ n \in Nat /\ next_id = n + 1 /\ next_id \in Nat \ {0} /\ now \in Nat
  BY IdBelow DEF SendInv, TypeOK
<1>2. /\ out_queue' = push_at(Kept, now, serialize_with_len(f), p)
      /\ next_id' = next_id + 1 /\ w_pc = "idle" /\ w_pc' = "flush"
      /\ UNCHANGED <<current_write, written, delivered, reset>>
  BY DEF Write, StartWrite, receiverVars
<1>3. /\ FrameQueue(Kept, Frame, n) /\ QFrames(Kept) \subseteq QFrames(out_queue) /\ FrameSet(Frame)
      /\ \A g \in drop : g.priority >= msg_drop_priority
  BY <1>1, KeptShape, FrameShape
<1>4. f \in Frame /\ f.id = n + 1 /\ f.priority = p /\ f.id = next_id /\ f.ctx = enc_ctx
  <2>1. enc_ctx \in {FirstCtx, SecondCtx}
    BY <1>1 DEF TypeOK
  <2> QED
    BY <1>1, <2>1 DEF Frame
<1> HIDE DEF f
<1>5. QFrames(out_queue') = QFrames(Kept) \cup {f}
  <2>1. out_queue' = push_at(Kept, now, serialize_with_len(f), f.priority)
    BY <1>2, <1>4
  <2> HIDE DEF n
  <2> QED
    BY <1>1, <1>3, <1>4, <2>1, PushFrames
<1>6. InProgress' = InProgress
  BY <1>2 DEF InProgress
<1>7. QFrames(out_queue) \cap InProgress = {}
  BY <1>1 DEF PlacesInv
<1>8. Waiting' = (Waiting \ drop) \cup {f} /\ drop \subseteq Waiting
  BY <1>3, <1>5, <1>6, <1>7 DEF Waiting
<1>9. OrderInv'
  <2>1. \A g \in InProgress : g.id \in 1 .. n
    BY <1>1 DEF PlacesInv, Known
  <2>2. \A g \in InProgress : g.id < f.id
    BY <1>1, <1>4, <2>1
  <2>3. \A g \in InProgress : \A h \in QFrames(Kept) \cup {f} : h.priority = g.priority => g.id < h.id
    BY <1>3, <2>2 DEF OrderInv
  <2> QED
    BY <1>5, <1>6, <2>3 DEF OrderInv
<1>10. Broken' = Broken
  BY <1>2 DEF Broken
<1> QED
  BY <1>2, <1>3, <1>4, <1>8, <1>9, <1>10

(* The other calls of write only drop. *)
LEMMA WaitingShed ==
  ASSUME SendInv, OrderInv, WriteUnencodable \/ OnWritable
  PROVE  /\ \E drop \in SUBSET {g \in Waiting : g.priority >= msg_drop_priority} :
              Waiting' = Waiting \ drop
         /\ OrderInv' /\ UNCHANGED <<next_id, written, delivered>> /\ Broken' = Broken
<1> DEFINE drop == QFrames(out_queue) \ QFrames(Kept)
<1>1. TypeOK /\ QueueInv /\ PlacesInv
  BY DEF SendInv
<1>2. /\ out_queue' = Kept /\ w_pc = "idle" /\ w_pc' # "closed"
      /\ UNCHANGED <<current_write, next_id, written, delivered, reset>>
  BY DEF WriteUnencodable, OnWritable, StartWrite, receiverVars
<1>3. /\ QFrames(Kept) \subseteq QFrames(out_queue)
      /\ \A g \in drop : g.priority >= msg_drop_priority
  BY <1>1, KeptShape
<1>4. InProgress' = InProgress /\ QFrames(out_queue)' = QFrames(Kept) /\ Broken' = Broken
  BY <1>2 DEF InProgress, Broken
<1>5. QFrames(out_queue) \cap InProgress = {}
  BY <1>1 DEF PlacesInv
<1>6. Waiting' = Waiting \ drop /\ drop \subseteq Waiting
  BY <1>3, <1>4, <1>5 DEF Waiting
<1>7. OrderInv'
  BY <1>3, <1>4 DEF OrderInv
<1> QED
  BY <1>2, <1>3, <1>4, <1>6, <1>7

(* A turn of the loop: a frame is written to its last byte, stays in        *)
(* progress, or is lost after a reset.                                      *)
LEMMA WaitingFlush ==
  ASSUME SendInv, OrderInv,
         \/ \E n \in 1 .. SndCap : FlushSend(n)
         \/ FlushWouldBlock \/ FlushInterrupted \/ FlushErr
  PROVE  /\ \/ \E f \in Waiting :
                 /\ ~Broken /\ written' = Append(written, f) /\ Waiting' = Waiting \ {f}
                 /\ \A g \in Waiting : g.priority = f.priority => f.id <= g.id
            \/ written' = written /\ Waiting' = Waiting
            \/ written' = written /\ Waiting' \subseteq Waiting /\ Broken
         /\ OrderInv' /\ UNCHANGED <<next_id, delivered>> /\ Broken' = Broken
<1> DEFINE f == Data[1].frame
           R == QFrames(QueueWithoutData)
<1>1. TypeOK /\ QueueInv /\ PlacesInv
  BY DEF SendInv
<1>2. PICK rest : Turn(rest)
  BY DEF FlushSend, Sent, FlushWouldBlock, FlushInterrupted, FlushErr, NotSent
<1>3. /\ w_pc = "flush" /\ HasData /\ out_queue' = QueueWithoutData
      /\ UNCHANGED <<reset, next_id, delivered>> /\ w_pc' \in {"flush", "idle"}
  BY <1>1, <1>2, TurnFrame
     DEF FlushSend, Sent, FlushWouldBlock, FlushInterrupted, FlushErr, NotSent, Returned
<1>4. /\ Waiting = R \cup {f} /\ f \notin R /\ IsRest(Data, Frame)
      /\ f.id \in 1 .. next_id - 1
  BY <1>1, <1>3, DataShape DEF Waiting
<1>5. \A g \in R : g.priority = f.priority => f.id < g.id
  BY <1>3, DataOldest
<1>6. QFrames(out_queue)' = R /\ Broken' = Broken
  BY <1>3 DEF Broken
<1> HIDE DEF f, R
<1>7. \A g \in Waiting : g.priority = f.priority => f.id <= g.id
  <2>1. f.id <= f.id
    BY <1>4
  <2>2. R \subseteq Frame
    <3>1. next_id - 1 \in Nat /\ FrameSet(Frame) /\ FrameQueue(QueueWithoutData, Frame, next_id - 1)
      BY <1>1, <1>3, IdBelow, FrameShape, DataShape
    <3> QED
      BY <3>1, FramesIn DEF R
  <2>3. \A g \in R : g.id \in Nat
    BY <2>2, FrameShape DEF FrameSet
  <2>4. \A g \in R : f.id < g.id => f.id <= g.id
    BY <1>4, <2>3
  <2> QED
    BY <1>4, <1>5, <2>1, <2>4
<1>8. ASSUME InProgress' = {f} PROVE Waiting' = Waiting /\ OrderInv'
  BY <1>4, <1>5, <1>6, <1>8 DEF Waiting, OrderInv
<1>9. ASSUME InProgress' = {} PROVE Waiting' = Waiting \ {f} /\ OrderInv'
  BY <1>4, <1>6, <1>9 DEF Waiting, OrderInv
<1>10. ASSUME NEW n \in 1 .. SndCap, FlushSend(n)
       PROVE  \/ ~Broken /\ written' = Append(written, f) /\ InProgress' = {}
              \/ written' = written /\ InProgress' = {f}
  <2> DEFINE e == SubSeq(Data, n + 1, Len(Data))
  <2>1. /\ current_write' = e /\ ~reset /\ n <= Len(Data)
        /\ written' = IF n = Len(Data) THEN Append(written, f) ELSE written
    BY <1>10 DEF FlushSend, Sent, Turn, KernelTakes, f
  <2>2. n \in 0 .. Len(Data)
    <3>1. SndCap \in Nat /\ Len(Data) \in Nat
      BY <1>4, TcpAssumption DEF TcpAssumption, IsRest
    <3> QED
      BY <2>1, <3>1
  <2>3. /\ n = Len(Data) => e = <<>>
        /\ n # Len(Data) => IsRest(e, Frame) /\ e[1].frame = f
    BY <1>4, <2>2, RestSplit, FrameShape DEF f
  <2> HIDE DEF e
  <2>4. n = Len(Data) => InProgress' = {}
    BY <2>1, <2>3 DEF InProgress
  <2>5. n # Len(Data) => InProgress' = {f}
    BY <2>1, <2>3 DEF InProgress, IsRest
  <2> QED
    BY <1>3, <2>1, <2>4, <2>5 DEF Broken
<1>11. CASE FlushWouldBlock \/ FlushInterrupted
  <2>1. current_write' = Data /\ written' = written
    BY <1>11 DEF FlushWouldBlock, FlushInterrupted, NotSent, Turn
  <2>2. InProgress' = {f}
    BY <1>4, <2>1 DEF InProgress, IsRest, f
  <2> QED
    BY <1>3, <1>6, <1>8, <2>1, <2>2
<1>12. CASE FlushErr
  <2>1. current_write' = <<>> /\ written' = written /\ Broken
    BY <1>12 DEF FlushErr, NotSent, Turn, Broken
  <2>2. InProgress' = {}
    BY <2>1 DEF InProgress
  <2> QED
    BY <1>3, <1>6, <1>9, <2>1, <2>2
<1> QED
  BY <1>3, <1>4, <1>6, <1>7, <1>8, <1>9, <1>10, <1>11, <1>12

(* The steps that do not touch the queue or the frame in progress. *)
LEMMA WaitingStill ==
  ASSUME Ready, SendInv, ReadInv, OrderInv,
         FlushDone \/ SetEncryptCtx \/ Tick \/ UNCHANGED vars \/ Receiver
           \/ (\E n \in 1 .. RcvCap : Deliver(n)) \/ Establish \/ FinArrive
  PROVE  /\ UNCHANGED <<next_id, written>> /\ Waiting' = Waiting /\ OrderInv' /\ Broken' = Broken
         /\ \/ delivered' = delivered
            \/ Len(delivered') = Len(delivered) + 1 /\ Len(delivered) < Len(written)
<1> DEFINE Same == /\ UNCHANGED <<out_queue, current_write, next_id, written, reset>>
                   /\ w_pc' = "closed" <=> w_pc = "closed"
<1>1. TypeOK /\ DeliveredInOrder /\ PositionInv
  BY DEF SendInv, ReadInv
<1>2. CASE \/ FlushDone \/ SetEncryptCtx \/ Tick \/ UNCHANGED vars \/ Establish \/ FinArrive
           \/ OnReadable \/ RecvData \/ SetDecryptCtx \/ DropReceiver
           \/ \E n \in 1 .. RcvCap : Deliver(n)
  <2>1. Same /\ delivered' = delivered
    BY <1>2
       DEF FlushDone, Returned, SetEncryptCtx, Tick, vars, Establish, FinArrive, OnReadable,
           SetDecryptCtx, DropReceiver, RecvData, Deliver, senderVars, kernelVars
  <2> QED
    BY <2>1 DEF Waiting, InProgress, OrderInv, Broken
<1>3. CASE ReadStep
  <2>1. Same /\ Readable
    BY <1>3, ReadEffect, ReadsWhenReady DEF senderVars, kernelVars, Ready
  <2>2. ASSUME NEW o \in try_read(msg_reader, dec_ctx), ReadReturns(o.res), o.res # None, r_pc # "closed"
        PROVE  \/ delivered' = delivered
               \/ Len(delivered') = Len(delivered) + 1 /\ Len(delivered) < Len(written)
    <3> DEFINE n == Len(delivered)
    <3>1. \/ o.res = Err("Crypto") \/ o.res = Err("PayloadSizeProhibitive")
          \/ n + 1 \in 1 .. Len(written) /\ o.res = Some(written[n + 1].id, written[n + 1].len)
      BY <1>1, <2>1, <2>2, ReadOnce
    <3>2. CASE o.res = Err("Crypto") \/ o.res = Err("PayloadSizeProhibitive")
      BY <1>1, <2>2, <3>2, ReturnTypes
    <3>3. CASE n + 1 \in 1 .. Len(written) /\ o.res = Some(written[n + 1].id, written[n + 1].len)
      <4>1. written[n + 1].id \in Nat /\ written[n + 1].len \in Nat
        BY <1>1, <3>3, FrameShape DEF FrameSet, TypeOK
      <4>2. delivered' = Append(delivered, [id |-> written[n + 1].id, size |-> written[n + 1].len])
        BY <1>1, <2>2, <3>3, <4>1, ReturnTypes
      <4>3. Len(delivered') = n + 1
        BY <1>1, <2>1, <3>3, <4>2, OneMore
      <4>4. n \in Nat /\ Len(written) \in Nat
        BY <1>1 DEF TypeOK
      <4> HIDE DEF n
      <4>5. n < Len(written)
        BY <3>3, <4>4
      <4> QED
        BY <4>3, <4>5 DEF n
    <3> QED
      BY <3>1, <3>2, <3>3
  <2>3. ASSUME NEW res, LoopEndsWith(res), ReadReturns(res)
        PROVE  delivered' = delivered
    <3>1. res \in {None, [tag |-> "Interrupted"]} \/ res = Err("ZeroByteRead")
      BY <2>3 DEF LoopEndsWith
    <3> QED
      BY <1>1, <2>3, <3>1, ReturnTypes
  <2>4. ASSUME ReadReturns(Err("Io")) PROVE delivered' = delivered
    BY <1>1, <2>4, ReturnTypes
  <2>5. \/ delivered' = delivered
        \/ Len(delivered') = Len(delivered) + 1 /\ Len(delivered) < Len(written)
    <3>1. \/ \E o \in try_read(msg_reader, dec_ctx) :
               \/ delivered' = delivered
               \/ o.res # None /\ ReadReturns(o.res) /\ r_pc # "closed"
               \/ \E res : LoopEndsWith(res) /\ ReadReturns(res)
          \/ \E res : LoopEndsWith(res) /\ ReadReturns(res)
          \/ ReadReturns(Err("Io"))
      BY <1>3, ReadEffect
    <3> QED
      BY <2>2, <2>3, <2>4, <3>1
  <2> QED
    BY <2>1, <2>5 DEF Waiting, InProgress, OrderInv, Broken
<1> QED
  BY <1>2, <1>3 DEF Receiver, Recv, ReadStep

(* The connection ends. *)
LEMMA WaitingEnds ==
  ASSUME SendInv, OrderInv, DropSender \/ Reset
  PROVE  /\ Waiting' \subseteq Waiting /\ Broken' /\ OrderInv'
         /\ UNCHANGED <<next_id, written, delivered>>
<1>1. CASE DropSender
  <2>1. /\ w_pc' = "closed" /\ out_queue' = new /\ current_write' = <<>>
        /\ UNCHANGED <<next_id, written, delivered>>
    BY <1>1 DEF DropSender
  <2>2. QFrames(new) = {}
    BY IdBelow, FrameShape, NewFrames DEF SendInv
  <2>3. InProgress' = {} /\ QFrames(out_queue)' = {}
    BY <2>1, <2>2 DEF InProgress
  <2> QED
    BY <2>1, <2>3 DEF Waiting, Broken, OrderInv
<1>2. CASE Reset
  <2>1. reset' = TRUE /\ UNCHANGED <<out_queue, current_write, next_id, written, delivered>>
    BY <1>2 DEF Reset, senderVars
  <2> QED
    BY <2>1 DEF Waiting, InProgress, Broken, OrderInv
<1> QED
  BY <1>1, <1>2

(* A step of the connection: a message is accepted, droppable ones are shed, *)
(* one is written to its last byte, or the connection ends.                 *)
LEMMA WaitingNext ==
  ASSUME Ready, SendInv, ReadInv, OrderInv, [Next]_vars
  PROVE  /\ OrderInv'
         /\ \/ \E f \in Frame, drop \in SUBSET {g \in Waiting : g.priority >= msg_drop_priority} :
                 /\ f.id = next_id /\ f.ctx = enc_ctx /\ ~EncSwitchDue
                 /\ Waiting' = (Waiting \ drop) \cup {f}
                 /\ next_id' = next_id + 1 /\ written' = written /\ Broken' = Broken
            \/ \E drop \in SUBSET {g \in Waiting : g.priority >= msg_drop_priority} :
                 /\ Waiting' = Waiting \ drop
                 /\ next_id' = next_id /\ written' = written /\ Broken' = Broken
            \/ \E f \in Waiting :
                 /\ ~Broken /\ written' = Append(written, f) /\ Waiting' = Waiting \ {f}
                 /\ \A g \in Waiting : g.priority = f.priority => f.id <= g.id
                 /\ next_id' = next_id /\ Broken' = Broken
            \/ Waiting' \subseteq Waiting /\ Broken' /\ written' = written /\ next_id' = next_id
<1> DEFINE D == {g \in Waiting : g.priority >= msg_drop_priority}
<1>1. ASSUME NEW p \in Priority, NEW l \in Lens, Write(p, l)
      PROVE  /\ OrderInv'
             /\ \E f \in Frame, drop \in SUBSET D :
                 /\ f.id = next_id /\ f.ctx = enc_ctx /\ ~EncSwitchDue
                 /\ Waiting' = (Waiting \ drop) \cup {f}
                 /\ next_id' = next_id + 1 /\ written' = written /\ Broken' = Broken
  <2>1. ~EncSwitchDue
    BY <1>1 DEF Write
  <2> HIDE DEF D
  <2> QED
    BY <1>1, <2>1, WaitingWrite DEF D
<1>2. CASE WriteUnencodable \/ OnWritable
  BY <1>2, WaitingShed
<1>3. CASE \/ \E n \in 1 .. SndCap : FlushSend(n)
           \/ FlushWouldBlock \/ FlushInterrupted \/ FlushErr
  <2>1. {} \in SUBSET D /\ Waiting \ {} = Waiting
    OBVIOUS
  <2>2. OrderInv' /\ next_id' = next_id /\ Broken' = Broken
    BY <1>3, WaitingFlush
  <2>3. \/ \E f \in Waiting :
             /\ ~Broken /\ written' = Append(written, f) /\ Waiting' = Waiting \ {f}
             /\ \A g \in Waiting : g.priority = f.priority => f.id <= g.id
        \/ written' = written /\ Waiting' = Waiting
        \/ written' = written /\ Waiting' \subseteq Waiting /\ Broken
    BY <1>3, WaitingFlush
  <2>4. CASE written' = written /\ Waiting' = Waiting
    BY <2>1, <2>2, <2>4
  <2>5. CASE written' = written /\ Waiting' \subseteq Waiting /\ Broken
    BY <2>2, <2>5
  <2>6. CASE \E f \in Waiting :
             /\ ~Broken /\ written' = Append(written, f) /\ Waiting' = Waiting \ {f}
             /\ \A g \in Waiting : g.priority = f.priority => f.id <= g.id
    BY <2>2, <2>6
  <2> QED
    BY <2>3, <2>4, <2>5, <2>6
<1>4. CASE FlushDone \/ SetEncryptCtx \/ Tick \/ UNCHANGED vars \/ Receiver
             \/ (\E n \in 1 .. RcvCap : Deliver(n)) \/ Establish \/ FinArrive
  <2>1. {} \in SUBSET D /\ Waiting \ {} = Waiting
    OBVIOUS
  <2>2. UNCHANGED <<next_id, written>> /\ Waiting' = Waiting /\ OrderInv' /\ Broken' = Broken
    BY <1>4, WaitingStill
  <2> QED
    BY <2>1, <2>2
<1>5. CASE DropSender \/ Reset
  BY <1>5, WaitingEnds
<1> QED
  BY <1>1, <1>2, <1>3, <1>4, <1>5 DEF Next, Sender, Flush, Kernel

-----------------------------------------------------------------------------
(* The change of contexts.                                                  *)

(* The context of each message. *)
CtxOf(i) == IF SwitchAfter > 0 /\ i > SwitchAfter THEN SecondCtx ELSE FirstCtx

Changes == SwitchAfter > 0 /\ FirstCtx # SecondCtx

(* What it takes for the two ends to agree on contexts, whatever they are:  *)
(* lengths that fit their header; and if the contexts change, frames that   *)
(* enter the stream in the order of the calls of write, with none left out: *)
(* one priority, and not a droppable one.  (An urgent message under the     *)
(* second context would overtake the last one under the first.)             *)
Agreed ==
  /\ \A l \in Lens : l # 0 /\ l < U32
  /\ "PayloadSizeProhibitive" \notin KeepOnErr
  /\ Changes => \A p, q \in Priority : p = q /\ p < msg_drop_priority

(* The sender changes in time ... *)
EncInv == ~EncSwitchDue => enc_ctx = CtxOf(next_id)

(* ... and so does the reader, between two calls of read. *)
DecInv ==
  /\ ~DecSwitchDue => dec_ctx = CtxOf(Len(delivered) + 1)
  /\ DecSwitchDue => r_pc \in {"ready", "closed"}
  /\ ContextsAgree

(* The frames have the contexts of their messages, and are written in order *)
(* with none left out.                                                      *)
CountInv ==
  /\ \A f \in Waiting \cup Done(written) : f.ctx = CtxOf(f.id)
  /\ Changes =>
       /\ \A i \in 1 .. Len(written) : written[i].id = i
       /\ ~Broken => \A i \in 1 .. next_id - 1 : i > Len(written) => \E f \in Waiting : f.id = i

(* On the line, a frame not written to its last byte is the one after those *)
(* that were.                                                               *)
OnLineInv ==
  \A f \in OnLine :
    /\ f.ctx = CtxOf(f.id)
    /\ Changes => f \in Done(written) \/ f.id = Len(written) + 1

CtxInv == EncInv /\ DecInv /\ CountInv /\ OnLineInv

(* The oldest frame that waits is the next one. *)
LEMMA OldestIsNext ==
  ASSUME NEW W \in Seq(Frame), NEW Q, NEW n \in Nat,
         \A f \in Q \cup Done(W) : f.id \in 1 .. n,
         \A f, g \in Q \cup Done(W) : f.id = g.id => f = g,
         Q \cap Done(W) = {}, \A i \in 1 .. Len(W) : W[i].id = i,
         \A i \in 1 .. n : i > Len(W) => \E g \in Q : g.id = i,
         NEW f \in Q, \A g \in Q : f.id <= g.id
  PROVE  f.id = Len(W) + 1
<1> DEFINE m == Len(W)
<1>1. m \in Nat /\ f.id \in 1 .. n
  OBVIOUS
<1>2. f.id \notin 1 .. m
  <2> SUFFICES ASSUME f.id \in 1 .. m PROVE FALSE
    OBVIOUS
  <2>1. W[f.id].id = f.id /\ W[f.id] \in Done(W)
    BY DEF Done
  <2>2. W[f.id] = f
    BY <2>1
  <2> QED
    BY <2>1, <2>2
<1>3. m + 1 \in 1 .. n /\ m + 1 > m
  BY <1>1, <1>2
<1>4. PICK g \in Q : g.id = m + 1
  BY <1>3
<1>5. f.id <= m + 1
  BY <1>4
<1> QED
  BY <1>1, <1>2, <1>5

(* Ids and places, in terms of the frames that wait. *)
WaitingShape ==
  /\ next_id - 1 \in Nat /\ next_id = (next_id - 1) + 1 /\ written \in Seq(Frame)
  /\ Waiting \subseteq Frame /\ InProgress \subseteq Waiting
  /\ \A f \in Waiting \cup Done(written) : f.id \in 1 .. next_id - 1
  /\ \A f, g \in Waiting \cup Done(written) : f.id = g.id => f = g
  /\ Waiting \cap Done(written) = {}

LEMMA WaitingPlaces == SendInv => WaitingShape
<1> SUFFICES ASSUME SendInv PROVE WaitingShape
  OBVIOUS
<1>1. TypeOK /\ QueueInv /\ PlacesInv
  BY DEF SendInv
<1>2. next_id - 1 \in Nat /\ next_id = (next_id - 1) + 1 /\ written \in Seq(Frame)
  BY <1>1, IdBelow DEF TypeOK
<1>3. Waiting \cup Done(written) = Known
  BY DEF Waiting, Known
<1>4. Waiting \subseteq Frame
  <2>1. QFrames(out_queue) \subseteq Frame
    BY <1>1, KeptShape
  <2>2. InProgress \subseteq Frame
    <3> SUFFICES ASSUME current_write # <<>> PROVE current_write[1].frame \in Frame
      BY DEF InProgress
    <3>1. IsRest(current_write, Frame) /\ current_write \in Seq(Cells(Frame)) /\ FrameSet(Frame)
      BY <1>1, BufferTypes, FrameShape DEF QueueInv
    <3>2. 1 \in 1 .. Len(current_write)
      BY <3>1 DEF IsRest
    <3> QED
      BY <3>1, <3>2, LineTypes
  <2> QED
    BY <2>1, <2>2 DEF Waiting
<1> QED
  BY <1>1, <1>2, <1>3, <1>4 DEF PlacesInv, Waiting, WaitingShape

LEMMA WaitingPlacesNext == SendInv' => WaitingShape'
  BY WaitingPlaces, PTL

(* The bytes of a part of a line are bytes of the line. *)
LEMMA PartElements ==
  ASSUME NEW C, NEW s \in Seq(C), NEW j \in 0 .. Len(s), NEW k \in 0 .. Len(s)
  PROVE  LET t == SubSeq(s, j + 1, k)
         IN  \A i \in 1 .. Len(t) : \E h \in 1 .. Len(s) : t[i] = s[h]
<1> DEFINE t == SubSeq(s, j + 1, k)
<1>1. Len(t) = IF j + 1 <= k THEN k - j ELSE 0
  BY SubSeqProperties
<1>2. \A i \in 1 .. k - j : t[i] = s[j + i]
  BY SubSeqProperties
<1> SUFFICES ASSUME NEW i \in 1 .. Len(t) PROVE \E h \in 1 .. Len(s) : t[i] = s[h]
  OBVIOUS
<1> HIDE DEF t
<1>3. i \in 1 .. k - j
  BY <1>1
<1>4. j + i \in 1 .. Len(s)
  BY <1>3
<1> QED
  BY <1>2, <1>3, <1>4

(* What the line holds after a step: frames it held, or those that are      *)
(* written or being written.                                                *)
LEMMA OnLineNext ==
  ASSUME SendInv, SendInv', [Next]_vars
  PROVE  \/ ~Broken' /\ OnLine' \subseteq Done(written)' \cup InProgress'
         \/ Broken' /\ OnLine' \subseteq OnLine
<1>1. TypeOK /\ BytesInv /\ Live = ~Broken /\ Live' = ~Broken'
  BY DEF SendInv, Live, Broken
<1>2. CASE Live'
  <2>1. EndsWhole(Line, written, InProgress)'
    BY <1>2 DEF SendInv, BytesInv, LineInv
  <2> QED
    BY <1>1, <1>2, <2>1 DEF EndsWhole, OnLine
<1>3. CASE ~Live'
  <2> SUFFICES ASSUME Line' # Line PROVE OnLine' \subseteq OnLine
    BY <1>1, <1>3 DEF OnLine
  <2> DEFINE Part == \E j, k \in 0 .. Len(Line) : Line' = SubSeq(Line, j + 1, k)
  <2>1. Part => OnLine' \subseteq OnLine
    <3> SUFFICES ASSUME NEW j \in 0 .. Len(Line), NEW k \in 0 .. Len(Line),
                        Line' = SubSeq(Line, j + 1, k)
                 PROVE  OnLine' \subseteq OnLine
      OBVIOUS
    <3> DEFINE s == Line
    <3>1. s \in Seq(Cells(Frame)) /\ j \in 0 .. Len(s) /\ k \in 0 .. Len(s)
      BY <1>1, BufferTypes
    <3>2. Line' = SubSeq(s, j + 1, k)
      OBVIOUS
    <3> HIDE DEF s
    <3>3. \A i \in 1 .. Len(Line') : \E h \in 1 .. Len(s) : Line'[i] = s[h]
      BY SMTT(20), <3>1, <3>2, PartElements
    <3> QED
      BY <3>3 DEF OnLine, s
  <2>2. ASSUME DropSender \/ Reset PROVE Part
    <3>1. /\ UNCHANGED <<msg_reader, rcv>> /\ Unsent' = <<>> /\ (snd' = snd \/ snd' = <<>>)
      BY <1>3, <2>2 DEF DropSender, Reset, receiverVars, Unsent
    <3>2. PICK k \in 0 .. Len(Line) : Line' = SubSeq(Line, 1, k)
      BY <1>1, <3>1, CutLine
    <3>3. 0 \in 0 .. Len(Line) /\ 0 + 1 = 1
      BY <1>1, BufferTypes
    <3> QED
      BY <3>2, <3>3
  <2>3. ASSUME ReadStep PROVE Part
    <3>1. UNCHANGED <<rcv, snd, current_write, w_pc, reset, written>>
      BY <2>3, ReadEffect DEF senderVars, kernelVars
    <3>2. msg_reader' = msg_reader => Line' = Line
      BY <3>1 DEF Line, Unsent, Live
    <3>3. PICK o \in try_read(msg_reader, dec_ctx) : msg_reader' = o.reader
      BY <2>3, <3>2, ReadEffect
    <3>4. PICK k \in 0 .. Len(msg_reader.read_buffer) :
            msg_reader'.read_buffer =
              SubSeq(msg_reader.read_buffer, k + 1, Len(msg_reader.read_buffer))
      BY <1>1, <3>3, ReadShape, BufferTypes, FrameShape
    <3>5. k \in 0 .. Len(Line) /\ Line' = SubSeq(Line, k + 1, Len(Line))
      BY <3>1, <3>3, <3>4, TakeStep
    <3>6. Len(Line) \in 0 .. Len(Line)
      BY <1>1, BufferTypes
    <3> QED
      BY <3>5, <3>6
  <2>4. ~RecvData /\ ~(\E n \in 1 .. RcvCap : Deliver(n))
    BY RecvDataStep, DeliverStep
  <2>5. ASSUME \/ \E n \in 1 .. SndCap : FlushSend(n)
               \/ FlushWouldBlock \/ FlushInterrupted \/ FlushErr
        PROVE  FALSE
    <3>1. PICK rest : Turn(rest)
      BY <2>5 DEF FlushSend, Sent, FlushWouldBlock, FlushInterrupted, FlushErr, NotSent
    <3>2. w_pc = "flush" /\ UNCHANGED <<msg_reader, rcv, reset>>
      BY <1>1, <3>1, TurnFrame
    <3>3. w_pc' # "closed"
      BY <2>5, <3>2 DEF FlushSend, Sent, FlushWouldBlock, FlushInterrupted, FlushErr, NotSent, Returned
    <3>4. reset
      BY <1>3, <3>2, <3>3 DEF Live
    <3>5. FlushErr /\ snd' = snd
      BY <2>5, <3>4 DEF FlushSend, Sent, KernelTakes, FlushWouldBlock, FlushInterrupted, FlushErr, NotSent
    <3> QED
      BY <3>2, <3>4, <3>5 DEF Line, Unsent, Live
  <2>6. ASSUME \/ \E p \in Priority, l \in Lens : Write(p, l)
               \/ WriteUnencodable \/ OnWritable \/ FlushDone \/ SetEncryptCtx \/ SetDecryptCtx
               \/ Establish \/ FinArrive \/ Tick \/ OnReadable \/ DropReceiver \/ UNCHANGED vars
        PROVE  FALSE
    <3>1. /\ UNCHANGED <<msg_reader, rcv, snd, current_write, reset>>
          /\ w_pc' = "closed" <=> w_pc = "closed"
      BY <2>6
         DEF Write, WriteUnencodable, OnWritable, StartWrite, FlushDone, Returned, SetEncryptCtx,
             SetDecryptCtx, Establish, FinArrive, Tick, OnReadable, DropReceiver, vars, senderVars,
             kernelVars, receiverVars
    <3> QED
      BY <3>1 DEF Line, Unsent, Live
  <2> HIDE DEF Part
  <2> QED
    BY <2>1, <2>2, <2>3, <2>4, <2>5, <2>6
       DEF Next, Sender, Flush, Receiver, Recv, Kernel, ReadStep
<1> QED
  BY <1>2, <1>3

(* What comes next is under the context the reader has, unless it is about  *)
(* to change it.                                                            *)
LEMMA NextDecrypts ==
  ASSUME Agreed, SendInv, ReadInv, CtxInv, ~DecSwitchDue
  PROVE  ~Foreign(Here, dec_ctx, written, Len(delivered))
<1> DEFINE n == Len(delivered)
<1>1. SwitchAfter \in Nat /\ TypeOK /\ n \in Nat /\ Len(written) \in Nat /\ n <= Len(written)
  <2>1. TypeOK /\ n <= Len(written) /\ SwitchAfter \in Nat
    BY TcpAssumption DEF TcpAssumption, SendInv, ReadInv, DeliveredInOrder
  <2>2. n \in Nat /\ Len(written) \in Nat
    BY <2>1 DEF TypeOK
  <2> QED
    BY <2>1, <2>2
<1> SUFFICES ASSUME NEW f \in Coming(Here, written, n) PROVE Decrypts(dec_ctx, f)
  BY DEF Foreign
<1>2. f \in Here /\ (n < Len(written) => f = written[n + 1]) /\ (n = Len(written) => f \notin Done(written))
  BY DEF Coming
<1>3. f.len < U32
  <2>1. f \in Frame
    BY <1>1, <1>2, HereFrames
  <2>2. f.len \in Lens
    BY <2>1 DEF Frame
  <2> QED
    BY <2>2 DEF Agreed
<1>4. f.ctx = CtxOf(f.id)
  BY <1>2 DEF Here, CtxInv, CountInv, OnLineInv
<1>5. dec_ctx = CtxOf(n + 1)
  BY DEF CtxInv, DecInv
<1>6. CASE ~Changes
  BY <1>1, <1>3, <1>4, <1>5, <1>6 DEF Changes, CtxOf, Decrypts
<1>7. CASE Changes
  <2>1. n < Len(written) => f.id = n + 1
    <3> SUFFICES ASSUME n < Len(written) PROVE f.id = n + 1
      OBVIOUS
    <3>1. n + 1 \in 1 .. Len(written)
      BY <1>1
    <3> QED
      BY <1>2, <1>7, <3>1 DEF CtxInv, CountInv
  <2>2. n = Len(written) => f.id = n + 1
    BY <1>2, <1>7 DEF Here, CtxInv, OnLineInv
  <2>3. f.id = n + 1
    BY <1>1, <2>1, <2>2
  <2> QED
    BY <1>3, <1>4, <1>5, <2>3 DEF Decrypts
<1> QED
  BY <1>6, <1>7

(* It looks into its buffer only when the context of the next frame is the  *)
(* one it has.                                                              *)
LEMMA AgreedReads ==
  ASSUME Agreed, SendInv, ReadInv, CtxInv
  PROVE  Ready
<1> SUFFICES ASSUME MayRead PROVE Readable
  BY DEF Ready
<1>1. ~DecSwitchDue
  BY DEF MayRead, CtxInv, DecInv
<1>2. \A f \in Coming(Here, written, Len(delivered)) : Tells(dec_ctx, f)
  BY <1>1, NextDecrypts DEF Foreign, Decrypts, Tells
<1>3. \A l \in Lens : l % U32 # 0
  <2> SUFFICES ASSUME NEW l \in Lens PROVE l % U32 # 0
    OBVIOUS
  <2>1. l \in Nat /\ U32 \in Nat /\ l # 0 /\ l < U32
    BY TcpAssumption, CryptoAssumption DEF TcpAssumption, CryptoAssumption, Agreed
  <2>2. l % U32 = l
    BY <2>1
  <2> QED
    BY <2>1, <2>2
<1> QED
  BY <1>2, <1>3 DEF Readable, Told, Agreed

(* The sender changes its context before the first message that needs it.   *)
LEMMA EncNext == ASSUME SendInv, EncInv, [Next]_vars PROVE EncInv'
<1>1. SwitchAfter \in Nat /\ next_id \in Nat
  BY TcpAssumption DEF TcpAssumption, SendInv, TypeOK
<1>2. CASE UNCHANGED <<enc_ctx, next_id>>
  BY <1>2 DEF EncInv, EncSwitchDue
<1>3. ASSUME NEW p \in Priority, NEW l \in Lens, Write(p, l) PROVE EncInv'
  <2>1. ~EncSwitchDue /\ enc_ctx' = enc_ctx /\ next_id' = next_id + 1
    BY <1>3 DEF Write, StartWrite
  <2> QED
    BY <1>1, <2>1 DEF EncInv, EncSwitchDue, CtxOf
<1>4. CASE SetEncryptCtx
  <2>1. EncSwitchDue /\ enc_ctx' = SecondCtx /\ next_id' = next_id
    BY <1>4 DEF SetEncryptCtx
  <2> QED
    BY <1>1, <2>1 DEF EncInv, EncSwitchDue, CtxOf
<1>5. ReadStep \/ Kernel \/ Tick \/ UNCHANGED vars => UNCHANGED <<enc_ctx, next_id>>
  BY ReadEffect
     DEF Kernel, Deliver, Establish, FinArrive, Reset, Tick, vars, senderVars
<1>6. ASSUME \/ WriteUnencodable \/ OnWritable \/ Flush \/ DropSender
             \/ OnReadable \/ RecvData \/ SetDecryptCtx \/ DropReceiver
      PROVE  UNCHANGED <<enc_ctx, next_id>>
  BY <1>6
     DEF WriteUnencodable, OnWritable, StartWrite, Flush, FlushSend, Sent, FlushDone,
         FlushWouldBlock, FlushInterrupted, FlushErr, NotSent, Turn, DropSender, OnReadable,
         RecvData, SetDecryptCtx, DropReceiver, senderVars
<1> QED
  BY <1>2, <1>3, <1>4, <1>5, <1>6 DEF Next, Sender, Receiver, Recv, ReadStep

(* Frames keep their contexts, and with one priority none overtakes another *)
(* or is dropped.                                                           *)
LEMMA CountNext ==
  ASSUME Agreed, Ready, SendInv, ReadInv, OrderInv, EncInv, CountInv, [Next]_vars
  PROVE  CountInv'
<1> DEFINE n == next_id - 1
           D == {g \in Waiting : g.priority >= msg_drop_priority}
<1>1. /\ n \in Nat /\ next_id = n + 1 /\ next_id \in Nat /\ written \in Seq(Frame)
      /\ Len(written) \in Nat /\ Waiting \subseteq Frame
      /\ \A f \in Waiting \cup Done(written) : f.id \in 1 .. n
      /\ \A f, g \in Waiting \cup Done(written) : f.id = g.id => f = g
      /\ Waiting \cap Done(written) = {}
  BY WaitingPlaces DEF WaitingShape
<1>2. \A f, g \in Waiting : Changes => f.priority = g.priority
  BY <1>1 DEF Agreed, Frame
<1>3. Changes => D = {}
  <2>1. \A g \in Waiting : g.priority \in Priority
    BY <1>1 DEF Frame
  <2>2. ASSUME Changes, NEW p \in Priority PROVE ~(p >= msg_drop_priority)
    <3>1. p \in Int /\ msg_drop_priority \in Int /\ p < msg_drop_priority
      BY <2>2, OutQueueAssumption DEF OutQueueAssumption, Agreed
    <3> QED
      BY <3>1
  <2> QED
    BY <2>1, <2>2
<1>4. /\ \A f \in Waiting \cup Done(written) : f.ctx = CtxOf(f.id)
      /\ Changes =>
           /\ \A i \in 1 .. Len(written) : written[i].id = i
           /\ ~Broken => \A i \in 1 .. n : i > Len(written) => \E f \in Waiting : f.id = i
  BY DEF CountInv
<1>5. \/ \E f \in Frame, drop \in SUBSET D :
           /\ f.id = next_id /\ f.ctx = enc_ctx /\ ~EncSwitchDue
           /\ Waiting' = (Waiting \ drop) \cup {f}
           /\ next_id' = next_id + 1 /\ written' = written /\ Broken' = Broken
      \/ \E drop \in SUBSET D :
           /\ Waiting' = Waiting \ drop
           /\ next_id' = next_id /\ written' = written /\ Broken' = Broken
      \/ \E f \in Waiting :
           /\ ~Broken /\ written' = Append(written, f) /\ Waiting' = Waiting \ {f}
           /\ \A g \in Waiting : g.priority = f.priority => f.id <= g.id
           /\ next_id' = next_id /\ Broken' = Broken
      \/ Waiting' \subseteq Waiting /\ Broken' /\ written' = written /\ next_id' = next_id
  BY WaitingNext
<1> HIDE DEF D
<1>6. ASSUME NEW f \in Frame, NEW drop \in SUBSET D,
             f.id = next_id, f.ctx = enc_ctx, ~EncSwitchDue,
             Waiting' = (Waiting \ drop) \cup {f},
             next_id' = next_id + 1, written' = written, Broken' = Broken
      PROVE  CountInv'
  <2>1. f.ctx = CtxOf(f.id)
    BY <1>6 DEF EncInv
  <2>2. \A g \in Waiting' \cup Done(written') : g.ctx = CtxOf(g.id)
    BY <1>4, <1>6, <2>1
  <2>3. ASSUME Changes, ~Broken
        PROVE  \A i \in 1 .. (next_id' - 1) : i > Len(written) => \E g \in Waiting' : g.id = i
    <3>1. Waiting' = Waiting \cup {f}
      BY <1>3, <1>6, <2>3
    <3> SUFFICES ASSUME NEW i \in 1 .. (next_id' - 1), i > Len(written)
                 PROVE  \E g \in Waiting' : g.id = i
      OBVIOUS
    <3>2. i \in 1 .. n \/ i = next_id
      BY <1>1, <1>6
    <3> HIDE DEF n
    <3>3. CASE i \in 1 .. n
      BY <1>4, <2>3, <3>1, <3>3
    <3>4. CASE i = next_id
      BY <1>6, <3>1, <3>4
    <3> QED
      BY <3>2, <3>3, <3>4
  <2> QED
    BY <1>4, <1>6, <2>2, <2>3 DEF CountInv, Done
<1>7. ASSUME NEW drop \in SUBSET D, Waiting' = Waiting \ drop,
             next_id' = next_id, written' = written, Broken' = Broken
      PROVE  CountInv'
  <2>1. Waiting' \subseteq Waiting /\ (Changes => Waiting' = Waiting)
    BY <1>3, <1>7
  <2> QED
    BY <1>4, <1>7, <2>1 DEF CountInv, Done
<1>8. ASSUME NEW f \in Waiting, ~Broken, written' = Append(written, f), Waiting' = Waiting \ {f},
             \A g \in Waiting : g.priority = f.priority => f.id <= g.id,
             next_id' = next_id, Broken' = Broken
      PROVE  CountInv'
  <2> DEFINE m == Len(written)
             V == written'
  <2>1. /\ Len(V) = m + 1 /\ V[m + 1] = f /\ \A i \in 1 .. m : V[i] = written[i]
        /\ 1 .. m + 1 = (1 .. m) \cup {m + 1}
    BY <1>1, <1>8, AppendProperties
  <2>2. Done(V) = Done(written) \cup {f}
    <3> HIDE DEF V
    <3> QED
      BY <2>1 DEF Done
  <2>3. \A g \in Waiting' \cup Done(V) : g.ctx = CtxOf(g.id)
    BY <1>4, <1>8, <2>2
  <2>4. ASSUME Changes
        PROVE  /\ \A i \in 1 .. m + 1 : V[i].id = i
               /\ \A i \in 1 .. n : i > m + 1 => \E g \in Waiting' : g.id = i
    <3>1. \A i \in 1 .. n : i > m => \E g \in Waiting : g.id = i
      BY <1>4, <1>8, <2>4
    <3>2. \A g \in Waiting : f.id <= g.id
      BY <1>2, <1>8, <2>4
    <3>3. \A i \in 1 .. m : written[i].id = i
      BY <1>4, <2>4
    <3> HIDE DEF n
    <3>4. f.id = m + 1
      BY <1>1, <3>1, <3>2, <3>3, OldestIsNext
    <3>5. \A i \in 1 .. m + 1 : V[i].id = i
      BY <2>1, <3>3, <3>4
    <3>6. ASSUME NEW i \in 1 .. n, i > m + 1 PROVE \E g \in Waiting' : g.id = i
      <4>1. i > m /\ i # m + 1
        BY <1>1, <3>6
      <4>2. PICK g \in Waiting : g.id = i
        BY <3>1, <4>1
      <4> QED
        BY <1>8, <3>4, <4>1, <4>2
    <3> QED
      BY <3>5, <3>6
  <2>5. (\A g \in Waiting \cup Done(written) : g.ctx = CtxOf(g.id))'
    BY <2>3 DEF Done
  <2>6. (Changes =>
          /\ \A i \in 1 .. Len(written) : written[i].id = i
          /\ ~Broken => \A i \in 1 .. next_id - 1 : i > Len(written) => \E g \in Waiting : g.id = i)'
    BY <1>8, <2>1, <2>4 DEF Changes
  <2> QED
    BY <2>5, <2>6 DEF CountInv
<1>9. ASSUME Waiting' \subseteq Waiting, Broken', written' = written, next_id' = next_id
      PROVE  CountInv'
  BY <1>4, <1>9 DEF CountInv, Done
<1> QED
  BY <1>5, <1>6, <1>7, <1>8, <1>9

LEMMA OnLineStep ==
  ASSUME Agreed, Ready, SendInv, SendInv', ReadInv, OrderInv, CountInv', OnLineInv, [Next]_vars
  PROVE  OnLineInv'
<1>1. OrderInv' /\ (Broken' => written' = written)
  BY WaitingNext
<1>2. CASE Broken' /\ OnLine' \subseteq OnLine
  <2>1. written' = written
    BY <1>1, <1>2
  <2> QED
    BY <1>2, <2>1 DEF OnLineInv, Done
<1>3. CASE ~Broken' /\ OnLine' \subseteq Done(written)' \cup InProgress'
  <2> DEFINE n == next_id' - 1
             W == written'
             Q == Waiting'
  <2>1. /\ n \in Nat /\ W \in Seq(Frame) /\ Q \subseteq Frame /\ InProgress' \subseteq Q
        /\ \A f \in Q \cup Done(W) : f.id \in 1 .. n
        /\ \A f, g \in Q \cup Done(W) : f.id = g.id => f = g
        /\ Q \cap Done(W) = {}
    <3>1. WaitingShape'
      BY WaitingPlacesNext
    <3> QED
      BY <3>1 DEF WaitingShape, Done
  <2>2. /\ \A f \in Q \cup Done(W) : f.ctx = CtxOf(f.id)
        /\ Changes =>
             /\ \A i \in 1 .. Len(W) : W[i].id = i
             /\ \A i \in 1 .. n : i > Len(W) => \E f \in Q : f.id = i
    BY <1>3 DEF CountInv, Done
  <2>3. ASSUME NEW f \in InProgress', Changes PROVE f.id = Len(W) + 1
    <3>1. f \in Q /\ \A g \in Q : g = f \/ f.id < g.id
      <4>1. \A g \in Q : g.priority = f.priority
        BY <2>1, <2>3 DEF Agreed, Frame
      <4>2. Q = QFrames(out_queue)' \cup InProgress' /\ \A g \in InProgress' : g = f
        BY DEF Waiting, InProgress
      <4>3. \A g \in QFrames(out_queue)' : g.priority = f.priority => f.id < g.id
        BY <1>1 DEF OrderInv
      <4> QED
        BY <4>1, <4>2, <4>3
    <3>2. \A g \in Q : f.id <= g.id
      <4>1. \A g \in Q : g.id \in Nat
        BY <2>1
      <4> QED
        BY <3>1, <4>1
    <3>3. /\ \A i \in 1 .. Len(W) : W[i].id = i
          /\ \A i \in 1 .. n : i > Len(W) => \E g \in Q : g.id = i
      BY <2>2, <2>3
    <3> HIDE DEF n, W, Q
    <3> QED
      BY <2>1, <3>1, <3>2, <3>3, OldestIsNext
  <2> QED
    BY <1>3, <2>1, <2>2, <2>3 DEF OnLineInv, Done
<1> QED
  BY <1>2, <1>3, OnLineNext

(* The reader changes its context before it looks at the first frame that   *)
(* needs it.                                                                *)
LEMMA DecNext ==
  ASSUME Agreed, SendInv, ReadInv, CtxInv, [Next]_vars
  PROVE  DecInv'
<1> DEFINE n == Len(delivered)
<1>1. /\ TypeOK /\ SwitchAfter \in Nat /\ n \in Nat /\ Len(written) \in Nat /\ n <= Len(written)
      /\ DeliveredInOrder /\ PositionInv /\ DecInv
  <2>1. TypeOK /\ n <= Len(written) /\ SwitchAfter \in Nat /\ DeliveredInOrder /\ PositionInv /\ DecInv
    BY TcpAssumption DEF TcpAssumption, SendInv, ReadInv, DeliveredInOrder, CtxInv
  <2>2. n \in Nat /\ Len(written) \in Nat
    BY <2>1 DEF TypeOK
  <2> QED
    BY <2>1, <2>2
<1>2. CASE UNCHANGED <<dec_ctx, delivered, r_pc, r_ret>>
  BY <1>1, <1>2 DEF DecInv, DecSwitchDue, ContextsAgree
<1>3. CASE OnReadable \/ DropReceiver
  <2>1. UNCHANGED <<dec_ctx, delivered, r_ret>> /\ r_pc' \in {"ready", "closed"}
    BY <1>3 DEF OnReadable, DropReceiver
  <2> QED
    BY <1>1, <2>1 DEF DecInv, DecSwitchDue, ContextsAgree
<1>4. CASE SetDecryptCtx
  <2>1. DecSwitchDue /\ dec_ctx' = SecondCtx /\ UNCHANGED <<delivered, r_pc, r_ret>>
    BY <1>4 DEF SetDecryptCtx
  <2>2. ~DecSwitchDue'
    BY <2>1 DEF DecSwitchDue
  <2>3. CtxOf(n + 1) = SecondCtx
    <3>1. CASE ~Changes
      BY <2>1, <3>1 DEF Changes, CtxOf, DecSwitchDue
    <3>2. CASE Changes
      <4>1. n # 0 /\ delivered[n].id = SwitchAfter
        BY <1>1, <2>1 DEF DecSwitchDue, TypeOK
      <4>2. n \in 1 .. n /\ n \in 1 .. Len(written)
        BY <1>1, <4>1
      <4>3. delivered[n].id = written[n].id /\ written[n].id = n
        <5>1. delivered[n] = [id |-> written[n].id, size |-> written[n].len]
          BY <1>1, <4>2 DEF DeliveredInOrder
        <5>2. written[n].id = n
          BY <3>2, <4>2 DEF CtxInv, CountInv
        <5> DEFINE x == written[n].id
                   y == written[n].len
        <5> HIDE DEF n, x, y
        <5>3. delivered[n].id = x
          BY <5>1 DEF x, y
        <5> QED
          BY <5>2, <5>3 DEF x
      <4> QED
        BY <1>1, <2>1, <4>1, <4>3 DEF CtxOf, DecSwitchDue
    <3> QED
      BY <3>1, <3>2
  <2> QED
    BY <1>1, <2>1, <2>2, <2>3 DEF DecInv, ContextsAgree
<1>5. CASE ReadStep
  <2>1. ~DecSwitchDue /\ Readable /\ dec_ctx' = dec_ctx /\ written' = written
    <3>1. MayRead /\ Ready
      BY <1>5, ReadsWhenReady, AgreedReads
    <3> QED
      BY <1>1, <1>5, <3>1, ReadEffect DEF Ready, MayRead, DecInv
  <2>2. dec_ctx = CtxOf(n + 1)
    BY <1>1, <2>1 DEF DecInv
  <2>3. ~Foreign(Here, dec_ctx, written, n)
    BY <2>1, NextDecrypts
  <2>4. ASSUME delivered' = delivered, r_ret' # "Crypto"
        PROVE  DecInv'
    BY <2>1, <2>2, <2>4 DEF DecInv, DecSwitchDue, ContextsAgree
  <2>5. ASSUME NEW o \in try_read(msg_reader, dec_ctx), ReadReturns(o.res), o.res # None, r_pc # "closed"
        PROVE  DecInv'
    <3>1. \/ o.res = Err("PayloadSizeProhibitive")
          \/ n + 1 \in 1 .. Len(written) /\ o.res = Some(written[n + 1].id, written[n + 1].len)
      BY <1>1, <2>1, <2>3, <2>5, ReadOnce
    <3>2. CASE o.res = Err("PayloadSizeProhibitive")
      BY <1>1, <2>4, <2>5, <3>2, ReturnTypes
    <3>3. CASE n + 1 \in 1 .. Len(written) /\ o.res = Some(written[n + 1].id, written[n + 1].len)
      <4>1. written[n + 1].id \in Nat /\ written[n + 1].len \in Nat
        BY <1>1, <3>3, FrameShape DEF FrameSet, TypeOK
      <4>2. /\ r_pc' = "ready" /\ r_ret' = "Some"
            /\ delivered' = Append(delivered, [id |-> written[n + 1].id, size |-> written[n + 1].len])
        BY <1>1, <2>5, <3>3, <4>1, ReturnTypes
      <4>3. DeliveredInOrder' /\ Len(delivered') = n + 1
        BY <1>1, <2>1, <3>3, <4>2, OneMore
      <4> HIDE DEF n
      <4>4. delivered'[n + 1].id = written[n + 1].id
        <5>1. delivered'[n + 1] = [id |-> written[n + 1].id, size |-> written[n + 1].len]
          BY <1>1, <2>1, <4>3 DEF DeliveredInOrder
        <5> DEFINE x == written[n + 1].id
                   y == written[n + 1].len
        <5> HIDE DEF x, y
        <5>2. delivered'[n + 1].id = x
          BY <5>1 DEF x, y
        <5> QED
          BY <5>2 DEF x
      <4>5. ~DecSwitchDue' => dec_ctx = CtxOf(n + 2)
        <5>1. CASE ~Changes
          BY <1>1, <2>2, <5>1 DEF Changes, CtxOf
        <5>2. CASE Changes
          <6>1. written[n + 1].id = n + 1
            BY <3>3, <5>2 DEF CtxInv, CountInv
          <6>2. delivered' # <<>>
            BY <1>1, <4>3
          <6>3. SwitchAfter = n + 1 => dec_ctx = FirstCtx /\ DecSwitchDue'
            BY <1>1, <2>1, <2>2, <4>3, <4>4, <5>2, <6>1, <6>2 DEF Changes, CtxOf, DecSwitchDue
          <6>4. SwitchAfter # n + 1 => CtxOf(n + 2) = CtxOf(n + 1)
            BY <1>1 DEF CtxOf
          <6> QED
            BY <2>2, <6>3, <6>4
        <5> QED
          BY <5>1, <5>2
      <4>6. Len(delivered') + 1 = n + 2
        BY <1>1, <4>3
      <4> QED
        BY <2>1, <4>2, <4>5, <4>6 DEF DecInv, ContextsAgree
    <3> QED
      BY <3>1, <3>2, <3>3
  <2>6. ASSUME NEW res, LoopEndsWith(res), ReadReturns(res)
        PROVE  DecInv'
    <3>1. res \in {None, [tag |-> "Interrupted"]} \/ res = Err("ZeroByteRead")
      BY <2>6 DEF LoopEndsWith
    <3>2. None.tag # "Crypto" /\ [tag |-> "Interrupted"].tag # "Crypto"
      BY Results
    <3> QED
      BY <1>1, <2>4, <2>6, <3>1, <3>2, ReturnTypes
  <2>7. ASSUME ReadReturns(Err("Io")) PROVE DecInv'
    BY <1>1, <2>4, <2>7, ReturnTypes
  <2>8. \/ \E o \in try_read(msg_reader, dec_ctx) :
             \/ r_ret' = "-" /\ delivered' = delivered
             \/ o.res # None /\ ReadReturns(o.res) /\ r_pc # "closed"
             \/ \E res : LoopEndsWith(res) /\ ReadReturns(res)
        \/ \E res : LoopEndsWith(res) /\ ReadReturns(res)
        \/ ReadReturns(Err("Io"))
    BY <1>5, ReadEffect
  <2> QED
    BY <2>4, <2>5, <2>6, <2>7, <2>8
<1>6. Sender \/ Kernel \/ Tick \/ RecvData \/ UNCHANGED vars => UNCHANGED <<dec_ctx, delivered, r_pc, r_ret>>
  BY DEF Sender, Flush, Kernel, Deliver, Establish, FinArrive, Reset, Tick, RecvData, vars,
         receiverVars, Write, WriteUnencodable, OnWritable, StartWrite, FlushSend, Sent, FlushDone,
         FlushWouldBlock, FlushInterrupted, FlushErr, NotSent, Turn, SetEncryptCtx, DropSender
<1> QED
  BY <1>2, <1>3, <1>4, <1>5, <1>6 DEF Next, Receiver, Recv, ReadStep

LEMMA CtxInit == Init => OrderInv /\ CtxInv
<1> SUFFICES ASSUME Init PROVE OrderInv /\ CtxInv
  OBVIOUS
<1>1. /\ snd = <<>> /\ rcv = <<>> /\ current_write = <<>> /\ out_queue = new
      /\ msg_reader = [read_buffer |-> <<>>, read_len |-> 0]
      /\ r_pc = "idle" /\ r_ret = "-" /\ written = <<>> /\ delivered = <<>>
      /\ next_id = 1 /\ enc_ctx = FirstCtx /\ dec_ctx = FirstCtx
  BY DEF Init, InitStream, new_reader
<1>2. QFrames(out_queue) = {} /\ InProgress = {}
  <2>1. 1 \in Nat /\ FrameSet(Frame) /\ QFrames(new) = {}
    BY FrameShape, NewFrames
  <2> QED
    BY <1>1, <2>1 DEF InProgress
<1>3. Len(written) = 0 /\ Len(delivered) = 0 /\ Done(written) = {} /\ Waiting = {}
  BY <1>1, <1>2 DEF Done, Waiting
<1>4. OnLine = {}
  <2>1. <<>> \in Seq({}) /\ <<>> \o <<>> = <<>>
    BY ConcatEmptySeq
  <2>2. Unsent = <<>>
    BY <1>1 DEF Unsent
  <2>3. Line = <<>>
    BY <1>1, <2>1, <2>2 DEF Line
  <2> QED
    BY <2>3 DEF OnLine
<1>5. SwitchAfter \in Nat /\ CtxOf(1) = FirstCtx
  BY TcpAssumption DEF TcpAssumption, CtxOf
<1>6. EncInv /\ DecInv
  BY <1>1, <1>3, <1>5 DEF EncInv, DecInv, DecSwitchDue, ContextsAgree
<1>7. CountInv /\ OnLineInv
  BY <1>1, <1>3, <1>4 DEF CountInv, OnLineInv
<1> QED
  BY <1>2, <1>6, <1>7 DEF OrderInv, CtxInv

(* The two ends agree on the context of every frame, and the reader keeps   *)
(* its place.                                                               *)
THEOREM ContextsInvariant ==
  ASSUME Agreed
  PROVE  Spec => [](SendInv /\ ReadInv /\ OrderInv /\ CtxInv)
<1>1. Init => SendInv /\ ReadInv /\ OrderInv /\ CtxInv
  BY SendInit, ReadInit, CtxInit
<1>2. SendInv /\ ReadInv /\ OrderInv /\ CtxInv /\ [Next]_vars => (SendInv /\ ReadInv /\ OrderInv /\ CtxInv)'
  <2> SUFFICES ASSUME SendInv, ReadInv, OrderInv, CtxInv, [Next]_vars
               PROVE  (SendInv /\ ReadInv /\ OrderInv /\ CtxInv)'
    OBVIOUS
  <2>1. Ready
    BY AgreedReads
  <2>2. SendInv' /\ ReadInv' /\ OrderInv'
    BY <2>1, SendNext, ReadNext, WaitingNext
  <2>3. EncInv' /\ DecInv'
    BY EncNext, DecNext DEF CtxInv
  <2>4. CountInv'
    BY <2>1, CountNext DEF CtxInv
  <2>5. OnLineInv'
    BY <2>1, <2>2, <2>4, OnLineStep DEF CtxInv
  <2> QED
    BY <2>2, <2>3, <2>4, <2>5 DEF CtxInv
<1> QED
  BY <1>1, <1>2, PTL DEF Spec

(* Decryption never fails: each end changes its context at the agreed       *)
(* message, and no frame is read under the other's.                         *)
THEOREM ContextsCorrect == ASSUME Agreed PROVE Spec => []ContextsAgree
<1>1. CtxInv => ContextsAgree
  BY DEF CtxInv, DecInv
<1> QED
  BY <1>1, ContextsInvariant, PTL

(* The two ends can read what they write: whatever contexts they have, or   *)
(* because they agree on them.                                              *)
Compatible == Decodable \/ Agreed

(* The reader always stands at the next message, and waits only for bytes   *)
(* that have not come; and the frame being written is the oldest of its     *)
(* priority.                                                                *)
THEOREM TcpReaderInvariant ==
  ASSUME Compatible
  PROVE  Spec => [](SendInv /\ ReadInv /\ OrderInv /\ Ready)
<1>1. CASE Decodable
  <2>1. Init => SendInv /\ ReadInv /\ OrderInv
    BY SendInit, ReadInit, CtxInit
  <2>2. SendInv => Ready
    BY <1>1, DecodableReads DEF SendInv, Ready
  <2>3. SendInv /\ ReadInv /\ OrderInv /\ Ready /\ [Next]_vars => (SendInv /\ ReadInv /\ OrderInv)'
    BY SendNext, ReadNext, WaitingNext
  <2> QED
    BY <2>1, <2>2, <2>3, PTL DEF Spec
<1>2. CASE Agreed
  <2>1. Spec => [](SendInv /\ ReadInv /\ OrderInv /\ CtxInv)
    BY <1>2, ContextsInvariant
  <2>2. SendInv /\ ReadInv /\ CtxInv => Ready
    BY <1>2, AgreedReads
  <2> QED
    BY <2>1, <2>2, PTL
<1> QED
  BY <1>1, <1>2 DEF Compatible

(* read returns the messages written, each once, in the order of their      *)
(* frames, intact.                                                          *)
THEOREM DeliveryCorrect == ASSUME Compatible PROVE Spec => []DeliveredInOrder
<1>1. SendInv /\ ReadInv => DeliveredInOrder
  BY DEF ReadInv
<1> QED
  BY <1>1, TcpReaderInvariant, PTL

(* While the application waits for a readable event, no whole message is in *)
(* the kernel or the reader.                                                *)
THEOREM MessagesWake == ASSUME Compatible PROVE Spec => []NoStrandedMessage
<1>1. SendInv /\ ReadInv => NoStrandedMessage
  <2> SUFFICES ASSUME SendInv, ReadInv, r_pc = "idle", ~rd_event, r_ret # "Interrupted"
               PROVE  rcv = <<>> /\ \A o \in try_read(msg_reader, dec_ctx) : o.res = None
    BY DEF NoStrandedMessage
  <2>1. rcv = <<>> /\ Starved(msg_reader, dec_ctx)
    BY DEF ReadInv, WaitInv
  <2>2. msg_reader \in Readers(Frame)
    BY BufferTypes DEF SendInv
  <2>3. msg_reader.read_len \in Nat /\ Len(msg_reader.read_buffer) \in Nat
    BY <2>2 DEF Readers
  <2> QED
    BY <2>1, <2>3, StarvedNone
<1> QED
  BY <1>1, TcpReaderInvariant, PTL

(* Between events the reader keeps less than a header, or than a body       *)
(* within the limit.                                                        *)
THEOREM BufferBounded == ASSUME Compatible PROVE Spec => []ReaderBounded
<1>1. SendInv /\ ReadInv => ReaderBounded
  BY DEF ReadInv, WaitInv, PositionInv, Position, Starved, ReaderBounded
<1> QED
  BY <1>1, TcpReaderInvariant, PTL

(* The end of the stream is reported behind every message that was written. *)
THEOREM EofCorrect == ASSUME Compatible PROVE Spec => []EofAfterAll
<1>1. SendInv /\ ReadInv => EofAfterAll
  <2> SUFFICES ASSUME SendInv, ReadInv, r_ret = "ZeroByteRead"
               PROVE  [i \in DOMAIN delivered |-> delivered[i].id] =
                        [i \in DOMAIN written |-> written[i].id]
    BY DEF EofAfterAll
  <2>1. TypeOK /\ Len(delivered) = Len(written) /\ DeliveredInOrder
    BY DEF SendInv, ReadInv, EofInv
  <2> DEFINE D == 1 .. Len(written)
  <2>2. DOMAIN delivered = D /\ DOMAIN written = D
    BY <2>1 DEF TypeOK
  <2>3. ASSUME NEW i \in D PROVE delivered[i].id = written[i].id
    <3>1. delivered[i] = [id |-> written[i].id, size |-> written[i].len]
      BY <2>1 DEF DeliveredInOrder
    <3> DEFINE x == written[i].id
               y == written[i].len
    <3> HIDE DEF x, y
    <3>2. delivered[i].id = x
      BY <3>1 DEF x, y
    <3> QED
      BY <3>2 DEF x
  <2> HIDE DEF D
  <2>4. [i \in D |-> delivered[i].id] = [i \in D |-> written[i].id]
    BY <2>3
  <2> QED
    BY <2>2, <2>4
<1> QED
  BY <1>1, TcpReaderInvariant, PTL

-----------------------------------------------------------------------------
(* The connection implements MsgChannel.                                    *)

(* A message is known by its id. *)
Msgs(S) == {MsgOf(f) : f \in S}

LEMMA MsgsOf ==
  ASSUME NEW S, NEW D, D \subseteq S, \A f, g \in S : f.id = g.id => f = g
  PROVE  Msgs(S \ D) = Msgs(S) \ Msgs(D)
<1>1. \A f, g : MsgOf(f) = MsgOf(g) => f.id = g.id
  BY DEF MsgOf
<1> QED
  BY <1>1 DEF Msgs

(* A frame written is a message sent. *)
LEMMA SentOf ==
  ASSUME NEW W \in Seq(Frame), NEW f \in Frame
  PROVE  LET V == Append(W, f)
         IN  [i \in DOMAIN V |-> MsgOf(V[i])] = Append([i \in DOMAIN W |-> MsgOf(W[i])], MsgOf(f))
<1> DEFINE V == Append(W, f)
           T == {MsgOf(g) : g \in Frame}
           a == [i \in DOMAIN V |-> MsgOf(V[i])]
           b == [i \in DOMAIN W |-> MsgOf(W[i])]
           m == MsgOf(f)
           n == Len(W)
<1>1. V \in Seq(Frame) /\ Len(V) = n + 1 /\ V[n + 1] = f /\ \A i \in 1 .. n : V[i] = W[i]
  BY AppendProperties
<1>2. DOMAIN V = 1 .. n + 1 /\ DOMAIN W = 1 .. n /\ n \in Nat
  BY <1>1
<1> HIDE DEF V, n
<1>3. \A i \in 1 .. n + 1 : V[i] \in Frame
  BY <1>1, <1>2, ElementOfSeq
<1>4. \A i \in 1 .. n : W[i] \in Frame
  BY <1>2, ElementOfSeq DEF n
<1>5. a = [i \in 1 .. n + 1 |-> MsgOf(V[i])] /\ b = [i \in 1 .. n |-> MsgOf(W[i])]
  BY <1>2
<1>6. \A i \in 1 .. n + 1 : MsgOf(V[i]) \in T
  BY <1>3
<1>7. \A i \in 1 .. n : MsgOf(W[i]) \in T
  BY <1>4
<1>8. m \in T
  OBVIOUS
<1> HIDE DEF T
<1>9. a \in Seq(T) /\ Len(a) = n + 1 /\ \A i \in 1 .. n + 1 : a[i] = MsgOf(V[i])
  <2>1. a \in Seq(T)
    BY <1>2, <1>5, <1>6, IsASeq
  <2> QED
    BY <1>2, <1>5, <2>1
<1>10. b \in Seq(T) /\ Len(b) = n /\ \A i \in 1 .. n : b[i] = MsgOf(W[i])
  <2>1. b \in Seq(T)
    BY <1>2, <1>5, <1>7, IsASeq
  <2> QED
    BY <1>2, <1>5, <2>1
<1> HIDE DEF a, b, m
<1>11. /\ Append(b, m) \in Seq(T) /\ Len(Append(b, m)) = n + 1 /\ Append(b, m)[n + 1] = m
       /\ \A i \in 1 .. n : Append(b, m)[i] = b[i]
  BY <1>8, <1>10, AppendProperties
<1>12. \A i \in 1 .. n + 1 : a[i] = Append(b, m)[i]
  <2> SUFFICES ASSUME NEW i \in 1 .. n + 1 PROVE a[i] = Append(b, m)[i]
    OBVIOUS
  <2>1. CASE i = n + 1
    BY <1>1, <1>9, <1>11, <2>1 DEF m
  <2>2. CASE i # n + 1
    <3>1. i \in 1 .. n
      BY <1>2, <2>2
    <3> QED
      BY <1>1, <1>9, <1>10, <1>11, <3>1
  <2> QED
    BY <2>1, <2>2
<1>13. a = Append(b, m)
  BY <1>9, <1>11, <1>12, SeqEqual
<1> QED
  BY <1>13 DEF a, b, m, V

(* What waits in the channel is what waits here. *)
LEMMA ChannelWaiting ==
  ASSUME NEW q, NEW c
  PROVE  {MsgOf(f) : f \in FramesOf(Queued(q) \cup IF c = <<>> THEN {} ELSE {c})} =
           Msgs(QFrames(q) \cup IF c = <<>> THEN {} ELSE {c[1].frame})
<1>1. FramesOf(Queued(q) \cup IF c = <<>> THEN {} ELSE {c}) =
        QFrames(q) \cup IF c = <<>> THEN {} ELSE {c[1].frame}
  BY DEF FramesOf, QFrames
<1> QED
  BY <1>1 DEF Msgs

LEMMA WaitingKnown ==
  ASSUME SendInv
  PROVE  /\ Waiting \subseteq Frame
         /\ \A f, g \in Waiting : f.id = g.id => f = g
<1>1. TypeOK /\ QueueInv /\ PlacesInv
  BY DEF SendInv
<1>2. \A f, g \in Waiting : f.id = g.id => f = g
  BY <1>1 DEF PlacesInv, Known, Waiting
<1>3. QFrames(out_queue) \subseteq Frame
  <2>1. next_id - 1 \in Nat /\ FrameSet(Frame) /\ FrameQueue(out_queue, Frame, next_id - 1)
    BY <1>1, IdBelow, FrameShape DEF QueueInv
  <2> QED
    BY <2>1, FramesIn
<1>4. InProgress \subseteq Frame
  <2>1. ASSUME current_write # <<>> PROVE current_write[1].frame \in Frame
    <3>1. current_write \in Seq(Cells(Frame)) /\ current_write # <<>>
      BY <1>1, <2>1 DEF QueueInv, IsRest
    <3>2. current_write[1] \in Cells(Frame)
      BY <3>1
    <3> QED
      BY <3>2 DEF Cells
  <2> QED
    BY <2>1 DEF InProgress
<1> QED
  BY <1>2, <1>3, <1>4 DEF Waiting

(* The messages of droppable frames are droppable. *)
LEMMA DropOf ==
  ASSUME NEW S, NEW D, D \subseteq {g \in S : g.priority >= msg_drop_priority}
  PROVE  Msgs(D) \subseteq {w \in Msgs(S) : w.priority >= msg_drop_priority}
  BY DEF Msgs, MsgOf

LEMMA MsgsPlus ==
  ASSUME NEW S, NEW f
  PROVE  Msgs(S \cup {f}) = Msgs(S) \cup {MsgOf(f)}
  BY DEF Msgs

LEMMA MsgsMonotone ==
  ASSUME NEW S, NEW D, D \subseteq S
  PROVE  Msgs(D) \subseteq Msgs(S)
  BY DEF Msgs


(* The expression the refinement puts for `waiting`. *)
ChannelSet ==
  {MsgOf(f) : f \in FramesOf(Queued(out_queue) \cup
                IF current_write = <<>> THEN {} ELSE {current_write})}

ChannelSent == [i \in DOMAIN written |-> MsgOf(written[i])]

LEMMA ChannelSets == ChannelSet = Msgs(Waiting) /\ ChannelSet' = Msgs(Waiting)'
<1>1. ChannelSet = Msgs(Waiting)
  BY ChannelWaiting DEF ChannelSet, Waiting, InProgress
<1>2. ChannelSet' = Msgs(Waiting)'
  BY ChannelWaiting DEF ChannelSet, Waiting, InProgress
<1> QED
  BY <1>1, <1>2

(* The actions of the channel, in terms of what waits here. *)
LEMMA ChannelActions ==
  /\ \A p : (/\ (next_id - 1)' = (next_id - 1) + 1
             /\ (\E drop \in SUBSET {w \in Msgs(Waiting) : w.priority >= msg_drop_priority} :
                   Msgs(Waiting)' = (Msgs(Waiting) \ drop)
                                      \cup {[id |-> (next_id - 1)', priority |-> p]})
             /\ UNCHANGED <<ChannelSent, Len(delivered), Broken>>)
            => Channel!ShedAndAccept(p)
  /\ (/\ (\E drop \in SUBSET {w \in Msgs(Waiting) : w.priority >= msg_drop_priority} :
            Msgs(Waiting)' = Msgs(Waiting) \ drop)
      /\ UNCHANGED <<next_id - 1, ChannelSent, Len(delivered), Broken>>)
     => Channel!Shed
  /\ (\E m \in Msgs(Waiting) :
        /\ ~Broken
        /\ \A w \in Msgs(Waiting) : w.priority = m.priority => m.id <= w.id
        /\ ChannelSent' = Append(ChannelSent, m)
        /\ Msgs(Waiting)' = Msgs(Waiting) \ {m}
        /\ UNCHANGED <<next_id - 1, Len(delivered), Broken>>)
     => Channel!Send
  /\ (/\ Len(delivered) < Len(ChannelSent)
      /\ Len(delivered)' = Len(delivered) + 1
      /\ UNCHANGED <<Msgs(Waiting), next_id - 1, ChannelSent, Broken>>)
     => Channel!Deliver
  /\ (/\ Broken' = TRUE
      /\ Msgs(Waiting)' \in SUBSET Msgs(Waiting)
      /\ UNCHANGED <<next_id - 1, ChannelSent, Len(delivered)>>)
     => Channel!Break
  /\ UNCHANGED <<Msgs(Waiting), next_id - 1, ChannelSent, Len(delivered), Broken>>
     => UNCHANGED Channel!vars
  BY ChannelSets
     DEF ChannelSet, ChannelSent, Broken, Channel!ShedAndAccept, Channel!Shed, Channel!Send,
         Channel!Deliver, Channel!Break, Channel!Droppable, Channel!vars

LEMMA ChannelInit == Init => OrderInv /\ Channel!Init
<1> SUFFICES ASSUME Init PROVE OrderInv /\ Channel!Init
  OBVIOUS
<1>1. /\ out_queue = new /\ current_write = <<>> /\ next_id = 1 /\ written = <<>>
      /\ delivered = <<>> /\ reset = FALSE /\ w_pc = "idle"
  BY DEF Init, InitStream
<1>2. QFrames(out_queue) = {} /\ InProgress = {}
  <2>1. 1 \in Nat /\ FrameSet(Frame) /\ QFrames(new) = {}
    BY FrameShape, NewFrames
  <2> QED
    BY <1>1, <2>1 DEF InProgress
<1>3. ChannelSet = {}
  BY <1>2, ChannelSets DEF Waiting, Msgs
<1>4. ChannelSent = <<>>
  BY <1>1 DEF ChannelSent
<1>5. next_id - 1 = 0 /\ Len(delivered) = 0 /\ Broken = FALSE
  BY <1>1 DEF Broken
<1> QED
  BY <1>2, <1>3, <1>4, <1>5 DEF OrderInv, ChannelSet, ChannelSent, Broken, Channel!Init

(* Each call of write maps to ShedAndAccept or to Shed. *)
LEMMA ChannelWrite ==
  ASSUME SendInv, OrderInv,
         \/ \E p \in Priority, l \in Lens : Write(p, l)
         \/ WriteUnencodable \/ OnWritable
  PROVE  OrderInv' /\ Channel!Next
<1>1. Waiting \subseteq Frame /\ \A f, g \in Waiting : f.id = g.id => f = g
  BY WaitingKnown
<1> DEFINE Ok(drop) == drop \in SUBSET {g \in Waiting : g.priority >= msg_drop_priority}
<1>2. ASSUME NEW drop, Ok(drop)
      PROVE  /\ Msgs(drop) \in SUBSET {w \in Msgs(Waiting) : w.priority >= msg_drop_priority}
             /\ Msgs(Waiting \ drop) = Msgs(Waiting) \ Msgs(drop)
  <2>1. drop \subseteq {g \in Waiting : g.priority >= msg_drop_priority} /\ drop \subseteq Waiting
    BY <1>2
  <2>2. Msgs(Waiting \ drop) = Msgs(Waiting) \ Msgs(drop)
    BY <1>1, <2>1, MsgsOf
  <2> QED
    BY <2>1, <2>2, DropOf
<1>3. ASSUME NEW p \in Priority, NEW l \in Lens, Write(p, l)
      PROVE  OrderInv' /\ Channel!ShedAndAccept(p)
  <2>1. /\ \E f \in Frame, drop \in SUBSET {g \in Waiting : g.priority >= msg_drop_priority} :
             f.id = next_id /\ f.priority = p /\ Waiting' = (Waiting \ drop) \cup {f}
        /\ next_id' = next_id + 1 /\ OrderInv'
        /\ UNCHANGED <<written, delivered>> /\ Broken' = Broken
    BY <1>3, WaitingWrite
  <2>2. PICK f \in Frame, drop \in SUBSET {g \in Waiting : g.priority >= msg_drop_priority} :
             f.id = next_id /\ f.priority = p /\ Waiting' = (Waiting \ drop) \cup {f}
    BY <2>1
  <2>3. next_id \in Nat
    BY DEF SendInv, TypeOK
  <2>4. (next_id - 1)' = (next_id - 1) + 1 /\ (next_id - 1)' = next_id
    BY <2>1, <2>3
  <2>5. MsgOf(f) = [id |-> (next_id - 1)', priority |-> p]
    BY <2>2, <2>4 DEF MsgOf
  <2>6. Msgs(Waiting') = (Msgs(Waiting) \ Msgs(drop)) \cup {MsgOf(f)}
    BY ZenonT(40), <1>2, <2>2, MsgsPlus
  <2>7. Msgs(Waiting)' = (Msgs(Waiting) \ Msgs(drop)) \cup {[id |-> (next_id - 1)', priority |-> p]}
    BY <2>5, <2>6
  <2>8. UNCHANGED <<ChannelSent, Len(delivered), Broken>>
    BY <2>1 DEF ChannelSent
  <2>9. Msgs(drop) \in SUBSET {w \in Msgs(Waiting) : w.priority >= msg_drop_priority}
    BY <1>2
  <2> QED
    BY <2>1, <2>4, <2>7, <2>8, <2>9, ChannelActions
<1>4. ASSUME WriteUnencodable \/ OnWritable
      PROVE  OrderInv' /\ Channel!Shed
  <2>1. /\ \E drop \in SUBSET {g \in Waiting : g.priority >= msg_drop_priority} :
             Waiting' = Waiting \ drop
        /\ OrderInv' /\ UNCHANGED <<next_id, written, delivered>> /\ Broken' = Broken
    BY <1>4, WaitingShed
  <2>2. PICK drop \in SUBSET {g \in Waiting : g.priority >= msg_drop_priority} :
             Waiting' = Waiting \ drop
    BY <2>1
  <2>3. Msgs(Waiting)' = Msgs(Waiting) \ Msgs(drop)
    BY <1>2, <2>2
  <2>4. UNCHANGED <<next_id - 1, ChannelSent, Len(delivered), Broken>>
    BY <2>1 DEF ChannelSent
  <2>5. Msgs(drop) \in SUBSET {w \in Msgs(Waiting) : w.priority >= msg_drop_priority}
    BY <1>2
  <2> QED
    BY <2>1, <2>3, <2>4, <2>5, ChannelActions
<1> QED
  BY <1>3, <1>4 DEF Channel!Next

(* A turn of the loop maps to Send, to Break or to a stutter. *)
LEMMA ChannelFlush ==
  ASSUME SendInv, OrderInv,
         \/ \E n \in 1 .. SndCap : FlushSend(n)
         \/ FlushWouldBlock \/ FlushInterrupted \/ FlushErr
  PROVE  OrderInv' /\ [Channel!Next]_(Channel!vars)
<1>1. /\ \/ \E f \in Waiting :
                 /\ ~Broken /\ written' = Append(written, f) /\ Waiting' = Waiting \ {f}
                 /\ \A g \in Waiting : g.priority = f.priority => f.id <= g.id
         \/ written' = written /\ Waiting' = Waiting
         \/ written' = written /\ Waiting' \subseteq Waiting /\ Broken
      /\ OrderInv' /\ UNCHANGED <<next_id, delivered>> /\ Broken' = Broken
  BY WaitingFlush
<1>2. UNCHANGED <<next_id - 1, Len(delivered), Broken>>
  BY <1>1
<1>3. ASSUME NEW f \in Waiting, ~Broken, written' = Append(written, f), Waiting' = Waiting \ {f},
             \A g \in Waiting : g.priority = f.priority => f.id <= g.id
      PROVE  Channel!Send
  <2>1. Waiting \subseteq Frame /\ \A g, h \in Waiting : g.id = h.id => g = h
    BY WaitingKnown
  <2>2. Msgs(Waiting \ {f}) = Msgs(Waiting) \ Msgs({f}) /\ Msgs({f}) = {MsgOf(f)}
    <3>1. Msgs(Waiting \ {f}) = Msgs(Waiting) \ Msgs({f})
      BY <2>1, MsgsOf
    <3> QED
      BY <3>1 DEF Msgs
  <2>3. Msgs(Waiting)' = Msgs(Waiting) \ {MsgOf(f)}
    BY <1>3, <2>2
  <2>4. ChannelSent' = Append(ChannelSent, MsgOf(f))
    <3>1. written \in Seq(Frame) /\ f \in Frame
      BY <2>1 DEF SendInv, TypeOK
    <3>2. LET V == Append(written, f)
          IN  [i \in DOMAIN V |-> MsgOf(V[i])] =
                Append([i \in DOMAIN written |-> MsgOf(written[i])], MsgOf(f))
      BY <3>1, SentOf
    <3> QED
      BY <1>3, <3>2 DEF ChannelSent
  <2>5. \A w \in Msgs(Waiting) : w.priority = MsgOf(f).priority => MsgOf(f).id <= w.id
    BY <1>3 DEF Msgs, MsgOf
  <2>6. MsgOf(f) \in Msgs(Waiting)
    BY DEF Msgs
  <2> QED
    BY <1>2, <1>3, <2>3, <2>4, <2>5, <2>6, ChannelActions
<1>4. ASSUME written' = written, Waiting' = Waiting
      PROVE  UNCHANGED Channel!vars
  <2>1. UNCHANGED <<Msgs(Waiting), next_id - 1, ChannelSent, Len(delivered), Broken>>
    BY <1>2, <1>4 DEF ChannelSent
  <2> QED
    BY <2>1, ChannelActions
<1>5. ASSUME written' = written, Waiting' \subseteq Waiting, Broken
      PROVE  Channel!Break
  <2>1. Msgs(Waiting)' \in SUBSET Msgs(Waiting)
    BY <1>5, MsgsMonotone
  <2>2. Broken' = TRUE
    BY <1>1, <1>5 DEF Broken
  <2>3. UNCHANGED <<next_id - 1, ChannelSent, Len(delivered)>>
    BY <1>2, <1>5 DEF ChannelSent
  <2> QED
    BY <2>1, <2>2, <2>3, ChannelActions
<1> QED
  BY <1>1, <1>3, <1>4, <1>5 DEF Channel!Next

(* A read maps to Deliver or to a stutter, and so does what the clock, the  *)
(* network and the other calls do.                                          *)
LEMMA ChannelStill ==
  ASSUME Ready, SendInv, ReadInv, OrderInv,
         FlushDone \/ SetEncryptCtx \/ Tick \/ UNCHANGED vars \/ Receiver
           \/ (\E n \in 1 .. RcvCap : Deliver(n)) \/ Establish \/ FinArrive
  PROVE  OrderInv' /\ [Channel!Next]_(Channel!vars)
<1>1. /\ UNCHANGED <<next_id, written>> /\ Waiting' = Waiting /\ OrderInv' /\ Broken' = Broken
      /\ \/ delivered' = delivered
         \/ Len(delivered') = Len(delivered) + 1 /\ Len(delivered) < Len(written)
  BY WaitingStill
<1>2. UNCHANGED <<Msgs(Waiting), next_id - 1, ChannelSent, Broken>>
  BY <1>1 DEF ChannelSent
<1>3. CASE delivered' = delivered
  <2>1. UNCHANGED Channel!vars
    BY <1>2, <1>3, ChannelActions
  <2> QED
    BY <1>1, <2>1
<1>4. CASE Len(delivered') = Len(delivered) + 1 /\ Len(delivered) < Len(written)
  <2>1. Len(ChannelSent) = Len(written)
    <3> DEFINE T == {MsgOf(g) : g \in Frame}
               n == Len(written)
    <3>1. written \in Seq(Frame)
      BY DEF SendInv, TypeOK
    <3>2. DOMAIN written = 1 .. n /\ n \in Nat
      BY <3>1
    <3>3. \A i \in 1 .. n : MsgOf(written[i]) \in T
      BY <3>1, <3>2, ElementOfSeq
    <3> HIDE DEF T, n
    <3>4. ChannelSent = [i \in 1 .. n |-> MsgOf(written[i])]
      BY <3>2 DEF ChannelSent
    <3>5. ChannelSent \in Seq(T)
      BY <3>2, <3>3, <3>4, IsASeq
    <3>6. DOMAIN ChannelSent = 1 .. n
      BY <3>4
    <3> QED
      BY <3>2, <3>5, <3>6 DEF n
  <2>2. Channel!Deliver
    BY <1>2, <1>4, <2>1, ChannelActions
  <2> QED
    BY <1>1, <2>2 DEF Channel!Next
<1> QED
  BY <1>1, <1>3, <1>4

LEMMA ChannelEnds ==
  ASSUME SendInv, OrderInv, DropSender \/ Reset
  PROVE  OrderInv' /\ Channel!Break
<1>1. /\ Waiting' \subseteq Waiting /\ Broken' /\ OrderInv'
      /\ UNCHANGED <<next_id, written, delivered>>
  BY WaitingEnds
<1>2. Msgs(Waiting)' \in SUBSET Msgs(Waiting)
  BY <1>1, MsgsMonotone
<1>3. UNCHANGED <<next_id - 1, ChannelSent, Len(delivered)>>
  BY <1>1 DEF ChannelSent
<1>4. Broken' = TRUE
  BY <1>1 DEF Broken
<1> QED
  BY <1>1, <1>2, <1>3, <1>4, ChannelActions

LEMMA ChannelStep ==
  ASSUME Ready, SendInv, ReadInv, OrderInv, [Next]_vars
  PROVE  OrderInv' /\ [Channel!Next]_(Channel!vars)
<1>1. CASE (\E p \in Priority, l \in Lens : Write(p, l)) \/ WriteUnencodable \/ OnWritable
  BY <1>1, ChannelWrite
<1>2. CASE \/ \E n \in 1 .. SndCap : FlushSend(n)
           \/ FlushWouldBlock \/ FlushInterrupted \/ FlushErr
  BY <1>2, ChannelFlush
<1>3. CASE FlushDone \/ SetEncryptCtx \/ Tick \/ UNCHANGED vars \/ Receiver
             \/ (\E n \in 1 .. RcvCap : Deliver(n)) \/ Establish \/ FinArrive
  BY <1>3, ChannelStill
<1>4. CASE DropSender \/ Reset
  BY <1>4, ChannelEnds DEF Channel!Next
<1> QED
  BY <1>1, <1>2, <1>3, <1>4 DEF Next, Sender, Flush, Kernel

(* The connection is the channel it promises to be: each step of a socket,  *)
(* of the kernels or of the clock is one of the channel's or none.          *)
THEOREM TcpRefinement == ASSUME Compatible PROVE Spec => ImplementsMsgChannel
<1>1. Init => OrderInv /\ Channel!Init
  BY ChannelInit
<1>2. /\ SendInv /\ ReadInv /\ OrderInv /\ Ready /\ [Next]_vars
      => OrderInv' /\ [Channel!Next]_(Channel!vars)
  BY ChannelStep
<1> QED
  BY <1>1, <1>2, TcpReaderInvariant, PTL DEF Spec, ImplementsMsgChannel, Channel!Spec
==============================================================================
