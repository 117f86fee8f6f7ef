------------------------ MODULE UdtConnectionProofs ------------------------
(***************************************************************************)
(* What the run of UdtConnection checks, proved for any number of messages  *)
(* of any lengths and priorities, library buffers of any size and any       *)
(* number of later registrations.                                           *)
(*                                                                          *)
(* The event loop inside the connection is the one UdtEventLoopProofs is    *)
(* about: every step of the connection is one of its steps, or leaves its   *)
(* variables alone.  The sockets are argued about as those of TCP are: a    *)
(* line of bytes from the front of the reader's buffer to the end of the    *)
(* frame being written, which is made of whole frames.                      *)
(***************************************************************************)
EXTENDS UdtConnection, FrameTheorems, FiniteSetTheorems

LoopProofs == INSTANCE UdtEventLoopProofs
  WITH Callers <- {"app"}, Tokens <- Socks, Interests <- {{"IN"}, {"OUT"}}

-----------------------------------------------------------------------------
(* The event loop.                                                          *)

(* The constants of the connection are fit for the loop. *)
LEMMA LoopConstants == LoopProofs!UdtEventLoopAssumption
<1>1. IsFiniteSet({"app"}) /\ IsFiniteSet(Socks)
  <2>1. IsFiniteSet({"app"}) /\ IsFiniteSet({"rcv"})
    BY FS_Singleton
  <2>2. IsFiniteSet({"rcv"} \cup {"snd"})
    BY <2>1, FS_AddElement
  <2>3. Socks = {"rcv"} \cup {"snd"}
    BY DEF Socks
  <2> QED
    BY <2>1, <2>2, <2>3
<1>2. {{"IN"}, {"OUT"}} \subseteq SUBSET {"IN", "OUT"}
  OBVIOUS
<1>3. \A S : IsFiniteSet(S) <=> LoopProofs!IsFiniteSet(S)
  BY DEF IsFiniteSet, LoopProofs!IsFiniteSet
<1> QED
  BY <1>1, <1>2, <1>3, UdtConnectionAssumption
     DEF LoopProofs!UdtEventLoopAssumption, UdtConnectionAssumption

(* The loop of the connection is that of the proofs. *)
LEMMA LoopSame ==
  /\ Loop!Register = LoopProofs!Register /\ Loop!Deregister = LoopProofs!Deregister
  /\ Loop!ShutdownEventLoop = LoopProofs!ShutdownEventLoop
  /\ \A f : Loop!Range(f) = LoopProofs!Range(f)
  /\ \A A, s : Loop!OnSock(A, s) = LoopProofs!OnSock(A, s)
  /\ Loop!CanUpgrade = LoopProofs!CanUpgrade
BY DEF Loop!Register, LoopProofs!Register, Loop!Deregister, LoopProofs!Deregister,
       Loop!ShutdownEventLoop, LoopProofs!ShutdownEventLoop, Loop!Range, LoopProofs!Range,
       Loop!OnSock, LoopProofs!OnSock, Loop!CanUpgrade, LoopProofs!CanUpgrade

LEMMA LoopInvariants ==
  /\ Loop!TypeOK <=> LoopProofs!TypeOK
  /\ Loop!MapsAgree <=> LoopProofs!MapsAgree
  /\ Loop!RegisteredAsAsked <=> LoopProofs!RegisteredAsAsked
  /\ Loop!NoStaleEvent <=> LoopProofs!NoStaleEvent
<1>1. Loop!TypeOK <=> LoopProofs!TypeOK
  BY Zenon, LoopSame DEF Loop!TypeOK, LoopProofs!TypeOK
<1>2. Loop!MapsAgree <=> LoopProofs!MapsAgree
  BY DEF Loop!MapsAgree, LoopProofs!MapsAgree
<1>3. Loop!RegisteredAsAsked <=> LoopProofs!RegisteredAsAsked
  <2>1. \A a : Loop!AsAsked(a) <=> LoopProofs!AsAsked(a)
    BY Zenon, LoopSame DEF Loop!AsAsked, LoopProofs!AsAsked
  <2> QED
    BY Zenon, <2>1, LoopSame DEF Loop!RegisteredAsAsked, LoopProofs!RegisteredAsAsked
<1>4. Loop!NoStaleEvent <=> LoopProofs!NoStaleEvent
  BY Zenon, LoopSame DEF Loop!NoStaleEvent, LoopProofs!NoStaleEvent
<1> QED
  BY <1>1, <1>2, <1>3, <1>4

(* The actions of the loop that the connection takes. *)
LEMMA LoopActions ==
  /\ \A c, a : Loop!Upgrade(c, a) => LoopProofs!Upgrade(c, a)
  /\ \A c : Loop!Insert(c) => LoopProofs!Insert(c)
  /\ \A s : Loop!Close(s) => LoopProofs!Close(s)
  /\ Loop!Wait => LoopProofs!Wait
  /\ Loop!Drain => LoopProofs!Drain
  /\ \A a : Loop!ApplyRegister(a) => LoopProofs!ApplyRegister(a)
  /\ \A a : Loop!ApplyDeregister(a) => LoopProofs!ApplyDeregister(a)
<1>1. ASSUME NEW c, NEW a, Loop!Upgrade(c, a) PROVE LoopProofs!Upgrade(c, a)
  BY <1>1, LoopSame DEF Loop!Upgrade, LoopProofs!Upgrade
<1>2. ASSUME NEW c, Loop!Insert(c) PROVE LoopProofs!Insert(c)
  BY <1>2, LoopSame DEF Loop!Insert, LoopProofs!Insert
<1>3. ASSUME NEW s, Loop!Close(s) PROVE LoopProofs!Close(s)
  BY <1>3 DEF Loop!Close, LoopProofs!Close, Loop!Restrict, LoopProofs!Restrict
<1>4. Loop!Wait => LoopProofs!Wait
  BY DEF Loop!Wait, LoopProofs!Wait
<1>5. Loop!Drain => LoopProofs!Drain
  BY DEF Loop!Drain, LoopProofs!Drain
<1>6. ASSUME NEW a, Loop!ApplyRegister(a) PROVE LoopProofs!ApplyRegister(a)
  BY <1>6, LoopSame DEF Loop!ApplyRegister, LoopProofs!ApplyRegister, Loop!Done, LoopProofs!Done
<1>7. ASSUME NEW a, Loop!ApplyDeregister(a) PROVE LoopProofs!ApplyDeregister(a)
  BY <1>7, LoopSame DEF Loop!ApplyDeregister, LoopProofs!ApplyDeregister, Loop!Done, LoopProofs!Done,
                        Loop!Restrict, LoopProofs!Restrict
<1> QED
  BY <1>1, <1>2, <1>3, <1>4, <1>5, <1>6, <1>7

(* A handler of the sender, a turn of its flush, the library and the clock  *)
(* close no socket.                                                         *)
LEMMA NoneCloses ==
  ASSUME Writing \/ Environment
  PROVE  closed' = closed
<1>1. CASE Environment
  BY <1>1 DEF Environment, Library, Establish, Arrive, Break, Tick, senderVars, receiverVars, closed
<1>2. CASE Writing
  <2>1. ASSUME NEW m \in Kinds, Write(m) PROVE w_pc = "idle" /\ w_pc' = "flush" /\ r_pc' = r_pc
    BY <2>1 DEF Write, StartWrite, receiverVars
  <2>2. ASSUME WriteUnencodable PROVE UNCHANGED <<w_pc, r_pc>>
    BY <2>2 DEF WriteUnencodable, StartWrite, receiverVars
  <2>3. ASSUME OnWritable PROVE w_pc = "idle" /\ w_pc' = "flush" /\ r_pc' = r_pc
    BY <2>3 DEF OnWritable, StartWrite, receiverVars
  <2>4. ASSUME Flush PROVE w_pc = "flush" /\ w_pc' \in {"idle", "flush"} /\ r_pc' = r_pc
    BY <2>4 DEF Flush, FlushDone, FlushSend, Accepted, FlushWouldBlock, FlushErr, Turn, receiverVars
  <2> QED
    BY <1>2, <2>1, <2>2, <2>3, <2>4 DEF Writing, closed
<1> QED
  BY <1>1, <1>2

(* Neither does a handler of the receiver that does not drop it.            *)
LEMMA ReadingCloses ==
  ASSUME OnReadable \/ ReadBuffered \/ Recv
  PROVE  r_pc # "closed" /\ w_pc' = w_pc
BY DEF OnReadable, ReadBuffered, Recv, RecvData, RecvWouldBlock, RecvZero, LoopEnds, RecvErr,
       ReadReturns, senderVars

(* A step of the connection is one of the loop, or leaves it alone. *)
LEMMA LoopSteps == [Next]_vars => [LoopProofs!Next]_(LoopProofs!vars)
<1> SUFFICES ASSUME [Next]_vars PROVE [LoopProofs!Next]_(LoopProofs!vars)
  OBVIOUS
<1>1. ASSUME UNCHANGED loopVars, closed' = closed PROVE UNCHANGED LoopProofs!vars
  BY <1>1 DEF loopVars, LoopProofs!vars
<1>2. CASE Evented
  <2>1. ASSUME NEW s \in Socks, NEW a \in {Register(s), Deregister(s)}, Loop!Upgrade("app", a)
        PROVE  LoopProofs!Next
    <3>1. a \in LoopProofs!Register \cup LoopProofs!Deregister
      BY DEF Register, Deregister, LoopProofs!Register, LoopProofs!Deregister
    <3>2. LoopProofs!Upgrade("app", a)
      BY <2>1, LoopActions
    <3> QED
      BY <3>1, <3>2 DEF LoopProofs!Next, LoopProofs!Handles
  <2>2. ASSUME Loop!Insert("app") PROVE LoopProofs!Next
    BY <2>2, LoopActions DEF LoopProofs!Next, LoopProofs!Handles
  <2> QED
    BY <1>2, <2>1, <2>2 DEF Evented
<1>3. CASE Thread
  <2>1. \/ Loop!Wait \/ Loop!Drain
        \/ \E a \in drained : Loop!ApplyRegister(a) \/ Loop!ApplyDeregister(a)
    BY <1>3 DEF Thread, Wait
  <2> QED
    BY <2>1, LoopActions DEF LoopProofs!Next, LoopProofs!Thread
<1>4. ASSUME NEW s \in Socks, Loop!Close(s) PROVE LoopProofs!Next
  BY <1>4, LoopActions DEF LoopProofs!Next, LoopProofs!Handles
<1>5. CASE Reading
  <2>1. CASE r_pc' = "closed"
    BY <1>4, <1>5, <2>1 DEF Reading, Socks
  <2>2. CASE r_pc' # "closed"
    <3>1. UNCHANGED loopVars /\ closed' = closed
      BY <1>5, <2>2, ReadingCloses DEF Reading, closed
    <3> QED
      BY <1>1, <3>1
  <2> QED
    BY <2>1, <2>2
<1>6. CASE Writing \/ Environment
  BY <1>1, <1>6, NoneCloses DEF Writing, Environment
<1>7. CASE CloseSender
  BY <1>4, <1>7 DEF CloseSender, Socks
<1>8. CASE UNCHANGED vars
  <2>1. UNCHANGED loopVars /\ closed' = closed
    BY <1>8 DEF vars, sockVars, senderVars, receiverVars, closed
  <2> QED
    BY <1>1, <2>1
<1> QED
  BY <1>2, <1>3, <1>5, <1>6, <1>7, <1>8 DEF Next

(* The sockets are registered at first, and the loop has carried that out.  *)
LEMMA LoopStarts == Init => LoopProofs!LoopInv
<1> SUFFICES ASSUME Init PROVE LoopProofs!LoopInv
  OBVIOUS
<1>1. /\ queued_actions = {} /\ pc = "wait" /\ drained = {} /\ notified = {}
      /\ token_map = [s \in Socks |-> s] /\ watched = [s \in Socks |-> Register(s).event_set]
      /\ call = [c \in {"app"} |-> Idle] /\ epoll_loop = "alive" /\ calls = 0
      /\ met = [s \in Socks |-> {Register(s)}] /\ closed = {}
  BY DEF Init, InitSock, closed
<1>2. \A s \in Socks : /\ Register(s) \in LoopProofs!Register /\ Register(s).token = s
                       /\ Register(s).event_set \in {{"IN"}, {"OUT"}}
  BY DEF Register, LoopProofs!Register
<1>3. \A A, s : A = {} => LoopProofs!OnSock(A, s) = {}
  BY DEF LoopProofs!OnSock
<1>4. LoopProofs!TypeOK
  <2>1. DOMAIN token_map \subseteq Socks /\ LoopProofs!Range(token_map) \subseteq Socks
    BY <1>1 DEF LoopProofs!Range
  <2>2. DOMAIN watched \subseteq Socks /\ LoopProofs!Range(watched) \subseteq {{"IN"}, {"OUT"}}
    BY <1>1, <1>2 DEF LoopProofs!Range
  <2>3. /\ DOMAIN met \subseteq Socks
        /\ LoopProofs!Range(met) \subseteq SUBSET (LoopProofs!Register \cup LoopProofs!Deregister)
    BY <1>1, <1>2 DEF LoopProofs!Range
  <2>4. call \in [{"app"} -> LoopProofs!Register \cup LoopProofs!Deregister \cup {Idle}]
    BY <1>1
  <2>5. calls \in 0 .. MaxCalls
    BY <1>1, UdtConnectionAssumption DEF UdtConnectionAssumption
  <2> QED
    BY <1>1, <2>1, <2>2, <2>3, <2>4, <2>5 DEF LoopProofs!TypeOK
<1>5. LoopProofs!MapsAgree /\ DOMAIN watched \cap closed = {} /\ LoopProofs!NoStaleEvent
  BY <1>1 DEF LoopProofs!MapsAgree, LoopProofs!NoStaleEvent
<1>6. LoopProofs!FromCalls
  BY <1>1 DEF LoopProofs!FromCalls
<1>7. LoopProofs!MetFollowed
  <2>1. ASSUME NEW s \in Socks
        PROVE  met[s] = {Register(s)} /\ Register(s).sock = s /\ LoopProofs!AsAsked(Register(s))
    <3>1. token_map[s] = s /\ watched[s] = Register(s).event_set /\ met[s] = {Register(s)}
      BY <1>1
    <3>2. Register(s).sock = s
      BY DEF Register
    <3> QED
      BY <1>1, <1>2, <3>1, <3>2 DEF LoopProofs!AsAsked
  <2> QED
    BY <2>1, <1>1, <1>3 DEF LoopProofs!MetFollowed
<1> QED
  BY <1>4, <1>5, <1>6, <1>7 DEF LoopProofs!LoopInv

(* So the loop inside the connection keeps its invariant: its variables     *)
(* have their types, its maps agree, a socket is registered as its last     *)
(* calls asked, and no event is stale.                                      *)
THEOREM LoopInsideCorrect ==
  Spec => [](Loop!TypeOK /\ Loop!MapsAgree /\ Loop!RegisteredAsAsked /\ Loop!NoStaleEvent)
<1>1. LoopProofs!LoopInv /\ [Next]_vars => LoopProofs!LoopInv'
  BY LoopSteps, LoopConstants, LoopProofs!LoopStep
<1>2. LoopProofs!LoopInv =>
        Loop!TypeOK /\ Loop!MapsAgree /\ Loop!RegisteredAsAsked /\ Loop!NoStaleEvent
  <2> SUFFICES ASSUME LoopProofs!LoopInv
               PROVE  /\ LoopProofs!TypeOK /\ LoopProofs!MapsAgree
                      /\ LoopProofs!RegisteredAsAsked /\ LoopProofs!NoStaleEvent
    BY LoopInvariants
  <2>1. LoopProofs!RegisteredAsAsked
    BY LoopConstants, LoopProofs!AskedKept
  <2> QED
    BY <2>1 DEF LoopProofs!LoopInv
<1> QED
  BY <1>1, <1>2, LoopStarts, PTL DEF Spec

-----------------------------------------------------------------------------
(* The sockets.                                                             *)

(* Bytes may still be added to the line. *)
Live == link # "broken" /\ w_pc # "closed"

(* The part of the line that the library has not accepted. *)
Unsent == IF Live THEN current_write ELSE <<>>

Line == read_state.read_buffer \o (pipe \o Unsent)

(* The frame being written. *)
InProgress == IF current_write = <<>> THEN {} ELSE {current_write[1].frame}

(* The frames accepted that still wait or were written. *)
Known == QFrames(write_queue) \cup InProgress \cup Done(written)

(* What a turn of the loop leaves in the queue. *)
QueueWithoutData == IF current_write # <<>> THEN write_queue ELSE after_next_msg(write_queue)

(* The queues are as next_msg needs them, and current_write is the rest of  *)
(* one frame.                                                               *)
QueueInv ==
  /\ FrameQueue(write_queue, Frame, next_id - 1)
  /\ current_write # <<>> => IsRest(current_write, Frame)

(* Every frame has an id of its own and is in one place. *)
PlacesInv ==
  /\ \A f \in Known : f.id \in 1 .. next_id - 1
  /\ \A f, g \in Known : f.id = g.id => f = g
  /\ QFrames(write_queue) \cap InProgress = {}
  /\ (QFrames(write_queue) \cup InProgress) \cap Done(written) = {}

SendInv == SockTypeOK /\ QueueInv /\ PlacesInv

(* The frames of UdtSock are those FrameTheorems is about. *)
LEMMA FrameShape ==
  /\ FrameSet(Frame) /\ Cell = Cells(Frame)
  /\ \A A : FramesOf(A) = {d[1].frame : d \in A}
  /\ FramesOf(Queued(write_queue)) = QFrames(write_queue)
<1>1. \A m \in Kinds : m.len \in Nat
  BY UdtSockAssumption DEF UdtSockAssumption
<1>2. FrameSet(Frame)
  BY <1>1 DEF FrameSet, Frame
<1> QED
  BY <1>2 DEF Cell, Cells, FramesOf, QFrames

(* Ids count from 1. *)
LEMMA IdBelow == ASSUME SockTypeOK PROVE next_id - 1 \in Nat /\ next_id = (next_id - 1) + 1
<1>1. next_id \in Nat \ {0}
  BY DEF SockTypeOK
<1> QED
  BY <1>1

(* The buffers are sequences of bytes. *)
LEMMA BufferTypes ==
  ASSUME SockTypeOK
  PROVE  /\ read_state \in Readers(Frame) /\ read_state.read_buffer \in Seq(Cells(Frame))
         /\ pipe \in Seq(Cells(Frame)) /\ current_write \in Seq(Cells(Frame))
         /\ Unsent \in Seq(Cells(Frame)) /\ pipe \o Unsent \in Seq(Cells(Frame))
         /\ Line \in Seq(Cells(Frame))
<1>1. /\ read_state \in Readers(Frame) /\ pipe \in Seq(Cells(Frame))
      /\ current_write \in Seq(Cells(Frame))
  BY FrameShape DEF SockTypeOK, Readers
<1>2. read_state.read_buffer \in Seq(Cells(Frame))
  BY <1>1 DEF Readers
<1>3. Unsent \in Seq(Cells(Frame))
  BY <1>1 DEF Unsent
<1>4. pipe \o Unsent \in Seq(Cells(Frame))
  BY <1>1, <1>3, ConcatProperties
<1>5. Line \in Seq(Cells(Frame))
  <2> DEFINE t == pipe \o Unsent
  <2>1. t \in Seq(Cells(Frame))
    BY <1>4
  <2> HIDE DEF t
  <2>2. read_state.read_buffer \o t \in Seq(Cells(Frame))
    BY <1>2, <2>1, ConcatProperties
  <2> QED
    BY <2>2 DEF t, Line
<1> QED
  BY <1>1, <1>2, <1>3, <1>4, <1>5

(* What a turn of the loop finds to write. *)
LEMMA DataShape ==
  ASSUME SockTypeOK, QueueInv, PlacesInv, HasData
  PROVE  LET f == Data[1].frame
         IN  /\ IsRest(Data, Frame) /\ Data \in Seq(Cells(Frame)) /\ f \in Frame
             /\ f \in Known /\ f \notin Done(written) /\ f.id \in 1 .. next_id - 1
             /\ FrameQueue(QueueWithoutData, Frame, next_id - 1)
             /\ f \notin QFrames(QueueWithoutData)
             /\ QFrames(write_queue) \cup InProgress = QFrames(QueueWithoutData) \cup {f}
             /\ current_write = <<>> =>
                  /\ InProgress = {} /\ Data[1].k = 1
                  /\ \A g \in QFrames(write_queue) : f.priority <= g.priority
             /\ current_write # <<>> => InProgress = {f} /\ Data = current_write
<1> DEFINE d == Data
           f == d[1].frame
           r == QueueWithoutData
           q == write_queue
           n == next_id - 1
<1>1. n \in Nat /\ FrameQueue(q, Frame, n) /\ FrameSet(Frame)
  BY IdBelow, FrameShape DEF QueueInv
<1>2. /\ IsRest(d, Frame) /\ FrameQueue(r, Frame, n) /\ f \notin QFrames(r)
      /\ QFrames(q) \cup InProgress = QFrames(r) \cup {f}
      /\ current_write = <<>> =>
           InProgress = {} /\ d[1].k = 1 /\ \A g \in QFrames(q) : f.priority <= g.priority
      /\ current_write # <<>> => InProgress = {f} /\ d = current_write
  <2>1. CASE current_write # <<>>
    <3>1. d = current_write /\ r = q
      BY <2>1 DEF Data, QueueWithoutData
    <3>2. InProgress = {f}
      BY <2>1, <3>1 DEF InProgress
    <3> QED
      BY <1>1, <2>1, <3>1, <3>2 DEF QueueInv, PlacesInv
  <2>2. CASE current_write = <<>>
    <3>1. DOMAIN q # {} /\ d = next_msg(q) /\ r = after_next_msg(q) /\ InProgress = {}
      BY <2>2 DEF HasData, Data, QueueWithoutData, InProgress
    <3> HIDE DEF d, r, q, n
    <3>2. /\ FrameQueue(r, Frame, n) /\ d \in Encoded(Frame) /\ f \in QFrames(q)
          /\ QFrames(r) = QFrames(q) \ {f}
          /\ \A g \in QFrames(q) : f.priority <= g.priority
      BY <1>1, <3>1, NextFrames
    <3>3. IsRest(d, Frame) /\ d[1].k = 1
      BY <1>1, <3>2, EncodedElements
    <3> QED
      BY <2>2, <3>1, <3>2, <3>3
  <2> QED
    BY <2>1, <2>2
<1>3. d \in Seq(Cells(Frame)) /\ 1 \in 1 .. Len(d)
  BY <1>2 DEF IsRest
<1>4. f \in Frame
  BY <1>1, <1>3, LineTypes
<1>5. f \in QFrames(q) \cup InProgress
  BY <1>2
<1> HIDE DEF d, f, r, q, n
<1>6. f \in Known /\ f \notin Done(written) /\ f.id \in 1 .. n
  BY <1>5 DEF PlacesInv, Known, q, n
<1> QED
  BY <1>2, <1>3, <1>4, <1>6 DEF d, f, r, q, n

(* drop_expired. *)
LEMMA KeptShape ==
  ASSUME SockTypeOK, QueueInv
  PROVE  /\ FrameQueue(Kept, Frame, next_id - 1) /\ QFrames(Kept) \subseteq QFrames(write_queue)
         /\ FramesOf(Queued(write_queue) \ Queued(Kept)) = QFrames(write_queue) \ QFrames(Kept)
         /\ \A f \in QFrames(write_queue) \ QFrames(Kept) : f.priority >= msg_drop_priority
         /\ QFrames(write_queue) \subseteq Frame
<1>1. next_id - 1 \in Nat /\ FrameSet(Frame) /\ FrameQueue(write_queue, Frame, next_id - 1) /\ now \in Nat
  BY IdBelow, FrameShape DEF QueueInv, SockTypeOK
<1>2. /\ FrameQueue(Kept, Frame, next_id - 1) /\ QFrames(Kept) \subseteq QFrames(write_queue)
      /\ {d[1].frame : d \in Queued(write_queue) \ Queued(Kept)} = QFrames(write_queue) \ QFrames(Kept)
      /\ \A f \in QFrames(write_queue) \ QFrames(Kept) : f.priority >= msg_drop_priority
  BY <1>1, DropFrames DEF Kept
<1>3. QFrames(write_queue) \subseteq Frame
  BY <1>1, FramesIn
<1> QED
  BY <1>2, <1>3 DEF FramesOf

(* The start of a call: drop_expired moves frames from the queue to gone,   *)
(* and write(Some) adds one with a new id.                                  *)
LEMMA StartStep ==
  ASSUME SendInv, StartWrite, NEW fresh, QFrames(write_queue)' = QFrames(Kept) \cup fresh,
         FrameQueue(write_queue, Frame, next_id - 1)',
         \/ fresh = {} /\ next_id' = next_id
         \/ \E f \in Frame : fresh = {f} /\ f.id = next_id /\ next_id' = next_id + 1
  PROVE  /\ QueueInv' /\ PlacesInv' /\ gone' \subseteq Frame
         /\ fresh \subseteq Known' /\ InProgress' = InProgress
<1> DEFINE n == next_id - 1
           Q == QFrames(write_queue)
           K == QFrames(Kept)
           D == Done(written)
<1>1. SockTypeOK /\ QueueInv /\ PlacesInv
  BY DEF SendInv
<1>2. n \in Nat /\ next_id = n + 1
  BY <1>1, IdBelow
<1>3. K \subseteq Q /\ Q \subseteq Frame /\ FramesOf(Queued(write_queue) \ Queued(Kept)) = Q \ K
  BY <1>1, KeptShape
<1>4. /\ UNCHANGED <<current_write, written>> /\ gone' = gone \cup (Q \ K)
  BY <1>3 DEF StartWrite
<1>5. InProgress' = InProgress /\ Done(written)' = D
  BY <1>4 DEF InProgress
<1>6. QueueInv'
  BY <1>1, <1>4 DEF QueueInv
<1>7. gone' \subseteq Frame
  BY <1>1, <1>3, <1>4 DEF SockTypeOK
<1>8. Known' = K \cup fresh \cup InProgress \cup D
  BY <1>5 DEF Known
<1>9. /\ \A f \in Q \cup InProgress \cup D : f.id \in 1 .. n
      /\ \A f, g \in Q \cup InProgress \cup D : f.id = g.id => f = g
      /\ Q \cap InProgress = {} /\ (Q \cup InProgress) \cap D = {}
  BY <1>1 DEF PlacesInv, Known
<1>10. PlacesInv'
  <2> HIDE DEF Q, K, D, n
  <2>1. CASE fresh = {} /\ next_id' = next_id
    <3>1. next_id' - 1 = n
      BY <2>1 DEF n
    <3>2. /\ \A f \in Known' : f.id \in 1 .. n
          /\ \A f, g \in Known' : f.id = g.id => f = g
          /\ K \cap InProgress = {} /\ (K \cup InProgress) \cap D = {}
      BY <1>3, <1>8, <1>9, <2>1
    <3>3. QFrames(write_queue)' = K
      BY <2>1 DEF K
    <3> QED
      BY <1>5, <3>1, <3>2, <3>3 DEF PlacesInv
  <2>2. ASSUME NEW f \in Frame, fresh = {f}, f.id = next_id, next_id' = next_id + 1
        PROVE  PlacesInv'
    <3>1. next_id' - 1 = n + 1 /\ f.id = n + 1
      BY <1>2, <2>2
    <3>2. \A i : i \in 1 .. n => i \in 1 .. n + 1 /\ i # n + 1
      BY <1>2
    <3>3. n + 1 \in 1 .. n + 1
      BY <1>2
    <3>4. \A g \in K \cup InProgress \cup D : g.id \in 1 .. n + 1 /\ g.id # n + 1
      BY <1>3, <1>9, <3>2
    <3>5. \A g \in Known' : g.id \in 1 .. n + 1
      BY <1>8, <2>2, <3>1, <3>3, <3>4
    <3>6. \A g, h \in Known' : g.id = h.id => g = h
      BY <1>3, <1>8, <1>9, <2>2, <3>1, <3>4
    <3>7. f \notin K \cup InProgress \cup D
      BY <3>1, <3>4
    <3>8. QFrames(write_queue)' = K \cup {f}
      BY <2>2 DEF K
    <3>9. (K \cup {f}) \cap InProgress = {} /\ ((K \cup {f}) \cup InProgress) \cap D = {}
      BY <1>3, <1>9, <3>7
    <3> QED
      BY <1>5, <3>1, <3>5, <3>6, <3>8, <3>9 DEF PlacesInv
  <2> QED
    BY <2>1, <2>2
<1> QED
  BY <1>5, <1>6, <1>7, <1>8, <1>10

(* A turn of the loop: the frame it takes stays in progress, is written to  *)
(* the end, or is lost.                                                     *)
LEMMA TurnStep ==
  ASSUME SendInv, HasData, write_queue' = QueueWithoutData, next_id' = next_id,
         (current_write # <<>> => IsRest(current_write, Frame))',
         NEW P, NEW D, InProgress' = P, Done(written)' = D,
         \/ P = {Data[1].frame} /\ D = Done(written)
         \/ P = {} /\ D = Done(written) \cup {Data[1].frame}
         \/ P = {} /\ D = Done(written)
  PROVE  /\ QueueInv' /\ PlacesInv'
         /\ P # {} \/ D # Done(written) => Known' = Known
<1> DEFINE n == next_id - 1
           Q == QFrames(write_queue)
           R == QFrames(QueueWithoutData)
           f == Data[1].frame
           W == Done(written)
<1>1. SockTypeOK /\ QueueInv /\ PlacesInv
  BY DEF SendInv
<1>2. /\ f \in Known /\ f \notin W /\ FrameQueue(QueueWithoutData, Frame, n)
      /\ f \notin R /\ Q \cup InProgress = R \cup {f}
  BY <1>1, DataShape
<1>3. QueueInv'
  BY <1>2 DEF QueueInv
<1>4. QFrames(write_queue)' = R
  OBVIOUS
<1>5. Known' = R \cup P \cup D /\ Known = Q \cup InProgress \cup W
  BY <1>4 DEF Known
<1>6. /\ \A g \in Known : g.id \in 1 .. n
      /\ \A g, h \in Known : g.id = h.id => g = h
      /\ (Q \cup InProgress) \cap W = {}
  BY <1>1 DEF PlacesInv
<1> HIDE DEF n, Q, R, f, W
<1>7. R \subseteq Known /\ R \cap W = {} /\ P \subseteq {f} /\ D \subseteq W \cup {f} /\ P \cap D = {}
  BY <1>2, <1>5, <1>6 DEF f, W
<1>8. Known' \subseteq Known
  BY <1>2, <1>5, <1>7
<1>9. P # {} \/ D # W => Known' = Known
  BY <1>2, <1>5, <1>8 DEF f, W
<1>10. PlacesInv'
  <2>1. next_id' - 1 = n
    BY DEF n
  <2>2. R \cap P = {} /\ (R \cup P) \cap D = {}
    BY <1>2, <1>7
  <2>3. (\A g \in Known' : g.id \in 1 .. n) /\ (\A g, h \in Known' : g.id = h.id => g = h)
    BY <1>6, <1>8
  <2> QED
    BY <1>4, <2>1, <2>2, <2>3 DEF PlacesInv
<1> QED
  BY <1>3, <1>9, <1>10 DEF W

(* The type of the queues. *)
LEMMA QueueType ==
  ASSUME NEW q, NEW n, FrameQueue(q, Frame, n)
  PROVE  DOMAIN q \subseteq Priority /\ q \in [DOMAIN q -> Seq([at : Nat, msg : Seq(Cell)])]
<1> DEFINE E == [at : Nat, msg : Encoded(Frame)]
           T == [at : Nat, msg : Seq(Cell)]
<1>1. DOMAIN q \subseteq Priority /\ q \in [DOMAIN q -> Seq(E)]
  BY DEF FrameQueue, QueueMap
<1>2. Encoded(Frame) \subseteq Seq(Cell)
  BY FrameShape, EncodedElements DEF IsRest
<1>3. E \subseteq T
  BY <1>2
<1> HIDE DEF E, T
<1>4. \A s \in Seq(E) : s \in Seq(T)
  BY <1>3
<1> QED
  BY <1>1, <1>4 DEF T

-----------------------------------------------------------------------------
(* The steps: types, queues and places.                                     *)

(* A step that leaves the queue, the data in hand and what was written. *)
LEMMA SenderSame ==
  ASSUME UNCHANGED <<write_queue, current_write, next_id, written>>
  PROVE  /\ QueueInv => QueueInv'
         /\ PlacesInv => PlacesInv'
         /\ InProgress' = InProgress
<1>1. QueueInv => QueueInv'
  BY DEF QueueInv
<1>2. Known' = Known /\ InProgress' = InProgress
  BY DEF Known, InProgress
<1>3. QFrames(write_queue)' = QFrames(write_queue) /\ Done(written)' = Done(written)
  OBVIOUS
<1>4. PlacesInv => PlacesInv'
  BY <1>2, <1>3 DEF PlacesInv
<1> QED
  BY <1>1, <1>2, <1>4

(* The steps that move no byte and no message, and lose none. *)
Still ==
  /\ UNCHANGED <<write_queue, current_write, pipe, read_state, next_id, written, delivered, gone>>
  /\ r_pc' = "closed" <=> r_pc = "closed"
  /\ link' \in {link, "up"} /\ (link = "broken" <=> link' = "broken")
  /\ w_pc = "closed" <=> w_pc' = "closed"

(* What the loop's thread, the library, the clock and calls that find       *)
(* nothing to do leave alone.                                               *)
LEMMA StillCases ==
  ASSUME SockTypeOK, Loop!TypeOK,
         \/ Evented \/ Thread \/ OnReadable \/ Establish \/ (\E n \in 1 .. Cap : Arrive(n))
         \/ Tick \/ FlushDone \/ UNCHANGED vars
  PROVE  Still /\ SockTypeOK'
<1> USE DEF Still
<1>1. ASSUME UNCHANGED <<write_queue, current_write, pipe, read_state, next_id, written, delivered,
                         gone, is_something_read>>,
             arrived' \in 0 .. Len(pipe), now' \in Nat, events' \subseteq {"snd", "rcv"},
             w_pc' \in {"idle", "flush", "closed"}, r_pc' \in {"idle", "ready", "recv", "closed"},
             link' \in {"connecting", "up", "broken"}
      PROVE  SockTypeOK'
  <2>1. {current_write, pipe}' \subseteq Seq(Cell)
    BY <1>1 DEF SockTypeOK
  <2> QED
    BY ZenonT(40), <1>1, <2>1 DEF SockTypeOK
<1>2. /\ arrived \in 0 .. Len(pipe) /\ now \in Nat /\ events \subseteq {"snd", "rcv"}
      /\ w_pc \in {"idle", "flush", "closed"} /\ r_pc \in {"idle", "ready", "recv", "closed"}
      /\ link \in {"connecting", "up", "broken"} /\ pipe \in Seq(Cell)
  BY DEF SockTypeOK
<1>3. CASE UNCHANGED sockVars
  BY <1>1, <1>2, <1>3 DEF sockVars, senderVars, libVars, receiverVars
<1>4. CASE Thread
  <2>1. CASE Wait
    <3>1. UNCHANGED <<senderVars, libVars, receiverVars, now, next_id, written, delivered, gone>>
      BY <2>1 DEF Wait
    <3>2. events' \subseteq {"snd", "rcv"}
      <4>1. /\ notified' = {<<s, token_map[s]>> : s \in Ready \cap DOMAIN watched \cap DOMAIN token_map}
            /\ events' = events \cup {e[2] : e \in notified'}
        BY <2>1 DEF Wait
      <4>2. \A s \in DOMAIN token_map : token_map[s] \in {"snd", "rcv"}
        BY DEF Loop!TypeOK, Loop!Range, Socks
      <4>3. \A e \in notified' : e[2] \in {"snd", "rcv"}
        BY <4>1, <4>2
      <4> QED
        BY <1>2, <4>1, <4>3
    <3> QED
      BY <1>1, <1>2, <3>1, <3>2 DEF senderVars, libVars, receiverVars
  <2> QED
    BY <1>3, <1>4, <2>1 DEF Thread
<1>5. CASE Evented \/ UNCHANGED vars
  BY <1>3, <1>5 DEF Evented, vars
<1>6. CASE OnReadable
  <2>1. /\ UNCHANGED <<write_queue, current_write, w_pc, link, pipe, arrived, read_state,
                       is_something_read, now, next_id, written, delivered, gone>>
        /\ r_pc = "idle" /\ r_pc' = "ready" /\ events' \subseteq events
    BY <1>6 DEF OnReadable, senderVars, libVars
  <2> QED
    BY <1>1, <1>2, <2>1
<1>7. CASE Establish
  <2>1. /\ UNCHANGED <<write_queue, current_write, w_pc, pipe, arrived, read_state, r_pc, events,
                       is_something_read, now, next_id, written, delivered, gone>>
        /\ link = "connecting" /\ link' = "up"
    BY <1>7 DEF Establish, senderVars, receiverVars
  <2> QED
    BY <1>1, <1>2, <2>1
<1>8. ASSUME NEW n \in 1 .. Cap, Arrive(n)
      PROVE  Still /\ SockTypeOK'
  <2>1. /\ UNCHANGED <<write_queue, current_write, w_pc, link, pipe, read_state, r_pc, events,
                       is_something_read, now, next_id, written, delivered, gone>>
        /\ arrived' = n /\ n <= Len(pipe)
    BY <1>8 DEF Arrive, senderVars, receiverVars
  <2>2. Cap \in Nat /\ Len(pipe) \in Nat
    BY <1>2, UdtSockAssumption DEF UdtSockAssumption
  <2>3. arrived' \in 0 .. Len(pipe)
    BY <2>1, <2>2
  <2> QED
    BY <1>1, <1>2, <2>1, <2>3
<1>9. CASE Tick
  <2>1. /\ UNCHANGED <<write_queue, current_write, w_pc, link, pipe, arrived, read_state, r_pc, events,
                       is_something_read, next_id, written, delivered, gone>>
        /\ now' = now + 1
    BY <1>9 DEF Tick, senderVars, libVars, receiverVars
  <2>2. now' \in Nat
    BY <1>2, <2>1
  <2> QED
    BY <1>1, <1>2, <2>1, <2>2
<1>10. CASE FlushDone
  <2>1. /\ UNCHANGED <<write_queue, current_write, link, pipe, arrived, read_state, r_pc, events,
                       is_something_read, now, next_id, written, delivered, gone>>
        /\ w_pc = "flush" /\ w_pc' = "idle"
    BY <1>10 DEF FlushDone, libVars, receiverVars
  <2> QED
    BY <1>1, <1>2, <2>1
<1> QED
  BY <1>4, <1>5, <1>6, <1>7, <1>8, <1>9, <1>10

LEMMA StillStep ==
  ASSUME SendInv, Loop!TypeOK,
         \/ Evented \/ Thread \/ OnReadable \/ Establish \/ (\E n \in 1 .. Cap : Arrive(n))
         \/ Tick \/ FlushDone \/ UNCHANGED vars
  PROVE  SendInv'
<1>1. Still /\ SockTypeOK'
  BY StillCases DEF SendInv
<1> QED
  BY <1>1, SenderSame DEF SendInv, Still

(* write(Some) and write(None) up to the flush. *)
LEMMA WriteStep ==
  ASSUME SendInv, (\E m \in Kinds : Write(m)) \/ WriteUnencodable \/ OnWritable
  PROVE  /\ SendInv' /\ w_pc = "idle" /\ w_pc' # "closed"
         /\ UNCHANGED <<current_write, link, pipe, arrived, read_state, is_something_read, r_pc,
                        now, written, delivered>>
<1> DEFINE n == next_id - 1
<1>1. /\ SockTypeOK /\ QueueInv /\ PlacesInv
      /\ n \in Nat /\ next_id = n + 1 /\ next_id \in Nat \ {0} /\ now \in Nat
      /\ events \subseteq {"snd", "rcv"}
  BY IdBelow DEF SendInv, SockTypeOK
<1>2. /\ StartWrite /\ w_pc = "idle"
      /\ UNCHANGED <<current_write, link, pipe, arrived, read_state, is_something_read, r_pc,
                     now, written, delivered>>
  BY DEF Write, WriteUnencodable, OnWritable, StartWrite, libVars, receiverVars
<1>3. FrameQueue(Kept, Frame, n) /\ QFrames(Kept) \subseteq QFrames(write_queue) /\ FrameSet(Frame)
  BY <1>1, KeptShape, FrameShape
<1>4. /\ QueueInv' /\ PlacesInv' /\ gone' \subseteq Frame /\ next_id' \in Nat \ {0}
      /\ w_pc' \in {"idle", "flush"} /\ events' \subseteq events
  <2>1. ASSUME NEW m \in Kinds, Write(m)
        PROVE  /\ QueueInv' /\ PlacesInv' /\ gone' \subseteq Frame /\ next_id' \in Nat \ {0}
               /\ w_pc' \in {"idle", "flush"} /\ events' \subseteq events
    <3> DEFINE f == [id |-> next_id, priority |-> m.priority, len |-> m.len, ctx |-> NullCtx]
    <3>1. /\ write_queue' = push_at(Kept, now, serialize_with_len(f), m.priority)
          /\ next_id' = next_id + 1 /\ w_pc' = "flush" /\ events' = events
      BY <2>1 DEF Write
    <3>2. f \in Frame /\ f.id = n + 1 /\ f.priority = m.priority /\ f.id = next_id
      <4>1. m.priority \in Priority /\ m.len \in Nat
        BY UdtSockAssumption DEF UdtSockAssumption
      <4> QED
        BY <1>1, <4>1 DEF Frame
    <3> HIDE DEF f
    <3>3. FrameQueue(write_queue', Frame, n + 1) /\ QFrames(write_queue') = QFrames(Kept) \cup {f}
      <4>1. write_queue' = push_at(Kept, now, serialize_with_len(f), f.priority)
        BY <3>1, <3>2
      <4> HIDE DEF n
      <4> QED
        BY <1>1, <1>3, <3>2, <4>1, PushFrames
    <3>4. next_id' - 1 = n + 1 /\ next_id' \in Nat \ {0}
      BY <1>1, <3>1
    <3>5. FrameQueue(write_queue', Frame, next_id' - 1)
      BY <3>3, <3>4
    <3>6. /\ QueueInv' /\ PlacesInv' /\ gone' \subseteq Frame
      BY <1>2, <3>1, <3>2, <3>3, <3>5, StartStep
    <3> QED
      BY <3>1, <3>4, <3>6
  <2>2. ASSUME write_queue' = Kept, next_id' = next_id
        PROVE  QueueInv' /\ PlacesInv' /\ gone' \subseteq Frame /\ next_id' \in Nat \ {0}
    <3>1. QFrames(write_queue)' = QFrames(Kept) \cup {} /\ FrameQueue(write_queue', Frame, next_id' - 1)
      BY <1>3, <2>2
    <3> QED
      BY <1>1, <1>2, <2>2, <3>1, StartStep
  <2>3. CASE WriteUnencodable
    <3>1. write_queue' = Kept /\ UNCHANGED <<w_pc, next_id, events>>
      BY <2>3 DEF WriteUnencodable
    <3> QED
      BY <1>2, <2>2, <3>1
  <2>4. CASE OnWritable
    <3>1. write_queue' = Kept /\ next_id' = next_id /\ w_pc' = "flush" /\ events' \subseteq events
      BY <2>4 DEF OnWritable
    <3> QED
      BY <2>2, <3>1
  <2> QED
    BY <2>1, <2>3, <2>4
<1>5. SockTypeOK'
  <2>1. DOMAIN write_queue' \subseteq Priority
        /\ write_queue' \in [DOMAIN write_queue' -> Seq([at : Nat, msg : Seq(Cell)])]
    BY <1>4, QueueType DEF QueueInv
  <2>2. {current_write, pipe}' \subseteq Seq(Cell)
    BY <1>1, <1>2 DEF SockTypeOK
  <2> QED
    BY ZenonT(40), <1>1, <1>2, <1>4, <2>1, <2>2 DEF SockTypeOK
<1> QED
  BY <1>2, <1>4, <1>5 DEF SendInv

(* A turn of the loop leaves the rest of the program alone. *)
LEMMA TurnFrame ==
  ASSUME SockTypeOK, NEW rest, Turn(rest)
  PROVE  /\ w_pc = "flush" /\ HasData /\ write_queue' = QueueWithoutData /\ current_write' = rest
         /\ UNCHANGED <<link, arrived, read_state, is_something_read, r_pc, events, now, next_id,
                        delivered>>
         /\ (/\ QueueInv' /\ current_write' \in Seq(Cell) /\ pipe' \in Seq(Cell)
             /\ Len(pipe) <= Len(pipe') /\ Len(pipe') <= Cap
             /\ written' \in Seq(Frame) /\ gone' \subseteq Frame
             /\ w_pc' \in {"idle", "flush"}) => SockTypeOK'
<1>1. /\ w_pc = "flush" /\ HasData /\ write_queue' = QueueWithoutData /\ current_write' = rest
      /\ UNCHANGED <<link, arrived, read_state, is_something_read, r_pc, events, now, next_id,
                     delivered>>
  BY DEF Turn, receiverVars, QueueWithoutData
<1>2. ASSUME QueueInv', current_write' \in Seq(Cell), pipe' \in Seq(Cell),
             Len(pipe) <= Len(pipe'), Len(pipe') <= Cap,
             written' \in Seq(Frame), gone' \subseteq Frame, w_pc' \in {"idle", "flush"}
      PROVE  SockTypeOK'
  <2>1. DOMAIN write_queue' \subseteq Priority
        /\ write_queue' \in [DOMAIN write_queue' -> Seq([at : Nat, msg : Seq(Cell)])]
    BY <1>2, QueueType DEF QueueInv
  <2>2. {current_write, pipe}' \subseteq Seq(Cell)
    BY <1>2
  <2>3. arrived' \in 0 .. Len(pipe')
    <3>1. pipe \in Seq(Cell) /\ arrived \in 0 .. Len(pipe)
      BY DEF SockTypeOK
    <3> QED
      BY <1>1, <1>2, <3>1
  <2> QED
    BY ZenonT(40), <1>1, <1>2, <2>1, <2>2, <2>3 DEF SockTypeOK
<1> QED
  BY <1>1, <1>2

(* The library accepts bytes, and the frame is written when its last byte   *)
(* was accepted.                                                            *)
LEMMA FlushSendStep ==
  ASSUME SendInv, NEW n \in 1 .. Cap, FlushSend(n)
  PROVE  /\ SendInv' /\ HasData /\ Live /\ Live'
         /\ UNCHANGED <<read_state, r_pc, delivered, link>>
         /\ Line' = read_state.read_buffer \o (pipe \o Data)
         /\ \/ n = Len(Data) /\ written' = Append(written, Data[1].frame) /\ InProgress' = {}
            \/ n # Len(Data) /\ written' = written /\ InProgress' = {Data[1].frame}
<1> DEFINE C == Cells(Frame)
           d == Data
           f == d[1].frame
           a == SubSeq(d, 1, n)
           e == SubSeq(d, n + 1, Len(d))
           rb == read_state.read_buffer
<1>1. SockTypeOK /\ QueueInv /\ PlacesInv
  BY DEF SendInv
<1>2. /\ w_pc = "flush" /\ HasData /\ write_queue' = QueueWithoutData /\ current_write' = e
      /\ UNCHANGED <<link, read_state, r_pc, next_id, delivered, w_pc, gone>>
      /\ link = "up" /\ n <= Len(d) /\ Len(pipe) + n <= Cap /\ pipe' = pipe \o a
      /\ written' = IF n = Len(d) THEN Append(written, f) ELSE written
  BY <1>1, TurnFrame DEF FlushSend, Accepted
<1>3. /\ IsRest(d, Frame) /\ d \in Seq(C) /\ f \in Frame /\ f \notin Done(written)
      /\ FrameSet(Frame)
  BY <1>1, <1>2, DataShape, FrameShape
<1>4. Len(d) \in Nat /\ n \in 0 .. Len(d) /\ n \in Nat
  <2>1. Cap \in Nat
    BY UdtSockAssumption DEF UdtSockAssumption
  <2> QED
    BY <1>2, <1>3, <2>1
<1>5. /\ e \in Seq(C) /\ a \in Seq(C) /\ (n = Len(d) => e = <<>>)
      /\ (n # Len(d) => IsRest(e, Frame) /\ e[1].frame = f)
      /\ a \o e = d
  BY <1>3, <1>4, RestSplit
<1>6. Live /\ Live'
  BY <1>2 DEF Live
<1>7. rb \in Seq(C) /\ pipe \in Seq(C) /\ written \in Seq(Frame) /\ gone \subseteq Frame
  BY <1>1, BufferTypes DEF SockTypeOK
<1>8. Len(a) = n
  BY <1>3, <1>4, PartShape
<1> HIDE DEF C, d, f, a, e, rb
<1>9. Line' = rb \o (pipe \o d)
  <2>1. (pipe \o a) \o e = pipe \o d
    <3>1. pipe \in Seq(C) /\ a \in Seq(C) /\ e \in Seq(C)
      BY <1>5, <1>7
    <3>2. (pipe \o a) \o e = pipe \o (a \o e)
      BY SMTT(20), <3>1, ConcatAssociative
    <3> QED
      BY <1>5, <3>2
  <2>2. Unsent' = e
    BY <1>2, <1>6 DEF Unsent
  <2> QED
    BY <1>2, <2>1, <2>2 DEF Line, rb
<1>10. /\ n # Len(d) => InProgress' = {f} /\ written' = written
       /\ n = Len(d) => InProgress' = {} /\ written' = Append(written, f)
  BY <1>2, <1>5 DEF InProgress, IsRest
<1>11. n = Len(d) => Done(written)' = Done(written) \cup {f}
  <2> SUFFICES ASSUME n = Len(d) PROVE Done(written') = Done(written) \cup {f}
    OBVIOUS
  <2> DEFINE V == Append(written, f)
             k == Len(written)
  <2>1. Len(V) = k + 1 /\ V[k + 1] = f /\ k \in Nat /\ \A i \in 1 .. k : V[i] = written[i]
    BY <1>3, <1>7, AppendProperties
  <2>2. 1 .. k + 1 = (1 .. k) \cup {k + 1}
    BY <2>1
  <2>3. written' = V
    BY <1>10
  <2> HIDE DEF V
  <2>4. Done(V) = Done(written) \cup {f}
    BY <2>1, <2>2 DEF Done
  <2> QED
    BY <2>3, <2>4
<1>12. current_write' # <<>> => IsRest(current_write', Frame)
  BY <1>2, <1>5
<1>13. QueueInv' /\ PlacesInv'
  <2>1. CASE n = Len(d)
    <3>1. InProgress' = {} /\ Done(written)' = Done(written) \cup {Data[1].frame}
      BY <1>10, <1>11, <2>1 DEF f, d
    <3> QED
      BY <1>2, <1>12, <3>1, TurnStep
  <2>2. CASE n # Len(d)
    <3>1. InProgress' = {Data[1].frame} /\ Done(written)' = Done(written)
      BY <1>10, <2>2 DEF f, d
    <3> QED
      BY <1>2, <1>12, <3>1, TurnStep
  <2> QED
    BY <2>1, <2>2
<1>14. SockTypeOK'
  <2>1. pipe' \in Seq(C) /\ current_write' \in Seq(C) /\ Len(pipe') = Len(pipe) + n
    <3>1. pipe \in Seq(C) /\ a \in Seq(C)
      BY <1>5, <1>7
    <3>2. pipe \o a \in Seq(C) /\ Len(pipe \o a) = Len(pipe) + Len(a)
      BY <3>1, ConcatProperties
    <3> QED
      BY <1>2, <1>5, <1>8, <3>2
  <2>2. written' \in Seq(Frame)
    <3>1. written \in Seq(Frame) /\ f \in Frame
      BY <1>3, <1>7
    <3>2. Append(written, f) \in Seq(Frame)
      BY <3>1, AppendProperties
    <3> QED
      BY <1>7, <1>10, <3>2
  <2>3. Cell = C
    BY FrameShape DEF C
  <2>4. Len(pipe) <= Len(pipe') /\ Len(pipe') <= Cap
    <3>1. Len(pipe) \in Nat
      BY <1>7
    <3> QED
      BY <1>2, <1>4, <2>1, <3>1
  <2>5. Turn(SubSeq(Data, n + 1, Len(Data)))
    BY DEF FlushSend, Accepted
  <2>6. w_pc' \in {"idle", "flush"} /\ gone' \subseteq Frame
    BY <1>2, <1>7
  <2> QED
    BY <1>1, <1>13, <2>1, <2>2, <2>3, <2>4, <2>5, <2>6, TurnFrame
<1> QED
  BY <1>2, <1>6, <1>9, <1>10, <1>13, <1>14 DEF SendInv, rb, d, f

(* The data is kept: it is the frame in progress, and all of it is on the   *)
(* line.                                                                    *)
LEMMA FlushKeptStep ==
  ASSUME SendInv, FlushWouldBlock
  PROVE  /\ SendInv' /\ HasData /\ Live /\ Live' /\ written' = written
         /\ UNCHANGED <<read_state, r_pc, delivered>>
         /\ Line' = read_state.read_buffer \o (pipe \o Data)
         /\ InProgress' = {Data[1].frame}
<1> DEFINE d == Data
           f == d[1].frame
           rb == read_state.read_buffer
<1>1. SockTypeOK /\ QueueInv /\ PlacesInv
  BY DEF SendInv
<1>2. /\ Turn(d) /\ link = "up" /\ w_pc' = "idle" /\ UNCHANGED <<pipe, written, gone>>
  BY DEF FlushWouldBlock
<1>3. /\ w_pc = "flush" /\ HasData /\ write_queue' = QueueWithoutData /\ current_write' = d
      /\ UNCHANGED <<link, read_state, r_pc, next_id, delivered>>
  BY <1>1, <1>2, TurnFrame
<1>4. IsRest(d, Frame) /\ d \in Seq(Cells(Frame)) /\ d # <<>>
  BY <1>1, <1>3, DataShape DEF IsRest
<1>5. Live /\ Live'
  BY <1>2, <1>3 DEF Live
<1> HIDE DEF d, rb
<1>6. InProgress' = {f} /\ Done(written)' = Done(written)
  BY <1>2, <1>3, <1>4 DEF InProgress
<1>7. QueueInv' /\ PlacesInv'
  <2>1. InProgress' = {Data[1].frame} /\ (current_write # <<>> => IsRest(current_write, Frame))'
    BY <1>3, <1>4, <1>6 DEF d
  <2> QED
    BY <1>3, <1>6, <2>1, TurnStep
<1>8. Line' = rb \o (pipe \o d)
  <2>1. Unsent' = d
    BY <1>3, <1>5 DEF Unsent
  <2> QED
    BY <1>2, <1>3, <2>1 DEF Line, rb
<1>9. SockTypeOK'
  <2>1. /\ pipe' \in Seq(Cell) /\ written' \in Seq(Frame) /\ current_write' \in Seq(Cell)
        /\ gone' \subseteq Frame /\ Len(pipe') <= Cap
    BY <1>1, <1>2, <1>3, <1>4, FrameShape DEF SockTypeOK
  <2>2. Len(pipe) <= Len(pipe')
    BY <1>2, <2>1
  <2> QED
    BY <1>1, <1>2, <1>7, <2>1, <2>2, TurnFrame
<1> QED
  BY <1>2, <1>3, <1>5, <1>6, <1>7, <1>8, <1>9 DEF SendInv, rb, d

(* The connection is gone: the data taken is lost. *)
LEMMA FlushErrStep ==
  ASSUME SendInv, FlushErr
  PROVE  /\ SendInv' /\ ~Live /\ ~Live' /\ Line' = Line /\ written' = written
         /\ UNCHANGED <<read_state, r_pc, delivered>>
<1>1. SockTypeOK /\ QueueInv /\ PlacesInv
  BY DEF SendInv
<1>2. /\ Turn(<<>>) /\ link = "broken" /\ w_pc' = "idle" /\ UNCHANGED <<pipe, written>>
      /\ gone' = gone \cup {Data[1].frame}
  BY DEF FlushErr
<1>3. /\ w_pc = "flush" /\ HasData /\ write_queue' = QueueWithoutData /\ current_write' = <<>>
      /\ UNCHANGED <<link, read_state, r_pc, next_id, delivered>>
  BY <1>1, <1>2, TurnFrame
<1>4. ~Live /\ ~Live'
  BY <1>2, <1>3 DEF Live
<1>5. InProgress' = {} /\ Done(written)' = Done(written)
  BY <1>2, <1>3 DEF InProgress
<1>6. QueueInv' /\ PlacesInv'
  BY <1>3, <1>5, TurnStep
<1>7. Line' = Line
  BY <1>2, <1>3, <1>4 DEF Line, Unsent
<1>8. SockTypeOK'
  <2>1. Data[1].frame \in Frame
    BY <1>1, <1>3, DataShape
  <2>2. /\ pipe' \in Seq(Cell) /\ written' \in Seq(Frame) /\ current_write' \in Seq(Cell)
        /\ gone' \subseteq Frame /\ Len(pipe') <= Cap
    BY <1>1, <1>2, <1>3, <2>1 DEF SockTypeOK
  <2>3. Len(pipe) <= Len(pipe')
    BY <1>2, <2>2
  <2> QED
    BY <1>1, <1>2, <1>6, <2>2, <2>3, TurnFrame
<1> QED
  BY <1>2, <1>3, <1>4, <1>6, <1>7, <1>8 DEF SendInv

(* Drop for Inner. *)
LEMMA DropSenderStep ==
  ASSUME SendInv, DropSender
  PROVE  /\ SendInv' /\ Live' = FALSE /\ Unsent' = <<>> /\ InProgress' = {}
         /\ UNCHANGED <<link, pipe, read_state, r_pc, written, delivered>>
<1>1. SockTypeOK /\ QueueInv /\ PlacesInv
  BY DEF SendInv
<1>2. /\ w_pc' = "closed" /\ write_queue' = new /\ current_write' = <<>>
      /\ UNCHANGED <<link, pipe, arrived, read_state, is_something_read, r_pc, events, now, next_id,
                     written, delivered, gone>>
  BY DEF DropSender, libVars, receiverVars
<1>3. /\ FrameQueue(new, Frame, next_id - 1) /\ QFrames(new) = {} /\ DOMAIN new = {}
  BY <1>1, IdBelow, FrameShape, NewFrames
<1>4. QueueInv'
  BY <1>2, <1>3 DEF QueueInv
<1>5. InProgress' = {} /\ QFrames(write_queue)' = {} /\ Done(written)' = Done(written)
  BY <1>2, <1>3 DEF InProgress
<1>6. PlacesInv'
  <2>1. Known' = Done(written) /\ Done(written) \subseteq Known
    BY <1>5 DEF Known
  <2> QED
    BY <1>1, <1>2, <1>5, <2>1 DEF PlacesInv
<1>7. Live' = FALSE /\ Unsent' = <<>>
  BY <1>2 DEF Live, Unsent
<1>8. SockTypeOK'
  <2>1. DOMAIN write_queue' \subseteq Priority
        /\ write_queue' \in [DOMAIN write_queue' -> Seq([at : Nat, msg : Seq(Cell)])]
    BY <1>4, QueueType DEF QueueInv
  <2>2. {current_write, pipe}' \subseteq Seq(Cell)
    BY <1>1, <1>2 DEF SockTypeOK
  <2> QED
    BY ZenonT(40), <1>1, <1>2, <2>1, <2>2 DEF SockTypeOK
<1> QED
  BY <1>2, <1>4, <1>5, <1>6, <1>7, <1>8 DEF SendInv

(* The connection breaks. *)
LEMMA BreakStep ==
  ASSUME SendInv, Break
  PROVE  /\ SendInv' /\ Live' = FALSE /\ Unsent' = <<>> /\ InProgress' = InProgress
         /\ UNCHANGED <<current_write, w_pc, read_state, r_pc, written, delivered>>
         /\ arrived \in 0 .. Len(pipe) /\ pipe' = SubSeq(pipe, 1, arrived)
<1>1. SockTypeOK /\ QueueInv /\ PlacesInv
  BY DEF SendInv
<1>2. /\ link' = "broken" /\ pipe' = SubSeq(pipe, 1, arrived)
      /\ UNCHANGED <<write_queue, current_write, w_pc, arrived, read_state, is_something_read, r_pc,
                     events, now, next_id, written, delivered, gone>>
  BY DEF Break, senderVars, receiverVars
<1>3. /\ pipe \in Seq(Cells(Frame)) /\ arrived \in 0 .. Len(pipe) /\ Len(pipe) <= Cap
      /\ Cap \in Nat
  BY <1>1, BufferTypes, UdtSockAssumption DEF SockTypeOK, UdtSockAssumption
<1>4. pipe' \in Seq(Cells(Frame)) /\ Len(pipe') = arrived
  BY <1>2, <1>3, PartShape
<1>5. Live' = FALSE /\ Unsent' = <<>>
  BY <1>2 DEF Live, Unsent
<1>6. QueueInv' /\ PlacesInv' /\ InProgress' = InProgress
  BY <1>1, <1>2, SenderSame
<1>7. SockTypeOK'
  <2>1. current_write' \in Seq(Cell) /\ pipe' \in Seq(Cell)
    BY <1>1, <1>2, <1>4, FrameShape DEF SockTypeOK
  <2>2. {current_write, pipe}' \subseteq Seq(Cell)
    BY <2>1
  <2>3. arrived' \in 0 .. Len(pipe') /\ Len(pipe') <= Cap
    BY <1>2, <1>3, <1>4
  <2> QED
    BY ZenonT(40), <1>1, <1>2, <2>2, <2>3 DEF SockTypeOK
<1> QED
  BY <1>2, <1>3, <1>5, <1>6, <1>7 DEF SendInv

(* recv hands bytes to the reader: the line stays. *)
LEMMA RecvDataStep ==
  ASSUME SendInv, RecvData
  PROVE  /\ SendInv' /\ Line' = Line /\ Live' = Live /\ InProgress' = InProgress
         /\ read_state'.read_len = read_state.read_len
         /\ UNCHANGED <<r_pc, written, delivered>>
<1> DEFINE C == Cells(Frame)
           rb == read_state.read_buffer
           a == SubSeq(pipe, 1, arrived)
           e == SubSeq(pipe, arrived + 1, Len(pipe))
<1>1. SockTypeOK /\ QueueInv /\ PlacesInv
  BY DEF SendInv
<1>2. /\ read_state' = put_buf(read_state, a) /\ pipe' = e /\ arrived' = 0 /\ is_something_read' = TRUE
      /\ UNCHANGED <<write_queue, current_write, w_pc, link, r_pc, events, now, next_id, written,
                     delivered, gone>>
  BY DEF RecvData, senderVars
<1>3. /\ rb \in Seq(C) /\ pipe \in Seq(C) /\ Unsent \in Seq(C) /\ read_state \in Readers(Frame)
      /\ arrived \in 0 .. Len(pipe) /\ Len(pipe) <= Cap /\ Cap \in Nat /\ Len(pipe) \in Nat
  <2>1. rb \in Seq(C) /\ pipe \in Seq(C) /\ Unsent \in Seq(C) /\ read_state \in Readers(Frame)
    BY <1>1, BufferTypes
  <2>2. arrived \in 0 .. Len(pipe) /\ Len(pipe) <= Cap
    BY <1>1 DEF SockTypeOK
  <2>3. Cap \in Nat
    BY UdtSockAssumption DEF UdtSockAssumption
  <2> HIDE DEF C, rb
  <2>4. Len(pipe) \in Nat
    BY <2>1
  <2> QED
    BY <2>1, <2>2, <2>3, <2>4
<1>4. a \in Seq(C) /\ e \in Seq(C) /\ a \o e = pipe
  BY <1>3, PartShape
<1>5. Len(e) <= Cap /\ 0 \in 0 .. Len(e)
  <2>1. Len(e) = Len(pipe) - arrived
    BY <1>3, PartShape
  <2> HIDE DEF e
  <2> QED
    BY <1>3, <2>1
<1> HIDE DEF C, a, e
<1>6. /\ read_state'.read_buffer = rb \o a /\ read_state'.read_len = read_state.read_len
      /\ read_state' = [read_buffer |-> rb \o a, read_len |-> read_state.read_len]
  BY <1>2, <1>3 DEF put_buf, Readers
<1>7. Live' = Live /\ InProgress' = InProgress
  BY <1>2 DEF Live, InProgress
<1>8. Unsent' = Unsent
  BY <1>2, <1>7 DEF Unsent
<1>9. Line' = Line
  <2> DEFINE u == Unsent
  <2> HIDE DEF u, rb
  <2>1. Buffers(C, rb, a, e, u)
    BY <1>3, <1>4 DEF Buffers, u
  <2>2. (rb \o a) \o (e \o u) = rb \o ((a \o e) \o u)
    BY SMTT(30), <2>1, MoveBytes
  <2>3. (rb \o a) \o (e \o u) = rb \o (pipe \o u)
    BY <1>4, <2>2
  <2> QED
    BY <1>2, <1>6, <1>8, <2>3 DEF Line, u, rb
<1>10. QueueInv' /\ PlacesInv'
  BY <1>1, <1>2, SenderSame
<1>11. SockTypeOK'
  <2>1. rb \o a \in Seq(C)
    <3>1. rb \in Seq(C) /\ a \in Seq(C)
      BY <1>3, <1>4
    <3> QED
      BY <3>1, ConcatProperties
  <2> HIDE DEF rb
  <2>2. rb \o a \in Seq(Cell) /\ pipe' \in Seq(Cell) /\ current_write' \in Seq(Cell)
    BY <1>1, <1>2, <1>4, <2>1, FrameShape DEF C, SockTypeOK
  <2>3. read_state' \in [read_buffer : Seq(Cell), read_len : Nat]
    BY <1>3, <1>6, <2>2 DEF Readers
  <2>4. {current_write, pipe}' \subseteq Seq(Cell)
    BY <2>2
  <2>5. is_something_read' \in BOOLEAN /\ arrived' \in 0 .. Len(pipe') /\ Len(pipe') <= Cap
    BY <1>2, <1>5
  <2> QED
    BY ZenonT(40), <1>1, <1>2, <2>3, <2>4, <2>5 DEF SockTypeOK
<1> QED
  BY <1>2, <1>6, <1>7, <1>9, <1>10, <1>11 DEF SendInv

(* A look into the reader's buffer takes what it takes off its front. *)
LEMMA LookTypes ==
  ASSUME NEW rd \in Readers(Frame), NEW o \in read_from_buffer(rd)
  PROVE  /\ o.reader \in Readers(Frame)
         /\ \/ o.res = None
            \/ o.res.tag = "Err" /\ o.res.err # "Udt"
            \/ o.res.tag = "Some" /\ o.res.id \in Nat
<1>0. FrameSet(Frame)
  BY FrameShape
<1>1. CASE o \in try_read(rd, NullCtx)
  <2>1. /\ o.reader \in Readers(Frame)
        /\ \/ o.res \in {None, Err("Crypto"), Err("PayloadSizeProhibitive")}
           \/ \E id, size \in Nat : o.res = Some(id, size)
    BY <1>0, <1>1, ReadShape
  <2> QED
    BY <2>1, Results
<1>2. ASSUME NEW h \in try_read_header(rd, NullCtx), h.res # None, o = h
      PROVE  o.reader \in Readers(Frame) /\ o.res.tag = "Err" /\ o.res.err # "Udt"
  <2>1. o.reader \in Readers(Frame) /\ o.res \in {None, Err("Crypto"), Err("PayloadSizeProhibitive")}
    BY <1>0, <1>2, HeaderShape
  <2> QED
    BY <1>2, <2>1, Results
<1>3. ASSUME NEW h \in try_read_header(rd, NullCtx), h.reader.read_len > 0,
             o \in try_read_body(h.reader, NullCtx)
      PROVE  /\ o.reader \in Readers(Frame)
             /\ \/ o.res = None
                \/ o.res.tag = "Err" /\ o.res.err # "Udt"
                \/ o.res.tag = "Some" /\ o.res.id \in Nat
  <2> DEFINE g == h.reader
  <2>1. g \in Readers(Frame)
    BY <1>0, HeaderShape
  <2>2. g.read_len # 0 /\ o \in try_read_body(g, NullCtx)
    BY <1>3, <2>1 DEF Readers
  <2> HIDE DEF g
  <2>3. o.reader \in Readers(Frame) /\ (o.res \in {None, Err("Crypto")} \/ \E id \in Nat : o.res = Some(id, g.read_len))
    BY <1>0, <2>1, <2>2, BodyShape
  <2> QED
    BY <2>3, Results
<1>4. ASSUME NEW h \in try_read_header(rd, NullCtx), ~(Len(rd.read_buffer) < SERIALIZED_U32_LEN),
             o = [res |-> Some(rd.read_buffer[1].frame.id, 0), reader |-> h.reader]
      PROVE  o.reader \in Readers(Frame) /\ o.res.tag = "Some" /\ o.res.id \in Nat
  <2>1. h.reader \in Readers(Frame)
    BY <1>0, HeaderShape
  <2>2. rd.read_buffer \in Seq(Cells(Frame)) /\ 1 \in 1 .. Len(rd.read_buffer)
    BY <1>4, CryptoAssumption DEF Readers, CryptoAssumption
  <2>3. rd.read_buffer[1].frame.id \in Nat
    BY <1>0, <2>2, LineTypes DEF FrameSet
  <2>4. o.reader = h.reader /\ o.res = Some(rd.read_buffer[1].frame.id, 0)
    BY <1>4
  <2> QED
    BY <2>1, <2>3, <2>4, Results
<1> QED
  <2>1. CASE rd.read_len # 0 \/ Len(rd.read_buffer) < SERIALIZED_U32_LEN
    BY <1>1, <2>1 DEF read_from_buffer
  <2>2. CASE ~(rd.read_len # 0 \/ Len(rd.read_buffer) < SERIALIZED_U32_LEN)
    <3>1. PICK h \in try_read_header(rd, NullCtx) :
            o \in IF h.res # None THEN {h}
                  ELSE IF h.reader.read_len > 0 THEN try_read_body(h.reader, NullCtx)
                  ELSE {[res |-> Some(rd.read_buffer[1].frame.id, 0), reader |-> h.reader]}
      BY <2>2 DEF read_from_buffer
    <3> QED
      BY <1>2, <1>3, <1>4, <2>2, <3>1
  <2> QED
    BY <2>1, <2>2

(* read returns; only an error of the library is read on after. *)
LEMMA ReturnEffect ==
  ASSUME NEW res, ReadReturns(res)
  PROVE  /\ UNCHANGED <<write_queue, current_write, w_pc, link, events, now, next_id, written, gone>>
         /\ res.tag = "Some" => r_pc' = "ready" /\ delivered' = Append(delivered, res.id)
         /\ res.tag = "None" => r_pc' = "idle" /\ delivered' = delivered
         /\ res.tag = "Err" => r_pc' \in {"ready", "closed"} /\ delivered' = delivered
         /\ res.tag = "Err" /\ res.err # "Udt" => r_pc' = "closed"
BY UdtSockAssumption DEF ReadReturns, senderVars, UdtSockAssumption

(* The steps that look into the reader's buffer or end a call of read. *)
ReadStep == ReadBuffered \/ RecvWouldBlock \/ RecvZero \/ RecvErr

(* They look into the buffer, and go on with what they find there; or they  *)
(* leave the reader alone.                                                  *)
LEMMA ReadEffect ==
  ASSUME SockTypeOK, ReadStep
  PROVE  /\ UNCHANGED <<write_queue, current_write, w_pc, link, pipe, arrived, events, now, next_id,
                        written, gone>>
         /\ is_something_read' \in BOOLEAN /\ r_pc \in {"ready", "recv"}
         /\ r_pc' \in {"idle", "ready", "recv", "closed"}
         /\ \/ \E o \in read_from_buffer(read_state) :
                 /\ read_state' = o.reader
                 /\ \/ o.res = None /\ delivered' = delivered
                    \/ o.res.tag = "Err" /\ r_pc' = "closed" /\ delivered' = delivered
                    \/ o.res.tag = "Some" /\ delivered' = Append(delivered, o.res.id)
            \/ read_state' = read_state /\ delivered' = delivered
<1>1. /\ is_something_read \in BOOLEAN /\ FALSE \in BOOLEAN /\ read_state \in Readers(Frame)
  BY BufferTypes DEF SockTypeOK
<1>2. /\ None.tag = "None" /\ \A e : Err(e).tag = "Err" /\ Err(e).err = e
  BY Results
<1>3. CASE ReadBuffered
  <2>1. PICK o \in read_from_buffer(read_state) :
          /\ read_state' = o.reader
          /\ \/ o.res # None /\ ReadReturns(o.res)
             \/ /\ o.res = None /\ r_pc' = "recv"
                /\ UNCHANGED <<senderVars, link, events, now, next_id, written, delivered, gone>>
    BY <1>3 DEF ReadBuffered
  <2>2. r_pc = "ready" /\ UNCHANGED <<pipe, arrived, is_something_read>>
    BY <1>3 DEF ReadBuffered
  <2>3. o.res = None \/ (o.res.tag = "Err" /\ o.res.err # "Udt") \/ o.res.tag = "Some"
    BY <1>1, LookTypes
  <2>4. CASE o.res = None /\ r_pc' = "recv"
             /\ UNCHANGED <<senderVars, link, events, now, next_id, written, delivered, gone>>
    BY <1>1, <2>1, <2>2, <2>4 DEF senderVars
  <2>5. CASE o.res # None /\ ReadReturns(o.res)
    <3>1. /\ UNCHANGED <<write_queue, current_write, w_pc, link, events, now, next_id, written, gone>>
          /\ o.res.tag = "Some" => r_pc' = "ready" /\ delivered' = Append(delivered, o.res.id)
          /\ o.res.tag = "Err" /\ o.res.err # "Udt" => r_pc' = "closed" /\ delivered' = delivered
      BY <2>5, ReturnEffect
    <3> QED
      BY <1>1, <2>1, <2>2, <2>3, <2>5, <3>1
  <2> QED
    BY <2>1, <2>4, <2>5
<1>4. ASSUME NEW or, or.tag = "None" \/ or.tag = "Err", LoopEnds(or)
      PROVE  /\ UNCHANGED <<write_queue, current_write, w_pc, link, pipe, arrived, events, now,
                            next_id, written, gone>>
             /\ is_something_read' \in BOOLEAN /\ r_pc = "recv" /\ r_pc' \in {"idle", "ready", "closed"}
             /\ \/ \E o \in read_from_buffer(read_state) :
                     /\ read_state' = o.reader
                     /\ \/ o.res = None /\ delivered' = delivered
                        \/ o.res.tag = "Err" /\ r_pc' = "closed" /\ delivered' = delivered
                        \/ o.res.tag = "Some" /\ delivered' = Append(delivered, o.res.id)
                \/ read_state' = read_state /\ delivered' = delivered
  <2>1. r_pc = "recv" /\ is_something_read' = FALSE /\ UNCHANGED <<pipe, arrived>>
    BY <1>4 DEF LoopEnds
  <2>2. PICK o : /\ o \in IF is_something_read THEN read_from_buffer(read_state)
                          ELSE {[res |-> None, reader |-> read_state]}
                 /\ read_state' = o.reader
                 /\ ReadReturns(IF o.res = None THEN or ELSE o.res)
    BY <1>4 DEF LoopEnds
  <2>3. /\ UNCHANGED <<write_queue, current_write, w_pc, link, events, now, next_id, written, gone>>
    BY <2>2, ReturnEffect
  <2>4. CASE o.res = None
    <3>1. ReadReturns(or)
      BY <2>2, <2>4
    <3>2. r_pc' \in {"idle", "ready", "closed"} /\ delivered' = delivered
      BY <1>4, <3>1, ReturnEffect
    <3>3. o \in read_from_buffer(read_state) \/ read_state' = read_state
      BY <2>2
    <3> QED
      BY <2>1, <2>2, <2>3, <2>4, <3>2, <3>3
  <2>5. CASE o.res # None
    <3>1. ReadReturns(o.res)
      BY <2>2, <2>5
    <3>2. o \in read_from_buffer(read_state)
      BY <2>2, <2>5
    <3>3. (o.res.tag = "Err" /\ o.res.err # "Udt") \/ o.res.tag = "Some"
      BY <1>1, <2>5, <3>2, LookTypes
    <3>4. /\ o.res.tag = "Some" => r_pc' = "ready" /\ delivered' = Append(delivered, o.res.id)
          /\ o.res.tag = "Err" /\ o.res.err # "Udt" => r_pc' = "closed" /\ delivered' = delivered
      BY <3>1, ReturnEffect
    <3> QED
      BY <2>1, <2>2, <2>3, <3>2, <3>3, <3>4
  <2> QED
    BY <2>4, <2>5
<1>5. CASE RecvWouldBlock
  BY <1>2, <1>4, <1>5 DEF RecvWouldBlock
<1>6. CASE RecvZero
  BY <1>2, <1>4, <1>6 DEF RecvZero
<1>7. CASE RecvErr
  <2>1. r_pc = "recv" /\ is_something_read' = FALSE /\ UNCHANGED <<pipe, arrived, read_state>>
        /\ ReadReturns(Err("Udt"))
    BY <1>7 DEF RecvErr
  <2>2. /\ UNCHANGED <<write_queue, current_write, w_pc, link, events, now, next_id, written, gone>>
        /\ r_pc' \in {"ready", "closed"} /\ delivered' = delivered
    BY <1>2, <2>1, ReturnEffect
  <2> QED
    BY <2>1, <2>2
<1> QED
  BY <1>3, <1>5, <1>6, <1>7 DEF ReadStep

LEMMA ReadTypes ==
  ASSUME SendInv, ReadStep
  PROVE  SendInv'
<1>1. SockTypeOK /\ QueueInv /\ PlacesInv /\ read_state \in Readers(Frame) /\ delivered \in Seq(Nat)
  BY BufferTypes DEF SendInv, SockTypeOK
<1>2. /\ UNCHANGED <<write_queue, current_write, w_pc, link, pipe, arrived, events, now, next_id,
                     written, gone>>
      /\ is_something_read' \in BOOLEAN /\ r_pc' \in {"idle", "ready", "recv", "closed"}
  BY <1>1, ReadEffect
<1>3. read_state' \in Readers(Frame) /\ delivered' \in Seq(Nat)
  <2>1. CASE read_state' = read_state /\ delivered' = delivered
    BY <1>1, <2>1
  <2>2. ASSUME NEW o \in read_from_buffer(read_state), read_state' = o.reader,
               \/ o.res = None /\ delivered' = delivered
               \/ o.res.tag = "Err" /\ r_pc' = "closed" /\ delivered' = delivered
               \/ o.res.tag = "Some" /\ delivered' = Append(delivered, o.res.id)
        PROVE  read_state' \in Readers(Frame) /\ delivered' \in Seq(Nat)
    <3>1. /\ o.reader \in Readers(Frame)
          /\ o.res = None \/ o.res.tag = "Err" \/ (o.res.tag = "Some" /\ o.res.id \in Nat)
      BY <1>1, LookTypes
    <3>2. None.tag # "Some" /\ (o.res.tag = "Err" => o.res.tag # "Some")
      BY Results
    <3>3. delivered' = delivered \/ (o.res.id \in Nat /\ delivered' = Append(delivered, o.res.id))
      BY <2>2, <3>1, <3>2
    <3>4. \A i \in Nat : Append(delivered, i) \in Seq(Nat)
      BY <1>1, AppendProperties
    <3> QED
      BY <1>1, <2>2, <3>1, <3>3, <3>4
  <2> QED
    BY <1>1, <2>1, <2>2, ReadEffect
<1>4. SockTypeOK'
  <2>1. {current_write, pipe}' \subseteq Seq(Cell)
    BY <1>1, <1>2 DEF SockTypeOK
  <2>2. read_state' \in [read_buffer : Seq(Cell), read_len : Nat]
    BY <1>3, FrameShape DEF Readers
  <2> QED
    BY ZenonT(40), <1>1, <1>2, <1>3, <2>1, <2>2 DEF SockTypeOK
<1> QED
  BY <1>1, <1>2, <1>4, SenderSame DEF SendInv

-----------------------------------------------------------------------------
(* The invariant of the sockets' types, queues and places holds.            *)

LEMMA SendInit == Init => SendInv
<1> SUFFICES ASSUME Init PROVE SendInv
  OBVIOUS
<1>1. /\ write_queue = new /\ current_write = <<>> /\ w_pc = "idle"
      /\ link = "connecting" /\ pipe = <<>> /\ arrived = 0
      /\ read_state = [read_buffer |-> <<>>, read_len |-> 0] /\ is_something_read = FALSE
      /\ r_pc = "idle" /\ events = {} /\ now = 0
      /\ next_id = 1 /\ written = <<>> /\ delivered = <<>> /\ gone = {}
  BY DEF Init, InitSock, new_reader
<1>2. FrameQueue(new, Frame, 0) /\ QFrames(new) = {} /\ DOMAIN new = {}
  BY FrameShape, NewFrames
<1>3. QueueInv
  BY <1>1, <1>2 DEF QueueInv
<1>4. InProgress = {} /\ Done(written) = {} /\ Known = {}
  BY <1>1, <1>2 DEF InProgress, Done, Known
<1>5. PlacesInv
  BY <1>1, <1>2, <1>4 DEF PlacesInv
<1>6. SockTypeOK
  <2>1. DOMAIN write_queue \subseteq Priority
        /\ write_queue \in [DOMAIN write_queue -> Seq([at : Nat, msg : Seq(Cell)])]
    BY <1>1, <1>2, QueueType
  <2>2. /\ {current_write, pipe} \subseteq Seq(Cell) /\ written \in Seq(Frame)
        /\ delivered \in Seq(Nat) /\ read_state \in [read_buffer : Seq(Cell), read_len : Nat]
    BY <1>1
  <2>3. arrived \in 0 .. Len(pipe) /\ Len(pipe) <= Cap
    BY <1>1, UdtSockAssumption DEF UdtSockAssumption
  <2>4. now \in Nat /\ next_id \in Nat \ {0} /\ gone \subseteq Frame /\ events \subseteq {"snd", "rcv"}
    BY <1>1
  <2>6. is_something_read \in BOOLEAN
    BY <1>1
  <2>5. /\ w_pc \in {"idle", "flush", "closed"} /\ r_pc \in {"idle", "ready", "recv", "closed"}
        /\ link \in {"connecting", "up", "broken"}
    BY <1>1
  <2> QED
    BY <2>1, <2>2, <2>3, <2>4, <2>5, <2>6 DEF SockTypeOK
<1> QED
  BY <1>3, <1>5, <1>6 DEF SendInv

(* The steps of the connection, as the lemmas above take them. *)
LEMMA NextCases ==
  ASSUME [Next]_vars
  PROVE  \/ Evented \/ Thread \/ OnReadable \/ Establish \/ (\E n \in 1 .. Cap : Arrive(n))
         \/ Tick \/ FlushDone \/ UNCHANGED vars
         \/ (\E m \in Kinds : Write(m)) \/ WriteUnencodable \/ OnWritable
         \/ (\E n \in 1 .. Cap : FlushSend(n)) \/ FlushWouldBlock \/ FlushErr
         \/ DropSender \/ Break \/ RecvData \/ ReadStep
BY DEF Next, Reading, Writing, CloseSender, Environment, Library, Flush, Recv, ReadStep

LEMMA SendNext == SendInv /\ Loop!TypeOK /\ [Next]_vars => SendInv'
<1> SUFFICES ASSUME SendInv, Loop!TypeOK, [Next]_vars PROVE SendInv'
  OBVIOUS
<1>1. CASE \/ Evented \/ Thread \/ OnReadable \/ Establish \/ (\E n \in 1 .. Cap : Arrive(n))
           \/ Tick \/ FlushDone \/ UNCHANGED vars
  BY <1>1, StillStep
<1>2. CASE (\E m \in Kinds : Write(m)) \/ WriteUnencodable \/ OnWritable
  BY <1>2, WriteStep
<1>3. CASE (\E n \in 1 .. Cap : FlushSend(n)) \/ FlushWouldBlock \/ FlushErr
  BY <1>3, FlushSendStep, FlushKeptStep, FlushErrStep
<1>4. CASE DropSender \/ Break \/ RecvData \/ ReadStep
  BY <1>4, DropSenderStep, BreakStep, RecvDataStep, ReadTypes
<1> QED
  BY <1>1, <1>2, <1>3, <1>4, NextCases

(* The queue of the sending socket and the frame in hand are always as      *)
(* SendInv says.                                                            *)
THEOREM UdtInvariant == Spec => []SendInv
<1>1. SendInv /\ Loop!TypeOK /\ [Next]_vars => SendInv'
  BY SendNext
<1> QED
  BY <1>1, SendInit, LoopInsideCorrect, PTL DEF Spec

(* The variables of the sockets and of the loop have their types: the parts *)
(* of frames in the buffers of both ends and of the library, whatever comes *)
(* of reading them, the queue, and the calls of the Handle.                 *)
THEOREM UdtTypeCorrect == Spec => []TypeOK
<1>1. SendInv /\ Loop!TypeOK => TypeOK
  BY DEF SendInv, TypeOK
<1> QED
  BY <1>1, UdtInvariant, LoopInsideCorrect, PTL

-----------------------------------------------------------------------------
(* Delivery.                                                                *)

(* What it takes for every frame to be readable: without encryption a       *)
(* length that does not fit its header cannot be told from a shorter one.   *)
UdtDecodable == \A m \in Kinds : m.len < U32

(* The line holds the frames from where the reader stands on, whole but for *)
(* what the end of the connection cut off.  The bytes that had not arrived  *)
(* when it broke are lost, so frames written may be missing at its end.     *)
StreamInv ==
  /\ LineInv(Frame, Line, written, Live, InProgress)
  /\ Position(Line, written, Len(delivered), read_state.read_len, Live, FALSE)

ReadInv == DeliveredInOrder /\ (r_pc # "closed" => StreamInv)

(* What UdtDecodable says of the frames. *)
LEMMA FramesDecodable ==
  ASSUME UdtDecodable
  PROVE  Fits(Frame) /\ (\A V, i : Told(Frame, NullCtx, V, i))
<1>1. \A m \in Kinds : m.len \in Nat /\ m.len < U32
  BY UdtSockAssumption DEF UdtSockAssumption, UdtDecodable
<1>2. \A f \in Frame : f.len \in Nat /\ f.len < U32 /\ f.ctx = NullCtx
  BY <1>1 DEF Frame
<1>3. U32 \in Nat
  BY CryptoAssumption DEF CryptoAssumption
<1>4. \A n \in Nat : n < U32 => n % U32 = n
  BY <1>3
<1>5. Fits(Frame)
  BY <1>2, <1>4 DEF Fits
<1>6. \A f \in Frame : Tells(NullCtx, f)
  BY <1>2 DEF Tells
<1> QED
  BY <1>5, <1>6 DEF Told, Coming

(* The messages delivered stay a part of those written. *)
LEMMA WrittenGrows ==
  ASSUME SockTypeOK, DeliveredInOrder, delivered' = delivered,
         written' = written \/ \E f \in Frame : written' = Append(written, f)
  PROVE  DeliveredInOrder'
<1>1. /\ Len(delivered) <= Len(written) /\ Len(delivered) \in Nat /\ Len(written) \in Nat
      /\ \A i \in 1 .. Len(delivered) : delivered[i] = written[i].id
  BY DEF SockTypeOK, DeliveredInOrder
<1>2. Len(written) <= Len(written') /\ \A i \in 1 .. Len(written) : written'[i] = written[i]
  <2>1. CASE written' = written
    BY <1>1, <2>1
  <2>2. ASSUME NEW f \in Frame, written' = Append(written, f)
        PROVE  Len(written) <= Len(written') /\ \A i \in 1 .. Len(written) : written'[i] = written[i]
    <3>1. written \in Seq(Frame)
      BY DEF SockTypeOK
    <3>2. Len(written') = Len(written) + 1 /\ \A i \in 1 .. Len(written) : written'[i] = written[i]
      BY <2>2, <3>1, AppendProperties
    <3> QED
      BY <1>1, <3>2
  <2> QED
    BY <2>1, <2>2
<1>3. Len(delivered) <= Len(written') /\ Len(written') \in Nat
  <2>1. Len(written') \in Nat
    <3>1. written \in Seq(Frame)
      BY DEF SockTypeOK
    <3>2. \A f \in Frame : Len(Append(written, f)) = Len(written) + 1
      BY <3>1, AppendProperties
    <3> QED
      BY <1>1, <3>2
  <2> QED
    BY <1>1, <1>2, <2>1
<1>4. \A i \in 1 .. Len(delivered) : delivered[i] = written'[i].id
  BY <1>1, <1>2
<1> QED
  BY <1>3, <1>4 DEF DeliveredInOrder

(* The line with all of the frame that a turn of the loop finds to write.   *)
LEMMA FullLine ==
  ASSUME SendInv, StreamInv, Live, HasData
  PROVE  LET t == read_state.read_buffer \o (pipe \o Data)
             f == Data[1].frame
         IN  /\ LineInv(Frame, t, written, TRUE, {f}) /\ t # <<>>
             /\ Position(t, written, Len(delivered), read_state.read_len, TRUE, FALSE)
<1> DEFINE C == Cells(Frame)
           rb == read_state.read_buffer
           d == Data
           f == d[1].frame
           t == rb \o (pipe \o d)
           n == Len(delivered)
           len == read_state.read_len
           P(s) == Position(s, written, n, len, TRUE, FALSE)
<1>1. SockTypeOK /\ QueueInv /\ PlacesInv /\ Live = TRUE
  BY DEF SendInv, Live
<1>2. LineInv(Frame, Line, written, TRUE, InProgress) /\ P(Line)
  BY <1>1 DEF StreamInv
<1>3. /\ rb \in Seq(C) /\ pipe \in Seq(C) /\ d \in Seq(C) /\ FrameSet(Frame) /\ Line \in Seq(C)
      /\ IsRest(d, Frame) /\ f \notin Done(written)
  BY <1>1, BufferTypes, DataShape, FrameShape
<1>4. d # <<>>
  BY <1>3 DEF IsRest
<1>5. t = (rb \o pipe) \o d
  <2> HIDE DEF C, rb, d
  <2>0. rb \in Seq(C) /\ pipe \in Seq(C) /\ d \in Seq(C)
    BY <1>3
  <2>1. (rb \o pipe) \o d = rb \o (pipe \o d)
    BY SMTT(40), <2>0, ConcatAssociative
  <2> QED
    BY <2>1
<1>6. ASSUME current_write # <<>> PROVE LineInv(Frame, t, written, TRUE, {f}) /\ P(t)
  <2>1. Unsent = d /\ InProgress = {f}
    BY <1>1, <1>6, DataShape DEF Unsent
  <2>2. Line = t
    BY <2>1 DEF Line
  <2> HIDE DEF t, P, f
  <2> QED
    BY <1>2, <2>1, <2>2
<1>7. ASSUME current_write = <<>> PROVE LineInv(Frame, t, written, TRUE, {f}) /\ P(t)
  <2>1. Unsent = <<>> /\ InProgress = {} /\ d[1].k = 1
    BY <1>1, <1>7, DataShape DEF Unsent
  <2>2. Line = rb \o pipe
    <3>1. pipe \o Unsent = pipe
      BY <1>3, <2>1, ConcatEmptySeq
    <3> QED
      BY <3>1 DEF Line
  <2>3. t = Line \o d
    BY <1>5, <2>2
  <2> HIDE DEF t, n, len, d
  <2>4. LineInv(Frame, Line, written, TRUE, {})
    BY <1>2, <2>1
  <2>5. LineInv(Frame, Line \o d, written, TRUE, {d[1].frame})
    BY <1>3, <2>1, <2>4, LineBegin
  <2>6. FALSE \in BOOLEAN
    OBVIOUS
  <2>7. Position(Line \o d, written, n, len, TRUE, FALSE)
    BY <1>2, <1>3, <2>1, <2>6, PositionBegin DEF C
  <2> QED
    BY <2>3, <2>5, <2>7
<1>8. t # <<>>
  <2> HIDE DEF C, rb, d, t
  <2> DEFINE u == rb \o pipe
  <2>1. u \in Seq(C)
    BY <1>3, ConcatProperties
  <2>2. t = u \o d
    BY <1>5
  <2> HIDE DEF u
  <2>3. Len(u \o d) = Len(u) + Len(d) /\ Len(u) \in Nat /\ Len(d) \in Nat /\ u \o d \in Seq(C)
    BY <1>3, <2>1, ConcatParts
  <2>4. Len(d) # 0
    BY <1>3, <1>4
  <2>5. Len(u \o d) # 0
    BY <2>3, <2>4
  <2> QED
    BY <2>2, <2>3, <2>5
<1> QED
  BY <1>6, <1>7, <1>8
(* Steps that move no byte out of the line or into it. *)
LEMMA ReadSame ==
  ASSUME ReadInv, UNCHANGED <<written, delivered>>, r_pc' = "closed" <=> r_pc = "closed",
         Line' = Line, Live' = Live, read_state'.read_len = read_state.read_len,
         Live => InProgress' = InProgress
  PROVE  ReadInv'
<1>1. DeliveredInOrder'
  BY DEF ReadInv, DeliveredInOrder
<1>2. ASSUME StreamInv PROVE StreamInv'
  <2>1. LineInv(Frame, Line, written, Live, InProgress')
    BY <1>2 DEF StreamInv, LineInv
  <2> QED
    BY <1>2, <2>1 DEF StreamInv
<1> QED
  BY <1>1, <1>2 DEF ReadInv

LEMMA ReadStill ==
  ASSUME SendInv, ReadInv, Still
  PROVE  ReadInv'
<1>1. /\ UNCHANGED <<write_queue, current_write, pipe, read_state, next_id, written, delivered>>
      /\ r_pc' = "closed" <=> r_pc = "closed"
      /\ link = "broken" <=> link' = "broken"
      /\ w_pc = "closed" <=> w_pc' = "closed"
  BY DEF Still
<1>2. Live' = Live
  BY <1>1 DEF Live
<1>3. Line' = Line /\ InProgress' = InProgress
  BY <1>1, <1>2 DEF Line, Unsent, InProgress
<1> QED
  BY <1>1, <1>2, <1>3, ReadSame

LEMMA ReadWrite ==
  ASSUME SendInv, ReadInv, (\E m \in Kinds : Write(m)) \/ WriteUnencodable \/ OnWritable
  PROVE  ReadInv'
<1>1. /\ w_pc = "idle" /\ w_pc' # "closed"
      /\ UNCHANGED <<current_write, link, pipe, read_state, r_pc, written, delivered>>
  BY WriteStep
<1>2. Live' = Live
  BY <1>1 DEF Live
<1>3. Line' = Line /\ InProgress' = InProgress
  BY <1>1, <1>2 DEF Line, Unsent, InProgress
<1> QED
  BY <1>1, <1>2, <1>3, ReadSame

(* A turn of the loop that writes, keeps or loses the data. *)
LEMMA ReadFlush ==
  ASSUME SendInv, ReadInv, (\E n \in 1 .. Cap : FlushSend(n)) \/ FlushWouldBlock
  PROVE  ReadInv'
<1> DEFINE t == read_state.read_buffer \o (pipe \o Data)
           f == Data[1].frame
           n == Len(delivered)
           len == read_state.read_len
<1>1. /\ HasData /\ Live /\ Live' /\ Line' = t /\ UNCHANGED <<read_state, r_pc, delivered>>
      /\ \/ written' = Append(written, f) /\ InProgress' = {}
         \/ written' = written /\ InProgress' = {f}
  BY FlushSendStep, FlushKeptStep
<1>2. f \in Frame /\ f \notin Done(written) /\ FrameSet(Frame)
  BY <1>1, DataShape, FrameShape DEF SendInv
<1>3. DeliveredInOrder'
  <2> HIDE DEF f, t
  <2>1. written' = written \/ \E g \in Frame : written' = Append(written, g)
    BY <1>1, <1>2
  <2> QED
    BY <1>1, <2>1, WrittenGrows DEF SendInv, ReadInv
<1>4. ASSUME r_pc # "closed" PROVE StreamInv'
  <2>1. StreamInv
    BY <1>4 DEF ReadInv
  <2>2. LineInv(Frame, t, written, TRUE, {f}) /\ t # <<>> /\ Position(t, written, n, len, TRUE, FALSE)
    BY <1>1, <2>1, FullLine
  <2> HIDE DEF t, f, n, len
  <2>3. LineInv(Frame, t, Append(written, f), TRUE, {})
    BY <1>2, <2>2, LineComplete
  <2>4. Position(t, Append(written, f), n, len, TRUE, FALSE)
    <3>1. FALSE \in BOOLEAN
      OBVIOUS
    <3> QED
      BY <1>2, <2>2, <3>1, PositionComplete
  <2>5. Live' = TRUE
    BY <1>1 DEF Live
  <2>6. LineInv(Frame, Line', written', TRUE, InProgress')
    BY <1>1, <2>2, <2>3
  <2>7. Position(Line', written', n, len, TRUE, FALSE)
    BY <1>1, <2>2, <2>4
  <2> QED
    BY <1>1, <2>5, <2>6, <2>7 DEF StreamInv, n, len
<1> QED
  BY <1>1, <1>3, <1>4 DEF ReadInv

LEMMA ReadFlushErr ==
  ASSUME SendInv, ReadInv, FlushErr
  PROVE  ReadInv'
<1>1. /\ ~Live /\ ~Live' /\ Line' = Line /\ written' = written
      /\ UNCHANGED <<read_state, r_pc, delivered>>
  BY FlushErrStep
<1>2. Live = FALSE /\ Live' = FALSE
  BY <1>1 DEF Live
<1> QED
  BY <1>1, <1>2, ReadSame

(* The connection ends: what is left of the line is a front of it, which    *)
(* ends in what was in the library or before that.                          *)
LEMMA CutLine ==
  ASSUME SockTypeOK, UNCHANGED read_state, Unsent' = <<>>,
         \/ pipe' = pipe
         \/ arrived \in 0 .. Len(pipe) /\ pipe' = SubSeq(pipe, 1, arrived)
  PROVE  \E k \in 0 .. Len(Line) : Line' = SubSeq(Line, 1, k) /\ (Unsent # <<>> => k # Len(Line))
<1> DEFINE C == Cells(Frame)
           rb == read_state.read_buffer
           u == Unsent
           k0 == IF pipe' = pipe THEN Len(pipe) ELSE arrived
           a == SubSeq(pipe, 1, k0)
           e == SubSeq(pipe, k0 + 1, Len(pipe))
           d == e \o u
           p == rb \o a
<1>1. rb \in Seq(C) /\ pipe \in Seq(C) /\ u \in Seq(C)
  BY BufferTypes
<1> HIDE DEF C, rb, u
<1>2. k0 \in 0 .. Len(pipe)
  <2>1. Len(pipe) \in Nat
    BY <1>1
  <2> QED
    BY <2>1
<1>3. pipe' = a
  <2>1. SubSeq(pipe, 1, Len(pipe)) = pipe
    BY <1>1
  <2> QED
    BY <2>1
<1> HIDE DEF k0
<1>4. a \in Seq(C) /\ e \in Seq(C) /\ a \o e = pipe
  BY <1>1, <1>2, PartShape
<1> HIDE DEF a, e
<1>5. p \in Seq(C) /\ d \in Seq(C)
  BY <1>1, <1>4, ConcatProperties
<1>6. Line' = p
  <2>1. a \o <<>> = a
    BY <1>4, ConcatEmptySeq
  <2>2. Line' = rb \o (a \o <<>>)
    BY <1>3 DEF Line, rb
  <2> QED
    BY <2>1, <2>2
<1>7. Line = p \o d
  <2>1. Buffers(C, rb, a, e, u)
    BY <1>1, <1>4 DEF Buffers
  <2>2. (rb \o a) \o (e \o u) = rb \o ((a \o e) \o u)
    BY SMTT(30), <2>1, MoveBytes
  <2> QED
    BY <1>4, <2>2 DEF Line, rb, u
<1>8. u # <<>> => d # <<>>
  <2>1. Len(d) = Len(e) + Len(u) /\ Len(e) \in Nat /\ Len(u) \in Nat
    BY <1>1, <1>4, ConcatParts
  <2>2. u # <<>> => Len(u) # 0
    BY <1>1
  <2> HIDE DEF d
  <2>3. u # <<>> => Len(d) # 0
    BY <2>1, <2>2
  <2>4. d # <<>> \/ Len(d) = 0
    OBVIOUS
  <2> QED
    BY <2>3, <2>4
<1> HIDE DEF p, d
<1>9. PICK k : IsFront(p, p \o d, d, k)
  BY <1>5, LinePrefix
<1>10. k \in 0 .. Len(Line) /\ Line' = SubSeq(Line, 1, k) /\ (u # <<>> => k # Len(Line))
  BY <1>6, <1>7, <1>8, <1>9 DEF IsFront
<1> QED
  BY <1>10 DEF u

LEMMA ReadCut ==
  ASSUME SendInv, ReadInv, DropSender \/ Break
  PROVE  ReadInv'
<1>1. SockTypeOK /\ FrameSet(Frame)
  BY FrameShape DEF SendInv
<1>2. /\ Live' = FALSE /\ Unsent' = <<>> /\ UNCHANGED <<read_state, r_pc, written, delivered>>
      /\ \/ pipe' = pipe
         \/ arrived \in 0 .. Len(pipe) /\ pipe' = SubSeq(pipe, 1, arrived)
  BY DropSenderStep, BreakStep
<1>3. DeliveredInOrder'
  BY <1>2 DEF ReadInv, DeliveredInOrder
<1>4. Live \in BOOLEAN /\ (Live /\ InProgress # {} => Unsent # <<>>)
  BY DEF Live, Unsent, InProgress
<1>5. Line \in Seq(Cells(Frame))
  BY <1>1, BufferTypes
<1>6. ASSUME r_pc # "closed" PROVE StreamInv'
  <2>1. LineInv(Frame, Line, written, Live, InProgress)
    BY <1>6 DEF ReadInv, StreamInv
  <2>2. PICK k \in 0 .. Len(Line) : Line' = SubSeq(Line, 1, k) /\ (Unsent # <<>> => k # Len(Line))
    BY <1>1, <1>2, CutLine
  <2>3. Live /\ InProgress # {} => k # Len(Line)
    BY <1>4, <2>2
  <2>4. LineInv(Frame, SubSeq(Line, 1, k), written, FALSE, InProgress')
    BY <1>1, <1>4, <2>1, <2>3, LineCut
  <2> DEFINE n == Len(delivered)
             len == read_state.read_len
  <2>5. Position(Line, written, n, len, Live, FALSE)
    BY <1>6 DEF ReadInv, StreamInv
  <2> HIDE DEF n, len
  <2>6. Position(SubSeq(Line, 1, k), written, n, len, FALSE, FALSE)
    <3>1. FALSE \in BOOLEAN
      OBVIOUS
    <3> QED
      BY <1>4, <1>5, <2>5, <3>1, PositionCut
  <2> QED
    BY <1>2, <2>2, <2>4, <2>6 DEF StreamInv, n, len
<1> QED
  BY <1>2, <1>3, <1>6 DEF ReadInv

(* recv hands bytes to the reader. *)
LEMMA ReadData ==
  ASSUME SendInv, ReadInv, RecvData
  PROVE  ReadInv'
<1>1. /\ Line' = Line /\ Live' = Live /\ InProgress' = InProgress
      /\ read_state'.read_len = read_state.read_len /\ UNCHANGED <<r_pc, written, delivered>>
  BY RecvDataStep
<1> QED
  BY <1>1, ReadSame
(* The line as the reader sees it: its buffer, and the bytes behind. *)
Behind == pipe \o Unsent

ReaderStands(rd, n) == Stands(Frame, rd, Behind, written, n, Live, InProgress, FALSE)

LEMMA StandsNow ==
  ASSUME SendInv, StreamInv
  PROVE  ReaderStands(read_state, Len(delivered))
<1> DEFINE C == Cells(Frame)
<1>1. SockTypeOK
  BY DEF SendInv
<1>2. /\ read_state \in Readers(Frame) /\ Behind \in Seq(C)
      /\ Line = read_state.read_buffer \o Behind
      /\ pipe \in Seq(C) /\ Unsent \in Seq(C)
  BY <1>1, BufferTypes DEF Behind, Line
<1>3. ASSUME Live, InProgress # {} PROVE Behind # <<>>
  <2>1. Unsent # <<>>
    BY <1>3 DEF Unsent, InProgress
  <2> HIDE DEF C
  <2>2. Len(pipe \o Unsent) = Len(pipe) + Len(Unsent) /\ Len(pipe) \in Nat /\ Len(Unsent) \in Nat
    BY <1>2, ConcatParts
  <2>3. Len(Unsent) # 0
    BY <1>2, <2>1
  <2>4. Len(Behind) # 0
    BY <2>2, <2>3 DEF Behind
  <2> QED
    BY <1>2, <2>4
<1>4. LineInv(Frame, read_state.read_buffer \o Behind, written, Live, InProgress)
  BY <1>2 DEF StreamInv
<1>5. Position(read_state.read_buffer \o Behind, written, Len(delivered), read_state.read_len, Live, FALSE)
  BY <1>2 DEF StreamInv
<1> HIDE DEF Behind
<1> QED
  BY <1>2, <1>3, <1>4, <1>5 DEF ReaderStands, Stands

(* ... and after a call that took something off the buffer. *)
LEMMA StandsNext ==
  ASSUME UNCHANGED <<pipe, current_write, w_pc, link, written>>,
         ReaderStands(read_state', Len(delivered'))
  PROVE  StreamInv'
<1>1. Live' = Live /\ InProgress' = InProgress
  BY DEF Live, InProgress
<1>2. Line' = read_state'.read_buffer \o Behind
  BY <1>1 DEF Line, Unsent, Behind
<1> HIDE DEF Behind
<1>3. /\ LineInv(Frame, read_state'.read_buffer \o Behind, written, Live, InProgress)
      /\ Position(read_state'.read_buffer \o Behind, written, Len(delivered'),
                  read_state'.read_len, Live, FALSE)
  BY DEF ReaderStands, Stands
<1>4. LineInv(Frame, Line', written', Live', InProgress')
  BY <1>1, <1>2, <1>3
<1>5. Position(Line', written', Len(delivered'), read_state'.read_len, Live', FALSE)
  BY <1>1, <1>2, <1>3
<1> QED
  BY <1>4, <1>5 DEF StreamInv

(* One look into the reader's buffer: what it returns is the next message   *)
(* written, be it empty.                                                    *)
LEMMA LookStands ==
  ASSUME FrameSet(Frame), Fits(Frame), \A V, i : Told(Frame, NullCtx, V, i),
         NEW rd, NEW q, NEW W, NEW n, NEW live \in BOOLEAN, NEW P, NEW whole \in BOOLEAN,
         Stands(Frame, rd, q, W, n, live, P, whole), NEW o \in read_from_buffer(rd)
  PROVE  \/ o.res = None /\ Stands(Frame, o.reader, q, W, n, live, P, whole)
         \/ o.res.tag = "Err"
         \/ /\ n + 1 \in 1 .. Len(W) /\ o.res.tag = "Some" /\ o.res.id = W[n + 1].id
            /\ Stands(Frame, o.reader, q, W, n + 1, live, P, whole)
<1> DEFINE b == rd.read_buffer
<1>3. rd.read_len \in Nat /\ Len(b) \in Nat
  BY DEF Stands, Readers
<1>4. encrypted_size_len(NullCtx) = SERIALIZED_U32_LEN
  BY DEF encrypted_size_len
<1> HIDE DEF b
<1>5. ASSUME NEW g, g.read_len # 0, Stands(Frame, g, q, W, n, live, P, whole),
             NEW r \in try_read_body(g, NullCtx)
      PROVE  \/ r.res = None /\ Stands(Frame, r.reader, q, W, n, live, P, whole)
             \/ r.res.tag = "Err"
             \/ /\ n + 1 \in 1 .. Len(W) /\ r.res.tag = "Some" /\ r.res.id = W[n + 1].id
                /\ Stands(Frame, r.reader, q, W, n + 1, live, P, whole)
  <2>1. \/ r.res = None /\ r.reader = g /\ Starved(g, NullCtx)
        \/ r.res = Err("Crypto") /\ r.reader = g
        \/ /\ n + 1 \in 1 .. Len(W) /\ r.res = Some(W[n + 1].id, W[n + 1].len)
           /\ Stands(Frame, r.reader, q, W, n + 1, live, P, whole)
    <3>1. Told(Frame, NullCtx, W, n)
      OBVIOUS
    <3> QED
      BY <1>5, <3>1, BodyStep
  <2>2. r.res = Err("Crypto") => r.res.tag = "Err"
    BY Results
  <2>3. r.res = Some(W[n + 1].id, W[n + 1].len) => r.res.tag = "Some" /\ r.res.id = W[n + 1].id
    BY Results
  <2> QED
    BY <1>5, <2>1, <2>2, <2>3
<1>6. CASE rd.read_len # 0
  <2>1. o \in try_read(rd, NullCtx)
    BY <1>6 DEF read_from_buffer
  <2>2. o \in try_read_body(rd, NullCtx)
    BY <1>6, <2>1, ReadOutcome
  <2> QED
    BY <1>5, <1>6, <2>2
<1>7. CASE rd.read_len = 0 /\ Len(b) < SERIALIZED_U32_LEN
  <2>1. o \in try_read(rd, NullCtx)
    BY <1>7 DEF read_from_buffer, b
  <2>2. Starved(rd, NullCtx)
    BY <1>4, <1>7 DEF Starved, b
  <2>3. o.res = None /\ o.reader = rd
    BY <1>3, <2>1, <2>2, StarvedNone DEF b
  <2> QED
    BY <2>3
<1>8. CASE rd.read_len = 0 /\ ~(Len(b) < SERIALIZED_U32_LEN)
  <2>1. PICK h \in try_read_header(rd, NullCtx) :
          o \in IF h.res # None THEN {h}
                ELSE IF h.reader.read_len > 0 THEN try_read_body(h.reader, NullCtx)
                ELSE {[res |-> Some(b[1].frame.id, 0), reader |-> h.reader]}
    BY <1>8 DEF read_from_buffer, b
  <2>2. rd.read_len = 0
    BY <1>8
  <2>3. \/ h.res = None /\ h.reader = rd /\ Starved(rd, NullCtx)
        \/ h.res = Err("Crypto") /\ h.reader = rd
        \/ h.res = Err("PayloadSizeProhibitive")
        \/ /\ h.res = None /\ h.reader.read_len > 0
           /\ Stands(Frame, h.reader, q, W, n, live, P, whole)
        \/ /\ h.res = None /\ h.reader.read_len = 0 /\ rd.read_buffer # <<>>
           /\ n + 1 \in 1 .. Len(W) /\ rd.read_buffer[1].frame = W[n + 1] /\ W[n + 1].len = 0
           /\ Stands(Frame, h.reader, q, W, n + 1, live, P, whole)
    <3>1. Told(Frame, NullCtx, W, n)
      OBVIOUS
    <3> QED
      BY <2>2, <3>1, HeaderCases
  <2>4. ~Starved(rd, NullCtx)
    BY <1>4, <1>8 DEF Starved, b
  <2>5. CASE h.res \in {Err("Crypto"), Err("PayloadSizeProhibitive")}
    <3>1. o = h /\ o.res.tag = "Err"
      BY <2>1, <2>5, Results
    <3> QED
      BY <3>1
  <2>6. CASE /\ h.res = None /\ h.reader.read_len > 0
             /\ Stands(Frame, h.reader, q, W, n, live, P, whole)
    <3>1. o \in try_read_body(h.reader, NullCtx)
      BY <2>1, <2>6
    <3>2. h.reader.read_len # 0
      <4>1. h.reader.read_len \in Nat /\ h.reader.read_len > 0
        BY <2>6 DEF Stands, Readers
      <4> QED
        BY <4>1
    <3> QED
      BY <1>5, <2>6, <3>1, <3>2
  <2>7. CASE /\ h.res = None /\ h.reader.read_len = 0
             /\ n + 1 \in 1 .. Len(W) /\ rd.read_buffer[1].frame = W[n + 1]
             /\ Stands(Frame, h.reader, q, W, n + 1, live, P, whole)
    <3>1. o = [res |-> Some(b[1].frame.id, 0), reader |-> h.reader]
      BY <2>1, <2>7
    <3>2. o.res = Some(b[1].frame.id, 0) /\ o.reader = h.reader
      BY <3>1
    <3>3. o.res.tag = "Some" /\ o.res.id = b[1].frame.id
      BY <3>2, Results
    <3>4. b[1].frame = W[n + 1]
      BY <2>7 DEF b
    <3>5. o.res.id = W[n + 1].id
      BY <3>3, <3>4
    <3> QED
      BY <2>7, <3>2, <3>3, <3>5
  <2> QED
    BY <2>3, <2>4, <2>5, <2>6, <2>7
<1> QED
  BY <1>3, <1>6, <1>7, <1>8

LEMMA ReadOnce ==
  ASSUME UdtDecodable, SendInv, StreamInv, NEW o \in read_from_buffer(read_state)
  PROVE  LET n == Len(delivered)
         IN  \/ o.res = None /\ ReaderStands(o.reader, n)
             \/ o.res.tag = "Err"
             \/ /\ n + 1 \in 1 .. Len(written)
                /\ o.res.tag = "Some" /\ o.res.id = written[n + 1].id
                /\ ReaderStands(o.reader, n + 1)
<1> DEFINE n == Len(delivered)
           w == FALSE
<1>1. /\ FrameSet(Frame) /\ Live \in BOOLEAN /\ w \in BOOLEAN
      /\ Fits(Frame) /\ \A V, i : Told(Frame, NullCtx, V, i)
  BY FrameShape, FramesDecodable DEF Live
<1>2. Stands(Frame, read_state, Behind, written, n, Live, InProgress, w)
  BY StandsNow DEF ReaderStands
<1> HIDE DEF n, w
<1>3. \/ o.res = None /\ Stands(Frame, o.reader, Behind, written, n, Live, InProgress, w)
      \/ o.res.tag = "Err"
      \/ /\ n + 1 \in 1 .. Len(written) /\ o.res.tag = "Some" /\ o.res.id = written[n + 1].id
         /\ Stands(Frame, o.reader, Behind, written, n + 1, Live, InProgress, w)
  BY <1>1, <1>2, LookStands
<1> QED
  BY <1>3 DEF ReaderStands, n, w

(* The message returned is the next one.                                    *)
LEMMA OneMore ==
  ASSUME SockTypeOK, DeliveredInOrder, UNCHANGED written, NEW n, n = Len(delivered),
         n + 1 \in 1 .. Len(written), delivered' = Append(delivered, written[n + 1].id)
  PROVE  DeliveredInOrder' /\ Len(delivered') = n + 1
<1> DEFINE m(i) == written[i].id
           x == m(n + 1)
           d == Append(delivered, x)
<1>1. /\ delivered \in Seq(Nat) /\ n \in Nat /\ written[n + 1] \in Frame
      /\ \A i \in 1 .. n : delivered[i] = m(i)
  BY DEF SockTypeOK, DeliveredInOrder
<1>2. x \in Nat
  BY <1>1, FrameShape DEF FrameSet
<1>4. delivered' = d
  OBVIOUS
<1> HIDE DEF x
<1>3. Len(d) = n + 1 /\ d[n + 1] = x /\ \A i \in 1 .. n : d[i] = delivered[i]
  BY <1>1, <1>2, AppendProperties
<1> HIDE DEF d, m
<1>5. \A i \in 1 .. n + 1 : d[i] = m(i)
  <2> SUFFICES ASSUME NEW i \in 1 .. n + 1 PROVE d[i] = m(i)
    OBVIOUS
  <2>1. i \in 1 .. n \/ i = n + 1
    BY <1>1
  <2> QED
    BY <1>1, <1>3, <2>1 DEF x
<1>6. n + 1 <= Len(written)
  OBVIOUS
<1>7. Len(delivered') = n + 1 /\ \A i \in 1 .. n + 1 : delivered'[i] = m(i)
  BY <1>3, <1>4, <1>5
<1> QED
  BY <1>6, <1>7 DEF m, DeliveredInOrder

(* A look into the buffer, as a step: nothing, the end, or the next message. *)
LEMMA ReadRead ==
  ASSUME UdtDecodable, SendInv, ReadInv, ReadStep
  PROVE  /\ ReadInv'
         /\ \/ delivered' = delivered
            \/ Len(delivered') = Len(delivered) + 1 /\ Len(delivered) < Len(written)
<1> DEFINE n == Len(delivered)
<1>1. SockTypeOK /\ DeliveredInOrder
  BY DEF SendInv, ReadInv
<1>2. /\ UNCHANGED <<write_queue, current_write, w_pc, link, pipe, written>>
      /\ r_pc \in {"ready", "recv"}
      /\ \/ \E o \in read_from_buffer(read_state) :
              /\ read_state' = o.reader
              /\ \/ o.res = None /\ delivered' = delivered
                 \/ o.res.tag = "Err" /\ r_pc' = "closed" /\ delivered' = delivered
                 \/ o.res.tag = "Some" /\ delivered' = Append(delivered, o.res.id)
         \/ read_state' = read_state /\ delivered' = delivered
  BY <1>1, ReadEffect
<1>3. StreamInv
  BY <1>2 DEF ReadInv
<1>4. n \in Nat /\ Len(written) \in Nat
  BY <1>1 DEF SockTypeOK
<1>5. delivered' = delivered => DeliveredInOrder'
  BY <1>1, <1>2 DEF DeliveredInOrder
<1> HIDE DEF n
<1>6. CASE read_state' = read_state /\ delivered' = delivered
  <2>1. ReaderStands(read_state, Len(delivered))
    BY <1>3, StandsNow
  <2>2. ReaderStands(read_state', Len(delivered'))
    BY <1>6, <2>1
  <2>3. StreamInv'
    BY <1>2, <2>2, StandsNext
  <2> QED
    BY <1>5, <1>6, <2>3 DEF ReadInv
<1>7. ASSUME NEW o \in read_from_buffer(read_state), read_state' = o.reader,
             \/ o.res = None /\ delivered' = delivered
             \/ o.res.tag = "Err" /\ r_pc' = "closed" /\ delivered' = delivered
             \/ o.res.tag = "Some" /\ delivered' = Append(delivered, o.res.id)
      PROVE  /\ ReadInv'
             /\ delivered' = delivered \/ (Len(delivered') = n + 1 /\ n < Len(written))
  <2>1. \/ o.res = None /\ ReaderStands(o.reader, n)
        \/ o.res.tag = "Err"
        \/ /\ n + 1 \in 1 .. Len(written)
           /\ o.res.tag = "Some" /\ o.res.id = written[n + 1].id
           /\ ReaderStands(o.reader, n + 1)
    BY <1>3, <1>7, ReadOnce DEF n
  <2>2. None.tag = "None"
    BY Results
  <2>3. CASE o.res = None /\ ReaderStands(o.reader, n)
    <3>1. delivered' = delivered
      BY <1>7, <2>2, <2>3
    <3>2. ReaderStands(read_state', Len(delivered'))
      BY <1>7, <2>3, <3>1 DEF n
    <3>3. StreamInv'
      BY <1>2, <3>2, StandsNext
    <3> QED
      BY <1>5, <3>1, <3>3 DEF ReadInv
  <2>4. CASE o.res.tag = "Err"
    <3>1. r_pc' = "closed" /\ delivered' = delivered
      BY <1>7, <2>2, <2>4
    <3> QED
      BY <1>5, <3>1 DEF ReadInv
  <2>5. CASE /\ n + 1 \in 1 .. Len(written)
             /\ o.res.tag = "Some" /\ o.res.id = written[n + 1].id
             /\ ReaderStands(o.reader, n + 1)
    <3>1. delivered' = Append(delivered, written[n + 1].id)
      BY <1>7, <2>2, <2>5
    <3>2. DeliveredInOrder' /\ Len(delivered') = n + 1
      BY <1>1, <1>2, <2>5, <3>1, OneMore DEF n
    <3>3. ReaderStands(read_state', Len(delivered'))
      BY <1>7, <2>5, <3>2
    <3>4. StreamInv'
      BY <1>2, <3>3, StandsNext
    <3>5. n < Len(written)
      BY <1>4, <2>5
    <3> QED
      BY <3>2, <3>4, <3>5 DEF ReadInv
  <2> QED
    BY <2>1, <2>3, <2>4, <2>5
<1> QED
  BY <1>2, <1>6, <1>7 DEF n
-----------------------------------------------------------------------------
(* The invariant of the receiver holds.                                     *)

LEMMA ReadInit == Init => ReadInv
<1> SUFFICES ASSUME Init PROVE ReadInv
  OBVIOUS
<1>1. /\ write_queue = new /\ current_write = <<>> /\ w_pc = "idle"
      /\ link = "connecting" /\ pipe = <<>>
      /\ read_state = [read_buffer |-> <<>>, read_len |-> 0]
      /\ written = <<>> /\ delivered = <<>>
  BY DEF Init, InitSock, new_reader
<1>2. /\ Len(written) = 0 /\ Len(delivered) = 0
      /\ read_state.read_len = 0 /\ read_state.read_buffer = <<>>
  BY <1>1
<1>3. DeliveredInOrder
  BY <1>2 DEF DeliveredInOrder
<1>4. Line = <<>> /\ InProgress = {}
  <2>1. <<>> \in Seq({}) /\ <<>> \o <<>> = <<>>
    BY ConcatEmptySeq
  <2>2. Unsent = <<>> /\ InProgress = {}
    BY <1>1 DEF Unsent, InProgress
  <2> QED
    BY <1>1, <1>2, <2>1, <2>2 DEF Line
<1>5. LineInv(Frame, Line, written, Live, InProgress)
  <2>1. Len(Line) = 0 /\ Done(written) = {}
    BY <1>1, <1>2, <1>4 DEF Done
  <2>2. Unbroken(Line) /\ Chained(Line, written, Live) /\ EndsWhole(Line, written, InProgress)
    BY <1>4, <2>1 DEF Unbroken, Chained, EndsWhole
  <2>3. Line \in Seq(Cells(Frame)) /\ written \in Seq(Frame)
    BY <1>1, <1>4
  <2> QED
    BY <1>2, <2>2, <2>3 DEF LineInv
<1>6. Position(Line, written, Len(delivered), read_state.read_len, Live, FALSE)
  <2>1. max_payload_size \in Nat
    BY ReaderAssumption DEF ReaderAssumption
  <2> QED
    BY <1>2, <1>4, <2>1 DEF Position
<1> QED
  BY <1>3, <1>5, <1>6 DEF ReadInv, StreamInv

LEMMA ReadNext ==
  UdtDecodable /\ SendInv /\ ReadInv /\ Loop!TypeOK /\ [Next]_vars => ReadInv'
<1> SUFFICES ASSUME UdtDecodable, SendInv, ReadInv, Loop!TypeOK, [Next]_vars PROVE ReadInv'
  OBVIOUS
<1>1. CASE \/ Evented \/ Thread \/ OnReadable \/ Establish \/ (\E n \in 1 .. Cap : Arrive(n))
           \/ Tick \/ FlushDone \/ UNCHANGED vars
  <2>1. Still
    BY <1>1, StillCases DEF SendInv
  <2> QED
    BY <2>1, ReadStill
<1>2. CASE (\E m \in Kinds : Write(m)) \/ WriteUnencodable \/ OnWritable
  BY <1>2, ReadWrite
<1>3. CASE (\E n \in 1 .. Cap : FlushSend(n)) \/ FlushWouldBlock \/ FlushErr
  BY <1>3, ReadFlush, ReadFlushErr
<1>4. CASE DropSender \/ Break \/ RecvData \/ ReadStep
  BY <1>4, ReadCut, ReadData, ReadRead
<1> QED
  BY <1>1, <1>2, <1>3, <1>4, NextCases

(* The reader always stands at the next message, until its socket is        *)
(* dropped.                                                                 *)
THEOREM UdtReaderInvariant == ASSUME UdtDecodable PROVE Spec => [](SendInv /\ ReadInv)
<1>1. Init => ReadInv
  BY ReadInit
<1>2. SendInv /\ ReadInv /\ Loop!TypeOK /\ [Next]_vars => ReadInv'
  BY ReadNext
<1> QED
  BY <1>1, <1>2, UdtInvariant, LoopInsideCorrect, PTL DEF Spec

(* read returns the messages written, empty ones too, each once, in the     *)
(* order of their frames, in whatever pieces the library hands them over    *)
(* and whenever the connection breaks.                                      *)
THEOREM UdtDeliveryCorrect == ASSUME UdtDecodable PROVE Spec => []DeliveredInOrder
<1>1. SendInv /\ ReadInv => DeliveredInOrder
  BY DEF ReadInv
<1> QED
  BY <1>1, UdtReaderInvariant, PTL

-----------------------------------------------------------------------------
(* The connection implements MsgChannel.                                    *)

(* The frames accepted that are not written: queued, or being written. *)
Waiting == QFrames(write_queue) \cup InProgress

Broken == link = "broken" \/ w_pc = "closed"

(* The frame being written goes before those of its priority. *)
OrderInv ==
  \A f \in InProgress : \A g \in QFrames(write_queue) : g.priority = f.priority => f.id < g.id

(* The frame a turn takes goes before those of its priority that stay. *)
LEMMA DataOldest ==
  ASSUME SendInv, OrderInv, HasData
  PROVE  \A g \in QFrames(QueueWithoutData) :
           g.priority = Data[1].frame.priority => Data[1].frame.id < g.id
<1> DEFINE d == Data
           r == QueueWithoutData
           n == next_id - 1
<1>1. n \in Nat /\ FrameQueue(write_queue, Frame, n) /\ FrameSet(Frame)
  BY IdBelow, FrameShape DEF SendInv, QueueInv
<1>2. CASE current_write # <<>>
  <2>1. d = current_write /\ r = write_queue /\ InProgress = {d[1].frame}
    BY <1>2 DEF Data, QueueWithoutData, InProgress
  <2> HIDE DEF d, r
  <2>2. \A g \in QFrames(r) : g.priority = d[1].frame.priority => d[1].frame.id < g.id
    BY <2>1 DEF OrderInv
  <2> QED
    BY <2>2 DEF d, r
<1>3. CASE current_write = <<>>
  <2>1. DOMAIN write_queue # {} /\ d = next_msg(write_queue) /\ r = after_next_msg(write_queue)
    BY <1>3 DEF HasData, Data, QueueWithoutData
  <2> HIDE DEF d, r, n
  <2>2. /\ QFrames(r) = QFrames(write_queue) \ {d[1].frame}
        /\ \A g \in QFrames(write_queue) :
             g.priority = d[1].frame.priority => g = d[1].frame \/ d[1].frame.id < g.id
    BY <1>1, <2>1, NextFrames
  <2>3. \A g \in QFrames(r) : g.priority = d[1].frame.priority => d[1].frame.id < g.id
    BY <2>2
  <2> QED
    BY <2>3 DEF d, r
<1> QED
  BY <1>2, <1>3

(* A call of write: droppable frames go, and the frame of a new message     *)
(* waits.                                                                   *)
LEMMA WaitingWrite ==
  ASSUME SendInv, OrderInv, NEW m \in Kinds, Write(m)
  PROVE  /\ \E f \in Frame, drop \in SUBSET {g \in Waiting : g.priority >= msg_drop_priority} :
              f.id = next_id /\ f.priority = m.priority /\ Waiting' = (Waiting \ drop) \cup {f}
         /\ next_id' = next_id + 1 /\ OrderInv'
         /\ UNCHANGED <<written, delivered>> /\ Broken' = Broken
<1> DEFINE n == next_id - 1
           f == [id |-> next_id, priority |-> m.priority, len |-> m.len, ctx |-> NullCtx]
           drop == QFrames(write_queue) \ QFrames(Kept)
<1>1. /\ SockTypeOK /\ QueueInv /\ PlacesInv
      /\ n \in Nat /\ next_id = n + 1 /\ next_id \in Nat \ {0} /\ now \in Nat
  BY IdBelow DEF SendInv, SockTypeOK
<1>2. /\ write_queue' = push_at(Kept, now, serialize_with_len(f), m.priority)
      /\ next_id' = next_id + 1 /\ w_pc = "idle" /\ w_pc' = "flush"
      /\ UNCHANGED <<current_write, written, delivered, link>>
  BY DEF Write, StartWrite, libVars
<1>3. /\ FrameQueue(Kept, Frame, n) /\ QFrames(Kept) \subseteq QFrames(write_queue) /\ FrameSet(Frame)
      /\ \A g \in drop : g.priority >= msg_drop_priority
  BY <1>1, KeptShape, FrameShape
<1>4. f \in Frame /\ f.id = n + 1 /\ f.priority = m.priority /\ f.id = next_id
  <2>1. m.priority \in Priority
    BY UdtSockAssumption DEF UdtSockAssumption
  <2>2. next_id \in Nat /\ m.len \in {k.len : k \in Kinds}
    BY <1>1
  <2>3. f \in Frame
    BY <2>1, <2>2 DEF Frame
  <2> QED
    BY <1>1, <2>3
<1> HIDE DEF f
<1>5. QFrames(write_queue') = QFrames(Kept) \cup {f}
  <2>1. write_queue' = push_at(Kept, now, serialize_with_len(f), f.priority)
    BY <1>2, <1>4
  <2> HIDE DEF n
  <2> QED
    BY <1>1, <1>3, <1>4, <2>1, PushFrames
<1>6. InProgress' = InProgress
  BY <1>2 DEF InProgress
<1>7. QFrames(write_queue) \cap InProgress = {}
  BY <1>1 DEF PlacesInv
<1>8. Waiting' = (Waiting \ drop) \cup {f} /\ drop \subseteq Waiting
  BY <1>3, <1>5, <1>6, <1>7 DEF Waiting
<1>9. OrderInv'
  <2>1. \A g \in InProgress : g.id \in 1 .. n
    BY <1>1 DEF PlacesInv, Known
  <2>2. \A g \in InProgress : g.id < f.id
    BY <1>1, <1>4, <2>1
  <2>3. \A g \in InProgress : \A h \in QFrames(Kept) \cup {f} : h.priority = g.priority => g.id < h.id
    BY <1>3, <2>2 DEF OrderInv
  <2> QED
    BY <1>5, <1>6, <2>3 DEF OrderInv
<1>10. Broken' = Broken
  BY <1>2 DEF Broken
<1> QED
  BY <1>2, <1>3, <1>4, <1>8, <1>9, <1>10

(* The other calls of write only drop. *)
LEMMA WaitingShed ==
  ASSUME SendInv, OrderInv, WriteUnencodable \/ OnWritable
  PROVE  /\ \E drop \in SUBSET {g \in Waiting : g.priority >= msg_drop_priority} :
              Waiting' = Waiting \ drop
         /\ OrderInv' /\ UNCHANGED <<next_id, written, delivered>> /\ Broken' = Broken
<1> DEFINE drop == QFrames(write_queue) \ QFrames(Kept)
<1>1. SockTypeOK /\ QueueInv /\ PlacesInv
  BY DEF SendInv
<1>2. /\ write_queue' = Kept /\ w_pc = "idle" /\ w_pc' # "closed"
      /\ UNCHANGED <<current_write, next_id, written, delivered, link>>
  BY DEF WriteUnencodable, OnWritable, StartWrite, libVars
<1>3. /\ QFrames(Kept) \subseteq QFrames(write_queue)
      /\ \A g \in drop : g.priority >= msg_drop_priority
  BY <1>1, KeptShape
<1>4. InProgress' = InProgress /\ QFrames(write_queue)' = QFrames(Kept) /\ Broken' = Broken
  BY <1>2 DEF InProgress, Broken
<1>5. QFrames(write_queue) \cap InProgress = {}
  BY <1>1 DEF PlacesInv
<1>6. Waiting' = Waiting \ drop /\ drop \subseteq Waiting
  BY <1>3, <1>4, <1>5 DEF Waiting
<1>7. OrderInv'
  BY <1>3, <1>4 DEF OrderInv
<1> QED
  BY <1>2, <1>3, <1>4, <1>6, <1>7

(* A turn of the loop: a frame is written to its last byte, stays in        *)
(* progress, or is lost on a broken connection.                             *)
LEMMA WaitingFlush ==
  ASSUME SendInv, OrderInv, (\E n \in 1 .. Cap : FlushSend(n)) \/ FlushWouldBlock \/ FlushErr
  PROVE  /\ \/ \E f \in Waiting :
                 /\ ~Broken /\ written' = Append(written, f) /\ Waiting' = Waiting \ {f}
                 /\ \A g \in Waiting : g.priority = f.priority => f.id <= g.id
            \/ written' = written /\ Waiting' = Waiting
            \/ written' = written /\ Waiting' \subseteq Waiting /\ Broken
         /\ OrderInv' /\ UNCHANGED <<next_id, delivered>> /\ Broken' = Broken
<1> DEFINE f == Data[1].frame
           R == QFrames(QueueWithoutData)
<1>1. SockTypeOK /\ QueueInv /\ PlacesInv
  BY DEF SendInv
<1>2. PICK rest : Turn(rest)
  BY DEF FlushSend, Accepted, FlushWouldBlock, FlushErr
<1>3. /\ w_pc = "flush" /\ HasData /\ write_queue' = QueueWithoutData
      /\ UNCHANGED <<link, next_id, delivered>> /\ w_pc' \in {"flush", "idle"}
  BY <1>2 DEF Turn, QueueWithoutData, FlushSend, Accepted, FlushWouldBlock, FlushErr
<1>4. /\ Waiting = R \cup {f} /\ f \notin R /\ f.id \in 1 .. next_id - 1
  BY <1>1, <1>3, DataShape DEF Waiting
<1>5. \A g \in R : g.priority = f.priority => f.id < g.id
  BY <1>3, DataOldest
<1>6. QFrames(write_queue)' = R /\ Broken' = Broken
  BY <1>3 DEF Broken
<1> HIDE DEF f, R
<1>7. \A g \in Waiting : g.priority = f.priority => f.id <= g.id
  <2>1. f.id <= f.id
    BY <1>4
  <2>2. R \subseteq Frame
    <3>1. next_id - 1 \in Nat /\ FrameSet(Frame) /\ FrameQueue(QueueWithoutData, Frame, next_id - 1)
      BY <1>1, <1>3, IdBelow, FrameShape, DataShape
    <3> QED
      BY <3>1, FramesIn DEF R
  <2>3. \A g \in R : g.id \in Nat
    BY <2>2, FrameShape DEF FrameSet
  <2>4. \A g \in R : f.id < g.id => f.id <= g.id
    BY <1>4, <2>3
  <2> QED
    BY <1>4, <1>5, <2>1, <2>4
<1>8. ASSUME InProgress' = {f} PROVE Waiting' = Waiting /\ OrderInv'
  BY <1>4, <1>5, <1>6, <1>8 DEF Waiting, OrderInv
<1>9. ASSUME InProgress' = {} PROVE Waiting' = Waiting \ {f} /\ OrderInv'
  BY <1>4, <1>6, <1>9 DEF Waiting, OrderInv
<1>10. CASE (\E n \in 1 .. Cap : FlushSend(n)) \/ FlushWouldBlock
  <2>1. /\ Live
        /\ \/ written' = Append(written, f) /\ InProgress' = {}
           \/ written' = written /\ InProgress' = {f}
    BY <1>10, FlushSendStep, FlushKeptStep DEF f
  <2>2. ~Broken
    BY <2>1 DEF Live, Broken
  <2>3. f \in Waiting
    BY <1>4
  <2> QED
    BY <1>3, <1>6, <1>7, <1>8, <1>9, <2>1, <2>2, <2>3
<1>11. CASE FlushErr
  <2>1. current_write' = <<>> /\ written' = written /\ Broken
    BY <1>11 DEF FlushErr, Turn, Broken
  <2>2. InProgress' = {}
    BY <2>1 DEF InProgress
  <2> QED
    BY <1>3, <1>6, <1>9, <2>1, <2>2
<1> QED
  BY <1>10, <1>11

(* The steps that do not touch the queue or the frame in progress. *)
LEMMA WaitingStill ==
  ASSUME UdtDecodable, SendInv, ReadInv, OrderInv, Still \/ RecvData \/ ReadStep
  PROVE  /\ UNCHANGED <<next_id, written>> /\ Waiting' = Waiting /\ OrderInv' /\ Broken' = Broken
         /\ \/ delivered' = delivered
            \/ Len(delivered') = Len(delivered) + 1 /\ Len(delivered) < Len(written)
<1>1. /\ UNCHANGED <<write_queue, current_write, next_id, written>>
      /\ (link = "broken" <=> link' = "broken") /\ (w_pc = "closed" <=> w_pc' = "closed")
      /\ \/ delivered' = delivered
         \/ Len(delivered') = Len(delivered) + 1 /\ Len(delivered) < Len(written)
  <2>1. CASE Still
    BY <2>1 DEF Still
  <2>2. CASE RecvData
    BY <2>2 DEF RecvData, senderVars
  <2>3. CASE ReadStep
    <3>1. /\ UNCHANGED <<write_queue, current_write, w_pc, link, next_id, written>>
      BY <2>3, ReadEffect DEF SendInv
    <3>2. \/ delivered' = delivered
          \/ Len(delivered') = Len(delivered) + 1 /\ Len(delivered) < Len(written)
      BY <2>3, ReadRead
    <3> QED
      BY <3>1, <3>2
  <2> QED
    BY <2>1, <2>2, <2>3
<1>2. Broken' = Broken
  BY <1>1 DEF Broken
<1>3. InProgress' = InProgress /\ QFrames(write_queue)' = QFrames(write_queue)
  BY <1>1 DEF InProgress
<1> QED
  BY <1>1, <1>2, <1>3 DEF Waiting, OrderInv

(* The connection ends. *)
LEMMA WaitingEnds ==
  ASSUME SendInv, OrderInv, DropSender \/ Break
  PROVE  /\ Waiting' \subseteq Waiting /\ Broken' /\ OrderInv'
         /\ UNCHANGED <<next_id, written, delivered>>
<1>1. CASE DropSender
  <2>1. /\ w_pc' = "closed" /\ write_queue' = new /\ current_write' = <<>>
        /\ UNCHANGED <<next_id, written, delivered>>
    BY <1>1 DEF DropSender
  <2>2. QFrames(new) = {}
    BY IdBelow, FrameShape, NewFrames DEF SendInv
  <2>3. InProgress' = {} /\ QFrames(write_queue)' = {}
    BY <2>1, <2>2 DEF InProgress
  <2> QED
    BY <2>1, <2>3 DEF Waiting, Broken, OrderInv
<1>2. CASE Break
  <2>1. link' = "broken" /\ UNCHANGED <<write_queue, current_write, next_id, written, delivered>>
    BY <1>2 DEF Break, senderVars
  <2> QED
    BY <2>1 DEF Waiting, InProgress, Broken, OrderInv
<1> QED
  BY <1>1, <1>2

(* A message is known by its id. *)
Msgs(S) == {MsgOf(f) : f \in S}

LEMMA MsgsOf ==
  ASSUME NEW S, NEW D, D \subseteq S, \A f, g \in S : f.id = g.id => f = g
  PROVE  Msgs(S \ D) = Msgs(S) \ Msgs(D)
<1>1. \A f, g : MsgOf(f) = MsgOf(g) => f.id = g.id
  BY DEF MsgOf
<1> QED
  BY <1>1 DEF Msgs

(* A frame written is a message sent. *)
LEMMA SentOf ==
  ASSUME NEW W \in Seq(Frame), NEW f \in Frame
  PROVE  LET V == Append(W, f)
         IN  [i \in DOMAIN V |-> MsgOf(V[i])] = Append([i \in DOMAIN W |-> MsgOf(W[i])], MsgOf(f))
<1> DEFINE V == Append(W, f)
           T == {MsgOf(g) : g \in Frame}
           a == [i \in DOMAIN V |-> MsgOf(V[i])]
           b == [i \in DOMAIN W |-> MsgOf(W[i])]
           m == MsgOf(f)
           n == Len(W)
<1>1. V \in Seq(Frame) /\ Len(V) = n + 1 /\ V[n + 1] = f /\ \A i \in 1 .. n : V[i] = W[i]
  BY AppendProperties
<1>2. DOMAIN V = 1 .. n + 1 /\ DOMAIN W = 1 .. n /\ n \in Nat
  BY <1>1
<1> HIDE DEF V, n
<1>3. \A i \in 1 .. n + 1 : V[i] \in Frame
  BY <1>1, <1>2, ElementOfSeq
<1>4. \A i \in 1 .. n : W[i] \in Frame
  BY <1>2, ElementOfSeq DEF n
<1>5. a = [i \in 1 .. n + 1 |-> MsgOf(V[i])] /\ b = [i \in 1 .. n |-> MsgOf(W[i])]
  BY <1>2
<1>6. \A i \in 1 .. n + 1 : MsgOf(V[i]) \in T
  BY <1>3
<1>7. \A i \in 1 .. n : MsgOf(W[i]) \in T
  BY <1>4
<1>8. m \in T
  OBVIOUS
<1> HIDE DEF T
<1>9. a \in Seq(T) /\ Len(a) = n + 1 /\ \A i \in 1 .. n + 1 : a[i] = MsgOf(V[i])
  <2>1. a \in Seq(T)
    BY <1>2, <1>5, <1>6, IsASeq
  <2> QED
    BY <1>2, <1>5, <2>1
<1>10. b \in Seq(T) /\ Len(b) = n /\ \A i \in 1 .. n : b[i] = MsgOf(W[i])
  <2>1. b \in Seq(T)
    BY <1>2, <1>5, <1>7, IsASeq
  <2> QED
    BY <1>2, <1>5, <2>1
<1> HIDE DEF a, b, m
<1>11. /\ Append(b, m) \in Seq(T) /\ Len(Append(b, m)) = n + 1 /\ Append(b, m)[n + 1] = m
       /\ \A i \in 1 .. n : Append(b, m)[i] = b[i]
  BY <1>8, <1>10, AppendProperties
<1>12. \A i \in 1 .. n + 1 : a[i] = Append(b, m)[i]
  <2> SUFFICES ASSUME NEW i \in 1 .. n + 1 PROVE a[i] = Append(b, m)[i]
    OBVIOUS
  <2>1. CASE i = n + 1
    BY <1>1, <1>9, <1>11, <2>1 DEF m
  <2>2. CASE i # n + 1
    <3>1. i \in 1 .. n
      BY <1>2, <2>2
    <3> QED
      BY <1>1, <1>9, <1>10, <1>11, <3>1
  <2> QED
    BY <2>1, <2>2
<1>13. a = Append(b, m)
  BY <1>9, <1>11, <1>12, SeqEqual
<1> QED
  BY <1>13 DEF a, b, m, V

(* What waits in the channel is what waits here. *)
LEMMA ChannelWaiting ==
  ASSUME NEW q, NEW c
  PROVE  {MsgOf(f) : f \in FramesOf(Queued(q) \cup IF c = <<>> THEN {} ELSE {c})} =
           Msgs(QFrames(q) \cup IF c = <<>> THEN {} ELSE {c[1].frame})
<1>1. FramesOf(Queued(q) \cup IF c = <<>> THEN {} ELSE {c}) =
        QFrames(q) \cup IF c = <<>> THEN {} ELSE {c[1].frame}
  BY DEF FramesOf, QFrames
<1> QED
  BY <1>1 DEF Msgs

LEMMA WaitingKnown ==
  ASSUME SendInv
  PROVE  /\ Waiting \subseteq Frame
         /\ \A f, g \in Waiting : f.id = g.id => f = g
<1>1. SockTypeOK /\ QueueInv /\ PlacesInv
  BY DEF SendInv
<1>2. \A f, g \in Waiting : f.id = g.id => f = g
  BY <1>1 DEF PlacesInv, Known, Waiting
<1>3. QFrames(write_queue) \subseteq Frame
  <2>1. next_id - 1 \in Nat /\ FrameSet(Frame) /\ FrameQueue(write_queue, Frame, next_id - 1)
    BY <1>1, IdBelow, FrameShape DEF QueueInv
  <2> QED
    BY <2>1, FramesIn
<1>4. InProgress \subseteq Frame
  <2>1. ASSUME current_write # <<>> PROVE current_write[1].frame \in Frame
    <3>1. current_write \in Seq(Cells(Frame)) /\ current_write # <<>>
      BY <1>1, <2>1 DEF QueueInv, IsRest
    <3>2. current_write[1] \in Cells(Frame)
      BY <3>1
    <3> QED
      BY <3>2 DEF Cells
  <2> QED
    BY <2>1 DEF InProgress
<1> QED
  BY <1>2, <1>3, <1>4 DEF Waiting

(* The messages of droppable frames are droppable. *)
LEMMA DropOf ==
  ASSUME NEW S, NEW D, D \subseteq {g \in S : g.priority >= msg_drop_priority}
  PROVE  Msgs(D) \subseteq {w \in Msgs(S) : w.priority >= msg_drop_priority}
  BY DEF Msgs, MsgOf

LEMMA MsgsPlus ==
  ASSUME NEW S, NEW f
  PROVE  Msgs(S \cup {f}) = Msgs(S) \cup {MsgOf(f)}
  BY DEF Msgs

LEMMA MsgsMonotone ==
  ASSUME NEW S, NEW D, D \subseteq S
  PROVE  Msgs(D) \subseteq Msgs(S)
  BY DEF Msgs


(* The expression the refinement puts for `waiting`. *)
ChannelSet ==
  {MsgOf(f) : f \in FramesOf(Queued(write_queue) \cup
                IF current_write = <<>> THEN {} ELSE {current_write})}

ChannelSent == [i \in DOMAIN written |-> MsgOf(written[i])]

LEMMA ChannelSets == ChannelSet = Msgs(Waiting) /\ ChannelSet' = Msgs(Waiting)'
<1>1. ChannelSet = Msgs(Waiting)
  BY ChannelWaiting DEF ChannelSet, Waiting, InProgress
<1>2. ChannelSet' = Msgs(Waiting)'
  BY ChannelWaiting DEF ChannelSet, Waiting, InProgress
<1> QED
  BY <1>1, <1>2

(* The actions of the channel, in terms of what waits here. *)
LEMMA ChannelActions ==
  /\ \A p : (/\ (next_id - 1)' = (next_id - 1) + 1
             /\ (\E drop \in SUBSET {w \in Msgs(Waiting) : w.priority >= msg_drop_priority} :
                   Msgs(Waiting)' = (Msgs(Waiting) \ drop)
                                      \cup {[id |-> (next_id - 1)', priority |-> p]})
             /\ UNCHANGED <<ChannelSent, Len(delivered), Broken>>)
            => Channel!ShedAndAccept(p)
  /\ (/\ (\E drop \in SUBSET {w \in Msgs(Waiting) : w.priority >= msg_drop_priority} :
            Msgs(Waiting)' = Msgs(Waiting) \ drop)
      /\ UNCHANGED <<next_id - 1, ChannelSent, Len(delivered), Broken>>)
     => Channel!Shed
  /\ (\E m \in Msgs(Waiting) :
        /\ ~Broken
        /\ \A w \in Msgs(Waiting) : w.priority = m.priority => m.id <= w.id
        /\ ChannelSent' = Append(ChannelSent, m)
        /\ Msgs(Waiting)' = Msgs(Waiting) \ {m}
        /\ UNCHANGED <<next_id - 1, Len(delivered), Broken>>)
     => Channel!Send
  /\ (/\ Len(delivered) < Len(ChannelSent)
      /\ Len(delivered)' = Len(delivered) + 1
      /\ UNCHANGED <<Msgs(Waiting), next_id - 1, ChannelSent, Broken>>)
     => Channel!Deliver
  /\ (/\ Broken' = TRUE
      /\ Msgs(Waiting)' \in SUBSET Msgs(Waiting)
      /\ UNCHANGED <<next_id - 1, ChannelSent, Len(delivered)>>)
     => Channel!Break
  /\ UNCHANGED <<Msgs(Waiting), next_id - 1, ChannelSent, Len(delivered), Broken>>
     => UNCHANGED Channel!vars
  BY ChannelSets
     DEF ChannelSet, ChannelSent, Broken, Channel!ShedAndAccept, Channel!Shed, Channel!Send,
         Channel!Deliver, Channel!Break, Channel!Droppable, Channel!vars

LEMMA ChannelInit == Init => OrderInv /\ Channel!Init
<1> SUFFICES ASSUME Init PROVE OrderInv /\ Channel!Init
  OBVIOUS
<1>1. /\ write_queue = new /\ current_write = <<>> /\ next_id = 1 /\ written = <<>>
      /\ delivered = <<>> /\ link = "connecting" /\ w_pc = "idle"
  BY DEF Init, InitSock
<1>2. QFrames(write_queue) = {} /\ InProgress = {}
  <2>1. 1 \in Nat /\ FrameSet(Frame) /\ QFrames(new) = {}
    BY FrameShape, NewFrames
  <2> QED
    BY <1>1, <2>1 DEF InProgress
<1>3. ChannelSet = {}
  BY <1>2, ChannelSets DEF Waiting, Msgs
<1>4. ChannelSent = <<>>
  BY <1>1 DEF ChannelSent
<1>5. next_id - 1 = 0 /\ Len(delivered) = 0 /\ Broken = FALSE
  BY <1>1 DEF Broken
<1> QED
  BY <1>2, <1>3, <1>4, <1>5 DEF OrderInv, ChannelSet, ChannelSent, Broken, Channel!Init

(* Each call of write maps to ShedAndAccept or to Shed. *)
LEMMA ChannelWrite ==
  ASSUME SendInv, OrderInv,
         (\E m \in Kinds : Write(m)) \/ WriteUnencodable \/ OnWritable
  PROVE  OrderInv' /\ Channel!Next
<1>1. Waiting \subseteq Frame /\ \A f, g \in Waiting : f.id = g.id => f = g
  BY WaitingKnown
<1> DEFINE Ok(drop) == drop \in SUBSET {g \in Waiting : g.priority >= msg_drop_priority}
<1>2. ASSUME NEW drop, Ok(drop)
      PROVE  /\ Msgs(drop) \in SUBSET {w \in Msgs(Waiting) : w.priority >= msg_drop_priority}
             /\ Msgs(Waiting \ drop) = Msgs(Waiting) \ Msgs(drop)
  <2>1. drop \subseteq {g \in Waiting : g.priority >= msg_drop_priority} /\ drop \subseteq Waiting
    BY <1>2
  <2>2. Msgs(Waiting \ drop) = Msgs(Waiting) \ Msgs(drop)
    BY <1>1, <2>1, MsgsOf
  <2> QED
    BY <2>1, <2>2, DropOf
<1>3. ASSUME NEW m \in Kinds, Write(m)
      PROVE  OrderInv' /\ Channel!ShedAndAccept(m.priority)
  <2>1. /\ \E f \in Frame, drop \in SUBSET {g \in Waiting : g.priority >= msg_drop_priority} :
             f.id = next_id /\ f.priority = m.priority /\ Waiting' = (Waiting \ drop) \cup {f}
        /\ next_id' = next_id + 1 /\ OrderInv'
        /\ UNCHANGED <<written, delivered>> /\ Broken' = Broken
    BY <1>3, WaitingWrite
  <2>2. PICK f \in Frame, drop \in SUBSET {g \in Waiting : g.priority >= msg_drop_priority} :
             f.id = next_id /\ f.priority = m.priority /\ Waiting' = (Waiting \ drop) \cup {f}
    BY <2>1
  <2>3. next_id \in Nat
    BY DEF SendInv, SockTypeOK
  <2>4. (next_id - 1)' = (next_id - 1) + 1 /\ (next_id - 1)' = next_id
    BY <2>1, <2>3
  <2>5. MsgOf(f) = [id |-> (next_id - 1)', priority |-> m.priority]
    BY <2>2, <2>4 DEF MsgOf
  <2>6. Msgs(Waiting') = (Msgs(Waiting) \ Msgs(drop)) \cup {MsgOf(f)}
    BY ZenonT(40), <1>2, <2>2, MsgsPlus
  <2>7. Msgs(Waiting)' = (Msgs(Waiting) \ Msgs(drop)) \cup {[id |-> (next_id - 1)', priority |-> m.priority]}
    BY <2>5, <2>6
  <2>8. UNCHANGED <<ChannelSent, Len(delivered), Broken>>
    BY <2>1 DEF ChannelSent
  <2>9. Msgs(drop) \in SUBSET {w \in Msgs(Waiting) : w.priority >= msg_drop_priority}
    BY <1>2
  <2> QED
    BY <2>1, <2>4, <2>7, <2>8, <2>9, ChannelActions
<1>4. ASSUME WriteUnencodable \/ OnWritable
      PROVE  OrderInv' /\ Channel!Shed
  <2>1. /\ \E drop \in SUBSET {g \in Waiting : g.priority >= msg_drop_priority} :
             Waiting' = Waiting \ drop
        /\ OrderInv' /\ UNCHANGED <<next_id, written, delivered>> /\ Broken' = Broken
    BY <1>4, WaitingShed
  <2>2. PICK drop \in SUBSET {g \in Waiting : g.priority >= msg_drop_priority} :
             Waiting' = Waiting \ drop
    BY <2>1
  <2>3. Msgs(Waiting)' = Msgs(Waiting) \ Msgs(drop)
    BY <1>2, <2>2
  <2>4. UNCHANGED <<next_id - 1, ChannelSent, Len(delivered), Broken>>
    BY <2>1 DEF ChannelSent
  <2>5. Msgs(drop) \in SUBSET {w \in Msgs(Waiting) : w.priority >= msg_drop_priority}
    BY <1>2
  <2> QED
    BY <2>1, <2>3, <2>4, <2>5, ChannelActions
<1>5. \A m \in Kinds : m.priority \in Priority
  BY UdtSockAssumption DEF UdtSockAssumption
<1> QED
  BY <1>3, <1>4, <1>5 DEF Channel!Next

(* A turn of the loop maps to Send, to Break or to a stutter. *)
LEMMA ChannelFlush ==
  ASSUME SendInv, OrderInv,
         (\E n \in 1 .. Cap : FlushSend(n)) \/ FlushWouldBlock \/ FlushErr
  PROVE  OrderInv' /\ [Channel!Next]_(Channel!vars)
<1>1. /\ \/ \E f \in Waiting :
                 /\ ~Broken /\ written' = Append(written, f) /\ Waiting' = Waiting \ {f}
                 /\ \A g \in Waiting : g.priority = f.priority => f.id <= g.id
         \/ written' = written /\ Waiting' = Waiting
         \/ written' = written /\ Waiting' \subseteq Waiting /\ Broken
      /\ OrderInv' /\ UNCHANGED <<next_id, delivered>> /\ Broken' = Broken
  BY WaitingFlush
<1>2. UNCHANGED <<next_id - 1, Len(delivered), Broken>>
  BY <1>1
<1>3. ASSUME NEW f \in Waiting, ~Broken, written' = Append(written, f), Waiting' = Waiting \ {f},
             \A g \in Waiting : g.priority = f.priority => f.id <= g.id
      PROVE  Channel!Send
  <2>1. Waiting \subseteq Frame /\ \A g, h \in Waiting : g.id = h.id => g = h
    BY WaitingKnown
  <2>2. Msgs(Waiting \ {f}) = Msgs(Waiting) \ Msgs({f}) /\ Msgs({f}) = {MsgOf(f)}
    <3>1. Msgs(Waiting \ {f}) = Msgs(Waiting) \ Msgs({f})
      BY <2>1, MsgsOf
    <3> QED
      BY <3>1 DEF Msgs
  <2>3. Msgs(Waiting)' = Msgs(Waiting) \ {MsgOf(f)}
    BY <1>3, <2>2
  <2>4. ChannelSent' = Append(ChannelSent, MsgOf(f))
    <3>1. written \in Seq(Frame) /\ f \in Frame
      BY <2>1 DEF SendInv, SockTypeOK
    <3>2. LET V == Append(written, f)
          IN  [i \in DOMAIN V |-> MsgOf(V[i])] =
                Append([i \in DOMAIN written |-> MsgOf(written[i])], MsgOf(f))
      BY <3>1, SentOf
    <3> QED
      BY <1>3, <3>2 DEF ChannelSent
  <2>5. \A w \in Msgs(Waiting) : w.priority = MsgOf(f).priority => MsgOf(f).id <= w.id
    BY <1>3 DEF Msgs, MsgOf
  <2>6. MsgOf(f) \in Msgs(Waiting)
    BY DEF Msgs
  <2> QED
    BY <1>2, <1>3, <2>3, <2>4, <2>5, <2>6, ChannelActions
<1>4. ASSUME written' = written, Waiting' = Waiting
      PROVE  UNCHANGED Channel!vars
  <2>1. UNCHANGED <<Msgs(Waiting), next_id - 1, ChannelSent, Len(delivered), Broken>>
    BY <1>2, <1>4 DEF ChannelSent
  <2> QED
    BY <2>1, ChannelActions
<1>5. ASSUME written' = written, Waiting' \subseteq Waiting, Broken
      PROVE  Channel!Break
  <2>1. Msgs(Waiting)' \in SUBSET Msgs(Waiting)
    BY <1>5, MsgsMonotone
  <2>2. Broken' = TRUE
    BY <1>1, <1>5 DEF Broken
  <2>3. UNCHANGED <<next_id - 1, ChannelSent, Len(delivered)>>
    BY <1>2, <1>5 DEF ChannelSent
  <2> QED
    BY <2>1, <2>2, <2>3, ChannelActions
<1> QED
  BY <1>1, <1>3, <1>4, <1>5 DEF Channel!Next

(* A read maps to Deliver or to a stutter, and so do the steps that move no *)
(* message.                                                                 *)
LEMMA ChannelStill ==
  ASSUME UdtDecodable, SendInv, ReadInv, OrderInv, Still \/ RecvData \/ ReadStep
  PROVE  OrderInv' /\ [Channel!Next]_(Channel!vars)
<1>1. /\ UNCHANGED <<next_id, written>> /\ Waiting' = Waiting /\ OrderInv' /\ Broken' = Broken
      /\ \/ delivered' = delivered
         \/ Len(delivered') = Len(delivered) + 1 /\ Len(delivered) < Len(written)
  BY WaitingStill
<1>2. UNCHANGED <<Msgs(Waiting), next_id - 1, ChannelSent, Broken>>
  BY <1>1 DEF ChannelSent
<1>3. CASE delivered' = delivered
  <2>1. UNCHANGED Channel!vars
    BY <1>2, <1>3, ChannelActions
  <2> QED
    BY <1>1, <2>1
<1>4. CASE Len(delivered') = Len(delivered) + 1 /\ Len(delivered) < Len(written)
  <2>1. Len(ChannelSent) = Len(written)
    <3> DEFINE T == {MsgOf(g) : g \in Frame}
               n == Len(written)
    <3>1. written \in Seq(Frame)
      BY DEF SendInv, SockTypeOK
    <3>2. DOMAIN written = 1 .. n /\ n \in Nat
      BY <3>1
    <3>3. \A i \in 1 .. n : MsgOf(written[i]) \in T
      BY <3>1, <3>2, ElementOfSeq
    <3> HIDE DEF T, n
    <3>4. ChannelSent = [i \in 1 .. n |-> MsgOf(written[i])]
      BY <3>2 DEF ChannelSent
    <3>5. ChannelSent \in Seq(T)
      BY <3>2, <3>3, <3>4, IsASeq
    <3>6. DOMAIN ChannelSent = 1 .. n
      BY <3>4
    <3> QED
      BY <3>2, <3>5, <3>6 DEF n
  <2>2. Channel!Deliver
    BY <1>2, <1>4, <2>1, ChannelActions
  <2> QED
    BY <1>1, <2>2 DEF Channel!Next
<1> QED
  BY <1>1, <1>3, <1>4

LEMMA ChannelEnds ==
  ASSUME SendInv, OrderInv, DropSender \/ Break
  PROVE  OrderInv' /\ Channel!Break
<1>1. /\ Waiting' \subseteq Waiting /\ Broken' /\ OrderInv'
      /\ UNCHANGED <<next_id, written, delivered>>
  BY WaitingEnds
<1>2. Msgs(Waiting)' \in SUBSET Msgs(Waiting)
  BY <1>1, MsgsMonotone
<1>3. UNCHANGED <<next_id - 1, ChannelSent, Len(delivered)>>
  BY <1>1 DEF ChannelSent
<1>4. Broken' = TRUE
  BY <1>1 DEF Broken
<1> QED
  BY <1>1, <1>2, <1>3, <1>4, ChannelActions

LEMMA ChannelStep ==
  ASSUME UdtDecodable, SendInv, ReadInv, OrderInv, Loop!TypeOK, [Next]_vars
  PROVE  OrderInv' /\ [Channel!Next]_(Channel!vars)
<1>1. CASE \/ Evented \/ Thread \/ OnReadable \/ Establish \/ (\E n \in 1 .. Cap : Arrive(n))
           \/ Tick \/ FlushDone \/ UNCHANGED vars
  <2>1. Still
    BY <1>1, StillCases DEF SendInv
  <2> QED
    BY <2>1, ChannelStill
<1>2. CASE (\E m \in Kinds : Write(m)) \/ WriteUnencodable \/ OnWritable
  BY <1>2, ChannelWrite
<1>3. CASE (\E n \in 1 .. Cap : FlushSend(n)) \/ FlushWouldBlock \/ FlushErr
  BY <1>3, ChannelFlush
<1>4. CASE RecvData \/ ReadStep
  BY <1>4, ChannelStill
<1>5. CASE DropSender \/ Break
  BY <1>5, ChannelEnds DEF Channel!Next
<1> QED
  BY <1>1, <1>2, <1>3, <1>4, <1>5, NextCases

(* The two sockets are the channel that those of TCP are, whatever the      *)
(* event loop does between them: each step is one of the channel's or none. *)
THEOREM UdtRefinement == ASSUME UdtDecodable PROVE Spec => ImplementsMsgChannel
<1>1. Init => OrderInv /\ Channel!Init
  BY ChannelInit
<1>2. SendInv /\ ReadInv /\ OrderInv /\ Loop!TypeOK /\ [Next]_vars =>
        OrderInv' /\ [Channel!Next]_(Channel!vars)
  BY ChannelStep
<1> QED
  BY <1>1, <1>2, UdtReaderInvariant, LoopInsideCorrect, PTL
     DEF Spec, ImplementsMsgChannel, Channel!Spec
=============================================================================
