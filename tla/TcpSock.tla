------------------------------ MODULE TcpSock ------------------------------
(***************************************************************************)
(* One direction of a TCP connection between two TcpSocks (src/tcp.rs): the *)
(* sender's Inner with its OutQueue and current_write, the byte stream in   *)
(* the two kernels, and the receiver's Inner with its LenDelimitedReader.   *)
(* A step is one system call of a socket with the code up to the next one,  *)
(* so the kernels and the other end act between any two.                    *)
(*                                                                          *)
(* The application is the one the docs and tests describe: it polls with    *)
(* edge-triggered events, calls write(None) when the stream becomes         *)
(* writable, and on a readable event calls read until it returns None.      *)
(***************************************************************************)
EXTENDS OutQueue, LenDelimitedReader, FiniteSets

CONSTANTS
  Lens,          \* the body lengths messages may have
  LastLong,      \* bound: the last id of a message too long for its 32-bit header
  SndCap,        \* capacity of the sender's kernel buffer, in bytes
  RcvCap,        \* capacity of the receiver's kernel buffer, in bytes
  BufLen,        \* size of the buffer read hands to the kernel (64 * 1024)
  MaxMsgs,       \* bound: number of messages written
  MaxNow,        \* bound: last tick of the clock
  FirstCtx,      \* the context both ends start with
  SecondCtx,     \* the context both ends change to ...
  SwitchAfter,   \* ... after the message with this id; 0 when they never do
  KeepOnErr,     \* the errors of read after which the application reads on
  AllowReset,    \* whether the connection may be reset
  AllowClose,    \* whether the application may drop its socket
  AllowEncErr,   \* whether a message may fail to serialise
  MayInterrupt   \* whether a system call may fail with Interrupted

ASSUME TcpAssumption ==
  /\ Lens \subseteq Nat
  /\ SndCap \in Nat \ {0} /\ RcvCap \in Nat \ {0} /\ BufLen \in Nat \ {0}
  /\ MaxMsgs \in Nat /\ MaxNow \in Nat /\ SwitchAfter \in Nat /\ LastLong \in Nat
  /\ {AllowReset, AllowClose, AllowEncErr, MayInterrupt} \subseteq BOOLEAN

VARIABLES
  out_queue,          \* sender: Inner.out_queue.inner, of encoded frames
  current_write,      \* sender: the rest of a frame being written; <<>> is None
  enc_ctx,            \* sender: Inner.enc_ctx
  w_pc,               \* sender: "idle", "flush" (inside the loop) or "closed"
  w_msg,              \* sender: id of the message of the current or last write; 0 for None
  w_ret,              \* sender: what the last flush returned; "-" before and during one
  established,        \* kernels: the connection the sender asked for is there
  snd, rcv,           \* kernels: bytes accepted from the sender, bytes arrived
  fin,                \* kernels: "no", "sent" or "arrived"
  reset,              \* kernels: the connection was reset
  wr_event, rd_event, \* pending edges: writable, readable
  msg_reader,         \* receiver: Inner.msg_reader without its dec_ctx
  dec_ctx,            \* receiver: msg_reader.dec_ctx
  is_something_read,  \* receiver: the local variable of read; FALSE outside of it
  r_pc,               \* receiver: "idle", "ready" (to call read), "recv" or "closed"
  r_ret,              \* receiver: what the last read returned; "-" before and during a call
  now,                \* the clock
  next_id,            \* history: id of the next message accepted by write
  written,            \* history: frames whose last byte the kernel accepted, in order
  delivered,          \* history: [id, size] of the messages read returned, in order
  shed                \* history: frames drop_expired removed

senderVars == <<out_queue, current_write, enc_ctx, w_pc, w_msg, w_ret>>
kernelVars == <<established, snd, rcv, fin, reset, wr_event, rd_event>>
receiverVars == <<msg_reader, dec_ctx, is_something_read, r_pc, r_ret>>
vars == <<senderVars, kernelVars, receiverVars, now, next_id, written, delivered, shed>>

(* The sender's stream is still connecting (connect) or is there (wrap). *)
InitStream ==
  /\ established \in BOOLEAN
  /\ snd = <<>> /\ rcv = <<>> /\ fin = "no" /\ reset = FALSE
  /\ wr_event = FALSE /\ rd_event = FALSE

Init ==
  /\ InitStream
  /\ out_queue = new /\ current_write = <<>> /\ enc_ctx = FirstCtx
  /\ w_pc = "idle" /\ w_msg = 0 /\ w_ret = "-"
  /\ msg_reader = new_reader /\ dec_ctx = FirstCtx
  /\ is_something_read = FALSE /\ r_pc = "idle" /\ r_ret = "-"
  /\ now = 0 /\ next_id = 1 /\ written = <<>> /\ delivered = <<>> /\ shed = {}

FramesOf(datas) == {d[1].frame : d \in datas}

-----------------------------------------------------------------------------
(* The sender.                                                              *)

(* The application moves to the second context at the agreed message. *)
EncSwitchDue == SwitchAfter > 0 /\ next_id = SwitchAfter + 1 /\ enc_ctx # SecondCtx

SetEncryptCtx ==
  /\ w_pc = "idle" /\ EncSwitchDue
  /\ enc_ctx' = SecondCtx
  /\ UNCHANGED <<out_queue, current_write, w_pc, w_msg, w_ret, kernelVars, receiverVars,
                 now, next_id, written, delivered, shed>>

Kept == drop_expired(out_queue, now)

(* Every call of write begins with drop_expired. *)
StartWrite ==
  /\ w_pc = "idle"
  /\ shed' = shed \cup FramesOf(Queued(out_queue) \ Queued(Kept))
  /\ UNCHANGED <<current_write, enc_ctx, established, snd, rcv, fin, reset, rd_event,
                 receiverVars, now, written, delivered>>

(* write of a message up to the flush: enqueue_data under the current       *)
(* context.  No length is refused.                                          *)
Write(p, l) ==
  LET f == [id |-> next_id, priority |-> p, len |-> l, ctx |-> enc_ctx]
  IN  /\ next_id <= MaxMsgs /\ ~EncSwitchDue
      /\ l < U32 \/ next_id <= LastLong
      /\ StartWrite
      /\ out_queue' = push_at(Kept, now, serialize_with_len(f), p)
      /\ next_id' = next_id + 1
      /\ w_msg' = next_id /\ w_pc' = "flush" /\ w_ret' = "-"
      /\ UNCHANGED wr_event

(* write of a message that does not serialise: enqueue_data fails, and the  *)
(* call returns without a flush.                                            *)
WriteUnencodable ==
  /\ AllowEncErr
  /\ StartWrite
  /\ out_queue' = Kept
  /\ UNCHANGED <<w_pc, w_msg, w_ret, next_id, wr_event>>

(* write(None) on a writable event. *)
OnWritable ==
  /\ wr_event
  /\ wr_event' = FALSE
  /\ StartWrite
  /\ out_queue' = Kept
  /\ w_msg' = 0 /\ w_pc' = "flush" /\ w_ret' = "-"
  /\ UNCHANGED next_id

-----------------------------------------------------------------------------
(* flush_write_until_would_block, one turn of its loop per action.          *)

HasData == current_write # <<>> \/ DOMAIN out_queue # {}

(* current_write.take().or_else(|| out_queue.next_msg()) ... *)
Data == IF current_write # <<>> THEN current_write ELSE next_msg(out_queue)

(* ... and the queue it leaves. *)
QueueWithoutData ==
  IF current_write # <<>> THEN out_queue ELSE after_next_msg(out_queue)

(* A turn of the loop takes the data and leaves `rest` in current_write. *)
Turn(rest) ==
  /\ w_pc = "flush" /\ HasData
  /\ out_queue' = QueueWithoutData
  /\ current_write' = rest
  /\ UNCHANGED <<enc_ctx, w_msg, established, rcv, fin, reset, wr_event, rd_event,
                 receiverVars, now, next_id, delivered, shed>>

(* The kernel accepts the first n bytes of the data. *)
KernelTakes(n) ==
  /\ established /\ ~reset /\ n <= Len(Data) /\ Len(snd) + n <= SndCap
  /\ snd' = snd \o SubSeq(Data, 1, n)
  /\ written' = IF n = Len(Data) THEN Append(written, Data[1].frame) ELSE written

Returned(ret) == w_pc' = "idle" /\ w_ret' = ret

(* Nothing is left to write. *)
FlushDone ==
  /\ w_pc = "flush" /\ ~HasData
  /\ Returned("true")
  /\ UNCHANGED <<out_queue, current_write, enc_ctx, w_msg, kernelVars, receiverVars,
                 now, next_id, written, delivered, shed>>

FlushSend_requeue(n) ==
  LET rest == SubSeq(Data, n + 1, Len(Data))
  IN  /\ w_pc = "flush" /\ HasData
      /\ KernelTakes(n)
      /\ out_queue' = IF rest = <<>> THEN QueueWithoutData
                      ELSE push_at(QueueWithoutData, now, rest, rest[1].frame.priority)
      /\ current_write' = <<>>
      /\ UNCHANGED <<w_pc, w_ret, enc_ctx, w_msg, established, rcv, fin, reset, wr_event,
                     rd_event, receiverVars, now, next_id, delivered, shed>>

(* The kernel accepts n bytes and the rest, if any, becomes current_write;  *)
(* the call returns `ret` if `stop`.                                        *)
Sent(n, stop, ret) ==
  /\ Turn(SubSeq(Data, n + 1, Len(Data)))
  /\ KernelTakes(n)
  /\ IF stop THEN Returned(ret) ELSE UNCHANGED <<w_pc, w_ret>>

FlushSend_returns(n) == Sent(n, n < Len(Data), "false")

FlushSend_once(n) == Sent(n, n = Len(Data), "true")

FlushSend(n) == Sent(n, FALSE, "-")

(* The data taken is not written; `rest` of it is kept. *)
NotSent(rest, ret) == Turn(rest) /\ Returned(ret) /\ UNCHANGED <<snd, written>>

(* The kernel's buffer is full, or the stream is not connected yet. *)
MustWait == Len(snd) = SndCap \/ ~established

FlushWouldBlock_forgets == ~reset /\ MustWait /\ NotSent(<<>>, "false")

FlushWouldBlock == ~reset /\ MustWait /\ NotSent(Data, "false")

(* The same result, Ok(false), for a call that was interrupted; w_ret tells *)
(* the two apart for the properties.                                        *)
FlushInterrupted == MayInterrupt /\ ~reset /\ NotSent(Data, "Interrupted")

(* Any other error: the data taken is gone. *)
FlushErr == reset /\ NotSent(<<>>, "Io")

(* Drop for Inner: shutdown(Both).  What the socket had queued is gone. *)
DropSender ==
  /\ AllowClose /\ w_pc = "idle"
  /\ w_pc' = "closed"
  /\ out_queue' = new /\ current_write' = <<>>
  /\ fin' = "sent"
  /\ UNCHANGED <<enc_ctx, w_msg, w_ret, established, snd, rcv, reset, wr_event, rd_event,
                 receiverVars, now, next_id, written, delivered, shed>>

-----------------------------------------------------------------------------
(* The kernels and the network: a reliable byte stream, until it is reset.  *)

(* The connection is there: the sender has a writable edge. *)
Establish ==
  /\ ~established /\ ~reset /\ w_pc # "closed"
  /\ established' = TRUE
  /\ wr_event' = TRUE
  /\ UNCHANGED <<senderVars, snd, rcv, fin, reset, rd_event, receiverVars, now, next_id,
                 written, delivered, shed>>

(* Bytes arrive.  Room in a buffer that was full is a writable edge. *)
Deliver(n) ==
  /\ n <= Len(snd) /\ Len(rcv) + n <= RcvCap
  /\ rcv' = rcv \o SubSeq(snd, 1, n)
  /\ snd' = SubSeq(snd, n + 1, Len(snd))
  /\ rd_event' = TRUE
  /\ wr_event' = (wr_event \/ Len(snd) = SndCap)
  /\ UNCHANGED <<senderVars, established, fin, reset, receiverVars, now, next_id, written,
                 delivered, shed>>

(* The end of the stream arrives after the bytes before it. *)
FinArrive ==
  /\ fin = "sent" /\ snd = <<>> /\ established /\ ~reset
  /\ fin' = "arrived"
  /\ rd_event' = TRUE
  /\ UNCHANGED <<senderVars, established, snd, rcv, reset, wr_event, receiverVars, now,
                 next_id, written, delivered, shed>>

(* The connection breaks, as it does when the receiver is gone, or is       *)
(* refused: bytes on the way are lost, both ends have an event.             *)
Reset ==
  /\ ~reset /\ (AllowReset \/ r_pc = "closed")
  /\ reset' = TRUE
  /\ snd' = <<>>
  /\ wr_event' = TRUE /\ rd_event' = TRUE
  /\ UNCHANGED <<senderVars, established, rcv, fin, receiverVars, now, next_id, written,
                 delivered, shed>>

Tick ==
  /\ now < MaxNow
  /\ now' = now + 1
  /\ UNCHANGED <<senderVars, kernelVars, receiverVars, next_id, written, delivered, shed>>

-----------------------------------------------------------------------------
(* The receiver.                                                            *)

(* The application moves to the second context after the agreed message. *)
DecSwitchDue ==
  /\ SwitchAfter > 0 /\ dec_ctx # SecondCtx
  /\ delivered # <<>> /\ delivered[Len(delivered)].id = SwitchAfter

SetDecryptCtx ==
  /\ r_pc = "ready" /\ DecSwitchDue
  /\ dec_ctx' = SecondCtx
  /\ UNCHANGED <<senderVars, kernelVars, msg_reader, is_something_read, r_pc, r_ret,
                 now, next_id, written, delivered, shed>>

OnReadable ==
  /\ r_pc = "idle" /\ rd_event
  /\ rd_event' = FALSE
  /\ r_pc' = "ready"
  /\ UNCHANGED <<senderVars, established, snd, rcv, fin, reset, wr_event, msg_reader,
                 dec_ctx, is_something_read, r_ret, now, next_id, written, delivered, shed>>

(* read returns the message or error res.  The application calls it again   *)
(* after a message; after an error it drops the socket, or reads on.        *)
ReadReturns(res) ==
  \/ /\ res.tag = "Some"
     /\ delivered' = Append(delivered, [id |-> res.id, size |-> res.size])
     /\ r_ret' = "Some"
     /\ r_pc' = "ready"
  \/ /\ res.tag = "Err"
     /\ r_ret' = res.err
     /\ r_pc' = IF res.err \in KeepOnErr THEN "ready" ELSE "closed"
     /\ UNCHANGED delivered
  \/ /\ res.tag \in {"None", "Interrupted"}
     /\ r_ret' = res.tag
     /\ r_pc' = "idle"
     /\ UNCHANGED delivered

(* read up to its loop: a message in the buffer, or an error, is returned   *)
(* at once.                                                                 *)
ReadBuffered ==
  \E o \in try_read(msg_reader, dec_ctx) :
    /\ r_pc = "ready" /\ ~DecSwitchDue
    /\ msg_reader' = o.reader
    /\ \/ o.res = None /\ r_pc' = "recv" /\ r_ret' = "-" /\ UNCHANGED delivered
       \/ o.res # None /\ ReadReturns(o.res)
    /\ UNCHANGED <<senderVars, kernelVars, dec_ctx, is_something_read, now, next_id,
                   written, shed>>

(* stream.read returned bytes: as many as there are and the buffer holds. *)
RecvData ==
  LET n == IF Len(rcv) < BufLen THEN Len(rcv) ELSE BufLen
  IN  /\ r_pc = "recv" /\ n > 0
      /\ msg_reader' = put_buf(msg_reader, SubSeq(rcv, 1, n))
      /\ rcv' = SubSeq(rcv, n + 1, Len(rcv))
      /\ is_something_read' = TRUE
      /\ UNCHANGED <<senderVars, established, snd, fin, reset, wr_event, rd_event, dec_ctx,
                     r_pc, r_ret, now, next_id, written, delivered, shed>>

(* The loop ends and read tries the buffer again if it read something; `or` *)
(* is what it returns when there is no message.                             *)
LoopEnds(or) ==
  /\ is_something_read' = FALSE
  /\ UNCHANGED <<senderVars, kernelVars, dec_ctx, now, next_id, written, shed>>
  /\ \/ /\ is_something_read
        /\ \E o \in try_read(msg_reader, dec_ctx) :
             /\ msg_reader' = o.reader
             /\ ReadReturns(IF o.res = None THEN or ELSE o.res)
     \/ /\ ~is_something_read
        /\ ReadReturns(or)
        /\ UNCHANGED msg_reader

(* The loop ends and read returns without a second look into the buffer. *)
LoopEndsAtOnce(or) ==
  /\ is_something_read' = FALSE
  /\ ReadReturns(or)
  /\ UNCHANGED <<senderVars, kernelVars, msg_reader, dec_ctx, now, next_id, written, shed>>

NothingToRead == r_pc = "recv" /\ rcv = <<>> /\ fin # "arrived" /\ ~reset

RecvWouldBlock_at_once == NothingToRead /\ LoopEndsAtOnce(None)

RecvWouldBlock == NothingToRead /\ LoopEnds(None)

(* The same for a call that was interrupted, with whatever there is to read *)
(* left in the kernel; r_ret tells its Ok(None) apart for the properties.   *)
RecvInterrupted ==
  MayInterrupt /\ r_pc = "recv" /\ LoopEnds([tag |-> "Interrupted"])

AtEof == r_pc = "recv" /\ rcv = <<>> /\ fin = "arrived"

RecvEof_at_once == AtEof /\ LoopEndsAtOnce(Err("ZeroByteRead"))

RecvEof_as_would_block == AtEof /\ LoopEnds(None)

(* stream.read returned 0 bytes. *)
RecvEof == AtEof /\ LoopEnds(Err("ZeroByteRead"))

(* Any other error is returned at once, whatever was read before it. *)
RecvErr == r_pc = "recv" /\ reset /\ LoopEndsAtOnce(Err("Io"))

(* The receiver's application drops its socket. *)
DropReceiver ==
  /\ AllowClose /\ r_pc \in {"idle", "ready"}
  /\ r_pc' = "closed"
  /\ UNCHANGED <<senderVars, kernelVars, msg_reader, dec_ctx, is_something_read, r_ret,
                 now, next_id, written, delivered, shed>>

-----------------------------------------------------------------------------
Flush ==
  \/ \E n \in 1 .. SndCap : FlushSend(n)
  \/ FlushDone \/ FlushWouldBlock \/ FlushInterrupted \/ FlushErr

Sender ==
  \/ \E p \in Priority, l \in Lens : Write(p, l)
  \/ WriteUnencodable \/ OnWritable \/ Flush \/ SetEncryptCtx \/ DropSender

Recv == RecvData \/ RecvWouldBlock \/ RecvInterrupted \/ RecvEof \/ RecvErr

Receiver == OnReadable \/ ReadBuffered \/ Recv \/ SetDecryptCtx \/ DropReceiver

Kernel == (\E n \in 1 .. RcvCap : Deliver(n)) \/ Establish \/ FinArrive \/ Reset

Next == Sender \/ Receiver \/ Kernel \/ Tick

Spec == Init /\ [][Next]_vars

(* The event loop runs its handlers to the end and the network delivers:    *)
(* nothing makes the application write, drop a socket or reset it.          *)
Fairness ==
  /\ WF_vars(OnWritable) /\ WF_vars(Flush)
  /\ WF_vars(OnReadable) /\ WF_vars(ReadBuffered) /\ WF_vars(SetDecryptCtx)
  /\ WF_vars(Recv) /\ WF_vars(Establish)
  /\ WF_vars(\E n \in 1 .. RcvCap : Deliver(n)) /\ WF_vars(FinArrive)

FairSpec == Spec /\ Fairness

-----------------------------------------------------------------------------
Frame == [id : Nat, priority : Priority, len : Lens, ctx : {FirstCtx, SecondCtx}]

Cell == [frame : Frame, k : Nat]

(* The variables have their types. *)
TypeOK ==
  /\ DOMAIN out_queue \subseteq Priority
  /\ out_queue \in [DOMAIN out_queue -> Seq([at : Nat, msg : Seq(Cell)])]
  /\ {current_write, snd, rcv} \subseteq Seq(Cell)
  /\ {enc_ctx, dec_ctx} \subseteq {FirstCtx, SecondCtx}
  /\ w_pc \in {"idle", "flush", "closed"}
  /\ w_ret \in {"-", "true", "false", "Interrupted", "Io"}
  /\ fin \in {"no", "sent", "arrived"}
  /\ {established, reset, wr_event, rd_event, is_something_read} \subseteq BOOLEAN
  /\ msg_reader \in [read_buffer : Seq(Cell), read_len : Nat]
  /\ r_pc \in {"idle", "ready", "recv", "closed"}
  /\ r_ret \in {"-", "Some", "None", "Interrupted", "Crypto", "PayloadSizeProhibitive",
                "ZeroByteRead", "Io"}
  /\ {now, w_msg} \subseteq Nat /\ next_id \in Nat \ {0}
  /\ written \in Seq(Frame) /\ shed \subseteq Frame
  /\ delivered \in Seq([id : Nat, size : Nat])

(* The bytes on the way from the sender to the next message of the reader. *)
Stream == msg_reader.read_buffer \o rcv \o snd \o current_write

(* b is the byte that comes after a: the next of the same frame, or the     *)
(* first of another when a is the last of its frame.                        *)
Follows(a, b) ==
  IF a.k < encrypted_size_len(a.frame.ctx) + a.frame.len
  THEN b = [frame |-> a.frame, k |-> a.k + 1]
  ELSE b.frame # a.frame /\ b.k = 1

(* However partial writes, urgent messages, expiry and changes of context   *)
(* interleave, the bytes on the way are whole frames back to back: no frame *)
(* is cut open by another, and the frame being written ends with            *)
(* current_write.  (A reset discards bytes, a dropped socket the rest of    *)
(* its frame.)                                                              *)
WellFramed ==
  LET last == current_write[Len(current_write)]
  IN  /\ ~reset => \A i \in 1 .. Len(Stream) - 1 : Follows(Stream[i], Stream[i + 1])
      /\ current_write # <<>> =>
           last.k = encrypted_size_len(last.frame.ctx) + last.frame.len

(* read returns the messages that were written: intact, each once, in the   *)
(* order their frames entered the stream, with nothing in between, even     *)
(* after a reset or an end of stream in the middle of a frame.  A message   *)
(* whose length does not fit the 32 bits of its header is not returned as   *)
(* something else.                                                          *)
DeliveredInOrder ==
  /\ Len(delivered) <= Len(written)
  /\ \A i \in 1 .. Len(delivered) :
       delivered[i] = [id |-> written[i].id, size |-> written[i].len]

(* A message longer than max_payload_size is never returned by read. *)
NothingOversized ==
  \A i \in 1 .. Len(delivered) : delivered[i].size <= max_payload_size

(* While no readable edge is pending and the application waits for one,     *)
(* neither the kernel nor the reader holds a whole message: with edge-      *)
(* triggered polling nothing would ask for it again.  This is what Ok(None) *)
(* tells the application ("there is not enough data in the socket").  The   *)
(* one exception is a call that was interrupted, until the next edge.       *)
NoStrandedMessage ==
  r_pc = "idle" /\ ~rd_event /\ r_ret # "Interrupted" =>
    /\ rcv = <<>>
    /\ \A o \in try_read(msg_reader, dec_ctx) : o.res = None

(* The same for the sender: data waits only while the kernel's buffer is    *)
(* full or the stream connects, so a writable edge will come, unless the    *)
(* last flush was interrupted.  Neither an unencodable message nor one      *)
(* written before the connection is there leaves anything behind.           *)
NoStrandedWrite ==
  w_pc = "idle" /\ HasData /\ ~wr_event /\ ~reset /\ w_ret # "Interrupted" => MustWait

(* However much a peer sent, what the reader keeps while the application    *)
(* waits is less than one header or one body within the limit: the receive  *)
(* loop has no bound of its own, and the buffer grows as far as a call goes *)
(* on, but never from one event to the next.                                *)
ReaderBounded ==
  r_pc = "idle" =>
    /\ msg_reader.read_len <= max_payload_size
    /\ Len(msg_reader.read_buffer) <
         IF msg_reader.read_len = 0 THEN encrypted_size_len(dec_ctx) ELSE msg_reader.read_len

(* The end of the stream is reported after every message whose last byte    *)
(* was accepted before the sender went away.                                *)
EofAfterAll ==
  r_ret = "ZeroByteRead" =>
    [i \in DOMAIN delivered |-> delivered[i].id] = [i \in DOMAIN written |-> written[i].id]

(* Decryption never fails: the two ends agree on the context of each frame. *)
ContextsAgree == r_ret # "Crypto"

(* A frame is begun only when no more urgent one is queued: an urgent       *)
(* message waits for the frame being written and for no other.              *)
UrgentFirst ==
  [][current_write = <<>> /\ Len(snd') > Len(snd) =>
       \A f \in FramesOf(Queued(out_queue)) :
         snd'[Len(snd')].frame.priority <= f.priority]_vars

(* write returns Ok(true) only when its own message is written to the last  *)
(* byte, whatever else was queued before it.  (Ok(false) does not mean the  *)
(* opposite: it may be a less urgent message that is left.)                 *)
OkTrueMeansWritten ==
  w_ret = "true" /\ w_msg # 0 => \E i \in 1 .. Len(written) : written[i].id = w_msg

-----------------------------------------------------------------------------
MsgOf(f) == [id |-> f.id, priority |-> f.priority]

(* The connection implements the channel it promises to be. *)
Channel == INSTANCE MsgChannel
  WITH waiting <- {MsgOf(f) : f \in FramesOf(Queued(out_queue) \cup
                                      IF current_write = <<>> THEN {} ELSE {current_write})},
       accepted <- next_id - 1,
       sent <- [i \in DOMAIN written |-> MsgOf(written[i])],
       delivered <- Len(delivered),
       broken <- reset \/ w_pc = "closed"

ImplementsMsgChannel == Channel!Spec

IsDelivered(id) == \E i \in 1 .. Len(delivered) : delivered[i].id = id
IsWritten(id) == \E i \in 1 .. Len(written) : written[i].id = id
IsShed(id) == \E f \in shed : f.id = id

(* Every accepted message is written or shed, unless one of the sockets is  *)
(* dropped first or the last call of either was interrupted.                *)
AcceptedIsWritten ==
  \A id \in 1 .. MaxMsgs :
    next_id > id ~> \/ IsWritten(id) \/ IsShed(id)
                    \/ "closed" \in {w_pc, r_pc} \/ "Interrupted" \in {w_ret, r_ret}

(* Every written message is delivered, unless the receiver is dropped by    *)
(* its own side or its last call was interrupted: a sender that goes away   *)
(* takes back nothing.                                                      *)
WrittenIsDelivered ==
  \A id \in 1 .. MaxMsgs :
    IsWritten(id) ~> \/ IsDelivered(id) \/ r_ret = "Interrupted"
                     \/ r_pc = "closed" /\ r_ret # "ZeroByteRead"

(* The receiver learns that the sender is gone. *)
CloseIsSeen ==
  fin # "no" /\ established ~> r_pc = "closed" \/ r_ret = "Interrupted"
=============================================================================
