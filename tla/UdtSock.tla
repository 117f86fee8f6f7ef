------------------------------ MODULE UdtSock ------------------------------
(***************************************************************************)
(* One direction of a UDT connection between two UdtSocks                   *)
(* (src/udt/udt_sock.rs; the crate keeps the source but no longer builds    *)
(* it).  The socket has its own copy of the queue with expiry and of the    *)
(* framing, without encryption; the queue is OutQueue's, the framing that   *)
(* of LenDelimitedReader under NullCtx but for empty messages.              *)
(*                                                                          *)
(* The UDT library is external: a byte stream with a buffer that is there   *)
(* once the rendezvous is done and may break at any time.  Events come from *)
(* an event loop; which, and when, is left to UdtConnection.  The           *)
(* application writes once the connection is there, calls write(None) on a  *)
(* writable event, and on a readable one read until it returns None.        *)
(***************************************************************************)
EXTENDS OutQueue, LenDelimitedReader

CONSTANTS
  Kinds,      \* the priorities and body lengths messages may have
  Cap,        \* capacity of the library's buffers, in bytes
  KeepOnErr,  \* the errors of read after which the application reads on
  MaxMsgs,    \* bound: number of messages written
  MaxNow      \* bound: last tick of the clock

ASSUME UdtSockAssumption ==
  /\ Kinds \subseteq [priority : Priority, len : Nat]
  /\ Cap \in Nat \ {0} /\ MaxMsgs \in Nat /\ MaxNow \in Nat
  /\ KeepOnErr \subseteq {"Udt"}

VARIABLES
  write_queue,        \* sender: Inner.write_queue
  current_write,      \* sender: Inner.current_write; <<>> is None
  w_pc,               \* sender: "idle", "flush" (inside the loop) or "closed"
  link,               \* library: "connecting", "up" or "broken"
  pipe,               \* library: bytes accepted by send and not yet taken by recv
  arrived,            \* library: how many of them are with the receiver
  read_state,         \* receiver: [read_buffer, read_len]
  is_something_read,  \* receiver: the local variable of read; FALSE outside of it
  r_pc,               \* receiver: "idle", "ready" (to call read), "recv" or "closed"
  events,             \* events on their way to the application, of "snd" and "rcv"
  now,                \* the clock
  next_id,            \* history: id of the next message accepted by write
  written,            \* history: frames whose last byte was accepted, in order
  delivered,          \* history: ids of the messages read returned, in order
  gone                \* history: frames shed, or in hand when send failed

senderVars == <<write_queue, current_write, w_pc>>
receiverVars == <<read_state, is_something_read, r_pc>>
libVars == <<link, pipe, arrived>>
sockVars == <<senderVars, libVars, receiverVars, events, now, next_id, written, delivered,
              gone>>

(* wrap_std_sock and connect: a rendezvous that goes on in the background. *)
InitSock ==
  /\ write_queue = new /\ current_write = <<>> /\ w_pc = "idle"
  /\ link = "connecting" /\ pipe = <<>> /\ arrived = 0
  /\ read_state = new_reader /\ is_something_read = FALSE /\ r_pc = "idle"
  /\ events = {} /\ now = 0
  /\ next_id = 1 /\ written = <<>> /\ delivered = <<>> /\ gone = {}

FramesOf(datas) == {d[1].frame : d \in datas}

-----------------------------------------------------------------------------
(* Inner::write.                                                            *)

(* The queue after the keys of expired_keys are removed. *)
Kept == drop_expired(write_queue, now)

StartWrite ==
  /\ w_pc = "idle"
  /\ gone' = gone \cup FramesOf(Queued(write_queue) \ Queued(Kept))
  /\ UNCHANGED <<current_write, libVars, receiverVars, now, written, delivered>>

(* A message is framed and queued. *)
Write(m) ==
  LET f == [id |-> next_id, priority |-> m.priority, len |-> m.len, ctx |-> NullCtx]
  IN  /\ next_id <= MaxMsgs /\ link # "connecting"
      /\ StartWrite
      /\ write_queue' = push_at(Kept, now, serialize_with_len(f), m.priority)
      /\ next_id' = next_id + 1
      /\ w_pc' = "flush"
      /\ UNCHANGED events

(* serialise_into fails: the call returns without a flush. *)
WriteUnencodable ==
  StartWrite /\ write_queue' = Kept /\ UNCHANGED <<w_pc, next_id, events>>

(* write(None) on a writable event. *)
OnWritable ==
  /\ "snd" \in events
  /\ events' = events \ {"snd"}
  /\ StartWrite /\ write_queue' = Kept /\ w_pc' = "flush"
  /\ UNCHANGED next_id

HasData == current_write # <<>> \/ DOMAIN write_queue # {}

Data == IF current_write # <<>> THEN current_write ELSE next_msg(write_queue)

(* A turn of the loop takes the data and leaves `rest` in current_write. *)
Turn(rest) ==
  /\ w_pc = "flush" /\ HasData
  /\ write_queue' = IF current_write # <<>> THEN write_queue ELSE after_next_msg(write_queue)
  /\ current_write' = rest
  /\ UNCHANGED <<link, arrived, receiverVars, events, now, next_id, delivered>>

FlushDone ==
  /\ w_pc = "flush" /\ ~HasData
  /\ w_pc' = "idle"
  /\ UNCHANGED <<write_queue, current_write, libVars, receiverVars, events, now, next_id,
                 written, delivered, gone>>

(* send accepts the first n bytes of the data; what becomes of the rest. *)
Accepted(n, rest) ==
  /\ Turn(rest)
  /\ link = "up" /\ n <= Len(Data) /\ Len(pipe) + n <= Cap
  /\ pipe' = pipe \o SubSeq(Data, 1, n)
  /\ written' = IF n = Len(Data) THEN Append(written, Data[1].frame) ELSE written
  /\ UNCHANGED <<w_pc, gone>>

FlushSend_whole_again(n) == Accepted(n, IF n < Len(Data) THEN Data ELSE <<>>)

FlushSend(n) == Accepted(n, SubSeq(Data, n + 1, Len(Data)))

FlushWouldBlock_forgets ==
  /\ link = "up" /\ Len(pipe) = Cap
  /\ Turn(<<>>) /\ w_pc' = "idle"
  /\ UNCHANGED <<pipe, written, gone>>

(* EASYNCSND: there is no room. *)
FlushWouldBlock ==
  /\ link = "up" /\ Len(pipe) = Cap
  /\ Turn(Data) /\ w_pc' = "idle"
  /\ UNCHANGED <<pipe, written, gone>>

(* Any other error, or a negative count: the data taken is gone. *)
FlushErr ==
  /\ link = "broken"
  /\ Turn(<<>>) /\ w_pc' = "idle"
  /\ gone' = gone \cup {Data[1].frame}
  /\ UNCHANGED <<pipe, written>>

-----------------------------------------------------------------------------
(* Inner::read.                                                             *)

read_from_buffer_as_tcp(rd) == try_read(rd, NullCtx)

(* read_from_buffer: a pending length skips the header.  Unlike that of TCP *)
(* it returns an empty message.  The message is deserialised from the whole *)
(* buffer, and then as many bytes are consumed as its header said.          *)
read_from_buffer(rd) ==
  IF rd.read_len # 0 \/ Len(rd.read_buffer) < SERIALIZED_U32_LEN THEN try_read(rd, NullCtx)
  ELSE UNION {IF o.res # None THEN {o}
              ELSE IF o.reader.read_len > 0 THEN try_read_body(o.reader, NullCtx)
              ELSE {[res |-> Some(rd.read_buffer[1].frame.id, 0), reader |-> o.reader]} :
                o \in try_read_header(rd, NullCtx)}

OnReadable ==
  /\ "rcv" \in events /\ r_pc = "idle"
  /\ events' = events \ {"rcv"}
  /\ r_pc' = "ready"
  /\ UNCHANGED <<senderVars, libVars, read_state, is_something_read, now, next_id, written,
                 delivered, gone>>

(* read returns; the application reads on after a message, and may do so    *)
(* after an error of the library; after any other it drops the socket.      *)
ReadReturns(res) ==
  /\ \/ res.tag = "Some" /\ r_pc' = "ready"
     \/ res.tag = "None" /\ r_pc' = "idle"
     \/ res.tag = "Err" /\ r_pc' = IF res.err \in KeepOnErr THEN "ready" ELSE "closed"
  /\ delivered' = IF res.tag = "Some" THEN Append(delivered, res.id) ELSE delivered
  /\ UNCHANGED <<senderVars, link, events, now, next_id, written, gone>>

(* The start of a call: a buffered message, or on to the loop. *)
ReadBuffered ==
  /\ r_pc = "ready"
  /\ \E o \in read_from_buffer(read_state) :
       /\ read_state' = o.reader
       /\ \/ o.res # None /\ ReadReturns(o.res)
          \/ /\ o.res = None /\ r_pc' = "recv"
             /\ UNCHANGED <<senderVars, link, events, now, next_id, written, delivered, gone>>
  /\ UNCHANGED <<pipe, arrived, is_something_read>>

(* recv returns what is there. *)
RecvData ==
  /\ r_pc = "recv" /\ arrived > 0
  /\ read_state' = put_buf(read_state, SubSeq(pipe, 1, arrived))
  /\ pipe' = SubSeq(pipe, arrived + 1, Len(pipe))
  /\ arrived' = 0 /\ is_something_read' = TRUE
  /\ UNCHANGED <<senderVars, link, r_pc, events, now, next_id, written, delivered, gone>>

(* The loop ends: a message if something was read and there is one, or `or`. *)
LoopEnds(or) ==
  /\ r_pc = "recv" /\ arrived = 0
  /\ is_something_read' = FALSE
  /\ \E o \in IF is_something_read THEN read_from_buffer(read_state)
              ELSE {[res |-> None, reader |-> read_state]} :
       /\ read_state' = o.reader
       /\ ReadReturns(IF o.res = None THEN or ELSE o.res)
  /\ UNCHANGED <<pipe, arrived>>

(* EASYNCRCV: there is nothing to read. *)
RecvWouldBlock == link # "broken" /\ LoopEnds(None)

RecvZero_at_once ==
  /\ r_pc = "recv" /\ arrived = 0 /\ link = "broken"
  /\ ReadReturns(Err("ZeroByteRead"))
  /\ is_something_read' = FALSE
  /\ UNCHANGED <<pipe, arrived, read_state>>

(* recv of a connection that is gone returns 0 ... *)
RecvZero == link = "broken" /\ LoopEnds(Err("ZeroByteRead"))

(* ... or an error, or a negative count, which is returned at once: what    *)
(* was read in this call is not looked at.                                  *)
RecvErr ==
  /\ r_pc = "recv" /\ arrived = 0 /\ link = "broken"
  /\ ReadReturns(Err("Udt"))
  /\ is_something_read' = FALSE
  /\ UNCHANGED <<pipe, arrived, read_state>>

-----------------------------------------------------------------------------
(* The library, the clock, and the application's drop of a socket.          *)

Establish ==
  /\ link = "connecting" /\ "closed" \notin {w_pc, r_pc}
  /\ link' = "up"
  /\ UNCHANGED <<senderVars, pipe, arrived, receiverVars, events, now, next_id, written,
                 delivered, gone>>

Arrive(n) ==
  /\ link = "up" /\ n <= Len(pipe) /\ n > arrived
  /\ arrived' = n
  /\ UNCHANGED <<senderVars, link, pipe, receiverVars, events, now, next_id, written,
                 delivered, gone>>

(* The connection breaks, as it does when an end is closed: what has not    *)
(* arrived is lost.                                                         *)
Break ==
  /\ link # "broken"
  /\ link' = "broken"
  /\ pipe' = SubSeq(pipe, 1, arrived)
  /\ UNCHANGED <<senderVars, arrived, receiverVars, events, now, next_id, written,
                 delivered, gone>>

Tick ==
  /\ now < MaxNow
  /\ now' = now + 1
  /\ UNCHANGED <<senderVars, libVars, receiverVars, events, next_id, written, delivered, gone>>

(* Drop for Inner. *)
DropSender ==
  /\ w_pc = "idle" /\ w_pc' = "closed"
  /\ write_queue' = new /\ current_write' = <<>>
  /\ UNCHANGED <<libVars, receiverVars, events, now, next_id, written, delivered, gone>>

(* What epoll would report: "snd" can take bytes, "rcv" has some, or the    *)
(* connection is gone.                                                      *)
Ready ==
  (IF link = "broken" \/ (link = "up" /\ Len(pipe) < Cap) THEN {"snd"} ELSE {})
    \cup (IF link = "broken" \/ arrived > 0 THEN {"rcv"} ELSE {})

-----------------------------------------------------------------------------
Flush == FlushDone \/ (\E n \in 1 .. Cap : FlushSend(n)) \/ FlushWouldBlock \/ FlushErr

Recv == RecvData \/ RecvWouldBlock \/ RecvZero \/ RecvErr

Library == Establish \/ (\E n \in 1 .. Cap : Arrive(n))

Frame == [id : Nat, priority : Priority, len : {m.len : m \in Kinds}, ctx : {NullCtx}]

Cell == [frame : Frame, k : Nat]

(* The variables of the two sockets and the library have their types. *)
SockTypeOK ==
  /\ DOMAIN write_queue \subseteq Priority
  /\ write_queue \in [DOMAIN write_queue -> Seq([at : Nat, msg : Seq(Cell)])]
  /\ {current_write, pipe} \subseteq Seq(Cell) /\ arrived \in 0 .. Len(pipe)
  /\ w_pc \in {"idle", "flush", "closed"} /\ r_pc \in {"idle", "ready", "recv", "closed"}
  /\ link \in {"connecting", "up", "broken"} /\ Len(pipe) <= Cap
  /\ read_state \in [read_buffer : Seq(Cell), read_len : Nat]
  /\ is_something_read \in BOOLEAN /\ events \subseteq {"snd", "rcv"}
  /\ now \in Nat /\ next_id \in Nat \ {0}
  /\ written \in Seq(Frame) /\ delivered \in Seq(Nat) /\ gone \subseteq Frame

(* read returns the messages that were written, empty ones too: each once,  *)
(* in the order their frames entered the stream, whatever is received in    *)
(* pieces and whenever the connection breaks.                               *)
DeliveredInOrder ==
  /\ Len(delivered) <= Len(written)
  /\ \A i \in 1 .. Len(delivered) : delivered[i] = written[i].id

MsgOf(f) == [id |-> f.id, priority |-> f.priority]

(* The two sockets implement the channel that TCP does. *)
Channel == INSTANCE MsgChannel
  WITH waiting <- {MsgOf(f) : f \in FramesOf(Queued(write_queue) \cup
                                      IF current_write = <<>> THEN {} ELSE {current_write})},
       accepted <- next_id - 1,
       sent <- [i \in DOMAIN written |-> MsgOf(written[i])],
       delivered <- Len(delivered),
       broken <- link = "broken" \/ w_pc = "closed"

ImplementsMsgChannel == Channel!Spec
=============================================================================
