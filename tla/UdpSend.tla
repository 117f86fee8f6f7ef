------------------------------- MODULE UdpSend -------------------------------
(***************************************************************************)
(* The sending half of a UdpSock (src/udp.rs).  write and write_to are the  *)
(* same code over two pairs of fields: out_queue and current_write,         *)
(* out_queue2 and current_write_2; here they are functions of the mode,     *)
(* "write" or "write_to".  The network takes datagrams from a kernel buffer *)
(* and owes nothing after that; the receiving half is UdpRecv.              *)
(*                                                                          *)
(* The application calls write(None) and write_to(None) on a writable       *)
(* event, calls a method again when it returned an error, and writes        *)
(* messages at any time, also before connect.                               *)
(***************************************************************************)
EXTENDS OutQueue, FiniteSets

CONSTANTS
  SndCap,        \* capacity of the kernel's send buffer, in datagrams
  MaxMsgs,       \* bound: number of messages written
  MaxNow,        \* bound: last tick of the clock
  MaxErrs,       \* bound: transient errors of send, such as a refused connection
  MaxPartial,    \* bound: datagrams the kernel takes only in part
  MayInterrupt   \* whether send may fail with Interrupted

ASSUME UdpSendAssumption ==
  /\ SndCap \in Nat \ {0} /\ MaxMsgs \in Nat /\ MaxNow \in Nat
  /\ MaxErrs \in Nat /\ MaxPartial \in Nat /\ MayInterrupt \in BOOLEAN

Modes == {"write", "write_to"}

VARIABLES
  out_queue,      \* out_queue.inner and out_queue2.inner, by mode
  current_write,  \* current_write and current_write_2, by mode; <<>> is None
  peer,           \* Inner.peer is Some
  w_pc,           \* "idle", "gone", or the method whose flush loop runs
  interrupted,    \* history: the methods whose last flush was interrupted
  to_flush,       \* methods the application is about to call with None
  wr_event,       \* a writable edge is pending
  in_kernel,      \* number of datagrams in the kernel's send buffer
  now,            \* the clock
  next_id,        \* history: id of the next message accepted
  given,          \* history: ids of the messages each method accepted
  sent,           \* history: [mode, msg, whole] of the datagrams sent, in order
  shed,           \* history: messages drop_expired removed, by the method called
  lost            \* history: messages taken when send failed, by the method called

vars == <<out_queue, current_write, peer, w_pc, interrupted, to_flush, wr_event,
          in_kernel, now, next_id, given, sent, shed, lost>>

Init ==
  /\ out_queue = [m \in Modes |-> new]
  /\ current_write = [m \in Modes |-> <<>>]
  /\ peer = FALSE
  /\ w_pc = "idle" /\ interrupted = {}
  /\ to_flush = {} /\ wr_event = FALSE /\ in_kernel = 0
  /\ now = 0 /\ next_id = 1 /\ sent = <<>>
  /\ given = [m \in Modes |-> {}]
  /\ shed = [m \in Modes |-> {}] /\ lost = [m \in Modes |-> {}]

-----------------------------------------------------------------------------
(* UdpSock::connect. *)
Connect ==
  /\ w_pc = "idle" /\ ~peer
  /\ peer' = TRUE
  /\ UNCHANGED <<out_queue, current_write, w_pc, interrupted, to_flush, wr_event,
                 in_kernel, now, next_id, given, sent, shed, lost>>

Kept(m) == drop_expired(out_queue[m], now)

(* Every call begins with drop_expired on the queue of its method. *)
StartCall(m) ==
  /\ w_pc = "idle"
  /\ shed' = [shed EXCEPT ![m] = @ \cup (Queued(out_queue[m]) \ Queued(Kept(m)))]
  /\ UNCHANGED <<current_write, peer, interrupted, in_kernel, now, sent, lost>>

Enqueue_out_queue(m, p) ==
  LET x == [id |-> next_id, priority |-> p]
      q == [out_queue EXCEPT ![m] = Kept(m)]
  IN  /\ next_id <= MaxMsgs
      /\ StartCall(m)
      /\ out_queue' = [q EXCEPT !["write"] = push_at(@, now, x, p)]
      /\ next_id' = next_id + 1
      /\ given' = [given EXCEPT ![m] = @ \cup {next_id}]
      /\ UNCHANGED <<to_flush, wr_event>>

Enqueue(m, p) ==
  /\ next_id <= MaxMsgs
  /\ StartCall(m)
  /\ out_queue' = [out_queue EXCEPT ![m] =
                     push_at(Kept(m), now, [id |-> next_id, priority |-> p], p)]
  /\ next_id' = next_id + 1
  /\ given' = [given EXCEPT ![m] = @ \cup {next_id}]
  /\ UNCHANGED <<to_flush, wr_event>>

Write_without_flush(m, p) == Enqueue(m, p) /\ w_pc' = "idle"

(* write(Some), write_to(Some) up to the flush. *)
Write(m, p) == Enqueue(m, p) /\ w_pc' = m

(* The same of a message that does not serialise: the queue is not flushed. *)
WriteUnencodable(m) ==
  /\ StartCall(m)
  /\ w_pc' = "idle"
  /\ out_queue' = [out_queue EXCEPT ![m] = Kept(m)]
  /\ UNCHANGED <<to_flush, wr_event, next_id, given>>

(* The writable handler calls write(None) and write_to(None). *)
OnWritable ==
  /\ w_pc = "idle" /\ to_flush = {} /\ wr_event
  /\ wr_event' = FALSE
  /\ to_flush' = Modes
  /\ UNCHANGED <<out_queue, current_write, peer, w_pc, interrupted, in_kernel, now,
                 next_id, given, sent, shed, lost>>

WriteNone(m) ==
  /\ m \in to_flush
  /\ to_flush' = to_flush \ {m}
  /\ StartCall(m)
  /\ w_pc' = m
  /\ out_queue' = [out_queue EXCEPT ![m] = Kept(m)]
  /\ UNCHANGED <<wr_event, next_id, given>>

-----------------------------------------------------------------------------
(* flush_write_until_would_block, flush_write_to_until_would_block: one     *)
(* turn of the loop per action, handle_send_res included.                   *)

HasData(m) == current_write[m] # <<>> \/ DOMAIN out_queue[m] # {}

(* current_write.take().or_else(|| out_queue.next_msg()) ... *)
Data(m) ==
  IF current_write[m] # <<>> THEN current_write[m][1] ELSE next_msg(out_queue[m])

(* ... and the queue it leaves. *)
QueueWithoutData(m) ==
  IF current_write[m] # <<>> THEN out_queue[m] ELSE after_next_msg(out_queue[m])

(* A turn takes the data; what handle_send_res puts back is `again`. *)
Turn(m, again) ==
  /\ w_pc = m /\ HasData(m)
  /\ out_queue' = [out_queue EXCEPT ![m] = QueueWithoutData(m)]
  /\ current_write' = [current_write EXCEPT ![m] = again]
  /\ UNCHANGED <<peer, wr_event, now, next_id, given, shed>>

(* The call ends, and whether it does because it was interrupted. *)
Returned(m, why) ==
  /\ w_pc' = "idle"
  /\ interrupted' = (interrupted \ {m}) \cup (IF why = "Interrupted" THEN {m} ELSE {})

(* Nothing is left to send. *)
FlushDone(m) ==
  /\ w_pc = m /\ ~HasData(m)
  /\ Returned(m, "Ok")
  /\ UNCHANGED <<out_queue, current_write, peer, to_flush, wr_event, in_kernel,
                 now, next_id, given, sent, shed, lost>>

(* send of an unconnected socket has no destination. *)
CanSend(m) == peer \/ m = "write_to"

(* The kernel takes the datagram, or a part of it. *)
KernelTakes(m, whole) ==
  /\ CanSend(m) /\ in_kernel < SndCap
  /\ sent' = Append(sent, [mode |-> m, msg |-> Data(m), whole |-> whole])
  /\ in_kernel' = in_kernel + 1
  /\ UNCHANGED <<to_flush, lost>>

FlushSend(m) ==
  Turn(m, <<>>) /\ KernelTakes(m, TRUE) /\ UNCHANGED <<w_pc, interrupted>>

MayTruncate == Cardinality({i \in DOMAIN sent : ~sent[i].whole}) < MaxPartial

(* Of a datagram taken in part, the whole is sent again. *)
FlushPartial(m) ==
  /\ MayTruncate
  /\ Turn(m, <<Data(m)>>) /\ KernelTakes(m, FALSE) /\ UNCHANGED <<w_pc, interrupted>>

NotSent(m, again, why) ==
  /\ CanSend(m) /\ Turn(m, again) /\ Returned(m, why)
  /\ UNCHANGED <<to_flush, in_kernel, sent, lost>>

(* The kernel's buffer is full. *)
FlushWouldBlock(m) == in_kernel = SndCap /\ NotSent(m, <<Data(m)>>, "Ok")

(* The same result, Ok(false), for a call that was interrupted. *)
FlushInterrupted(m) == MayInterrupt /\ NotSent(m, <<Data(m)>>, "Interrupted")

Lost == UNION {lost[m] : m \in Modes}

SendFails(m, again) ==
  /\ ~CanSend(m) \/ Cardinality(Lost) < MaxErrs
  /\ Turn(m, again) /\ Returned(m, "Err")
  /\ to_flush' = to_flush \cup {m}
  /\ UNCHANGED <<in_kernel, sent>>

FlushErr_requeues(m) == SendFails(m, <<Data(m)>>) /\ UNCHANGED lost

(* Any other error is returned: the message taken is gone, and the rest of  *)
(* the queue is left for another call.                                      *)
FlushErr(m) == SendFails(m, <<>>) /\ lost' = [lost EXCEPT ![m] = @ \cup {Data(m)}]

(* into_underlying_sock, or the socket is dropped. *)
IntoUnderlyingSock ==
  /\ w_pc = "idle"
  /\ w_pc' = "gone"
  /\ out_queue' = [m \in Modes |-> new] /\ current_write' = [m \in Modes |-> <<>>]
  /\ to_flush' = {}
  /\ UNCHANGED <<peer, interrupted, wr_event, in_kernel, now, next_id, given, sent,
                 shed, lost>>

-----------------------------------------------------------------------------
(* The kernel puts a datagram on the network.  Room in a buffer that was    *)
(* full is a writable edge.                                                 *)
Transmit ==
  /\ in_kernel > 0
  /\ in_kernel' = in_kernel - 1
  /\ wr_event' = (wr_event \/ in_kernel = SndCap)
  /\ UNCHANGED <<out_queue, current_write, peer, w_pc, interrupted, to_flush, now,
                 next_id, given, sent, shed, lost>>

Tick ==
  /\ now < MaxNow
  /\ now' = now + 1
  /\ UNCHANGED <<out_queue, current_write, peer, w_pc, interrupted, to_flush, wr_event,
                 in_kernel, next_id, given, sent, shed, lost>>

Flush(m) ==
  \/ FlushDone(m) \/ FlushSend(m) \/ FlushPartial(m) \/ FlushWouldBlock(m)
  \/ FlushInterrupted(m) \/ FlushErr(m)

Next ==
  \/ \E m \in Modes : \/ \E p \in Priority : Write(m, p)
                      \/ WriteUnencodable(m) \/ WriteNone(m) \/ Flush(m)
  \/ Connect \/ OnWritable \/ IntoUnderlyingSock \/ Transmit \/ Tick

Spec == Init /\ [][Next]_vars

(* The handler of the application runs to the end and the kernel transmits; *)
(* nothing makes the application write or connect.                          *)
Handler == OnWritable \/ \E m \in Modes : WriteNone(m) \/ Flush(m)

Fairness == WF_vars(Handler) /\ WF_vars(Transmit)

FairSpec == Spec /\ Fairness

-----------------------------------------------------------------------------
Message == [id : Nat, priority : Priority]

(* The variables have their types. *)
TypeOK ==
  /\ DOMAIN out_queue = Modes
  /\ \A m \in Modes :
       /\ DOMAIN out_queue[m] \subseteq Priority
       /\ out_queue[m] \in [DOMAIN out_queue[m] -> Seq([at : Nat, msg : Message])]
  /\ current_write \in [Modes -> Seq(Message)]
  /\ {peer, wr_event} \subseteq BOOLEAN
  /\ w_pc \in {"idle", "gone"} \cup Modes
  /\ interrupted \subseteq Modes /\ to_flush \subseteq Modes /\ in_kernel \in 0 .. SndCap
  /\ now \in Nat /\ next_id \in Nat \ {0}
  /\ sent \in Seq([mode : Modes, msg : Message, whole : BOOLEAN])
  /\ given \in [Modes -> SUBSET Nat]
  /\ shed \in [Modes -> SUBSET Message] /\ lost \in [Modes -> SUBSET Message]

(* What a method still has to send: its queue and its current_write. *)
Held(m) == {current_write[m][i] : i \in DOMAIN current_write[m]}

Waits(m) == Queued(out_queue[m]) \cup Held(m)

Waiting == UNION {Waits(m) : m \in Modes}

(* The datagrams a method sent whole. *)
WholeSends(m) == {i \in DOMAIN sent : sent[i].whole /\ sent[i].mode = m}

SentWhole(m) == {sent[i].msg : i \in WholeSends(m)}

(* A message given to write or write_to is, of that same method, waiting,   *)
(* sent whole, shed, or in hand when send failed: in exactly one of these,  *)
(* so none is sent twice whole or forgotten by the hand-over between queue, *)
(* current_write and kernel, and the two methods never queue, send, shed or *)
(* lose each other's messages.  What is shed is droppable.                  *)
EveryMessageAccounted ==
  w_pc # "gone" =>
    \A m \in Modes :
      LET groups == <<Waits(m), SentWhole(m), shed[m], lost[m]>>
      IN  /\ {x.id : x \in UNION {groups[i] : i \in 1 .. 4}} = given[m]
          /\ \A i, j \in 1 .. 4 : i # j => groups[i] \cap groups[j] = {}
          /\ Cardinality(WholeSends(m)) = Cardinality(SentWhole(m))
          /\ \A x \in shed[m] : x.priority >= msg_drop_priority

(* Through one method, messages of one priority are sent in the order they  *)
(* were written, also when one of them had to wait in current_write or was  *)
(* sent in part.                                                            *)
SentInOrder ==
  \A i, j \in DOMAIN sent :
    /\ i < j /\ sent[i].mode = sent[j].mode
    /\ sent[i].msg.priority = sent[j].msg.priority
    => sent[i].msg.id <= sent[j].msg.id

(* Data waits for a writable edge only when one will come: the kernel's     *)
(* buffer is full or the event is on its way to the handler.  The two       *)
(* methods share that one edge.  (A flush that was interrupted leaves its   *)
(* data to the next call.)                                                  *)
NoStrandedWrite ==
  \A m \in Modes :
    w_pc = "idle" /\ HasData(m) =>
      m \in to_flush \cup interrupted \/ wr_event \/ in_kernel = SndCap

(* What the comment of handle_send_res says: "If failed to send a messages, *)
(* requeue it."                                                             *)
FailedSendRequeued == w_pc # "gone" => Lost \subseteq Waiting

(* Whatever was written, a moment comes when nothing waits any more: every  *)
(* message was sent, shed, or in hand when send failed (see                 *)
(* EveryMessageAccounted).  Neither an error nor a message that does not    *)
(* serialise holds up the others.  The exceptions are a socket taken apart, *)
(* and a method whose last flush was interrupted.                           *)
AcceptedIsSent ==
  next_id > 1 ~> Waiting = {} \/ w_pc = "gone" \/ interrupted # {}
=============================================================================
