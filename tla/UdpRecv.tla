------------------------------- MODULE UdpRecv -------------------------------
(***************************************************************************)
(* The receiving half of a UdpSock (src/udp.rs).  read and read_frm are the *)
(* same code over two buffers, read_buffer and read_buffer_2; here they are *)
(* a function of the method.  Any datagrams arrive in any order: lost,      *)
(* duplicated and reordered ones, corrupted ones, ones under another        *)
(* context, and empty ones.                                                 *)
(*                                                                          *)
(* On a readable event the application calls one of the methods until it    *)
(* returns None; an error does not stop it.                                 *)
(***************************************************************************)
EXTENDS Crypto

CONSTANTS
  Contexts,      \* the contexts datagrams come under and the socket may be set to
  RcvCap,        \* capacity of the kernel's receive buffer, in datagrams
  MaxArrivals,   \* bound: number of datagrams that arrive
  MaxErrs,       \* bound: transient errors of recv
  MaxSwitches,   \* bound: calls of set_decrypt_ctx
  MayInterrupt   \* whether recv may fail with Interrupted

ASSUME UdpRecvAssumption ==
  /\ RcvCap \in Nat \ {0} /\ MaxArrivals \in Nat /\ MaxErrs \in Nat
  /\ MaxSwitches \in Nat /\ MayInterrupt \in BOOLEAN

Methods == {"read", "read_frm"}

VARIABLES
  read_buffer,  \* read_buffer and read_buffer_2, by method
  dec_ctx,      \* Inner.dec_ctx
  r_pc,         \* "idle", "ready" (to call the method) or "recv" (inside the loop)
  r_method,     \* the method the handler calls
  interrupted,  \* history: the last call returned None because it was interrupted
  rcv,          \* kernel: the datagrams that wait
  rd_event,     \* a readable edge is pending
  errs,         \* number of errors recv returned
  switches,     \* number of calls of set_decrypt_ctx
  arrived,      \* history: the datagrams that arrived, in order
  returned      \* history: [id, under, res] for each datagram a call ended with, in
                \* order: its id, the socket's context then, and what came of it

vars == <<read_buffer, dec_ctx, r_pc, r_method, interrupted, rcv, rd_event, errs, switches,
          arrived, returned>>

(* A datagram: ids number the arrivals, len is 0 for an empty one. *)
Datagram == [id : Nat, ctx : Contexts, len : {0, 1}]

Init ==
  /\ read_buffer = [m \in Methods |-> <<>>]
  /\ dec_ctx \in Contexts
  /\ r_pc = "idle" /\ r_method = "read" /\ interrupted = FALSE
  /\ rcv = <<>> /\ rd_event = FALSE
  /\ errs = 0 /\ switches = 0 /\ arrived = <<>> /\ returned = <<>>

-----------------------------------------------------------------------------
(* The network brings a datagram while the kernel has room for it. *)
Arrive(c, l) ==
  LET d == [id |-> Len(arrived) + 1, ctx |-> c, len |-> l]
  IN  /\ Len(arrived) < MaxArrivals /\ Len(rcv) < RcvCap
      /\ rcv' = Append(rcv, d)
      /\ arrived' = Append(arrived, d)
      /\ rd_event' = TRUE
      /\ UNCHANGED <<read_buffer, dec_ctx, r_pc, r_method, interrupted, errs, switches,
                     returned>>

SetDecryptCtx(c) ==
  /\ r_pc \in {"idle", "ready"} /\ switches < MaxSwitches
  /\ dec_ctx' = c
  /\ switches' = switches + 1
  /\ UNCHANGED <<read_buffer, r_pc, r_method, interrupted, rcv, rd_event, errs, arrived,
                 returned>>

OnReadable(m) ==
  /\ r_pc = "idle" /\ rd_event
  /\ rd_event' = FALSE
  /\ r_pc' = "ready" /\ r_method' = m /\ interrupted' = FALSE
  /\ UNCHANGED <<read_buffer, dec_ctx, rcv, errs, switches, arrived, returned>>

(* dec_ctx.decrypt of a datagram, as the set of its outcomes. *)
decrypt(d, ctx) ==
  IF d.ctx = ctx THEN {d.id} ELSE IF ctx = NullCtx THEN {Failed, Garbage} ELSE {Failed}

Buffer == read_buffer[r_method]

Ending(res) == [id |-> Head(Buffer).id, under |-> dec_ctx, res |-> res]

PopAndDecrypt_peek ==
  \E id \in decrypt(Head(Buffer), dec_ctx) :
    /\ read_buffer' = IF id = Failed THEN read_buffer
                      ELSE [read_buffer EXCEPT ![r_method] = Tail(@)]
    /\ returned' = IF id = Failed THEN returned ELSE Append(returned, Ending(id))

PopAndDecrypt_newest ==
  \E id \in decrypt(Buffer[Len(Buffer)], dec_ctx) :
    /\ read_buffer' = [read_buffer EXCEPT ![r_method] = Tail(@)]
    /\ returned' = Append(returned, Ending(id))

(* The front of the buffer is popped, then decrypted: if that fails, the    *)
(* call returns the error and the datagram is gone.                         *)
PopAndDecrypt ==
  \E id \in decrypt(Head(Buffer), dec_ctx) :
    /\ read_buffer' = [read_buffer EXCEPT ![r_method] = Tail(@)]
    /\ returned' = Append(returned, Ending(id))

(* The start of a call: a buffered datagram, or on to the loop. *)
ReadBuffered ==
  /\ r_pc = "ready"
  /\ \/ Buffer # <<>> /\ PopAndDecrypt /\ UNCHANGED r_pc
     \/ Buffer = <<>> /\ r_pc' = "recv" /\ UNCHANGED <<read_buffer, returned>>
  /\ UNCHANGED <<dec_ctx, r_method, interrupted, rcv, rd_event, errs, switches, arrived>>

(* A datagram is taken from the kernel and the buffer becomes `buf`. *)
Receive(buf) ==
  /\ r_pc = "recv" /\ rcv # <<>>
  /\ rcv' = Tail(rcv)
  /\ read_buffer' = [read_buffer EXCEPT ![r_method] = buf]
  /\ UNCHANGED <<dec_ctx, r_method, interrupted, rd_event, errs, switches, arrived, returned>>

Received == IF Head(rcv).len = 0 THEN <<>> ELSE <<Head(rcv)>>

RecvData_front == Receive(Received \o Buffer) /\ UNCHANGED r_pc

RecvData_keeps_empty == Receive(Append(Buffer, Head(rcv))) /\ UNCHANGED r_pc

(* handle_recv_res of a datagram: it is buffered unless it is empty. *)
RecvData == Receive(Buffer \o Received) /\ UNCHANGED r_pc

(* handle_recv_res of WouldBlock, or of Interrupted: the call ends with the *)
(* front of the buffer, or with None and then so does the handler.          *)
LoopEnds(why) ==
  /\ r_pc = "recv"
  /\ \/ Buffer # <<>> /\ PopAndDecrypt /\ r_pc' = "ready" /\ UNCHANGED interrupted
     \/ /\ Buffer = <<>> /\ r_pc' = "idle" /\ interrupted' = (why = "Interrupted")
        /\ UNCHANGED <<read_buffer, returned>>
  /\ UNCHANGED <<dec_ctx, r_method, rcv, rd_event, errs, switches, arrived>>

RecvWouldBlock == rcv = <<>> /\ LoopEnds("WouldBlock")

RecvInterrupted == MayInterrupt /\ LoopEnds("Interrupted")

(* Any other error is returned at once; the buffer keeps what it holds. *)
RecvErr ==
  /\ r_pc = "recv" /\ errs < MaxErrs
  /\ errs' = errs + 1
  /\ r_pc' = "ready"
  /\ UNCHANGED <<read_buffer, dec_ctx, r_method, interrupted, rcv, rd_event, switches,
                 arrived, returned>>

-----------------------------------------------------------------------------
Loop == RecvData \/ RecvWouldBlock \/ RecvInterrupted \/ RecvErr

Next ==
  \/ \E c \in Contexts, l \in {0, 1} : Arrive(c, l)
  \/ \E c \in Contexts : SetDecryptCtx(c)
  \/ \E m \in Methods : OnReadable(m)
  \/ ReadBuffered \/ Loop

Spec == Init /\ [][Next]_vars

(* The handler is called for its event and runs to the end. *)
Fairness ==
  /\ WF_vars(\E m \in Methods : OnReadable(m))
  /\ WF_vars(ReadBuffered) /\ WF_vars(Loop)

FairSpec == Spec /\ Fairness

-----------------------------------------------------------------------------
(* The variables have their types; in particular, neither buffer holds an   *)
(* empty datagram.                                                          *)
TypeOK ==
  /\ read_buffer \in [Methods -> Seq([id : Nat, ctx : Contexts, len : {1}])]
  /\ dec_ctx \in Contexts
  /\ r_pc \in {"idle", "ready", "recv"} /\ r_method \in Methods /\ interrupted \in BOOLEAN
  /\ rcv \in Seq(Datagram) /\ Len(rcv) <= RcvCap /\ rd_event \in BOOLEAN
  /\ errs \in Nat /\ switches \in Nat
  /\ arrived \in Seq(Datagram)
  /\ returned \in Seq([id : Nat, under : Contexts, res : Nat \cup {Failed}])

Ids(s) == [i \in DOMAIN s |-> s[i].id]

NotEmpty(d) == d.len > 0

(* The datagrams taken from the kernel that ended a call or are buffered,   *)
(* in the order in which calls end with them.                               *)
TakenIn ==
  Ids(returned) \o Ids(read_buffer["read"]) \o Ids(read_buffer["read_frm"])

(* Every datagram that arrived, empty ones aside, ended a call or still     *)
(* waits, in the order of arrival: none is lost, returned twice or          *)
(* overtaken between the kernel, the two buffers and the two ways a call    *)
(* returns one, whatever errors and undecryptable datagrams come between.   *)
ArrivalOrder ==
  LET taken == Len(arrived) - Len(rcv)
  IN  /\ \A i \in 1 .. Len(rcv) : rcv[i] = arrived[taken + i]
      /\ {TakenIn[i] : i \in 1 .. Len(TakenIn)} = {n \in 1 .. taken : NotEmpty(arrived[n])}
      /\ \A j \in 1 .. Len(TakenIn) : \A i \in 1 .. j - 1 : TakenIn[i] < TakenIn[j]

(* A call ends with the datagram as it was sent if the socket's context at  *)
(* that call is the one it came under, and else with an error or with       *)
(* something nobody sent: how long it was buffered, and which context the   *)
(* socket had when it arrived or when the datagrams before it were          *)
(* returned, makes no difference.                                           *)
DecryptedWhenReturned ==
  \A i \in 1 .. Len(returned) :
    LET r == returned[i]
    IN  r.id \in 1 .. Len(arrived) /\ (r.res = r.id <=> arrived[r.id].ctx = r.under)

(* Both: the application gets what arrived, in order and under the context  *)
(* it has set.                                                              *)
ReturnedAsArrived == ArrivalOrder /\ DecryptedWhenReturned

(* Every datagram that is not empty ends a call in the end: one that does   *)
(* not decrypt, an error or an empty one holds up none behind it; only an   *)
(* interrupted call does, until the next edge.                              *)
ArrivedIsReturned ==
  \A n \in 1 .. MaxArrivals :
    Len(arrived) >= n /\ NotEmpty(arrived[n]) ~>
      interrupted \/ \E i \in 1 .. Len(returned) : returned[i].id = n
=============================================================================
