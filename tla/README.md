# Verification of socket-collection

`socket-collection` wraps mio's TCP and UDP sockets into message sockets: messages
are serialised, optionally encrypted, queued by priority, shed when they get too
old, and written and read without blocking from an event loop that polls with edge
triggers. This directory holds TLA+ modules that model the crate, the TLC
configurations that check them on small instances, and TLAPS proofs that the
safety properties of the passing runs hold for every value of the constants.

Paths below are those of the crate (`src/tcp.rs` and so on); `PROJECT.json` maps
every definition to its lines.

## 1. Inventory

| Component | State | Operations | Talks to |
| --- | --- | --- | --- |
| `OutQueue` (`out_queue.rs`) | map from priority to a queue of timestamped messages | `push`, `drop_expired`, `next_msg` | called by every `write` |
| `EncryptContext`, `DecryptContext` (`crypto.rs`) | a key, fixed | `encrypt`, `decrypt`, `encrypted_size_len` | used by framing and by UDP |
| `LenDelimitedReader`, `serialize_with_len` (`tcp.rs`) | `read_buffer`, `read_len`, `dec_ctx` | `put_buf`, `try_read` | fed by `TcpSock::read` |
| `TcpSock` (`tcp.rs`) | the reader, the queue, `current_write`, `enc_ctx` | `connect`, `write`, `read`, `set_*_ctx`, drop | kernel stream, event loop, the other end |
| `UdpSock` (`udp.rs`) | two read buffers, two queues, two `current_write`s, contexts, `peer` | `read`, `read_frm`, `write`, `write_to`, `connect`, `into_underlying_sock` | kernel socket, event loop |
| `EpollLoop`, `Handle` (`udt/udt_event_loop.rs`) | a shared set of queued actions; the thread's `token_map` | `register`, `deregister`, drop, the thread's loop | threads through a mutex, UDT's epoll |
| `UdtSock` (`udt/udt_sock.rs`) | its own queues, `current_write`, `read_buffer`, `read_len` | `connect`, `write`, `read`, `register`, `deregister`, drop | `Handle`, the UDT library, the other end |
| `Socket` (`socket.rs`) | which of the two sockets it is | passes every call on | `TcpSock`, `UdpSock` |
| `SocketConfig`, `SocketError` (`lib.rs`, `error.rs`) | constants, error values | | everyone |

`lib.rs` no longer builds the `udt` directory. It is modelled all the same: its
source is kept, it is the only code with threads, and its socket has its own copy
of the expiry, the framing and the two loops, which differ from TCP's in places.

What is hard in this code, and the property that makes each part correct:

* **Queue.** `next_msg` unwraps the front of a queue, expiry looks at fronts only,
  and `skip_while` drops every queue behind the first stale one. Correct is: no
  panic, order kept within a priority, nothing stale kept, nothing shed but behind
  something stale, nothing urgent shed at all.
* **TCP writing.** A frame may be written in pieces with other calls of `write` in
  between, each of which may queue something more urgent. Correct is: the stream
  is whole frames, an urgent message waits for one frame at most, and data waits
  only for an edge that will come.
* **TCP reading.** A call reads until the kernel has no more and so uses up the
  edge, then returns one message; the end of the stream, an error, a refused length
  or a changed context may come in the same call. Correct is: messages are
  returned intact, once and in order, the end after all of them, and none is left
  where no event will ask for it.
* **UDP.** A datagram may be lost, duplicated, reordered, empty or undecryptable;
  a send may be partial or fail; two pairs of methods share the kernel socket.
  Correct is: every message is in exactly one place, in order, and no failure
  holds up what is behind it.
* **UDT event loop.** A handle upgrades a `Weak`, then locks; the thread may end
  in between; a batch has no order; the drop joins the thread. Correct is: a socket
  ends up as its last call asked or, if calls met in one batch, as one of those did
  and never as an earlier one; events carry that token, and the drop terminates.
* **UDT sockets.** An event passes through the loop's thread, a registration takes
  effect some time after the call returned, and a socket is dropped without being
  deregistered. Correct is: as for TCP, and nothing accepted waits for ever because
  an event came early, twice or during a new registration.

The hazards, each with its line and its properties, are in `PROJECT.json`.

## 2. Modules

```
OutQueue            operators on the map of queues
  OutQueueMachine   one queue, its methods in any order  --implements-->  PriorityBuffer
  TcpSock           one direction of a connection        --implements-->  MsgChannel
  UdpSend           the sending half of a UDP socket
  UdtSock           one direction of a UDT connection    --implements-->  MsgChannel
    UdtConnection   UdtSock and UdtEventLoop together
Crypto              encryption by what it does to bytes and lengths
  LenDelimitedReader  frame encoder and decoder
    TcpSock, UdtSock
  UdpRecv           the receiving half of a UDP socket
UdtEventLoop        handles, the drop of the EpollLoop and the thread
MC*                 the modules TLC is run on

OutQueueTheorems    what push, drop_expired and next_msg do to the map of queues
  OutQueueProofs    theorems of OutQueueMachine
  UdpSendProofs     theorems of UdpSend
  FrameTheorems     frames, lines of bytes, the reader; with LenDelimitedReader
    TcpSockProofs   theorems of TcpSock
    UdtConnectionProofs  theorems of UdtConnection
UdpRecvProofs       theorems of UdpRecv
UdtEventLoopProofs  theorems of UdtEventLoop, cited by UdtConnectionProofs
```

An operator named `X_something` before `X` is a faulty variant of `X` (a dropped
guard, a missing reset, a swapped order). Nothing uses it but the mutation runs,
which put it in the place of `X` and expect a property to fail.

### OutQueue, OutQueueMachine

`inner` is a function whose domain is the set of keys of the `BTreeMap`, so a key
with an empty queue differs from an absent key; that difference is the panic in
`next_msg`. Instants are ticks and `elapsed().as_secs()` divides by `TicksPerSec`,
so ages are cut off as in the code. `skip_while` becomes "some key not after this
one is invalid". `OutQueueMachine` calls the methods in any order, with histories
of what was taken and shed. `PriorityBuffer` says what the queue promises, with a
set in the place of the map.

### Crypto, LenDelimitedReader

A byte is a cell `[frame, k]`, the k-th byte of a frame's encoding. Decryption
succeeds if it gets exactly the bytes one encryption under the same context
produced; otherwise it fails under a key, and under the null context, which only
deserialises, it may also yield something nobody sent. `try_read` is the set of
possible pairs of result and reader left behind, with the code's early returns: a
refused length stays in `read_len`, a failed decryption consumes nothing.

### TcpSock

One direction of a connection, both ends: `TcpSock::write` and its flush loop, the
two kernel buffers, and `TcpSock::read` with its receive loop. A step is one system
call with the code up to the next one; `w_pc` and `r_pc` are where the two sockets
are. The kernel takes or delivers any number of bytes that fit. `wr_event` and
`rd_event` are pending edges: data that arrives is a readable edge, and room in a
buffer that was full a writable one. The application is the one of the docs and
tests: it calls `write(None)` on a writable event, and on a readable event `read`
until it returns `None`. After an error it drops the socket, except for the errors
in `KeepOnErr`: `tcp_safety` has an application that reads on after an error of the
kernel, and so gets what the reader had buffered when the error came. The connection may still be on its way when the application begins
to write (`connect`) or be there (`wrap`): until `Establish`, writing would block,
and the first writable edge comes with it. A refused connection is a `Reset`.
Lengths of `U32` and more lose their high bits in the header; `LastLong` bounds how
many messages are that long. `MsgChannel` is the promise without bytes and buffers.

### UdpSend, UdpRecv

`write` and `write_to`, and `read` and `read_frm`, are the same code over two sets
of fields; the fields are functions of the method. The network owes the sender
nothing, so the two halves are separate modules: `UdpRecv` is given any datagrams
(empty, under another context) in any order. After an error the application calls
the same method again, since the code returns with the queue unflushed. The
histories of `UdpSend` (`given`, `sent`, `shed`, `lost`) are kept by method, so that
`EveryMessageAccounted` can say that neither method touches what the other was given.
For each datagram that ended a call, `returned` of `UdpRecv` has the context of the
socket at that call and what came of the decryption.

### UdtEventLoop

Callers upgrade and insert in two steps; the thread waits, drains and applies the
actions of a batch one at a time in any order. `CanUpgrade` is the strong count of
the `Arc`: the thread's own and those of the callers in between. `epoll` is
external; a closed socket leaves it, and `add_usock` fails for a closed socket. The
history `met` has, for each socket, the actions in the set when the last one was
inserted, that one included. They are the ones that may win: if calls meet in a batch
the code does not define which, but `RegisteredAsAsked` says that one of them does,
with its token and its event set, and that no call of an earlier batch comes back.
`MapsAgree` allows `token_map` one entry too many, that of a socket that was closed:
the code never removes it while the loop runs.

### UdtSock, UdtConnection

`UdtSock` has the two ends and the library between them, `UdtConnection` puts the
event loop around it. The expiry of `Inner::write` is that of `drop_expired`, the
queue that of `OutQueue`, and the framing that of `LenDelimitedReader` under the null
context, except that `read_from_buffer` returns an empty message, which the TCP
reader does not. `Loop` is `UdtEventLoop` with one caller, the application's thread,
and its set `closed` computed from the sockets; every step of the loop is that
module's own action, with `Wait` narrowed to the sockets that are really ready.

The library is external: a byte stream with a buffer, set up in the background and
perhaps broken at any time. What arrived before it broke can still be read; then
`recv` returns 0 or an error. Its epoll is level-triggered. The application has both
sockets in one thread, writes once the connection is there (`send` fails before), and
drops a socket whose `read` returned an error, unless the error is the library's and
in `KeepOnErr`: then it reads on. In `udt_sock` it does, so that an error in the
middle of a call is followed by calls that return what was received before it. The model starts when both sockets are
registered; it may register one anew, or deregister it, at any later moment.

## 3. Runs

| Run | Bounds | Shows |
| --- | --- | --- |
| `outqueue` | 3 priorities, 4 messages, 5 ticks of half a second, limit 1 s | all properties of the queue and that it implements `PriorityBuffer` |
| `outqueue_doc` | the same | violated: `expired_queues` returns more than its comment says |
| `tcp_safety` | 2 priorities, 3 messages of 3 bytes, the first perhaps too long for its header, buffers of 2 bytes, connecting, interrupts, expiry, close, reset | frames stay whole, order, end of stream after all messages, `Ok(true)`, urgency, no stranded data, also when read on after an error; implements `MsgChannel` |
| `tcp_delivery` | 2 messages, interrupts, close, fair | written, delivered, close seen |
| `tcp_contexts` | 3 messages of 1 and 2 bytes, limit 1, context changed after the first | contexts agree; what the reader keeps is bounded |
| `tcp_limit` | the same, no change, an application that reads on | violated: the limit is bypassed |
| `tcp_empty` | messages of 0 and 1 bytes, null context | violated: a zero-length message strands the next |
| `udp_send` | both methods, 2 priorities, 3 messages, 1 error, 1 partial send, interrupts, fair | every message is in one place of its own method; order; no stranded data; a moment comes when nothing waits |
| `udp_requeue` | 2 messages | violated: a failed send is not requeued |
| `udp_recv` | 3 datagrams, 2 contexts, 2 changes, 1 error, interrupts, fair | arrival order, each under the context of its call; each ends a call |
| `udt_loop` | 2 callers, 2 sockets, 2 tokens, 2 event sets, 3 calls, fair | maps agree; registered as asked; no stale event; the drop ends |
| `udt_sock` | an urgent message of 1 byte and an empty droppable one, 2 in all, buffer of 2 bytes, 1 later call of the handle, 1 tick, reading on after an error, fair | order; implements `MsgChannel`; accepted is delivered, received is returned |

Why the bounds are enough. The kernel buffers are shorter than a frame (header 2
bytes, body 1), so every frame is written and received in pieces, an urgent message
can arrive in each gap, and both buffers are full or empty at every place in the
loops. Three messages over two priorities give one being written, one that
overtakes and one that must not be overtaken. A limit of 1 s in ticks of half a
second has ages on both sides of the rounding. Two callers and a dropper give every
order around the upgrade and the lock; three calls give two batches on one socket
and a call for the other, or three that meet in one. Two changes of the context of a
UDP socket change it back, so a datagram can arrive, wait and be returned under three
different settings. In `udt_sock` the buffer holds one whole frame of two
bytes or parts of two, so sending blocks, and room and data are there at once: then
writable events keep coming while a readable one waits.

`CHECK_DEADLOCK FALSE` is in every configuration but that of `udt_sock`, whose loop
never ends, because the system may stop: the bounds on messages, ticks and calls are
used up, or the sockets are closed.

**Interrupted calls.** The code handles `Interrupted` like `WouldBlock`. With edge
triggers this uses up an edge while the kernel has data or room, and the socket may
stop until the other end acts. Every run lets calls be interrupted (`MayInterrupt`),
and the properties about stranded data and the liveness properties say that an
interrupted last call is the one exception. To tell it apart the histories record
the tag `"Interrupted"` for what the code returns as `Ok(None)` or `Ok(false)`.

**Lengths.** No sender refuses a message, although `lib.rs` calls `max_payload_size`
the "maximum data size that the socket will send". A message over the limit ends the
connection at the receiver. One over 32 bits is framed with a cut length:
`DeliveredInOrder` shows that it is not returned as something else under a key, where
a cut body does not decrypt. Under the null context nothing would detect it.

**Change of contexts.** Frames are encrypted when they are queued and may leave the
queue in another order, by priority. Two ends that change the context "after the
same message" therefore agree only if messages of one priority are in use, and none
of them is dropped; that is how `tcp_contexts` is set up. The proofs call it `Agreed`.

**Errors of the kernel.** A TCP stream fails only when it was reset or refused, and the
kernel then takes and gives nothing more. What `write` does with the data in hand on
an error that passes (an `ENOBUFS`, say) is therefore out of the model: the code drops
it, in the middle of a frame perhaps, and an application that went on writing would
have the rest of the stream out of step.

**`Ok(false)`.** `OkTrueMeansWritten` is what `write` guarantees. `Ok(false)` says
that something is left, which may be a less urgent message than the one given.

### Fairness

Weak fairness of the event loop's handlers (an application that polls calls the
handler of a ready socket, and a handler runs to its end), of the kernels
(a byte or datagram accepted is moved on, the end of the stream arrives), and, in
`UdtEventLoop`, of the threads (`epoll.wait` returns after at most a second).
Nothing makes an application write, connect, change a context or close. Strong
fairness is assumed in one place, `Reading` of `UdtConnection`: the thread that has
both sockets takes the events of a poll in turn, so a readable event is not put off
for ever by writable ones, although each of these makes the thread busy for a while.
With weak fairness alone `AcceptedIsDelivered` fails.

## 4. Proofs

Everything below is proved for every value of the constants the assumptions allow:
any priorities, drop rule and age limit, any number of messages, errors and ticks,
buffers of any size, any number of threads, sockets and tokens. The assumptions
(`OutQueueAssumption`, `CryptoAssumption`, `ReaderAssumption`, `TcpAssumption` and so
on) only give the constants their types; TLC evaluates each in the runs of its
module. The reading sides need a hypothesis about the application and its messages
(`Compatible`, `Agreed`, `UdtDecodable`); each is discussed with its module.

| Property | Theorem | In |
| --- | --- | --- |
| `OutQueueMachine!TypeOK`, `NoEmptyQueue` | `TypeCorrect`, `NextMsgNeverPanics` | `OutQueueProofs` |
| `FifoWithinPriority`, `OldestInFront`, `NothingStaleKept` | `FifoCorrect`, `OldestCorrect`, `ExpiryCorrect` | |
| `NothingLost`, `ShedOnlyBehindStale` | `LedgerCorrect`, `ShedCorrect` | |
| `ImplementsPriorityBuffer` | `QueueRefinement` | |
| `TcpSock!TypeOK`, `WellFramed`, `NoStrandedWrite` | `TcpTypeCorrect`, `FramesWhole`, `WritesWake` | `TcpSockProofs` |
| `OkTrueMeansWritten`, `UrgentFirst` | `OkTrueCorrect`, `UrgentCorrect` | |
| `DeliveredInOrder`, `NoStrandedMessage`, `ReaderBounded`, `EofAfterAll` | `DeliveryCorrect`, `MessagesWake`, `BufferBounded`, `EofCorrect` | under `Compatible` |
| `ImplementsMsgChannel` | `TcpRefinement` | under `Compatible` |
| `ContextsAgree` | `ContextsCorrect` | under `Agreed` |
| `UdpSend!TypeOK`, `NoStrandedWrite`, `SentInOrder`, `EveryMessageAccounted` | `SendTypeCorrect`, `SendNotStranded`, `SendOrdered`, `SendAccounted` | `UdpSendProofs` |
| `UdpRecv!TypeOK`, `ReturnedAsArrived` | `RecvTypeCorrect`, `ReturnedAsArrivedCorrect` | `UdpRecvProofs` |
| `UdtEventLoop!TypeOK`, `MapsAgree`, `RegisteredAsAsked`, `NoStaleEvent` | `LoopTypeCorrect`, `MapsCorrect`, `RegistrationCorrect`, `EventsFresh` | `UdtEventLoopProofs` |
| `UdtConnection!TypeOK` | `UdtTypeCorrect` | `UdtConnectionProofs` |
| `UdtSock!DeliveredInOrder`, `ImplementsMsgChannel` | `UdtDeliveryCorrect`, `UdtRefinement` | under `UdtDecodable` |

**The queue.** None of the order properties is inductive alone. `OrderInv` is their
conjunction with the types, `NoEmptyQueue` (without it `next_msg` would take the
head of an empty sequence), `QueuedInOrder` (a message is queued under its own
priority, ids ascend, and all are below `next_id`; without it a push could go ahead
of something taken) and `TakenNumbered`. `ExpiryCorrect` is an action property: ages
only shrink towards the back of a queue, whole seconds grow with ticks, so a fresh
front means a fresh queue. `NothingLost` and the refinement also need that every id
belongs to one message. `OutQueueTheorems` says what each operation does to the set
of messages and to their order, for any map of queues, and is used again by the
sockets.

**UdpSend.** Of the two methods `write` and `write_to`, each has a queue and a
`current_write` of at most one message that is ahead of its queue (`QueuesInv`). What
was sent is ahead of what waits (`SentInv`), every message is in one place
(`PlacesInv`), and an idle method with data has a reason to be woken. That the places
of one method hold exactly the ids it was given, once each, which
`EveryMessageAccounted` states with cardinalities, is last and uses these.

**UdpRecv.** Two methods share one kernel queue, so order could only be lost if both
buffers were filled: `OneBuffer` says that only the method being called has
something in its buffer. With the numbering of arrivals this makes `ArrivalOrder`
inductive; `DecryptedWhenReturned`, the other half of `ReturnedAsArrived`, needs that
what is buffered is what arrived (`BufferedArrived`).

**UdtEventLoop.** `RegisteredAsAsked` speaks of moments without a batch. `LoopInv`
follows the calls in `met` of a socket through the three places their actions can be
in: the shared set, the batch being applied, the two maps.

**TcpSock.** The argument is about the line: all bytes from the front of the reader's
buffer, through both kernels, to the end of the frame being written. A system call
moves bytes along the line without changing it. The line grows only by a whole
frame, when one is taken from the queue, and shrinks at its front by a header or a
body, or at its end when the connection breaks. `LineInv` of `FrameTheorems` says
what it is made of: the bytes of each frame consecutive, each frame followed by the
first byte of another, ending with a whole frame while the connection lives, and its
last bytes in the order of `written`. `SendInv` joins it with the order in the queue,
the place of each frame, the message of the call in progress (`CallInv`) and the
reasons to be woken (`WakeInv`).

For the reader, `ReadInv` adds where it stands (`PositionInv`: the line is the rest
of frame n + 1, before or behind its header, and all frames behind it in `written`,
when n messages were delivered), and that it asks the kernel for more, or waits,
only when `try_read` has nothing to return (`WaitInv`). One lemma per result of
`try_read` says that under `PositionInv` it yields the next message whole or an error
that closes the socket. For the refinement, `OrderInv` adds that the frame being
written goes before those of its priority; `ChannelActions` restates the channel's
actions in terms of the frames that wait here, and each step maps to one of them:
a call of `write` to `ShedAndAccept` or `Shed`, the last byte of a frame to `Send`, a
returned message to `Deliver`, a drop, a reset and a failed turn of the loop to
`Break`, all others to a stutter.

A call of `read` needs no more of the contexts than `Readable`: the context the
reader has can tell the next frame (`Told`), whichever frames come after it. The
hypothesis of the reading side, `Compatible`, is that this holds for one of two
reasons.

* `Decodable`: (a) no message is of length 0 modulo 2^32, (b) the application does
  not read on after `PayloadSizeProhibitive`, and (c) both ends use keys, even
  different ones, or keep the null context with lengths that fit a header. The
  constants of `tcp_safety` and `tcp_delivery` satisfy it. It cannot be dropped: the
  runs `tcp_empty` and `tcp_limit` show what happens without (a) and (b), and without
  (c) a cut body is not noticed (section 3, Lengths).
* `Agreed`: (a) and (b), lengths that fit a header, and, if the contexts change, one
  priority that is not a droppable one. The change may be between any two contexts,
  the null one included. The constants of `tcp_contexts` satisfy it. Without the last
  part an urgent message under the second context would overtake the last one under
  the first.

**Change of contexts.** That two ends that are `Agreed` do agree (`ContextsAgree`) is
an induction over both ends at once. `CtxInv` says that every frame accepted has the
context of its message, that frames are written in the order of the calls with none
left out (`CountInv`), that a frame on the line is written or the very next one
(`OnLineInv`), and that each end has the context of the next message unless its
change is due, which for the reader is only between two calls (`EncInv`, `DecInv`).
So the frame the reader meets is the one its context is for (`NextDecrypts`), which
is what the reader's own invariant needs (`AgreedReads`): the two are proved together,
in `ContextsInvariant`. That no frame is left out is the argument about `Waiting`,
the frames accepted and not written: `WaitingNext` says what any step does to them,
for this and for the refinement.

Before they were proved, TLC checked `SendInv` and `ReadInv` on the constants of
`tcp_safety`, with null contexts, and with two keys, and `CtxInv` on those of
`tcp_contexts`, with close and reset allowed too.

**UdtConnection.** The loop inside a connection is `UdtEventLoop` with the set of
closed sockets computed from the two ends. `LoopSteps` shows that each step of the
connection is one of the loop's, the drop of a socket being its `Close`, or leaves
the loop alone; so the lemmas of `UdtEventLoopProofs`, instantiated with the
connection's expressions, give `LoopInsideCorrect`, and with it the types that the
sockets' proofs need of the loop. `SendInv` is the queue's order and the place of each
frame, as for TCP. `StreamInv` is the line and the position of the reader, with the
lemmas of `FrameTheorems`. Two things differ from TCP. An empty message is returned,
so a header may be all of a frame; and when the connection breaks, frames that were
written whole may be lost with the bytes that had not arrived: the line is then a
part of what it was, cut off at its end.

`UdtDecodable` says that lengths fit their header. The framing is under the null
context, which cannot tell a cut length from a shorter one, and nothing else is asked
of the messages: empty ones are included. `KeepOnErr` may be any set of errors of the
library (`UdtSockAssumption`). The constants of `udt_sock` satisfy it.

What stays with TLC is liveness (`AcceptedIsWritten`, `WrittenIsDelivered`,
`CloseIsSeen`, `AcceptedIsSent`, `ArrivedIsReturned`, `DropTerminates`,
`QueuedIsApplied`, `AcceptedIsDelivered`): the proof system has no rules for fairness.
The part of `AcceptedIsDelivered` about what was received is a safety property, and is
model-checked only.

## 5. Not modelled

* The uninitialised socket (`inner: None`), where every call returns an error, and
  the accessors (`ttl`, `linger`, addresses, `take_error`): no state.
* `Socket`, `SocketError` and the `Evented` implementations: they pass calls on.
* `set_encrypt_ctx` of a UDP socket: no step of the sender depends on it.
* Bytes and cryptography: see Crypto. What `deserialise_from` of a UDT socket does
  with bytes beyond its message: it is taken to use up exactly the message.
* `write` of a UDT socket before its connection is there, and a UDT application that
  reads on after a message that was refused or not readable; for TCP, `tcp_limit`
  shows what the latter leads to.
* Errors of a TCP stream that pass (section 3, Errors of the kernel).
* A peer that never stops sending, which keeps `read` in its loop: the number of
  messages is bounded, and `ReaderBounded` speaks of the time between two events.

## 6. Plan

1. Proofs: a weaker `Agreed`, with several priorities and an application that changes
   its context only when its queue is empty.
2. Model: `set_encrypt_ctx` of UDP, with a UDP pair of both halves and the network
   between them; two application threads in `UdtConnection`, and the drop of the
   `EpollLoop` under a live connection.
