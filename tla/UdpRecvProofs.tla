---------------------------- MODULE UdpRecvProofs ----------------------------
(***************************************************************************)
(* The order of the datagrams a UdpSock returns, proved for any contexts,   *)
(* any number of datagrams and errors and a receive buffer of any size.     *)
(***************************************************************************)
EXTENDS UdpRecv, SequenceTheorems, TLAPS

(* Only the method the handler is calling has anything in its buffer, and   *)
(* the handler leaves no method with a buffer that holds something.         *)
OneBuffer ==
  \A m \in Methods : (m # r_method \/ r_pc = "idle") => read_buffer[m] = <<>>

(* What the kernel holds are the last datagrams that arrived, and ids count *)
(* the arrivals.                                                            *)
ArrivalsNumbered ==
  /\ Len(rcv) <= Len(arrived)
  /\ \A n \in 1 .. Len(arrived) : arrived[n].id = n

(* What is in a buffer is the datagram that arrived under that id. *)
BufferedArrived ==
  \A m \in Methods : \A i \in 1 .. Len(read_buffer[m]) :
    LET d == read_buffer[m][i]
    IN  d.id \in 1 .. Len(arrived) /\ arrived[d.id] = d

RecvInv ==
  /\ TypeOK /\ OneBuffer /\ ArrivalsNumbered /\ ArrivalOrder
  /\ BufferedArrived /\ DecryptedWhenReturned

-----------------------------------------------------------------------------
(* Sequences of ids.                                                        *)

Buffered == [id : Nat, ctx : Contexts, len : {1}]

Ended == [id : Nat, under : Contexts, res : Nat \cup {Failed}]

(* The ids of a sequence of records with ids. *)
LEMMA IdsShape ==
  ASSUME NEW D, \A d \in D : d.id \in Nat, NEW s \in Seq(D)
  PROVE  /\ Ids(s) \in Seq(Nat) /\ Len(Ids(s)) = Len(s)
         /\ \A i \in 1 .. Len(s) : Ids(s)[i] = s[i].id
<1>1. DOMAIN s = 1 .. Len(s) /\ Len(s) \in Nat
  OBVIOUS
<1>2. \A i \in 1 .. Len(s) : s[i].id \in Nat
  BY ElementOfSeq
<1>3. Ids(s) = [i \in 1 .. Len(s) |-> s[i].id]
  BY <1>1 DEF Ids
<1>4. Ids(s) \in [1 .. Len(s) -> Nat]
  BY <1>2, <1>3
<1>5. Ids(s) \in Seq(Nat) /\ Len(Ids(s)) = Len(s)
  BY <1>1, <1>4, IsASeq
<1> QED
  BY <1>3, <1>5

(* The ids when a record is appended. *)
LEMMA IdsAppend ==
  ASSUME NEW D, \A d \in D : d.id \in Nat, NEW s \in Seq(D), NEW d \in D
  PROVE  Ids(Append(s, d)) = Append(Ids(s), d.id)
<1> DEFINE t == Append(s, d)
           u == Append(Ids(s), d.id)
<1>1. t \in Seq(D) /\ Len(t) = Len(s) + 1 /\ t[Len(s) + 1] = d /\ \A i \in 1 .. Len(s) : t[i] = s[i]
  BY AppendProperties
<1>2. Ids(s) \in Seq(Nat) /\ Len(Ids(s)) = Len(s) /\ \A i \in 1 .. Len(s) : Ids(s)[i] = s[i].id
  BY IdsShape
<1>3. /\ u \in Seq(Nat) /\ Len(u) = Len(s) + 1 /\ u[Len(s) + 1] = d.id
      /\ \A i \in 1 .. Len(s) : u[i] = s[i].id
  BY <1>2, AppendProperties
<1>4. Ids(t) \in Seq(Nat) /\ Len(Ids(t)) = Len(t) /\ \A i \in 1 .. Len(t) : Ids(t)[i] = t[i].id
  BY <1>1, IdsShape
<1>5. Len(s) \in Nat
  OBVIOUS
<1> HIDE DEF t, u
<1>6. \A i \in 1 .. Len(s) + 1 : i \in 1 .. Len(s) \/ i = Len(s) + 1
  BY <1>5
<1>7. \A i \in 1 .. Len(u) : u[i] = Ids(t)[i]
  BY <1>1, <1>3, <1>4, <1>6
<1>8. u = Ids(t)
  BY <1>1, <1>3, <1>4, <1>7, SeqEqual
<1> QED
  BY <1>8 DEF t, u

(* The ids of a sequence that is not empty are its first and the others. *)
LEMMA IdsPop ==
  ASSUME NEW D, \A d \in D : d.id \in Nat, NEW s \in Seq(D), s # <<>>
  PROVE  Ids(s) = <<Head(s).id>> \o Ids(Tail(s))
<1> DEFINE t == Tail(s)
           h == Head(s).id
           u == <<h>> \o Ids(t)
           l == Len(t)
<1>1. /\ t \in Seq(D) /\ Len(s) = l + 1 /\ l \in Nat
      /\ \A i \in 1 .. l : t[i] = s[i + 1]
      /\ Head(s) = s[1] /\ Head(s) \in D
  BY HeadTailProperties
<1>2. Ids(t) \in Seq(Nat) /\ Len(Ids(t)) = l /\ \A i \in 1 .. l : Ids(t)[i] = t[i].id
  BY <1>1, IdsShape
<1>3. Ids(s) \in Seq(Nat) /\ Len(Ids(s)) = l + 1 /\ \A i \in 1 .. l + 1 : Ids(s)[i] = s[i].id
  BY <1>1, IdsShape
<1>4. <<h>> \in Seq(Nat) /\ Len(<<h>>) = 1 /\ <<h>>[1] = h
  BY <1>1
<1>5. /\ u \in Seq(Nat) /\ Len(u) = 1 + l
      /\ \A i \in 1 .. 1 + l : u[i] = IF i <= 1 THEN <<h>>[i] ELSE Ids(t)[i - 1]
  BY <1>2, <1>4, ConcatProperties
<1>6. h = s[1].id
  BY <1>1
<1> HIDE DEF t, h, u, l
<1>7. ASSUME NEW i \in 1 .. l + 1 PROVE Ids(s)[i] = u[i]
  <2>1. CASE i = 1
    BY <1>1, <1>3, <1>4, <1>5, <1>6, <2>1
  <2>2. CASE i # 1
    <3>1. i - 1 \in 1 .. l /\ (i - 1) + 1 = i /\ ~(i <= 1) /\ i \in 1 .. 1 + l
      BY <1>1, <2>2
    <3>2. u[i] = Ids(t)[i - 1]
      BY <1>5, <3>1
    <3>3. Ids(t)[i - 1] = t[i - 1].id /\ t[i - 1] = s[i]
      BY <1>1, <1>2, <3>1
    <3> QED
      BY <1>3, <3>2, <3>3
  <2> QED
    BY <2>1, <2>2
<1>8. Ids(s) = u
  <2>1. Len(Ids(s)) = Len(u)
    BY <1>1, <1>3, <1>5
  <2> QED
    BY <1>3, <1>5, <1>7, <2>1, SeqEqual
<1> QED
  BY <1>8 DEF u, h, t

(* TakenIn with one of the buffers empty. *)
LEMMA TakenShape ==
  ASSUME NEW R \in Seq(Nat), NEW b \in [Methods -> Seq(Buffered)], NEW m \in Methods,
         \A o \in Methods : o # m => b[o] = <<>>
  PROVE  /\ R \o Ids(b["read"]) \o Ids(b["read_frm"]) = R \o Ids(b[m])
         /\ R \o Ids(b[m]) \in Seq(Nat)
<1>1. \A o \in Methods : Ids(b[o]) \in Seq(Nat) /\ (b[o] = <<>> => Ids(b[o]) = <<>>)
  <2> SUFFICES ASSUME NEW o \in Methods
               PROVE  Ids(b[o]) \in Seq(Nat) /\ (b[o] = <<>> => Ids(b[o]) = <<>>)
    OBVIOUS
  <2>1. b[o] \in Seq(Buffered)
    OBVIOUS
  <2>2. \A d \in Buffered : d.id \in Nat
    BY DEF Buffered
  <2>3. Ids(b[o]) \in Seq(Nat) /\ Len(Ids(b[o])) = Len(b[o])
    BY <2>1, <2>2, IdsShape
  <2> QED
    BY <2>1, <2>3, EmptySeq
<1>2. R \o Ids(b[m]) \in Seq(Nat)
  BY <1>1, ConcatProperties
<1>3. CASE m = "read"
  <2>1. Ids(b["read_frm"]) = <<>>
    BY <1>1, <1>3 DEF Methods
  <2> QED
    BY <1>2, <1>3, <2>1, ConcatEmptySeq
<1>4. CASE m = "read_frm"
  <2>1. Ids(b["read"]) = <<>>
    BY <1>1, <1>4 DEF Methods
  <2> QED
    BY <1>2, <1>4, <2>1, ConcatEmptySeq
<1> QED
  BY <1>2, <1>3, <1>4 DEF Methods

(* A larger number at the end of an increasing sequence. *)
LEMMA IncreasingAppend ==
  ASSUME NEW s \in Seq(Nat), NEW S \in SUBSET Nat, NEW x \in Nat,
         \A y \in S : y < x,
         {s[i] : i \in 1 .. Len(s)} = S,
         \A j \in 1 .. Len(s) : \A i \in 1 .. j - 1 : s[i] < s[j]
  PROVE  LET t == Append(s, x)
         IN  /\ {t[i] : i \in 1 .. Len(t)} = S \cup {x}
             /\ \A j \in 1 .. Len(t) : \A i \in 1 .. j - 1 : t[i] < t[j]
<1> DEFINE t == Append(s, x)
           l == Len(s)
<1>1. Len(t) = l + 1 /\ t[l + 1] = x /\ l \in Nat /\ \A i \in 1 .. l : t[i] = s[i]
  BY AppendProperties
<1> HIDE DEF t, l
<1>2. 1 .. l + 1 = (1 .. l) \cup {l + 1}
  BY <1>1
<1>3. {s[i] : i \in 1 .. l} = S
  BY DEF l
<1>4. {t[i] : i \in 1 .. l + 1} = S \cup {x}
  BY SMTT(40), <1>1, <1>2, <1>3
<1>5. ASSUME NEW j \in 1 .. l + 1, NEW i \in 1 .. j - 1 PROVE t[i] < t[j]
  <2>1. i \in 1 .. l
    BY <1>1
  <2>2. CASE j = l + 1
    BY <1>1, <1>3, <2>1, <2>2
  <2>3. CASE j # l + 1
    <3>1. j \in 1 .. l
      BY <1>1, <2>3
    <3>2. s[i] < s[j]
      BY <3>1 DEF l
    <3> QED
      BY <1>1, <2>1, <3>1, <3>2
  <2> QED
    BY <2>2, <2>3
<1> QED
  BY <1>1, <1>4, <1>5 DEF t

-----------------------------------------------------------------------------
(* The invariant holds at first. *)
LEMMA RecvInit == Init => RecvInv
<1> SUFFICES ASSUME Init PROVE RecvInv
  OBVIOUS
<1>1. /\ read_buffer \in [Methods -> Seq(Buffered)] /\ \A m \in Methods : read_buffer[m] = <<>>
      /\ rcv = <<>> /\ arrived = <<>> /\ returned = <<>>
      /\ dec_ctx \in Contexts /\ r_pc = "idle" /\ r_method = "read" /\ interrupted = FALSE
      /\ rd_event = FALSE /\ errs = 0 /\ switches = 0
  BY DEF Init
<1>2. TypeOK
  <2>1. RcvCap \in Nat /\ Len(rcv) = 0
    BY <1>1, UdpRecvAssumption DEF UdpRecvAssumption
  <2>2. Len(rcv) <= RcvCap
    BY <2>1
  <2>3. /\ rcv \in Seq(Datagram) /\ arrived \in Seq(Datagram)
        /\ returned \in Seq([id : Nat, under : Contexts, res : Nat \cup {Failed}])
    BY <1>1
  <2> QED
    BY <1>1, <2>2, <2>3 DEF TypeOK, Methods, Buffered
<1>3. ArrivalOrder
  <2>1. Ids(<<>>) = <<>>
    BY DEF Ids
  <2>2. TakenIn = <<>>
    <3>1. <<>> \in Seq(Nat)
      OBVIOUS
    <3> QED
      BY <1>1, <2>1, <3>1, ConcatEmptySeq DEF TakenIn, Methods
  <2>3. Len(TakenIn) = 0 /\ Len(rcv) = 0 /\ Len(arrived) - Len(rcv) = 0 /\ 1 .. 0 = {}
    BY <1>1, <2>2
  <2> QED
    BY <2>3 DEF ArrivalOrder
<1>4. OneBuffer /\ ArrivalsNumbered
  BY <1>1 DEF OneBuffer, ArrivalsNumbered
<1>5. BufferedArrived /\ DecryptedWhenReturned
  BY <1>1 DEF BufferedArrived, DecryptedWhenReturned
<1> QED
  BY <1>2, <1>3, <1>4, <1>5 DEF RecvInv

(* What the type invariant says of the sequences. *)
LEMMA RecvTypes ==
  ASSUME TypeOK
  PROVE  /\ read_buffer \in [Methods -> Seq(Buffered)] /\ r_method \in Methods
         /\ Buffer \in Seq(Buffered) /\ returned \in Seq(Ended)
         /\ Ids(Buffer) \in Seq(Nat) /\ Ids(returned) \in Seq(Nat)
         /\ \A d \in Buffered : d.id \in Nat
         /\ \A d \in Ended : d.id \in Nat
<1>1. /\ read_buffer \in [Methods -> Seq(Buffered)] /\ r_method \in Methods
      /\ returned \in Seq(Ended)
  BY DEF TypeOK, Buffered, Ended
<1>2. Buffer \in Seq(Buffered)
  BY <1>1 DEF Buffer
<1>3. \A d \in Buffered : d.id \in Nat
  BY DEF Buffered
<1>4. \A d \in Ended : d.id \in Nat
  BY DEF Ended
<1>5. Ids(Buffer) \in Seq(Nat)
  BY <1>2, <1>3, IdsShape
<1>6. Ids(returned) \in Seq(Nat)
  BY <1>1, <1>4, IdsShape
<1> QED
  BY <1>1, <1>2, <1>3, <1>4, <1>5, <1>6

(* A call ends with the front of the buffer: it moves to what was returned, *)
(* decrypted or not, and the line is as it was.                             *)
LEMMA PopStep ==
  ASSUME TypeOK, OneBuffer, Buffer # <<>>, PopAndDecrypt, r_method' = r_method
  PROVE  /\ read_buffer' \in [Methods -> Seq(Buffered)] /\ returned' \in Seq(Ended)
         /\ \A m \in Methods : m # r_method => read_buffer'[m] = <<>>
         /\ TakenIn' = TakenIn
<1>1. /\ read_buffer \in [Methods -> Seq(Buffered)] /\ r_method \in Methods
      /\ Buffer \in Seq(Buffered) /\ returned \in Seq(Ended)
      /\ Ids(Buffer) \in Seq(Nat) /\ Ids(returned) \in Seq(Nat)
      /\ \A d \in Buffered : d.id \in Nat
      /\ \A d \in Ended : d.id \in Nat
  BY RecvTypes
<1>2. PICK res \in decrypt(Head(Buffer), dec_ctx) :
        /\ read_buffer' = [read_buffer EXCEPT ![r_method] = Tail(@)]
        /\ returned' = Append(returned, Ending(res))
  BY DEF PopAndDecrypt
<1> DEFINE h == Head(Buffer)
           e == Ending(res)
<1>3. h \in Buffered /\ Tail(Buffer) \in Seq(Buffered) /\ h.id \in Nat
  BY <1>1, HeadTailProperties
<1>4. res \in Nat \cup {Failed}
  <2>1. Garbage \in Nat
    BY DEF Garbage
  <2> HIDE DEF h
  <2> QED
    BY <1>2, <1>3, <2>1 DEF decrypt, h
<1>5. e \in Ended /\ e.id = h.id
  BY <1>3, <1>4 DEF Ended, Ending, TypeOK
<1>6. returned' \in Seq(Ended) /\ Ids(returned') = Append(Ids(returned), h.id)
  <2>1. returned' = Append(returned, e) /\ e.id = h.id
    BY <1>2, <1>5
  <2> HIDE DEF e, h
  <2>2. Ids(Append(returned, e)) = Append(Ids(returned), e.id)
    BY <1>1, <1>5, IdsAppend
  <2>3. Append(returned, e) \in Seq(Ended)
    BY <1>1, <1>5, AppendProperties
  <2> QED
    BY <2>1, <2>2, <2>3
<1>7. /\ read_buffer' \in [Methods -> Seq(Buffered)] /\ read_buffer'[r_method] = Tail(Buffer)
      /\ \A m \in Methods : m # r_method => read_buffer'[m] = read_buffer[m]
  BY <1>1, <1>2, <1>3 DEF Buffer
<1>8. \A m \in Methods : m # r_method => read_buffer[m] = <<>> /\ read_buffer'[m] = <<>>
  BY <1>7 DEF OneBuffer
<1>9. Ids(Buffer) = <<h.id>> \o Ids(Tail(Buffer)) /\ Ids(Tail(Buffer)) \in Seq(Nat)
  <2>1. Ids(Tail(Buffer)) \in Seq(Nat)
    BY <1>1, <1>3, IdsShape
  <2> QED
    BY <1>1, <2>1, IdsPop
<1>10. TakenIn = Ids(returned) \o Ids(Buffer)
  BY <1>1, <1>8, TakenShape DEF TakenIn, Buffer
<1>11. TakenIn' = Ids(returned') \o Ids(Tail(Buffer))
  <2> DEFINE R == Ids(returned')
             b == read_buffer'
  <2>1. R \in Seq(Nat)
    BY <1>1, <1>3, <1>6, AppendProperties
  <2>2. R \o Ids(b["read"]) \o Ids(b["read_frm"]) = R \o Ids(b[r_method])
    <3> HIDE DEF R, b
    <3>1. b \in [Methods -> Seq(Buffered)] /\ \A m \in Methods : m # r_method => b[m] = <<>>
      BY <1>7, <1>8 DEF b
    <3> QED
      BY <1>1, <2>1, <3>1, TakenShape
  <2> QED
    BY <1>7, <2>2 DEF TakenIn
<1>12. Append(Ids(returned), h.id) \o Ids(Tail(Buffer)) = Ids(returned) \o Ids(Buffer)
  <2> DEFINE R == Ids(returned)
             B == Ids(Tail(Buffer))
             x == h.id
  <2>1. R \in Seq(Nat) /\ B \in Seq(Nat) /\ x \in Nat /\ <<x>> \in Seq(Nat)
    BY <1>1, <1>3, <1>9
  <2>2. Ids(Buffer) = <<x>> \o B
    BY <1>9
  <2> HIDE DEF R, B, x
  <2>3. Append(R, x) = R \o <<x>>
    BY <2>1, AppendIsConcat
  <2>4. (R \o <<x>>) \o B = R \o (<<x>> \o B)
    BY <2>1, ConcatAssociative
  <2> QED
    BY <2>2, <2>3, <2>4 DEF R, B, x
<1> QED
  BY <1>6, <1>7, <1>8, <1>10, <1>11, <1>12

(* A call ends with the datagram itself if and only if it came under the    *)
(* context of the socket.                                                   *)
LEMMA EndingStep ==
  ASSUME RecvInv, Buffer # <<>>, PopAndDecrypt, UNCHANGED <<r_method, arrived>>
  PROVE  BufferedArrived' /\ DecryptedWhenReturned'
<1>1. /\ TypeOK /\ OneBuffer /\ BufferedArrived /\ DecryptedWhenReturned
      /\ arrived \in Seq(Datagram) /\ dec_ctx \in Contexts
  BY DEF RecvInv, TypeOK
<1>2. /\ read_buffer \in [Methods -> Seq(Buffered)] /\ r_method \in Methods
      /\ Buffer \in Seq(Buffered) /\ returned \in Seq(Ended)
  BY <1>1, RecvTypes
<1>3. PICK res \in decrypt(Head(Buffer), dec_ctx) :
        /\ read_buffer' = [read_buffer EXCEPT ![r_method] = Tail(@)]
        /\ returned' = Append(returned, Ending(res))
  BY DEF PopAndDecrypt
<1> DEFINE h == Head(Buffer)
           e == Ending(res)
           l == Len(Buffer)
           B == Tail(Buffer)
<1>4. /\ h \in Buffered /\ h = Buffer[1] /\ B \in Seq(Buffered) /\ l \in Nat \ {0}
      /\ Len(B) = l - 1 /\ \A i \in 1 .. l - 1 : B[i] = Buffer[i + 1]
  BY <1>2, HeadTailProperties
<1>5. \A i \in 1 .. l : Buffer[i].id \in 1 .. Len(arrived) /\ arrived[Buffer[i].id] = Buffer[i]
  BY <1>1, <1>2 DEF BufferedArrived, Buffer
<1>6. h.id \in 1 .. Len(arrived) /\ arrived[h.id] = h /\ Len(arrived) \in Nat
  <2> HIDE DEF h, l
  <2> QED
    BY <1>1, <1>4, <1>5
<1>7. e.id = h.id /\ e.under = dec_ctx /\ e.res = res
  BY DEF Ending
<1>8. e.res = e.id <=> h.ctx = dec_ctx
  <2>1. res \in IF h.ctx = dec_ctx THEN {h.id}
                ELSE IF dec_ctx = NullCtx THEN {Failed, Garbage} ELSE {Failed}
    BY <1>3 DEF decrypt
  <2> HIDE DEF h, e
  <2>2. h.id # Failed /\ h.id # Garbage
    BY <1>6 DEF Failed, Garbage
  <2> QED
    BY <1>7, <2>1, <2>2
<1>9. BufferedArrived'
  <2>1. read_buffer' = [read_buffer EXCEPT ![r_method] = B]
    BY <1>3 DEF Buffer
  <2> SUFFICES ASSUME NEW m \in Methods, NEW i \in 1 .. Len(read_buffer'[m])
               PROVE  /\ read_buffer'[m][i].id \in 1 .. Len(arrived)
                      /\ arrived[read_buffer'[m][i].id] = read_buffer'[m][i]
    BY DEF BufferedArrived
  <2> HIDE DEF B, l
  <2>2. CASE m = r_method
    <3>1. read_buffer'[m] = B
      BY <1>2, <2>1, <2>2
    <3>2. i \in 1 .. l - 1 /\ i + 1 \in 1 .. l
      BY <1>4, <3>1
    <3> QED
      BY <1>4, <1>5, <3>1, <3>2
  <2>3. CASE m # r_method
    <3>1. read_buffer'[m] = read_buffer[m]
      BY <1>2, <2>1, <2>3
    <3> QED
      BY <1>1, <3>1 DEF BufferedArrived
  <2> QED
    BY <2>2, <2>3
<1>10. DecryptedWhenReturned'
  <2>1. e \in Ended
    <3>1. res \in Nat \cup {Failed}
      <4>1. res \in {h.id, Failed, Garbage} /\ h.id \in Nat
        BY <1>3, <1>4 DEF decrypt, Buffered
      <4> QED
        BY <4>1 DEF Garbage
    <3> QED
      BY <3>1, <1>1, <1>4 DEF Ended, Ending, Buffered
  <2> DEFINE k == Len(returned)
  <2> HIDE DEF e
  <2>2. /\ Len(returned') = k + 1 /\ returned'[k + 1] = e /\ k \in Nat
        /\ \A i \in 1 .. k : returned'[i] = returned[i]
    BY <1>2, <1>3, <2>1, AppendProperties DEF e
  <2>3. \A i \in 1 .. k : LET r == returned[i]
                          IN  /\ r.id \in 1 .. Len(arrived)
                              /\ r.res = r.id <=> arrived[r.id].ctx = r.under
    BY <1>1 DEF DecryptedWhenReturned
  <2>4. e.id \in 1 .. Len(arrived) /\ (e.res = e.id <=> arrived[e.id].ctx = e.under)
    <3> HIDE DEF h
    <3> QED
      BY <1>6, <1>7, <1>8
  <2> HIDE DEF k
  <2>5. \A i \in 1 .. k + 1 : i \in 1 .. k \/ i = k + 1
    BY <2>2
  <2> QED
    BY <2>2, <2>3, <2>4, <2>5 DEF DecryptedWhenReturned
<1> QED
  BY <1>9, <1>10

(* ArrivalOrder speaks of TakenIn, rcv and arrived only. *)
LEMMA OrderKept ==
  ASSUME ArrivalOrder, ArrivalsNumbered, UNCHANGED <<rcv, arrived>>, TakenIn' = TakenIn
  PROVE  ArrivalOrder' /\ ArrivalsNumbered'
BY SMTT(40) DEF ArrivalOrder, ArrivalsNumbered

(* A datagram arrives behind the others. *)
LEMMA ArriveStep ==
  ASSUME RecvInv, NEW c \in Contexts, NEW n \in {0, 1}, Arrive(c, n)
  PROVE  RecvInv'
<1> DEFINE d == [id |-> Len(arrived) + 1, ctx |-> c, len |-> n]
           a == Len(arrived)
           w == Len(rcv)
<1>1. TypeOK /\ OneBuffer /\ ArrivalsNumbered /\ ArrivalOrder
  BY DEF RecvInv
<1>2. /\ rcv' = Append(rcv, d) /\ arrived' = Append(arrived, d) /\ rd_event' = TRUE /\ w < RcvCap
      /\ UNCHANGED <<read_buffer, dec_ctx, r_pc, r_method, interrupted, errs, switches, returned>>
  BY DEF Arrive
<1>3. rcv \in Seq(Datagram) /\ arrived \in Seq(Datagram) /\ a \in Nat /\ w \in Nat /\ w <= a
  BY <1>1 DEF TypeOK, ArrivalsNumbered
<1>4. d \in Datagram /\ d.id = a + 1
  BY <1>3 DEF Datagram
<1> HIDE DEF d
<1>5. /\ rcv' \in Seq(Datagram) /\ Len(rcv') = w + 1 /\ rcv'[w + 1] = d
      /\ \A i \in 1 .. w : rcv'[i] = rcv[i]
  BY <1>2, <1>3, <1>4, AppendProperties
<1>6. /\ arrived' \in Seq(Datagram) /\ Len(arrived') = a + 1 /\ arrived'[a + 1] = d
      /\ \A i \in 1 .. a : arrived'[i] = arrived[i]
  BY <1>2, <1>3, <1>4, AppendProperties
<1>7. TypeOK'
  <2>1. RcvCap \in Nat
    BY UdpRecvAssumption DEF UdpRecvAssumption
  <2>2. Len(rcv') <= RcvCap
    BY <1>2, <1>3, <1>5, <2>1
  <2>3. /\ read_buffer' \in [Methods -> Seq([id : Nat, ctx : Contexts, len : {1}])]
        /\ dec_ctx' \in Contexts
        /\ r_pc' \in {"idle", "ready", "recv"} /\ r_method' \in Methods /\ interrupted' \in BOOLEAN
        /\ errs' \in Nat /\ switches' \in Nat
        /\ returned' \in Seq([id : Nat, under : Contexts, res : Nat \cup {Failed}])
    BY <1>1, <1>2 DEF TypeOK
  <2>4. rd_event' \in BOOLEAN
    BY <1>2
  <2> QED
    BY <1>5, <1>6, <2>2, <2>3, <2>4 DEF TypeOK
<1>8. OneBuffer'
  BY <1>1, <1>2 DEF OneBuffer
<1> HIDE DEF a, w
<1>9. ArrivalsNumbered'
  <2>1. \A k \in 1 .. a + 1 : k \in 1 .. a \/ k = a + 1
    BY <1>3
  <2>2. \A k \in 1 .. a : arrived[k].id = k
    BY <1>1 DEF ArrivalsNumbered, a
  <2>3. \A k \in 1 .. Len(arrived') : arrived'[k].id = k
    BY <2>1, <2>2, <1>4, <1>6
  <2>4. Len(rcv') <= Len(arrived')
    BY <1>3, <1>5, <1>6
  <2> QED
    BY <2>3, <2>4 DEF ArrivalsNumbered
<1>10. ArrivalOrder'
  <2> DEFINE t == a - w
             s == TakenIn
  <2>1. /\ \A i \in 1 .. w : rcv[i] = arrived[t + i]
        /\ {s[i] : i \in 1 .. Len(s)} = {k \in 1 .. t : NotEmpty(arrived[k])}
        /\ \A j \in 1 .. Len(s) : \A i \in 1 .. j - 1 : s[i] < s[j]
    BY <1>1 DEF ArrivalOrder, a, w
  <2>2. Len(arrived') - Len(rcv') = t /\ t \in Nat /\ t + w = a /\ t + (w + 1) = a + 1
    BY <1>3, <1>5, <1>6
  <2>3. TakenIn' = s
    BY <1>2 DEF TakenIn
  <2> HIDE DEF s, t
  <2>4. ASSUME NEW i \in 1 .. w + 1 PROVE rcv'[i] = arrived'[t + i]
    <3>1. CASE i \in 1 .. w
      <4>1. t + i \in 1 .. a
        BY <3>1, <1>3, <2>2
      <4> QED
        BY <3>1, <4>1, <1>5, <1>6, <2>1
    <3>2. CASE i = w + 1
      BY <3>2, <1>5, <1>6, <2>2
    <3> QED
      BY <3>1, <3>2, <1>3
  <2>5. {k \in 1 .. t : NotEmpty(arrived'[k])} = {k \in 1 .. t : NotEmpty(arrived[k])}
    <3>1. \A k \in 1 .. t : k \in 1 .. a
      BY <1>3, <2>2
    <3> QED
      BY <3>1, <1>6
  <2> QED
    BY <2>1, <2>2, <2>3, <2>4, <2>5, <1>5 DEF ArrivalOrder
<1>11. BufferedArrived' /\ DecryptedWhenReturned'
  <2>1. \A k \in 1 .. a : k \in 1 .. a + 1
    BY <1>3
  <2>2. BufferedArrived /\ DecryptedWhenReturned
    BY DEF RecvInv
  <2>3. BufferedArrived'
    BY <1>2, <1>6, <2>1, <2>2 DEF BufferedArrived, a
  <2>4. DecryptedWhenReturned'
    BY <1>2, <1>6, <2>1, <2>2 DEF DecryptedWhenReturned, a
  <2> QED
    BY <2>3, <2>4
<1> QED
  BY <1>7, <1>8, <1>9, <1>10, <1>11 DEF RecvInv

(* A datagram moves from the kernel to the end of the buffer of the method, *)
(* or nowhere if it is empty.                                               *)
LEMMA RecvDataStep ==
  ASSUME RecvInv, RecvData
  PROVE  RecvInv'
<1> DEFINE h == Head(rcv)
           a == Len(arrived)
           w == Len(rcv)
           t == a - w
<1>1. TypeOK /\ OneBuffer /\ ArrivalsNumbered /\ ArrivalOrder
  BY DEF RecvInv
<1>2. /\ rcv # <<>> /\ rcv' = Tail(rcv) /\ r_pc = "recv"
      /\ read_buffer' = [read_buffer EXCEPT ![r_method] = Buffer \o Received]
      /\ UNCHANGED <<dec_ctx, r_method, interrupted, rd_event, errs, switches, arrived,
                     returned, r_pc>>
  BY DEF RecvData, Receive
<1>3. rcv \in Seq(Datagram) /\ arrived \in Seq(Datagram) /\ a \in Nat /\ w \in Nat \ {0} /\ w <= a
  BY <1>1, <1>2 DEF TypeOK, ArrivalsNumbered
<1>4. /\ h \in Datagram /\ h = rcv[1]
      /\ rcv' \in Seq(Datagram) /\ Len(rcv') = w - 1
      /\ \A i \in 1 .. w - 1 : rcv'[i] = rcv[i + 1]
  BY <1>2, <1>3, HeadTailProperties
<1>5. t \in Nat /\ t + 1 \in 1 .. a /\ a - (w - 1) = t + 1
  BY <1>3
<1>6. h = arrived[t + 1] /\ h.id = t + 1 /\ h.id \in Nat
  <2>1. 1 \in 1 .. w
    BY <1>3
  <2>2. h = arrived[t + 1]
    BY <1>1, <1>4, <2>1 DEF ArrivalOrder
  <2> QED
    BY <1>1, <1>5, <2>2 DEF ArrivalsNumbered
<1>7. /\ read_buffer \in [Methods -> Seq(Buffered)] /\ r_method \in Methods
      /\ Buffer \in Seq(Buffered) /\ returned \in Seq(Ended)
      /\ Ids(Buffer) \in Seq(Nat) /\ Ids(returned) \in Seq(Nat)
      /\ \A d \in Buffered : d.id \in Nat
  BY <1>1, RecvTypes
<1>8. (h.len = 0 \/ h \in Buffered) /\ (h \in Buffered => h.len = 1)
  BY <1>4 DEF Datagram, Buffered
<1>9. Buffer \o Received = IF h.len = 0 THEN Buffer ELSE Append(Buffer, h)
  <2>1. CASE h.len = 0
    BY <2>1, <1>7, ConcatEmptySeq DEF Received
  <2>2. CASE h.len # 0
    <3>1. Received = <<h>> /\ h \in Buffered
      BY <2>2, <1>8 DEF Received
    <3> QED
      BY <2>2, <3>1, <1>7, AppendIsConcat
  <2> QED
    BY <2>1, <2>2
<1> DEFINE B == Buffer \o Received
<1>10. B \in Seq(Buffered)
  BY <1>7, <1>8, <1>9, AppendProperties
<1>11. /\ read_buffer' \in [Methods -> Seq(Buffered)] /\ read_buffer'[r_method] = B
       /\ \A m \in Methods : m # r_method => read_buffer'[m] = read_buffer[m]
  BY <1>2, <1>7, <1>10
<1>12. \A m \in Methods : m # r_method => read_buffer[m] = <<>> /\ read_buffer'[m] = <<>>
  BY <1>1, <1>11 DEF OneBuffer
<1>13. TypeOK'
  <2>1. RcvCap \in Nat /\ w <= RcvCap
    BY <1>1, UdpRecvAssumption DEF UdpRecvAssumption, TypeOK
  <2>2. Len(rcv') <= RcvCap
    BY <1>3, <1>4, <2>1
  <2>3. /\ dec_ctx' \in Contexts /\ rd_event' \in BOOLEAN
        /\ r_pc' \in {"idle", "ready", "recv"} /\ r_method' \in Methods /\ interrupted' \in BOOLEAN
        /\ errs' \in Nat /\ switches' \in Nat /\ arrived' \in Seq(Datagram)
        /\ returned' \in Seq([id : Nat, under : Contexts, res : Nat \cup {Failed}])
    BY <1>1, <1>2 DEF TypeOK
  <2> QED
    BY <1>4, <1>11, <2>2, <2>3 DEF TypeOK, Buffered
<1>14. OneBuffer'
  BY <1>2, <1>12 DEF OneBuffer
<1>15. ArrivalsNumbered'
  <2>1. Len(rcv') <= Len(arrived')
    BY <1>2, <1>3, <1>4
  <2> QED
    BY <1>1, <1>2, <2>1 DEF ArrivalsNumbered
<1>16. TakenIn = Ids(returned) \o Ids(Buffer) /\ TakenIn \in Seq(Nat)
  BY <1>7, <1>12, TakenShape DEF TakenIn, Buffer
<1>17. TakenIn' = Ids(returned) \o Ids(B)
  <2> DEFINE R == Ids(returned)
             b == read_buffer'
  <2>1. R \o Ids(b["read"]) \o Ids(b["read_frm"]) = R \o Ids(b[r_method])
    <3> HIDE DEF R, b
    <3>1. b \in [Methods -> Seq(Buffered)] /\ \A m \in Methods : m # r_method => b[m] = <<>>
      BY <1>11, <1>12 DEF b
    <3>2. R \in Seq(Nat)
      BY <1>7 DEF R
    <3> QED
      BY <1>7, <3>1, <3>2, TakenShape
  <2> QED
    BY <1>2, <1>11, <2>1 DEF TakenIn
<1>18. TakenIn' = IF h.len = 0 THEN TakenIn ELSE Append(TakenIn, t + 1)
  <2>1. CASE h.len = 0
    BY <2>1, <1>9, <1>16, <1>17
  <2>2. CASE h.len # 0
    <3> DEFINE R == Ids(returned)
               I == Ids(Buffer)
               x == t + 1
    <3>1. B = Append(Buffer, h) /\ h \in Buffered
      BY <2>2, <1>8, <1>9
    <3>2. Ids(B) = Append(I, x)
      BY <3>1, <1>6, <1>7, IdsAppend
    <3>3. R \in Seq(Nat) /\ I \in Seq(Nat) /\ x \in Nat /\ <<x>> \in Seq(Nat)
      BY <1>5, <1>7
    <3>4. TakenIn = R \o I /\ TakenIn' = R \o Append(I, x) /\ TakenIn \in Seq(Nat)
      BY <1>16, <1>17, <3>2
    <3> HIDE DEF R, I, x
    <3>5. Append(I, x) = I \o <<x>> /\ Append(TakenIn, x) = TakenIn \o <<x>>
      BY <3>3, <3>4, AppendIsConcat
    <3>6. (R \o I) \o <<x>> = R \o (I \o <<x>>)
      BY <3>3, ConcatAssociative
    <3> QED
      BY <2>2, <3>4, <3>5, <3>6 DEF x
  <2> QED
    BY <2>1, <2>2
<1>19. ArrivalOrder'
  <2> DEFINE s == TakenIn
             S == {k \in 1 .. t : NotEmpty(arrived[k])}
             u == TakenIn'
             U == {k \in 1 .. t + 1 : NotEmpty(arrived[k])}
  <2>1. /\ \A i \in 1 .. w : rcv[i] = arrived[t + i]
        /\ {s[i] : i \in 1 .. Len(s)} = S
        /\ \A j \in 1 .. Len(s) : \A i \in 1 .. j - 1 : s[i] < s[j]
    BY <1>1 DEF ArrivalOrder
  <2>2. Len(arrived') - Len(rcv') = t + 1
    BY <1>2, <1>4, <1>5
  <2> HIDE DEF s, u, t, w, a, h, B
  <2>3. ASSUME NEW i \in 1 .. w - 1 PROVE rcv'[i] = arrived'[(t + 1) + i]
    <3>1. i + 1 \in 1 .. w /\ t + (i + 1) = (t + 1) + i
      BY <1>3, <1>5
    <3> QED
      BY <3>1, <1>2, <1>4, <2>1
  <2>4. U = IF h.len = 0 THEN S ELSE S \cup {t + 1}
    <3>1. 1 .. t + 1 = (1 .. t) \cup {t + 1}
      BY <1>5
    <3>2. NotEmpty(arrived[t + 1]) <=> h.len # 0
      BY <1>4, <1>6 DEF NotEmpty, Datagram
    <3> QED
      BY <3>1, <3>2
  <2>5. /\ {u[i] : i \in 1 .. Len(u)} = U
        /\ \A j \in 1 .. Len(u) : \A i \in 1 .. j - 1 : u[i] < u[j]
    <3>1. CASE h.len = 0
      BY <3>1, <1>18, <2>1, <2>4 DEF s, u
    <3>2. CASE h.len # 0
      <4>1. s \in Seq(Nat) /\ u = Append(s, t + 1) /\ t + 1 \in Nat
        BY <3>2, <1>5, <1>16, <1>18 DEF s, u
      <4>2. S \in SUBSET Nat /\ \A y \in S : y < t + 1
        BY <1>5
      <4>3. U = S \cup {t + 1}
        BY <3>2, <2>4
      <4> HIDE DEF S, U
      <4>4. LET v == Append(s, t + 1)
            IN  /\ {v[i] : i \in 1 .. Len(v)} = S \cup {t + 1}
                /\ \A j \in 1 .. Len(v) : \A i \in 1 .. j - 1 : v[i] < v[j]
        BY <4>1, <4>2, <2>1, IncreasingAppend
      <4> QED
        BY <4>1, <4>3, <4>4
    <3> QED
      BY <3>1, <3>2
  <2> QED
    BY <2>2, <2>3, <2>5, <1>2, <1>4 DEF ArrivalOrder, u
<1>20. BufferedArrived' /\ DecryptedWhenReturned'
  <2>1. BufferedArrived /\ DecryptedWhenReturned
    BY DEF RecvInv
  <2>2. ASSUME NEW i \in 1 .. Len(B)
        PROVE  B[i].id \in 1 .. a /\ arrived[B[i].id] = B[i]
    <3> DEFINE k == Len(Buffer)
    <3>1. \A j \in 1 .. k : Buffer[j].id \in 1 .. a /\ arrived[Buffer[j].id] = Buffer[j]
      BY <1>7, <2>1 DEF BufferedArrived, Buffer
    <3>2. CASE h.len = 0
      BY <3>1, <3>2, <1>9
    <3>3. CASE h.len # 0
      <4>1. B = Append(Buffer, h) /\ h \in Buffered
        BY <3>3, <1>8, <1>9
      <4> HIDE DEF B, h
      <4>2. /\ Len(B) = k + 1 /\ B[k + 1] = h /\ k \in Nat
            /\ \A j \in 1 .. k : B[j] = Buffer[j]
        BY <4>1, <1>7, AppendProperties
      <4> HIDE DEF k
      <4>3. i \in 1 .. k \/ i = k + 1
        BY <4>2
      <4> HIDE DEF a, t
      <4> QED
        BY <3>1, <4>2, <4>3, <1>5, <1>6
    <3> QED
      BY <3>2, <3>3
  <2>3. BufferedArrived'
    <3> SUFFICES ASSUME NEW m \in Methods, NEW i \in 1 .. Len(read_buffer'[m])
                 PROVE  /\ read_buffer'[m][i].id \in 1 .. Len(arrived)
                        /\ arrived[read_buffer'[m][i].id] = read_buffer'[m][i]
      BY <1>2 DEF BufferedArrived
    <3> HIDE DEF B
    <3>1. CASE m = r_method
      BY <3>1, <1>11, <2>2
    <3>2. CASE m # r_method
      BY <3>2, <1>11, <2>1 DEF BufferedArrived
    <3> QED
      BY <3>1, <3>2
  <2>4. DecryptedWhenReturned'
    BY <1>2, <2>1 DEF DecryptedWhenReturned
  <2> QED
    BY <2>3, <2>4
<1> QED
  BY <1>13, <1>14, <1>15, <1>19, <1>20 DEF RecvInv

(* A call ends with the front of a buffer, at its start or after the loop.  *)
LEMMA ReturnStep ==
  ASSUME RecvInv, Buffer # <<>>, PopAndDecrypt, r_pc \in {"ready", "recv"}, r_pc' = "ready",
         UNCHANGED <<dec_ctx, r_method, interrupted, rcv, rd_event, errs, switches, arrived>>
  PROVE  RecvInv'
<1>1. TypeOK /\ OneBuffer /\ ArrivalsNumbered /\ ArrivalOrder
  BY DEF RecvInv
<1>2. /\ read_buffer' \in [Methods -> Seq(Buffered)] /\ returned' \in Seq(Ended)
      /\ \A m \in Methods : m # r_method => read_buffer'[m] = <<>>
      /\ TakenIn' = TakenIn
  BY <1>1, PopStep
<1>3. ArrivalOrder' /\ ArrivalsNumbered'
  BY <1>1, <1>2, OrderKept
<1>4. OneBuffer'
  BY <1>2 DEF OneBuffer
<1>5. TypeOK'
  BY <1>1, <1>2 DEF TypeOK, Buffered, Ended
<1>6. BufferedArrived' /\ DecryptedWhenReturned'
  BY EndingStep
<1> QED
  BY <1>3, <1>4, <1>5, <1>6 DEF RecvInv

(* The steps that move no datagram. *)
LEMMA QuietStep ==
  ASSUME RecvInv, UNCHANGED <<read_buffer, rcv, arrived, returned>>,
         dec_ctx' \in Contexts, r_pc' \in {"idle", "ready", "recv"}, r_method' \in Methods,
         interrupted' \in BOOLEAN, rd_event' \in BOOLEAN, errs' \in Nat, switches' \in Nat,
         r_method' = r_method \/ r_pc = "idle",
         r_pc' = "idle" => r_pc = "idle" \/ Buffer = <<>>
  PROVE  RecvInv'
<1>1. TypeOK /\ OneBuffer /\ ArrivalsNumbered /\ ArrivalOrder
  BY DEF RecvInv
<1>2. TakenIn' = TakenIn
  BY DEF TakenIn
<1>3. ArrivalOrder' /\ ArrivalsNumbered'
  BY <1>1, <1>2, OrderKept
<1>4. OneBuffer'
  BY <1>1 DEF OneBuffer, Buffer
<1>5. TypeOK'
  BY <1>1 DEF TypeOK
<1>6. BufferedArrived' /\ DecryptedWhenReturned'
  BY DEF RecvInv, BufferedArrived, DecryptedWhenReturned
<1> QED
  BY <1>3, <1>4, <1>5, <1>6 DEF RecvInv

(* Every step keeps the invariant. *)
LEMMA RecvNext == RecvInv /\ [Next]_vars => RecvInv'
<1> SUFFICES ASSUME RecvInv, [Next]_vars PROVE RecvInv'
  OBVIOUS
<1>1. /\ dec_ctx \in Contexts /\ r_pc \in {"idle", "ready", "recv"} /\ r_method \in Methods
      /\ interrupted \in BOOLEAN /\ rd_event \in BOOLEAN /\ errs \in Nat /\ switches \in Nat
  BY DEF RecvInv, TypeOK
<1>2. ASSUME NEW c \in Contexts, NEW l \in {0, 1}, Arrive(c, l) PROVE RecvInv'
  BY <1>2, ArriveStep
<1>3. ASSUME NEW c \in Contexts, SetDecryptCtx(c) PROVE RecvInv'
  BY <1>1, <1>3, QuietStep DEF SetDecryptCtx
<1>4. ASSUME NEW m \in Methods, OnReadable(m) PROVE RecvInv'
  BY <1>1, <1>4, QuietStep DEF OnReadable
<1>5. CASE ReadBuffered
  <2>1. CASE Buffer # <<>> /\ PopAndDecrypt /\ UNCHANGED r_pc
    BY <1>5, <2>1, ReturnStep DEF ReadBuffered
  <2>2. CASE Buffer = <<>> /\ r_pc' = "recv" /\ UNCHANGED <<read_buffer, returned>>
    BY <1>1, <1>5, <2>2, QuietStep DEF ReadBuffered
  <2> QED
    BY <1>5, <2>1, <2>2 DEF ReadBuffered
<1>6. CASE RecvData
  BY <1>6, RecvDataStep
<1>7. ASSUME NEW why \in {"WouldBlock", "Interrupted"}, LoopEnds(why) PROVE RecvInv'
  <2>1. CASE Buffer # <<>> /\ PopAndDecrypt /\ r_pc' = "ready" /\ UNCHANGED interrupted
    BY <1>7, <2>1, ReturnStep DEF LoopEnds
  <2>2. CASE /\ Buffer = <<>> /\ r_pc' = "idle" /\ interrupted' = (why = "Interrupted")
             /\ UNCHANGED <<read_buffer, returned>>
    <3>1. interrupted' \in BOOLEAN
      BY <2>2
    <3> QED
      BY <1>1, <1>7, <2>2, <3>1, QuietStep DEF LoopEnds
  <2> QED
    BY <1>7, <2>1, <2>2 DEF LoopEnds
<1>8. CASE RecvWouldBlock \/ RecvInterrupted
  BY <1>7, <1>8 DEF RecvWouldBlock, RecvInterrupted
<1>9. CASE RecvErr
  BY <1>1, <1>9, QuietStep DEF RecvErr
<1>10. CASE UNCHANGED vars
  BY <1>1, <1>10, QuietStep DEF vars
<1> QED
  BY <1>2, <1>3, <1>4, <1>5, <1>6, <1>8, <1>9, <1>10 DEF Next, Loop

-----------------------------------------------------------------------------
(* The inductive invariant holds in every state of a run of the receiver. *)
THEOREM RecvInvariant == Spec => []RecvInv
BY RecvInit, RecvNext, PTL DEF Spec

(* The fields of UdpSock keep their types, and no empty datagram is ever in *)
(* a read buffer.                                                           *)
THEOREM RecvTypeCorrect == Spec => []TypeOK
<1>1. RecvInv => TypeOK
  BY DEF RecvInv
<1> QED
  BY <1>1, RecvInvariant, PTL

(* Every datagram that arrived and is not empty ended exactly one call of   *)
(* read or read_frm or still waits; calls end in the order of arrival, each *)
(* with the datagram itself if and only if it came under the context the    *)
(* socket had at that call.                                                 *)
THEOREM ReturnedAsArrivedCorrect == Spec => []ReturnedAsArrived
<1>1. RecvInv => ReturnedAsArrived
  BY DEF RecvInv, ReturnedAsArrived
<1> QED
  BY <1>1, RecvInvariant, PTL
==============================================================================
