------------------------- MODULE LenDelimitedReader -------------------------
(***************************************************************************)
(* The frame encoder and decoder of TCP (src/tcp.rs): serialize_with_len    *)
(* and LenDelimitedReader.  A reader is a record [read_buffer, read_len];   *)
(* try_read is the set of its outcomes [res, reader], the result returned   *)
(* and the reader it leaves behind.                                         *)
(***************************************************************************)
EXTENDS Crypto

CONSTANT max_payload_size  \* SocketConfig.max_payload_size

ASSUME ReaderAssumption == max_payload_size \in Nat

(* The length header followed by the body: one cell per byte. *)
serialize_with_len(f) ==
  [k \in 1 .. encrypted_size_len(f.ctx) + f.len |-> [frame |-> f, k |-> k]]

(* Results of read: Ok(Some(_)), made of `size` bytes, Ok(None) and Err(_). *)
Some(id, size) == [tag |-> "Some", id |-> id, size |-> size]
None == [tag |-> "None"]
Err(e) == [tag |-> "Err", err |-> e]

new_reader == [read_buffer |-> <<>>, read_len |-> 0]

put_buf(rd, cells) == [rd EXCEPT !.read_buffer = @ \o cells]

mark_read_remaining(rd) ==
  [read_buffer |-> SubSeq(rd.read_buffer, rd.read_len + 1, Len(rd.read_buffer)),
   read_len |-> rd.read_len - Len(rd.read_buffer)]

(* Reset the buffer to the beginning of the next message. *)
mark_read(rd) ==
  [read_buffer |-> SubSeq(rd.read_buffer, rd.read_len + 1, Len(rd.read_buffer)),
   read_len |-> 0]

(* A header of `size` bytes is taken off the buffer if its length is at     *)
(* most `limit`.  A length refused was stored in read_len before, and the   *)
(* header then stays in the buffer.                                         *)
take_header(rd, dec_ctx, size, limit) ==
  LET body == SubSeq(rd.read_buffer, size + 1, Len(rd.read_buffer))
      after(n) ==
        IF n = Failed THEN [res |-> Err("Crypto"), reader |-> rd]
        ELSE IF n > limit THEN [res |-> Err("PayloadSizeProhibitive"),
                                reader |-> [rd EXCEPT !.read_len = n]]
        ELSE [res |-> None, reader |-> [read_buffer |-> body, read_len |-> n]]
  IN  IF Len(rd.read_buffer) < size THEN {[res |-> None, reader |-> rd]}
      ELSE {after(n) : n \in decrypt_len(SubSeq(rd.read_buffer, 1, size), dec_ctx)}

try_read_header_no_limit(rd, dec_ctx) ==
  take_header(rd, dec_ctx, encrypted_size_len(dec_ctx), U32)

try_read_header_plain_size(rd, dec_ctx) ==
  take_header(rd, dec_ctx, SERIALIZED_U32_LEN, max_payload_size)

(* try_read_header: `None` stands for its two Ok results, told apart by the *)
(* read_len it leaves: 0 is Ok(false), a positive length is Ok(true).       *)
try_read_header(rd, dec_ctx) ==
  take_header(rd, dec_ctx, encrypted_size_len(dec_ctx), max_payload_size)

(* The rest of try_read once read_len is known: wait for the whole body,    *)
(* decrypt it, and only then consume it, which leaves the reader `next`.    *)
take_body(rd, dec_ctx, next) ==
  LET after(id) == IF id = Failed THEN [res |-> Err("Crypto"), reader |-> rd]
                   ELSE [res |-> Some(id, rd.read_len), reader |-> next]
  IN  IF rd.read_len > Len(rd.read_buffer) THEN {[res |-> None, reader |-> rd]}
      ELSE {after(id) : id \in decrypt_msg(SubSeq(rd.read_buffer, 1, rd.read_len), dec_ctx)}

try_read_body_unmarked(rd, dec_ctx) == take_body(rd, dec_ctx, rd)

try_read_body(rd, dec_ctx) == take_body(rd, dec_ctx, mark_read(rd))

(* try_read: a pending length skips the header; an error or Ok(false) from  *)
(* the header returns at once.                                              *)
try_read(rd, dec_ctx) ==
  IF rd.read_len # 0 THEN try_read_body(rd, dec_ctx)
  ELSE UNION {IF o.res = None /\ o.reader.read_len > 0
              THEN try_read_body(o.reader, dec_ctx) ELSE {o} :
                o \in try_read_header(rd, dec_ctx)}
=============================================================================
