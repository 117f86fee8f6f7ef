------------------------------- MODULE Crypto -------------------------------
(***************************************************************************)
(* EncryptContext and DecryptContext (src/crypto.rs).  A context is named   *)
(* by the key that both ends share, so a buffer encrypted under c decrypts  *)
(* under c; NullCtx only serialises.  Every other context stands for the    *)
(* encrypting variants, authenticated and anonymous: they only differ in    *)
(* the cryptography that safe_crypto does.                                  *)
(*                                                                          *)
(* A message on its way is a frame [id, priority, len, ctx]: len is the     *)
(* length of its encrypted body.  Bytes are cells [frame, k], the k-th byte *)
(* of that frame's encoding, so that a decryption can tell whether it was   *)
(* given exactly the bytes that encryption produced.                        *)
(***************************************************************************)
EXTENDS Integers, Sequences

CONSTANTS
  NullCtx,             \* the context that does not encrypt
  SERIALIZED_U32_LEN,  \* bytes of a serialised u32 (4 in the code)
  ENCRYPTED_U32_LEN,   \* bytes of an encrypted u32 (52 in the code)
  U32                  \* number of u32 values (2^32 in the code)

ASSUME CryptoAssumption ==
  /\ SERIALIZED_U32_LEN \in Nat \ {0}
  /\ ENCRYPTED_U32_LEN \in Nat \ {0}
  /\ U32 \in Nat \ {0}

(* EncryptContext::encrypted_size_len, DecryptContext::encrypted_size_len. *)
encrypted_size_len(ctx) ==
  IF ctx = NullCtx THEN SERIALIZED_U32_LEN ELSE ENCRYPTED_U32_LEN

(* cells is the encryption, under ctx, of the length of one frame. *)
IsHeader(cells, ctx) ==
  LET f == cells[1].frame
  IN  /\ f.ctx = ctx
      /\ Len(cells) = encrypted_size_len(ctx)
      /\ \A i \in 1 .. Len(cells) : cells[i] = [frame |-> f, k |-> i]

(* cells is the encryption, under ctx, of the message of one frame. *)
IsBody(cells, ctx) ==
  LET f == cells[1].frame
  IN  /\ f.ctx = ctx
      /\ Len(cells) = f.len
      /\ \A i \in 1 .. Len(cells) :
           cells[i] = [frame |-> f, k |-> encrypted_size_len(ctx) + i]

Failed  == -1  \* a decryption or deserialisation error
Garbage == 0   \* a message nobody sent; ids count from 1

(* decrypt::<u32>, as the set of its outcomes.  Bytes that are not one      *)
(* header of this context fail to decrypt under a key, and deserialise to   *)
(* some number under NullCtx.                                               *)
decrypt_len(cells, ctx) ==
  IF IsHeader(cells, ctx) THEN {cells[1].frame.len % U32}
  ELSE IF ctx = NullCtx THEN 0 .. U32 - 1
  ELSE {Failed}

(* decrypt::<T>, as the set of its outcomes: the id of the message.  Bytes  *)
(* that are not one body of this context fail to decrypt under a key; under *)
(* NullCtx they may also deserialise to something.                          *)
decrypt_msg(cells, ctx) ==
  IF IsBody(cells, ctx) THEN {cells[1].frame.id}
  ELSE IF ctx = NullCtx THEN {Failed, Garbage}
  ELSE {Failed}
=============================================================================
