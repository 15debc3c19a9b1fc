----------------------------- MODULE MirrorBuffer ---------------------------
(* Decryption of the mirrored screen, lib/mirror_buffer.c: AES in counter    *)
(* mode, asked for whole blocks.  When a payload ends inside a block the     *)
(* rest of that block's keystream is kept for the start of the next payload. *)
(*                                                                           *)
(* A byte of keystream is known by its position in the stream.  A payload    *)
(* shorter than what was kept is decrypted past its end, and the place in    *)
(* the keystream is lost; what such a write does to the memory is up to the  *)
(* allocator.                                                                *)
EXTENDS Integers

CONSTANTS Block,         \* bytes of a block, 16 in the code
          MaxSize,       \* the longest payload
          MaxStream      \* bound on the keystream of one key

ASSUME KeystreamAssumption ==
  /\ Block \in Nat \ {0}
  /\ MaxSize \in Nat
  /\ MaxStream \in Nat

VARIABLES status,            \* "unkeyed", "keyed", "aborted" or "destroyed"
          lost,              \* whether a payload was shorter than what was kept
          generated,         \* keystream that aes_ctx has produced
          nextDecryptCount,
          og,                \* byte -> its position in the keystream, or Text
          output             \* byte of the last payload -> the position used for it

mbvars == <<status, lost, generated, nextDecryptCount, og, output>>

Text == -1                   \* a decrypted or cleared byte in og
Size == 0 .. MaxSize
Bytes == 0 .. Block - 1

-----------------------------------------------------------------------------
NoOutput == [i \in {} |-> 0]

\* mirror_buffer_init
Init == /\ status = "unkeyed"
        /\ lost = FALSE
        /\ generated = 0
        /\ nextDecryptCount = 0
        /\ og = [j \in Bytes |-> Text]
        /\ output = NoOutput

\* A second key leaves og as it is, and drops the first aes_ctx.
mirror_buffer_init_aes ==
  /\ status \in {"unkeyed", "keyed"}
  /\ status' = "keyed"
  /\ lost' = FALSE
  /\ generated' = 0
  /\ nextDecryptCount' = 0
  /\ output' = NoOutput
  /\ UNCHANGED og

-----------------------------------------------------------------------------
(* mirror_buffer_decrypt.                                                   *)

\* Mutants: what was used is taken for what is kept; the kept bytes are taken from
\* the start of og.
KeptAfterRest(rest)   == rest
KeptByteFromStart(i)  == og[i]

\* Whole blocks, and the bytes after them, behind the kept bytes.
EncryptLen(n) == ((n - nextDecryptCount) \div Block) * Block
RestLen(n)    == (n - nextDecryptCount) % Block

\* What is kept of the block that decrypts the rest.
KeptAfter(rest) == IF rest > 0 THEN Block - rest ELSE 0

\* Byte i of a payload is one of the kept bytes ...
KeptByte(i) == og[(Block - nextDecryptCount) + i]

\* ... or is decrypted by what the cipher generates next: the blocks, and the
\* block of the rest directly behind them.
ByteUsed(i) == IF i < nextDecryptCount THEN KeptByte(i)
               ELSE generated + (i - nextDecryptCount)

\* og after the rest: its bytes, decrypted, and the bare keystream.
OgAfter(n) ==
  [j \in Bytes |-> IF j < RestLen(n) THEN Text ELSE generated + EncryptLen(n) + j]

Decrypt(n) ==
  /\ n >= nextDecryptCount
  /\ output' = [i \in 0 .. n - 1 |-> ByteUsed(i)]
  /\ nextDecryptCount' = KeptAfter(RestLen(n))
  /\ IF RestLen(n) > 0
     THEN /\ generated' = generated + EncryptLen(n) + Block
          /\ og' = OgAfter(n)
     ELSE /\ generated' = generated + EncryptLen(n)
          /\ UNCHANGED og
  /\ UNCHANGED <<status, lost>>

\* C divides towards zero: no whole block, and a rest that is not positive.
DecryptTooShort(n) ==
  /\ n < nextDecryptCount
  /\ output' = [i \in 0 .. n - 1 |-> KeptByte(i)]
  /\ nextDecryptCount' = 0
  /\ lost' = TRUE
  /\ status' \in {"keyed", "aborted"}
  /\ UNCHANGED <<generated, og>>

mirror_buffer_decrypt(n) ==
  /\ status = "keyed"
  /\ generated + n <= MaxStream
  /\ Decrypt(n) \/ DecryptTooShort(n)

mirror_buffer_destroy ==
  /\ status \in {"unkeyed", "keyed"}
  /\ status' = "destroyed"
  /\ UNCHANGED <<lost, generated, nextDecryptCount, og, output>>

Next == \/ mirror_buffer_init_aes
        \/ \E n \in Size : mirror_buffer_decrypt(n)
        \/ mirror_buffer_destroy

Spec == Init /\ [][Next]_mbvars

-----------------------------------------------------------------------------
(* Properties.                                                              *)

MirrorTypeOK ==
  /\ status \in {"unkeyed", "keyed", "aborted", "destroyed"}
  /\ lost \in BOOLEAN
  /\ generated \in Nat
  /\ nextDecryptCount \in Bytes
  /\ og \in [Bytes -> Nat \cup {Text}]

\* The last nextDecryptCount bytes of og are the keystream just before what the
\* cipher will generate next, so that og and the cipher stay in step whatever
\* the lengths of the payloads have been.
KeptIsNext ==
  /\ nextDecryptCount <= generated
  /\ \A j \in Bytes : j >= Block - nextDecryptCount => og[j] = generated - Block + j

\* Every payload is decrypted with the bytes of one continuous keystream, until
\* one is shorter than what was kept.
Kept == INSTANCE Keystream WITH
          position <- generated - nextDecryptCount,
          used     <- output

ImplementsKeystream == Kept!KeystreamSpec
=============================================================================
