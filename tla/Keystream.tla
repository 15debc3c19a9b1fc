------------------------------ MODULE Keystream -----------------------------
(* What decryption promises the mirroring thread: the encrypted payloads of *)
(* a stream, one after the other, are decrypted with one keystream that has *)
(* neither gaps nor repetitions.  A payload may make it lose its place,     *)
(* which only a new key repairs.                                            *)
EXTENDS Integers

CONSTANT Size                    \* the lengths of payloads

VARIABLES position,              \* how many bytes of the stream are decrypted
          used,                  \* byte of the last payload -> keystream position
          lost                   \* whether the place in the keystream is lost

ksvars == <<position, used, lost>>

NoBytes == [i \in {} |-> 0]

Next(n) == [i \in 0 .. n - 1 |-> position + i]

Init == position = 0 /\ used = NoBytes /\ lost = FALSE

NewKey == position' = 0 /\ used' = NoBytes /\ lost' = FALSE

Decrypt(n) ==
  /\ ~lost /\ ~lost'
  /\ used' = Next(n)
  /\ position' = position + n

\* The payload is still right; what follows it need not be.
LosePlace(n) ==
  /\ ~lost /\ lost'
  /\ used' = Next(n)

StayLost == lost /\ lost'

Step == NewKey \/ StayLost \/ \E n \in Size : Decrypt(n) \/ LosePlace(n)

KeystreamSpec == Init /\ [][Step]_ksvars
=============================================================================
