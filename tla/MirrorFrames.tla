---------------------------- MODULE MirrorFrames ----------------------------
(* What the mirroring thread promises the renderer: the messages of a        *)
(* connection are handed over whole and in order, each once, however the     *)
(* network cuts the stream into pieces.  A message is a header and a         *)
(* payload; a picture is decrypted with the keystream that follows the one   *)
(* of the picture before, the parameters of the codec are not encrypted, and *)
(* a message of another kind is passed over.                                 *)
EXTENDS Integers

CONSTANTS Header,                \* bytes of a header
          Size                   \* the lengths of payloads

VARIABLES next,                  \* where in the stream the next message begins
          keyed,                 \* how much of the keystream is used
          lost,                  \* whether the place in the keystream is lost
          frame                  \* what is handed over just now

mfvars == <<next, keyed, lost, frame>>

From(start, n) == [i \in 0 .. n - 1 |-> start + i]

NoFrame == [kind |-> "none", header |-> From(0, 0), bytes |-> From(0, 0), keys |-> From(0, 0)]

Init == next = 0 /\ keyed = 0 /\ lost = FALSE /\ frame = NoFrame

Connect == next' = 0 /\ UNCHANGED <<keyed, lost, frame>>

NewKey == keyed' = 0 /\ lost' = FALSE /\ UNCHANGED <<next, frame>>

Take(n) == next' = next + Header + n

\* Behind a payload that lost the place, pictures come whole but not clear.
Picture(n) ==
  /\ Take(n)
  /\ frame'.kind = "picture"
  /\ frame'.header = From(next, Header)
  /\ frame'.bytes = From(next + Header, n)
  /\ lost \/ frame'.keys = From(keyed, n)
  /\ lost => lost'
  /\ lost' \/ keyed' = keyed + n

Codec(n) ==
  /\ Take(n)
  /\ frame' = [kind |-> "codec", header |-> From(next, Header),
               bytes |-> From(next + Header, n), keys |-> From(0, 0)]
  /\ UNCHANGED <<keyed, lost>>

PassOver(n) == Take(n) /\ UNCHANGED <<keyed, lost, frame>>

Rest == frame' = NoFrame /\ UNCHANGED <<next, keyed, lost>>

Step == \/ Connect \/ NewKey \/ Rest
        \/ \E n \in Size : Picture(n) \/ Codec(n) \/ PassOver(n)

FramesSpec == Init /\ [][Step]_mfvars
=============================================================================
