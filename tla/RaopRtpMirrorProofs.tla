------------------------- MODULE RaopRtpMirrorProofs ------------------------
(* Theorems about RaopRtpMirror and the MirrorBuffer in it, for every length *)
(* of headers, payloads and cipher blocks.  First the decryption alone: that *)
(* what is kept in og stays in step with the cipher, and that it implements  *)
(* Keystream.  Then the receiver: its types, that the cipher stays in step   *)
(* inside of it too, that it is quiet when it is joined, and that what it    *)
(* hands to the renderer are the sender's messages, whole and in order.      *)
EXTENDS RaopRtpMirror, TLAPS

-----------------------------------------------------------------------------
(* Decryption.  Whole blocks and the rest make up what follows the kept      *)
(* bytes.                                                                   *)

LEMMA BlocksAndRest ==
  ASSUME NEW n \in Nat, nextDecryptCount \in Nat, n >= nextDecryptCount
  PROVE  /\ EncryptLen(n) \in Nat
         /\ RestLen(n) \in Bytes
         /\ EncryptLen(n) + RestLen(n) = n - nextDecryptCount
<1> DEFINE a == n - nextDecryptCount
           q == a \div Block
           whole == q * Block
           rest  == a % Block
<1>1. a \in Nat /\ Block \in Nat /\ Block > 0
  BY KeystreamAssumption, SMT
<1> HIDE DEF a
<1>2. q \in Int /\ rest \in Int
  BY <1>1, SMT
<1>3. a = Block * q + rest
  BY <1>1, SMT
<1>4. rest \in Bytes
  BY <1>1, SMT DEF Bytes
<1>5. q >= 0
  BY <1>1, SMT
<1> HIDE DEF q, rest
<1>6. Block * q = whole /\ whole >= 0 /\ whole \in Int
  BY <1>1, <1>2, <1>5, SMT
<1> HIDE DEF whole
<1>7. whole \in Nat /\ whole + rest = a
  BY <1>2, <1>3, <1>6, <1>1, SMT
<1>8. EncryptLen(n) = whole /\ RestLen(n) = rest
  BY DEF EncryptLen, RestLen, a, q, whole, rest
<1> QED
  BY <1>4, <1>7, <1>8 DEF a

-----------------------------------------------------------------------------
(* The type invariant and KeptIsNext are inductive together.                *)

IInv == MirrorTypeOK /\ KeptIsNext

LEMMA InitEstablishes == Init => IInv
<1> SUFFICES ASSUME Init PROVE IInv
  OBVIOUS
<1>1. 0 \in Bytes
  BY KeystreamAssumption DEF Bytes
<1>2. og \in [Bytes -> Nat \cup {Text}]
  BY DEF Init
<1>3. MirrorTypeOK
  BY <1>1, <1>2 DEF Init, MirrorTypeOK
<1>4. KeptIsNext
  BY KeystreamAssumption DEF Init, KeptIsNext, Bytes
<1> QED
  BY <1>3, <1>4 DEF IInv

\* A payload at least as long as what was kept: the place after it, and og.
LEMMA DecryptKeepsStep ==
  ASSUME IInv, NEW n \in Size, status = "keyed", Decrypt(n)
  PROVE  /\ IInv'
         /\ generated' - nextDecryptCount' = (generated - nextDecryptCount) + n
         /\ output' = [i \in 0 .. n - 1 |-> (generated - nextDecryptCount) + i]
<1>1. n \in Nat
  BY KeystreamAssumption DEF Size
<1>2. /\ generated \in Nat /\ nextDecryptCount \in Bytes
      /\ og \in [Bytes -> Nat \cup {Text}]
      /\ nextDecryptCount <= generated
      /\ \A j \in Bytes : j >= Block - nextDecryptCount
                            => og[j] = generated - Block + j
  BY DEF IInv, MirrorTypeOK, KeptIsNext
<1>3. Block \in Nat \ {0} /\ Bytes = 0 .. Block - 1 /\ nextDecryptCount \in Nat
  BY <1>2, KeystreamAssumption DEF Bytes
<1>4. n >= nextDecryptCount
  BY DEF Decrypt
<1> DEFINE whole == EncryptLen(n)
           rest  == RestLen(n)
<1>5. whole \in Nat /\ rest \in 0 .. Block - 1 /\ whole + rest = n - nextDecryptCount
  BY <1>1, <1>3, <1>4, BlocksAndRest
<1>6. /\ output' = [i \in 0 .. n - 1 |-> ByteUsed(i)]
      /\ nextDecryptCount' = KeptAfter(rest)
      /\ status' = status /\ lost' = lost
  BY DEF Decrypt
<1>7. rest > 0 => generated' = generated + whole + Block /\ og' = OgAfter(n)
  BY DEF Decrypt
<1>8. ~(rest > 0) => generated' = generated + whole /\ og' = og
  BY DEF Decrypt
<1>9. OgAfter(n) = [j \in Bytes |-> IF j < rest THEN Text ELSE generated + whole + j]
  BY DEF OgAfter
<1> HIDE DEF whole, rest
<1>10. /\ MirrorTypeOK' /\ KeptIsNext'
       /\ generated' - nextDecryptCount' = (generated - nextDecryptCount) + n
  <2>1. CASE rest > 0
    <3>1. /\ nextDecryptCount' = Block - rest
          /\ generated' = generated + whole + Block
      BY <1>6, <1>7, <2>1 DEF KeptAfter
    <3>2. og' \in [Bytes -> Nat \cup {Text}]
      BY <1>2, <1>3, <1>5, <1>7, <1>9, <2>1
    <3>3. MirrorTypeOK'
      BY <1>2, <1>3, <1>5, <1>6, <2>1, <3>1, <3>2 DEF IInv, MirrorTypeOK
    <3>4. ASSUME NEW j \in Bytes, j >= Block - nextDecryptCount'
          PROVE  og'[j] = generated' - Block + j
      <4>1. j \in Int /\ ~(j < rest)
        BY <1>3, <1>5, <3>1, <3>4
      <4>2. og'[j] = generated + whole + j
        BY <1>7, <1>9, <2>1, <4>1
      <4> QED
        BY <1>2, <1>3, <1>5, <3>1, <4>1, <4>2
    <3>5. /\ nextDecryptCount' <= generated'
          /\ generated' - nextDecryptCount' = (generated - nextDecryptCount) + n
      BY <1>1, <1>2, <1>3, <1>5, <3>1
    <3> QED
      BY <3>3, <3>4, <3>5 DEF KeptIsNext
  <2>2. CASE ~(rest > 0)
    <3>1. nextDecryptCount' = 0 /\ generated' = generated + whole /\ og' = og
      BY <1>6, <1>8, <2>2 DEF KeptAfter
    <3>2. MirrorTypeOK'
      BY <1>2, <1>3, <1>5, <1>6, <3>1 DEF IInv, MirrorTypeOK
    <3>3. /\ KeptIsNext'
          /\ generated' - nextDecryptCount' = (generated - nextDecryptCount) + n
      BY <1>1, <1>2, <1>3, <1>5, <2>2, <3>1 DEF KeptIsNext
    <3> QED
      BY <3>2, <3>3
  <2> QED
    BY <2>1, <2>2
<1>11. ASSUME NEW i \in 0 .. n - 1
       PROVE  ByteUsed(i) = (generated - nextDecryptCount) + i
  <2>1. CASE i < nextDecryptCount
    <3> DEFINE j == (Block - nextDecryptCount) + i
    <3>1. j \in Bytes /\ j >= Block - nextDecryptCount
      BY <1>1, <1>2, <1>3, <2>1
    <3>2. og[j] = generated - Block + j
      BY <1>2, <3>1
    <3>3. ByteUsed(i) = og[j]
      BY <2>1 DEF ByteUsed, KeptByte
    <3> QED
      BY <1>1, <1>2, <1>3, <3>2, <3>3
  <2>2. CASE ~(i < nextDecryptCount)
    BY <1>1, <1>2, <1>3, <2>2 DEF ByteUsed
  <2> QED
    BY <2>1, <2>2
<1> QED
  BY <1>6, <1>10, <1>11 DEF IInv

LEMMA NextPreserves == IInv /\ [Next]_mbvars => IInv'
<1> SUFFICES ASSUME IInv, [Next]_mbvars
             PROVE  IInv'
  OBVIOUS
<1> USE KeystreamAssumption
<1>1. CASE mirror_buffer_init_aes
  <2>1. generated' = 0 /\ nextDecryptCount' = 0 /\ og' = og /\ lost' = FALSE
    BY <1>1 DEF mirror_buffer_init_aes
  <2>2. KeptIsNext'
    BY <2>1 DEF KeptIsNext, Bytes
  <2>3. 0 \in Bytes
    BY DEF Bytes
  <2>4. og' \in [Bytes -> Nat \cup {Text}]
    BY <2>1 DEF IInv, MirrorTypeOK
  <2>5. status' = "keyed" /\ 0 \in Nat
    BY <1>1 DEF mirror_buffer_init_aes
  <2>6. MirrorTypeOK'
    BY <2>1, <2>3, <2>4, <2>5 DEF MirrorTypeOK
  <2> QED
    BY <2>2, <2>6 DEF IInv
<1>2. ASSUME NEW n \in Size, mirror_buffer_decrypt(n)
      PROVE  IInv'
  <2>1. CASE Decrypt(n)
    BY <1>2, <2>1, DecryptKeepsStep DEF mirror_buffer_decrypt
  <2>2. CASE DecryptTooShort(n)
    BY <2>2 DEF DecryptTooShort, IInv, MirrorTypeOK, KeptIsNext, Bytes
  <2> QED
    BY <1>2, <2>1, <2>2 DEF mirror_buffer_decrypt
<1>3. CASE mirror_buffer_destroy
  BY <1>3 DEF mirror_buffer_destroy, IInv, MirrorTypeOK, KeptIsNext, Bytes
<1>4. CASE UNCHANGED mbvars
  BY <1>4 DEF mbvars, IInv, MirrorTypeOK, KeptIsNext, Bytes
<1> QED
  BY <1>1, <1>2, <1>3, <1>4 DEF Next

LEMMA InvariantHolds == Spec => []IInv
<1> QED
  BY InitEstablishes, NextPreserves, PTL DEF Spec

\* The fields keep their types, and fewer bytes than a block are ever kept, for
\* every length of blocks and payloads.
THEOREM MirrorTypeCorrect == Spec => []MirrorTypeOK
<1>1. IInv => MirrorTypeOK
  BY DEF IInv
<1> QED
  BY <1>1, InvariantHolds, PTL

\* og and the cipher stay in step: what mirror_buffer_decrypt has kept is the
\* keystream just before what aes_ctx generates next.
THEOREM KeptCorrect == Spec => []KeptIsNext
<1>1. IInv => KeptIsNext
  BY DEF IInv
<1> QED
  BY <1>1, InvariantHolds, PTL

-----------------------------------------------------------------------------
(* The refinement.                                                          *)

LEMMA InitImplements == Init => Kept!Init
  BY DEF Init, Kept!Init, NoOutput, Kept!NoBytes

LEMMA NextImplements == IInv /\ [Next]_mbvars => [Kept!Step]_(Kept!ksvars)
<1> SUFFICES ASSUME IInv, [Next]_mbvars
             PROVE  Kept!Step \/ UNCHANGED Kept!ksvars
  OBVIOUS
<1>1. CASE mirror_buffer_init_aes
  BY <1>1 DEF mirror_buffer_init_aes, Kept!Step, Kept!NewKey, NoOutput, Kept!NoBytes
<1>2. ASSUME NEW n \in Size, mirror_buffer_decrypt(n)
      PROVE  Kept!Step
  <2>1. lost \in BOOLEAN
    BY DEF IInv, MirrorTypeOK
  <2>2. CASE Decrypt(n)
    <3>1. lost' = lost
      BY <2>2 DEF Decrypt
    <3>2. CASE lost
      BY <3>1, <3>2 DEF Kept!Step, Kept!StayLost
    <3>3. CASE ~lost
      <4>1. Kept!Decrypt(n)
        BY <1>2, <2>2, <3>1, <3>3, DecryptKeepsStep
           DEF mirror_buffer_decrypt, Kept!Decrypt, Kept!Next
      <4> QED
        BY <4>1 DEF Kept!Step
    <3> QED
      BY <3>2, <3>3
  <2>3. CASE DecryptTooShort(n)
    <3>1. lost'
      BY <2>3 DEF DecryptTooShort
    <3>2. CASE lost
      BY <3>1, <3>2 DEF Kept!Step, Kept!StayLost
    <3>3. CASE ~lost
      <4>1. \A i \in 0 .. n - 1 : KeptByte(i) = (generated - nextDecryptCount) + i
        BY <2>3, KeystreamAssumption
           DEF DecryptTooShort, IInv, MirrorTypeOK, KeptIsNext, KeptByte, Bytes, Size
      <4>2. output' = [i \in 0 .. n - 1 |-> (generated - nextDecryptCount) + i]
        BY <2>3, <4>1 DEF DecryptTooShort
      <4>3. Kept!LosePlace(n)
        BY <3>1, <3>3, <4>2 DEF Kept!LosePlace, Kept!Next
      <4> QED
        BY <4>3 DEF Kept!Step
    <3> QED
      BY <3>2, <3>3
  <2> QED
    BY <1>2, <2>2, <2>3 DEF mirror_buffer_decrypt
<1>3. CASE mirror_buffer_destroy
  BY <1>3 DEF mirror_buffer_destroy, Kept!ksvars
<1>4. CASE UNCHANGED mbvars
  BY <1>4 DEF mbvars, Kept!ksvars
<1> QED
  BY <1>1, <1>2, <1>3, <1>4 DEF Next

\* Every behaviour of mirror_buffer.c decrypts the stream with one continuous
\* keystream, until a payload is shorter than what was kept.
THEOREM MirrorImplementsKeystream == Spec => ImplementsKeystream
<1> QED
  BY InitImplements, NextImplements, InvariantHolds, PTL
     DEF Spec, ImplementsKeystream, Kept!KeystreamSpec

-----------------------------------------------------------------------------
(* The invariant.                                                           *)

LoopPlaces == {"test", "select", "header", "payload"}

ThreadTypes ==
  /\ running \in BOOLEAN /\ joined \in BOOLEAN /\ mirror_data_sock \in BOOLEAN
  /\ stream_fd \in BOOLEAN
  /\ thread \in LoopPlaces \cup {"none", "exit", "log", "done"}
  /\ caller \in {"idle", "close", "join", "free", "gone"}

\* Who may be where: the thread is in its loop until its own end or until the HTTP
\* thread, on its way to wait for it, has cleared running.
Lifecycle ==
  /\ running => ~joined /\ caller = "idle" /\ thread \in LoopPlaces \cup {"exit"}
  /\ joined  => ~running /\ ~mirror_data_sock /\ thread \in {"none", "done"}
  /\ thread \in LoopPlaces \cup {"exit"} => running \/ caller \in {"close", "join"}
  /\ thread \in {"none", "log", "done"} => ~stream_fd
  /\ caller \in {"close", "join"} => ~running /\ ~joined
  /\ caller = "join" => ~mirror_data_sock
  /\ caller \in {"free", "gone"} => ~running

\* n bytes of the stream from start on.
Stretch(start, n) == [i \in 0 .. n - 1 |-> start + i]

Messagelike == [begin : Nat, type : Kinds \cup {"unknown"}, size : Size]

ReadTypes == /\ received \in Nat /\ readstart \in Nat
             /\ message \in Messagelike

\* A header that has been begun: the bytes up to readstart are there.  What is left
\* in packet from a connection that was lost lies inside a header.
HeaderBegun ==
  payload = NULL =>
    /\ readstart < Header
    /\ packet = [i \in DOMAIN packet |-> packet[i]]
    /\ DOMAIN packet \subseteq 0 .. Header - 1
    /\ stream_fd => /\ received = message.begin + readstart
                    /\ \A i \in 0 .. readstart - 1 : /\ i \in DOMAIN packet
                                                     /\ packet[i] = message.begin + i

\* A payload that has been begun: the header is whole, and the payload is whole up
\* to readstart.
PayloadBegun ==
  payload # NULL =>
    /\ readstart <= message.size
    /\ received = message.begin + Header + readstart
    /\ packet = Stretch(message.begin, Header)
    /\ payload = Stretch(message.begin + Header, readstart)

Places ==
  /\ thread \in {"header", "payload"} => stream_fd
  /\ thread = "header" => payload = NULL
  /\ thread = "payload" => payload # NULL
  /\ thread \in {"test", "select"} /\ ~stream_fd => payload = NULL

ReadInv == ReadTypes /\ HeaderBegun /\ PayloadBegun /\ Places

MirrorInv == IInv /\ ThreadTypes /\ Lifecycle /\ ReadInv

LEMMA HeaderSize == Header \in Nat /\ Header > 0
BY MirrorAssumption

LEMMA SizesAreNat == \A n \in Size : n \in Nat
BY KeystreamAssumption DEF Size

LEMMA StretchIsPayload == \A start \in Nat, n \in Nat : Stretch(start, n) # NULL
<1> SUFFICES ASSUME NEW start \in Nat, NEW n \in Nat, Stretch(start, n) = NULL
             PROVE  FALSE
  OBVIOUS
<1>1. DOMAIN Stretch(start, n) = 0 .. n - 1 /\ DOMAIN NULL = {-1}
  BY DEF Stretch, NULL
<1>2. -1 \in 0 .. n - 1
  BY <1>1
<1> QED
  BY <1>2

LEMMA NoPacketIsStretch == \A start \in Nat : NoPacket = Stretch(start, 0)
<1> SUFFICES ASSUME NEW start \in Nat PROVE NoPacket = Stretch(start, 0)
  OBVIOUS
<1>1. 0 .. 0 - 1 = {}
  OBVIOUS
<1> QED
  BY <1>1 DEF NoPacket, Stretch

\* Nothing of a header has been read.
LEMMA NothingRead ==
  ASSUME packet' = NoPacket \/ packet' = packet,
         HeaderBegun, payload = NULL \/ packet' = NoPacket,
         payload' = NULL, readstart' = 0,
         stream_fd' => received' = message'.begin, message'.begin \in Nat
  PROVE  HeaderBegun' /\ PayloadBegun'
<1>1. DOMAIN packet' \subseteq 0 .. Header - 1 /\ packet' = [i \in DOMAIN packet' |-> packet'[i]]
  BY DEF NoPacket, HeaderBegun
<1> QED
  BY <1>1, HeaderSize DEF HeaderBegun, PayloadBegun

LEMMA MirrorInitEstablishes == MirrorInit => MirrorInv
<1> SUFFICES ASSUME MirrorInit PROVE MirrorInv
  OBVIOUS
<1>1. IInv
  BY InitEstablishes DEF MirrorInit
<1>2. ThreadTypes /\ Lifecycle
  BY DEF MirrorInit, ThreadTypes, Lifecycle, LoopPlaces
<1>3. NoMessage(0) \in Messagelike
  <2>1. 0 \in Size
    BY KeystreamAssumption DEF Size
  <2> QED
    BY <2>1 DEF NoMessage, Messagelike
<1>4. ReadTypes /\ Places
  BY <1>3 DEF MirrorInit, ReadTypes, Places
<1>5. HeaderBegun
  BY HeaderSize DEF MirrorInit, HeaderBegun, NoPacket
<1>6. PayloadBegun
  BY DEF MirrorInit, PayloadBegun
<1> QED
  BY <1>1, <1>2, <1>4, <1>5, <1>6 DEF MirrorInv, ReadInv

-----------------------------------------------------------------------------
(* The cipher.                                                              *)

MessageHanded == HandPicture \/ HandCodec \/ PassOver

\* What the receiver does to its MirrorBuffer are calls of it, but for an end of
\* the process that is not the buffer's.
LEMMA CipherKept ==
  ASSUME MirrorInv, [MirrorNext]_mirrorvars
  PROVE  IInv'
<1>1. CASE HandPicture
  <2>1. message.size \in Size
    BY DEF MirrorInv, ReadInv, ReadTypes, Messagelike
  <2>2. Next
    BY <1>1, <2>1 DEF HandPicture, Next
  <2> QED
    BY <2>2, NextPreserves DEF MirrorInv
<1>2. CASE setup_mirror \/ setup_mirror_fails \/ Free
  <2>1. Next
    BY <1>2 DEF setup_mirror, setup_mirror_fails, Free, Next
  <2> QED
    BY <2>1, NextPreserves DEF MirrorInv
<1>3. CASE SelectClosed \/ WalkGarbage
  <2>1. /\ status' = status \/ status' = "aborted"
        /\ UNCHANGED <<lost, generated, nextDecryptCount, og, output>>
    BY <1>3 DEF SelectClosed, WalkGarbage, At
  <2> QED
    BY <2>1 DEF MirrorInv, IInv, MirrorTypeOK, KeptIsNext
<1>4. CASE UNCHANGED mbvars
  BY <1>4, NextPreserves DEF MirrorInv
<1>5. CASE \/ TestRunning \/ SelectTimeout \/ SelectFails \/ Accept \/ Readable
           \/ ReceiveTimesOut \/ ReceiveFails \/ HeaderEnds \/ PayloadEnds \/ HandCodec
           \/ PassOver \/ ClearRunning \/ Return \/ CloseSocket \/ JoinThread
           \/ \E n \in 1 .. Header : ReceiveHeader(n)
           \/ \E n \in 1 .. MaxSize : ReceivePayload(n)
           \/ \E destroy \in BOOLEAN : raop_rtp_mirror_stop(destroy)
  BY <1>4, <1>5 DEF TestRunning, SelectTimeout, SelectFails, Accept, Readable,
       ReceiveTimesOut, ReceiveFails, HeaderEnds, PayloadEnds, HandCodec, PassOver,
       ClearRunning, Return, CloseSocket, JoinThread, ReceiveHeader, ReceivePayload,
       raop_rtp_mirror_stop
<1> QED
  BY <1>1, <1>2, <1>3, <1>4, <1>5 DEF MirrorNext, ThreadStep, NetworkStep, StopStep,
     CallStep, ReceiveSome, mirrorvars

-----------------------------------------------------------------------------
(* The life of the thread.                                                  *)

\* The steps of the thread.
LEMMA ThreadLives ==
  ASSUME MirrorInv,
         \/ TestRunning
         \/ SelectTimeout
         \/ SelectFails
         \/ SelectClosed
         \/ Accept
         \/ Readable
         \/ ReceiveTimesOut
         \/ ReceiveFails
         \/ HeaderEnds
         \/ PayloadEnds
         \/ HandPicture
         \/ WalkGarbage
         \/ HandCodec
         \/ PassOver
         \/ ClearRunning
         \/ Return
         \/ \E n \in 1 .. Header : ReceiveHeader(n)
         \/ \E n \in 1 .. MaxSize : ReceivePayload(n)
  PROVE  ThreadTypes' /\ Lifecycle'
<1> USE DEF At, CallerAt, life, calls, LoopPlaces
<1>0. ThreadTypes /\ Lifecycle
  BY DEF MirrorInv
<1>1. CASE TestRunning
  BY <1>0, <1>1 DEF ThreadTypes, Lifecycle, TestRunning, Stopped
<1>2. CASE SelectTimeout
  BY <1>0, <1>2 DEF ThreadTypes, Lifecycle, SelectTimeout
<1>3. CASE SelectFails
  BY <1>0, <1>3 DEF ThreadTypes, Lifecycle, SelectFails
<1>4. CASE SelectClosed
  BY <1>0, <1>4 DEF ThreadTypes, Lifecycle, SelectClosed
<1>5. CASE Accept
  BY <1>0, <1>5 DEF ThreadTypes, Lifecycle, Accept
<1>6. CASE Readable
  BY <1>0, <1>6 DEF ThreadTypes, Lifecycle, Readable, ReadNext
<1>7. CASE ReceiveTimesOut
  BY <1>0, <1>7 DEF ThreadTypes, Lifecycle, ReceiveTimesOut, Incomplete
<1>8. CASE ReceiveFails
  BY <1>0, <1>8 DEF ThreadTypes, Lifecycle, ReceiveFails, Incomplete
<1>9. CASE HeaderEnds
  BY <1>0, <1>9 DEF ThreadTypes, Lifecycle, HeaderEnds
<1>10. CASE PayloadEnds
  BY <1>0, <1>10 DEF ThreadTypes, Lifecycle, PayloadEnds
<1>11. CASE HandPicture
  BY <1>0, <1>11 DEF ThreadTypes, Lifecycle, HandPicture, Complete, ForgetMessage
<1>12. CASE WalkGarbage
  BY <1>0, <1>12 DEF ThreadTypes, Lifecycle, WalkGarbage, Complete
<1>13. CASE HandCodec
  BY <1>0, <1>13 DEF ThreadTypes, Lifecycle, HandCodec, Complete, ForgetMessage
<1>14. CASE PassOver
  BY <1>0, <1>14 DEF ThreadTypes, Lifecycle, PassOver, Complete, ForgetMessage
<1>15. CASE ClearRunning
  BY <1>0, <1>15 DEF ThreadTypes, Lifecycle, ClearRunning
<1>16. CASE Return
  BY <1>0, <1>16 DEF ThreadTypes, Lifecycle, Return
<1>17. CASE \E n \in 1 .. Header : ReceiveHeader(n)
  BY <1>0, <1>17 DEF ThreadTypes, Lifecycle, ReceiveHeader
<1>18. CASE \E n \in 1 .. MaxSize : ReceivePayload(n)
  BY <1>0, <1>18 DEF ThreadTypes, Lifecycle, ReceivePayload
<1> QED
  BY <1>1, <1>2, <1>3, <1>4, <1>5, <1>6, <1>7, <1>8, <1>9, <1>10, <1>11, <1>12, <1>13, <1>14, <1>15, <1>16, <1>17, <1>18

\* The HTTP thread.
LEMMA CallsLive ==
  ASSUME MirrorInv,
         \/ setup_mirror
         \/ setup_mirror_fails
         \/ \E destroy \in BOOLEAN : raop_rtp_mirror_stop(destroy)
         \/ CloseSocket
         \/ JoinThread
         \/ Free
         \/ UNCHANGED mirrorvars
  PROVE  ThreadTypes' /\ Lifecycle'
<1> USE DEF At, CallerAt, life, calls, LoopPlaces
<1>0. ThreadTypes /\ Lifecycle
  BY DEF MirrorInv
<1>1. CASE setup_mirror
  <2>1. CASE running \/ ~joined
    BY <1>0, <1>1, <2>1 DEF ThreadTypes, Lifecycle, setup_mirror
  <2>2. CASE ~(running \/ ~joined)
    <3>1. /\ running' = TRUE /\ joined' = FALSE /\ mirror_data_sock' = TRUE
          /\ thread' = "test" /\ stream_fd' = FALSE /\ caller' = caller /\ caller = "idle"
      BY <1>1, <2>2 DEF setup_mirror
    <3> QED
      BY <1>0, <3>1 DEF ThreadTypes, Lifecycle
  <2> QED
    BY <2>1, <2>2
<1>2. CASE setup_mirror_fails
  BY <1>0, <1>2 DEF ThreadTypes, Lifecycle, setup_mirror_fails
<1>3. CASE \E destroy \in BOOLEAN : raop_rtp_mirror_stop(destroy)
  <2>1. PICK destroy \in BOOLEAN : raop_rtp_mirror_stop(destroy)
    BY <1>3
  <2>2. caller = "idle" /\ UNCHANGED <<joined, mirror_data_sock, thread, stream_fd>>
    BY <2>1 DEF raop_rtp_mirror_stop
  <2>3. CASE ~running \/ joined
    <3>1. caller' \in {"free", "idle"} /\ running' = running
      BY <2>1, <2>3 DEF raop_rtp_mirror_stop
    <3>2. ~running
      BY <1>0, <2>3 DEF Lifecycle
    <3> QED
      BY <1>0, <2>2, <3>1, <3>2 DEF ThreadTypes, Lifecycle
  <2>4. CASE ~(~running \/ joined)
    <3>1. running' = FALSE /\ caller' = "close"
      BY <2>1, <2>4 DEF raop_rtp_mirror_stop
    <3> QED
      BY <1>0, <2>2, <2>4, <3>1 DEF ThreadTypes, Lifecycle
  <2> QED
    BY <2>3, <2>4
<1>4. CASE CloseSocket
  BY <1>0, <1>4 DEF ThreadTypes, Lifecycle, CloseSocket
<1>5. CASE JoinThread
  BY <1>0, <1>5 DEF ThreadTypes, Lifecycle, JoinThread
<1>6. CASE Free
  BY <1>0, <1>6 DEF ThreadTypes, Lifecycle, Free
<1>7. CASE UNCHANGED mirrorvars
  BY <1>0, <1>7 DEF ThreadTypes, Lifecycle, mirrorvars
<1> QED
  BY <1>1, <1>2, <1>3, <1>4, <1>5, <1>6, <1>7

-----------------------------------------------------------------------------
(* What has been read.                                                      *)

LEMMA SameReading ==
  ASSUME ReadInv, UNCHANGED reading, stream_fd' => stream_fd
  PROVE  ReadTypes' /\ HeaderBegun' /\ PayloadBegun'
BY DEF ReadInv, ReadTypes, HeaderBegun, PayloadBegun, reading

\* The next message begins behind the one that is dealt with.
LEMMA MessageForgotten ==
  ASSUME MirrorInv, At("payload"), readstart = message.size, ForgetMessage
  PROVE  ReadInv'
<1> DEFINE begin == message.begin + Header + message.size
<1>1. /\ received \in Nat /\ message.begin \in Nat /\ message.size \in Nat
      /\ received = begin
  BY SizesAreNat DEF MirrorInv, ReadInv, ReadTypes, Messagelike, PayloadBegun, Places, At
<1>2. /\ packet' = NoPacket /\ payload' = NULL /\ readstart' = 0
      /\ message' = NoMessage(begin) /\ thread' = "test"
      /\ UNCHANGED <<stream_fd, received>>
  BY DEF ForgetMessage, ForgetPayload
<1>3. begin \in Nat
  BY <1>1, HeaderSize
<1> HIDE DEF begin
<1>4. 0 \in Size
  BY KeystreamAssumption DEF Size
<1>5. message' \in Messagelike /\ message'.begin = begin
  BY <1>2, <1>3, <1>4 DEF NoMessage, Messagelike
<1>6. HeaderBegun' /\ PayloadBegun'
  BY <1>1, <1>2, <1>3, <1>5, NothingRead DEF MirrorInv, ReadInv
<1>7. ReadTypes' /\ Places'
  BY <1>1, <1>2, <1>5 DEF ReadTypes, Places
<1> QED
  BY <1>6, <1>7 DEF ReadInv

LEMMA AcceptReads ==
  ASSUME MirrorInv, Accept
  PROVE  ReadInv'
<1>1. /\ received' = 0 /\ readstart' = 0 /\ message' = NoMessage(0) /\ thread' = "test"
      /\ UNCHANGED <<packet, payload>>
  BY DEF Accept
<1>2. payload = NULL
  BY DEF Accept, At, MirrorInv, ReadInv, Places
<1>3. 0 \in Size
  BY KeystreamAssumption DEF Size
<1>4. message' \in Messagelike /\ message'.begin = 0
  BY <1>1, <1>3 DEF NoMessage, Messagelike
<1>5. HeaderBegun' /\ PayloadBegun'
  BY <1>1, <1>2, <1>4, NothingRead DEF MirrorInv, ReadInv
<1>6. ReadTypes' /\ Places'
  BY <1>1, <1>2, <1>4 DEF ReadTypes, Places
<1> QED
  BY <1>5, <1>6 DEF ReadInv

LEMMA SetupReads ==
  ASSUME MirrorInv, setup_mirror
  PROVE  ReadInv'
<1>1. CASE running \/ ~joined
  BY <1>1, SameReading DEF setup_mirror, MirrorInv, ReadInv, Places, life, reading
<1>2. CASE ~(running \/ ~joined)
  <2>1. /\ packet' = NoPacket /\ payload' = NULL /\ readstart' = 0
        /\ thread' = "test" /\ stream_fd' = FALSE
        /\ UNCHANGED <<received, message>>
    BY <1>2 DEF setup_mirror
  <2>2. message'.begin \in Nat
    BY <2>1 DEF MirrorInv, ReadInv, ReadTypes, Messagelike
  <2>3. HeaderBegun' /\ PayloadBegun'
    BY <2>1, <2>2, NothingRead DEF MirrorInv, ReadInv
  <2>4. ReadTypes' /\ Places'
    BY <2>1 DEF MirrorInv, ReadInv, ReadTypes, Places
  <2> QED
    BY <2>3, <2>4 DEF ReadInv
<1> QED
  BY <1>1, <1>2

\* n more bytes of the header; the last ones give the type and the size.
LEMMA HeaderReads ==
  ASSUME MirrorInv, NEW n \in 1 .. Header, ReceiveHeader(n)
  PROVE  ReadInv'
<1>1. /\ received \in Nat /\ readstart \in Nat /\ message.begin \in Nat
      /\ message \in Messagelike /\ n \in Nat /\ n > 0
  BY DEF MirrorInv, ReadInv, ReadTypes, Messagelike
<1>2. /\ payload = NULL /\ stream_fd /\ readstart < Header
      /\ received = message.begin + readstart
      /\ DOMAIN packet \subseteq 0 .. Header - 1
      /\ \A i \in 0 .. readstart - 1 : i \in DOMAIN packet /\ packet[i] = message.begin + i
  BY DEF MirrorInv, ReadInv, Places, HeaderBegun, ReceiveHeader, At
<1>3. /\ readstart + n <= Header
      /\ received' = received + n
      /\ packet' = ReadInto(packet, n)
      /\ stream_fd' = stream_fd
  BY DEF ReceiveHeader
<1> DEFINE D == DOMAIN packet \cup readstart .. readstart + n - 1
<1>4. /\ DOMAIN packet' = D
      /\ packet' = [i \in D |-> packet'[i]]
      /\ \A i \in D : packet'[i] = IF i \in readstart .. readstart + n - 1
                                   THEN received + (i - readstart) ELSE packet[i]
  BY <1>3 DEF ReadInto
<1>5. D \subseteq 0 .. Header - 1
  BY <1>1, <1>2, <1>3, HeaderSize
<1>6. \A i \in 0 .. readstart + n - 1 : i \in D /\ packet'[i] = message.begin + i
  <2> SUFFICES ASSUME NEW i \in 0 .. readstart + n - 1
               PROVE  i \in D /\ packet'[i] = message.begin + i
    OBVIOUS
  <2>1. CASE i < readstart
    <3>1. i \in 0 .. readstart - 1 /\ i \notin readstart .. readstart + n - 1
      BY <1>1, <2>1
    <3> QED
      BY <1>2, <1>4, <3>1
  <2>2. CASE ~(i < readstart)
    <3>1. i \in readstart .. readstart + n - 1 /\ i \in Int
      BY <1>1, <2>2
    <3>2. packet'[i] = received + (i - readstart)
      BY <1>4, <3>1
    <3> QED
      BY <1>1, <1>2, <3>1, <3>2
  <2> QED
    BY <2>1, <2>2
<1> HIDE DEF D
<1>7. CASE readstart + n < Header
  <2>1. /\ readstart' = readstart + n
        /\ UNCHANGED <<thread, message, payload>>
    BY <1>7 DEF ReceiveHeader
  <2>2. HeaderBegun'
    BY <1>1, <1>2, <1>3, <1>4, <1>5, <1>6, <1>7, <2>1 DEF HeaderBegun
  <2>3. PayloadBegun' /\ ReadTypes' /\ Places'
    BY <1>1, <1>2, <1>3, <2>1 DEF PayloadBegun, ReadTypes, Places, MirrorInv, ReadInv
  <2> QED
    BY <2>2, <2>3 DEF ReadInv
<1>8. CASE ~(readstart + n < Header)
  <2>1. /\ payload' = NoPacket /\ readstart' = 0 /\ thread' = "payload"
        /\ message' \in Messages
    BY <1>8 DEF ReceiveHeader
  <2>2. /\ message' \in Messagelike /\ message'.begin = message.begin
        /\ message'.size \in Nat
    BY <1>1, <2>1, SizesAreNat DEF Messages, Messagelike
  <2>3. readstart + n = Header
    BY <1>1, <1>3, <1>8, HeaderSize
  <2>4. D = 0 .. Header - 1
    <3>1. \A i \in 0 .. Header - 1 : i \in D
      BY <1>1, <1>6, <2>3, HeaderSize
    <3> QED
      BY <1>5, <3>1
  <2>5. packet' = Stretch(message.begin, Header)
    <3>1. \A i \in 0 .. Header - 1 : packet'[i] = message.begin + i
      BY <1>1, <1>6, <2>3, HeaderSize
    <3>2. packet' = [i \in 0 .. Header - 1 |-> packet'[i]]
      BY <1>4, <2>4
    <3> QED
      BY <3>1, <3>2 DEF Stretch
  <2>6. payload' = Stretch(message.begin + Header, 0) /\ payload' # NULL
    BY <1>1, <2>1, HeaderSize, NoPacketIsStretch, StretchIsPayload
  <2>7. received' = message.begin + Header
    BY <1>1, <1>2, <1>3, <2>3, HeaderSize
  <2>8. PayloadBegun'
    BY <1>1, <2>1, <2>2, <2>5, <2>6, <2>7, HeaderSize DEF PayloadBegun
  <2>9. HeaderBegun' /\ ReadTypes' /\ Places'
    BY <1>1, <1>2, <1>3, <2>1, <2>2, <2>6, <2>7, HeaderSize DEF HeaderBegun, ReadTypes, Places
  <2> QED
    BY <2>8, <2>9 DEF ReadInv
<1> QED
  BY <1>7, <1>8

\* n more bytes of the payload.
LEMMA PayloadReads ==
  ASSUME MirrorInv, NEW n \in 1 .. MaxSize, ReceivePayload(n)
  PROVE  ReadInv'
<1>1. /\ received \in Nat /\ readstart \in Nat /\ message.begin \in Nat
      /\ message.size \in Nat /\ n \in Nat /\ n > 0
  BY SizesAreNat DEF MirrorInv, ReadInv, ReadTypes, Messagelike
<1>2. /\ payload # NULL /\ stream_fd
      /\ received = message.begin + Header + readstart
      /\ packet = Stretch(message.begin, Header)
      /\ payload = Stretch(message.begin + Header, readstart)
  BY DEF MirrorInv, ReadInv, Places, PayloadBegun, ReceivePayload, At
<1>3. /\ readstart + n <= message.size
      /\ received' = received + n
      /\ payload' = ReadInto(payload, n)
      /\ readstart' = readstart + n
      /\ UNCHANGED <<stream_fd, thread, packet, message>>
  BY DEF ReceivePayload
<1> DEFINE from == message.begin + Header
<1>4. from \in Nat
  BY <1>1, HeaderSize
<1> HIDE DEF from
<1>5. payload' = Stretch(from, readstart + n)
  <2>1. DOMAIN payload = 0 .. readstart - 1
    BY <1>2 DEF Stretch
  <2>2. DOMAIN payload \cup readstart .. readstart + n - 1 = 0 .. readstart + n - 1
    BY <1>1, <2>1
  <2> DEFINE byte(i) == IF i \in readstart .. readstart + n - 1
                        THEN received + (i - readstart) ELSE payload[i]
  <2>3. ASSUME NEW i \in 0 .. readstart + n - 1
        PROVE  byte(i) = from + i
    <3>1. CASE i < readstart
      <4>1. i \in 0 .. readstart - 1 /\ i \notin readstart .. readstart + n - 1
        BY <1>1, <3>1
      <4>2. payload[i] = from + i
        BY <1>2, <4>1 DEF Stretch, from
      <4> QED
        BY <4>1, <4>2
    <3>2. CASE ~(i < readstart)
      <4>1. i \in readstart .. readstart + n - 1 /\ received = from + readstart
        BY <1>1, <1>2, <3>2 DEF from
      <4> QED
        BY <1>1, <1>4, <4>1
    <3> QED
      BY <3>1, <3>2
  <2>4. payload' = [i \in 0 .. readstart + n - 1 |-> byte(i)]
    BY <1>3, <2>2 DEF ReadInto
  <2> HIDE DEF byte
  <2>5. payload' = [i \in 0 .. readstart + n - 1 |-> from + i]
    BY <2>3, <2>4
  <2>6. (readstart + n) - 1 = readstart + n - 1
    BY <1>1
  <2>7. Stretch(from, readstart + n) = [i \in 0 .. (readstart + n) - 1 |-> from + i]
    BY DEF Stretch
  <2> QED
    BY <2>5, <2>6, <2>7
<1>6. payload' # NULL
  BY <1>1, <1>4, <1>5, StretchIsPayload
<1>7. PayloadBegun'
  BY <1>1, <1>2, <1>3, <1>5, <1>6, HeaderSize DEF PayloadBegun, from
<1>8. HeaderBegun' /\ ReadTypes' /\ Places'
  BY <1>1, <1>2, <1>3, <1>6 DEF HeaderBegun, ReadTypes, Places, MirrorInv, ReadInv
<1> QED
  BY <1>7, <1>8 DEF ReadInv

LEMMA ReadKept ==
  ASSUME MirrorInv, [MirrorNext]_mirrorvars
  PROVE  ReadInv'
<1>0. ReadInv /\ Lifecycle
  BY DEF MirrorInv
<1>1. CASE MessageHanded
  BY <1>1, MessageForgotten DEF MessageHanded, HandPicture, HandCodec, PassOver, Complete
<1>2. CASE \E n \in 1 .. Header : ReceiveHeader(n)
  BY <1>2, HeaderReads
<1>3. CASE \E n \in 1 .. MaxSize : ReceivePayload(n)
  BY <1>3, PayloadReads
<1>4. CASE Accept \/ setup_mirror
  BY <1>4, AcceptReads, SetupReads
<1>5. CASE Readable
  <2>1. Places'
    BY <1>0, <1>5 DEF ReadInv, Places, Readable, ReadNext, reading
  <2> QED
    BY <1>0, <1>5, <2>1, SameReading DEF Readable, ReadInv
<1>6. CASE \/ TestRunning \/ SelectTimeout \/ SelectFails \/ SelectClosed \/ ReceiveTimesOut
           \/ ReceiveFails \/ HeaderEnds \/ PayloadEnds \/ WalkGarbage \/ ClearRunning
           \/ Return
  <2>1. UNCHANGED reading /\ (stream_fd' => stream_fd)
    BY <1>6 DEF TestRunning, SelectTimeout, SelectFails, SelectClosed, ReceiveTimesOut,
         ReceiveFails, HeaderEnds, PayloadEnds, WalkGarbage, ClearRunning, Return
  <2>2. Places'
    BY <1>0, <1>6, <2>1 DEF ReadInv, Places, reading, At, Incomplete, Complete, TestRunning,
         SelectTimeout, SelectFails, SelectClosed, ReceiveTimesOut, ReceiveFails,
         HeaderEnds, PayloadEnds, WalkGarbage, ClearRunning, Return
  <2> QED
    BY <1>0, <2>1, <2>2, SameReading DEF ReadInv
<1>7. CASE \/ setup_mirror_fails \/ CloseSocket \/ JoinThread \/ Free \/ UNCHANGED mirrorvars
           \/ \E destroy \in BOOLEAN : raop_rtp_mirror_stop(destroy)
  <2>1. UNCHANGED <<reading, stream_fd, thread>>
    BY <1>7 DEF setup_mirror_fails, CloseSocket, JoinThread, Free, mirrorvars,
         raop_rtp_mirror_stop
  <2>2. Places'
    BY <1>0, <2>1 DEF ReadInv, Places, reading
  <2> QED
    BY <1>0, <2>1, <2>2, SameReading DEF ReadInv
<1> QED
  BY <1>1, <1>2, <1>3, <1>4, <1>5, <1>6, <1>7 DEF MirrorNext, ThreadStep, NetworkStep,
     StopStep, CallStep, ReceiveSome, MessageHanded

LEMMA MirrorStep == MirrorInv /\ [MirrorNext]_mirrorvars => MirrorInv'
<1> SUFFICES ASSUME MirrorInv, [MirrorNext]_mirrorvars PROVE MirrorInv'
  OBVIOUS
<1>1. ThreadTypes' /\ Lifecycle'
  <2>1. CASE ThreadStep \/ NetworkStep
    BY <2>1, ThreadLives DEF ThreadStep, NetworkStep, ReceiveSome
  <2>2. CASE StopStep \/ CallStep \/ UNCHANGED mirrorvars
    BY <2>2, CallsLive DEF StopStep, CallStep
  <2> QED
    BY <2>1, <2>2 DEF MirrorNext
<1> QED
  BY <1>1, CipherKept, ReadKept DEF MirrorInv

LEMMA MirrorInvariant == MirrorSpec => []MirrorInv
<1> QED
  BY MirrorInitEstablishes, MirrorStep, PTL DEF MirrorSpec

-----------------------------------------------------------------------------
(* The refinement.                                                          *)

LEMMA FramesInit == MirrorInit => Frames!Init
<1> SUFFICES ASSUME MirrorInit PROVE Frames!Init
  OBVIOUS
<1>1. NoMessage(0).begin = 0
  BY DEF NoMessage
<1>2. NoFrame = Frames!NoFrame
  <2>1. 0 .. 0 - 1 = {}
    OBVIOUS
  <2> QED
    BY <2>1 DEF NoFrame, NoPacket, NoOutput, Frames!NoFrame, Frames!From
<1> QED
  BY <1>1, <1>2 DEF MirrorInit, Init, Frames!Init

LEMMA NoFrameIsNone == NoFrame = Frames!NoFrame
<1>1. 0 .. 0 - 1 = {}
  OBVIOUS
<1> QED
  BY <1>1 DEF NoFrame, NoPacket, NoOutput, Frames!NoFrame, Frames!From

\* The message at hand is the one the sender sent next.
LEMMA MessageIsWhole ==
  ASSUME MirrorInv, At("payload"), readstart = message.size, ForgetMessage
  PROVE  /\ message.size \in Size
         /\ packet = Frames!From(message.begin, Header)
         /\ payload = Frames!From(message.begin + Header, message.size)
         /\ Frames!Take(message.size)
<1>1. message.size \in Size /\ message.begin \in Nat
  BY DEF MirrorInv, ReadInv, ReadTypes, Messagelike
<1>2. PayloadBegun /\ payload # NULL
  BY DEF MirrorInv, ReadInv, Places, At
<1>3. message'.begin = message.begin + Header + message.size
  BY DEF ForgetMessage, NoMessage
<1> QED
  BY <1>1, <1>2, <1>3 DEF PayloadBegun, Stretch, Frames!From, Frames!Take

LEMMA PictureStep ==
  ASSUME MirrorInv, HandPicture
  PROVE  Frames!Picture(message.size)
<1> DEFINE n == message.size
           keyed == generated - nextDecryptCount
<1>1. /\ At("payload") /\ readstart = n /\ ForgetMessage /\ mirror_buffer_decrypt(n)
      /\ handed' = [kind |-> "picture", header |-> packet, bytes |-> payload,
                    keys |-> output']
  BY DEF HandPicture, Complete
<1>2. /\ n \in Size /\ packet = Frames!From(message.begin, Header)
      /\ payload = Frames!From(message.begin + Header, n)
      /\ Frames!Take(n)
  BY <1>1, MessageIsWhole
<1>3. /\ handed'.kind = "picture" /\ handed'.header = packet
      /\ handed'.bytes = payload /\ handed'.keys = output'
  BY <1>1
<1>4. IInv /\ status = "keyed"
  BY <1>1 DEF MirrorInv, mirror_buffer_decrypt
<1> HIDE DEF n
<1>5. CASE Decrypt(n)
  <2>1. /\ generated' - nextDecryptCount' = keyed + n
        /\ output' = Frames!From(keyed, n)
    BY <1>2, <1>4, <1>5, DecryptKeepsStep DEF Frames!From
  <2>2. lost' = lost
    BY <1>5 DEF Decrypt
  <2> QED
    BY <1>2, <1>3, <2>1, <2>2 DEF Frames!Picture, n
<1>6. CASE DecryptTooShort(n)
  <2>1. lost'
    BY <1>6 DEF DecryptTooShort
  <2>2. \A i \in 0 .. n - 1 : KeptByte(i) = keyed + i
    BY <1>2, <1>4, <1>6, KeystreamAssumption
       DEF DecryptTooShort, IInv, MirrorTypeOK, KeptIsNext, KeptByte, Bytes, Size
  <2>3. output' = Frames!From(keyed, n)
    BY <1>6, <2>2 DEF DecryptTooShort, Frames!From
  <2> QED
    BY <1>2, <1>3, <2>1, <2>3 DEF Frames!Picture, n
<1> QED
  BY <1>1, <1>5, <1>6 DEF mirror_buffer_decrypt

LEMMA FrameStep ==
  MirrorInv /\ [MirrorNext]_mirrorvars => [Frames!Step]_(Frames!mfvars)
<1> SUFFICES ASSUME MirrorInv, [MirrorNext]_mirrorvars
             PROVE  Frames!Step \/ UNCHANGED Frames!mfvars
  OBVIOUS
<1>1. CASE HandPicture
  <2>1. message.size \in Size
    BY DEF MirrorInv, ReadInv, ReadTypes, Messagelike
  <2> QED
    BY <1>1, <2>1, PictureStep DEF Frames!Step
<1>2. CASE HandCodec
  <2>1. /\ At("payload") /\ readstart = message.size /\ ForgetMessage
        /\ handed' = [kind |-> "codec", header |-> packet, bytes |-> payload, keys |-> NoOutput]
        /\ UNCHANGED mbvars
    BY <1>2 DEF HandCodec, Complete
  <2>2. /\ message.size \in Size /\ packet = Frames!From(message.begin, Header)
        /\ payload = Frames!From(message.begin + Header, message.size)
        /\ Frames!Take(message.size)
    BY <2>1, MessageIsWhole
  <2>3. 0 .. 0 - 1 = {}
    OBVIOUS
  <2>4. NoOutput = Frames!From(0, 0)
    BY <2>3 DEF NoOutput, Frames!From
  <2>5. Frames!Codec(message.size)
    BY <2>1, <2>2, <2>4 DEF Frames!Codec, mbvars
  <2> QED
    BY <2>2, <2>5 DEF Frames!Step
<1>3. CASE PassOver
  <2>1. message.size \in Size /\ Frames!Take(message.size)
    BY <1>3, MessageIsWhole DEF PassOver, Complete
  <2>2. Frames!PassOver(message.size)
    BY <1>3, <2>1 DEF PassOver, Frames!PassOver, mbvars
  <2> QED
    BY <2>1, <2>2 DEF Frames!Step
<1>4. CASE TestRunning
  <2>1. Frames!Rest
    BY <1>4, NoFrameIsNone DEF TestRunning, Frames!Rest, reading, mbvars
  <2> QED
    BY <2>1 DEF Frames!Step
<1>5. CASE Accept
  <2>1. message'.begin = 0
    BY <1>5 DEF Accept, NoMessage
  <2>2. Frames!Connect
    BY <1>5, <2>1 DEF Accept, Frames!Connect, mbvars
  <2> QED
    BY <2>2 DEF Frames!Step
<1>6. CASE setup_mirror \/ setup_mirror_fails
  <2>1. mirror_buffer_init_aes /\ UNCHANGED <<message, handed>>
    BY <1>6 DEF setup_mirror, setup_mirror_fails, reading
  <2>2. Frames!NewKey
    BY <2>1 DEF mirror_buffer_init_aes, Frames!NewKey
  <2> QED
    BY <2>2 DEF Frames!Step
<1>7. CASE \E n \in 1 .. Header : ReceiveHeader(n)
  <2>1. message'.begin = message.begin
    BY <1>7 DEF ReceiveHeader, Messages
  <2> QED
    BY <1>7, <2>1 DEF ReceiveHeader, Frames!mfvars, mbvars
<1>8. CASE Free \/ SelectClosed \/ WalkGarbage
  BY <1>8 DEF Free, SelectClosed, WalkGarbage, mirror_buffer_destroy, reading,
       Frames!mfvars, mbvars
<1>9. CASE \/ SelectTimeout \/ SelectFails \/ Readable \/ ReceiveTimesOut \/ ReceiveFails
           \/ HeaderEnds \/ PayloadEnds \/ ClearRunning \/ Return \/ CloseSocket
           \/ JoinThread \/ UNCHANGED mirrorvars
           \/ \E n \in 1 .. MaxSize : ReceivePayload(n)
           \/ \E destroy \in BOOLEAN : raop_rtp_mirror_stop(destroy)
  <2>1. UNCHANGED <<message, handed, mbvars>>
    BY <1>9 DEF SelectTimeout, SelectFails, Readable, ReceiveTimesOut, ReceiveFails,
         HeaderEnds, PayloadEnds, ClearRunning, Return, CloseSocket, JoinThread,
         ReceivePayload, raop_rtp_mirror_stop, mirrorvars, reading
  <2> QED
    BY <2>1 DEF Frames!mfvars, mbvars
<1> QED
  BY <1>1, <1>2, <1>3, <1>4, <1>5, <1>6, <1>7, <1>8, <1>9 DEF MirrorNext, ThreadStep,
     NetworkStep, StopStep, CallStep, ReceiveSome

\* However the network cuts the stream into pieces, and wherever recv gives up, the
\* receiver hands over the sender's messages, whole and in order, each once.
THEOREM FramesAreHandedOver == MirrorSpec => HandsOverFrames
<1> QED
  BY FramesInit, FrameStep, MirrorInvariant, PTL
     DEF MirrorSpec, HandsOverFrames, Frames!FramesSpec

-----------------------------------------------------------------------------
(* The invariants.                                                          *)

\* Every variable of the receiver has its type, packet stays inside a header and
\* payload ends at readstart.
THEOREM MirrorThreadTypeCorrect == MirrorSpec => []MirrorThreadTypeOK
<1>1. MirrorInv => MirrorThreadTypeOK
  <2> SUFFICES ASSUME MirrorInv PROVE MirrorThreadTypeOK
    OBVIOUS
  <2>1. MirrorTypeOK /\ ThreadTypes /\ message.size \in Size /\ readstart \in Nat
    BY DEF MirrorInv, IInv, ReadInv, ReadTypes, Messagelike
  <2>2. CASE payload = NULL
    <3>1. readstart \in 0 .. Header - 1 /\ DOMAIN packet \subseteq 0 .. Header - 1
      BY <2>1, <2>2, HeaderSize DEF MirrorInv, ReadInv, HeaderBegun
    <3> QED
      BY <2>1, <2>2, <3>1 DEF MirrorThreadTypeOK, ThreadTypes, LoopPlaces
  <2>3. CASE payload # NULL
    <3>1. /\ readstart <= message.size /\ packet = Stretch(message.begin, Header)
          /\ payload = Stretch(message.begin + Header, readstart)
      BY <2>3 DEF MirrorInv, ReadInv, PayloadBegun
    <3>2. readstart \in 0 .. MaxSize
      BY <2>1, <3>1, KeystreamAssumption DEF Size
    <3>3. DOMAIN packet = 0 .. Header - 1 /\ DOMAIN payload = 0 .. readstart - 1
      BY <3>1 DEF Stretch
    <3> QED
      BY <2>1, <3>2, <3>3 DEF MirrorThreadTypeOK, ThreadTypes, LoopPlaces
  <2> QED
    BY <2>2, <2>3
<1> QED
  BY <1>1, MirrorInvariant, PTL

\* Inside the receiver, too, og and the cipher stay in step, whatever a lost
\* connection or a new key interrupts.
THEOREM ReceiverStaysInStep == MirrorSpec => []KeptIsNext
<1>1. MirrorInv => KeptIsNext
  BY DEF MirrorInv, IInv
<1> QED
  BY <1>1, MirrorInvariant, PTL

\* A joined receiver has neither thread nor socket, and the object is given back
\* only when the thread has left it.
THEOREM JoinedReceiverIsQuiet == MirrorSpec => []QuietWhenJoined
<1>1. MirrorInv => QuietWhenJoined
  BY DEF MirrorInv, ThreadTypes, Lifecycle, LoopPlaces, QuietWhenJoined
<1> QED
  BY <1>1, MirrorInvariant, PTL

=============================================================================
