-------------------------- MODULE AudioStreamProofs -------------------------
(* Theorems about AudioStream, for every ring, every length of the stream    *)
(* and every network within its bounds: the packets in the ring belong to    *)
(* one stretch of the stream, what is rendered is in the sender's order, and *)
(* all of a gap is asked for.                                                *)
EXTENDS AudioStream, RaopBufferProofs

-----------------------------------------------------------------------------
(* Packet numbers and the circle.  Less than half a circle apart, packets    *)
(* compare like their sequence numbers.                                      *)

\* A packet's sequence number is what is left after whole laps.
LEMMA SeqByLaps ==
  ASSUME NEW p \in Int
  PROVE  /\ Seq(p) \in Seqnum
         /\ \E k \in Int : FirstSeqnum + p = Modulus * k + Seq(p)
<1>1. FirstSeqnum + p \in Int /\ Modulus \in Nat \ {0}
  BY Sizes, StreamAssumption, SMT DEF Seqnum
<1>2. \A a \in Int, m \in Nat \ {0} : /\ a % m \in 0 .. m - 1
                                      /\ a \div m \in Int
                                      /\ a = (m * (a \div m)) + (a % m)
  BY SMT
<1> HIDE DEF Modulus
<1>3. Seq(p) \in 0 .. Modulus - 1
  BY <1>1, <1>2 DEF Seq
<1>4. FirstSeqnum + p = Modulus * ((FirstSeqnum + p) \div Modulus) + Seq(p)
  BY <1>1, <1>2 DEF Seq
<1>5. (FirstSeqnum + p) \div Modulus \in Int
  BY <1>1, <1>2
<1> QED
  BY <1>3, <1>4, <1>5 DEF Seqnum

\* A number of laps that comes to less than two is one, none or minus one.
LEMMA FewLaps ==
  ASSUME NEW m \in Nat \ {0}, NEW k \in Int, m * k < 2 * m, m * k > -2 * m
  PROVE  k \in {-1, 0, 1}
<1>1. CASE k >= 2
  <2>1. m * k = 2 * m + m * (k - 2)  BY SMT
  <2>2. m * (k - 2) >= 0             BY <1>1, SMT
  <2> QED  BY <2>1, <2>2, SMT
<1>2. CASE k <= -2
  <2>1. m * k = m * (k + 2) - 2 * m  BY SMT
  <2>2. m * (k + 2) <= 0             BY <1>2, SMT
  <2> QED  BY <2>1, <2>2, SMT
<1> QED  BY <1>1, <1>2, SMT

\* How the sequence numbers of two packets differ.
LEMMA SeqDifference ==
  ASSUME NEW p \in Int, NEW q \in Int, p - q < Modulus, q - p <= Modulus
  PROVE  /\ Seq(p) \in Seqnum /\ Seq(q) \in Seqnum
         /\ Seq(p) - Seq(q) \in {p - q, p - q + Modulus, p - q - Modulus}
<1>1. Modulus \in Nat \ {0}
  BY Sizes, SMT
<1>2. Seq(p) \in Seqnum /\ Seq(q) \in Seqnum
  BY SeqByLaps
<1>3. PICK k \in Int : FirstSeqnum + p = Modulus * k + Seq(p)
  BY SeqByLaps
<1>4. PICK l \in Int : FirstSeqnum + q = Modulus * l + Seq(q)
  BY SeqByLaps
<1>5. FirstSeqnum \in Int /\ Seq(p) \in Int /\ Seq(q) \in Int
  BY <1>2, StreamAssumption, SMT DEF Seqnum
<1>6. Modulus * (k - l) = Modulus * k - Modulus * l
  BY <1>1, SMT
<1>7. Modulus * (k - l) = (p - q) - (Seq(p) - Seq(q))
  BY <1>1, <1>3, <1>4, <1>5, <1>6, SMT
<1>8. Seq(p) - Seq(q) < Modulus /\ Seq(p) - Seq(q) > -Modulus
  BY <1>1, <1>2, SMT DEF Seqnum
<1>9. Modulus * (k - l) < 2 * Modulus /\ Modulus * (k - l) > -2 * Modulus
  BY <1>1, <1>5, <1>7, <1>8, SMT
<1>10. k - l \in {-1, 0, 1}
  BY <1>1, <1>9, FewLaps
<1> HIDE DEF Seq, Modulus
<1> QED
  BY <1>1, <1>2, <1>5, <1>7, <1>10, SMT

\* Packets less than half a circle apart compare like their sequence numbers.
LEMMA SeqCompares ==
  ASSUME NEW p \in Int, NEW q \in Int, p - q < Half, q - p <= Half
  PROVE  /\ seqnum_cmp(Seq(p), Seq(q)) = p - q
         /\ ToUnsigned(Seq(p) - Seq(q)) = IF p >= q THEN p - q ELSE p - q + Modulus
<1>1. /\ Seq(p) \in Seqnum /\ Seq(q) \in Seqnum
      /\ Seq(p) - Seq(q) \in {p - q, p - q + Modulus, p - q - Modulus}
  BY Sizes, SeqDifference, SMT
<1> HIDE DEF Seq
<1> QED
  BY <1>1, Sizes, SMT DEF seqnum_cmp, ToUnsigned, Seqnum

\* ... and are the same when the numbers are.
LEMMA SeqIdentifies ==
  ASSUME NEW p \in Int, NEW q \in Int, p - q < Half, q - p <= Half, Seq(p) = Seq(q)
  PROVE  p = q
<1>1. seqnum_cmp(Seq(p), Seq(q)) = p - q /\ Seq(q) \in Seqnum
  BY SeqCompares, SeqByLaps
<1>2. seqnum_cmp(Seq(q), Seq(q)) = 0
  BY <1>1, Sizes, SMT DEF seqnum_cmp, ToUnsigned, Seqnum
<1> QED
  BY <1>1, <1>2, SMT

\* A position found by its distance behind a packet.
LEMMA SeqBehind ==
  ASSUME NEW p \in Int, NEW f \in Seqnum, NEW d \in Nat, d < Half,
         ToUnsigned(Seq(p) - f) = d
  PROVE  f = Seq(p - d)
<1>1. /\ Seq(p) \in Seqnum /\ Seq(p - d) \in Seqnum
      /\ Seq(p) - Seq(p - d) \in {d, d + Modulus, d - Modulus}
  <2>1. p - d \in Int /\ p - (p - d) = d
    BY SMT
  <2> QED
    BY <2>1, Sizes, SeqDifference, SMT
<1> HIDE DEF Seq
<1> QED
  BY <1>1, Sizes, SMT DEF ToUnsigned, Seqnum

\* The position after a packet's.
LEMMA SeqForward ==
  ASSUME NEW p \in Int
  PROVE  Seq(p + 1) = ToUnsigned(Seq(p) + 1)
<1>1. p + 1 \in Int /\ (p + 1) - p = 1
  BY SMT
<1>2. /\ Seq(p) \in Seqnum /\ Seq(p + 1) \in Seqnum
      /\ Seq(p + 1) - Seq(p) \in {1, 1 + Modulus, 1 - Modulus}
  BY <1>1, Sizes, SeqDifference, SMT
<1> HIDE DEF Seq
<1> QED
  BY <1>2, Sizes, SMT DEF ToUnsigned, Seqnum

-----------------------------------------------------------------------------
(* The invariant.                                                           *)

StreamTypes ==
  /\ sent \in 0 .. Packets
  /\ heard \in -1 .. sent - 1
  /\ last \in {-1} \cup Data
  /\ flush \in FlushArgument
  /\ taken.flush \in FlushArgument

HoldsNothing == \A i \in Slots : ~entries[i].filled

\* The playout position is that of packet f, which lies behind what has been
\* rendered and not too far from what is on its way, and the packets in the ring
\* are the next ones of the stream, each under its own number.
Positioned(f) ==
  /\ first_seqnum = Seq(f)
  /\ last = -1 \/ last < f
  /\ f <= heard + 1
  /\ heard <= f + MaxDelay + BufferLength - 2
  /\ sent <= f + MaxDelay + MaxOutage + BufferLength - 1
  /\ \A i \in Slots : entries[i].filled =>
        /\ entries[i].seqnum = Seq(entries[i].payload)
        /\ entries[i].payload \in f .. f + BufferLength - 1
        /\ entries[i].payload <= heard

\* After a volume change the position is anything until a packet has come.
Fresh == last = -1 /\ HoldsNothing

InStep == Fresh \/ \E f \in Int : Positioned(f)

EmptyIsFresh == is_empty => last = -1

StreamInv == TypeOK /\ RingInv /\ StreamTypes /\ EmptyIsFresh /\ InStep
\* In the beginning nothing has come.
LEMMA StreamInitEstablishes == StreamInit => StreamInv
<1> SUFFICES ASSUME StreamInit PROVE StreamInv
  OBVIOUS
<1>1. TypeOK
  BY Sizes, SMT DEF StreamInit, Init, TypeOK, InitialEntries, Entry, Pointer, Seqnum
<1>2. RingInv
  BY InitRing DEF StreamInit
<1>3. StreamTypes
  <2>1. NoFlush \in FlushArgument
    BY DEF FlushArgument
  <2> HIDE DEF NoFlush
  <2>2. taken.flush = NoFlush /\ flush = NoFlush
    BY DEF StreamInit, Parts
  <2> QED
    BY <2>1, <2>2, StreamAssumption, SMT DEF StreamInit, StreamTypes
<1>4. EmptyIsFresh /\ InStep
  BY DEF StreamInit, Init, EmptyIsFresh, InStep, Fresh, HoldsNothing, InitialEntries
<1> QED
  BY <1>1, <1>2, <1>3, <1>4 DEF StreamInv

\* A packet that is on its way has a number and is a payload.
LEMMA InFlightTypes ==
  ASSUME StreamTypes, NEW p \in InFlight
  PROVE  /\ p \in Data /\ p \in Int
         /\ p <= sent - 1 /\ sent <= p + MaxDelay
         /\ Seq(p) \in Seqnum
<1>1. /\ p \in Data /\ p \in Int
      /\ p <= sent - 1 /\ sent <= p + MaxDelay
  BY StreamAssumption, SMT DEF InFlight, StreamTypes
<1> QED
  BY <1>1, SeqByLaps

\* Whatever happens in the stream, the buffer sees one of its calls or nothing.
LEMMA StreamBufferStep == StreamInv /\ [StreamNext]_streamvars => [Next]_bufvars
<1> SUFFICES ASSUME StreamInv, [StreamNext]_streamvars PROVE [Next]_bufvars
  OBVIOUS
<1>1. CASE Send \/ Loop \/ VolumeMoves \/ SenderFlushes \/ UNCHANGED streamvars
  BY <1>1 DEF Send, Loop, VolumeMoves, SenderFlushes, rtpvars, TakeEvents, SelectTimeout,
              raop_rtp_set_volume, raop_rtp_flush, streamvars
<1>2. CASE DataArrives \/ ResentArrives
  <2>1. PICK p \in InFlight : EnqueueAudio(Seq(p), p)
    BY <1>2 DEF DataArrives, ResentArrives, ReceiveData, ReceiveResent
  <2> QED
    BY <2>1, InFlightTypes DEF StreamInv, Next
<1>3. CASE NoAudioArrives
  BY <1>3 DEF NoAudioArrives, ReceiveNoAudio, Next
<1>4. CASE Render
  <2>1. no_resend \in BOOLEAN
    BY DEF no_resend
  <2> QED
    BY <1>4, <2>1 DEF Render, Drain, Next
<1>5. CASE AskAgain
  BY <1>5 DEF AskAgain, RequestResends, Next
<1>6. CASE Callbacks
  BY <1>6 DEF Callbacks, MakeCallbacks, StreamInv, StreamTypes, Next
<1> QED
  BY <1>1, <1>2, <1>3, <1>4, <1>5, <1>6 DEF StreamNext

\* Steps that leave buffer and packets alone.
LEMMA SameInStep ==
  ASSUME InStep, UNCHANGED <<first_seqnum, entries, sent, heard, last>>
  PROVE  InStep'
BY DEF InStep, Fresh, HoldsNothing, Positioned

\* The sender goes on only as long as an outage lasts.
LEMMA SendKeepsStep ==
  ASSUME StreamInv, Send
  PROVE  InStep'
<1>1. /\ UNCHANGED <<first_seqnum, entries, heard, last>>
      /\ sent' = sent + 1
  BY DEF Send, rtpvars, bufvars
<1>2. CASE Fresh
  BY <1>1, <1>2 DEF InStep, Fresh, HoldsNothing
<1>3. ASSUME NEW f \in Int, Positioned(f) PROVE InStep'
  <2>0. /\ heard \in Int /\ heard >= -1 /\ sent \in Int
        /\ last \in Int /\ last >= -1
    BY StreamAssumption, SMT DEF StreamInv, StreamTypes
  <2>1. CASE heard = -1
    <3>1. last = -1
      BY <1>3, <2>0, <2>1, SMT DEF Positioned
    <3>2. HoldsNothing
      <4> SUFFICES ASSUME NEW i \in Slots, entries[i].filled PROVE FALSE
        BY DEF HoldsNothing
      <4>1. entries[i].payload \in 0 .. Packets - 1 /\ entries[i].payload <= heard
        BY <1>3, StreamAssumption DEF StreamInv, RingInv, FilledOwnsPayload, Positioned
      <4> QED
        BY <4>1, <2>1, StreamAssumption, SMT
    <3> QED
      BY <3>1, <3>2, <1>1 DEF InStep, Fresh, HoldsNothing
  <2>2. CASE heard # -1
    <3>1. sent - heard <= MaxOutage
      BY <2>2 DEF Send
    <3>2. sent' <= f + MaxDelay + MaxOutage + BufferLength - 1
      <4>1. heard <= f + MaxDelay + BufferLength - 2
        BY <1>3 DEF Positioned
      <4> QED
        BY <1>1, <2>0, <3>1, <4>1, Sizes, StreamAssumption, SMT
    <3>3. Positioned(f)'
      BY <1>1, <1>3, <3>2 DEF Positioned
    <3> QED
      BY <3>3 DEF InStep
  <2> QED
    BY <2>1, <2>2
<1> QED
  BY <1>2, <1>3 DEF StreamInv, InStep

\* A packet on its way is less than half a circle from the playout position.
LEMMA WithinHalf ==
  ASSUME StreamInv, NEW p \in InFlight, NEW f \in Int, Positioned(f)
  PROVE  p - f < Half /\ f - p <= Half
<1>1. /\ p \in Int /\ p <= sent - 1 /\ sent <= p + MaxDelay
      /\ heard \in Int /\ heard <= sent - 1 /\ sent \in Int
  BY InFlightTypes, SMT DEF StreamInv, StreamTypes
<1>2. /\ f <= heard + 1
      /\ sent <= f + MaxDelay + MaxOutage + BufferLength - 1
  BY DEF Positioned
<1> QED
  BY <1>1, <1>2, Sizes, StreamAssumption, SMT

\* A packet that is ignored is an old one, or one that is already in the ring.
LEMMA IgnoredKeepsStep ==
  ASSUME StreamInv, NEW p \in InFlight,
         Late(Seq(p)) \/ (~NoSpace(Seq(p)) /\ Resent(Seq(p))),
         UNCHANGED <<buffer, sent, last>>, heard' = Newest(p)
  PROVE  InStep'
<1>1. CASE Fresh
  BY <1>1 DEF InStep, Fresh, HoldsNothing, buffer
<1>2. ASSUME NEW f \in Int, Positioned(f), ~Fresh PROVE InStep'
  <2>1. /\ p \in Int /\ heard \in Int /\ sent \in Int /\ Seq(p) \in Seqnum
        /\ p - f < Half /\ f - p <= Half
    BY <1>2, InFlightTypes, WithinHalf, SMT DEF StreamInv, StreamTypes
  <2>2. seqnum_cmp(Seq(p), first_seqnum) = p - f
    BY <1>2, <2>1, SeqCompares DEF Positioned
  <2>3. p <= f + BufferLength - 1
    <3>1. CASE Late(Seq(p))
      BY <3>1, <2>1, <2>2, Sizes, SMT DEF Late
    <3>2. CASE ~Late(Seq(p)) /\ ~NoSpace(Seq(p))
      <4>1. is_empty \/ (Offset(Seq(p)) \in Nat /\ Offset(Seq(p)) < BufferLength)
        BY <3>2, <2>1, InsideWindow DEF StreamInv
      <4>2. ~is_empty
        BY <1>2 DEF StreamInv, RingInv, SpanFits, EmptyIsFresh, Fresh, HoldsNothing
      <4>3. Offset(Seq(p)) = IF p >= f THEN p - f ELSE p - f + Modulus
        BY <1>2, <2>1, SeqCompares DEF Offset, Positioned
      <4> QED
        BY <4>1, <4>2, <4>3, <2>1, Sizes, SMT
    <3> QED
      BY <3>1, <3>2
  <2>4. /\ heard' \in Int /\ heard <= heard'
        /\ heard' <= f + MaxDelay + BufferLength - 2
    <3>1. heard <= f + MaxDelay + BufferLength - 2
      BY <1>2 DEF Positioned
    <3> QED
      BY <2>1, <2>3, <3>1, Sizes, StreamAssumption, SMT DEF Newest
  <2>5. f <= heard' + 1
    BY <1>2, <2>1, <2>4, SMT DEF Positioned
  <2>6. \A i \in Slots : entries[i].filled => entries[i].payload <= heard'
    <3> SUFFICES ASSUME NEW i \in Slots, entries[i].filled PROVE entries[i].payload <= heard'
      OBVIOUS
    <3>1. entries[i].payload <= heard /\ entries[i].payload \in f .. f + BufferLength - 1
      BY <1>2 DEF Positioned
    <3> QED
      BY <3>1, <2>1, <2>4, Sizes, SMT
  <2>7. Positioned(f)'
    BY <1>2, <2>4, <2>5, <2>6 DEF Positioned, buffer
  <2> QED
    BY <2>7 DEF InStep
<1> QED
  BY <1>1, <1>2 DEF StreamInv, InStep

\* A packet that is put into a ring that held nothing fixes the position anew.
LEMMA FirstKeepsStep ==
  ASSUME StreamInv, NEW p \in InFlight, NEW f \in Int, f <= p, p < f + BufferLength,
         NEW e \in [Slots -> Entry], \A i \in Slots : ~e[i].filled,
         entries' = [e EXCEPT ![Slot(Seq(p))] =
                       [filled |-> TRUE, seqnum |-> Seq(p), payload |-> p]],
         first_seqnum' = Seq(f), last = -1 \/ last < f,
         UNCHANGED <<sent, last>>, heard' = Newest(p)
  PROVE  InStep'
<1>1. /\ p \in Int /\ p <= sent - 1 /\ sent <= p + MaxDelay /\ Seq(p) \in Seqnum
      /\ heard \in Int /\ heard <= sent - 1 /\ sent \in Int
  BY InFlightTypes, SMT DEF StreamInv, StreamTypes
<1>2. heard' \in Int /\ p <= heard' /\ heard' <= sent - 1
  BY <1>1, SMT DEF Newest
<1>3. Slot(Seq(p)) \in Slots
  BY <1>1, SlotInRing
<1>4. /\ f <= heard' + 1
      /\ heard' <= f + MaxDelay + BufferLength - 2
      /\ sent' <= f + MaxDelay + MaxOutage + BufferLength - 1
  BY <1>1, <1>2, Sizes, StreamAssumption, SMT
<1>5. ASSUME NEW i \in Slots, entries'[i].filled
      PROVE  /\ entries'[i].seqnum = Seq(entries'[i].payload)
             /\ entries'[i].payload \in f .. f + BufferLength - 1
             /\ entries'[i].payload <= heard'
  <2>1. entries'[i] = [filled |-> TRUE, seqnum |-> Seq(p), payload |-> p]
    BY <1>3, <1>5
  <2>2. p \in f .. f + BufferLength - 1
    BY <1>1, Sizes, SMT
  <2> QED
    BY <2>1, <2>2, <1>2
<1>6. Positioned(f)'
  BY <1>4, <1>5 DEF Positioned, Seq
<1> QED
  BY <1>6 DEF InStep

\* A started ring that is not fresh after a volume change is positioned.
LEMMA NotFresh ==
  ASSUME StreamInv, ~Fresh
  PROVE  ~is_empty /\ \E f \in Int : Positioned(f)
BY DEF StreamInv, RingInv, SpanFits, EmptyIsFresh, Fresh, HoldsNothing, InStep

\* A packet that is not late lies at or after the playout position.
LEMMA NotLate ==
  ASSUME StreamInv, NEW p \in InFlight, NEW f \in Int, Positioned(f),
         ~is_empty, ~Late(Seq(p))
  PROVE  f <= p
<1>1. p \in Int /\ p - f < Half /\ f - p <= Half
  BY InFlightTypes, WithinHalf DEF StreamInv
<1>2. seqnum_cmp(Seq(p), first_seqnum) = p - f
  BY <1>1, SeqCompares DEF Positioned
<1> QED
  BY <1>1, <1>2, SMT DEF Late

\* A packet stored among others takes the place of none of them.
LEMMA StoreKeepsStep ==
  ASSUME StreamInv, NEW p \in InFlight, ~Late(Seq(p)), ~NoSpace(Seq(p)),
         Store(Seq(p), p, entries, first_seqnum, last_seqnum),
         UNCHANGED <<sent, last>>, heard' = Newest(p)
  PROVE  InStep'
<1> DEFINE new == [filled |-> TRUE, seqnum |-> Seq(p), payload |-> p]
<1>1. /\ p \in Int /\ Seq(p) \in Seqnum
      /\ heard \in Int /\ sent \in Int /\ last \in Int
  BY InFlightTypes, StreamAssumption, SMT DEF StreamInv, StreamTypes
<1>2. /\ entries \in [Slots -> Entry] /\ first_seqnum \in Seqnum
      /\ entries' = [entries EXCEPT ![Slot(Seq(p))] = new]
  BY DEF StreamInv, TypeOK, Store
<1>3. p <= p /\ p < p + BufferLength
  BY <1>1, Sizes, SMT
<1>4. CASE is_empty
  <2>1. first_seqnum' = Seq(p)
    BY <1>4 DEF Store
  <2>2. last = -1 /\ \A i \in Slots : ~entries[i].filled
    BY <1>4 DEF StreamInv, EmptyIsFresh, RingInv, SpanFits
  <2> QED
    BY <1>1, <1>2, <1>3, <2>1, <2>2, FirstKeepsStep
<1>5. CASE ~is_empty /\ Fresh
  <2> DEFINE d == Offset(Seq(p))
  <2>1. d \in Nat /\ d < BufferLength
    BY <1>1, <1>5, InsideWindow DEF StreamInv
  <2>2. first_seqnum' = first_seqnum
    BY <1>5 DEF Store
  <2>3. ToUnsigned(Seq(p) - first_seqnum) = d
    BY DEF Offset
  <2> HIDE DEF d
  <2>4. d < Half
    BY <2>1, Sizes, SMT
  <2>5. first_seqnum = Seq(p - d)
    BY <1>1, <1>2, <2>1, <2>3, <2>4, SeqBehind
  <2>6. p - d \in Int /\ p - d <= p /\ p < (p - d) + BufferLength
    BY <1>1, <2>1, Sizes, SMT
  <2> QED
    BY <1>2, <1>5, <2>2, <2>5, <2>6, FirstKeepsStep DEF Fresh, HoldsNothing
<1>6. CASE ~is_empty /\ ~Fresh
  <2>1. PICK f \in Int : Positioned(f)
    BY <1>6, NotFresh
  <2>2. f <= p
    BY <1>6, <2>1, NotLate
  <2>3. p < f + BufferLength
    <3>1. Offset(Seq(p)) \in Nat /\ Offset(Seq(p)) < BufferLength
      BY <1>1, <1>6, InsideWindow DEF StreamInv
    <3>2. Offset(Seq(p)) = p - f
      BY <1>1, <2>1, <2>2, WithinHalf, SeqCompares DEF Offset, Positioned
    <3> QED
      BY <1>1, <3>1, <3>2, Sizes, SMT
  <2>4. heard' \in Int /\ p <= heard' /\ heard <= heard'
    BY <1>1, SMT DEF Newest
  <2>5. /\ f <= heard' + 1
        /\ heard' <= f + MaxDelay + BufferLength - 2
    <3>1. f <= heard + 1 /\ heard <= f + MaxDelay + BufferLength - 2
      BY <2>1 DEF Positioned
    <3> QED
      BY <1>1, <2>3, <2>4, <3>1, Sizes, StreamAssumption, SMT DEF Newest
  <2>6. Slot(Seq(p)) \in Slots
    BY <1>1, SlotInRing
  <2>7. ASSUME NEW i \in Slots, entries'[i].filled
        PROVE  /\ entries'[i].seqnum = Seq(entries'[i].payload)
               /\ entries'[i].payload \in f .. f + BufferLength - 1
               /\ entries'[i].payload <= heard'
    <3>1. CASE i = Slot(Seq(p))
      <4>1. entries'[i] = new
        BY <1>2, <2>6, <3>1
      <4>2. p \in f .. f + BufferLength - 1
        BY <1>1, <2>2, <2>3, Sizes, SMT
      <4> QED
        BY <4>1, <4>2, <2>4
    <3>2. CASE i # Slot(Seq(p))
      <4>1. entries'[i] = entries[i]
        BY <1>2, <3>2
      <4>2. /\ entries[i].seqnum = Seq(entries[i].payload)
            /\ entries[i].payload \in f .. f + BufferLength - 1
            /\ entries[i].payload <= heard
        BY <2>1, <2>7, <4>1 DEF Positioned
      <4>3. entries[i].payload <= heard'
        BY <1>1, <2>4, <4>2, Sizes, SMT
      <4> QED
        BY <4>1, <4>2, <4>3
    <3> QED
      BY <3>1, <3>2
  <2>8. first_seqnum' = first_seqnum
    BY <1>6 DEF Store
  <2>9. Positioned(f)'
    BY <2>1, <2>5, <2>7, <2>8 DEF Positioned, Seq
  <2> QED
    BY <2>9 DEF InStep
<1> QED
  BY <1>4, <1>5, <1>6

\* A packet that arrives, whatever enqueue makes of it.
LEMMA ArrivalKeepsStep ==
  ASSUME StreamInv, NEW p \in InFlight, EnqueueAudio(Seq(p), p),
         UNCHANGED <<sent, last>>, heard' = Newest(p)
  PROVE  InStep'
<1>1. CASE /\ Late(Seq(p)) \/ (~NoSpace(Seq(p)) /\ Resent(Seq(p)))
           /\ EnqueueIgnored
  BY <1>1, IgnoredKeepsStep DEF EnqueueIgnored
<1>2. CASE /\ ~Late(Seq(p)) /\ ~NoSpace(Seq(p))
           /\ Store(Seq(p), p, entries, first_seqnum, last_seqnum)
  BY <1>2, StoreKeepsStep
<1>3. CASE /\ ~Late(Seq(p)) /\ NoSpace(Seq(p))
           /\ Store(Seq(p), p, Emptied(entries), Seq(p), ToUnsigned(Seq(p) - 1))
  <2>1. p \in Int /\ last \in Int
    BY InFlightTypes, StreamAssumption, SMT DEF StreamInv, StreamTypes
  <2>2. p <= p /\ p < p + BufferLength
    BY <2>1, Sizes, SMT
  <2>3. /\ Emptied(entries) \in [Slots -> Entry]
        /\ \A i \in Slots : ~Emptied(entries)[i].filled
    BY EmptiedType, EmptiedHoldsNothing DEF StreamInv, TypeOK
  <2>4. /\ entries' = [Emptied(entries) EXCEPT ![Slot(Seq(p))] =
                         [filled |-> TRUE, seqnum |-> Seq(p), payload |-> p]]
        /\ first_seqnum' = Seq(p)
    BY <1>3 DEF Store
  <2>5. last = -1 \/ last < p
    <3>1. CASE Fresh
      BY <3>1 DEF Fresh
    <3>2. CASE ~Fresh
      <4>1. PICK f \in Int : Positioned(f)
        BY <3>2, NotFresh
      <4>2. f <= p
        BY <1>3, <3>2, <4>1, NotFresh, NotLate
      <4> QED
        BY <2>1, <4>1, <4>2, SMT DEF Positioned
    <3> QED
      BY <3>1, <3>2
  <2> HIDE DEF Emptied
  <2> QED
    BY <2>1, <2>2, <2>3, <2>4, <2>5, FirstKeepsStep
<1> QED
  BY <1>1, <1>2, <1>3 DEF EnqueueAudio

\* Only the packet at the playout position lies in its slot.
LEMMA OthersAreAhead ==
  ASSUME StreamInv, NEW f \in Int, Positioned(f), NEW i \in Slots, entries[i].filled
  PROVE  /\ entries[i].payload \in Int
         /\ i = Slot(first_seqnum) => entries[i].payload = f
         /\ i # Slot(first_seqnum) => entries[i].payload \in f + 1 .. (f + 1) + BufferLength - 1
<1> DEFINE q == entries[i].payload
<1>1. /\ q \in f .. f + BufferLength - 1
      /\ entries[i].seqnum = Seq(q) /\ first_seqnum = Seq(f)
  BY DEF Positioned
<1>2. q \in Int /\ q - f < Half /\ f - q <= Half
  BY <1>1, Sizes, SMT
<1>3. Slot(entries[i].seqnum) = i /\ Offset(entries[i].seqnum) < EntryCount
  BY DEF StreamInv, RingInv, InPlace
<1>4. CASE i = Slot(first_seqnum)
  <2>1. /\ first_seqnum \in Seqnum /\ last_seqnum \in Seqnum
        /\ entries[i].seqnum \in Seqnum
    BY DEF StreamInv, TypeOK, Entry
  <2>2. /\ ToUnsigned(entries[i].seqnum - first_seqnum) \in Int
        /\ EntryCount \in Int /\ EntryCount <= BufferLength
    BY <2>1, CmpByDistance, Sizes, SMT DEF StreamInv, RingInv, SpanFits
  <2>3. ToUnsigned(entries[i].seqnum - first_seqnum) < BufferLength
    BY <1>3, <2>2, Sizes, SMT DEF Offset
  <2>4. ToUnsigned(first_seqnum - first_seqnum) < BufferLength
    BY <2>1, Sizes, SMT DEF ToUnsigned, Seqnum
  <2>5. entries[i].seqnum = first_seqnum
    BY <1>3, <1>4, <2>1, <2>3, <2>4, SlotIdentifies
  <2>6. q = f
    BY <1>1, <1>2, <2>5, SeqIdentifies
  <2> QED
    BY <1>2, <1>4, <2>6
<1>5. CASE i # Slot(first_seqnum)
  <2>1. q # f
    BY <1>1, <1>3, <1>5
  <2>2. q \in f + 1 .. (f + 1) + BufferLength - 1
    BY <1>1, <2>1, Sizes, SMT
  <2> QED
    BY <1>2, <1>5, <2>2
<1> QED
  BY <1>4, <1>5

\* A dequeue hands out the packet at the position, or passes over one that is
\* missing, and moves the position on.
LEMMA RenderKeepsStep ==
  ASSUME StreamInv, Render
  PROVE  InStep' /\ last' \in {-1} \cup Data /\ (last' # last => last' > last)
<1>0. /\ UNCHANGED <<sent, heard>> /\ last \in {-1} \cup Data
      /\ sent \in Int /\ heard \in Int /\ last \in Int /\ last >= -1
      /\ raop_buffer_dequeue(no_resend)
      /\ last' = IF out'.ret = NULL THEN last ELSE out'.ret
  BY StreamAssumption, SMT DEF Render, Drain, netvars, StreamInv, StreamTypes
<1>1. CASE /\ NothingToDequeue(no_resend)
           /\ DequeueReturns(NULL) /\ UNCHANGED <<first_seqnum, entries>>
  <2>1. last' = last
    BY <1>0, <1>1 DEF DequeueReturns
  <2> QED
    BY <1>0, <1>1, <2>1, SameInStep DEF StreamInv
<1>2. CASE ~NothingToDequeue(no_resend)
  <2> DEFINE here == Slot(first_seqnum)
  <2>1. /\ first_seqnum \in Seqnum /\ last_seqnum \in Seqnum
        /\ entries \in [Slots -> Entry] /\ here \in Slots
    BY SlotInRing DEF StreamInv, TypeOK
  <2>2. ~is_empty /\ EntryCount > 0
    <3>1. EntryCount \in Int
      BY <2>1, CmpByDistance, SMT DEF EntryCount
    <3> QED
      BY <1>2, <3>1, SMT DEF NothingToDequeue
  <2>3. Slot(last_seqnum) \in Slots /\ entries[Slot(last_seqnum)].filled
    BY <2>1, <2>2, SlotInRing DEF StreamInv, RingInv, LastIsBuffered
  <2>4. PICK f \in Int : Positioned(f)
    BY <2>3, NotFresh DEF Fresh, HoldsNothing
  <2>5. first_seqnum' = Seq(f + 1)
    <3>1. first_seqnum' = ToUnsigned(first_seqnum + 1)
      BY <1>0, <1>2 DEF raop_buffer_dequeue
    <3> QED
      BY <2>4, <3>1, SeqForward DEF Positioned
  <2>6. /\ f + 1 \in Int
        /\ heard <= (f + 1) + MaxDelay + BufferLength - 2
        /\ sent <= (f + 1) + MaxDelay + MaxOutage + BufferLength - 1
    <3>1. /\ heard <= f + MaxDelay + BufferLength - 2
          /\ sent <= f + MaxDelay + MaxOutage + BufferLength - 1
      BY <2>4 DEF Positioned
    <3> QED
      BY <1>0, <3>1, Sizes, StreamAssumption, SMT
  <2>7. CASE ~FirstEntry.filled /\ DequeueReturns(NULL) /\ UNCHANGED entries
    <3>1. last' = last
      BY <1>0, <2>7 DEF DequeueReturns
    <3>2. last' = -1 \/ last' < f + 1
      BY <1>0, <2>4, <3>1, SMT DEF Positioned
    <3>3. f + 1 <= heard' + 1
      <4> DEFINE q == entries[Slot(last_seqnum)].payload
      <4>1. Slot(last_seqnum) # here
        BY <2>3, <2>7 DEF FirstEntry
      <4>2. q \in f + 1 .. (f + 1) + BufferLength - 1 /\ q <= heard
        BY <2>3, <2>4, <4>1, OthersAreAhead DEF Positioned
      <4> HIDE DEF q
      <4> QED
        BY <1>0, <4>2, Sizes, SMT
    <3>4. ASSUME NEW i \in Slots, entries'[i].filled
          PROVE  /\ entries'[i].seqnum = Seq(entries'[i].payload)
                 /\ entries'[i].payload \in f + 1 .. (f + 1) + BufferLength - 1
                 /\ entries'[i].payload <= heard'
      <4>1. i # here /\ entries[i].filled
        BY <2>7, <3>4 DEF FirstEntry
      <4> QED
        BY <1>0, <2>4, <2>7, <4>1, OthersAreAhead DEF Positioned
    <3>5. Positioned(f + 1)'
      BY <1>0, <2>5, <2>6, <3>2, <3>3, <3>4 DEF Positioned, Seq
    <3> QED
      BY <1>0, <2>6, <3>1, <3>5 DEF InStep
  <2>8. CASE FirstEntry.filled /\ DequeueReturns(FirstEntry.payload) /\ entries' = FirstVacated
    <3>1. FirstEntry.payload = f /\ f <= heard
      BY <2>1, <2>4, <2>8, OthersAreAhead DEF FirstEntry, Positioned
    <3>2. f \in Data
      BY <2>1, <2>8, <3>1 DEF FirstEntry, StreamInv, RingInv, FilledOwnsPayload
    <3>3. last' = f
      BY <1>0, <2>8, <3>1, <3>2, PointerAssumption DEF DequeueReturns
    <3>4. last' # last => last' > last
      BY <1>0, <2>4, <3>2, <3>3, StreamAssumption, SMT DEF Positioned
    <3>5. ASSUME NEW i \in Slots, entries'[i].filled
          PROVE  /\ entries'[i].seqnum = Seq(entries'[i].payload)
                 /\ entries'[i].payload \in f + 1 .. (f + 1) + BufferLength - 1
                 /\ entries'[i].payload <= heard'
      <4>1. i # here /\ entries'[i] = entries[i]
        BY <2>1, <2>8, <3>5 DEF FirstVacated
      <4> QED
        BY <1>0, <2>4, <3>5, <4>1, OthersAreAhead DEF Positioned
    <3>6. f + 1 <= heard' + 1 /\ last' < f + 1
      BY <1>0, <3>1, <3>3, SMT
    <3>7. Positioned(f + 1)'
      BY <1>0, <2>5, <2>6, <3>5, <3>6 DEF Positioned, Seq
    <3> QED
      BY <2>6, <3>2, <3>3, <3>4, <3>7 DEF InStep
  <2> QED
    BY <1>0, <1>2, <2>7, <2>8 DEF raop_buffer_dequeue
<1> QED
  BY <1>0, <1>1, <1>2 DEF raop_buffer_dequeue

-----------------------------------------------------------------------------
(* The step.                                                                *)

LEMMA StreamStep == StreamInv /\ [StreamNext]_streamvars => StreamInv'
<1> SUFFICES ASSUME StreamInv, [StreamNext]_streamvars PROVE StreamInv'
  OBVIOUS
<1>1. TypeOK' /\ RingInv'
  BY StreamBufferStep, TypeStep, RingStep DEF StreamInv
<1>2. CASE Send
  <2>1. StreamTypes'
    <3>1. Packets \in Nat /\ sent \in 0 .. Packets /\ sent < Packets /\ sent' = sent + 1
      BY <1>2, StreamAssumption DEF Send, StreamInv, StreamTypes
    <3>2. heard \in -1 .. sent - 1 /\ heard' = heard
      BY <1>2 DEF Send, StreamInv, StreamTypes
    <3>3. sent' \in 0 .. Packets /\ heard' \in -1 .. sent' - 1
      BY <3>1, <3>2, SMT
    <3>4. last' = last /\ flush' = flush /\ taken' = taken
      BY <1>2 DEF Send, rtpvars, mailbox, local
    <3> QED
      BY <3>3, <3>4, Zenon DEF StreamInv, StreamTypes
  <2>2. EmptyIsFresh'
    BY <1>2 DEF Send, StreamInv, EmptyIsFresh, rtpvars, bufvars
  <2> QED
    BY <1>1, <1>2, <2>1, <2>2, SendKeepsStep DEF StreamInv
<1>3. CASE DataArrives \/ ResentArrives
  <2>1. PICK p \in InFlight : /\ EnqueueAudio(Seq(p), p)
                              /\ heard' = Newest(p)
                              /\ UNCHANGED <<sent, last, mailbox, local>>
    BY <1>3 DEF DataArrives, ResentArrives, ReceiveData, ReceiveResent
  <2>2. InStep'
    BY <2>1, ArrivalKeepsStep
  <2>3. heard' \in -1 .. sent' - 1
    BY <2>1, InFlightTypes, SMT DEF StreamInv, StreamTypes, Newest
  <2>4. StreamTypes'
    BY <2>1, <2>3 DEF StreamInv, StreamTypes, mailbox, local
  <2>5. EmptyIsFresh'
    BY <2>1 DEF StreamInv, EmptyIsFresh, EnqueueAudio, EnqueueIgnored, Store, buffer
  <2> QED
    BY <1>1, <2>2, <2>4, <2>5 DEF StreamInv
<1>4. CASE NoAudioArrives \/ AskAgain \/ Loop \/ VolumeMoves \/ SenderFlushes
           \/ UNCHANGED streamvars
  <2>1. UNCHANGED <<buffer, sent, heard, last>>
    BY <1>4 DEF NoAudioArrives, AskAgain, Loop, VolumeMoves, SenderFlushes, streamvars,
       rtpvars, netvars, bufvars, buffer, ReceiveNoAudio, EnqueueInvalid, EnqueueIgnored,
       RequestResends, raop_buffer_handle_resends, TakeEvents, SelectTimeout,
       raop_rtp_set_volume, raop_rtp_flush
  <2>2. InStep'
    BY <2>1, SameInStep DEF StreamInv, buffer
  <2>3. EmptyIsFresh'
    BY <2>1 DEF StreamInv, EmptyIsFresh, buffer
  <2>4. flush' \in FlushArgument /\ taken'.flush \in FlushArgument
    <3>1. /\ NoFlush \in FlushArgument /\ Seq(sent) \in FlushArgument
          /\ flush \in FlushArgument /\ taken.flush \in FlushArgument
      BY SeqByLaps, SMT DEF FlushArgument, StreamInv, StreamTypes
    <3> HIDE DEF NoFlush, FlushArgument
    <3>2. CASE Loop
      BY <3>1, <3>2 DEF Loop, TakeEvents, EmptyMailbox, SelectTimeout, mailbox, local
    <3>3. CASE SenderFlushes
      BY <3>1, <3>3 DEF SenderFlushes, raop_rtp_flush, local
    <3>4. CASE NoAudioArrives \/ AskAgain \/ VolumeMoves \/ UNCHANGED streamvars
      BY <3>1, <3>4 DEF NoAudioArrives, AskAgain, VolumeMoves, streamvars, rtpvars,
         mailbox, local, ReceiveNoAudio, RequestResends, raop_rtp_set_volume
    <3> QED
      BY <1>4, <3>2, <3>3, <3>4
  <2>5. StreamTypes'
    BY <2>1, <2>4 DEF StreamInv, StreamTypes
  <2> QED
    BY <1>1, <2>2, <2>3, <2>5 DEF StreamInv
<1>5. CASE Render
  <2>1. UNCHANGED <<is_empty, mailbox, local, sent, heard>>
    BY <1>5 DEF Render, Drain, raop_buffer_dequeue, netvars
  <2>2. InStep' /\ last' \in {-1} \cup Data
    BY <1>5, RenderKeepsStep
  <2>3. is_empty => last' = last
    <3>1. SUFFICES ASSUME is_empty PROVE last' = last
      OBVIOUS
    <3>2. raop_buffer_dequeue(no_resend) /\ NothingToDequeue(no_resend)
      BY <1>5, <3>1 DEF Render, Drain, NothingToDequeue
    <3>3. DequeueReturns(NULL)
      <4> HIDE DEF NothingToDequeue, DequeueReturns
      <4> QED
        BY <3>2 DEF raop_buffer_dequeue
    <3>4. out'.ret = NULL
      BY <3>3 DEF DequeueReturns
    <3> QED
      BY <1>5, <3>4 DEF Render
  <2>4. StreamTypes' /\ EmptyIsFresh'
    BY <2>1, <2>2, <2>3 DEF StreamInv, StreamTypes, EmptyIsFresh, mailbox, local
  <2> QED
    BY <1>1, <2>2, <2>4 DEF StreamInv
<1>6. CASE Callbacks
  <2>1. UNCHANGED <<mailbox, sent, heard>> /\ taken'.flush = NoFlush
    BY <1>6 DEF Callbacks, MakeCallbacks, netvars, Parts
  <2>2. NoFlush \in FlushArgument
    BY DEF FlushArgument
  <2>3. CASE taken.volume_changed
    <3>1. last' = -1
      BY <1>6, <2>3 DEF Callbacks
    <3>2. HoldsNothing'
      BY <1>6, <2>3, EmptiedHoldsNothing
      DEF Callbacks, MakeCallbacks, raop_buffer_flush, HoldsNothing
    <3>3. StreamTypes'
      BY <2>1, <2>2, <3>1 DEF StreamInv, StreamTypes, mailbox
    <3> QED
      BY <1>1, <3>1, <3>2, <3>3 DEF StreamInv, EmptyIsFresh, InStep, Fresh
  <2>4. CASE ~taken.volume_changed
    <3>1. UNCHANGED <<buffer, last>>
      BY <1>6, <2>4 DEF Callbacks, MakeCallbacks, bufvars, buffer
    <3>2. InStep' /\ EmptyIsFresh'
      BY <2>1, <3>1, SameInStep DEF StreamInv, EmptyIsFresh, buffer
    <3>3. StreamTypes'
      BY <2>1, <2>2, <3>1 DEF StreamInv, StreamTypes, mailbox
    <3> QED
      BY <1>1, <3>2, <3>3 DEF StreamInv
  <2> QED
    BY <2>3, <2>4
<1> QED
  BY <1>2, <1>3, <1>4, <1>5, <1>6 DEF StreamNext

LEMMA StreamInvariant == StreamSpec => []StreamInv
<1> QED
  BY StreamInitEstablishes, StreamStep, PTL DEF StreamSpec

-----------------------------------------------------------------------------
(* The theorems.                                                            *)

\* The packets waiting in the ring are from one stretch of the stream, each under
\* its own number, whatever the network does and wherever a flush has put the
\* position.
THEOREM RingHoldsOneLap == StreamSpec => []OneLap
<1>1. StreamInv => OneLap
  <2> SUFFICES ASSUME StreamInv, NEW i \in Slots, NEW j \in Slots,
                      entries[i].filled, entries[j].filled
               PROVE  /\ entries[i].seqnum = Seq(entries[i].payload)
                      /\ entries[i].payload - entries[j].payload < BufferLength
    BY DEF OneLap
  <2>1. PICK f \in Int : Positioned(f)
    BY NotFresh DEF Fresh, HoldsNothing
  <2>2. /\ entries[i].seqnum = Seq(entries[i].payload)
        /\ entries[i].payload \in f .. f + BufferLength - 1
        /\ entries[j].payload \in f .. f + BufferLength - 1
    BY <2>1 DEF Positioned
  <2> QED
    BY <2>2, Sizes, SMT
<1> QED
  BY <1>1, StreamInvariant, PTL

\* The renderer gets the packets in the sender's order, each at most once, over any
\* number of wraps; only a volume change may set it back.
THEOREM StreamIsPlayedInOrder == StreamSpec => PlayedInOrder
<1>1. StreamInv /\ [StreamNext]_streamvars
        => [last' # last => last' > last
                            \/ (thread = "callbacks" /\ taken.volume_changed)]_streamvars
  <2> SUFFICES ASSUME StreamInv, StreamNext, last' # last
               PROVE  last' > last \/ (thread = "callbacks" /\ taken.volume_changed)
    BY DEF streamvars
  <2>1. CASE Render
    BY <2>1, RenderKeepsStep
  <2>2. CASE Callbacks
    BY <2>2 DEF Callbacks, MakeCallbacks, At
  <2>3. CASE ~Render /\ ~Callbacks
    BY <2>3 DEF StreamNext, Send, DataArrives, ResentArrives, NoAudioArrives, AskAgain,
                Loop, VolumeMoves, SenderFlushes
  <2> QED
    BY <2>1, <2>2, <2>3
<1> QED
  BY <1>1, StreamInvariant, PTL DEF StreamSpec, PlayedInOrder

\* After a data packet that leaves a gap the receiver has asked for all of it.
THEOREM WholeGapIsAskedFor == StreamSpec => GapsAreAskedFor
<1>1. StreamInv /\ [StreamNext]_streamvars
        => [thread = "resends" /\ thread' # "resends" /\ ~is_empty =>
              \A k \in 0 .. EntryCount - 2 :
                MissingUpTo(k + 1) =>
                  \A p \in InFlight : Seq(p) = ToUnsigned(first_seqnum + k)
                                        => p \in asked']_streamvars
  <2> SUFFICES ASSUME StreamInv, StreamNext, thread = "resends", thread' # "resends",
                      NEW k \in 0 .. EntryCount - 2, MissingUpTo(k + 1),
                      NEW p \in InFlight, Seq(p) = ToUnsigned(first_seqnum + k)
               PROVE  p \in asked'
    BY DEF streamvars
  <2>1. AskAgain
    BY DEF StreamNext, Send, DataArrives, ResentArrives, NoAudioArrives, Render, Callbacks,
           Loop, VolumeMoves, SenderFlushes, rtpvars, ReceiveData, ReceiveResent,
           ReceiveNoAudio, Drain, MakeCallbacks, TakeEvents, SelectTimeout,
           raop_rtp_set_volume, raop_rtp_flush, At
  <2>2. EntryCount \in Int
    BY CmpByDistance, SMT DEF StreamInv, TypeOK, EntryCount
  <2>3. k \in Nat /\ k <= EntryCount - 2 /\ EntryCount > 1
    BY <2>2, SMT
  <2>4. PICK n \in 0 .. EntryCount - 1 :
          /\ ScanStopsAfter(n)
          /\ out' = IF n = 0 THEN Nothing ELSE [call |-> "resend", ret |-> n]
    BY <2>1, <2>3 DEF AskAgain, RequestResends, raop_buffer_handle_resends
  <2>5. k < n
    <3>1. CASE n = EntryCount - 1
      BY <2>2, <2>3, <3>1, SMT
    <3>2. CASE entries[Slot(ToUnsigned(first_seqnum + n))].filled
      <4> SUFFICES ASSUME ~(k < n) PROVE FALSE
        OBVIOUS
      <4>1. n \in 0 .. (k + 1) - 1
        BY <2>2, <2>3, SMT
      <4> QED
        BY <3>2, <4>1 DEF MissingUpTo
    <3> QED
      BY <2>4, <3>1, <3>2 DEF ScanStopsAfter
  <2>6. n # 0 /\ k \in 0 .. n - 1
    BY <2>2, <2>3, <2>5, SMT
  <2>7. out'.call = "resend" /\ out'.ret = n
    BY <2>4, <2>6
  <2> QED
    BY <2>1, <2>6, <2>7 DEF AskAgain
<1> QED
  BY <1>1, StreamInvariant, PTL DEF StreamSpec, GapsAreAskedFor
=============================================================================
