-------------------------- MODULE RaopBufferProofs --------------------------
(* Proofs about the audio jitter buffer for every ring length and every     *)
(* sequence-number space the assumptions of RaopBuffer allow, the code's    *)
(* 32 entries and 16 bits among them: types, the invariant of the ring,     *)
(* what the calls return and replace, and that every call is a step of      *)
(* PlayoutWindow or changes nothing there.                                  *)
EXTENDS RaopBuffer, TLAPS

-----------------------------------------------------------------------------
(* Arithmetic of the sequence-number circle.                                *)

\* A multiple of b that lies in 0 .. b-1 is 0: the only product used below.
LEMMA SmallMultiple ==
  ASSUME NEW b \in Nat \ {0}, NEW k \in Int, 0 <= b * k, b * k < b
  PROVE  k = 0
<1>1. CASE k >= 1
  <2>1. b * k = b + b * (k - 1)  BY SMT
  <2>2. b * (k - 1) >= 0         BY <1>1, SMT
  <2> QED  BY <2>1, <2>2, SMT
<1>2. CASE k <= -1
  <2>1. b * k = b * (k + 1) - b  BY SMT
  <2>2. b * (k + 1) <= 0         BY <1>2, SMT
  <2> QED  BY <2>1, <2>2, SMT
<1> QED  BY <1>1, <1>2, SMT

\* Half the circle is longer than the ring, which has at least one entry.
LEMMA Sizes == /\ BufferLength \in Nat /\ BufferLength >= 1
               /\ Half \in Nat
               /\ Half >= 2 * BufferLength
               /\ Modulus = 2 * Half
<1>1. BufferLength * Laps = 2 * BufferLength + BufferLength * (Laps - 2)
  BY SizeAssumption, SMT
<1>2. BufferLength * (Laps - 2) \in Nat
  BY SizeAssumption, SMT
<1> QED  BY <1>1, <1>2, SizeAssumption, SMT DEF Half, Modulus

\* The slot of a sequence number is an index of the ring.
LEMMA SlotInRing == \A s \in Seqnum : Slot(s) \in Slots
BY Sizes, SMT DEF Slot, Slots, Seqnum

\* Two sequence numbers less than a ring length apart have different slots.
LEMMA SlotsDistinct ==
  ASSUME NEW s \in Seqnum, NEW t \in Seqnum,
         Slot(s) = Slot(t), ToUnsigned(t - s) < BufferLength
  PROVE  s = t
<1> DEFINE qs == s \div BufferLength
           qt == t \div BufferLength
<1>1. /\ qs \in Int /\ qt \in Int
      /\ s = BufferLength * qs + Slot(s)
      /\ t = BufferLength * qt + Slot(t)
  BY Sizes, SMT DEF Slot, Seqnum
<1>2. t - s = BufferLength * (qt - qs)
  BY <1>1, Sizes, SlotInRing, SMT DEF Slots
<1> HIDE DEF qs, qt
<1>3. CASE t >= s
  <2>1. 0 <= BufferLength * (qt - qs) /\ BufferLength * (qt - qs) < BufferLength
    BY <1>2, <1>3, Sizes, SMT DEF ToUnsigned, Seqnum
  <2>2. qt - qs = 0
    BY <2>1, <1>1, SmallMultiple, SizeAssumption
  <2> QED  BY <2>2, <1>1, <1>2, Sizes, SMT DEF Seqnum
<1>4. CASE t < s
  <2>1. Modulus = BufferLength * (2 * Laps)
    BY SizeAssumption, SMT DEF Half, Modulus
  <2>2. t - s + Modulus = BufferLength * (qt - qs + 2 * Laps)
    BY <2>1, <1>1, <1>2, SizeAssumption, SMT
  <2>3. /\ 0 <= BufferLength * (qt - qs + 2 * Laps)
        /\ BufferLength * (qt - qs + 2 * Laps) < BufferLength
    BY <2>2, <1>4, Sizes, SMT DEF ToUnsigned, Seqnum
  <2>4. qt - qs + 2 * Laps = 0
    BY <2>3, <1>1, SmallMultiple, SizeAssumption
  <2>5. t - s + Modulus = 0
    BY <2>2, <2>4, Sizes, SMT
  <2> QED  BY <2>5, <1>4, Sizes, SMT DEF Seqnum
<1> QED  BY <1>3, <1>4, Sizes, SMT DEF Seqnum

\* The signed difference of two sequence numbers, by how far apart they are.
LEMMA CmpByDistance ==
  \A s, t \in Seqnum :
     /\ ToUnsigned(s - t) \in Seqnum
     /\ ToUnsigned(s - t) \in Int /\ seqnum_cmp(s, t) \in Int
     /\ ToUnsigned(s - t) = 0 <=> s = t
     /\ seqnum_cmp(s, t) = IF ToUnsigned(s - t) < Half THEN ToUnsigned(s - t)
                           ELSE ToUnsigned(s - t) - Modulus
BY Sizes, SMT DEF seqnum_cmp, ToUnsigned, Seqnum

-----------------------------------------------------------------------------
(* Type correctness.                                                        *)

LEMMA EmptiedType == entries \in [Slots -> Entry] => Emptied(entries) \in [Slots -> Entry]
BY DEF Emptied, Entry, Pointer

LEMMA StoreType ==
  ASSUME TypeOK, NEW s \in Seqnum, NEW d \in Data,
         NEW e \in [Slots -> Entry], NEW f \in Seqnum, NEW l \in Seqnum,
         Store(s, d, e, f, l)
  PROVE  /\ is_empty' \in BOOLEAN
         /\ first_seqnum' \in Seqnum
         /\ last_seqnum' \in Seqnum
         /\ entries' \in [Slots -> Entry]
<1>1. [filled |-> TRUE, seqnum |-> s, payload |-> d] \in Entry
  BY DEF Entry, Pointer
<1>2. Slot(s) \in Slots
  BY SlotInRing
<1> QED  BY <1>1, <1>2 DEF Store, TypeOK

\* No call changes the type of a field.
LEMMA TypeStep == TypeOK /\ [Next]_bufvars => TypeOK'
<1> SUFFICES ASSUME TypeOK, [Next]_bufvars PROVE TypeOK'
  OBVIOUS
<1>1. ASSUME NEW s \in Seqnum, NEW d \in Data, EnqueueAudio(s, d) PROVE TypeOK'
  <2>1. CASE EnqueueIgnored
    BY <2>1 DEF EnqueueIgnored, TypeOK, buffer
  <2>2. CASE Store(s, d, entries, first_seqnum, last_seqnum) /\ UNCHANGED status
    BY <2>2, StoreType DEF TypeOK
  <2>3. CASE /\ Store(s, d, Emptied(entries), s, ToUnsigned(s - 1))
             /\ status' \in AfterFrees("live")
    <3>1. ToUnsigned(s - 1) \in Seqnum
      BY Sizes, SMT DEF ToUnsigned, Seqnum
    <3>2. Emptied(entries) \in [Slots -> Entry]
      BY EmptiedType DEF TypeOK
    <3> QED  BY <2>3, <3>1, <3>2, StoreType DEF TypeOK, AfterFrees
  <2> QED  BY <1>1, <2>1, <2>2, <2>3 DEF EnqueueAudio
<1>2. CASE EnqueueInvalid \/ EnqueueIgnored
  BY <1>2 DEF EnqueueInvalid, EnqueueIgnored, TypeOK, buffer
<1>3. ASSUME NEW no_resend \in BOOLEAN, raop_buffer_dequeue(no_resend) PROVE TypeOK'
  <2>1. first_seqnum' \in Seqnum
    BY <1>3, Sizes, SMT DEF raop_buffer_dequeue, TypeOK, ToUnsigned, Seqnum
  <2>2. entries' \in [Slots -> Entry]
    <3>1. [filled |-> FALSE, seqnum |-> entries[Slot(first_seqnum)].seqnum,
           payload |-> NULL] \in Entry
      BY SlotInRing DEF TypeOK, Entry, Pointer
    <3>2. FirstVacated \in [Slots -> Entry]
      BY <3>1 DEF FirstVacated, TypeOK
    <3> QED  BY <1>3, <3>2 DEF raop_buffer_dequeue, TypeOK
  <2> QED  BY <1>3, <2>1, <2>2 DEF raop_buffer_dequeue, TypeOK
<1>4. CASE raop_buffer_handle_resends
  BY <1>4 DEF raop_buffer_handle_resends, TypeOK, buffer
<1>5. ASSUME NEW n \in FlushArgument, raop_buffer_flush(n) PROVE TypeOK'
  <2>1. n \in Seqnum => ToUnsigned(n - 1) \in Seqnum
    BY Sizes, SMT DEF ToUnsigned, Seqnum
  <2> QED  BY <1>5, <2>1, EmptiedType DEF raop_buffer_flush, TypeOK, AfterFrees
<1>6. CASE raop_buffer_destroy
  BY <1>6 DEF raop_buffer_destroy, TypeOK, buffer, AfterFrees
<1>7. CASE UNCHANGED bufvars
  BY <1>7 DEF TypeOK, bufvars
<1> QED  BY <1>1, <1>2, <1>3, <1>4, <1>5, <1>6, <1>7 DEF Next

\* The buffer's fields keep their types through every call of every client.
THEOREM TypeCorrect == Spec => []TypeOK
<1>1. Init => TypeOK
  BY Sizes, SMT DEF Init, TypeOK, InitialEntries, Entry, Pointer, Seqnum
<1>2. TypeOK /\ [Next]_bufvars => TypeOK'
  BY TypeStep
<1> QED  BY <1>1, <1>2, PTL DEF Spec

-----------------------------------------------------------------------------
(* The ring invariant.  RingInv is inductive relative to TypeOK: the span    *)
(* never exceeds the ring, so slots identify packets, so a packet stored or  *)
(* taken out touches no other packet's slot.                                 *)

\* Distances from a common point subtract.
LEMMA OffsetsSubtract ==
  ASSUME NEW f \in Seqnum, NEW s \in Seqnum, NEW t \in Seqnum,
         ToUnsigned(s - f) <= ToUnsigned(t - f)
  PROVE  ToUnsigned(t - s) = ToUnsigned(t - f) - ToUnsigned(s - f)
BY Sizes, SMT DEF ToUnsigned, Seqnum

\* Inside the window a slot identifies the sequence number.
LEMMA SlotIdentifies ==
  ASSUME NEW f \in Seqnum, NEW s \in Seqnum, NEW t \in Seqnum,
         ToUnsigned(s - f) < BufferLength, ToUnsigned(t - f) < BufferLength,
         Slot(s) = Slot(t)
  PROVE  s = t
<1>0. ToUnsigned(s - f) \in Seqnum /\ ToUnsigned(t - f) \in Seqnum
  BY CmpByDistance
<1>1. CASE ToUnsigned(s - f) <= ToUnsigned(t - f)
  <2>1. ToUnsigned(t - s) = ToUnsigned(t - f) - ToUnsigned(s - f)
    BY <1>1, OffsetsSubtract
  <2>2. ToUnsigned(t - s) < BufferLength
    BY <2>1, <1>0, Sizes, SMT DEF Seqnum
  <2> QED  BY <2>2, SlotsDistinct
<1>2. CASE ToUnsigned(t - f) <= ToUnsigned(s - f)
  <2>1. ToUnsigned(s - t) = ToUnsigned(s - f) - ToUnsigned(t - f)
    BY <1>2, OffsetsSubtract
  <2>2. ToUnsigned(s - t) < BufferLength
    BY <2>1, <1>0, Sizes, SMT DEF Seqnum
  <2> QED  BY <2>2, SlotsDistinct
<1> QED  BY <1>0, <1>1, <1>2, Sizes, SMT DEF Seqnum

\* The length of a span that fits the ring, as a distance around the circle.
LEMMA SpanLength ==
  ASSUME NEW f \in Seqnum, NEW l \in Seqnum
  PROVE  /\ l = ToUnsigned(f - 1) <=> seqnum_cmp(l, f) + 1 = 0
         /\ seqnum_cmp(l, f) + 1 \in 1 .. Half
               => seqnum_cmp(l, f) + 1 = ToUnsigned(l - f) + 1
BY Sizes, SMT DEF seqnum_cmp, ToUnsigned, Seqnum

\* Emptying the ring leaves no filled entry and no live payload.
LEMMA EmptiedHoldsNothing ==
  ASSUME NEW i \in Slots
  PROVE  ~Emptied(entries)[i].filled /\ Emptied(entries)[i].payload \notin Data
BY PointerAssumption DEF Emptied

\* A packet stored into a ring that holds nothing is alone in a span of one.
LEMMA StoredAlone ==
  ASSUME NEW s \in Seqnum, NEW d \in Data, NEW e \in [Slots -> Entry],
         \A i \in Slots : ~e[i].filled /\ e[i].payload \notin Data,
         entries' = [e EXCEPT ![Slot(s)] =
                       [filled |-> TRUE, seqnum |-> s, payload |-> d]],
         first_seqnum' = s, last_seqnum' = s, is_empty' = FALSE
  PROVE  RingInv'
<1>1. Slot(s) \in Slots
  BY SlotInRing
<1>2. ToUnsigned(s - s) = 0 /\ seqnum_cmp(s, s) = 0
  BY Sizes, SMT DEF ToUnsigned, seqnum_cmp, Seqnum
<1>3. EntryCount' = 1
  BY <1>2 DEF EntryCount
<1>4. entries'[Slot(s)] = [filled |-> TRUE, seqnum |-> s, payload |-> d]
  BY <1>1
<1>5. \A i \in Slots : i # Slot(s) => entries'[i] = e[i]
  OBVIOUS
<1>6. SpanFits'
  BY <1>3, Sizes, SMT DEF SpanFits
<1>7. InPlace'
  BY <1>2, <1>3, <1>4, <1>5 DEF InPlace, Offset
<1>8. FilledOwnsPayload'
  BY <1>4, <1>5 DEF FilledOwnsPayload
<1>9. LastIsBuffered'
  BY <1>4 DEF LastIsBuffered
<1> QED  BY <1>6, <1>7, <1>8, <1>9 DEF RingInv

\* What the two tests of raop_buffer_enqueue leave: s lies inside the window.
LEMMA InsideWindow ==
  ASSUME TypeOK, NEW s \in Seqnum, ~is_empty, ~Late(s), ~NoSpace(s)
  PROVE  Offset(s) \in Nat /\ Offset(s) < BufferLength
<1>1. first_seqnum \in Seqnum
  BY DEF TypeOK
<1>2. seqnum_cmp(s, first_seqnum) >= 0
  BY <1>1, Sizes, SMT DEF Late, seqnum_cmp, ToUnsigned, Seqnum
<1>3. seqnum_cmp(s, ToUnsigned(first_seqnum + BufferLength)) < 0
  BY <1>1, Sizes, SMT DEF NoSpace, seqnum_cmp, ToUnsigned, Seqnum
<1> QED
  BY <1>1, <1>2, <1>3, Sizes, SMT DEF Offset, seqnum_cmp, ToUnsigned, Seqnum

\* A packet inside the window whose slot does not already hold it finds the
\* slot free: another packet in that slot would be a ring length away.
LEMMA SlotIsFree ==
  ASSUME TypeOK, RingInv, NEW s \in Seqnum, Offset(s) < BufferLength, ~Resent(s)
  PROVE  ~entries[Slot(s)].filled
<1> SUFFICES ASSUME entries[Slot(s)].filled PROVE FALSE
  OBVIOUS
<1>1. Slot(s) \in Slots
  BY SlotInRing
<1> DEFINE t == entries[Slot(s)].seqnum
<1>2. t \in Seqnum
  BY <1>1 DEF TypeOK, Entry
<1>3. Slot(t) = Slot(s) /\ Offset(t) < EntryCount
  BY <1>1 DEF RingInv, InPlace
<1>4. EntryCount \in Int /\ EntryCount <= BufferLength
  BY Sizes, SMT DEF RingInv, SpanFits
<1>5. first_seqnum \in Seqnum
  BY DEF TypeOK
<1>6. Offset(t) \in Seqnum
  BY <1>2, <1>5, CmpByDistance DEF Offset
<1>7. Offset(t) < BufferLength
  BY <1>3, <1>4, <1>6, Sizes, SMT DEF Seqnum
<1>8. t = s
  BY <1>2, <1>3, <1>5, <1>7, SlotIdentifies DEF Offset
<1>9. seqnum_cmp(t, s) = 0
  BY <1>8, Sizes, SMT DEF seqnum_cmp, ToUnsigned, Seqnum
<1> QED  BY <1>9 DEF Resent

\* A packet stored inside the window extends the span up to itself or leaves it.
LEMMA SpanAfterStore ==
  ASSUME NEW f \in Seqnum, NEW l \in Seqnum, NEW s \in Seqnum,
         NEW n \in Seqnum, n = IF seqnum_cmp(s, l) > 0 THEN s ELSE l,
         seqnum_cmp(l, f) + 1 \in 0 .. BufferLength,
         ToUnsigned(s - f) < BufferLength
  PROVE  /\ seqnum_cmp(n, f) + 1 \in 1 .. BufferLength
         /\ seqnum_cmp(n, f) >= seqnum_cmp(l, f)
         /\ ToUnsigned(s - f) <= seqnum_cmp(n, f)
         /\ n = l => seqnum_cmp(l, f) + 1 \in 1 .. BufferLength
BY Sizes, SMT DEF seqnum_cmp, ToUnsigned, Seqnum

\* Storing a packet inside the window of a started buffer keeps the invariant.
LEMMA StoredInside ==
  ASSUME TypeOK, RingInv, NEW s \in Seqnum, NEW d \in Data, ~is_empty,
         Offset(s) < BufferLength, ~Resent(s),
         Store(s, d, entries, first_seqnum, last_seqnum)
  PROVE  RingInv'
<1> DEFINE new == [filled |-> TRUE, seqnum |-> s, payload |-> d]
<1>1. Slot(s) \in Slots
  BY SlotInRing
<1>2. /\ first_seqnum \in Seqnum /\ last_seqnum \in Seqnum
      /\ entries \in [Slots -> Entry]
  BY DEF TypeOK
<1>3. /\ entries'[Slot(s)] = new
      /\ \A i \in Slots : i # Slot(s) => entries'[i] = entries[i]
  BY <1>1, <1>2 DEF Store
<1>4. /\ first_seqnum' = first_seqnum
      /\ last_seqnum' = IF seqnum_cmp(s, last_seqnum) > 0 THEN s ELSE last_seqnum
      /\ ~is_empty'
  BY DEF Store
<1>5. last_seqnum' \in Seqnum
  BY <1>2, <1>4
<1>6. EntryCount \in 0 .. BufferLength
  BY DEF RingInv, SpanFits
<1>7. /\ EntryCount' \in 1 .. BufferLength
      /\ EntryCount' >= EntryCount
      /\ Offset(s) < EntryCount'
      /\ last_seqnum' = last_seqnum => EntryCount \in 1 .. BufferLength
  <2>1. /\ seqnum_cmp(last_seqnum', first_seqnum) + 1 \in 1 .. BufferLength
        /\ seqnum_cmp(last_seqnum', first_seqnum) >= seqnum_cmp(last_seqnum, first_seqnum)
        /\ ToUnsigned(s - first_seqnum) <= seqnum_cmp(last_seqnum', first_seqnum)
        /\ last_seqnum' = last_seqnum
             => seqnum_cmp(last_seqnum, first_seqnum) + 1 \in 1 .. BufferLength
    BY <1>2, <1>4, <1>5, <1>6, SpanAfterStore DEF EntryCount, Offset
  <2>2. /\ ToUnsigned(s - first_seqnum) \in Int
        /\ seqnum_cmp(last_seqnum', first_seqnum) \in Int
        /\ seqnum_cmp(last_seqnum, first_seqnum) \in Int
    BY <1>2, <1>5, CmpByDistance
  <2> QED  BY <2>1, <2>2, <1>4, Sizes, SMT DEF EntryCount, Offset
<1>8. SpanFits'
  BY <1>4, <1>7, Sizes, SMT DEF SpanFits
<1>9. InPlace'
  <2> SUFFICES ASSUME NEW i \in Slots, entries'[i].filled
               PROVE  /\ Slot(entries'[i].seqnum) = i
                      /\ ToUnsigned(entries'[i].seqnum - first_seqnum') < EntryCount'
    BY DEF InPlace, Offset
  <2>1. CASE i = Slot(s)
    BY <2>1, <1>3, <1>4, <1>7 DEF Offset
  <2>2. CASE i # Slot(s)
    <3>1. entries[i].filled /\ entries'[i] = entries[i]
      BY <2>2, <1>3
    <3>2. Slot(entries[i].seqnum) = i /\ Offset(entries[i].seqnum) < EntryCount
      BY <3>1 DEF RingInv, InPlace
    <3>3. Offset(entries[i].seqnum) \in Int
      BY <1>2, Sizes, SMT DEF Offset, ToUnsigned, Entry, Seqnum
    <3>4. Offset(entries[i].seqnum) < EntryCount'
      BY <3>2, <3>3, <1>6, <1>7, Sizes, SMT
    <3> QED  BY <3>1, <3>2, <3>4, <1>4 DEF Offset
  <2> QED  BY <2>1, <2>2
<1>10. FilledOwnsPayload'
  BY <1>3 DEF RingInv, FilledOwnsPayload
<1>11. LastIsBuffered'
  <2>1. CASE last_seqnum' = s
    BY <2>1, <1>3 DEF LastIsBuffered
  <2>2. CASE last_seqnum' = last_seqnum
    <3>1. EntryCount > 0
      BY <2>2, <1>7, Sizes, SMT
    <3>2. entries[Slot(last_seqnum)].filled /\ entries[Slot(last_seqnum)].seqnum = last_seqnum
      BY <3>1 DEF RingInv, LastIsBuffered
    <3>3. CASE Slot(last_seqnum) # Slot(s)
      BY <3>2, <3>3, <2>2, <1>2, <1>3, SlotInRing DEF LastIsBuffered
    <3>4. CASE Slot(last_seqnum) = Slot(s)
      BY <3>2, <3>4, SlotIsFree
    <3> QED  BY <3>3, <3>4
  <2> QED  BY <2>1, <2>2, <1>4
<1> QED  BY <1>8, <1>9, <1>10, <1>11 DEF RingInv

\* What every path of raop_buffer_enqueue that stores a packet leaves behind.
LEMMA EnqueueKeepsRing ==
  ASSUME TypeOK, RingInv, NEW s \in Seqnum, NEW d \in Data, EnqueueAudio(s, d)
  PROVE  RingInv'
<1> DEFINE new == [filled |-> TRUE, seqnum |-> s, payload |-> d]
<1>0. /\ first_seqnum \in Seqnum /\ last_seqnum \in Seqnum
      /\ entries \in [Slots -> Entry]
  BY DEF TypeOK
<1>1. CASE EnqueueIgnored
  BY <1>1 DEF EnqueueIgnored, buffer, RingInv, SpanFits, InPlace, FilledOwnsPayload,
              LastIsBuffered, EntryCount, Offset
<1>2. CASE ~Late(s) /\ ~NoSpace(s) /\ ~Resent(s)
           /\ Store(s, d, entries, first_seqnum, last_seqnum)
  <2>1. CASE is_empty
    <3>1. \A i \in Slots : ~entries[i].filled /\ entries[i].payload \notin Data
      BY <2>1 DEF RingInv, SpanFits, FilledOwnsPayload
    <3>2. /\ entries' = [entries EXCEPT ![Slot(s)] = new]
          /\ first_seqnum' = s /\ last_seqnum' = s /\ is_empty' = FALSE
      BY <1>2, <2>1 DEF Store
    <3> QED  BY <3>1, <3>2, <1>0, StoredAlone
  <2>2. CASE ~is_empty
    BY <1>2, <2>2, InsideWindow, StoredInside
  <2> QED  BY <2>1, <2>2
<1>3. CASE Store(s, d, Emptied(entries), s, ToUnsigned(s - 1))
  <2>1. seqnum_cmp(s, ToUnsigned(s - 1)) > 0
    BY Sizes, SMT DEF seqnum_cmp, ToUnsigned, Seqnum
  <2>2. /\ entries' = [Emptied(entries) EXCEPT ![Slot(s)] = new]
        /\ first_seqnum' = s /\ last_seqnum' = s /\ is_empty' = FALSE
    BY <1>3, <2>1 DEF Store
  <2>3. Emptied(entries) \in [Slots -> Entry]
    BY <1>0, EmptiedType
  <2> QED  BY <2>2, <2>3, EmptiedHoldsNothing, StoredAlone
<1> QED  BY <1>1, <1>2, <1>3 DEF EnqueueAudio

\* Moving the position one forward shortens every distance ahead of it by one.
LEMMA StepForward ==
  ASSUME NEW f \in Seqnum, NEW s \in Seqnum, NEW l \in Seqnum,
         seqnum_cmp(l, f) + 1 \in 1 .. BufferLength
  PROVE  /\ ToUnsigned(f + 1) \in Seqnum
         /\ seqnum_cmp(l, ToUnsigned(f + 1)) = seqnum_cmp(l, f) - 1
         /\ s # f => ToUnsigned(s - ToUnsigned(f + 1)) = ToUnsigned(s - f) - 1
         /\ ToUnsigned(f - f) = 0
BY Sizes, SMT DEF seqnum_cmp, ToUnsigned, Seqnum

\* Passing over or taking out the packet at the position keeps the invariant.
LEMMA AdvanceKeepsRing ==
  ASSUME TypeOK, RingInv, ~is_empty, ~is_empty', EntryCount > 0,
         first_seqnum' = ToUnsigned(first_seqnum + 1),
         last_seqnum' = last_seqnum,
         \/ ~FirstEntry.filled /\ entries' = entries
         \/ entries' = FirstVacated
  PROVE  RingInv'
<1> DEFINE here == Slot(first_seqnum)
<1>1. /\ first_seqnum \in Seqnum /\ last_seqnum \in Seqnum
      /\ entries \in [Slots -> Entry] /\ here \in Slots
  BY SlotInRing DEF TypeOK
<1>2. EntryCount \in 1 .. BufferLength
  BY Sizes, SMT DEF RingInv, SpanFits
<1>3. EntryCount' = EntryCount - 1
  <2>1. seqnum_cmp(last_seqnum, ToUnsigned(first_seqnum + 1))
          = seqnum_cmp(last_seqnum, first_seqnum) - 1
    BY <1>1, <1>2, StepForward DEF EntryCount
  <2>2. seqnum_cmp(last_seqnum, first_seqnum) \in Int
    BY <1>1, CmpByDistance
  <2> QED  BY <2>1, <2>2, SMT DEF EntryCount
<1>4. /\ ~entries'[here].filled /\ entries'[here].payload \notin Data
      /\ \A i \in Slots : i # here => entries'[i] = entries[i]
  BY <1>1, PointerAssumption
     DEF FirstVacated, FirstEntry, RingInv, FilledOwnsPayload
<1>5. SpanFits'
  BY <1>2, <1>3, Sizes, SMT DEF SpanFits
<1>6. InPlace'
  <2> SUFFICES ASSUME NEW i \in Slots, entries'[i].filled
               PROVE  /\ Slot(entries'[i].seqnum) = i
                      /\ ToUnsigned(entries'[i].seqnum - first_seqnum') < EntryCount'
    BY DEF InPlace, Offset
  <2> DEFINE t == entries[i].seqnum
  <2>1. i # here /\ entries'[i] = entries[i] /\ entries[i].filled /\ t \in Seqnum
    BY <1>1, <1>4 DEF Entry
  <2>2. Slot(t) = i /\ ToUnsigned(t - first_seqnum) < EntryCount
    BY <2>1 DEF RingInv, InPlace, Offset
  <2>3. t # first_seqnum
    BY <2>1, <2>2
  <2>4. ToUnsigned(t - ToUnsigned(first_seqnum + 1)) = ToUnsigned(t - first_seqnum) - 1
    BY <1>1, <1>2, <2>1, <2>3, StepForward DEF EntryCount
  <2>5. ToUnsigned(t - first_seqnum) \in Int
    BY <1>1, <2>1, CmpByDistance
  <2>6. ToUnsigned(t - ToUnsigned(first_seqnum + 1)) < EntryCount'
    BY <2>2, <2>4, <2>5, <1>2, <1>3, Sizes, SMT
  <2> QED  BY <2>1, <2>2, <2>6
<1>7. FilledOwnsPayload'
  BY <1>4 DEF RingInv, FilledOwnsPayload
<1>8. LastIsBuffered'
  <2> SUFFICES ASSUME EntryCount' > 0
               PROVE  /\ entries'[Slot(last_seqnum)].filled
                      /\ entries'[Slot(last_seqnum)].seqnum = last_seqnum
    BY DEF LastIsBuffered
  <2>1. EntryCount >= 2
    BY <1>2, <1>3, Sizes, SMT
  <2>2. /\ entries[Slot(last_seqnum)].filled
        /\ entries[Slot(last_seqnum)].seqnum = last_seqnum
    BY DEF RingInv, LastIsBuffered
  <2>3. Slot(last_seqnum) # here
    <3>1. /\ ToUnsigned(first_seqnum - first_seqnum) < BufferLength
          /\ ToUnsigned(last_seqnum - first_seqnum) < BufferLength
          /\ last_seqnum # first_seqnum
      BY <2>1, <1>1, <1>2, Sizes, SMT DEF EntryCount, seqnum_cmp, ToUnsigned, Seqnum
    <3> QED  BY <3>1, <1>1, SlotIdentifies
  <2> QED  BY <2>2, <2>3, <1>1, <1>4, SlotInRing
<1> QED  BY <1>5, <1>6, <1>7, <1>8 DEF RingInv

LEMMA DequeueKeepsRing ==
  ASSUME TypeOK, RingInv, NEW no_resend \in BOOLEAN, raop_buffer_dequeue(no_resend)
  PROVE  RingInv'
<1>1. CASE UNCHANGED buffer
  BY <1>1 DEF buffer, RingInv, SpanFits, InPlace, FilledOwnsPayload,
              LastIsBuffered, EntryCount, Offset
<1>2. CASE /\ ~NothingToDequeue(no_resend)
           /\ first_seqnum' = ToUnsigned(first_seqnum + 1)
           /\ \/ ~FirstEntry.filled /\ entries' = entries
              \/ entries' = FirstVacated
  <2>1. /\ is_empty' = is_empty /\ last_seqnum' = last_seqnum
    BY DEF raop_buffer_dequeue
  <2>2. /\ ~is_empty /\ ~(EntryCount <= 0)
    BY <1>2 DEF NothingToDequeue
  <2>3. EntryCount > 0
    BY <2>2, Sizes, SMT DEF RingInv, SpanFits
  <2> QED  BY <1>2, <2>1, <2>2, <2>3, AdvanceKeepsRing
<1> QED  BY <1>1, <1>2 DEF raop_buffer_dequeue, buffer

LEMMA FlushKeepsRing ==
  ASSUME TypeOK, RingInv, NEW n \in FlushArgument, raop_buffer_flush(n)
  PROVE  RingInv'
<1>1. /\ \A i \in Slots : ~entries'[i].filled /\ entries'[i].payload \notin Data
  BY EmptiedHoldsNothing DEF raop_buffer_flush
<1>2. CASE n \in Seqnum
  <2>1. first_seqnum' = n /\ last_seqnum' = ToUnsigned(n - 1)
    BY <1>2 DEF raop_buffer_flush
  <2>2. seqnum_cmp(ToUnsigned(n - 1), n) + 1 = 0
    BY <1>2, Sizes, SMT DEF seqnum_cmp, ToUnsigned, Seqnum
  <2>3. EntryCount' = 0
    BY <2>1, <2>2 DEF EntryCount
  <2>4. 0 \in 0 .. BufferLength /\ ~(0 > 0)
    BY Sizes, SMT
  <2> QED  BY <1>1, <2>3, <2>4
           DEF RingInv, SpanFits, InPlace, FilledOwnsPayload, LastIsBuffered
<1>3. CASE n \notin Seqnum
  <2>1. is_empty' /\ first_seqnum' = first_seqnum /\ last_seqnum' = last_seqnum
    BY <1>3 DEF raop_buffer_flush
  <2>2. EntryCount' \in 0 .. BufferLength
    BY <2>1 DEF EntryCount, RingInv, SpanFits
  <2> QED  BY <1>1, <2>1, <2>2
           DEF RingInv, SpanFits, InPlace, FilledOwnsPayload, LastIsBuffered
<1> QED  BY <1>2, <1>3

\* The empty ring the structure starts as.
LEMMA InitRing == Init => RingInv
<1> SUFFICES ASSUME Init PROVE RingInv
  OBVIOUS
<1>1. EntryCount = 1
  BY Sizes, SMT DEF Init, EntryCount, seqnum_cmp, ToUnsigned
<1>2. \A i \in Slots : ~entries[i].filled /\ entries[i].payload \notin Data
  BY PointerAssumption DEF Init, InitialEntries
<1>3. is_empty
  BY DEF Init
<1>4. 1 \in 0 .. BufferLength
  BY Sizes, SMT
<1> QED  BY <1>1, <1>2, <1>3, <1>4
         DEF RingInv, SpanFits, InPlace, FilledOwnsPayload, LastIsBuffered

\* Every call keeps the ring invariant.
LEMMA RingStep == TypeOK /\ RingInv /\ [Next]_bufvars => RingInv'
<1> SUFFICES ASSUME TypeOK, RingInv, [Next]_bufvars PROVE RingInv'
  OBVIOUS
<1>1. ASSUME NEW s \in Seqnum, NEW d \in Data, EnqueueAudio(s, d) PROVE RingInv'
  BY <1>1, EnqueueKeepsRing
<1>2. ASSUME NEW no_resend \in BOOLEAN, raop_buffer_dequeue(no_resend) PROVE RingInv'
  BY <1>2, DequeueKeepsRing
<1>3. ASSUME NEW n \in FlushArgument, raop_buffer_flush(n) PROVE RingInv'
  BY <1>3, FlushKeepsRing
<1>4. CASE UNCHANGED buffer
  BY <1>4 DEF buffer, RingInv, SpanFits, InPlace, FilledOwnsPayload,
              LastIsBuffered, EntryCount, Offset
<1>5. CASE \/ EnqueueInvalid \/ EnqueueIgnored \/ raop_buffer_handle_resends
           \/ raop_buffer_destroy \/ UNCHANGED bufvars
  BY <1>4, <1>5 DEF EnqueueInvalid, EnqueueIgnored, raop_buffer_handle_resends,
                    raop_buffer_destroy, bufvars, buffer
<1> QED  BY <1>1, <1>2, <1>3, <1>5 DEF Next

\* For every ring length and sequence space: in every reachable state the span
\* fits the ring, filled entries sit in their own slots and own their payloads,
\* and an unfinished span ends with a buffered packet.
THEOREM RingCorrect == Spec => []RingInv
<1>1. Init => RingInv
  BY InitRing
<1>2. TypeOK /\ RingInv /\ [Next]_bufvars => RingInv'
  BY RingStep
<1> QED  BY <1>1, <1>2, TypeCorrect, PTL DEF Spec

-----------------------------------------------------------------------------
(* What follows from the ring invariant.                                    *)

\* A dequeue returns a live payload or NULL, never a pointer a flush has freed:
\* only filled entries are handed out, and they own their payload.
THEOREM DequeueIsSafe == Spec => []NeverHandsOutFreed
<1>1. Init => NeverHandsOutFreed
  BY DEF Init, NeverHandsOutFreed, Nothing
<1>2. TypeOK /\ RingInv /\ NeverHandsOutFreed /\ [Next]_bufvars => NeverHandsOutFreed'
  <2> SUFFICES ASSUME TypeOK, RingInv, NeverHandsOutFreed, [Next]_bufvars
               PROVE  NeverHandsOutFreed'
    OBVIOUS
  <2>1. ASSUME NEW no_resend \in BOOLEAN, raop_buffer_dequeue(no_resend)
        PROVE  NeverHandsOutFreed'
    <3>1. Slot(first_seqnum) \in Slots
      BY SlotInRing DEF TypeOK
    <3>2. FirstEntry.filled => FirstEntry.payload # FREED
      BY <3>1, PointerAssumption DEF FirstEntry, RingInv, FilledOwnsPayload
    <3> QED  BY <2>1, <3>2, PointerAssumption
             DEF raop_buffer_dequeue, DequeueReturns, NeverHandsOutFreed
  <2>2. ASSUME NEW s \in Seqnum, NEW d \in Data, EnqueueAudio(s, d)
        PROVE  NeverHandsOutFreed'
    BY <2>2 DEF EnqueueAudio, EnqueueIgnored, Store, EnqueueReturns, NeverHandsOutFreed
  <2>3. CASE raop_buffer_handle_resends
    <3>1. out' = Nothing \/ \E k \in 0 .. EntryCount - 1 : out' = [call |-> "resend", ret |-> k]
      BY <2>3 DEF raop_buffer_handle_resends
    <3> QED  BY <3>1 DEF Nothing, NeverHandsOutFreed
  <2>4. CASE EnqueueInvalid \/ EnqueueIgnored \/ raop_buffer_destroy
    BY <2>4 DEF EnqueueInvalid, EnqueueIgnored, EnqueueReturns, raop_buffer_destroy,
                Nothing, NeverHandsOutFreed
  <2>5. ASSUME NEW n \in FlushArgument, raop_buffer_flush(n) PROVE NeverHandsOutFreed'
    BY <2>5 DEF raop_buffer_flush, Nothing, NeverHandsOutFreed
  <2>6. CASE UNCHANGED bufvars
    BY <2>6 DEF bufvars, NeverHandsOutFreed
  <2> QED  BY <2>1, <2>2, <2>3, <2>4, <2>5, <2>6 DEF Next
<1> QED  BY <1>1, <1>2, TypeCorrect, RingCorrect, PTL DEF Spec

\* No call replaces a waiting packet by another one, except where a packet beyond
\* the window empties the whole ring first: payload blocks are not lost.
THEOREM PacketsAreNotOverwritten == Spec => NeverOverwrites
<1>1. TypeOK /\ RingInv /\ [Next]_bufvars
        => [\A i \in Slots : Overwritten(i) => StartsAfresh(i)]_bufvars
  <2> SUFFICES ASSUME TypeOK, RingInv, [Next]_bufvars, bufvars' # bufvars,
                      NEW i \in Slots, Overwritten(i)
               PROVE  StartsAfresh(i)
    OBVIOUS
  <2> USE DEF Overwritten, StartsAfresh
  <2>0. entries \in [Slots -> Entry]
    BY DEF TypeOK
  <2>1. ASSUME NEW s \in Seqnum, NEW d \in Data, EnqueueAudio(s, d) PROVE StartsAfresh(i)
    <3>1. CASE EnqueueIgnored
      BY <3>1 DEF EnqueueIgnored, buffer
    <3>2. CASE ~Late(s) /\ ~NoSpace(s) /\ ~Resent(s)
               /\ Store(s, d, entries, first_seqnum, last_seqnum)
      <4>1. i = Slot(s)
        BY <3>2, <2>0 DEF Store
      <4>2. ~is_empty
        BY DEF RingInv, SpanFits
      <4>3. ~entries[i].filled
        BY <3>2, <4>1, <4>2, InsideWindow, SlotIsFree
      <4> QED  BY <4>3
    <3>3. CASE Store(s, d, Emptied(entries), s, ToUnsigned(s - 1))
      <4>1. Emptied(entries) \in [Slots -> Entry] /\ ~Emptied(entries)[i].filled
        BY <2>0, EmptiedType, EmptiedHoldsNothing
      <4>2. i = Slot(s) /\ entries'[i].seqnum = s
        BY <3>3, <4>1 DEF Store
      <4>3. seqnum_cmp(s, ToUnsigned(s - 1)) > 0
        BY Sizes, SMT DEF seqnum_cmp, ToUnsigned, Seqnum
      <4> QED  BY <3>3, <4>2, <4>3 DEF Store
    <3> QED  BY <2>1, <3>1, <3>2, <3>3 DEF EnqueueAudio
  <2>2. ASSUME NEW no_resend \in BOOLEAN, raop_buffer_dequeue(no_resend) PROVE StartsAfresh(i)
    BY <2>2, <2>0 DEF raop_buffer_dequeue, FirstVacated
  <2>3. ASSUME NEW n \in FlushArgument, raop_buffer_flush(n) PROVE StartsAfresh(i)
    BY <2>3, EmptiedHoldsNothing DEF raop_buffer_flush
  <2>4. CASE EnqueueInvalid \/ EnqueueIgnored \/ raop_buffer_handle_resends
             \/ raop_buffer_destroy
    BY <2>4 DEF EnqueueInvalid, EnqueueIgnored, raop_buffer_handle_resends,
                raop_buffer_destroy, buffer
  <2> QED  BY <2>1, <2>2, <2>3, <2>4 DEF Next, bufvars
<1> QED  BY <1>1, TypeCorrect, RingCorrect, PTL DEF Spec, NeverOverwrites

\* A resend request names packets that are all missing, fewer than the ring has
\* entries, and the packet after them is there.
THEOREM ResendsAreAccurate == Spec => []ResendsNameTheGap
<1>1. Init => ResendsNameTheGap
  BY DEF Init, ResendsNameTheGap, Nothing
<1>2. TypeOK /\ RingInv /\ ResendsNameTheGap /\ [Next]_bufvars => ResendsNameTheGap'
  <2> SUFFICES ASSUME TypeOK, RingInv, ResendsNameTheGap, [Next]_bufvars
               PROVE  ResendsNameTheGap'
    OBVIOUS
  <2>1. CASE raop_buffer_handle_resends
    <3> SUFFICES ASSUME NEW n \in 0 .. EntryCount - 1, EntryCount > 1, ScanStopsAfter(n),
                        out' = [call |-> "resend", ret |-> n], n # 0, ~is_empty
                 PROVE  ResendsNameTheGap'
      BY <2>1 DEF raop_buffer_handle_resends, ResendsNameTheGap, Nothing, buffer
    <3>1. EntryCount \in 1 .. BufferLength
      BY Sizes, SMT DEF RingInv, SpanFits
    <3>2. n \in 1 .. BufferLength - 1
      BY <3>1, Sizes, SMT
    <3>3. entries[Slot(ToUnsigned(first_seqnum + n))].filled
      <4>1. CASE n = EntryCount - 1
        <5>1. ToUnsigned(first_seqnum + n) = last_seqnum
          BY <4>1, <3>1, Sizes, SMT
             DEF EntryCount, seqnum_cmp, ToUnsigned, Seqnum, TypeOK
        <5>2. EntryCount > 0
          BY <3>1, SMT
        <5> QED  BY <5>1, <5>2 DEF RingInv, LastIsBuffered
      <4> QED  BY <4>1 DEF ScanStopsAfter
    <3>4. UNCHANGED buffer
      BY <2>1 DEF raop_buffer_handle_resends
    <3> QED  BY <3>2, <3>3, <3>4
             DEF ScanStopsAfter, ResendsNameTheGap, MissingUpTo, buffer
  <2>2. ASSUME NEW s \in Seqnum, NEW d \in Data, EnqueueAudio(s, d)
        PROVE  ResendsNameTheGap'
    BY <2>2 DEF EnqueueAudio, EnqueueIgnored, Store, EnqueueReturns, ResendsNameTheGap
  <2>3. ASSUME NEW no_resend \in BOOLEAN, raop_buffer_dequeue(no_resend)
        PROVE  ResendsNameTheGap'
    BY <2>3 DEF raop_buffer_dequeue, DequeueReturns, ResendsNameTheGap
  <2>4. ASSUME NEW n \in FlushArgument, raop_buffer_flush(n) PROVE ResendsNameTheGap'
    BY <2>4 DEF raop_buffer_flush, Nothing, ResendsNameTheGap
  <2>5. CASE EnqueueInvalid \/ EnqueueIgnored \/ raop_buffer_destroy
    BY <2>5 DEF EnqueueInvalid, EnqueueIgnored, EnqueueReturns, raop_buffer_destroy,
                Nothing, ResendsNameTheGap
  <2>6. CASE UNCHANGED bufvars
    BY <2>6 DEF bufvars, ResendsNameTheGap, MissingUpTo
  <2> QED  BY <2>1, <2>2, <2>3, <2>4, <2>5, <2>6 DEF Next
<1> QED  BY <1>1, <1>2, TypeCorrect, RingCorrect, PTL DEF Spec

-----------------------------------------------------------------------------
(* The window counts distances with a remainder, the code with wrap-around. *)

\* A number between m and 2m has remainder itself minus m.
LEMMA Remainder ==
  ASSUME NEW m \in Nat \ {0}, NEW x \in Nat, x < 2 * m
  PROVE  x % m = IF x < m THEN x ELSE x - m
<1> DEFINE q == x \div m
<1>1. /\ q \in Int /\ x = m * q + (x % m) /\ x % m \in 0 .. m - 1
  BY SMT
<1> HIDE DEF q
<1>2. CASE x < m
  <2>1. 0 <= m * q + (x % m)  BY <1>1, SMT
  <2>2. CASE q >= 1
    <3>1. m * q = m + m * (q - 1)  BY <1>1, SMT
    <3>2. m * (q - 1) >= 0  BY <1>1, <2>2, SMT
    <3> QED  BY <3>1, <3>2, <1>1, <1>2, SMT
  <2>3. CASE q <= -1
    <3>1. m * q = m * (q + 1) - m  BY <1>1, SMT
    <3>2. m * (q + 1) <= 0  BY <1>1, <2>3, SMT
    <3> QED  BY <3>1, <3>2, <1>1, <1>2, SMT
  <2> QED  BY <1>1, <1>2, <2>2, <2>3, SMT
<1>3. CASE x >= m
  <2>1. m * (q - 1) = m * q - m  BY <1>1, SMT
  <2>2. x - m = m * (q - 1) + (x % m)  BY <1>1, <2>1, SMT
  <2>3. CASE q - 1 >= 1
    <3>1. m * (q - 1) = m + m * (q - 2)  BY <1>1, SMT
    <3>2. m * (q - 2) >= 0  BY <1>1, <2>3, SMT
    <3> QED  BY <3>1, <3>2, <2>2, <1>1, SMT
  <2>4. CASE q - 1 <= -1
    <3>1. m * q <= 0  BY <1>1, <2>4, SMT
    <3> QED  BY <3>1, <1>1, <1>3, SMT
  <2>5. CASE q - 1 = 0
    BY <2>2, <2>5, <1>1, <1>3, SMT
  <2> QED  BY <1>1, <2>3, <2>4, <2>5, SMT
<1> QED  BY <1>2, <1>3, SMT

LEMMA AheadIsOffset ==
  ASSUME NEW a \in Seqnum, NEW b \in Seqnum
  PROVE  Window!Ahead(a, b) = ToUnsigned(b - a)
<1> DEFINE x == Modulus + b - a
<1>1. Modulus \in Nat \ {0} /\ x \in Nat /\ x < 2 * Modulus
  BY Sizes, SMT DEF Seqnum
<1> HIDE DEF x
<1>2. x % Modulus = IF x < Modulus THEN x ELSE x - Modulus
  BY <1>1, Remainder
<1>3. Window!Ahead(a, b) = x % Modulus
  BY DEF Window!Ahead, x
<1>4. (IF x < Modulus THEN x ELSE x - Modulus) = ToUnsigned(b - a)
  BY Sizes, SMT DEF x, ToUnsigned, Seqnum
<1> QED  BY <1>2, <1>3, <1>4

LEMMA SuccIsIncrement ==
  ASSUME NEW a \in Seqnum
  PROVE  Window!Succ(a) = ToUnsigned(a + 1)
<1> DEFINE x == a + 1
<1>1. Modulus \in Nat \ {0} /\ x \in Nat /\ x < 2 * Modulus
  BY Sizes, SMT DEF Seqnum
<1> HIDE DEF x
<1>2. x % Modulus = IF x < Modulus THEN x ELSE x - Modulus
  BY <1>1, Remainder
<1>3. Window!Succ(a) = x % Modulus
  BY DEF Window!Succ, x
<1>4. (IF x < Modulus THEN x ELSE x - Modulus) = ToUnsigned(a + 1)
  BY Sizes, SMT DEF x, ToUnsigned, Seqnum
<1> QED  BY <1>2, <1>3, <1>4

-----------------------------------------------------------------------------
(* What the ring holds, seen from the window.                               *)

\* A ring without filled entries is an empty window.
LEMMA NothingHeld ==
  ASSUME \A i \in Slots : ~entries[i].filled
  PROVE  Held = Window!Nothing
BY DEF Held, HeldSeqnums, Window!Nothing

\* A sequence number is held exactly when its own slot is filled with it.
LEMMA HeldInSlot ==
  ASSUME TypeOK, RingInv, NEW s \in Seqnum
  PROVE  s \in HeldSeqnums <=> /\ entries[Slot(s)].filled
                               /\ entries[Slot(s)].seqnum = s
BY SlotInRing DEF HeldSeqnums, RingInv, InPlace

LEMMA HeldIsSeqnum ==
  ASSUME TypeOK
  PROVE  HeldSeqnums \subseteq Seqnum
BY DEF HeldSeqnums, TypeOK, Entry

-----------------------------------------------------------------------------
(* The steps.                                                               *)

\* A packet stored into a ring that held nothing is all the window holds.
LEMMA HeldAlone ==
  ASSUME NEW s \in Seqnum, NEW d \in Data, NEW e \in [Slots -> Entry],
         \A i \in Slots : ~e[i].filled,
         entries' = [e EXCEPT ![Slot(s)] =
                       [filled |-> TRUE, seqnum |-> s, payload |-> d]]
  PROVE  Held' = [t \in {s} |-> d]
<1>1. /\ entries'[Slot(s)] = [filled |-> TRUE, seqnum |-> s, payload |-> d]
      /\ \A i \in Slots : i # Slot(s) => ~entries'[i].filled
      /\ Slot(s) \in Slots
  BY SlotInRing
<1>2. HeldSeqnums' = {s}
  BY <1>1 DEF HeldSeqnums
<1> QED  BY <1>1, <1>2 DEF Held

\* A packet stored inside the window joins those that are held.
LEMMA HeldGrows ==
  ASSUME TypeOK, RingInv, NEW s \in Seqnum, NEW d \in Data, ~entries[Slot(s)].filled,
         entries' = [entries EXCEPT ![Slot(s)] =
                       [filled |-> TRUE, seqnum |-> s, payload |-> d]]
  PROVE  /\ s \notin HeldSeqnums
         /\ Held' = [t \in HeldSeqnums \cup {s} |-> IF t = s THEN d ELSE Held[t]]
<1>1. s \notin HeldSeqnums
  BY HeldInSlot
<1>2. /\ entries'[Slot(s)] = [filled |-> TRUE, seqnum |-> s, payload |-> d]
      /\ \A i \in Slots : i # Slot(s) => entries'[i] = entries[i]
      /\ Slot(s) \in Slots
  BY SlotInRing DEF TypeOK
<1>3. HeldSeqnums' = HeldSeqnums \cup {s}
  BY <1>2 DEF HeldSeqnums
<1>4. \A t \in HeldSeqnums : Slot(t) # Slot(s) /\ Slot(t) \in Slots
  BY HeldInSlot, HeldIsSeqnum, SlotInRing
<1>5. \A t \in HeldSeqnums \cup {s} :
        entries'[Slot(t)].payload = IF t = s THEN d ELSE Held[t]
  BY <1>1, <1>2, <1>4 DEF Held
<1>6. Held' = [t \in HeldSeqnums' |-> entries'[Slot(t)].payload]
  BY DEF Held
<1> QED  BY <1>1, <1>3, <1>5, <1>6

\* The packet at the position leaves the window.
LEMMA HeldShrinks ==
  ASSUME TypeOK, RingInv, EntryCount > 0, FirstEntry.filled, entries' = FirstVacated
  PROVE  /\ first_seqnum \in HeldSeqnums
         /\ Held' = [t \in HeldSeqnums \ {first_seqnum} |-> Held[t]]
<1> DEFINE here == Slot(first_seqnum)
<1>1. first_seqnum \in Seqnum /\ here \in Slots /\ entries \in [Slots -> Entry]
  BY SlotInRing DEF TypeOK
<1> DEFINE t0 == entries[here].seqnum
<1>2. t0 = first_seqnum
  <2>1. t0 \in Seqnum /\ Slot(t0) = here /\ Offset(t0) < EntryCount
    BY <1>1 DEF FirstEntry, RingInv, InPlace, Entry
  <2>2. EntryCount \in 0 .. BufferLength
    BY DEF RingInv, SpanFits
  <2>3. ToUnsigned(t0 - first_seqnum) \in Int
    BY <2>1, <1>1, CmpByDistance
  <2>4. ToUnsigned(t0 - first_seqnum) < BufferLength
    BY <2>1, <2>2, <2>3, Sizes, SMT DEF Offset
  <2>5. ToUnsigned(first_seqnum - first_seqnum) < BufferLength
    BY <1>1, Sizes, SMT DEF ToUnsigned, Seqnum
  <2> QED  BY <2>1, <2>4, <2>5, <1>1, SlotIdentifies
<1>3. first_seqnum \in HeldSeqnums
  BY <1>1, <1>2, HeldInSlot DEF FirstEntry
<1>4. /\ ~entries'[here].filled
      /\ \A i \in Slots : i # here => entries'[i] = entries[i]
  BY <1>1 DEF FirstVacated
<1>5. \A i \in Slots : entries[i].filled /\ entries[i].seqnum = first_seqnum => i = here
  BY DEF RingInv, InPlace
<1>6. HeldSeqnums' = HeldSeqnums \ {first_seqnum}
  BY <1>2, <1>4, <1>5 DEF HeldSeqnums
<1>7. \A t \in HeldSeqnums \ {first_seqnum} : Slot(t) # here /\ Slot(t) \in Slots
  BY <1>2, HeldInSlot, HeldIsSeqnum, SlotInRing
<1>8. \A t \in HeldSeqnums \ {first_seqnum} : entries'[Slot(t)].payload = Held[t]
  BY <1>4, <1>7 DEF Held
<1>9. Held' = [t \in HeldSeqnums' |-> entries'[Slot(t)].payload]
  BY DEF Held
<1> QED  BY <1>3, <1>6, <1>8, <1>9

\* The two tests of raop_buffer_enqueue, as distances ahead of the position.
LEMMA BeyondWindow ==
  ASSUME TypeOK, NEW s \in Seqnum, ~is_empty, ~Late(s), NoSpace(s)
  PROVE  /\ ToUnsigned(s - first_seqnum) >= BufferLength
         /\ 2 * ToUnsigned(s - first_seqnum) < Modulus
<1>1. first_seqnum \in Seqnum
  BY DEF TypeOK
<1>2. seqnum_cmp(s, first_seqnum) >= 0
  BY <1>1, Sizes, SMT DEF Late, seqnum_cmp, ToUnsigned, Seqnum
<1>3. seqnum_cmp(s, ToUnsigned(first_seqnum + BufferLength)) >= 0
  BY DEF NoSpace
<1> QED
  BY <1>1, <1>2, <1>3, Sizes, SMT DEF seqnum_cmp, ToUnsigned, Seqnum

LEMMA EnqueueRefines ==
  ASSUME TypeOK, RingInv, NEW s \in Seqnum, NEW d \in Data, EnqueueAudio(s, d)
  PROVE  \/ Window!AcceptFirst(s, d)
         \/ Window!AcceptInside(s, d)
         \/ Window!AcceptJump(s, d)
         \/ UNCHANGED Window!window
<1> DEFINE new == [filled |-> TRUE, seqnum |-> s, payload |-> d]
<1>0. first_seqnum \in Seqnum /\ last_seqnum \in Seqnum /\ entries \in [Slots -> Entry]
  BY DEF TypeOK
<1>1. CASE EnqueueIgnored
  BY <1>1 DEF EnqueueIgnored, buffer, Window!window, Held, HeldSeqnums
<1>2. CASE ~Late(s) /\ ~NoSpace(s) /\ ~Resent(s)
           /\ Store(s, d, entries, first_seqnum, last_seqnum)
  <2>1. CASE is_empty
    <3>1. Held' = [t \in {s} |-> d]
      BY <1>2, <2>1, <1>0, HeldAlone DEF Store, RingInv, SpanFits
    <3> QED  BY <3>1, <2>1, <1>2 DEF Store, Window!AcceptFirst
  <2>2. CASE ~is_empty
    <3>1. Offset(s) < BufferLength /\ ~entries[Slot(s)].filled
      BY <1>2, <2>2, InsideWindow, SlotIsFree
    <3>2. /\ s \notin HeldSeqnums
          /\ Held' = [t \in HeldSeqnums \cup {s} |-> IF t = s THEN d ELSE Held[t]]
      BY <3>1, <1>2, HeldGrows DEF Store
    <3>3. Window!Ahead(first_seqnum, s) < BufferLength
      BY <3>1, <1>0, AheadIsOffset DEF Offset
    <3>4. DOMAIN Held = HeldSeqnums
      BY DEF Held
    <3>5. ~is_empty' /\ first_seqnum' = first_seqnum
      BY <1>2, <2>2 DEF Store
    <3> QED  BY <3>2, <3>3, <3>4, <3>5, <2>2 DEF Window!AcceptInside
  <2> QED  BY <2>1, <2>2
<1>3. CASE ~Late(s) /\ NoSpace(s) /\ Store(s, d, Emptied(entries), s, ToUnsigned(s - 1))
  <2>1. Emptied(entries) \in [Slots -> Entry]
    BY <1>0, EmptiedType
  <2>2. Held' = [t \in {s} |-> d]
    BY <1>3, <2>1, EmptiedHoldsNothing, HeldAlone DEF Store
  <2>3. ~is_empty' /\ first_seqnum' = s
    BY <1>3 DEF Store
  <2>4. CASE is_empty
    BY <2>2, <2>3, <2>4 DEF Window!AcceptFirst
  <2>5. CASE ~is_empty
    <3>1. /\ Window!Ahead(first_seqnum, s) >= BufferLength
          /\ 2 * Window!Ahead(first_seqnum, s) < Modulus
      BY <1>0, <1>3, <2>5, BeyondWindow, AheadIsOffset
    <3> QED  BY <2>2, <2>3, <2>5, <3>1 DEF Window!AcceptJump
  <2> QED  BY <2>4, <2>5
<1> QED  BY <1>1, <1>2, <1>3 DEF EnqueueAudio

LEMMA DequeueRefines ==
  ASSUME TypeOK, RingInv, NEW no_resend \in BOOLEAN, raop_buffer_dequeue(no_resend)
  PROVE  Window!Release \/ Window!Skip \/ UNCHANGED Window!window
<1>0. first_seqnum \in Seqnum /\ last_seqnum \in Seqnum
  BY DEF TypeOK
<1>1. CASE UNCHANGED buffer
  BY <1>1 DEF buffer, Window!window, Held, HeldSeqnums
<1>2. CASE /\ ~NothingToDequeue(no_resend)
           /\ first_seqnum' = ToUnsigned(first_seqnum + 1)
           /\ is_empty' = is_empty
           /\ \/ ~FirstEntry.filled /\ entries' = entries
              \/ FirstEntry.filled /\ entries' = FirstVacated
  <2>1. ~is_empty /\ EntryCount > 0
    BY <1>2, Sizes, SMT DEF NothingToDequeue, RingInv, SpanFits
  <2>2. first_seqnum' = Window!Succ(first_seqnum)
    BY <1>0, <1>2, SuccIsIncrement
  <2>3. DOMAIN Held = HeldSeqnums
    BY DEF Held
  <2>4. CASE FirstEntry.filled /\ entries' = FirstVacated
    <3>1. /\ first_seqnum \in HeldSeqnums
          /\ Held' = [t \in HeldSeqnums \ {first_seqnum} |-> Held[t]]
      BY <2>1, <2>4, HeldShrinks
    <3> QED  BY <2>1, <2>2, <2>3, <3>1, <1>2 DEF Window!Release, Window!Restrict
  <2>5. CASE ~FirstEntry.filled /\ entries' = entries
    <3>1. first_seqnum \notin HeldSeqnums
      BY <2>5, <1>0, HeldInSlot DEF FirstEntry
    <3>2. last_seqnum \in HeldSeqnums
      BY <2>1, <1>0, HeldInSlot DEF RingInv, LastIsBuffered
    <3>3. Held # Window!Nothing
      <4>1. DOMAIN Window!Nothing = {}
        BY DEF Window!Nothing
      <4> QED  BY <3>2, <2>3, <4>1
    <3>4. UNCHANGED Held
      BY <2>5 DEF Held, HeldSeqnums
    <3> QED  BY <2>1, <2>2, <2>3, <3>1, <3>3, <3>4, <1>2 DEF Window!Skip
  <2> QED  BY <1>2, <2>4, <2>5
<1> QED  BY <1>1, <1>2 DEF raop_buffer_dequeue, buffer

LEMMA FlushRefines ==
  ASSUME TypeOK, RingInv, NEW n \in FlushArgument, raop_buffer_flush(n)
  PROVE  Window!Reset \/ \E s \in Window!Points : Window!Reposition(s)
<1>1. Held' = Window!Nothing
  <2>1. \A i \in Slots : ~entries'[i].filled
    BY EmptiedHoldsNothing DEF raop_buffer_flush
  <2>2. HeldSeqnums' = {}
    BY <2>1 DEF HeldSeqnums
  <2> QED  BY <2>2 DEF Held, Window!Nothing
<1>2. CASE n \in Seqnum
  BY <1>1, <1>2 DEF raop_buffer_flush, Window!Reposition, Window!Points, Seqnum
<1>3. CASE n \notin Seqnum
  BY <1>1, <1>3 DEF raop_buffer_flush, Window!Reset
<1> QED  BY <1>2, <1>3

\* The ring implements the playout window: in order, at most once, nothing from
\* behind the position, and a fresh start after every flush or jump.
THEOREM RingImplementsWindow == Spec => ImplementsWindow
<1>1. Init => Window!Init
  <2> SUFFICES ASSUME Init PROVE Window!Init
    OBVIOUS
  <2>1. Held = Window!Nothing
    BY NothingHeld DEF Init, InitialEntries
  <2>2. first_seqnum \in Window!Points
    BY Sizes, SMT DEF Init, Window!Points
  <2> QED  BY <2>1, <2>2 DEF Init, Window!Init
<1>2. TypeOK /\ RingInv /\ [Next]_bufvars => [Window!Next]_(Window!window)
  <2> SUFFICES ASSUME TypeOK, RingInv, [Next]_bufvars
               PROVE  Window!Next \/ UNCHANGED Window!window
    OBVIOUS
  <2>1. ASSUME NEW s \in Seqnum, NEW d \in Data, EnqueueAudio(s, d)
        PROVE  Window!Next \/ UNCHANGED Window!window
    <3>1. s \in Window!Points
      BY DEF Window!Points, Seqnum
    <3> QED  BY <2>1, <3>1, EnqueueRefines DEF Window!Next
  <2>2. ASSUME NEW no_resend \in BOOLEAN, raop_buffer_dequeue(no_resend)
        PROVE  Window!Next \/ UNCHANGED Window!window
    BY <2>2, DequeueRefines DEF Window!Next
  <2>3. ASSUME NEW n \in FlushArgument, raop_buffer_flush(n)
        PROVE  Window!Next \/ UNCHANGED Window!window
    BY <2>3, FlushRefines DEF Window!Next
  <2>4. CASE UNCHANGED buffer
    BY <2>4 DEF buffer, Window!window, Held, HeldSeqnums
  <2>5. CASE \/ EnqueueInvalid \/ EnqueueIgnored \/ raop_buffer_handle_resends
             \/ raop_buffer_destroy \/ UNCHANGED bufvars
    BY <2>4, <2>5 DEF EnqueueInvalid, EnqueueIgnored, raop_buffer_handle_resends,
                      raop_buffer_destroy, bufvars, buffer
  <2> QED  BY <2>1, <2>2, <2>3, <2>5 DEF Next
<1> QED  BY <1>1, <1>2, TypeCorrect, RingCorrect, PTL DEF Spec, ImplementsWindow, Window!Spec
=============================================================================
