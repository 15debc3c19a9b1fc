----------------------------- MODULE RaopBuffer -----------------------------
(* The audio jitter buffer, lib/raop_buffer.c: a ring of BufferLength       *)
(* entries indexed by the sequence number modulo BufferLength, the first    *)
(* and last sequence number it spans, and for every entry the pointer to    *)
(* its decrypted payload.  Sequence numbers are unsigned 16-bit integers    *)
(* compared by the sign of their 16-bit difference.                         *)
(*                                                                          *)
(* A payload pointer is NULL, points to a live block holding one of Data,   *)
(* or is FREED: it still holds the address of a block given back to the     *)
(* allocator.  Freeing through a FREED pointer is undefined behaviour; the  *)
(* allocator may end the process there or carry on.                         *)
EXTENDS Integers, FiniteSets

CONSTANTS BufferLength,  \* RAOP_BUFFER_LENGTH, 32 in the code
          Laps,          \* times the ring fits in half the sequence numbers: 1024
                         \* (with one lap only, a packet at the end of the window
                         \* would compare as older than an empty window's last)
          Data,          \* decrypted payloads
          NULL, FREED    \* the two kinds of pointer that hold no payload

ASSUME SizeAssumption == /\ BufferLength \in Nat \ {0}
                         /\ Laps \in Nat \ {0, 1}

ASSUME PointerAssumption == /\ NULL \notin Data
                            /\ FREED \notin Data
                            /\ NULL # FREED

Half    == BufferLength * Laps       \* 2^15 in the code
Modulus == 2 * Half                  \* 2^16
Seqnum  == 0 .. Modulus - 1          \* unsigned short

NoFlush == -42                       \* NO_FLUSH, raop_rtp.c

VARIABLES is_empty, first_seqnum, last_seqnum,
          entries,       \* slot -> [filled, seqnum, payload]
          status,        \* "live", "destroyed", or "aborted" by the allocator
          out            \* what the last call returned or called back

seqnums == <<is_empty, first_seqnum, last_seqnum>>
buffer  == <<is_empty, first_seqnum, last_seqnum, entries>>
bufvars == <<is_empty, first_seqnum, last_seqnum, entries, status, out>>

Pointer == Data \cup {NULL, FREED}
Entry   == [filled : BOOLEAN, seqnum : Seqnum, payload : Pointer]
Slots   == 0 .. BufferLength - 1

-----------------------------------------------------------------------------
(* Unsigned short arithmetic.                                               *)

\* Mutant: a negative value stays as it is, as in an int.
ToUnsignedAboveOnly(x) == IF x >= Modulus THEN x - Modulus ELSE x

\* Conversion to unsigned short of an int less than one turn outside it.
ToUnsigned(x) == IF x < 0 THEN x + Modulus
                 ELSE IF x >= Modulus THEN x - Modulus
                 ELSE x

\* The signed short difference of two sequence numbers.
seqnum_cmp(s1, s2) == LET d == ToUnsigned(s1 - s2)
                      IN  IF d < Half THEN d ELSE d - Modulus

Slot(s) == s % BufferLength

EntryCount == seqnum_cmp(last_seqnum, first_seqnum) + 1

\* Sequence numbers at which a scan from the first one finds nothing buffered
\* before seq: the loop of raop_buffer_handle_resends has got past them.
MissingUpTo(n) == \A k \in 0 .. n - 1 :
                     ~entries[Slot(ToUnsigned(first_seqnum + k))].filled
-----------------------------------------------------------------------------
(* raop_buffer_init: the structure is zeroed, so no entry is filled.        *)
InitialEntries == [i \in Slots |-> [filled |-> FALSE, seqnum |-> 0, payload |-> NULL]]

Nothing == [call |-> "none", ret |-> 0]

Init == /\ is_empty = TRUE
        /\ first_seqnum = 0
        /\ last_seqnum = 0
        /\ entries = InitialEntries
        /\ status = "live"
        /\ out = Nothing

-----------------------------------------------------------------------------
\* Mutant: the entries are not marked unfilled.
EmptiedKeepingFilled(e) == [i \in Slots |->
                              [e[i] EXCEPT !.payload = IF @ = NULL THEN NULL ELSE FREED]]

(* Freeing the payloads leaves the pointers in place.                       *)
Emptied(e) == [i \in Slots |->
                 [filled  |-> FALSE,
                  seqnum  |-> e[i].seqnum,
                  payload |-> IF e[i].payload = NULL THEN NULL ELSE FREED]]

FreesTwice == \E i \in Slots : entries[i].payload = FREED

AfterFrees(s) == IF FreesTwice THEN {s, "aborted"} ELSE {s}

(* raop_buffer_flush: with a position in range the window restarts there,   *)
(* and is_empty is left alone; with any other argument is_empty is set and  *)
(* the positions are left alone.                                            *)
raop_buffer_flush(next_seq) ==
  /\ status = "live"
  /\ entries' = Emptied(entries)
  /\ IF next_seq \in Seqnum
     THEN /\ first_seqnum' = next_seq
          /\ last_seqnum' = ToUnsigned(next_seq - 1)
          /\ UNCHANGED is_empty
     ELSE /\ is_empty' = TRUE
          /\ UNCHANGED <<first_seqnum, last_seqnum>>
  /\ status' \in AfterFrees("live")
  /\ out' = Nothing

-----------------------------------------------------------------------------
(* raop_buffer_enqueue.                                                     *)
\* Mutants: the guard against old packets or against packets beyond the ring is
\* missing, or the latter is off by one.
NeverLate(s) == FALSE
NeverNoSpace(s) == FALSE
NoSpaceByOne(s) == seqnum_cmp(s, ToUnsigned(first_seqnum + BufferLength)) > 0

Late(s) == ~is_empty /\ seqnum_cmp(s, first_seqnum) < 0

NoSpace(s) == seqnum_cmp(s, ToUnsigned(first_seqnum + BufferLength)) >= 0

Resent(s) == /\ entries[Slot(s)].filled
             /\ seqnum_cmp(entries[Slot(s)].seqnum, s) = 0

EnqueueReturns(r) == out' = [call |-> "enqueue", ret |-> r]

\* Store into the entries e of a buffer that spans f up to l.
Store(s, d, e, f, l) ==
  /\ entries' = [e EXCEPT ![Slot(s)] = [filled |-> TRUE, seqnum |-> s, payload |-> d]]
  /\ is_empty' = FALSE
  /\ first_seqnum' = IF is_empty THEN s ELSE f
  /\ last_seqnum' = IF is_empty \/ seqnum_cmp(s, l) > 0 THEN s ELSE l
  /\ EnqueueReturns(1)

\* A datagram shorter than an RTP header or longer than RAOP_PACKET_LEN.
EnqueueInvalid == /\ status = "live"
                  /\ EnqueueReturns(-1)
                  /\ UNCHANGED <<buffer, status>>

\* The 16-byte marker that stands for "no audio", and packets not to be kept.
EnqueueIgnored == /\ status = "live"
                  /\ EnqueueReturns(0)
                  /\ UNCHANGED <<buffer, status>>

\* An audio packet with sequence number s.
EnqueueAudio(s, d) ==
  \/ /\ Late(s) \/ (~NoSpace(s) /\ Resent(s))
     /\ EnqueueIgnored
  \/ /\ status = "live"
     /\ ~Late(s) /\ ~NoSpace(s) /\ ~Resent(s)
     /\ Store(s, d, entries, first_seqnum, last_seqnum)
     /\ UNCHANGED status
  \/ /\ status = "live"
     /\ ~Late(s) /\ NoSpace(s)
     /\ Store(s, d, Emptied(entries), s, ToUnsigned(s - 1))
     /\ status' \in AfterFrees("live")

-----------------------------------------------------------------------------
(* raop_buffer_dequeue.                                                     *)
DequeueReturns(p) == out' = [call |-> "dequeue", ret |-> p]

FirstEntry == entries[Slot(first_seqnum)]

\* Mutant: the entry handed out is not marked unfilled.
FirstKept == [entries EXCEPT ![Slot(first_seqnum)] =
                [filled |-> TRUE, seqnum |-> @.seqnum, payload |-> NULL]]

FirstVacated == [entries EXCEPT ![Slot(first_seqnum)] =
                   [filled |-> FALSE, seqnum |-> @.seqnum, payload |-> NULL]]

NothingToDequeue(no_resend) ==
  \/ is_empty
  \/ EntryCount <= 0
  \/ ~no_resend /\ ~FirstEntry.filled /\ EntryCount < BufferLength

raop_buffer_dequeue(no_resend) ==
  /\ status = "live"
  /\ \/ /\ NothingToDequeue(no_resend)
        /\ DequeueReturns(NULL)
        /\ UNCHANGED <<first_seqnum, entries>>
     \/ /\ ~NothingToDequeue(no_resend)
        /\ first_seqnum' = ToUnsigned(first_seqnum + 1)
        /\ \/ /\ ~FirstEntry.filled
              /\ DequeueReturns(NULL)
              /\ UNCHANGED entries
           \/ /\ FirstEntry.filled
              /\ DequeueReturns(FirstEntry.payload)
              /\ entries' = FirstVacated
  /\ UNCHANGED <<is_empty, last_seqnum, status>>

-----------------------------------------------------------------------------
(* raop_buffer_handle_resends: ask for the n packets missing at the front.  *)
\* Mutants: the scan does not stop at a packet that is there, or stops one short.
ScanRunsThrough(n) == n = EntryCount - 1
ScanStopsShort(n) ==
  /\ MissingUpTo(n + 1)
  /\ \/ entries[Slot(ToUnsigned(first_seqnum + n + 1))].filled
     \/ n = EntryCount - 2

ScanStopsAfter(n) ==
  /\ MissingUpTo(n)
  /\ \/ entries[Slot(ToUnsigned(first_seqnum + n))].filled
     \/ n = EntryCount - 1

raop_buffer_handle_resends ==
  /\ status = "live"
  /\ IF EntryCount > 1
     THEN \E n \in 0 .. EntryCount - 1 :
             /\ ScanStopsAfter(n)
             /\ out' = IF n = 0 THEN Nothing
                       ELSE [call |-> "resend", ret |-> n]
     ELSE out' = Nothing
  /\ UNCHANGED <<buffer, status>>

-----------------------------------------------------------------------------
(* raop_buffer_destroy frees every payload pointer that is not NULL.        *)
raop_buffer_destroy ==
  /\ status = "live"
  /\ status' \in AfterFrees("destroyed")
  /\ out' = Nothing
  /\ UNCHANGED buffer

-----------------------------------------------------------------------------
\* Arguments of a flush: none pending, "no sequence number", or a position.
FlushArgument == {NoFlush, -1} \cup Seqnum

Next == \/ \E s \in Seqnum, d \in Data : EnqueueAudio(s, d)
        \/ EnqueueInvalid
        \/ EnqueueIgnored
        \/ \E no_resend \in BOOLEAN : raop_buffer_dequeue(no_resend)
        \/ raop_buffer_handle_resends
        \/ \E n \in FlushArgument : raop_buffer_flush(n)
        \/ raop_buffer_destroy

Spec == Init /\ [][Next]_bufvars
-----------------------------------------------------------------------------
(* Properties.                                                              *)

\* Every variable has its type; the type of out is that of the three calls.
TypeOK ==
  /\ is_empty \in BOOLEAN
  /\ first_seqnum \in Seqnum
  /\ last_seqnum \in Seqnum
  /\ entries \in [Slots -> Entry]
  /\ status \in {"live", "destroyed", "aborted"}

\* How far sequence number s is ahead of the first one, around the circle.
Offset(s) == ToUnsigned(s - first_seqnum)

\* The ring spans at most its own length, so that no two sequence numbers in
\* the span share a slot; a buffer marked empty after a flush holds nothing.
SpanFits == /\ EntryCount \in 0 .. BufferLength
            /\ is_empty => \A i \in Slots : ~entries[i].filled

\* A filled entry sits in the slot of its sequence number and inside the span.
InPlace == \A i \in Slots :
             entries[i].filled => /\ Slot(entries[i].seqnum) = i
                                  /\ Offset(entries[i].seqnum) < EntryCount

\* Exactly the filled entries own a live payload: nothing is lost by marking an
\* entry free, and nothing is handed out that was freed by an earlier flush.
FilledOwnsPayload == \A i \in Slots : entries[i].filled <=> entries[i].payload \in Data

\* A span that is not used up ends with a packet that is really there, so that a
\* gap at the front is always followed by something worth waiting or skipping for.
LastIsBuffered == ~is_empty /\ EntryCount > 0
                    => /\ entries[Slot(last_seqnum)].filled
                       /\ entries[Slot(last_seqnum)].seqnum = last_seqnum

\* The inductive invariant of the ring.
RingInv == SpanFits /\ InPlace /\ FilledOwnsPayload /\ LastIsBuffered

\* raop_buffer_dequeue hands out a live payload or NULL, never a pointer that a
\* flush has freed and left in the entry.
NeverHandsOutFreed == out.call = "dequeue" => out.ret # FREED

\* A resend request names packets that are all missing, fewer than the ring
\* holds, and the packet right after them has arrived.
ResendsNameTheGap ==
  out.call = "resend" /\ ~is_empty =>
     /\ out.ret \in 1 .. BufferLength - 1
     /\ MissingUpTo(out.ret)
     /\ entries[Slot(ToUnsigned(first_seqnum + out.ret))].filled

\* The call puts another packet where one is waiting ...
Overwritten(i) == /\ entries[i].filled /\ entries'[i].filled
                  /\ entries'[i] # entries[i]

\* ... which only a call that first empties the whole ring may do.
StartsAfresh(i) == first_seqnum' = entries'[i].seqnum /\ last_seqnum' = entries'[i].seqnum

\* No call replaces a packet that is waiting in the ring by another one: its
\* payload block would be lost, since malloc's result overwrites the pointer.
NeverOverwrites == [][\A i \in Slots : Overwritten(i) => StartsAfresh(i)]_bufvars

\* The ring is a playout window: hidden behind slots, wrap-around and stale
\* pointers, every call is one of the window's steps or changes nothing there.
HeldSeqnums == {entries[i].seqnum : i \in {j \in Slots : entries[j].filled}}

Held == [s \in HeldSeqnums |-> entries[Slot(s)].payload]

Window == INSTANCE PlayoutWindow WITH
            started <- ~is_empty,
            next    <- first_seqnum,
            held    <- Held

ImplementsWindow == Window!Spec
=============================================================================
