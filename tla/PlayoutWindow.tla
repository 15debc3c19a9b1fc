--------------------------- MODULE PlayoutWindow ---------------------------
(* What the audio jitter buffer of lib/raop_buffer.c promises to the RTP    *)
(* thread, without slots, pointers or a last sequence number: a playout     *)
(* position that only moves forward until the buffer is restarted, and the  *)
(* packets held for it, at most BufferLength sequence numbers ahead.        *)
(* Sequence numbers live on a circle of Modulus points; how far a packet is *)
(* ahead of the playout position decides what becomes of it.                *)
EXTENDS Naturals, Functions

CONSTANTS BufferLength,  \* packets the window spans
          Modulus,       \* points of the sequence-number circle
          Data           \* audio payloads

VARIABLES started,       \* whether the playout position has been fixed
          next,          \* the playout position
          held           \* the packets held: sequence number -> payload

window == <<started, next, held>>

Points == 0 .. Modulus - 1

\* How many steps forward on the circle lead from a to b.
Ahead(a, b) == (Modulus + b - a) % Modulus

Succ(a) == (a + 1) % Modulus

Nothing == [s \in {} |-> s]

Init == /\ started = FALSE
        /\ next \in Points
        /\ held = Nothing

\* The first packet after a start fixes the playout position.
AcceptFirst(s, d) == /\ ~started
                     /\ started' = TRUE
                     /\ next' = s
                     /\ held' = [t \in {s} |-> d]

\* A packet inside the window is kept; a copy of a kept packet changes nothing.
AcceptInside(s, d) == /\ started
                      /\ UNCHANGED <<started, next>>
                      /\ Ahead(next, s) < BufferLength
                      /\ s \notin DOMAIN held
                      /\ held' = [t \in DOMAIN held \cup {s} |->
                                      IF t = s THEN d ELSE held[t]]

\* A packet beyond the window, but not behind the position by the half-circle
\* rule, drops everything held and moves the position to itself.
AcceptJump(s, d) == /\ started
                    /\ UNCHANGED started
                    /\ next' = s
                    /\ Ahead(next, s) >= BufferLength
                    /\ 2 * Ahead(next, s) < Modulus
                    /\ held' = [t \in {s} |-> d]

\* The packet at the playout position is handed out, once.
Release == /\ started
           /\ UNCHANGED started
           /\ next' = Succ(next)
           /\ next \in DOMAIN held
           /\ held' = Restrict(held, DOMAIN held \ {next})

\* The position passes over a packet that has not come, only when a later one has.
Skip == /\ started
        /\ next' = Succ(next)
        /\ next \notin DOMAIN held
        /\ held # Nothing
        /\ UNCHANGED <<started, held>>

\* A flush drops everything and leaves the next position open ...
Reset == /\ ~started'
         /\ UNCHANGED next
         /\ held' = Nothing

\* ... or names it (before the first packet it then stays to be fixed).
Reposition(s) == /\ next' = s
                 /\ held' = Nothing
                 /\ UNCHANGED started

Next == \/ \E s \in Points, d \in Data : \/ AcceptFirst(s, d)
                                         \/ AcceptInside(s, d)
                                         \/ AcceptJump(s, d)
        \/ \E s \in Points : Reposition(s)
        \/ Release
        \/ Skip
        \/ Reset

Spec == Init /\ [][Next]_window
=============================================================================
