------------------------------- MODULE Session ------------------------------
(* A connection of the sender as lib/raop.c and lib/raop_handlers.h keep it: *)
(* conn_init, the requests that change it, and conn_destroy.  One thread     *)
(* handles them, that of the HTTP server.  A SETUP with keys makes a clock,  *)
(* an audio receiver and a screen receiver, each of which has a thread of    *)
(* its own once it is started; the two receivers read the clock.             *)
(*                                                                           *)
(* The three objects of a SETUP are known by its number.  A receiver stops   *)
(* when its stop function says so (modules RaopRtp and RaopRtpMirror) or     *)
(* ends by itself, after an error of its sockets, and is not joined then.    *)
(* Not modelled are failing allocations, and what does not change the state  *)
(* described here: the other requests, and FLUSH and SET_PARAMETER, which    *)
(* leave a message with the audio receiver.                                  *)
EXTENDS Integers

CONSTANT MaxSetups       \* bound on the SETUPs with keys

ASSUME SessionAssumption == MaxSetups \in Nat

VARIABLES conn,          \* "none", "open", or where conn_destroy is
          pairing,       \* status of the pairing session
          raop_ntp, raop_rtp, raop_rtp_mirror,   \* SETUP whose object it is, or NULL
          ntp, audio, mirror,                    \* SETUP -> what became of the object
          setups,        \* how many SETUPs with keys there have been
          replaced,      \* objects a later SETUP put others in the place of
          teardowns      \* how many requests in a row have been TEARDOWN

pointers    == <<raop_ntp, raop_rtp, raop_rtp_mirror>>
objects     == <<ntp, audio, mirror>>
sessionvars == <<conn, pairing, pointers, objects, setups, replaced, teardowns>>

NULL   == 0
Setups == 1 .. MaxSetups

Init == /\ conn = "none"
        /\ pairing = "INITIAL"
        /\ raop_ntp = NULL /\ raop_rtp = NULL /\ raop_rtp_mirror = NULL
        /\ ntp    = [g \in Setups |-> "none"]
        /\ audio  = [g \in Setups |-> "none"]
        /\ mirror = [g \in Setups |-> "none"]
        /\ setups = 0
        /\ replaced = {}
        /\ teardowns = 0

conn_init ==
  /\ conn = "none"
  /\ conn' = "open"
  /\ pairing' = "INITIAL"
  /\ raop_ntp' = NULL /\ raop_rtp' = NULL /\ raop_rtp_mirror' = NULL
  /\ teardowns' = 0
  /\ UNCHANGED <<objects, setups, replaced>>

-----------------------------------------------------------------------------
(* Pairing (lib/pairing.c).                                                 *)
pairsetup ==
  /\ conn = "open"
  /\ pairing' = "SETUP"
  /\ teardowns' = 0
  /\ UNCHANGED <<conn, pointers, objects, setups, replaced>>

\* Mutant: a pair-verify message is taken whatever the status.
AnyStatus == TRUE

\* What pair-verify asks for before it looks at the message.
check_handshake_status == pairing = "SETUP"

\* Message 1: pairing_session_handshake.
pairverify_handshake ==
  /\ conn = "open"
  /\ check_handshake_status /\ pairing # "FINISHED"
  /\ pairing' = "HANDSHAKE"
  /\ teardowns' = 0
  /\ UNCHANGED <<conn, pointers, objects, setups, replaced>>

\* Message 0: pairing_session_finish, which asks for a handshake and for a right
\* signature, or the connection is closed.
pairverify_finish(right) ==
  /\ conn = "open"
  /\ check_handshake_status
  /\ IF pairing = "HANDSHAKE" /\ right
     THEN pairing' = "FINISHED" /\ UNCHANGED conn
     ELSE conn' = "clock" /\ UNCHANGED pairing
  /\ teardowns' = 0
  /\ UNCHANGED <<pointers, objects, setups, replaced>>

-----------------------------------------------------------------------------
(* SETUP and TEARDOWN.  A SETUP with keys and streams does one after the      *)
(* other.                                                                    *)

\* Mutant: a thread may end at once, as that of the clock never does.
StartedAndEnded(state) == IF state = "idle" THEN {"idle", "running", "ended"} ELSE {state}

\* A start may fail for want of a socket; it is refused while there is a thread,
\* and when one has ended by itself.
Started(state) == IF state = "idle" THEN {"idle", "running"} ELSE {state}

Of(object, name) == {<<name, g>> : g \in {object} \ {NULL}}

\* The first SETUP of the protocol: new objects take the place of those there are.
SetupKeys ==
  /\ conn = "open"
  /\ setups < MaxSetups
  /\ setups' = setups + 1
  /\ raop_ntp' = setups' /\ raop_rtp' = setups' /\ raop_rtp_mirror' = setups'
  /\ \E state \in Started("idle") : ntp' = [ntp EXCEPT ![setups'] = state]
  /\ audio'  = [audio EXCEPT ![setups'] = "idle"]
  /\ mirror' = [mirror EXCEPT ![setups'] = "idle"]
  /\ replaced' = replaced \cup Of(raop_ntp, "ntp") \cup Of(raop_rtp, "audio")
                          \cup Of(raop_rtp_mirror, "mirror")
  /\ teardowns' = 0
  /\ UNCHANGED <<conn, pairing>>

StreamTypes == {"mirroring", "audio", "unknown"}

\* A stream needs the object of its type.
CanStart(type) == \/ type = "mirroring" /\ raop_rtp_mirror # NULL
                  \/ type = "audio" /\ raop_rtp # NULL

\* Later ones start the streams they name.  A stream that has no object, or is of an
\* unknown type, closes the connection after the response, when the others of the
\* request have been started.
SetupStreams(types) ==
  /\ conn = "open"
  /\ IF "mirroring" \in types /\ CanStart("mirroring")
     THEN \E state \in Started(mirror[raop_rtp_mirror]) :
            mirror' = [mirror EXCEPT ![raop_rtp_mirror] = state]
     ELSE UNCHANGED mirror
  /\ IF "audio" \in types /\ CanStart("audio")
     THEN \E state \in Started(audio[raop_rtp]) :
            audio' = [audio EXCEPT ![raop_rtp] = state]
     ELSE UNCHANGED audio
  /\ conn' = IF \A type \in types : CanStart(type) THEN "open" ELSE "clock"
  /\ teardowns' = 0
  /\ UNCHANGED <<pairing, pointers, ntp, setups, replaced>>

\* Mutant: a thread that has ended but is not joined counts as running, as it does
\* in httpd_is_running.
RunningOrNotJoined(object) == audio[object] \in {"running", "ended"}

raop_rtp_is_running(object) == audio[object] = "running"

\* A receiver after stop: the thread is joined, unless it ended by itself, which it
\* may do just before.
Stopped(state) == IF state = "running" THEN {"idle", "ended"} ELSE {state}

Freed(object, states) == [g \in Setups |-> IF g = object THEN "freed" ELSE states[g]]

\* Mutant: the pointers are kept.
KeepPointers == UNCHANGED <<raop_rtp, raop_rtp_mirror>>

ForgetReceivers == raop_rtp' = NULL /\ raop_rtp_mirror' = NULL

\* Running audio is stopped; the next TEARDOWN destroys both receivers, but not the
\* clock.
Teardown ==
  /\ conn = "open"
  /\ IF raop_rtp # NULL /\ raop_rtp_is_running(raop_rtp)
     THEN /\ \E state \in Stopped(audio[raop_rtp]) :
               audio' = [audio EXCEPT ![raop_rtp] = state]
          /\ UNCHANGED <<raop_rtp, raop_rtp_mirror, mirror>>
     ELSE IF raop_rtp_mirror # NULL
     THEN /\ audio' = Freed(raop_rtp, audio)
          /\ mirror' = Freed(raop_rtp_mirror, mirror)
          /\ ForgetReceivers
     ELSE UNCHANGED <<raop_rtp, raop_rtp_mirror, audio, mirror>>
  /\ teardowns' = IF teardowns < 2 THEN teardowns + 1 ELSE 2
  /\ UNCHANGED <<conn, pairing, raop_ntp, ntp, setups, replaced>>

-----------------------------------------------------------------------------
(* conn_destroy: the clock, the audio receiver, the screen receiver.  Each    *)
(* is stopped, which waits for its thread, and freed.                         *)
CloseConnection ==
  /\ conn = "open"
  /\ conn' = "clock"
  /\ UNCHANGED <<pairing, pointers, objects, setups, replaced, teardowns>>

DestroyClock ==
  /\ conn = "clock"
  /\ conn' = "audio"
  /\ ntp' = Freed(raop_ntp, ntp)
  /\ UNCHANGED <<pairing, pointers, audio, mirror, setups, replaced, teardowns>>

DestroyAudio ==
  /\ conn = "audio"
  /\ conn' = "mirror"
  /\ audio' = Freed(raop_rtp, audio)
  /\ UNCHANGED <<pairing, pointers, ntp, mirror, setups, replaced, teardowns>>

\* Mutant: it is left to TEARDOWN to end the screen receiver.
LeaveMirror ==
  /\ conn = "mirror"
  /\ conn' = "none"
  /\ UNCHANGED <<pairing, pointers, objects, setups, replaced, teardowns>>

DestroyMirror ==
  /\ conn = "mirror"
  /\ conn' = "none"
  /\ mirror' = Freed(raop_rtp_mirror, mirror)
  /\ UNCHANGED <<pairing, pointers, ntp, audio, setups, replaced, teardowns>>

-----------------------------------------------------------------------------
\* The thread of a receiver leaves its loop after an error.
AudioEnds ==
  /\ \E g \in Setups : /\ audio[g] = "running"
                       /\ audio' = [audio EXCEPT ![g] = "ended"]
  /\ UNCHANGED <<conn, pairing, pointers, ntp, mirror, setups, replaced, teardowns>>

MirrorEnds ==
  /\ \E g \in Setups : /\ mirror[g] = "running"
                       /\ mirror' = [mirror EXCEPT ![g] = "ended"]
  /\ UNCHANGED <<conn, pairing, pointers, ntp, audio, setups, replaced, teardowns>>

conn_request == \/ pairsetup \/ pairverify_handshake
                \/ \E right \in BOOLEAN : pairverify_finish(right)
                \/ SetupKeys
                \/ \E types \in SUBSET StreamTypes : SetupStreams(types)
                \/ Teardown

conn_destroy == DestroyClock \/ DestroyAudio \/ DestroyMirror

Next == \/ conn_init \/ conn_request \/ CloseConnection \/ conn_destroy
        \/ AudioEnds \/ MirrorEnds

Spec == Init /\ [][Next]_sessionvars
-----------------------------------------------------------------------------
(* Properties.                                                              *)

ObjectStates == {"none", "idle", "running", "ended", "freed"}

SessionTypeOK ==
  /\ conn \in {"none", "open", "clock", "audio", "mirror"}
  /\ pairing \in {"INITIAL", "SETUP", "HANDSHAKE", "FINISHED"}
  /\ {raop_ntp, raop_rtp, raop_rtp_mirror} \subseteq Setups \cup {NULL}
  /\ ntp \in [Setups -> ObjectStates \ {"ended"}]
  /\ audio \in [Setups -> ObjectStates]
  /\ mirror \in [Setups -> ObjectStates]
  /\ setups \in 0 .. MaxSetups
  /\ teardowns \in 0 .. 2

Live(object, states) == object # NULL => states[object] \notin {"none", "freed"}

\* No request and no step of conn_destroy meets an object that has been given
\* back, in whatever order SETUP, TEARDOWN and the end of the connection come.
PointersAreLive ==
  /\ conn \in {"open", "clock"}                    => Live(raop_ntp, ntp)
  /\ conn \in {"open", "clock", "audio"}           => Live(raop_rtp, audio)
  /\ conn \in {"open", "clock", "audio", "mirror"} => Live(raop_rtp_mirror, mirror)

\* When the connection is gone, no thread and no object of it is left, but for
\* those that a second SETUP with keys took the place of.
NothingLeftBehind ==
  conn = "none" =>
    \A g \in Setups :
       /\ ntp[g] \in {"none", "freed"} \/ <<"ntp", g>> \in replaced
       /\ audio[g] \in {"none", "freed"} \/ <<"audio", g>> \in replaced
       /\ mirror[g] \in {"none", "freed"} \/ <<"mirror", g>> \in replaced

\* Two TEARDOWNs in a row end audio and mirroring, also when a thread has ended by
\* itself before the first or between them.
TwoTeardownsEnd ==
  teardowns = 2 /\ conn = "open" =>
    /\ raop_rtp = NULL \/ audio[raop_rtp] # "running"
    /\ raop_rtp_mirror = NULL \/ mirror[raop_rtp_mirror] # "running"

\* raop_handlers.h asks for the status before the handshake, pairing.c for the one
\* after it: the message that finishes a pairing never does.
PairingNeverFinishes == pairing # "FINISHED"

\* raop.c:235 says of the receivers in conn_destroy "This is done in case TEARDOWN
\* was not called": their threads may run until then, and read the clock.
ClockOutlivesReaders ==
  \A g \in Setups : audio[g] = "running" \/ mirror[g] = "running" => ntp[g] # "freed"
=============================================================================
