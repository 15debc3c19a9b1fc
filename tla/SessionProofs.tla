---------------------------- MODULE SessionProofs ---------------------------
(* Theorems about Session, for every number of SETUPs: its type invariant,   *)
(* that requests and conn_destroy meet live objects only and leave none      *)
(* behind, that two TEARDOWNs are enough, and that no pairing finishes.      *)
EXTENDS Session, TLAPS

-----------------------------------------------------------------------------
(* The inductive invariant.                                                 *)

\* The objects of later SETUPs have not been made.
NotMadeYet ==
  \A g \in Setups : g > setups => ntp[g] = "none" /\ audio[g] = "none" /\ mirror[g] = "none"

Gone == {"none", "freed"}

\* An object that is there is pointed to, or a later SETUP has put another one in
\* its place; conn_destroy goes through the pointers one by one.
EachIsPointedTo ==
  \A g \in Setups :
    /\ \/ ntp[g] \in Gone \/ <<"ntp", g>> \in replaced
       \/ raop_ntp = g /\ conn \in {"open", "clock"}
    /\ \/ audio[g] \in Gone \/ <<"audio", g>> \in replaced
       \/ raop_rtp = g /\ conn \in {"open", "clock", "audio"}
    /\ \/ mirror[g] \in Gone \/ <<"mirror", g>> \in replaced
       \/ raop_rtp_mirror = g /\ conn \in {"open", "clock", "audio", "mirror"}

\* The first TEARDOWN leaves no audio running, the second no screen receiver.
TeardownsSoFar ==
  conn = "open" =>
    /\ teardowns >= 1 => raop_rtp = NULL \/ audio[raop_rtp] # "running"
    /\ teardowns = 2  => raop_rtp_mirror = NULL

SessionInv == /\ SessionTypeOK
              /\ NotMadeYet
              /\ PointersAreLive
              /\ EachIsPointedTo
              /\ TeardownsSoFar
              /\ PairingNeverFinishes

-----------------------------------------------------------------------------
LEMMA SetupsAreNumbers ==
  /\ MaxSetups \in Nat
  /\ Setups \subseteq Nat
  /\ NULL \notin Setups
  /\ \A n \in Nat : n \in Setups <=> 1 <= n /\ n <= MaxSetups
BY SessionAssumption DEF Setups, NULL

\* An object whose state is changed when it is there stays there.
LEMMA FreedStates ==
  ASSUME NEW object, NEW states \in [Setups -> ObjectStates]
  PROVE  /\ Freed(object, states) \in [Setups -> ObjectStates]
         /\ \A g \in Setups : Freed(object, states)[g]
                                = IF g = object THEN "freed" ELSE states[g]
         /\ states \in [Setups -> ObjectStates \ {"ended"}]
              => Freed(object, states) \in [Setups -> ObjectStates \ {"ended"}]
BY DEF Freed, ObjectStates

LEMMA InitEstablishes == Init => SessionInv
<1> SUFFICES ASSUME Init PROVE SessionInv
  OBVIOUS
<1>1. setups \in 0 .. MaxSetups
  BY SetupsAreNumbers DEF Init
<1>2. SessionTypeOK
  BY <1>1 DEF Init, SessionTypeOK, ObjectStates
<1>3. NotMadeYet /\ EachIsPointedTo
  BY DEF Init, NotMadeYet, EachIsPointedTo, Gone
<1>4. PointersAreLive /\ TeardownsSoFar /\ PairingNeverFinishes
  BY DEF Init, PointersAreLive, TeardownsSoFar, PairingNeverFinishes
<1> QED
  BY <1>2, <1>3, <1>4 DEF SessionInv

\* A new connection, pairing, and the end of a connection leave the objects alone.
LEMMA ConnectionKeeps ==
  ASSUME SessionInv,
         \/ conn_init \/ pairsetup \/ pairverify_handshake \/ CloseConnection
         \/ \E right \in BOOLEAN : pairverify_finish(right)
  PROVE  SessionInv'
<1> USE DEF pointers, objects
<1>1. UNCHANGED <<ntp, audio, mirror, setups, replaced>>
  BY DEF conn_init, pairsetup, pairverify_handshake, CloseConnection, pairverify_finish
<1>2. \/ /\ conn = "none" /\ conn' = "open" /\ teardowns' = 0
         /\ raop_ntp' = NULL /\ raop_rtp' = NULL /\ raop_rtp_mirror' = NULL
      \/ /\ conn = "open" /\ conn' \in {"open", "clock"}
         /\ teardowns' \in {teardowns, 0}
         /\ UNCHANGED <<raop_ntp, raop_rtp, raop_rtp_mirror>>
  BY DEF conn_init, pairsetup, pairverify_handshake, CloseConnection, pairverify_finish
<1>3. pairing' \in {"INITIAL", "SETUP", "HANDSHAKE"}
  BY DEF SessionInv, SessionTypeOK, PairingNeverFinishes, check_handshake_status,
       conn_init, pairsetup, pairverify_handshake, CloseConnection, pairverify_finish
<1>4. SessionTypeOK'
  BY <1>1, <1>2, <1>3 DEF SessionInv, SessionTypeOK
<1>5. NotMadeYet'
  BY <1>1 DEF SessionInv, NotMadeYet
<1>6. PointersAreLive'
  BY <1>1, <1>2 DEF SessionInv, PointersAreLive, Live
<1>7. EachIsPointedTo'
  BY <1>1, <1>2 DEF SessionInv, EachIsPointedTo
<1>8. TeardownsSoFar'
  BY <1>1, <1>2 DEF SessionInv, SessionTypeOK, TeardownsSoFar
<1>9. PairingNeverFinishes'
  BY <1>3 DEF PairingNeverFinishes
<1> QED
  BY <1>4, <1>5, <1>6, <1>7, <1>8, <1>9 DEF SessionInv

\* The objects of a new SETUP replace those there are, which are accounted for.
LEMMA SetupKeysKeeps ==
  ASSUME SessionInv, SetupKeys
  PROVE  SessionInv'
<1> DEFINE new == setups + 1
<1>1. /\ setups \in Nat /\ new \in Nat /\ new \in Setups /\ setups' = new
      /\ new \in 0 .. MaxSetups
      /\ new # NULL /\ new > setups
  BY SetupsAreNumbers DEF SessionInv, SessionTypeOK, SetupKeys, NULL
<1> HIDE DEF new
<1>2. /\ raop_ntp' = new /\ raop_rtp' = new /\ raop_rtp_mirror' = new
      /\ conn = "open" /\ conn' = "open" /\ pairing' = pairing /\ teardowns' = 0
  BY <1>1 DEF SetupKeys
<1>3. PICK state \in {"idle", "running"} : ntp' = [ntp EXCEPT ![new] = state]
  BY <1>1 DEF SetupKeys, Started
<1>4. audio' = [audio EXCEPT ![new] = "idle"] /\ mirror' = [mirror EXCEPT ![new] = "idle"]
  BY <1>1 DEF SetupKeys
<1>5. /\ replaced \subseteq replaced'
      /\ \A g \in Setups : /\ g = raop_ntp => <<"ntp", g>> \in replaced'
                           /\ g = raop_rtp => <<"audio", g>> \in replaced'
                           /\ g = raop_rtp_mirror => <<"mirror", g>> \in replaced'
  BY SetupsAreNumbers DEF SetupKeys, Of
<1>6. /\ ntp \in [Setups -> ObjectStates \ {"ended"}]
      /\ audio \in [Setups -> ObjectStates] /\ mirror \in [Setups -> ObjectStates]
  BY DEF SessionInv, SessionTypeOK
<1>7. SessionTypeOK'
  <2>1. /\ ntp' \in [Setups -> ObjectStates \ {"ended"}]
        /\ audio' \in [Setups -> ObjectStates] /\ mirror' \in [Setups -> ObjectStates]
    BY <1>3, <1>4, <1>6 DEF ObjectStates
  <2> QED
    BY <1>1, <1>2, <2>1 DEF SessionInv, SessionTypeOK
<1>8. NotMadeYet'
  BY <1>1, <1>3, <1>4, <1>6, SetupsAreNumbers DEF SessionInv, NotMadeYet
<1>9. PointersAreLive'
  BY <1>1, <1>2, <1>3, <1>4, <1>6 DEF PointersAreLive, Live
<1>10. EachIsPointedTo'
  BY <1>1, <1>2, <1>3, <1>4, <1>5, <1>6 DEF SessionInv, EachIsPointedTo
<1>11. TeardownsSoFar' /\ PairingNeverFinishes'
  BY <1>2 DEF SessionInv, TeardownsSoFar, PairingNeverFinishes
<1> QED
  BY <1>7, <1>8, <1>9, <1>10, <1>11 DEF SessionInv

\* Receivers move between idle, running and ended: none comes or goes.
Moved(before, after) ==
  /\ after \in [Setups -> ObjectStates]
  /\ \A g \in Setups : /\ after[g] \in Gone <=> before[g] \in Gone
                       /\ after[g] = "none" <=> before[g] = "none"

LEMMA MoveOne ==
  ASSUME NEW before \in [Setups -> ObjectStates],
         NEW object \in Setups, before[object] \notin Gone,
         NEW state \in {"idle", "running", "ended"}
  PROVE  Moved(before, [before EXCEPT ![object] = state])
BY DEF Moved, Gone, ObjectStates

LEMMA MoveNone ==
  ASSUME NEW before \in [Setups -> ObjectStates]
  PROVE  Moved(before, before)
BY DEF Moved

\* What Moved keeps.
LEMMA MovedKeeps ==
  ASSUME SessionInv, Moved(audio, audio'), Moved(mirror, mirror'),
         UNCHANGED <<raop_ntp, raop_rtp, raop_rtp_mirror, ntp, setups, replaced, pairing>>,
         \/ conn' = conn
         \/ conn = "open" /\ conn' = "clock"
  PROVE  NotMadeYet' /\ PointersAreLive' /\ EachIsPointedTo' /\ PairingNeverFinishes'
<1>1. NotMadeYet'
  BY DEF SessionInv, NotMadeYet, Moved
<1>2. PointersAreLive'
  <2>1. {raop_rtp, raop_rtp_mirror} \subseteq Setups \cup {NULL}
    BY DEF SessionInv, SessionTypeOK
  <2>2. /\ Live(raop_rtp, audio) => Live(raop_rtp, audio')
        /\ Live(raop_rtp_mirror, mirror) => Live(raop_rtp_mirror, mirror')
    BY <2>1 DEF Live, Moved, Gone
  <2> QED
    BY <2>2 DEF SessionInv, PointersAreLive, Live
<1>3. EachIsPointedTo'
  BY DEF SessionInv, EachIsPointedTo, Moved
<1>4. PairingNeverFinishes'
  BY DEF SessionInv, PairingNeverFinishes
<1> QED
  BY <1>1, <1>2, <1>3, <1>4

LEMMA SetupStreamsKeeps ==
  ASSUME SessionInv, NEW types \in SUBSET StreamTypes, SetupStreams(types)
  PROVE  SessionInv'
<1>1. /\ conn = "open" /\ conn' \in {"open", "clock"} /\ teardowns' = 0
      /\ UNCHANGED <<raop_ntp, raop_rtp, raop_rtp_mirror, ntp, setups, replaced, pairing>>
  BY DEF SetupStreams, pointers
<1>2. /\ audio \in [Setups -> ObjectStates] /\ mirror \in [Setups -> ObjectStates]
      /\ raop_rtp \in Setups \cup {NULL} /\ raop_rtp_mirror \in Setups \cup {NULL}
      /\ raop_rtp # NULL => audio[raop_rtp] \in {"idle", "running", "ended"}
      /\ raop_rtp_mirror # NULL => mirror[raop_rtp_mirror] \in {"idle", "running", "ended"}
  BY <1>1 DEF SessionInv, SessionTypeOK, PointersAreLive, Live, ObjectStates
<1>3. Moved(audio, audio')
  <2>1. CASE "audio" \in types /\ CanStart("audio")
    <3>1. raop_rtp \in Setups /\ audio[raop_rtp] \in {"idle", "running", "ended"}
      BY <1>2, <2>1 DEF CanStart
    <3>2. PICK state \in Started(audio[raop_rtp]) :
            audio' = [audio EXCEPT ![raop_rtp] = state]
      BY <2>1 DEF SetupStreams
    <3>3. state \in {"idle", "running", "ended"}
      BY <3>1, <3>2 DEF Started
    <3> QED
      BY <1>2, <3>1, <3>2, <3>3, MoveOne DEF Gone
  <2>2. CASE audio' = audio
    BY <1>2, <2>2, MoveNone
  <2> QED
    BY <2>1, <2>2 DEF SetupStreams
<1>4. Moved(mirror, mirror')
  <2>1. CASE "mirroring" \in types /\ CanStart("mirroring")
    <3>1. raop_rtp_mirror \in Setups
          /\ mirror[raop_rtp_mirror] \in {"idle", "running", "ended"}
      BY <1>2, <2>1 DEF CanStart
    <3>2. PICK state \in Started(mirror[raop_rtp_mirror]) :
            mirror' = [mirror EXCEPT ![raop_rtp_mirror] = state]
      BY <2>1 DEF SetupStreams
    <3>3. state \in {"idle", "running", "ended"}
      BY <3>1, <3>2 DEF Started
    <3> QED
      BY <1>2, <3>1, <3>2, <3>3, MoveOne DEF Gone
  <2>2. CASE mirror' = mirror
    BY <1>2, <2>2, MoveNone
  <2> QED
    BY <2>1, <2>2 DEF SetupStreams
<1>5. NotMadeYet' /\ PointersAreLive' /\ EachIsPointedTo' /\ PairingNeverFinishes'
  BY <1>1, <1>3, <1>4, MovedKeeps
<1>6. SessionTypeOK'
  BY <1>1, <1>3, <1>4 DEF SessionInv, SessionTypeOK, Moved
<1>7. TeardownsSoFar'
  BY <1>1 DEF TeardownsSoFar
<1> QED
  BY <1>5, <1>6, <1>7 DEF SessionInv

\* The thread of a receiver ends by itself.
LEMMA EndsKeeps ==
  ASSUME SessionInv, AudioEnds \/ MirrorEnds
  PROVE  SessionInv'
<1>1. UNCHANGED <<conn, raop_ntp, raop_rtp, raop_rtp_mirror, ntp, setups, replaced, pairing,
                  teardowns>>
  BY DEF AudioEnds, MirrorEnds, pointers
<1>2. audio \in [Setups -> ObjectStates] /\ mirror \in [Setups -> ObjectStates]
  BY DEF SessionInv, SessionTypeOK
<1>3. /\ Moved(audio, audio')
      /\ \A g \in Setups : audio'[g] = "running" => audio[g] = "running"
  <2>1. CASE AudioEnds
    <3>1. PICK g \in Setups : audio[g] = "running" /\ audio' = [audio EXCEPT ![g] = "ended"]
      BY <2>1 DEF AudioEnds
    <3> QED
      BY <1>2, <3>1, MoveOne DEF Gone
  <2>2. CASE MirrorEnds
    BY <1>2, <2>2, MoveNone DEF MirrorEnds
  <2> QED
    BY <2>1, <2>2
<1>4. Moved(mirror, mirror')
  <2>1. CASE MirrorEnds
    <3>1. PICK g \in Setups : mirror[g] = "running" /\ mirror' = [mirror EXCEPT ![g] = "ended"]
      BY <2>1 DEF MirrorEnds
    <3> QED
      BY <1>2, <3>1, MoveOne DEF Gone
  <2>2. CASE AudioEnds
    BY <1>2, <2>2, MoveNone DEF AudioEnds
  <2> QED
    BY <2>1, <2>2
<1>5. NotMadeYet' /\ PointersAreLive' /\ EachIsPointedTo' /\ PairingNeverFinishes'
  BY <1>1, <1>3, <1>4, MovedKeeps
<1>6. SessionTypeOK'
  BY <1>1, <1>3, <1>4 DEF SessionInv, SessionTypeOK, Moved
<1>7. TeardownsSoFar'
  BY <1>1, <1>3 DEF SessionInv, SessionTypeOK, TeardownsSoFar
<1> QED
  BY <1>5, <1>6, <1>7 DEF SessionInv

-----------------------------------------------------------------------------
LEMMA TeardownKeeps ==
  ASSUME SessionInv, Teardown
  PROVE  SessionInv'
<1>1. /\ conn = "open" /\ conn' = "open"
      /\ teardowns' = IF teardowns < 2 THEN teardowns + 1 ELSE 2
      /\ UNCHANGED <<raop_ntp, ntp, setups, replaced, pairing>>
  BY DEF Teardown
<1>2. /\ audio \in [Setups -> ObjectStates] /\ mirror \in [Setups -> ObjectStates]
      /\ raop_rtp \in Setups \cup {NULL} /\ raop_rtp_mirror \in Setups \cup {NULL}
      /\ teardowns \in 0 .. 2
  BY DEF SessionInv, SessionTypeOK
<1>3. teardowns' \in 1 .. 2 /\ (teardowns' = 2 => teardowns >= 1)
  BY <1>1, <1>2
<1>4. CASE raop_rtp # NULL /\ raop_rtp_is_running(raop_rtp)
  <2>1. PICK state \in Stopped(audio[raop_rtp]) :
          audio' = [audio EXCEPT ![raop_rtp] = state]
    BY <1>4 DEF Teardown
  <2>2. UNCHANGED <<raop_rtp, raop_rtp_mirror, mirror>>
    BY <1>4 DEF Teardown
  <2>3. raop_rtp \in Setups /\ audio[raop_rtp] = "running" /\ state \in {"idle", "ended"}
    BY <1>2, <1>4, <2>1 DEF Stopped, raop_rtp_is_running
  <2>4. Moved(audio, audio') /\ Moved(mirror, mirror')
    BY <1>2, <2>1, <2>2, <2>3, MoveOne, MoveNone DEF Gone
  <2>5. NotMadeYet' /\ PointersAreLive' /\ EachIsPointedTo' /\ PairingNeverFinishes'
    BY <1>1, <2>2, <2>4, MovedKeeps
  <2>6. SessionTypeOK'
    BY <1>1, <1>3, <2>2, <2>4 DEF SessionInv, SessionTypeOK, Moved
  <2>7. teardowns = 0
    BY <1>1, <1>2, <1>4, <2>3 DEF SessionInv, TeardownsSoFar
  <2>8. TeardownsSoFar'
    BY <1>1, <1>2, <1>3, <2>1, <2>2, <2>3, <2>7 DEF TeardownsSoFar
  <2> QED
    BY <2>5, <2>6, <2>8 DEF SessionInv
<1>5. CASE ~(raop_rtp # NULL /\ raop_rtp_is_running(raop_rtp)) /\ raop_rtp_mirror # NULL
  <2>1. /\ audio' = Freed(raop_rtp, audio) /\ mirror' = Freed(raop_rtp_mirror, mirror)
        /\ raop_rtp' = NULL /\ raop_rtp_mirror' = NULL
    BY <1>5 DEF Teardown, ForgetReceivers
  <2>2. /\ audio' \in [Setups -> ObjectStates]
        /\ \A g \in Setups : audio'[g] = IF g = raop_rtp THEN "freed" ELSE audio[g]
    BY <1>2, <2>1, FreedStates
  <2>3. /\ mirror' \in [Setups -> ObjectStates]
        /\ \A g \in Setups : mirror'[g] = IF g = raop_rtp_mirror THEN "freed" ELSE mirror[g]
    BY <1>2, <2>1, FreedStates
  <2>4. SessionTypeOK'
    BY <1>1, <1>3, <2>1, <2>2, <2>3 DEF SessionInv, SessionTypeOK
  <2>5. NotMadeYet'
    <3>1. \A g \in Setups : g > setups => g # raop_rtp /\ g # raop_rtp_mirror
      BY <1>1, SetupsAreNumbers DEF SessionInv, NotMadeYet, PointersAreLive, Live
    <3> QED
      BY <1>1, <2>2, <2>3, <3>1 DEF SessionInv, NotMadeYet
  <2>6. PointersAreLive'
    BY <1>1, <2>1 DEF SessionInv, PointersAreLive, Live
  <2>7. EachIsPointedTo'
    BY <1>1, <2>1, <2>2, <2>3 DEF SessionInv, EachIsPointedTo, Gone
  <2>8. TeardownsSoFar' /\ PairingNeverFinishes'
    BY <1>1, <2>1 DEF SessionInv, TeardownsSoFar, PairingNeverFinishes
  <2> QED
    BY <2>4, <2>5, <2>6, <2>7, <2>8 DEF SessionInv
<1>6. CASE ~(raop_rtp # NULL /\ raop_rtp_is_running(raop_rtp)) /\ raop_rtp_mirror = NULL
  <2>1. UNCHANGED <<raop_rtp, raop_rtp_mirror, audio, mirror>>
    BY <1>6 DEF Teardown
  <2>2. NotMadeYet' /\ PointersAreLive' /\ EachIsPointedTo' /\ PairingNeverFinishes'
    BY <1>1, <1>2, <2>1, MoveNone, MovedKeeps
  <2>3. SessionTypeOK'
    BY <1>1, <1>3, <2>1 DEF SessionInv, SessionTypeOK
  <2>4. TeardownsSoFar'
    BY <1>6, <2>1 DEF TeardownsSoFar, raop_rtp_is_running
  <2> QED
    BY <2>2, <2>3, <2>4 DEF SessionInv
<1> QED
  BY <1>4, <1>5, <1>6

\* conn_destroy: the clock, the audio receiver, the screen receiver.
LEMMA DestroyKeeps ==
  ASSUME SessionInv, conn_destroy
  PROVE  SessionInv'
<1>1. /\ UNCHANGED <<pairing, raop_ntp, raop_rtp, raop_rtp_mirror, setups, replaced, teardowns>>
      /\ conn' \in {"audio", "mirror", "none"}
  BY DEF conn_destroy, DestroyClock, DestroyAudio, DestroyMirror, pointers
<1>2. /\ ntp \in [Setups -> ObjectStates \ {"ended"}] /\ ntp \in [Setups -> ObjectStates]
      /\ audio \in [Setups -> ObjectStates] /\ mirror \in [Setups -> ObjectStates]
  BY DEF SessionInv, SessionTypeOK, ObjectStates
<1>3. \A g \in Setups : g > setups =>
        /\ conn = "clock" => g # raop_ntp
        /\ conn \in {"clock", "audio"} => g # raop_rtp
        /\ conn \in {"clock", "audio", "mirror"} => g # raop_rtp_mirror
  BY SetupsAreNumbers DEF SessionInv, NotMadeYet, PointersAreLive, Live
<1>4. CASE DestroyClock
  <2>1. /\ conn = "clock" /\ conn' = "audio" /\ ntp' = Freed(raop_ntp, ntp)
        /\ UNCHANGED <<audio, mirror>>
    BY <1>4 DEF DestroyClock
  <2>2. /\ ntp' \in [Setups -> ObjectStates \ {"ended"}]
        /\ \A g \in Setups : ntp'[g] = IF g = raop_ntp THEN "freed" ELSE ntp[g]
    BY <1>2, <2>1, FreedStates
  <2> QED
    BY <1>1, <1>3, <2>1, <2>2 DEF SessionInv, SessionTypeOK, NotMadeYet, PointersAreLive, Live,
         EachIsPointedTo, Gone, TeardownsSoFar, PairingNeverFinishes
<1>5. CASE DestroyAudio
  <2>1. /\ conn = "audio" /\ conn' = "mirror" /\ audio' = Freed(raop_rtp, audio)
        /\ UNCHANGED <<ntp, mirror>>
    BY <1>5 DEF DestroyAudio
  <2>2. /\ audio' \in [Setups -> ObjectStates]
        /\ \A g \in Setups : audio'[g] = IF g = raop_rtp THEN "freed" ELSE audio[g]
    BY <1>2, <2>1, FreedStates
  <2> QED
    BY <1>1, <1>3, <2>1, <2>2 DEF SessionInv, SessionTypeOK, NotMadeYet, PointersAreLive, Live,
         EachIsPointedTo, Gone, TeardownsSoFar, PairingNeverFinishes
<1>6. CASE DestroyMirror
  <2>1. /\ conn = "mirror" /\ conn' = "none" /\ mirror' = Freed(raop_rtp_mirror, mirror)
        /\ UNCHANGED <<ntp, audio>>
    BY <1>6 DEF DestroyMirror
  <2>2. /\ mirror' \in [Setups -> ObjectStates]
        /\ \A g \in Setups : mirror'[g] = IF g = raop_rtp_mirror THEN "freed" ELSE mirror[g]
    BY <1>2, <2>1, FreedStates
  <2> QED
    BY <1>1, <1>3, <2>1, <2>2 DEF SessionInv, SessionTypeOK, NotMadeYet, PointersAreLive, Live,
         EachIsPointedTo, Gone, TeardownsSoFar, PairingNeverFinishes
<1> QED
  BY <1>4, <1>5, <1>6 DEF conn_destroy

LEMMA SessionInvariant == Spec => []SessionInv
<1>1. SessionInv /\ [Next]_sessionvars => SessionInv'
  <2> SUFFICES ASSUME SessionInv, [Next]_sessionvars PROVE SessionInv'
    OBVIOUS
  <2>1. CASE UNCHANGED sessionvars
    BY <2>1 DEF SessionInv, SessionTypeOK, NotMadeYet, PointersAreLive, Live, EachIsPointedTo,
         TeardownsSoFar, PairingNeverFinishes, sessionvars, pointers, objects
  <2>2. CASE Next
    BY <2>2, ConnectionKeeps, SetupKeysKeeps, SetupStreamsKeeps, EndsKeeps, TeardownKeeps,
       DestroyKeeps DEF Next, conn_request
  <2> QED
    BY <2>1, <2>2
<1> QED
  BY <1>1, InitEstablishes, PTL DEF Spec

-----------------------------------------------------------------------------
(* What follows from it.                                                    *)

\* The variables keep their types, for any number of SETUPs; a clock's thread is
\* running or joined, never left behind.
THEOREM SessionTypeCorrect == Spec => []SessionTypeOK
<1>1. SessionInv => SessionTypeOK
  BY DEF SessionInv
<1> QED
  BY <1>1, SessionInvariant, PTL

\* The requests and conn_destroy never use an object of raop.c that has been
\* destroyed.
THEOREM SessionPointersAreLive == Spec => []PointersAreLive
<1>1. SessionInv => PointersAreLive
  BY DEF SessionInv
<1> QED
  BY <1>1, SessionInvariant, PTL

\* conn_destroy leaves only what a second SETUP with keys has put others in the
\* place of.
THEOREM ConnectionLeavesNothing == Spec => []NothingLeftBehind
<1>1. SessionInv => NothingLeftBehind
  BY DEF SessionInv, EachIsPointedTo, Gone, NothingLeftBehind
<1> QED
  BY <1>1, SessionInvariant, PTL

\* The second of two TEARDOWNs in a row leaves neither receiver running.
THEOREM TwoTeardownsAreEnough == Spec => []TwoTeardownsEnd
<1>1. SessionInv => TwoTeardownsEnd
  BY DEF SessionInv, TeardownsSoFar, TwoTeardownsEnd
<1> QED
  BY <1>1, SessionInvariant, PTL

\* pair-verify's second message is never let through to pairing_session_finish in
\* the status that it asks for.
THEOREM NoPairingFinishes == Spec => []PairingNeverFinishes
<1>1. SessionInv => PairingNeverFinishes
  BY DEF SessionInv
<1> QED
  BY <1>1, SessionInvariant, PTL
=============================================================================
