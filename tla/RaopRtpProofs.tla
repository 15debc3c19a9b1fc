---------------------------- MODULE RaopRtpProofs ---------------------------
(* Theorems about RaopRtp, for every ring, all packets and calls: what the   *)
(* receiver does to its jitter buffer are steps of RaopBuffer, so that what   *)
(* is proved of the buffer holds inside the receiver; its type invariant;     *)
(* that the thread and the marks the HTTP thread reads agree; and that no     *)
(* volume is lost.                                                            *)
EXTENDS RaopRtp, RaopBufferProofs

-----------------------------------------------------------------------------
(* The invariant.                                                           *)

VolumeRange == -144 .. 0

LocalTypes ==
  /\ running \in BOOLEAN /\ joined \in BOOLEAN /\ sockets \in BOOLEAN
  /\ volume \in VolumeRange /\ applied \in VolumeRange
  /\ volume_changed \in BOOLEAN
  /\ flush \in FlushRequests \cup {NoFlush}
  /\ posted \subseteq Kinds
  /\ taken \in [volume : VolumeRange, volume_changed : BOOLEAN,
                flush : FlushRequests \cup {NoFlush}, posted : SUBSET Kinds]
  /\ control_rport \in ControlPorts \cup {0}
  /\ thread \in {"none", "events", "callbacks", "select", "data", "drain", "resends",
                 "exit", "log", "done"}
  /\ caller \in {"idle", "join", "mark", "free", "gone"}
  /\ destroying \in BOOLEAN

\* Who may be where: the thread is in its loop until its own end or until the
\* HTTP thread, waiting for it, has cleared running.
Lifecycle ==
  /\ running => ~joined /\ caller = "idle" /\ (InLoop \/ thread = "exit")
  /\ joined  => ~running /\ ~sockets /\ thread \in {"none", "done"}
  /\ InLoop  => sockets
  /\ InLoop \/ thread = "exit" => running \/ caller = "join"
  /\ caller = "join" => ~running /\ ~joined
  /\ caller = "mark" => ~running /\ ~sockets /\ thread = "done"
  /\ caller \in {"free", "gone"} => ~running

\* The renderer has the latest volume, or the thread or the mailbox has it.
VolumeKept ==
  ~volume_changed =>
     IF thread = "callbacks" /\ taken.volume_changed
     THEN taken.volume = volume
     ELSE applied = volume

RtpInv == LocalTypes /\ Lifecycle /\ VolumeKept

LEMMA ClampInRange == \A v \in Volumes : Clamp(v) \in VolumeRange
BY RtpAssumption DEF Clamp, VolumeRange

LEMMA PartsType == \A v \in VolumeRange :
  Parts(v) \in [volume : VolumeRange, volume_changed : BOOLEAN,
                flush : FlushRequests \cup {NoFlush}, posted : SUBSET Kinds]
<1> SUFFICES ASSUME NEW v \in VolumeRange
             PROVE  Parts(v) \in [volume : VolumeRange, volume_changed : BOOLEAN,
                                  flush : FlushRequests \cup {NoFlush}, posted : SUBSET Kinds]
  OBVIOUS
<1>1. NoFlush \in FlushRequests \cup {NoFlush} /\ {} \in SUBSET Kinds
  OBVIOUS
<1> HIDE DEF NoFlush
<1> QED
  BY <1>1 DEF Parts

LEMMA InitEstablishes == RtpInit => RtpInv
<1> SUFFICES ASSUME RtpInit PROVE RtpInv
  OBVIOUS
<1>1. 0 \in VolumeRange
  BY DEF VolumeRange
<1>2. LocalTypes
  BY <1>1, PartsType DEF RtpInit, LocalTypes
<1>3. Lifecycle /\ VolumeKept
  BY DEF RtpInit, Lifecycle, VolumeKept, InLoop
<1> QED
  BY <1>2, <1>3 DEF RtpInv

-----------------------------------------------------------------------------
(* Every step keeps it.                                                     *)

\* The steps of the UDP thread.
LEMMA ThreadKeeps ==
  ASSUME RtpInv,
         \/ TakeEvents
         \/ MakeCallbacks
         \/ SelectTimeout
         \/ SelectFails
         \/ ReceiveResentTooShort
         \/ ReceiveNoAudio
         \/ ReceiveShort
         \/ Drain
         \/ RequestResends
         \/ ClearRunning
         \/ Return
         \/ \E s \in Seqnum, d \in Data : ReceiveResent(s, d) \/ ReceiveData(s, d)
  PROVE  RtpInv'
<1> USE DEF RtpInv, At, CallerAt, life, mailbox, local, calls
<1>1. CASE TakeEvents
  <2>1. LocalTypes'
    <3> DEFINE T == [volume : VolumeRange, volume_changed : BOOLEAN,
                     flush : FlushRequests \cup {NoFlush}, posted : SUBSET Kinds]
    <3>1. [volume |-> volume, volume_changed |-> volume_changed,
           flush |-> flush, posted |-> posted] \in T
      BY DEF LocalTypes
    <3>2. taken' \in T
      BY <1>1, <3>1 DEF LocalTypes, TakeEvents
    <3>3. /\ volume_changed' \in BOOLEAN /\ posted' \subseteq Kinds
          /\ flush' \in FlushRequests \cup {NoFlush}
      BY <1>1 DEF LocalTypes, TakeEvents, EmptyMailbox
    <3>4. /\ thread' \in {"callbacks", "exit"}
          /\ UNCHANGED <<life, volume, applied, calls>>
      BY <1>1 DEF TakeEvents
    <3> QED
      BY <3>2, <3>3, <3>4 DEF LocalTypes
  <2>2. Lifecycle'
    BY <1>1 DEF LocalTypes, Lifecycle, InLoop, TakeEvents, Stopped, EmptyMailbox
  <2>3. VolumeKept'
    BY <1>1 DEF LocalTypes, VolumeKept, TakeEvents, Stopped, EmptyMailbox
  <2> QED
    BY <2>1, <2>2, <2>3
<1>2. CASE MakeCallbacks
  <2>1. LocalTypes'
    <3>1. taken.volume \in VolumeRange /\ thread' = "select"
          /\ UNCHANGED <<life, mailbox, calls>>
      BY <1>2 DEF LocalTypes, MakeCallbacks
    <3>2. taken' \in [volume : VolumeRange, volume_changed : BOOLEAN,
                     flush : FlushRequests \cup {NoFlush}, posted : SUBSET Kinds]
      BY <1>2, <3>1, PartsType DEF MakeCallbacks
    <3>3. applied' = applied \/ applied' = taken.volume
      BY <1>2 DEF MakeCallbacks
    <3>4. applied' \in VolumeRange
      BY <3>1, <3>3 DEF LocalTypes
    <3> QED
      BY <3>1, <3>2, <3>4 DEF LocalTypes
  <2>2. Lifecycle'
    BY <1>2 DEF LocalTypes, Lifecycle, InLoop, MakeCallbacks, Parts
  <2>3. VolumeKept'
    BY <1>2 DEF LocalTypes, VolumeKept, MakeCallbacks, Parts
  <2> QED
    BY <2>1, <2>2, <2>3
<1>3. CASE SelectTimeout
  <2>1. LocalTypes'
    BY <1>3, ClampInRange DEF LocalTypes, SelectTimeout
  <2>2. Lifecycle'
    BY <1>3 DEF LocalTypes, Lifecycle, InLoop, SelectTimeout
  <2>3. VolumeKept'
    BY <1>3 DEF LocalTypes, VolumeKept, SelectTimeout
  <2> QED
    BY <2>1, <2>2, <2>3
<1>4. CASE SelectFails
  <2>1. LocalTypes'
    BY <1>4, ClampInRange DEF LocalTypes, SelectFails
  <2>2. Lifecycle'
    BY <1>4 DEF LocalTypes, Lifecycle, InLoop, SelectFails
  <2>3. VolumeKept'
    BY <1>4 DEF LocalTypes, VolumeKept, SelectFails
  <2> QED
    BY <2>1, <2>2, <2>3
<1>5. CASE ReceiveResentTooShort
  <2>1. LocalTypes'
    BY <1>5, ClampInRange DEF LocalTypes, ReceiveResentTooShort
  <2>2. Lifecycle'
    BY <1>5 DEF LocalTypes, Lifecycle, InLoop, ReceiveResentTooShort
  <2>3. VolumeKept'
    BY <1>5 DEF LocalTypes, VolumeKept, ReceiveResentTooShort
  <2> QED
    BY <2>1, <2>2, <2>3
<1>6. CASE ReceiveNoAudio
  <2>1. LocalTypes'
    BY <1>6, ClampInRange DEF LocalTypes, ReceiveNoAudio
  <2>2. Lifecycle'
    BY <1>6 DEF LocalTypes, Lifecycle, InLoop, ReceiveNoAudio
  <2>3. VolumeKept'
    BY <1>6 DEF LocalTypes, VolumeKept, ReceiveNoAudio
  <2> QED
    BY <2>1, <2>2, <2>3
<1>7. CASE ReceiveShort
  <2>1. LocalTypes'
    BY <1>7, ClampInRange DEF LocalTypes, ReceiveShort
  <2>2. Lifecycle'
    BY <1>7 DEF LocalTypes, Lifecycle, InLoop, ReceiveShort
  <2>3. VolumeKept'
    BY <1>7 DEF LocalTypes, VolumeKept, ReceiveShort
  <2> QED
    BY <2>1, <2>2, <2>3
<1>8. CASE Drain
  <2>1. LocalTypes'
    BY <1>8, ClampInRange DEF LocalTypes, Drain
  <2>2. Lifecycle'
    BY <1>8 DEF LocalTypes, Lifecycle, InLoop, Drain
  <2>3. VolumeKept'
    BY <1>8 DEF LocalTypes, VolumeKept, Drain
  <2> QED
    BY <2>1, <2>2, <2>3
<1>9. CASE RequestResends
  <2>1. LocalTypes'
    BY <1>9, ClampInRange DEF LocalTypes, RequestResends
  <2>2. Lifecycle'
    BY <1>9 DEF LocalTypes, Lifecycle, InLoop, RequestResends
  <2>3. VolumeKept'
    BY <1>9 DEF LocalTypes, VolumeKept, RequestResends
  <2> QED
    BY <2>1, <2>2, <2>3
<1>10. CASE ClearRunning
  <2>1. LocalTypes'
    BY <1>10, ClampInRange DEF LocalTypes, ClearRunning
  <2>2. Lifecycle'
    BY <1>10 DEF LocalTypes, Lifecycle, InLoop, ClearRunning
  <2>3. VolumeKept'
    BY <1>10 DEF LocalTypes, VolumeKept, ClearRunning
  <2> QED
    BY <2>1, <2>2, <2>3
<1>11. CASE Return
  <2>1. LocalTypes'
    BY <1>11, ClampInRange DEF LocalTypes, Return
  <2>2. Lifecycle'
    BY <1>11 DEF LocalTypes, Lifecycle, InLoop, Return
  <2>3. VolumeKept'
    BY <1>11 DEF LocalTypes, VolumeKept, Return
  <2> QED
    BY <2>1, <2>2, <2>3
<1>12. CASE \E s \in Seqnum, d \in Data : ReceiveResent(s, d) \/ ReceiveData(s, d)
  <2>1. LocalTypes'
    BY <1>12, ClampInRange DEF LocalTypes, ReceiveResent, ReceiveData
  <2>2. Lifecycle'
    BY <1>12 DEF LocalTypes, Lifecycle, InLoop, ReceiveResent, ReceiveData
  <2>3. VolumeKept'
    BY <1>12 DEF LocalTypes, VolumeKept, ReceiveResent, ReceiveData
  <2> QED
    BY <2>1, <2>2, <2>3
<1> QED
  BY <1>1, <1>2, <1>3, <1>4, <1>5, <1>6, <1>7, <1>8, <1>9, <1>10, <1>11, <1>12

\* The stop sequence and the calls of the HTTP thread.
LEMMA CallsKeep ==
  ASSUME RtpInv,
         \/ JoinThread
         \/ MarkJoined
         \/ Free
         \/ \E port \in ControlPorts : raop_rtp_start_audio(port)
         \/ \E v \in Volumes : raop_rtp_set_volume(v)
         \/ \E n \in FlushRequests : raop_rtp_flush(n)
         \/ \E kind \in Kinds : Post(kind)
         \/ \E destroy \in BOOLEAN : raop_rtp_stop(destroy)
  PROVE  RtpInv'
<1> USE DEF RtpInv, At, CallerAt, life, mailbox, local, calls
<1>1. CASE JoinThread
  <2>1. LocalTypes'
    BY <1>1, ClampInRange DEF LocalTypes, JoinThread
  <2>2. Lifecycle'
    BY <1>1 DEF LocalTypes, Lifecycle, InLoop, JoinThread
  <2>3. VolumeKept'
    BY <1>1 DEF LocalTypes, VolumeKept, JoinThread
  <2> QED
    BY <2>1, <2>2, <2>3
<1>2. CASE MarkJoined
  <2>1. LocalTypes'
    BY <1>2, ClampInRange DEF LocalTypes, MarkJoined
  <2>2. Lifecycle'
    BY <1>2 DEF LocalTypes, Lifecycle, InLoop, MarkJoined
  <2>3. VolumeKept'
    BY <1>2 DEF LocalTypes, VolumeKept, MarkJoined
  <2> QED
    BY <2>1, <2>2, <2>3
<1>3. CASE Free
  <2>1. LocalTypes'
    BY <1>3, ClampInRange DEF LocalTypes, Free
  <2>2. Lifecycle'
    BY <1>3 DEF LocalTypes, Lifecycle, InLoop, Free
  <2>3. VolumeKept'
    BY <1>3 DEF LocalTypes, VolumeKept, Free
  <2> QED
    BY <2>1, <2>2, <2>3
<1>4. CASE \E port \in ControlPorts : raop_rtp_start_audio(port)
  <2>1. PICK port \in ControlPorts : raop_rtp_start_audio(port)
    BY <1>4
  <2>2. control_rport' \in ControlPorts \cup {0}
    BY <2>1 DEF raop_rtp_start_audio
  <2>3. CASE UNCHANGED <<running, joined, sockets, thread>>
    BY <2>1, <2>2, <2>3 DEF LocalTypes, Lifecycle, InLoop, VolumeKept, raop_rtp_start_audio
  <2>4. CASE running' = TRUE /\ joined' = FALSE /\ sockets' = TRUE /\ thread' = "events"
    <3>1. LocalTypes'
      BY <2>1, <2>2, <2>4 DEF LocalTypes, raop_rtp_start_audio
    <3>2. Lifecycle' /\ VolumeKept'
      BY <2>1, <2>4 DEF Lifecycle, InLoop, VolumeKept, raop_rtp_start_audio
    <3> QED
      BY <3>1, <3>2
  <2> QED
    BY <2>1, <2>3, <2>4 DEF raop_rtp_start_audio
<1>5. CASE \E v \in Volumes : raop_rtp_set_volume(v)
  <2>1. LocalTypes'
    BY <1>5, ClampInRange DEF LocalTypes, raop_rtp_set_volume
  <2>2. Lifecycle'
    BY <1>5 DEF LocalTypes, Lifecycle, InLoop, raop_rtp_set_volume
  <2>3. VolumeKept'
    BY <1>5 DEF LocalTypes, VolumeKept, raop_rtp_set_volume
  <2> QED
    BY <2>1, <2>2, <2>3
<1>6. CASE \E n \in FlushRequests : raop_rtp_flush(n)
  <2>1. LocalTypes'
    BY <1>6, ClampInRange DEF LocalTypes, raop_rtp_flush
  <2>2. Lifecycle'
    BY <1>6 DEF LocalTypes, Lifecycle, InLoop, raop_rtp_flush
  <2>3. VolumeKept'
    BY <1>6 DEF LocalTypes, VolumeKept, raop_rtp_flush
  <2> QED
    BY <2>1, <2>2, <2>3
<1>7. CASE \E kind \in Kinds : Post(kind)
  <2>1. LocalTypes'
    BY <1>7, ClampInRange DEF LocalTypes, Post
  <2>2. Lifecycle'
    BY <1>7 DEF LocalTypes, Lifecycle, InLoop, Post
  <2>3. VolumeKept'
    BY <1>7 DEF LocalTypes, VolumeKept, Post
  <2> QED
    BY <2>1, <2>2, <2>3
<1>8. CASE \E destroy \in BOOLEAN : raop_rtp_stop(destroy)
  <2> PICK destroy \in BOOLEAN : raop_rtp_stop(destroy)
    BY <1>8
  <2>1. LocalTypes'
    <3>1. running' \in BOOLEAN /\ caller' \in {"idle", "join", "free"} /\ destroying' \in BOOLEAN
      BY DEF LocalTypes, raop_rtp_stop
    <3>2. UNCHANGED <<joined, control_rport, sockets, volume, volume_changed, flush, posted,
                      thread, taken, applied>>
      BY DEF raop_rtp_stop
    <3> QED
      BY <3>1, <3>2 DEF LocalTypes
  <2>2. Lifecycle'
    BY <1>8 DEF LocalTypes, Lifecycle, InLoop, raop_rtp_stop
  <2>3. VolumeKept'
    BY <1>8 DEF LocalTypes, VolumeKept, raop_rtp_stop
  <2> QED
    BY <2>1, <2>2, <2>3
<1> QED
  BY <1>1, <1>2, <1>3, <1>4, <1>5, <1>6, <1>7, <1>8

LEMMA RtpStep == RtpInv /\ [RtpNext]_rtpvars => RtpInv'
<1> SUFFICES ASSUME RtpInv, [RtpNext]_rtpvars PROVE RtpInv'
  OBVIOUS
<1>1. CASE ThreadStep
  BY <1>1, ThreadKeeps DEF ThreadStep
<1>2. CASE SelectFails
  BY <1>2, ThreadKeeps
<1>3. CASE StopStep \/ CallStep
  BY <1>3, CallsKeep DEF StopStep, CallStep
<1>4. CASE UNCHANGED rtpvars
  <2>1. LocalTypes'
    BY <1>4 DEF RtpInv, LocalTypes, rtpvars, life, mailbox, local, calls
  <2>2. Lifecycle' /\ VolumeKept'
    BY <1>4 DEF RtpInv, Lifecycle, VolumeKept, InLoop, rtpvars, life, mailbox, local, calls
  <2> QED
    BY <2>1, <2>2 DEF RtpInv
<1> QED
  BY <1>1, <1>2, <1>3, <1>4 DEF RtpNext

LEMMA RtpInvariant == RtpSpec => []RtpInv
<1> QED
  BY InitEstablishes, RtpStep, PTL DEF RtpSpec

-----------------------------------------------------------------------------
(* The buffer inside the receiver.                                          *)

\* Whatever the receiver does, the buffer sees one of its calls or nothing.
LEMMA BufferStep == RtpInv /\ [RtpNext]_rtpvars => [Next]_bufvars
<1> SUFFICES ASSUME RtpInv, [RtpNext]_rtpvars PROVE [Next]_bufvars
  OBVIOUS
<1>1. FlushRequests \cup {NoFlush} \subseteq FlushArgument /\ -1 \in FlushArgument
  BY RtpAssumption DEF FlushArgument
<1>2. CASE MakeCallbacks
  <2>1. taken.flush \in FlushArgument
    BY <1>1 DEF RtpInv, LocalTypes
  <2> QED
    BY <1>2, <2>1 DEF MakeCallbacks, Next
<1>3. CASE \/ ReceiveResentTooShort \/ ReceiveNoAudio
           \/ \E s \in Seqnum, d \in Data : ReceiveResent(s, d) \/ ReceiveData(s, d)
  BY <1>3 DEF ReceiveResentTooShort, ReceiveNoAudio, ReceiveResent, ReceiveData, Next
<1>4. CASE Drain
  <2> DEFINE b == no_resend
  <2>1. b = TRUE \/ b = FALSE
    BY DEF no_resend
  <2> HIDE DEF b
  <2>2. b \in BOOLEAN
    BY <2>1
  <2>3. raop_buffer_dequeue(b)
    BY <1>4 DEF Drain, b
  <2> QED
    BY <2>2, <2>3 DEF Next
<1>5. CASE RequestResends
  BY <1>5 DEF RequestResends, Next
<1>6. CASE JoinThread \/ Free
  BY <1>1, <1>6 DEF JoinThread, Free, Next
<1>7. CASE \/ TakeEvents \/ SelectTimeout \/ SelectFails \/ ReceiveShort \/ ClearRunning
           \/ Return
  BY <1>7 DEF TakeEvents, SelectTimeout, SelectFails, ReceiveShort, ClearRunning, Return
<1>8. CASE MarkJoined \/ CallStep
  BY <1>8 DEF MarkJoined, CallStep, raop_rtp_start_audio, raop_rtp_set_volume,
       raop_rtp_flush, Post, raop_rtp_stop
<1>9. CASE UNCHANGED rtpvars
  BY <1>9 DEF rtpvars
<1> QED
  BY <1>2, <1>3, <1>4, <1>5, <1>6, <1>7, <1>8, <1>9 DEF RtpNext, ThreadStep, StopStep

\* The receiver uses its jitter buffer only by the calls RaopBuffer describes, so
\* that everything proved of the buffer alone holds while two threads share it.
THEOREM ReceiverUsesBuffer == RtpSpec => Spec
<1>1. RtpInit => Init
  BY DEF RtpInit
<1> QED
  BY <1>1, RtpInvariant, BufferStep, PTL DEF RtpSpec, Spec

\* Inside the receiver too, no freed payload is handed to the renderer.
THEOREM ReceiverDequeuesSafely == RtpSpec => []NeverHandsOutFreed
BY ReceiverUsesBuffer, DequeueIsSafe, PTL

-----------------------------------------------------------------------------
(* The theorems.                                                            *)

\* Every variable of the receiver has its type, the volume that of the renderer.
THEOREM RtpTypeCorrect == RtpSpec => []RtpTypeOK
<1>1. TypeOK /\ RtpInv => RtpTypeOK
  BY DEF RtpInv, LocalTypes, RtpTypeOK, VolumeRange
<1> QED
  BY <1>1, ReceiverUsesBuffer, TypeCorrect, RtpInvariant, PTL

\* running, joined and the sockets tell where the thread is, however the calls and
\* a failing select interleave.
THEOREM LifecycleIsConsistent == RtpSpec => []LifecycleConsistent
<1>1. RtpInv => LifecycleConsistent
  BY DEF RtpInv, Lifecycle, LifecycleConsistent
<1> QED
  BY <1>1, RtpInvariant, PTL

\* raop_rtp_destroy gives back the object only when the thread has left it.
THEOREM ThreadHasLeft == RtpSpec => []ThreadLeavesBeforeFree
<1>1. RtpInv => ThreadLeavesBeforeFree
  BY DEF RtpInv, LocalTypes, Lifecycle, InLoop, ThreadLeavesBeforeFree
<1> QED
  BY <1>1, RtpInvariant, PTL

\* A volume set while the thread is between taking the mailbox and its callbacks
\* is not lost.
THEOREM NoVolumeIsLost == RtpSpec => []LatestVolumeApplied
<1>1. RtpInv => LatestVolumeApplied
  BY DEF RtpInv, VolumeKept, LatestVolumeApplied
<1> QED
  BY <1>1, RtpInvariant, PTL
=============================================================================
