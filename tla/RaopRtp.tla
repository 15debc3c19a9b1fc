------------------------------ MODULE RaopRtp -------------------------------
(* The audio receiver of lib/raop_rtp.c: its UDP thread, the mailbox through *)
(* which the HTTP thread hands it volume, flush and metadata, and the start, *)
(* stop and destroy calls of the HTTP thread.  The jitter buffer is the      *)
(* RaopBuffer this module extends; only the UDP thread touches it between    *)
(* start and join.                                                           *)
(*                                                                           *)
(* A step of the thread is one critical section under run_mutex, one call of *)
(* the buffer, or the callbacks made after a section.  What has no effect on *)
(* the state described here (clock synchronisation, logging, the contents of *)
(* metadata, cover art, remote control and progress messages) is left out.   *)
EXTENDS RaopBuffer

CONSTANTS Volumes,       \* volumes set_volume may be called with (dB, integers)
          FlushRequests, \* sequence numbers FLUSH may name; -1 is "none named"
          Kinds,         \* messages posted besides: metadata, coverart,
                         \* remote_control_id, progress
          ControlPorts   \* control_rport: 0 (what SETUP passes) or a port

ASSUME RtpAssumption ==
  /\ Volumes \subseteq Int
  /\ FlushRequests \subseteq Seqnum \cup {-1}

\* run_mutex protects the first group (raop_rtp_s, MUTEX LOCKED VARIABLES).
VARIABLES running, joined,
          volume, volume_changed,
          flush,
          posted,        \* kinds of message pending
          control_rport,
          sockets,       \* whether csock and dsock are open
          thread,        \* where the UDP thread is
          taken,         \* its copy of the mailbox (locals of process_events)
          applied,       \* the volume last given to audio_set_volume
          caller,        \* where the HTTP thread is in stop or destroy
          destroying     \* whether its stop is the one in raop_rtp_destroy

life    == <<running, joined, control_rport, sockets>>
mailbox == <<volume, volume_changed, flush, posted>>
local   == <<taken, applied>>
calls   == <<caller, destroying>>
rtpvars == <<life, mailbox, thread, local, calls, bufvars>>

Parts(n) == [volume |-> n, volume_changed |-> FALSE, flush |-> NoFlush, posted |-> {}]

\* Mutant: the lower bound is missing.
ClampAbove(v) == IF v > 0 THEN 0 ELSE v

\* raop_rtp_set_volume clamps to the range of AirPlay volumes.
Clamp(v) == IF v > 0 THEN 0 ELSE IF v < -144 THEN -144 ELSE v

no_resend == control_rport = 0

-----------------------------------------------------------------------------
(* raop_rtp_init                                                            *)
RtpInit ==
  /\ Init
  /\ running = FALSE /\ joined = TRUE
  /\ volume = 0 /\ volume_changed = FALSE
  /\ flush = NoFlush
  /\ posted = {}
  /\ control_rport = 0
  /\ sockets = FALSE
  /\ thread = "none"
  /\ taken = Parts(0)
  /\ applied = 0
  /\ caller = "idle" /\ destroying = FALSE

-----------------------------------------------------------------------------
(* The UDP thread, raop_rtp_thread_udp.                                     *)

\* Where a thread stands, in a process the allocator has not ended.
At(place) == thread = place /\ status # "aborted"
CallerAt(place) == caller = place /\ status # "aborted"

\* Mutants: the mailbox is emptied but for the flush request; running is not read.
EmptyMailboxButFlush == /\ volume_changed' = FALSE
                        /\ UNCHANGED flush
                        /\ posted' = {}
NeverStopped == FALSE

EmptyMailbox == /\ volume_changed' = FALSE
                /\ flush' = NoFlush
                /\ posted' = {}

Stopped == ~running

\* raop_rtp_process_events, under run_mutex: take the mailbox and empty it.
TakeEvents ==
  /\ At("events")
  /\ IF ~Stopped
     THEN /\ taken' = [volume |-> volume, volume_changed |-> volume_changed,
                       flush |-> flush, posted |-> posted]
          /\ EmptyMailbox
          /\ thread' = "callbacks"
     ELSE /\ thread' = "exit"
          /\ UNCHANGED <<mailbox, taken>>
  /\ UNCHANGED <<life, volume, applied, calls, bufvars>>

\* Mutant: the change mark is cleared after the callback instead of with the
\* mailbox.
MakeCallbacksThenClear ==
  /\ At("callbacks")
  /\ thread' = "select"
  /\ IF taken.volume_changed
     THEN /\ raop_buffer_flush(taken.flush)
          /\ applied' = taken.volume
     ELSE UNCHANGED <<applied, bufvars>>
  /\ taken' = Parts(taken.volume)
  /\ volume_changed' = FALSE
  /\ UNCHANGED <<life, volume, flush, posted, calls>>

\* ... and after unlocking it: the buffer is flushed when the volume changed,
\* with the flush position taken; audio_flush is called when one was taken.
MakeCallbacks ==
  /\ At("callbacks")
  /\ thread' = "select"
  /\ IF taken.volume_changed
     THEN /\ raop_buffer_flush(taken.flush)
          /\ applied' = taken.volume
     ELSE UNCHANGED <<applied, bufvars>>
  /\ taken' = Parts(taken.volume)
  /\ UNCHANGED <<life, mailbox, calls>>

\* select returns nothing in 5 ms.
SelectTimeout ==
  /\ At("select")
  /\ thread' = "events"
  /\ UNCHANGED <<life, mailbox, local, calls, bufvars>>

\* select fails: the loop is left with running still set.
SelectFails ==
  /\ At("select")
  /\ thread' = "exit"
  /\ UNCHANGED <<life, mailbox, local, calls, bufvars>>

\* A datagram on the control socket; the data socket may be ready as well.  A
\* resent packet goes into the buffer, and no dequeue follows.
ReceiveResent(s, d) ==
  /\ At("select")
  /\ EnqueueAudio(s, d)
  /\ thread' \in {"events", "data"}
  /\ UNCHANGED <<life, mailbox, local, calls>>

ReceiveResentTooShort ==
  /\ At("select")
  /\ EnqueueInvalid
  /\ thread' \in {"events", "data"}
  /\ UNCHANGED <<life, mailbox, local, calls>>

\* A datagram on the data socket: an audio packet, ...
ReceiveData(s, d) ==
  /\ At("select") \/ At("data")
  /\ EnqueueAudio(s, d)
  /\ thread' = "drain"
  /\ UNCHANGED <<life, mailbox, local, calls>>

\* ... the no-data marker, an oversized length (recvfrom's -1 becomes one) ...
ReceiveNoAudio ==
  /\ At("select") \/ At("data")
  /\ EnqueueInvalid \/ EnqueueIgnored
  /\ thread' = "drain"
  /\ UNCHANGED <<life, mailbox, local, calls>>

\* ... or less than an RTP header, which is dropped.
ReceiveShort ==
  /\ At("select") \/ At("data")
  /\ thread' = "events"
  /\ UNCHANGED <<life, mailbox, local, calls, bufvars>>

\* Hand the packets to audio_process until a dequeue returns NULL.
Drain ==
  /\ At("drain")
  /\ raop_buffer_dequeue(no_resend)
  /\ thread' = IF out'.ret # NULL THEN "drain"
               ELSE IF no_resend THEN "events" ELSE "resends"
  /\ UNCHANGED <<life, mailbox, local, calls>>

RequestResends ==
  /\ At("resends")
  /\ raop_buffer_handle_resends
  /\ thread' = "events"
  /\ UNCHANGED <<life, mailbox, local, calls>>

\* Mutant: running is not cleared when the loop is left.
LeaveRunningSet ==
  /\ At("exit")
  /\ thread' = "log"
  /\ UNCHANGED <<life, mailbox, local, calls, bufvars>>

\* After the loop: clear running, log a line through the object, return.
ClearRunning ==
  /\ At("exit")
  /\ running' = FALSE
  /\ thread' = "log"
  /\ UNCHANGED <<joined, control_rport, sockets, mailbox, local, calls, bufvars>>

Return ==
  /\ At("log")
  /\ thread' = "done"
  /\ UNCHANGED <<life, mailbox, local, calls, bufvars>>

-----------------------------------------------------------------------------
(* The HTTP thread.                                                         *)

\* raop_rtp_start_audio; creating the sockets may fail.
raop_rtp_start_audio(port) ==
  /\ CallerAt("idle")
  /\ ~running /\ joined
  /\ control_rport' = port
  /\ \/ UNCHANGED <<running, joined, sockets, thread>>
     \/ /\ running' = TRUE
        /\ joined' = FALSE
        /\ sockets' = TRUE
        /\ thread' = "events"
  /\ UNCHANGED <<mailbox, local, calls, bufvars>>

raop_rtp_set_volume(v) ==
  /\ CallerAt("idle")
  /\ volume' = Clamp(v)
  /\ volume_changed' = TRUE
  /\ UNCHANGED <<flush, posted, life, thread, local, calls, bufvars>>

raop_rtp_flush(next_seq) ==
  /\ CallerAt("idle")
  /\ flush' = next_seq
  /\ UNCHANGED <<volume, volume_changed, posted, life, thread, local, calls, bufvars>>

\* raop_rtp_set_metadata, set_coverart, remote_control_id and set_progress.
Post(kind) ==
  /\ CallerAt("idle")
  /\ posted' = posted \cup {kind}
  /\ UNCHANGED <<volume, volume_changed, flush, life, thread, local, calls, bufvars>>

\* raop_rtp_stop, alone or as the beginning of raop_rtp_destroy.
raop_rtp_stop(destroy) ==
  /\ CallerAt("idle")
  /\ destroying' = destroy
  /\ IF ~running \/ joined
     THEN /\ caller' = IF destroy THEN "free" ELSE "idle"
          /\ UNCHANGED running
     ELSE /\ running' = FALSE
          /\ caller' = "join"
  /\ UNCHANGED <<joined, control_rport, sockets, mailbox, thread, local, bufvars>>

\* Mutant: the thread is not waited for.
DoNotJoin ==
  /\ CallerAt("join")
  /\ sockets' = FALSE
  /\ raop_buffer_flush(-1)
  /\ caller' = "mark"
  /\ UNCHANGED <<running, joined, control_rport, mailbox, thread, local, destroying>>

\* THREAD_JOIN waits for the thread; then the sockets are closed and the buffer
\* is flushed.
JoinThread ==
  /\ CallerAt("join")
  /\ thread = "done"
  /\ sockets' = FALSE
  /\ raop_buffer_flush(-1)
  /\ caller' = "mark"
  /\ UNCHANGED <<running, joined, control_rport, mailbox, thread, local, destroying>>

MarkJoined ==
  /\ CallerAt("mark")
  /\ joined' = TRUE
  /\ caller' = IF destroying THEN "free" ELSE "idle"
  /\ UNCHANGED <<running, control_rport, sockets, mailbox, thread, local, destroying, bufvars>>

\* The rest of raop_rtp_destroy: the buffer and the object are given back.
Free ==
  /\ CallerAt("free")
  /\ raop_buffer_destroy
  /\ caller' = "gone"
  /\ UNCHANGED <<life, mailbox, thread, local, destroying>>

-----------------------------------------------------------------------------
ThreadStep ==
  \/ TakeEvents \/ MakeCallbacks \/ Drain \/ RequestResends
  \/ SelectTimeout
  \/ ReceiveResentTooShort \/ ReceiveNoAudio \/ ReceiveShort
  \/ \E s \in Seqnum, d \in Data : ReceiveResent(s, d) \/ ReceiveData(s, d)
  \/ ClearRunning \/ Return

StopStep == JoinThread \/ MarkJoined \/ Free

CallStep ==
  \/ \E port \in ControlPorts : raop_rtp_start_audio(port)
  \/ \E v \in Volumes : raop_rtp_set_volume(v)
  \/ \E n \in FlushRequests : raop_rtp_flush(n)
  \/ \E kind \in Kinds : Post(kind)
  \/ \E destroy \in BOOLEAN : raop_rtp_stop(destroy)

RtpNext == ThreadStep \/ SelectFails \/ StopStep \/ CallStep

\* The operating system keeps running both threads; nothing says that packets
\* arrive, that select fails, or that a client makes calls.
RtpSpec == /\ RtpInit
           /\ [][RtpNext]_rtpvars
           /\ WF_rtpvars(ThreadStep)
           /\ WF_rtpvars(StopStep)
-----------------------------------------------------------------------------
(* Properties.                                                              *)

RtpTypeOK ==
  /\ TypeOK
  /\ running \in BOOLEAN /\ joined \in BOOLEAN /\ sockets \in BOOLEAN
  /\ volume \in -144 .. 0 /\ applied \in -144 .. 0
  /\ volume_changed \in BOOLEAN
  /\ flush \in FlushRequests \cup {NoFlush}
  /\ posted \subseteq Kinds
  /\ control_rport \in ControlPorts \cup {0}
  /\ thread \in {"none", "events", "callbacks", "select", "data", "drain", "resends",
                 "exit", "log", "done"}
  /\ caller \in {"idle", "join", "mark", "free", "gone"}
  /\ destroying \in BOOLEAN

InLoop == thread \in {"events", "callbacks", "select", "data", "drain", "resends"}

\* running, joined and the sockets tell where the thread is: it is never started
\* twice, never waited for while it cannot end, and its sockets are not closed
\* under it, however calls and a failing select interleave.
LifecycleConsistent ==
  /\ running => InLoop \/ thread = "exit"
  /\ joined => thread \in {"none", "done"} /\ ~running /\ ~sockets
  /\ InLoop => sockets
  /\ caller = "join" => ~running /\ ~joined

\* raop_rtp_destroy returns the buffer and the mutex only after the thread has
\* used them for the last time, also when the thread ended by itself.
ThreadLeavesBeforeFree ==
  caller = "gone" => thread \in {"none", "log", "done"}

\* A volume the HTTP thread sets is never lost, even when it is set between the
\* moment the thread takes the mailbox and its callback: with nothing pending and
\* no callback outstanding, the renderer has the latest volume.
LatestVolumeApplied ==
  ~volume_changed /\ thread # "callbacks" => applied = volume

\* raop_rtp_stop and raop_rtp_destroy return: the thread sees running cleared.
StopReturns ==
  caller \in {"join", "mark", "free"}
    ~> caller \in {"idle", "gone"} \/ status = "aborted"

\* What the HTTP thread leaves in the mailbox of a running receiver is taken,
\* whatever traffic arrives, unless the receiver is stopped first.
MailboxIsTaken ==
  running /\ (posted # {} \/ volume_changed \/ flush # NoFlush)
    ~> \/ posted = {} /\ ~volume_changed /\ flush = NoFlush
       \/ ~running \/ status = "aborted"

\* raop_rtp.c:654 says of a flush request "Call flush in thread instead": a thread
\* that has taken one leaves no packet from before it in the buffer when it is
\* through with what it took.
FlushReachesBuffer ==
  [][thread = "callbacks" /\ thread' # "callbacks" /\ taken.flush # NoFlush
       => \A i \in Slots : ~entries'[i].filled]_rtpvars

\* raop_rtp.c:681 says of stop "Flush buffer into initial state": a stopped
\* receiver has the entries raop_buffer_init gave it, without payload pointers.
StopRestoresInitialState ==
  caller = "mark" => \A i \in Slots : entries[i].payload = NULL
=============================================================================
