------------------------------ MODULE RaopNtp -------------------------------
(* The clock client of lib/raop_ntp.c: a thread that asks the sender for its *)
(* time every three seconds over UDP and keeps the last samples of the       *)
(* offset between the two clocks, and the start, stop and destroy calls of   *)
(* the HTTP thread.  Stop wakes the thread by a condition variable and       *)
(* closes the socket under it before it waits for it.                        *)
(*                                                                           *)
(* Two things depend on the platform.  lib/threads.h makes the condition     *)
(* variable of a Windows event, which stays set until a wait takes it, while *)
(* a pthread signal is lost when nobody waits.  And the receive timeout is   *)
(* given as a struct timeval, which Winsock reads as a number of             *)
(* milliseconds: its first word, the seconds, is 0, that is, no timeout; but *)
(* closing the socket ends a blocked receive there.                          *)
EXTENDS Integers, Sequences

CONSTANTS DataCount,     \* RAOP_NTP_DATA_COUNT, 8 in the code
          Samples,       \* what a response may give: [delay, offset]
          MaxDisp        \* RAOP_NTP_MAX_DISP, the delay of no sample

ASSUME NtpAssumption ==
  /\ DataCount \in Nat \ {0}
  /\ MaxDisp \in Int
  /\ \A s \in Samples : s.delay \in Int /\ s.delay < MaxDisp

VARIABLES windows,       \* the platform: Windows, or one with pthreads
          running, joined,
          tsock,         \* whether the timing socket is open
          queued,        \* whether a response waits in it
          thread,        \* where the thread is
          event,         \* a signal not yet taken by a wait
          data,          \* index -> sample
          data_index,
          sync_offset, sync_delay,
          caller,        \* where the HTTP thread is in stop or destroy
          destroying,    \* whether its stop is the one in raop_ntp_destroy
          recent         \* the last DataCount responses, newest first

life    == <<running, joined>>
clock   == <<data, data_index, sync_offset, sync_delay, recent>>
calls   == <<caller, destroying>>
ntpvars == <<life, tsock, queued, thread, event, clock, calls>>

NoSample == [delay |-> MaxDisp, offset |-> 0]
Indices  == 0 .. DataCount - 1

Init == /\ windows \in BOOLEAN
        /\ running = FALSE /\ joined = TRUE
        /\ tsock = FALSE /\ queued = FALSE
        /\ thread = "none" /\ event = FALSE
        /\ data = [i \in Indices |-> NoSample]
        /\ data_index = 0
        /\ sync_offset = 0 /\ sync_delay = 0
        /\ caller = "idle" /\ destroying = FALSE
        /\ recent = <<>>

-----------------------------------------------------------------------------
(* raop_ntp_thread.                                                         *)
TestRunning ==
  /\ thread = "test"
  /\ thread' = IF running THEN "flush" ELSE "exit"
  /\ UNCHANGED <<life, tsock, queued, event, clock, calls>>

\* raop_ntp_flush_socket; on a socket stop has closed it does nothing.
FlushSocket ==
  /\ thread = "flush"
  /\ queued' = (queued /\ ~tsock)
  /\ thread' = "send"
  /\ UNCHANGED <<life, tsock, event, clock, calls>>

SendRequest ==
  /\ thread = "send"
  /\ tsock
  /\ thread' = "receive"
  /\ UNCHANGED <<life, tsock, queued, event, clock, calls>>

\* The network refuses the request, or the socket is closed.
SendFails ==
  /\ thread = "send"
  /\ thread' = "wait"
  /\ UNCHANGED <<life, tsock, queued, event, clock, calls>>

\* A sample of least delay, and the largest delay, after sorting: qsort may
\* leave samples of the same delay in any order.
LeastDelayed(d) == {i \in Indices : \A j \in Indices : d[i].delay <= d[j].delay}
MostDelayed(d)  == {i \in Indices : \A j \in Indices : d[j].delay <= d[i].delay}

Newest(n, s) == SubSeq(s, 1, IF Len(s) < n THEN Len(s) ELSE n)

\* Mutants: the index does not wrap; the newest sample is used whatever its
\* delay.
NextIndexUnwrapped == data_index + 1
NewestOnly(d)      == {NextIndexUnwrapped % DataCount}

NextIndex == (data_index + 1) % DataCount

Sorted(d) == LeastDelayed(d)

\* A response makes a sample, which replaces the oldest one, and the offset is
\* that of the sample of least delay.
ReceiveResponse(sample) ==
  /\ thread = "receive"
  /\ queued /\ (tsock \/ ~windows)
  /\ queued' = FALSE
  /\ data_index' = NextIndex
  /\ data' = [data EXCEPT ![NextIndex] = sample]
  /\ \E i \in Sorted(data') : sync_offset' = data'[i].offset
  /\ \E i \in MostDelayed(data') : sync_delay' = data'[i].delay
  /\ recent' = Newest(DataCount, <<sample>> \o recent)
  /\ thread' = "wait"
  /\ UNCHANGED <<life, tsock, event, calls>>

\* Mutant: the receive timeout is not set on any platform.
NoTimeout == FALSE

TimeoutWorks == ~windows

ReceiveTimesOut ==
  /\ thread = "receive"
  /\ TimeoutWorks /\ ~queued
  /\ thread' = "wait"
  /\ UNCHANGED <<life, tsock, queued, event, clock, calls>>

\* The error of a closed socket ...
ReceiveFails ==
  /\ thread = "receive"
  /\ ~tsock
  /\ thread' = "wait"
  /\ UNCHANGED <<life, tsock, queued, event, clock, calls>>

\* ... or one the network reports, such as a port that nobody listens on.
ReceiveRefused ==
  /\ thread = "receive"
  /\ tsock
  /\ thread' = "wait"
  /\ UNCHANGED <<life, tsock, queued, event, clock, calls>>

\* wait_mutex is taken and, waiting, given up: one step for the signaller,
\* who takes it too.
BeginWait ==
  /\ thread = "wait"
  /\ thread' = "waiting"
  /\ UNCHANGED <<life, tsock, queued, event, clock, calls>>

Woken ==
  /\ thread = "waiting"
  /\ event
  /\ event' = FALSE
  /\ thread' = "test"
  /\ UNCHANGED <<life, tsock, queued, clock, calls>>

\* Three seconds have passed.  A pthread signal has no effect later.
WaitTimesOut ==
  /\ thread = "waiting"
  /\ event' = (event /\ windows)
  /\ thread' = "test"
  /\ UNCHANGED <<life, tsock, queued, clock, calls>>

ClearRunning ==
  /\ thread = "exit"
  /\ running' = FALSE
  /\ thread' = "done"
  /\ UNCHANGED <<joined, tsock, queued, event, clock, calls>>

-----------------------------------------------------------------------------
(* The HTTP thread.                                                         *)

\* raop_ntp_start; making the socket may fail.
raop_ntp_start ==
  /\ caller = "idle"
  /\ ~running /\ joined
  /\ tsock' = TRUE
  /\ queued' = FALSE
  /\ running' = TRUE /\ joined' = FALSE
  /\ thread' = "test"
  /\ UNCHANGED <<event, clock, calls>>

raop_ntp_stop(destroy) ==
  /\ caller = "idle"
  /\ destroying' = destroy
  /\ IF ~running \/ joined
     THEN /\ caller' = IF destroy THEN "free" ELSE "idle"
          /\ UNCHANGED running
     ELSE /\ running' = FALSE
          /\ caller' = "signal"
  /\ UNCHANGED <<joined, tsock, queued, thread, event, clock>>

\* Mutant: the signal is lost when the thread does not wait, as with pthreads.
EventAfterPthreadSignal == thread = "waiting"

EventAfterSignal == windows \/ thread = "waiting"

Signal ==
  /\ caller = "signal"
  /\ event' = EventAfterSignal
  /\ caller' = "close"
  /\ UNCHANGED <<life, tsock, queued, thread, clock, destroying>>

CloseSocket ==
  /\ caller = "close"
  /\ tsock' = FALSE
  /\ caller' = "join"
  /\ UNCHANGED <<life, queued, thread, event, clock, destroying>>

\* Mutant: the thread is not waited for.
DoNotJoin ==
  /\ caller = "join"
  /\ joined' = TRUE
  /\ caller' = IF destroying THEN "free" ELSE "idle"
  /\ UNCHANGED <<running, tsock, queued, thread, event, clock, destroying>>

JoinThread ==
  /\ caller = "join"
  /\ thread = "done"
  /\ joined' = TRUE
  /\ caller' = IF destroying THEN "free" ELSE "idle"
  /\ UNCHANGED <<running, tsock, queued, thread, event, clock, destroying>>

\* The rest of raop_ntp_destroy.
Free ==
  /\ caller = "free"
  /\ caller' = "gone"
  /\ UNCHANGED <<life, tsock, queued, thread, event, clock, destroying>>

-----------------------------------------------------------------------------
\* A response arrives in the socket.
Arrive ==
  /\ tsock /\ ~queued
  /\ queued' = TRUE
  /\ UNCHANGED <<life, tsock, thread, event, clock, calls>>

ThreadStep == \/ TestRunning \/ FlushSocket \/ SendRequest \/ SendFails
              \/ \E sample \in Samples : ReceiveResponse(sample)
              \/ ReceiveTimesOut \/ ReceiveFails
              \/ BeginWait \/ Woken \/ ClearRunning

StopStep == Signal \/ CloseSocket \/ JoinThread \/ Free

CallStep == \/ raop_ntp_start
            \/ \E destroy \in BOOLEAN : raop_ntp_stop(destroy)

Next == /\ \/ ThreadStep \/ WaitTimesOut \/ StopStep
           \/ Arrive \/ ReceiveRefused
           \/ CallStep
        /\ UNCHANGED windows

\* Both threads run.  Nothing is assumed of the network or of the caller, and the
\* three seconds of a wait may never be over.
Spec == /\ Init /\ [][Next]_<<windows, ntpvars>>
        /\ WF_ntpvars(ThreadStep)
        /\ WF_ntpvars(StopStep)
-----------------------------------------------------------------------------
(* Properties.                                                              *)

NtpTypeOK ==
  /\ running \in BOOLEAN /\ joined \in BOOLEAN
  /\ tsock \in BOOLEAN /\ queued \in BOOLEAN /\ event \in BOOLEAN
  /\ thread \in {"none", "test", "flush", "send", "receive", "wait", "waiting",
                 "exit", "done"}
  /\ data \in [Indices -> Samples \cup {NoSample}]
  /\ data_index \in Indices
  /\ sync_offset \in {s.offset : s \in Samples} \cup {0}
  /\ caller \in {"idle", "signal", "close", "join", "free", "gone"}
  /\ destroying \in BOOLEAN
  /\ Len(recent) <= DataCount

\* Once a response has come, the offset is that of one of the last DataCount
\* responses with the least delay: a sample is forgotten exactly when it is the
\* oldest, and no place of the ring is used without a sample.
OffsetOfLeastDelayed ==
  recent # <<>> =>
    \E i \in DOMAIN recent :
       /\ sync_offset = recent[i].offset
       /\ \A j \in DOMAIN recent : recent[i].delay <= recent[j].delay

\* The object is given back only when the thread is over, and between a stop and
\* the next start there is neither a thread nor an open socket.
JoinedIsQuiet ==
  joined \/ caller \in {"free", "gone"} =>
    ~running /\ ~tsock /\ thread \in {"none", "done"}

Stopping == caller \in {"signal", "close", "join", "free"}
Stopped  == caller \in {"idle", "gone"}

\* raop_ntp_stop and raop_ntp_destroy return, whatever the network does: on
\* Windows at once, with pthreads when the three seconds of a wait end that began
\* just after the signal.
NtpStopReturns ==
  /\ Stopping /\ windows ~> Stopped
  /\ WF_ntpvars(WaitTimesOut) => (Stopping ~> Stopped)

\* raop_ntp.c:202 says "We're calling recvfrom without knowing whether there is
\* any data, so we need a timeout": with pthreads a receive ends although no
\* response comes.
ReceiveReturns == thread = "receive" /\ ~windows ~> thread # "receive"
=============================================================================
