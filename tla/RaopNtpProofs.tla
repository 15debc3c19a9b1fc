---------------------------- MODULE RaopNtpProofs ---------------------------
(* Theorems about RaopNtp, for every length of the ring and all samples: its *)
(* type invariant, that the object is quiet when it is joined or given back, *)
(* and that the offset is that of the least delayed of the last responses.   *)
EXTENDS RaopNtp, SequenceTheorems, TLAPS

-----------------------------------------------------------------------------
(* The life of the thread.                                                  *)

\* What running, joined and the place in raop_ntp_stop tell of the thread.
Lifecycle ==
  /\ joined  => ~running /\ ~tsock /\ thread \in {"none", "done"}
  /\ running => tsock /\ caller = "idle" /\ thread \notin {"none", "exit", "done"}
  /\ ~running /\ ~joined => caller \in {"signal", "close", "join"}
  /\ caller \in {"free", "gone"} => joined
  /\ caller = "join" => ~tsock

LifeInv == NtpTypeOK /\ Lifecycle

LEMMA RingSize ==
  /\ DataCount \in Nat /\ DataCount > 0 /\ MaxDisp \in Int
  /\ 0 \in Indices /\ Indices \subseteq Nat
  /\ \A s \in Samples : s.delay \in Int /\ s.delay < MaxDisp
BY NtpAssumption DEF Indices

LEMMA NextIsIndex == data_index \in Indices => NextIndex \in Indices
BY RingSize, SMT DEF Indices, NextIndex

-----------------------------------------------------------------------------
(* The ring and the responses.                                              *)

\* How many responses ago the sample at i was written.
Age(i) == IF i <= data_index THEN data_index - i ELSE data_index - i + DataCount

\* The ring holds the last responses, the newest at data_index, and no sample in
\* the other places.
RingHoldsRecent ==
  /\ recent \in Seq(Samples)
  /\ Len(recent) <= DataCount
  /\ \A i \in Indices :
       data[i] = IF Age(i) < Len(recent) THEN recent[Age(i) + 1] ELSE NoSample

\* The offset was taken from a sample of least delay.
OffsetTaken ==
  recent # <<>> => \E i \in LeastDelayed(data) : sync_offset = data[i].offset

RingInv == /\ data_index \in Indices
           /\ RingHoldsRecent
           /\ OffsetTaken

-----------------------------------------------------------------------------
(* Both hold in the beginning.                                              *)

LEMMA InitEstablishes == Init => LifeInv /\ RingInv
<1> SUFFICES ASSUME Init PROVE LifeInv /\ RingInv
  OBVIOUS
<1>1. recent = <<>> /\ recent \in Seq(Samples) /\ Len(recent) = 0
  BY EmptySeq DEF Init
<1>2. LifeInv
  <2>1. data \in [Indices -> Samples \cup {NoSample}]
    BY DEF Init
  <2>2. NtpTypeOK
    BY <1>1, <2>1, RingSize DEF Init, NtpTypeOK
  <2> QED
    BY <2>2 DEF Init, LifeInv, Lifecycle
<1>3. \A i \in Indices : ~(Age(i) < Len(recent))
  BY <1>1, RingSize DEF Init, Age, Indices
<1>4. RingInv
  BY <1>1, <1>3, RingSize DEF Init, RingInv, RingHoldsRecent, OffsetTaken
<1> QED
  BY <1>2, <1>4

-----------------------------------------------------------------------------
(* Every step but a response leaves the clock alone, and keeps the life of   *)
(* the thread.                                                               *)

LEMMA SameClock ==
  ASSUME UNCHANGED clock
  PROVE  RingInv => RingInv'
BY DEF clock, RingInv, RingHoldsRecent, OffsetTaken, Age, LeastDelayed

\* The steps of the thread, of the stop sequence and of the network.
LEMMA StepsKeep ==
  ASSUME LifeInv, RingInv,
         \/ TestRunning \/ FlushSocket \/ SendRequest \/ SendFails \/ ReceiveTimesOut
         \/ ReceiveFails \/ ReceiveRefused \/ BeginWait \/ Woken \/ WaitTimesOut
         \/ ClearRunning \/ raop_ntp_start \/ Signal \/ CloseSocket \/ JoinThread
         \/ Free \/ Arrive
  PROVE  LifeInv' /\ RingInv'
<1> USE DEF life, calls, LifeInv, Lifecycle
<1>0. RingInv'
  BY SameClock DEF TestRunning, FlushSocket, SendRequest, SendFails, ReceiveTimesOut, ReceiveFails,
       ReceiveRefused, BeginWait, Woken, WaitTimesOut, ClearRunning, raop_ntp_start,
       Signal, CloseSocket, JoinThread, Free, Arrive
<1> HIDE DEF RingInv
<1>1. CASE TestRunning
  <2>1. NtpTypeOK'
    BY <1>1 DEF NtpTypeOK, clock, TestRunning
  <2>2. Lifecycle'
    BY <1>1 DEF NtpTypeOK, TestRunning
  <2> QED
    BY <1>0, <2>1, <2>2
<1>2. CASE FlushSocket
  <2>1. NtpTypeOK'
    BY <1>2 DEF NtpTypeOK, clock, FlushSocket
  <2>2. Lifecycle'
    BY <1>2 DEF NtpTypeOK, FlushSocket
  <2> QED
    BY <1>0, <2>1, <2>2
<1>3. CASE SendRequest
  <2>1. NtpTypeOK'
    BY <1>3 DEF NtpTypeOK, clock, SendRequest
  <2>2. Lifecycle'
    BY <1>3 DEF NtpTypeOK, SendRequest
  <2> QED
    BY <1>0, <2>1, <2>2
<1>4. CASE SendFails
  <2>1. NtpTypeOK'
    BY <1>4 DEF NtpTypeOK, clock, SendFails
  <2>2. Lifecycle'
    BY <1>4 DEF NtpTypeOK, SendFails
  <2> QED
    BY <1>0, <2>1, <2>2
<1>5. CASE ReceiveTimesOut
  <2>1. NtpTypeOK'
    BY <1>5 DEF NtpTypeOK, clock, ReceiveTimesOut
  <2>2. Lifecycle'
    BY <1>5 DEF NtpTypeOK, ReceiveTimesOut
  <2> QED
    BY <1>0, <2>1, <2>2
<1>6. CASE ReceiveFails
  <2>1. NtpTypeOK'
    BY <1>6 DEF NtpTypeOK, clock, ReceiveFails
  <2>2. Lifecycle'
    BY <1>6 DEF NtpTypeOK, ReceiveFails
  <2> QED
    BY <1>0, <2>1, <2>2
<1>7. CASE ReceiveRefused
  <2>1. NtpTypeOK'
    BY <1>7 DEF NtpTypeOK, clock, ReceiveRefused
  <2>2. Lifecycle'
    BY <1>7 DEF NtpTypeOK, ReceiveRefused
  <2> QED
    BY <1>0, <2>1, <2>2
<1>8. CASE BeginWait
  <2>1. NtpTypeOK'
    BY <1>8 DEF NtpTypeOK, clock, BeginWait
  <2>2. Lifecycle'
    BY <1>8 DEF NtpTypeOK, BeginWait
  <2> QED
    BY <1>0, <2>1, <2>2
<1>9. CASE Woken
  <2>1. NtpTypeOK'
    BY <1>9 DEF NtpTypeOK, clock, Woken
  <2>2. Lifecycle'
    BY <1>9 DEF NtpTypeOK, Woken
  <2> QED
    BY <1>0, <2>1, <2>2
<1>10. CASE WaitTimesOut
  <2>1. NtpTypeOK'
    BY <1>10 DEF NtpTypeOK, clock, WaitTimesOut
  <2>2. Lifecycle'
    BY <1>10 DEF NtpTypeOK, WaitTimesOut
  <2> QED
    BY <1>0, <2>1, <2>2
<1>11. CASE ClearRunning
  <2>1. NtpTypeOK'
    BY <1>11 DEF NtpTypeOK, clock, ClearRunning
  <2>2. Lifecycle'
    BY <1>11 DEF NtpTypeOK, ClearRunning
  <2> QED
    BY <1>0, <2>1, <2>2
<1>12. CASE raop_ntp_start
  <2>1. NtpTypeOK'
    BY <1>12 DEF NtpTypeOK, clock, raop_ntp_start
  <2>2. Lifecycle'
    BY <1>12 DEF NtpTypeOK, raop_ntp_start
  <2> QED
    BY <1>0, <2>1, <2>2
<1>13. CASE Signal
  <2>1. NtpTypeOK'
    BY <1>13 DEF NtpTypeOK, clock, Signal, EventAfterSignal
  <2>2. Lifecycle'
    BY <1>13 DEF NtpTypeOK, Signal
  <2> QED
    BY <1>0, <2>1, <2>2
<1>14. CASE CloseSocket
  <2>1. NtpTypeOK'
    BY <1>14 DEF NtpTypeOK, clock, CloseSocket
  <2>2. Lifecycle'
    BY <1>14 DEF NtpTypeOK, CloseSocket
  <2> QED
    BY <1>0, <2>1, <2>2
<1>15. CASE JoinThread
  <2>1. NtpTypeOK'
    BY <1>15 DEF NtpTypeOK, clock, JoinThread
  <2>2. Lifecycle'
    BY <1>15 DEF NtpTypeOK, JoinThread
  <2> QED
    BY <1>0, <2>1, <2>2
<1>16. CASE Free
  <2>1. NtpTypeOK'
    BY <1>16 DEF NtpTypeOK, clock, Free
  <2>2. Lifecycle'
    BY <1>16 DEF NtpTypeOK, Free
  <2> QED
    BY <1>0, <2>1, <2>2
<1>17. CASE Arrive
  <2>1. NtpTypeOK'
    BY <1>17 DEF NtpTypeOK, clock, Arrive
  <2>2. Lifecycle'
    BY <1>17 DEF NtpTypeOK, Arrive
  <2> QED
    BY <1>0, <2>1, <2>2
<1> QED
  BY <1>1, <1>2, <1>3, <1>4, <1>5, <1>6, <1>7, <1>8, <1>9, <1>10, <1>11, <1>12, <1>13, <1>14, <1>15, <1>16, <1>17

\* raop_ntp_stop clears running when there is a thread to wait for.
LEMMA StopKeeps ==
  ASSUME LifeInv, RingInv, NEW destroy \in BOOLEAN, raop_ntp_stop(destroy)
  PROVE  LifeInv' /\ RingInv'
<1>1. RingInv'
  BY SameClock DEF raop_ntp_stop
<1>2. UNCHANGED <<joined, tsock, queued, thread, event, clock>>
      /\ destroying' = destroy /\ caller = "idle"
  BY DEF raop_ntp_stop
<1>3. CASE ~running \/ joined
  <2>1. UNCHANGED running /\ caller' = IF destroy THEN "free" ELSE "idle"
    BY <1>3 DEF raop_ntp_stop
  <2>2. joined
    BY <1>2, <1>3 DEF LifeInv, Lifecycle
  <2>3. NtpTypeOK'
    BY <1>2, <2>1 DEF LifeInv, NtpTypeOK, clock
  <2>4. Lifecycle'
    BY <1>2, <2>1, <2>2 DEF LifeInv, Lifecycle
  <2> QED
    BY <1>1, <2>3, <2>4 DEF LifeInv
<1>4. CASE running /\ ~joined
  <2>1. running' = FALSE /\ caller' = "signal"
    BY <1>4 DEF raop_ntp_stop
  <2>2. NtpTypeOK'
    BY <1>2, <2>1 DEF LifeInv, NtpTypeOK, clock
  <2>3. Lifecycle'
    BY <1>2, <1>4, <2>1 DEF LifeInv, Lifecycle
  <2> QED
    BY <1>1, <2>2, <2>3 DEF LifeInv
<1> QED
  BY <1>3, <1>4 DEF LifeInv, NtpTypeOK

-----------------------------------------------------------------------------
(* A response.                                                              *)

\* recent becomes the sample and the responses before it, the oldest forgotten.
LEMMA RecentGrows ==
  ASSUME RingInv, NEW sample \in Samples,
         recent' = Newest(DataCount, <<sample>> \o recent)
  PROVE  /\ recent' \in Seq(Samples)
         /\ Len(recent') = IF Len(recent) < DataCount THEN Len(recent) + 1 ELSE DataCount
         /\ Len(recent) \in Nat
         /\ recent'[1] = sample
         /\ \A k \in 2 .. Len(recent') : recent'[k] = recent[k - 1]
<1> DEFINE s == <<sample>> \o recent
           n == IF Len(s) < DataCount THEN Len(s) ELSE DataCount
<1>1. recent \in Seq(Samples) /\ Len(recent) \in Nat /\ Len(recent) <= DataCount
  BY LenProperties DEF RingInv, RingHoldsRecent
<1>2. <<sample>> \in Seq(Samples) /\ Len(<<sample>>) = 1 /\ <<sample>>[1] = sample
  OBVIOUS
<1>3. /\ s \in Seq(Samples)
      /\ Len(s) = Len(recent) + 1
      /\ \A i \in 1 .. 1 + Len(recent) :
           s[i] = IF i <= 1 THEN <<sample>>[i] ELSE recent[i - 1]
  <2>1. /\ <<sample>> \o recent \in Seq(Samples)
        /\ Len(<<sample>> \o recent) = Len(<<sample>>) + Len(recent)
        /\ \A i \in 1 .. Len(<<sample>>) + Len(recent) :
             (<<sample>> \o recent)[i]
               = IF i <= Len(<<sample>>) THEN <<sample>>[i] ELSE recent[i - Len(<<sample>>)]
    BY <1>1, <1>2, ConcatProperties
  <2> QED
    BY <1>1, <1>2, <2>1
<1>4. s[1] = sample /\ \A i \in 2 .. Len(s) : s[i] = recent[i - 1]
  BY <1>1, <1>2, <1>3
<1> HIDE DEF s
<1>5. n \in Int /\ 1 <= n /\ n <= Len(s)
      /\ n = IF Len(recent) < DataCount THEN Len(recent) + 1 ELSE DataCount
  BY <1>1, <1>3, RingSize
<1>6. recent' = SubSeq(s, 1, n)
  BY DEF Newest, s
<1> HIDE DEF n
<1>7. \A i \in 1 .. n : s[i] \in Samples
  BY <1>3, <1>5, ElementOfSeq
<1>8. /\ SubSeq(s, 1, n) \in Seq(Samples)
      /\ Len(SubSeq(s, 1, n)) = n
      /\ \A i \in 1 .. n : SubSeq(s, 1, n)[i] = s[i]
  <2>1. 1 \in Int
    OBVIOUS
  <2>2. /\ SubSeq(s, 1, n) \in Seq(Samples)
        /\ Len(SubSeq(s, 1, n)) = IF 1 <= n THEN n - 1 + 1 ELSE 0
        /\ \A i \in 1 .. n - 1 + 1 : SubSeq(s, 1, n)[i] = s[1 + i - 1]
    BY <1>5, <1>7, <2>1, SubSeqProperties
  <2> QED
    BY <1>5, <2>2
<1>9. recent' \in Seq(Samples) /\ Len(recent') = n /\ \A i \in 1 .. n : recent'[i] = s[i]
  BY <1>6, <1>8
<1>10. recent'[1] = sample
  BY <1>4, <1>5, <1>9
<1>11. ASSUME NEW k \in 2 .. Len(recent')
       PROVE  recent'[k] = recent[k - 1]
  <2>1. k \in 1 .. n /\ k \in 2 .. Len(s)
    BY <1>1, <1>3, <1>5, <1>9, <1>11
  <2> QED
    BY <1>4, <1>9, <2>1
<1> QED
  BY <1>1, <1>5, <1>9, <1>10, <1>11

\* Writing the next place makes every other sample one response older.
LEMMA AgesGrow ==
  ASSUME data_index \in Indices, data_index' = NextIndex
  PROVE  \A i \in Indices : /\ Age(i) \in 0 .. DataCount - 1
                            /\ i # NextIndex => Age(i)' = Age(i) + 1
                            /\ i # NextIndex => Age(i) + 1 < DataCount
                            /\ i = NextIndex => Age(i)' = 0
<1>1. NextIndex = IF data_index + 1 = DataCount THEN 0 ELSE data_index + 1
  BY RingSize, SMT DEF Indices, NextIndex
<1>2. data_index \in Int /\ DataCount \in Int /\ 0 <= data_index /\ data_index < DataCount
  BY RingSize DEF Indices
<1>3. ASSUME NEW i \in Indices
      PROVE  /\ Age(i) \in 0 .. DataCount - 1
             /\ i # NextIndex => Age(i)' = Age(i) + 1
             /\ i # NextIndex => Age(i) + 1 < DataCount
             /\ i = NextIndex => Age(i)' = 0
  <2> DEFINE next == NextIndex
  <2>1. i \in Int /\ 0 <= i /\ i < DataCount
    BY <1>2 DEF Indices
  <2>2. Age(i)' = IF i <= next THEN next - i ELSE next - i + DataCount
    BY DEF Age
  <2>3. next = IF data_index + 1 = DataCount THEN 0 ELSE data_index + 1
    BY <1>1
  <2> HIDE DEF next
  <2>4. next = NextIndex
    BY DEF next
  <2>5. Age(i) \in 0 .. DataCount - 1
    BY <1>2, <2>1 DEF Age
  <2>6. i # next => Age(i)' = Age(i) + 1 /\ Age(i) + 1 < DataCount
    BY <1>2, <2>1, <2>2, <2>3 DEF Age
  <2>7. i = next => Age(i)' = 0
    BY <1>2, <2>1, <2>2, <2>3
  <2> QED
    BY <2>4, <2>5, <2>6, <2>7
<1> QED
  BY <1>3

\* Every response that is remembered has its place.
LEMMA EachHasAPlace ==
  ASSUME RingInv, NEW j \in DOMAIN recent
  PROVE  \E i \in Indices : data[i] = recent[j]
<1>1. /\ recent \in Seq(Samples) /\ DOMAIN recent = 1 .. Len(recent) /\ Len(recent) \in Nat
      /\ Len(recent) <= DataCount /\ data_index \in Indices
  BY LenProperties DEF RingInv, RingHoldsRecent
<1> DEFINE i == IF j - 1 <= data_index THEN data_index - (j - 1)
                ELSE data_index - (j - 1) + DataCount
<1>2. j \in Int /\ 1 <= j /\ j <= Len(recent) /\ j <= DataCount
  <2>1. j \in 1 .. Len(recent)
    BY <1>1
  <2> QED
    BY <1>1, <2>1, RingSize
<1>3. i \in Indices /\ Age(i) = j - 1
  BY <1>1, <1>2, RingSize DEF Indices, Age
<1> HIDE DEF i
<1>4. data[i] = recent[j]
  BY <1>1, <1>2, <1>3 DEF RingInv, RingHoldsRecent
<1> QED
  BY <1>3, <1>4

LEMMA ResponseKeeps ==
  ASSUME LifeInv, RingInv, NEW sample \in Samples, ReceiveResponse(sample)
  PROVE  LifeInv' /\ RingInv'
<1>1. /\ thread = "receive" /\ thread' = "wait" /\ queued' = FALSE
      /\ UNCHANGED <<running, joined, tsock, event, caller, destroying>>
      /\ data_index' = NextIndex
      /\ data' = [data EXCEPT ![NextIndex] = sample]
      /\ recent' = Newest(DataCount, <<sample>> \o recent)
  BY DEF ReceiveResponse, life, calls
<1>2. PICK i \in LeastDelayed(data') : sync_offset' = data'[i].offset
  BY DEF ReceiveResponse, Sorted
<1>3. data_index \in Indices /\ NextIndex \in Indices
  BY NextIsIndex DEF RingInv
<1>4. /\ recent' \in Seq(Samples)
      /\ Len(recent') = IF Len(recent) < DataCount THEN Len(recent) + 1 ELSE DataCount
      /\ Len(recent) \in Nat
      /\ recent'[1] = sample
      /\ \A k \in 2 .. Len(recent') : recent'[k] = recent[k - 1]
  BY <1>1, RecentGrows
<1>5. data \in [Indices -> Samples \cup {NoSample}]
  BY DEF LifeInv, NtpTypeOK
<1>6. data' \in [Indices -> Samples \cup {NoSample}]
  BY <1>1, <1>3, <1>5
<1>7. Len(recent') \in Nat /\ Len(recent') <= DataCount /\ Len(recent') >= 1
  BY <1>4, RingSize
<1>8. RingHoldsRecent'
  <2> SUFFICES ASSUME NEW j \in Indices
               PROVE  data'[j] = IF Age(j)' < Len(recent') THEN recent'[Age(j)' + 1]
                                 ELSE NoSample
    BY <1>4, <1>7 DEF RingHoldsRecent
  <2>1. CASE j = NextIndex
    BY <1>1, <1>3, <1>4, <1>5, <1>7, <2>1, AgesGrow
  <2>2. CASE j # NextIndex
    <3>1. data'[j] = data[j]
      BY <1>1, <1>5, <2>2
    <3>2. Age(j)' = Age(j) + 1 /\ Age(j) + 1 < DataCount /\ Age(j) \in Nat
      BY <1>1, <1>3, <2>2, AgesGrow
    <3>3. data[j] = IF Age(j) < Len(recent) THEN recent[Age(j) + 1] ELSE NoSample
      BY DEF RingInv, RingHoldsRecent
    <3> DEFINE a == Age(j)
               b == Age(j)'
    <3> HIDE DEF a, b
    <3>4. b = a + 1 /\ a + 1 < DataCount /\ a \in Nat
      BY <3>2 DEF a, b
    <3>5. a < Len(recent) <=> b < Len(recent')
      BY <1>4, <3>4, RingSize
    <3>6. b < Len(recent') => recent'[b + 1] = recent[a + 1]
      BY <1>4, <1>7, <3>4
    <3> QED
      BY <3>1, <3>3, <3>5, <3>6 DEF a, b
  <2> QED
    BY <2>1, <2>2
<1>9. OffsetTaken'
  BY <1>2 DEF OffsetTaken, LeastDelayed
<1>10. data_index' \in Indices
  BY <1>1, <1>3
<1>11. RingInv'
  BY <1>8, <1>9, <1>10 DEF RingInv
<1>12. sync_offset' \in {s.offset : s \in Samples} \cup {0}
  <2>1. i \in Indices
    BY <1>2 DEF LeastDelayed
  <2> QED
    BY <1>2, <1>6, <2>1 DEF NoSample
<1>13. NtpTypeOK'
  BY <1>1, <1>6, <1>7, <1>10, <1>12 DEF LifeInv, NtpTypeOK
<1>14. Lifecycle'
  BY <1>1 DEF LifeInv, Lifecycle
<1> QED
  BY <1>11, <1>13, <1>14 DEF LifeInv

LEMMA NtpInvariant == Spec => [](LifeInv /\ RingInv)
<1>1. LifeInv /\ RingInv /\ [Next]_<<windows, ntpvars>> => (LifeInv /\ RingInv)'
  <2> SUFFICES ASSUME LifeInv, RingInv, [Next]_<<windows, ntpvars>>
               PROVE  LifeInv' /\ RingInv'
    OBVIOUS
  <2>1. CASE UNCHANGED <<windows, ntpvars>>
    <3>1. UNCHANGED clock
      BY <2>1 DEF ntpvars
    <3>2. LifeInv'
      BY <2>1 DEF ntpvars, life, clock, calls, LifeInv, NtpTypeOK, Lifecycle
    <3> QED
      BY <3>1, <3>2, SameClock
  <2>2. CASE Next
    BY <2>2, StepsKeep, StopKeeps, ResponseKeeps DEF Next, ThreadStep, StopStep, CallStep
  <2> QED
    BY <2>1, <2>2
<1> QED
  BY <1>1, InitEstablishes, PTL DEF Spec

-----------------------------------------------------------------------------
(* What follows from it.                                                    *)

\* The variables keep their types, the offset among them: it is 0 or that of a
\* sample.
THEOREM NtpTypeCorrect == Spec => []NtpTypeOK
<1>1. LifeInv => NtpTypeOK
  BY DEF LifeInv
<1> QED
  BY <1>1, NtpInvariant, PTL

\* raop_ntp_stop and raop_ntp_destroy leave neither a thread nor an open socket,
\* on both platforms.
THEOREM JoinedClockIsQuiet == Spec => []JoinedIsQuiet
<1>1. LifeInv => JoinedIsQuiet
  BY DEF LifeInv, Lifecycle, JoinedIsQuiet
<1> QED
  BY <1>1, NtpInvariant, PTL

\* The offset is that of one of the last DataCount responses with the least delay,
\* for any ring and any responses.
THEOREM OffsetIsOfLeastDelayed == Spec => []OffsetOfLeastDelayed
<1>1. RingInv /\ LifeInv => OffsetOfLeastDelayed
  <2> SUFFICES ASSUME RingInv, LifeInv, recent # <<>>
               PROVE  \E k \in DOMAIN recent :
                        /\ sync_offset = recent[k].offset
                        /\ \A j \in DOMAIN recent : recent[k].delay <= recent[j].delay
    BY DEF OffsetOfLeastDelayed
  <2>1. /\ recent \in Seq(Samples) /\ DOMAIN recent = 1 .. Len(recent)
        /\ Len(recent) \in Nat /\ Len(recent) > 0
    BY LenProperties, EmptySeq DEF RingInv, RingHoldsRecent
  <2>2. PICK i \in LeastDelayed(data) : sync_offset = data[i].offset
    BY DEF RingInv, OffsetTaken
  <2>3. i \in Indices /\ \A j \in Indices : data[i].delay <= data[j].delay
    BY <2>2 DEF LeastDelayed
  <2>4. \A j \in DOMAIN recent : data[i].delay <= recent[j].delay
    BY <2>3, EachHasAPlace
  <2>5. recent[1] \in Samples /\ 1 \in DOMAIN recent
    BY <2>1, ElementOfSeq
  <2>6. data[i] # NoSample
    <3>1. data[i].delay <= recent[1].delay
      BY <2>4, <2>5
    <3>2. recent[1].delay \in Int /\ recent[1].delay < MaxDisp /\ MaxDisp \in Int
      BY <2>5, RingSize
    <3>3. NoSample.delay = MaxDisp
      BY DEF NoSample
    <3> QED
      BY <3>1, <3>2, <3>3
  <2>7. Age(i) < Len(recent) /\ data[i] = recent[Age(i) + 1]
    BY <2>3, <2>6 DEF RingInv, RingHoldsRecent
  <2>8. Age(i) \in Nat
    BY <2>3, RingSize DEF RingInv, Age, Indices
  <2>9. Age(i) + 1 \in DOMAIN recent
    BY <2>1, <2>7, <2>8
  <2> QED
    BY <2>2, <2>4, <2>7, <2>9
<1> QED
  BY <1>1, NtpInvariant, PTL
=============================================================================
