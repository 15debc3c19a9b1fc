----------------------------- MODULE HttpdProofs ----------------------------
(* Theorems about Httpd, for every number of connections: its type           *)
(* invariant, the accounting of the connections, that there is room where    *)
(* the thread accepts, and that the server is given back when it is quiet.   *)
EXTENDS Httpd, FiniteSetTheorems, TLAPS

-----------------------------------------------------------------------------
(* The inductive invariant.                                                 *)

\* The thread holds the server socket and the connections.
Busy == thread \in {"test", "select", "accept", "serve", "send", "remove"}

\* Who is ready, or is answered, has a connection; who is answered is not served
\* again before the next select.
ReadyAreConnected ==
  /\ thread \in {"accept", "serve", "send"} => ready \subseteq connected
  /\ thread = "send" => sending.slot \in connected \ ready

\* The thread accepts only while there is room.
RoomToAccept == thread = "accept" => Room

\* What running and joined tell the main thread.
Lifecycle ==
  /\ ~Busy => connected = {} /\ ~server_fd /\ ~running
  /\ Busy /\ main \in {"init", "started", "loop", "stop"} => running
  /\ main = "init" => thread = "none"
  /\ joined => thread \in {"none", "done"}
  /\ main \in {"free", "freed"} => ~Busy

HttpdInv == /\ HttpdTypeOK
            /\ ConnectionsAccounted
            /\ ReadyAreConnected
            /\ RoomToAccept
            /\ Lifecycle

-----------------------------------------------------------------------------
(* Counting slots.                                                          *)

\* background_visits counts as far as connections go without wrapping.
LEMMA VisitsCounted ==
  ASSUME NEW n \in 0 .. max_connections
  PROVE  Visits(n) = n
<1>1. n \in Int /\ 0 <= n /\ n < 65536
  BY HttpdAssumption, SMT
<1> QED
  BY <1>1, SMT DEF Visits

LEMMA SlotsCounted ==
  /\ max_connections \in Nat
  /\ IsFiniteSet(Slots)
  /\ Cardinality(Slots) = max_connections
<1>1. max_connections \in Nat /\ max_connections > 0
  BY HttpdAssumption
<1>2. /\ IsFiniteSet(1 .. max_connections)
      /\ Cardinality(1 .. max_connections)
           = IF 1 > max_connections THEN 0 ELSE max_connections - 1 + 1
  BY <1>1, FS_Interval
<1> QED
  BY <1>1, <1>2 DEF Slots

LEMMA ConnectedCounted ==
  ASSUME NEW C \in SUBSET Slots
  PROVE  IsFiniteSet(C) /\ Cardinality(C) \in Nat /\ Cardinality(C) <= max_connections
BY SlotsCounted, FS_Subset, FS_CardinalityType

\* httpd_remove_connection gives the place of a connection back.
LEMMA PlaceGivenBack ==
  ASSUME HttpdTypeOK, ConnectionsAccounted, NEW i \in connected, RemoveConnection(i)
  PROVE  /\ ConnectionsAccounted'
         /\ connected' = connected \ {i}
         /\ connected' \subseteq Slots
         /\ background_visits' \in 0 .. max_connections
<1>1. connected \in SUBSET Slots
  BY DEF HttpdTypeOK
<1>2. IsFiniteSet(connected) /\ Cardinality(connected) \in Nat
      /\ Cardinality(connected) <= max_connections
  BY <1>1, ConnectedCounted
<1>3. Cardinality(connected \ {i}) = Cardinality(connected) - 1
      /\ IsFiniteSet(connected \ {i})
  BY <1>2, FS_RemoveElement
<1>4. Cardinality(connected \ {i}) \in Nat
  BY <1>3, FS_CardinalityType
<1>5. connected' = connected \ {i} /\ request' = request \ {i}
      /\ open_connections' = open_connections - 1
      /\ background_visits' = Visits(background_visits - 1)
  BY DEF RemoveConnection
<1>6. open_connections = Cardinality(connected) /\ background_visits = open_connections
      /\ request \subseteq connected
  BY DEF ConnectionsAccounted
<1>7. open_connections' = Cardinality(connected') /\ open_connections' \in Nat
  BY <1>3, <1>4, <1>5, <1>6
<1>8. open_connections' \in 0 .. max_connections
  BY <1>2, <1>3, <1>5, <1>6, <1>7, SlotsCounted
<1>9. background_visits' = open_connections' /\ background_visits' \in 0 .. max_connections
  BY <1>5, <1>6, <1>8, VisitsCounted
<1>10. request' \subseteq connected'
  BY <1>5, <1>6
<1> QED
  BY <1>1, <1>5, <1>7, <1>9, <1>10 DEF ConnectionsAccounted

\* httpd_add_connection takes a place that is free.
LEMMA PlaceTaken ==
  ASSUME HttpdInv, AddConnection
  PROVE  /\ ConnectionsAccounted'
         /\ connected' \subseteq Slots
         /\ connected \subseteq connected'
         /\ background_visits' \in 0 .. max_connections
<1>1. PICK i \in FreeSlots : connected' = connected \cup {i}
  BY DEF AddConnection
<1>2. i \in Slots /\ i \notin connected
  BY <1>1 DEF FreeSlots
<1>3. connected \in SUBSET Slots
  BY DEF HttpdInv, HttpdTypeOK
<1>4. IsFiniteSet(connected) /\ Cardinality(connected) \in Nat
  BY <1>3, ConnectedCounted
<1>5. Cardinality(connected') = Cardinality(connected) + 1
  BY <1>1, <1>2, <1>4, FS_AddElement
<1>6. open_connections = Cardinality(connected) /\ background_visits = open_connections
      /\ request \subseteq connected
  BY DEF HttpdInv, ConnectionsAccounted
<1>7. open_connections < max_connections
  BY DEF HttpdInv, RoomToAccept, AddConnection, At, Room
<1>8. open_connections' = open_connections + 1
      /\ background_visits' = Visits(background_visits + 1)
      /\ request' = request
  BY DEF AddConnection
<1>9. background_visits + 1 \in 0 .. max_connections
  BY <1>4, <1>6, <1>7, SlotsCounted
<1>10. background_visits' = background_visits + 1
  BY <1>8, <1>9, VisitsCounted
<1> QED
  BY <1>1, <1>2, <1>3, <1>5, <1>6, <1>8, <1>9, <1>10 DEF ConnectionsAccounted

-----------------------------------------------------------------------------
(* The invariant is inductive.                                              *)

LEMMA InitEstablishes == Init => HttpdInv
<1> SUFFICES ASSUME Init PROVE HttpdInv
  OBVIOUS
<1>1. Cardinality({}) = 0
  BY FS_EmptySet
<1>2. HttpdTypeOK
  <2>1. 0 \in 0 .. max_connections
    BY SlotsCounted
  <2>2. sending \in [slot : Slots \cup {0}, disconnect : BOOLEAN]
    BY DEF Init, NotSending
  <2> QED
    BY <2>1, <2>2 DEF Init, HttpdTypeOK
<1>3. ConnectionsAccounted
  BY <1>1 DEF Init, ConnectionsAccounted
<1>4. ReadyAreConnected /\ RoomToAccept /\ Lifecycle
  BY DEF Init, ReadyAreConnected, RoomToAccept, Lifecycle, Busy
<1> QED
  BY <1>2, <1>3, <1>4 DEF HttpdInv

\* Steps that leave the slots alone.
LEMMA SameSlots ==
  ASSUME ConnectionsAccounted, UNCHANGED slots
  PROVE  ConnectionsAccounted'
BY DEF ConnectionsAccounted, slots

LEMMA LoopKeeps ==
  ASSUME HttpdInv,
         TestRunning \/ SelectTimeout \/ SelectFails \/ Select \/ RefuseConnection
           \/ AcceptFails \/ ServedAll \/ BrokenPipe \/ Return
  PROVE  HttpdInv'
<1> USE DEF life, slots, rfds, program, At
<1>1. ConnectionsAccounted'
  BY SameSlots DEF HttpdInv, TestRunning, SelectTimeout, SelectFails, Select,
       RefuseConnection, AcceptFails, ServedAll, BrokenPipe, Return
<1>2. HttpdTypeOK'
  <2>1. CASE TestRunning
    BY <2>1 DEF HttpdInv, HttpdTypeOK, TestRunning
  <2>2. CASE SelectTimeout
    BY <2>2 DEF HttpdInv, HttpdTypeOK, SelectTimeout
  <2>3. CASE SelectFails
    BY <2>3 DEF HttpdInv, HttpdTypeOK, SelectFails
  <2>4. CASE Select
    BY <2>4 DEF HttpdInv, HttpdTypeOK, Select
  <2>5. CASE RefuseConnection
    BY <2>5 DEF HttpdInv, HttpdTypeOK, RefuseConnection
  <2>6. CASE AcceptFails
    BY <2>6 DEF HttpdInv, HttpdTypeOK, AcceptFails
  <2>7. CASE ServedAll
    BY <2>7 DEF HttpdInv, HttpdTypeOK, ServedAll
  <2>8. CASE BrokenPipe
    BY <2>8 DEF HttpdInv, HttpdTypeOK, BrokenPipe
  <2>9. CASE Return
    BY <2>9 DEF HttpdInv, HttpdTypeOK, Return
  <2> QED
    BY <2>1, <2>2, <2>3, <2>4, <2>5, <2>6, <2>7, <2>8, <2>9
<1>3. ReadyAreConnected'
  BY DEF HttpdInv, HttpdTypeOK, ReadyAreConnected, TestRunning, SelectTimeout,
       SelectFails, Select, RefuseConnection, AcceptFails, ServedAll, BrokenPipe, Return
<1>4. RoomToAccept'
  BY DEF HttpdInv, RoomToAccept, Room, TestRunning, SelectTimeout,
       SelectFails, Select, RefuseConnection, AcceptFails, ServedAll, BrokenPipe, Return
<1>5. Lifecycle'
  <2>1. CASE TestRunning
    BY <2>1 DEF HttpdInv, Lifecycle, Busy, TestRunning, Stopping
  <2>2. CASE SelectTimeout
    BY <2>2 DEF HttpdInv, Lifecycle, Busy, SelectTimeout
  <2>3. CASE SelectFails
    BY <2>3 DEF HttpdInv, Lifecycle, Busy, SelectFails
  <2>4. CASE Select
    BY <2>4 DEF HttpdInv, Lifecycle, Busy, Select
  <2>5. CASE RefuseConnection
    BY <2>5 DEF HttpdInv, Lifecycle, Busy, RefuseConnection
  <2>6. CASE AcceptFails
    BY <2>6 DEF HttpdInv, Lifecycle, Busy, AcceptFails
  <2>7. CASE ServedAll
    BY <2>7 DEF HttpdInv, Lifecycle, Busy, ServedAll
  <2>8. CASE BrokenPipe
    BY <2>8 DEF HttpdInv, Lifecycle, Busy, BrokenPipe
  <2>9. CASE Return
    BY <2>9 DEF HttpdInv, Lifecycle, Busy, Return
  <2> QED
    BY <2>1, <2>2, <2>3, <2>4, <2>5, <2>6, <2>7, <2>8, <2>9
<1> QED
  BY <1>1, <1>2, <1>3, <1>4, <1>5 DEF HttpdInv

LEMMA AddKeeps ==
  ASSUME HttpdInv, AddConnection
  PROVE  HttpdInv'
<1>1. ConnectionsAccounted' /\ connected' \subseteq Slots /\ connected \subseteq connected'
      /\ background_visits' \in 0 .. max_connections
  BY PlaceTaken
<1>2. HttpdTypeOK'
  BY <1>1 DEF HttpdInv, HttpdTypeOK, AddConnection, life, rfds, program, At
<1>3. ReadyAreConnected'
  BY <1>1 DEF HttpdInv, ReadyAreConnected, AddConnection, rfds, At
<1>4. RoomToAccept'
  BY DEF RoomToAccept, AddConnection
<1>5. Lifecycle'
  BY DEF HttpdInv, Lifecycle, Busy, AddConnection, life, program, At
<1> QED
  BY <1>1, <1>2, <1>3, <1>4, <1>5 DEF HttpdInv

\* What the thread does with a slot that is ready.
LEMMA ServeKeeps ==
  ASSUME HttpdInv, NEW i \in Slots,
         \/ ReceiveEnds(i) \/ ReceivePart(i) \/ ReceiveFails(i) \/ HandleSilently(i)
         \/ \E disconnect \in BOOLEAN : Handle(i, disconnect)
  PROVE  HttpdInv'
<1> USE DEF life, slots, rfds, program, At
<1>1. i \in connected /\ ready \subseteq connected /\ thread = "serve"
  BY DEF HttpdInv, ReadyAreConnected, Serving, ReceiveEnds, ReceivePart, ReceiveFails,
       HandleSilently, Handle
<1>2. /\ ConnectionsAccounted' /\ connected' \subseteq Slots
      /\ connected \ {i} \subseteq connected'
      /\ background_visits' \in 0 .. max_connections
      /\ connected' = connected \/ connected' = connected \ {i}
  <2>1. CASE RemoveConnection(i)
    BY <1>1, <2>1, PlaceGivenBack DEF HttpdInv
  <2>2. CASE /\ request' \subseteq request \cup {i}
             /\ UNCHANGED <<connected, open_connections, background_visits>>
    BY <1>1, <2>2 DEF HttpdInv, HttpdTypeOK, ConnectionsAccounted
  <2> QED
    BY <2>1, <2>2 DEF ReceiveEnds, ReceivePart, ReceiveFails, HandleSilently, Handle
<1>3. ready' = ready \ {i}
  BY DEF ReceiveEnds, ReceivePart, ReceiveFails, HandleSilently, Handle
<1>4. UNCHANGED <<running, joined, server_fd, listening, main, waiting>>
  BY DEF ReceiveEnds, ReceivePart, ReceiveFails, HandleSilently, Handle
<1>5. \/ thread' = "serve" /\ sending' = sending
      \/ /\ thread' = "send" /\ sending'.slot = i /\ connected' = connected
         /\ sending' \in [slot : Slots \cup {0}, disconnect : BOOLEAN]
  BY <1>1 DEF ReceiveEnds, ReceivePart, ReceiveFails, HandleSilently, Handle
<1>6. alive' \in BOOLEAN
  BY DEF HttpdInv, HttpdTypeOK, ReceiveEnds, ReceivePart, ReceiveFails, HandleSilently, Handle
<1>7. HttpdTypeOK'
  BY <1>2, <1>3, <1>4, <1>5, <1>6 DEF HttpdInv, HttpdTypeOK
<1>8. ReadyAreConnected'
  BY <1>1, <1>2, <1>3, <1>5 DEF ReadyAreConnected
<1>9. RoomToAccept'
  BY <1>5 DEF RoomToAccept
<1>10. Lifecycle'
  BY <1>1, <1>4, <1>5 DEF HttpdInv, Lifecycle, Busy
<1> QED
  BY <1>2, <1>7, <1>8, <1>9, <1>10 DEF HttpdInv

LEMMA SentKeeps ==
  ASSUME HttpdInv, Sent
  PROVE  HttpdInv'
<1> USE DEF life, slots, rfds, program, At
<1>1. sending.slot \in connected /\ sending.slot \notin ready /\ ready \subseteq connected
      /\ thread = "send"
  BY DEF HttpdInv, ReadyAreConnected, Sent
<1>2. /\ ConnectionsAccounted' /\ connected' \subseteq Slots
      /\ connected \ {sending.slot} \subseteq connected'
      /\ background_visits' \in 0 .. max_connections
  <2>1. CASE RemoveConnection(sending.slot)
    BY <1>1, <2>1, PlaceGivenBack DEF HttpdInv
  <2>2. CASE UNCHANGED slots
    BY <2>2, SameSlots DEF HttpdInv, HttpdTypeOK
  <2> QED
    BY <2>1, <2>2 DEF Sent
<1>3. HttpdTypeOK'
  BY <1>2 DEF HttpdInv, HttpdTypeOK, Sent, NotSending
<1>4. ReadyAreConnected'
  BY <1>1, <1>2 DEF ReadyAreConnected, Sent
<1>5. RoomToAccept'
  BY DEF RoomToAccept, Sent
<1>6. Lifecycle'
  BY <1>1 DEF HttpdInv, Lifecycle, Busy, Sent
<1> QED
  BY <1>2, <1>3, <1>4, <1>5, <1>6 DEF HttpdInv

LEMMA RemoveKeeps ==
  ASSUME HttpdInv, RemoveNext
  PROVE  HttpdInv'
<1> USE DEF life, rfds, program, At
<1>1. PICK i \in connected : RemoveConnection(i)
  BY DEF RemoveNext
<1>2. /\ ConnectionsAccounted' /\ connected' \subseteq Slots
      /\ background_visits' \in 0 .. max_connections
  BY <1>1, PlaceGivenBack DEF HttpdInv
<1>3. HttpdTypeOK'
  BY <1>2 DEF HttpdInv, HttpdTypeOK, RemoveNext
<1>4. ReadyAreConnected' /\ RoomToAccept'
  BY DEF ReadyAreConnected, RoomToAccept, RemoveNext
<1>5. Lifecycle'
  BY DEF HttpdInv, Lifecycle, Busy, RemoveNext
<1> QED
  BY <1>2, <1>3, <1>4, <1>5 DEF HttpdInv

LEMMA ClearKeeps ==
  ASSUME HttpdInv, ClearRunning
  PROVE  HttpdInv'
<1> USE DEF slots, rfds, program, At
<1>1. ConnectionsAccounted'
  BY SameSlots DEF HttpdInv, ClearRunning
<1>2. HttpdTypeOK'
  BY DEF HttpdInv, HttpdTypeOK, ClearRunning
<1>3. ReadyAreConnected' /\ RoomToAccept'
  BY DEF ReadyAreConnected, RoomToAccept, ClearRunning
<1>4. Lifecycle'
  BY DEF HttpdInv, Lifecycle, Busy, ClearRunning
<1> QED
  BY <1>1, <1>2, <1>3, <1>4 DEF HttpdInv

\* The main thread, and signals.
LEMMA MainKeeps ==
  ASSUME HttpdInv,
         MainStep \/ httpd_start \/ StartFails \/ signal_handler
  PROVE  HttpdInv'
<1> USE DEF life, slots, rfds, program, MainAt, MainStep
<1>1. ConnectionsAccounted'
  BY SameSlots DEF HttpdInv, BeginWaiting, LeaveLoop, httpd_stop, JoinThread, Free,
       httpd_start, StartFails, signal_handler
<1>2. HttpdTypeOK'
  <2>1. CASE BeginWaiting
    BY <2>1 DEF HttpdInv, HttpdTypeOK, BeginWaiting
  <2>2. CASE LeaveLoop
    BY <2>2 DEF HttpdInv, HttpdTypeOK, LeaveLoop
  <2>3. CASE httpd_stop
    BY <2>3 DEF HttpdInv, HttpdTypeOK, httpd_stop
  <2>4. CASE JoinThread
    BY <2>4 DEF HttpdInv, HttpdTypeOK, JoinThread
  <2>5. CASE Free
    BY <2>5 DEF HttpdInv, HttpdTypeOK, Free
  <2>6. CASE httpd_start
    <3>1. /\ running' \in BOOLEAN /\ joined' \in BOOLEAN /\ server_fd' \in BOOLEAN
          /\ thread' = thread \/ thread' = "test"
      <4>1. CASE running' = TRUE /\ joined' = FALSE /\ server_fd' = TRUE /\ thread' = "test"
        BY <4>1
      <4>2. CASE UNCHANGED <<life, thread>>
        BY <4>2 DEF HttpdInv, HttpdTypeOK
      <4> QED
        BY <2>6, <4>1, <4>2 DEF httpd_start
    <3> QED
      BY <2>6, <3>1 DEF HttpdInv, HttpdTypeOK, httpd_start
  <2>7. CASE StartFails
    <3>1. alive' \in BOOLEAN
      BY <2>7 DEF StartFails
    <3>2. UNCHANGED <<running, joined, server_fd, connected, background_visits, thread,
                      listening, ready, sending, main, waiting>>
      BY <2>7 DEF StartFails
    <3> QED
      BY <3>1, <3>2 DEF HttpdInv, HttpdTypeOK
  <2>8. CASE signal_handler
    <3>1. waiting' \in BOOLEAN
      BY <2>8 DEF signal_handler
    <3>2. UNCHANGED <<running, joined, server_fd, connected, background_visits, thread,
                      listening, ready, sending, main, alive>>
      BY <2>8 DEF signal_handler
    <3> QED
      BY <3>1, <3>2 DEF HttpdInv, HttpdTypeOK
  <2> QED
    BY <2>1, <2>2, <2>3, <2>4, <2>5, <2>6, <2>7, <2>8
<1>3. ReadyAreConnected' /\ RoomToAccept'
  BY DEF HttpdInv, ReadyAreConnected, RoomToAccept, Room, BeginWaiting, LeaveLoop,
       httpd_stop, JoinThread, Free, httpd_start, StartFails, signal_handler
<1>4. Lifecycle'
  BY DEF HttpdInv, Lifecycle, Busy, BeginWaiting, LeaveLoop, httpd_stop, JoinThread,
       Free, httpd_start, StartFails, signal_handler
<1> QED
  BY <1>1, <1>2, <1>3, <1>4 DEF HttpdInv

LEMMA NextKeeps == HttpdInv /\ [Next]_httpvars => HttpdInv'
<1> SUFFICES ASSUME HttpdInv, [Next]_httpvars PROVE HttpdInv'
  OBVIOUS
<1>1. CASE UNCHANGED httpvars
  BY <1>1 DEF HttpdInv, HttpdTypeOK, ConnectionsAccounted, ReadyAreConnected,
       RoomToAccept, Room, Lifecycle, Busy, httpvars, life, slots, rfds, program
<1>2. CASE Next
  BY <1>2, LoopKeeps, AddKeeps, ServeKeeps, SentKeeps, RemoveKeeps, ClearKeeps, MainKeeps
     DEF Next, LoopStep, ClientStep
<1> QED
  BY <1>1, <1>2

LEMMA HttpdInvariant == Spec => []HttpdInv
<1>1. Init => HttpdInv
  BY InitEstablishes
<1>2. HttpdInv /\ [Next]_httpvars => HttpdInv'
  BY NextKeeps
<1> QED
  BY <1>1, <1>2, PTL DEF Spec

-----------------------------------------------------------------------------
(* What follows from it.                                                    *)

\* The variables keep their types, however many connections the server takes.
THEOREM HttpdTypeCorrect == Spec => []HttpdTypeOK
<1>1. HttpdInv => HttpdTypeOK
  BY DEF HttpdInv
<1> QED
  BY <1>1, HttpdInvariant, PTL

\* open_connections, the slots in use and the background's visits agree on every
\* path by which httpd_thread removes a connection.
THEOREM ConnectionsAreAccounted == Spec => []ConnectionsAccounted
<1>1. HttpdInv => ConnectionsAccounted
  BY DEF HttpdInv
<1> QED
  BY <1>1, HttpdInvariant, PTL

\* httpd_add_connection finds a free slot whenever it is called: the line at
\* httpd.c:112 is never reached.
THEOREM ThereIsRoom == Spec => []RoomWhenAccepting
<1>1. HttpdInv => RoomWhenAccepting
  BY SlotsCounted DEF HttpdInv, RoomToAccept, Room, ConnectionsAccounted, RoomWhenAccepting
<1> QED
  BY <1>1, HttpdInvariant, PTL

\* httpd_destroy gives the server back with no connection and no server socket left,
\* and its thread, if it was waited for, returned; one that ended by itself may still
\* have its last line to log.
THEOREM FreedIsQuiet == Spec => []QuietWhenFreed
<1>1. HttpdInv => QuietWhenFreed
  <2> SUFFICES ASSUME HttpdInv, main = "freed" PROVE QuietWhenFreed
    BY DEF QuietWhenFreed
  <2>1. ~Busy /\ connected = {} /\ ~server_fd
        /\ (joined => thread \in {"none", "done"})
    BY DEF HttpdInv, Lifecycle
  <2>2. background_visits = 0
    BY <2>1, FS_EmptySet DEF HttpdInv, ConnectionsAccounted
  <2>3. thread \in {"none", "log", "done"}
    BY <2>1 DEF HttpdInv, HttpdTypeOK, Busy
  <2> QED
    BY <2>1, <2>2, <2>3 DEF QuietWhenFreed
<1> QED
  BY <1>1, HttpdInvariant, PTL
=============================================================================
