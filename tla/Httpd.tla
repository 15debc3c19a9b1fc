-------------------------------- MODULE Httpd -------------------------------
(* The HTTP server of lib/httpd.c and the program around it, rpiplay.cpp:    *)
(* the main thread starts the server, waits for a signal, and stops it; the  *)
(* thread of the server waits for its sockets, accepts connections while     *)
(* there is room for them, and reads, handles and answers their requests.    *)
(*                                                                           *)
(* A connection is a slot of the array connections.  What lib/raop.c does    *)
(* for one (module Session) is seen here by its callbacks alone: conn_init   *)
(* and conn_destroy count the visits of the renderer's background.  A        *)
(* request is read by one receive or by several (module HttpRequest).        *)
EXTENDS FiniteSets, Integers

CONSTANT max_connections         \* 10 in the program

\* Within the uint16_t of background_visits.
ASSUME HttpdAssumption == max_connections \in Nat \ {0} /\ max_connections < 65536

Slots == 1 .. max_connections

VARIABLES running, joined,       \* of the server
          server_fd,             \* whether it listens
          connected, request,    \* slots in use, and those with a request begun
          open_connections,
          background_visits,     \* of the video renderer
          thread,                \* where the thread of the server is
          listening, ready,      \* rfds: the server socket, and slots
          sending,               \* the slot that is answered, and what follows
          main,                  \* where the main thread is
          waiting,               \* running of rpiplay.cpp
          alive                  \* the process

life     == <<running, joined, server_fd>>
slots    == <<connected, request, open_connections, background_visits>>
rfds     == <<listening, ready>>
program  == <<main, waiting>>
httpvars == <<life, slots, thread, rfds, sending, program, alive>>

NotSending == [slot |-> 0, disconnect |-> FALSE]

Init == /\ running = FALSE /\ joined = TRUE
        /\ server_fd = FALSE
        /\ connected = {} /\ request = {}
        /\ open_connections = 0 /\ background_visits = 0
        /\ thread = "none"
        /\ listening = FALSE /\ ready = {}
        /\ sending = NotSending
        /\ main = "init" /\ waiting = FALSE
        /\ alive = TRUE

-----------------------------------------------------------------------------
(* httpd_thread.                                                            *)
At(place) == thread = place /\ alive

\* Mutant: running is not read.
NeverStopped == FALSE

Stopping == ~running

TestRunning ==
  /\ At("test")
  /\ thread' = IF Stopping THEN "remove" ELSE "select"
  /\ UNCHANGED <<life, slots, rfds, sending, program, alive>>

\* Mutant: the server socket is always selected.
AlwaysRoom == TRUE

\* The server socket is selected, and accepted from, only then.
Room == open_connections < max_connections

SelectTimeout ==
  /\ At("select")
  /\ thread' = "test"
  /\ UNCHANGED <<life, slots, rfds, sending, program, alive>>

SelectFails ==
  /\ At("select")
  /\ thread' = "remove"
  /\ UNCHANGED <<life, slots, rfds, sending, program, alive>>

Select ==
  /\ At("select")
  /\ listening' \in IF Room THEN BOOLEAN ELSE {FALSE}
  /\ ready' \in SUBSET connected
  /\ listening' \/ ready' # {}
  /\ thread' = IF listening' THEN "accept" ELSE "serve"
  /\ UNCHANGED <<life, slots, sending, program, alive>>

\* The first slot that is not in use; none when the server is full.
FreeSlots == {i \in Slots \ connected : 1 .. i - 1 \subseteq connected}

\* A uint16_t: the test for less than 0 that follows never holds.
Visits(n) == n % 65536

\* conn_init of raop.c tells the renderer.  A new connection is not in rfds.
AddConnection ==
  /\ At("accept")
  /\ \E i \in FreeSlots : connected' = connected \cup {i}
  /\ open_connections' = open_connections + 1
  /\ background_visits' = Visits(background_visits + 1)
  /\ thread' = "serve"
  /\ UNCHANGED <<life, request, rfds, sending, program, alive>>

\* Mutant: conn_init has been called before there turns out to be no place.
RefuseAfterInit ==
  /\ At("accept")
  /\ background_visits' = Visits(background_visits + 1)
  /\ thread' = "test"
  /\ UNCHANGED <<life, connected, request, open_connections, rfds, sending, program, alive>>

\* getsockname or conn_init fails, or the array is full: the client is closed, and
\* who else was ready is asked for again.
RefuseConnection ==
  /\ At("accept")
  /\ thread' = "test"
  /\ UNCHANGED <<life, slots, rfds, sending, program, alive>>

AcceptFails ==
  /\ At("accept")
  /\ thread' = "remove"
  /\ UNCHANGED <<life, slots, rfds, sending, program, alive>>

\* Mutant: the request of the connection is kept.
RemoveButRequest(i) ==
  /\ UNCHANGED request
  /\ background_visits' = Visits(background_visits - 1)
  /\ connected' = connected \ {i}
  /\ open_connections' = open_connections - 1

\* httpd_remove_connection, with conn_destroy.
RemoveConnection(i) ==
  /\ request' = request \ {i}
  /\ background_visits' = Visits(background_visits - 1)
  /\ connected' = connected \ {i}
  /\ open_connections' = open_connections - 1

\* The slots of rfds are served in order.
Serving(i) == /\ At("serve")
              /\ i \in ready
              /\ \A j \in ready : i <= j

ServedAll ==
  /\ At("serve")
  /\ ready = {}
  /\ thread' = "test"
  /\ UNCHANGED <<life, slots, rfds, sending, program, alive>>

\* The client has closed, or what it sent is no HTTP.
ReceiveEnds(i) ==
  /\ Serving(i)
  /\ RemoveConnection(i)
  /\ ready' = ready \ {i}
  /\ UNCHANGED <<life, thread, listening, sending, program, alive>>

ReceivePart(i) ==
  /\ Serving(i)
  /\ request' = request \cup {i}
  /\ ready' = ready \ {i}
  /\ UNCHANGED <<life, connected, open_connections, background_visits, thread,
                 listening, sending, program, alive>>

\* A request without a method or CSeq gets no response ...
HandleSilently(i) ==
  /\ Serving(i)
  /\ request' = request \ {i}
  /\ ready' = ready \ {i}
  /\ UNCHANGED <<life, connected, open_connections, background_visits, thread,
                 listening, sending, program, alive>>

\* ... any other has one, which may ask for the connection to be closed.
Handle(i, disconnect) ==
  /\ Serving(i)
  /\ request' = request \ {i}
  /\ ready' = ready \ {i}
  /\ sending' = [slot |-> i, disconnect |-> disconnect]
  /\ thread' = "send"
  /\ UNCHANGED <<life, connected, open_connections, background_visits, listening,
                 program, alive>>

\* recv's -1 goes to the parser as a length: it reads past the buffer, and finds an
\* error, a request or a part of one there, or memory that is not the program's.
ReceiveFails(i) ==
  \/ ReceiveEnds(i) \/ ReceivePart(i) \/ HandleSilently(i)
  \/ \E disconnect \in BOOLEAN : Handle(i, disconnect)
  \/ /\ Serving(i)
     /\ alive' = FALSE
     /\ ready' = ready \ {i}
     /\ UNCHANGED <<life, slots, thread, listening, sending, program>>

\* The send loop ends when everything is written, or fails; until then it waits
\* for the client to read.
Sent ==
  /\ At("send")
  /\ thread' = "serve"
  /\ sending' = NotSending
  /\ IF sending.disconnect THEN RemoveConnection(sending.slot) ELSE UNCHANGED slots
  /\ UNCHANGED <<life, rfds, program, alive>>

\* Nobody has the process ignore SIGPIPE.
BrokenPipe ==
  /\ At("send")
  /\ alive' = FALSE
  /\ UNCHANGED <<life, slots, thread, rfds, sending, program>>

\* After the loop, whatever ended it: the connections, ...
RemoveNext ==
  /\ At("remove")
  /\ \E i \in connected : /\ \A j \in connected : i <= j
                          /\ RemoveConnection(i)
  /\ UNCHANGED <<life, thread, rfds, sending, program, alive>>

\* ... the server socket and running; then a line is logged through the object.
ClearRunning ==
  /\ At("remove")
  /\ connected = {}
  /\ server_fd' = FALSE
  /\ running' = FALSE
  /\ thread' = "log"
  /\ UNCHANGED <<joined, slots, rfds, sending, program, alive>>

Return ==
  /\ At("log")
  /\ thread' = "done"
  /\ UNCHANGED <<life, slots, rfds, sending, program, alive>>

-----------------------------------------------------------------------------
(* The main thread of rpiplay.cpp.                                          *)
MainAt(place) == main = place /\ alive

\* httpd_start, by start_server, whose caller does not look at what it returns.
httpd_start ==
  /\ MainAt("init")
  /\ main' = "started"
  /\ \/ /\ running' = TRUE /\ joined' = FALSE
        /\ server_fd' = TRUE
        /\ thread' = "test"
     \/ UNCHANGED <<life, thread>>
  /\ UNCHANGED <<slots, rfds, sending, waiting, alive>>

\* A part of the program cannot be made: it ends as it is.
StartFails ==
  /\ MainAt("init") \/ MainAt("started")
  /\ alive' = FALSE
  /\ UNCHANGED <<life, slots, thread, rfds, sending, program>>

BeginWaiting ==
  /\ MainAt("started")
  /\ waiting' = TRUE
  /\ main' = "loop"
  /\ UNCHANGED <<life, slots, thread, rfds, sending, alive>>

\* SIGINT or SIGTERM; before the main thread waits, it is forgotten.
signal_handler ==
  /\ alive
  /\ waiting' = FALSE
  /\ UNCHANGED <<life, slots, thread, rfds, sending, main, alive>>

LeaveLoop ==
  /\ MainAt("loop")
  /\ ~waiting
  /\ main' = "stop"
  /\ UNCHANGED <<life, slots, thread, rfds, sending, waiting, alive>>

\* httpd_stop, by raop_destroy.
httpd_stop ==
  /\ MainAt("stop")
  /\ IF ~running \/ joined
     THEN main' = "free" /\ UNCHANGED running
     ELSE main' = "join" /\ running' = FALSE
  /\ UNCHANGED <<joined, server_fd, slots, thread, rfds, sending, waiting, alive>>

\* Mutant: the thread is not waited for.
DoNotJoin ==
  /\ MainAt("join")
  /\ joined' = TRUE
  /\ main' = "free"
  /\ UNCHANGED <<running, server_fd, slots, thread, rfds, sending, waiting, alive>>

JoinThread ==
  /\ MainAt("join")
  /\ thread = "done"
  /\ joined' = TRUE
  /\ main' = "free"
  /\ UNCHANGED <<running, server_fd, slots, thread, rfds, sending, waiting, alive>>

\* httpd_destroy, and after it the renderers.
Free ==
  /\ MainAt("free")
  /\ main' = "freed"
  /\ UNCHANGED <<life, slots, thread, rfds, sending, waiting, alive>>

-----------------------------------------------------------------------------
LoopStep == \/ TestRunning \/ SelectTimeout
            \/ AddConnection \/ RefuseConnection
            \/ ServedAll
            \/ \E i \in Slots : \/ ReceiveEnds(i) \/ ReceivePart(i) \/ HandleSilently(i)
                                \/ \E disconnect \in BOOLEAN : Handle(i, disconnect)
            \/ RemoveNext \/ ClearRunning \/ Return

ClientStep == \/ Select \/ Sent
              \/ SelectFails \/ AcceptFails \/ BrokenPipe
              \/ \E i \in Slots : ReceiveFails(i)

MainStep == BeginWaiting \/ LeaveLoop \/ httpd_stop \/ JoinThread \/ Free

Next == \/ LoopStep \/ ClientStep \/ MainStep
        \/ httpd_start \/ StartFails \/ signal_handler

\* Both threads run.  Nothing is assumed of the clients: not even that they read
\* their answers.
Spec == /\ Init /\ [][Next]_httpvars
        /\ WF_httpvars(LoopStep)
        /\ WF_httpvars(MainStep)
-----------------------------------------------------------------------------
(* Properties.                                                              *)

HttpdTypeOK ==
  /\ running \in BOOLEAN /\ joined \in BOOLEAN /\ server_fd \in BOOLEAN
  /\ connected \subseteq Slots
  /\ background_visits \in 0 .. max_connections
  /\ thread \in {"none", "test", "select", "accept", "serve", "send", "remove", "log",
                 "done"}
  /\ listening \in BOOLEAN /\ ready \subseteq Slots
  /\ sending \in [slot : Slots \cup {0}, disconnect : BOOLEAN]
  /\ main \in {"init", "started", "loop", "stop", "join", "free", "freed"}
  /\ waiting \in BOOLEAN /\ alive \in BOOLEAN

\* The count that decides whether to accept, the slots, and the conn_init calls
\* without their conn_destroy are the same number whichever way connections end, so
\* that no place is lost and the background is hidden with the last of them; and a
\* connection does not inherit the request of the one before it in its slot.
ConnectionsAccounted ==
  /\ open_connections = Cardinality(connected)
  /\ background_visits = open_connections
  /\ request \subseteq connected

\* httpd.c:111 says of a full array "This code should never be reached, we do not
\* select server_fds when full".
RoomWhenAccepting == thread = "accept" => connected # Slots

\* When the server is given back every connection has been closed, its session
\* destroyed and the server socket closed, and a thread that was waited for has
\* returned.  A thread that ended by itself is not waited for: it is past its last
\* use of the connections, but it may still log its last line through the server,
\* which has been freed.
QuietWhenFreed ==
  main = "freed" /\ alive =>
    /\ connected = {} /\ background_visits = 0
    /\ ~server_fd
    /\ thread \in {"none", "done"} \/ (thread = "log" /\ ~joined)

\* A signal that finds the main thread waiting ends the program, whatever the
\* connections are at, if no client leaves an answer unread for ever.
SignalEndsProgram ==
  WF_httpvars(Sent)
    => (main = "loop" /\ ~waiting ~> main = "freed" \/ ~alive)
=============================================================================
