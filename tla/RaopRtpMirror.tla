---------------------------- MODULE RaopRtpMirror ---------------------------
(* The screen receiver of lib/raop_rtp_mirror.c: a thread that listens,      *)
(* accepts one TCP connection after the other and reads messages from it,    *)
(* and the calls of the HTTP thread that give it a key, start, stop and      *)
(* destroy it.  Decryption is the MirrorBuffer this module extends.          *)
(*                                                                           *)
(* Header and payload are read in pieces: recv gives up after 5 ms, and the  *)
(* thread goes back to test whether it shall stop.  A byte is known by its   *)
(* position in the stream of the connection.  Stop closes the listening      *)
(* socket and sets it to -1 before it waits for the thread, which may be     *)
(* about to give -1 to FD_SET.                                               *)
EXTENDS MirrorBuffer

CONSTANTS Windows,       \* the platform; Winsock reads the receive timeout as 0
          Header,        \* bytes of a header, 128 in the code
          Kinds,         \* payload types: "picture" (0), "codec" (1), "other"
          MaxBytes       \* bound on the stream of one connection

ASSUME MirrorAssumption ==
  /\ Windows \in BOOLEAN
  /\ Header \in Nat \ {0}
  /\ MaxBytes \in Nat

VARIABLES running, joined,
          mirror_data_sock,      \* whether the listening socket is there
          thread,                \* where the thread is
          stream_fd,             \* whether it has a connection
          received,              \* how many bytes it has read from it
          packet, payload,       \* index -> position in the stream
          readstart,
          message,               \* the sender's message: begin, type and size
          handed,                \* the call of video_process just made
          caller,                \* where the HTTP thread is in stop or destroy
          destroying

life       == <<running, joined, mirror_data_sock>>
reading    == <<received, packet, payload, readstart, message>>
calls      == <<caller, destroying>>
mirrorvars == <<life, thread, stream_fd, reading, handed, calls, mbvars>>

NULL == [i \in {-1} |-> -1]      \* no payload

NoPacket  == [i \in {} |-> 0]
NoMessage(begin) == [begin |-> begin, type |-> "unknown", size |-> 0]
NoFrame   == [kind |-> "none", header |-> NoPacket, bytes |-> NoOutput, keys |-> NoOutput]

\* raop_rtp_mirror_init and mirror_buffer_init.
MirrorInit ==
  /\ Init
  /\ running = FALSE /\ joined = TRUE
  /\ mirror_data_sock = FALSE
  /\ thread = "none"
  /\ stream_fd = FALSE
  /\ received = 0
  /\ packet = NoPacket /\ payload = NULL /\ readstart = 0
  /\ message = NoMessage(0)
  /\ handed = NoFrame
  /\ caller = "idle" /\ destroying = FALSE

-----------------------------------------------------------------------------
(* raop_rtp_mirror_thread.                                                  *)

\* Where a thread stands, in a process that has not been ended.
At(place) == thread = place /\ status # "aborted"
CallerAt(place) == caller = place /\ status # "aborted"

\* Mutant: running is not read.
NeverStopped == FALSE

Stopped == ~running

TestRunning ==
  /\ At("test")
  /\ thread' = IF Stopped THEN "exit" ELSE "select"
  /\ handed' = NoFrame
  /\ UNCHANGED <<life, stream_fd, reading, calls, mbvars>>

\* Nothing within 5 ms.
SelectTimeout ==
  /\ At("select")
  /\ stream_fd \/ mirror_data_sock
  /\ thread' = "test"
  /\ UNCHANGED <<life, stream_fd, reading, handed, calls, mbvars>>

\* select fails, or accept, or the setting of the receive timeout.
SelectFails ==
  /\ At("select")
  /\ thread' = "exit"
  /\ UNCHANGED <<life, stream_fd, reading, handed, calls, mbvars>>

\* Stop was quicker: FD_SET writes outside of the set, which may end the process
\* or go unnoticed until select is over; Winsock's select returns an error.
SelectClosed ==
  /\ At("select")
  /\ ~stream_fd /\ ~mirror_data_sock
  /\ \/ /\ thread' \in IF Windows THEN {"exit"} ELSE {"test", "exit"}
        /\ UNCHANGED status
     \/ /\ ~Windows
        /\ status' = "aborted"
        /\ UNCHANGED thread
  /\ UNCHANGED <<life, stream_fd, reading, handed, calls,
                 lost, generated, nextDecryptCount, og, output>>

\* The header of a connection that was lost halfway is forgotten.  The new
\* connection is read after the next select.
Accept ==
  /\ At("select")
  /\ ~stream_fd /\ mirror_data_sock
  /\ stream_fd' = TRUE
  /\ received' = 0
  /\ readstart' = 0
  /\ message' = NoMessage(0)
  /\ thread' = "test"
  /\ UNCHANGED <<life, packet, payload, handed, calls, mbvars>>

\* Mutant: the header is read on although there is a payload.
HeaderFirst == "header"

\* A payload that has been begun is read on.
ReadNext == IF payload = NULL THEN "header" ELSE "payload"

Readable ==
  /\ At("select")
  /\ stream_fd
  /\ thread' = ReadNext
  /\ UNCHANGED <<life, stream_fd, reading, handed, calls, mbvars>>

\* What the next n bytes of the stream become, read to a buffer at readstart.
ReadInto(buffer, n) ==
  [i \in DOMAIN buffer \cup readstart .. readstart + n - 1 |->
     IF i \in readstart .. readstart + n - 1 THEN received + (i - readstart)
     ELSE buffer[i]]

\* The sender's message, which the packet gives if it is its header.
Messages == [begin : {message.begin}, type : Kinds, size : Size]

InBounds(m) == /\ m.begin + Header + m.size <= MaxBytes
               /\ generated + m.size <= MaxStream

ReceiveHeader(n) ==
  /\ At("header")
  /\ readstart + n <= Header
  /\ received' = received + n
  /\ packet' = ReadInto(packet, n)
  /\ IF readstart + n < Header
     THEN /\ readstart' = readstart + n
          /\ UNCHANGED <<thread, message, payload>>
     ELSE /\ \E m \in Messages : InBounds(m) /\ message' = m
          /\ payload' = NoPacket
          /\ readstart' = 0
          /\ thread' = "payload"
  /\ UNCHANGED <<life, stream_fd, handed, calls, mbvars>>

ReceivePayload(n) ==
  /\ At("payload")
  /\ readstart + n <= message.size
  /\ received' = received + n
  /\ payload' = ReadInto(payload, n)
  /\ readstart' = readstart + n
  /\ UNCHANGED <<life, thread, stream_fd, packet, message, handed, calls, mbvars>>

\* The receive timeout: on Windows a struct timeval is taken for milliseconds, 0.
TimeoutWorks == ~Windows

Incomplete == \/ At("header")
              \/ At("payload") /\ readstart < message.size

ReceiveTimesOut ==
  /\ TimeoutWorks
  /\ Incomplete
  /\ thread' = "test"
  /\ UNCHANGED <<life, stream_fd, reading, handed, calls, mbvars>>

\* A receive error, or no memory for the payload.
ReceiveFails ==
  /\ Incomplete
  /\ thread' = "exit"
  /\ UNCHANGED <<life, stream_fd, reading, handed, calls, mbvars>>

\* The sender closes.  Between messages, or inside a header, the thread goes on
\* to accept (the descriptor stays open); inside a payload it ends.
HeaderEnds ==
  /\ At("header")
  /\ stream_fd' = FALSE
  /\ thread' = "test"
  /\ UNCHANGED <<life, reading, handed, calls, mbvars>>

PayloadEnds ==
  /\ At("payload") /\ readstart < message.size
  /\ thread' = "exit"
  /\ UNCHANGED <<life, stream_fd, reading, handed, calls, mbvars>>

\* Mutant: the payload is kept when the next message begins.
KeepPayload == UNCHANGED payload

ForgetPayload == payload' = NULL

\* The message is dealt with: the thread is ready for the next one.
ForgetMessage ==
  /\ packet' = NoPacket
  /\ ForgetPayload
  /\ readstart' = 0
  /\ message' = NoMessage(message.begin + Header + message.size)
  /\ thread' = "test"
  /\ UNCHANGED <<life, stream_fd, received, calls>>

Complete(type) == /\ At("payload")
                  /\ readstart = message.size
                  /\ message.type = type

\* Decrypted, with a start code in place of the size before each NAL.
HandPicture ==
  /\ Complete("picture")
  /\ mirror_buffer_decrypt(message.size)
  /\ handed' = [kind |-> "picture", header |-> packet, bytes |-> payload, keys |-> output']
  /\ ForgetMessage

\* With the place in the keystream lost, the sizes of the NALs are arbitrary: the
\* assertion that they are positive fails, or the walk leaves the payload.
WalkGarbage ==
  /\ Complete("picture")
  /\ lost
  /\ status' = "aborted"
  /\ UNCHANGED <<life, thread, stream_fd, reading, handed, calls,
                 lost, generated, nextDecryptCount, og, output>>

\* SPS and PPS, each behind a start code.
HandCodec ==
  /\ Complete("codec")
  /\ handed' = [kind |-> "codec", header |-> packet, bytes |-> payload, keys |-> NoOutput]
  /\ ForgetMessage
  /\ UNCHANGED mbvars

PassOver ==
  /\ Complete("other")
  /\ ForgetMessage
  /\ UNCHANGED <<handed, mbvars>>

\* After the loop: close the connection, clear running, log through the object,
\* return.
ClearRunning ==
  /\ At("exit")
  /\ stream_fd' = FALSE
  /\ running' = FALSE
  /\ thread' = "log"
  /\ UNCHANGED <<joined, mirror_data_sock, reading, handed, calls, mbvars>>

Return ==
  /\ At("log")
  /\ thread' = "done"
  /\ UNCHANGED <<life, stream_fd, reading, handed, calls, mbvars>>

-----------------------------------------------------------------------------
(* The HTTP thread.                                                         *)

\* raop_rtp_init_mirror_aes and raop_rtp_start_mirror, the two calls of SETUP.  A
\* thread that is running, or that ended without having been joined, is not
\* started again, but it has a new key.
setup_mirror ==
  /\ CallerAt("idle")
  /\ mirror_buffer_init_aes
  /\ IF running \/ ~joined
     THEN UNCHANGED <<life, thread, stream_fd, reading>>
     ELSE /\ running' = TRUE /\ joined' = FALSE
          /\ mirror_data_sock' = TRUE
          /\ thread' = "test"
          /\ stream_fd' = FALSE
          /\ packet' = NoPacket /\ payload' = NULL /\ readstart' = 0
          /\ UNCHANGED <<received, message>>
  /\ UNCHANGED <<handed, calls>>

\* The same, and the listening socket cannot be made.
setup_mirror_fails ==
  /\ CallerAt("idle")
  /\ ~running /\ joined
  /\ mirror_buffer_init_aes
  /\ UNCHANGED <<life, thread, stream_fd, reading, handed, calls>>

\* raop_rtp_mirror_stop, alone or as the beginning of raop_rtp_mirror_destroy.
raop_rtp_mirror_stop(destroy) ==
  /\ CallerAt("idle")
  /\ destroying' = destroy
  /\ IF ~running \/ joined
     THEN /\ caller' = IF destroy THEN "free" ELSE "idle"
          /\ UNCHANGED running
     ELSE /\ running' = FALSE
          /\ caller' = "close"
  /\ UNCHANGED <<joined, mirror_data_sock, thread, stream_fd, reading, handed, mbvars>>

CloseSocket ==
  /\ CallerAt("close")
  /\ mirror_data_sock' = FALSE
  /\ caller' = "join"
  /\ UNCHANGED <<running, joined, thread, stream_fd, reading, handed, destroying, mbvars>>

\* Mutant: the thread is not waited for.
DoNotJoin ==
  /\ CallerAt("join")
  /\ joined' = TRUE
  /\ caller' = IF destroying THEN "free" ELSE "idle"
  /\ UNCHANGED <<running, mirror_data_sock, thread, stream_fd, reading, handed,
                 destroying, mbvars>>

JoinThread ==
  /\ CallerAt("join")
  /\ thread = "done"
  /\ joined' = TRUE
  /\ caller' = IF destroying THEN "free" ELSE "idle"
  /\ UNCHANGED <<running, mirror_data_sock, thread, stream_fd, reading, handed,
                 destroying, mbvars>>

\* The rest of raop_rtp_mirror_destroy.
Free ==
  /\ CallerAt("free")
  /\ mirror_buffer_destroy
  /\ caller' = "gone"
  /\ UNCHANGED <<life, thread, stream_fd, reading, handed, destroying>>

-----------------------------------------------------------------------------
ReceiveSome == \/ \E n \in 1 .. Header : ReceiveHeader(n)
               \/ \E n \in 1 .. MaxSize : ReceivePayload(n)

ThreadStep == \/ TestRunning \/ SelectTimeout \/ SelectClosed
              \/ ReceiveTimesOut
              \/ HandPicture \/ WalkGarbage \/ HandCodec \/ PassOver
              \/ ClearRunning \/ Return

NetworkStep == \/ Accept \/ Readable \/ ReceiveSome
               \/ HeaderEnds \/ PayloadEnds
               \/ SelectFails \/ ReceiveFails

StopStep == CloseSocket \/ JoinThread \/ Free

CallStep == \/ setup_mirror \/ setup_mirror_fails
            \/ \E destroy \in BOOLEAN : raop_rtp_mirror_stop(destroy)

MirrorNext == ThreadStep \/ NetworkStep \/ StopStep \/ CallStep

\* Both threads run; nothing is assumed of the sender, nor of the network.
MirrorSpec == /\ MirrorInit
              /\ [][MirrorNext]_mirrorvars
              /\ WF_mirrorvars(ThreadStep)
              /\ WF_mirrorvars(StopStep)
-----------------------------------------------------------------------------
(* Properties.                                                              *)

MirrorThreadTypeOK ==
  /\ MirrorTypeOK
  /\ running \in BOOLEAN /\ joined \in BOOLEAN /\ mirror_data_sock \in BOOLEAN
  /\ thread \in {"none", "test", "select", "header", "payload", "exit", "log", "done"}
  /\ stream_fd \in BOOLEAN
  /\ readstart \in 0 .. MaxSize \cup 0 .. Header - 1
  /\ DOMAIN packet \subseteq 0 .. Header - 1
  /\ payload = NULL \/ DOMAIN payload = 0 .. readstart - 1
  /\ message.size \in Size
  /\ caller \in {"idle", "close", "join", "free", "gone"}

\* Whatever pieces recv returns, and wherever it gives up, what video_process is
\* handed are the messages of the sender, whole and in order, each once; and
\* messages that are not pictures leave the keystream alone.
Frames == INSTANCE MirrorFrames WITH
            next  <- message.begin,
            keyed <- generated - nextDecryptCount,
            frame <- handed

HandsOverFrames == Frames!FramesSpec

\* Between a stop and the next start there is neither a thread, nor a listening
\* socket or a connection, and the object is given back only when the thread has
\* used it for the last time, also when the thread ended by itself.
QuietWhenJoined ==
  /\ joined => /\ ~running /\ ~mirror_data_sock /\ ~stream_fd
               /\ thread \in {"none", "done"}
  /\ caller = "gone" => thread \in {"none", "log", "done"}

\* raop_rtp_mirror.c:213 says "We're calling recv for a certain amount of data,
\* so we need a timeout": raop_rtp_mirror_stop and raop_rtp_mirror_destroy return,
\* wherever in a message the sender stalls.
MirrorStopReturns ==
  caller \in {"close", "join", "free"}
    ~> caller \in {"idle", "gone"} \/ status = "aborted"

\* With a sender that goes on sending, a message that has been begun is handed
\* over however often the receive timeout interrupts it, unless the connection,
\* the receiver or the process ends.
FrameCompletes ==
  SF_mirrorvars(ReceiveSome) /\ SF_mirrorvars(Readable)
    => (At("payload") ~> payload = NULL \/ thread = "exit" \/ status = "aborted")
=============================================================================
