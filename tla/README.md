# RPiPlay receiver: TLA+ models and proofs

RPiPlay is an AirPlay receiver: an iPhone or Mac finds it by DNS-SD, pairs with it over HTTP/RTSP, and sends it
an encrypted audio stream (UDP) and a mirrored screen (TCP). This directory models the parts of it whose
correctness depends on order: the HTTP server and its requests, the sessions of its connections, the clock
client, the audio receiver with its jitter buffer, the screen receiver with its decryption, and the program that
starts and stops them. TLC checks the models on small instances; TLAPS proves every safety property the runs
check, for every size.

## The system

```
 main thread (rpiplay.cpp): start_server ... wait for a signal ... stop_server
      | httpd_start, httpd_stop (join)
 HTTP thread (httpd.c) <-> TCP clients    audio thread (raop_rtp.c)            sender
   recv -> http_request -> handlers         loop: process_events                 |
     SETUP      -> start clock, receivers     select on csock, dsock  <- UDP ----+ packets, resent packets
     SET_PARAM  -> set_volume, metadata       raop_buffer_enqueue                |
     FLUSH      -> raop_rtp_flush  == run_mutex mailbox ==>                      |
     TEARDOWN   -> stop, destroy (join)       raop_buffer_dequeue -> renderer    |
   http_response -> send                      raop_buffer_handle_resends -> UDP -+ resend requests
   conn_destroy -> destroy clock,         mirror thread (raop_rtp_mirror.c)  <- TCP
                   audio, mirror            mirror_buffer_decrypt -> renderer
                                          NTP thread (raop_ntp.c)           <-> UDP
```

| Component | State | Operations | What makes it correct |
|---|---|---|---|
| jitter buffer, `raop_buffer.c` | first and last sequence number, is_empty, 32 entries with payload pointers | enqueue, dequeue, handle_resends, flush, destroy | no two packets in one slot, nothing freed handed out, packets in order across the 16-bit wrap |
| audio receiver, `raop_rtp.c` | running, joined, the mailbox, sockets | start, stop, destroy, set_*, flush; the UDP thread | mailbox never loses the last volume, stop returns, the thread is out before the buffer is freed |
| clock client, `raop_ntp.c` | running, joined, 8 samples, the offset | start, stop, request loop, conversions | stop returns, offset from the sample of least delay |
| mirror receiver, `raop_rtp_mirror.c` | listening and stream socket, partial header and payload | start, stop, thread | frames are reassembled whatever the reads return |
| mirror decryption, `mirror_buffer.c` | left-over keystream | init_aes, decrypt | the keystream has no gap across packets |
| sessions, `raop.c`, `raop_handlers.h` | per connection: clock, audio, mirror, pairing, FairPlay objects | one handler per request, conn_init, conn_destroy | a thread never outlives what it uses |
| HTTP server, `httpd.c` | connection table, running, joined | accept, receive, remove, start, stop | the table's count is right, places are given back, stop returns |
| pairing, `pairing.c`; FairPlay, `fairplay_playfair.c` | handshake status, keys | setup, verify, finish | messages only in their order |
| requests and responses, `http_request.c`, `http_response.c` | header array and its index, url, body; the growing buffer | parser callbacks, add_header, finish | what the handlers read is what was sent, however it was cut |
| program, `rpiplay.cpp` | running, the objects | start_server, signal, stop_server | a signal ends it, nothing is freed in use |
| discovery, renderers, primitives | | | see *Not modelled* |

Hard behaviour: 16-bit numbers that wrap; a lossy network; the mailbox read under a lock and acted on outside
it; messages read in pieces over timeouts; threads that end by themselves; sockets closed under a thread; joins;
objects freed by one thread and used by another. `PROJECT.json` lists each hazard at its line, with the property
that would catch it.

## The modules

| Module | Models | Built on |
|---|---|---|
| `PlayoutWindow` | what the buffer promises: a playout position and the packets held for it | - |
| `RaopBuffer` | `raop_buffer.c`: ring, numbers, pointers; its properties; the mapping to `PlayoutWindow` | - |
| `RaopBufferProofs` | theorems about `RaopBuffer`, and that it implements `PlayoutWindow` | `RaopBuffer`, TLAPS |
| `RaopRtp` | `raop_rtp.c`: the audio thread, the mailbox, start, stop, destroy | `RaopBuffer` |
| `AudioStream` | a sender and a network around a running `RaopRtp` | `RaopRtp` |
| `RaopNtp` | `raop_ntp.c`: the clock thread, its timed wait, the ring of samples, start, stop, destroy | - |
| `Keystream` | what decryption promises: one continuous keystream | - |
| `MirrorBuffer` | `mirror_buffer.c`: whole blocks, the kept rest; the mapping to `Keystream` | - |
| `RaopRtpProofs` | theorems about `RaopRtp`, on top of those about the buffer | `RaopRtp`, `RaopBufferProofs` |
| `AudioStreamProofs` | theorems about whole streams, on top of those about the buffer | `AudioStream`, `RaopBufferProofs` |
| `RaopNtpProofs` | theorems about `RaopNtp` | `RaopNtp`, TLAPS |
| `MirrorFrames` | what the screen receiver promises: whole messages in order, each once, clear | - |
| `RaopRtpMirror` | `raop_rtp_mirror.c`: the thread, start, new key, stop, destroy; the mapping to `MirrorFrames` | `MirrorBuffer` |
| `RaopRtpMirrorProofs` | theorems about `MirrorBuffer` and, on top of them, `RaopRtpMirror` | `RaopRtpMirror`, TLAPS |
| `Session`, `SessionProofs` | `raop.c`, `raop_handlers.h`, the status of `pairing.c`: one connection after the other; theorems | - |
| `Httpd`, `HttpdProofs` | `httpd.c` and main of `rpiplay.cpp`; theorems | - |
| `HttpResponse` | `http_response.c`: the buffer of a response, as `raop.c` fills it | - |
| `HttpRequest` | `http_request.c` in the loop of `httpd.c` | - |
| `HttpConnection` | one connection: a request, its answer, the next request | `HttpRequest`, `HttpResponse` |
| `HttpRequestProofs` | theorems about requests and responses | `HttpConnection`, TLAPS |
| `MCRaopRtp`, `MCAudioStream`, `MCRaopNtp`, `MCHttpConnection` | values for TLC | |

How the modules fit together: `Httpd` sees a session only as `conn_init` and `conn_destroy`; `Session` sees a
receiver or the clock only as idle, running, ended by itself, or freed, which is what `RaopRtp`, `RaopRtpMirror`
and `RaopNtp` say of `running`, `joined` and `caller = "gone"`; `HttpConnection` has the contents of what is a mark
in `Httpd`'s `request`.

How the state corresponds to the code:

- **RaopBuffer.** `is_empty`, `first_seqnum`, `last_seqnum` and `entries` are the fields of `raop_buffer_s`. A
  sequence number is an `unsigned short`; the circle has `2 * Laps * BufferLength` points instead of 2^16 and
  the ring `BufferLength` slots instead of 32 (in the code `Laps` is 1024). `seqnum_cmp` is the 16-bit signed
  difference. A payload pointer is NULL, a live block, or FREED: an address given back by `raop_buffer_flush`,
  which does not clear it. Freeing such a pointer again is undefined; the model lets the allocator stop the
  process (`status = "aborted"`) or carry on, and every property is about both. `out` is what the last call
  returned or asked for. The check of lengths and the "no audio" marker are `EnqueueInvalid` and
  `EnqueueIgnored`; AES and timestamps are data only.
- **RaopRtp.** One step is a critical section under `run_mutex`, one call of the buffer, or the callbacks after
  a section. `thread` is the place in `raop_rtp_thread_udp`, `taken` the locals of `raop_rtp_process_events`,
  `caller` the place of the HTTP thread in `raop_rtp_stop` or `raop_rtp_destroy`. While it waits there it makes
  no other call, as there is one HTTP thread. `raop_rtp_init_sockets` may fail. `assert` on the result of
  enqueue does nothing, as in the release build (`-DNDEBUG`). Metadata, cover art, remote control and progress
  are one pending mark per kind.
- **AudioStream.** The payload of packet *n* is *n*, the wire carries its low bits. The network delivers any
  packet at most `MaxDelay` behind the newest, in any order, any number of times, or never. `asked` collects the
  packets named by resend requests, `last` is the packet rendered last.
- **RaopNtp.** `thread` is the place in `raop_ntp_thread`, `caller` the place in `raop_ntp_stop`. `windows` is
  chosen in the beginning, between the two platforms of `threads.h`: on Windows a condition variable is an event
  that stays set until a wait takes it, a pthread signal without a waiter is lost; the receive timeout works
  with pthreads only (see *Findings*); and closing a socket ends a receive that is under way on Windows only. A
  sample is a delay and an offset; `recent` is the history of the responses, for the property. A delay is
  assumed to be below `RAOP_NTP_MAX_DISP`, which as a number of microseconds is 19 hours. That the thread reads
  `tsock` while stop writes it is a race; it sees the old or the new value.
- **MirrorBuffer.** A byte of keystream is its position, so that "decrypted with the right byte" is an equation.
  `aes_ctr_start_fresh_block` does nothing here: only `aes_ctr_encrypt` moves `block_offset` (`crypto.c:133`). A
  payload shorter than `nextDecryptCount` is read and written past its end: the process may stop (`"aborted"`)
  or go on with its place `lost`. The calls are taken one after the other, though a second SETUP could give a
  new key during one.
- **RaopRtpMirror.** A byte is its position in the stream of the connection, so `packet` and `payload` are
  functions from index to position, and "the message as it was sent" is an equation. `received` counts what recv
  has returned. One step is one recv, one select, one message dealt with, or a critical section. The header is
  the sender's `message` once it is whole. A connection may close or fail anywhere: between messages and inside
  a header the thread goes on to accept, inside a payload it ends. `setup_mirror` is the pair of calls SETUP
  makes, so that a new key may come at any moment between two payloads. FD_SET of -1, which a stop before select
  leads to, is undefined: it ends the process or goes unnoticed. Behind a payload that lost the place in the
  keystream the walk over NAL sizes reads garbage (`WalkGarbage`) and may end the process.
- **Session.** The three objects of a SETUP are known by its number, so a pointer is a number or NULL and what
  has been made, freed or left behind is a function of numbers. `conn` is where `conn_destroy` is. A receiver's
  thread may end by itself at any moment, and an ended one is not joined, so that it cannot be started again. A
  SETUP's streams are a set: their order makes no difference. `replaced` and `teardowns` are history, for the
  properties.
- **Httpd.** `connected` and `request` are sets of slots of `connections`; `ready` and `listening` are `rfds`;
  `sending` is the connection in the send loop. `background_visits` is the count of `video_renderer_rpi.c`, a
  `uint16_t` that wraps: its test for a count below zero never holds, and `ConnectionsAccounted` shows that it is
  never taken below. With recv's -1 given to the parser, which reads past the buffer (`ReceiveFails`), a request
  may also come out whole and be handled, or the process ends. `waiting` is the global `running` of
  `rpiplay.cpp`, which a signal clears at any time. `alive` is false once the process has ended: by a start that fails, by SIGPIPE, which nobody ignores, or
  by what a parser makes of a length of -1.
- **HttpRequest.** A message is a sequence of spans (url, field, value, body), a character is its message, span
  and position. The parser (the vendored `llhttp`) is modelled by its callbacks: it calls back with a piece of a
  span of any length, and the received data may end after each. `headers` is the array with its index, as in
  the code; `http_request_get_header` is the handlers' lookup. `completed` is the message that set `complete`.
  Behind a message that keeps the connection the parser goes on, and a second one in the same receive is put into
  the same request (`pipelined`); behind any other it is `closed` and passes over the rest of the receive. After
  the parser, an error is tested first (`httpd.c:293`): a complete message with an error behind it in the same
  receive is given up with its connection. `spoiled` are the messages this happens to; the properties name both.
- **HttpResponse.** The response is its length and the size of its buffer. A call adds several pieces, which wait
  in `pending`; each is one call of `http_response_add_data`, written at `offset`. That reallocates from
  `data_size`, which stays what it was, so the buffer grows and shrinks with the piece; `Doubled` is its loop.
  Lengths have no bound: a CSeq is echoed as it came (`raop.c:155`).
- **HttpConnection.** A complete request is answered, or not (without a CSeq), then destroyed; the answer is sent
  and destroyed before the next receive.

## The runs

| Run | Question | Instance |
|---|---|---|
| `raop_buffer` | Do the ring's invariant, its action property and the refinement hold under every call with every argument? | 3 slots, 12 numbers |
| `raop_rtp` | Do lifecycle, mailbox and liveness hold against a caller that may do anything and a select that may fail? | 1 slot, 4 numbers, 2 volumes, 1 flush position, both kinds of control port |
| `audio_stream` | Is what is rendered in the sender's order, across a wrap and more than a whole lap? | 2 slots, 12 numbers, 14 packets, delay 3, outage 2 |
| `resends` | Is all of a gap asked for? | 3 slots, 18 numbers, 6 packets that wrap after 3, delay 4, outage 3 |
| `ntp` | Is the offset that of the least delayed of the last responses, is the thread gone when stop says so, and does stop return? | both platforms, 3 samples, 2 delays (one negative, a clock set back), 2 offsets |
| `mirror_thread` | Are the sender's messages handed over whole, in order and clear, and do stop and frames come to an end? | Linux; headers of 2, payloads of 0 to 4, blocks of 3, 10 bytes a connection, 7 of keystream |
| `session` | Do requests and the end of the connection meet live objects only, and what is left? | 3 SETUPs with keys, in one connection or several |
| `httpd` | Is every place given back, is the server quiet when it is freed, does a signal end the program? | 4 connections |
| `http_connection` | Is the request what was sent, which messages are handled, does the response fit? | 3 messages of 3 shapes, pieces of 0 to 2; 1024 bytes, up to 2 headers, a CSeq of 0, 1100 or 3000 bytes, bodies of 0 to 5000 |
| `flush_request`, `stopped_state`, `clock_freed` | three comments of the source the code does not keep (see *Findings*) | as `raop_rtp`; one SETUP |

Why the bounds are enough: three slots give a first, a middle and a last place, gaps of one and two packets and,
with two laps per half, numbers before, inside and beyond the ring and on both sides of the half circle; the
proofs then cover every size. The protocol of `RaopRtp` does not look into the buffer except for "NULL or not",
so one slot is enough there. `audio_stream` has more packets than numbers, so numbers are used again;
`MaxDelay + MaxOutage + BufferLength <= Half + 1` is what 16 bits can tell apart, and in the code allows 32737
packets of delay and outage together, minutes of audio. The ring of three samples is filled and replaced
several times over, with ties. Payloads of 0 to a block and a byte end in every place of a block after every
kept length, with three messages in a connection; `RaopRtpMirrorProofs` covers every length. Three SETUPs give
an object in use, one replaced and one of the next connection. Four connections give a first, a last and two
middle slots, below and at the limit. In `http_connection` a piece may be a whole span or half of one, the shapes
have an empty value, no headers, and no body. Values and bodies are shorter than the buffer of the
response, longer than it, and longer than its double, and a long header comes before or behind a short one.

Deadlock is not checked: a destroyed object and an aborted process stop, and streams, messages and counted
SETUPs end.

**Fairness.** `RtpSpec` assumes weak fairness of the audio thread as a whole and of the stop sequence: the
operating system runs both. Nothing is assumed of the network, the client, or of select failing; a thread that
waits in select makes progress by its 5 ms timeout (`raop_rtp.c:410`). `RaopNtp`'s, `RaopRtpMirror`'s and
`Httpd`'s specifications are fair in the same way, to their thread and to the caller in stop. What the
environment would have to do is never in a specification but a premise of the property, where it can be read:
`NtpStopReturns` needs the three seconds of a wait to end with pthreads only, because a signal sent before the
thread waits is lost there; `FrameCompletes` needs a sender that goes on sending; `SignalEndsProgram` needs
clients that read their answers. `MirrorStopReturns` has no such premise on Linux, as the receive timeout is the
thread's own.

## The proofs

From `SizeAssumption` (a ring of at least one slot, at least two laps in half a circle) and `PointerAssumption`
(NULL, FREED and payloads differ):

- `TypeCorrect`, `RingCorrect`: `TypeOK` and `RingInv` always hold. `RingInv` is inductive together with
  `TypeOK`, and needs its four parts at once: `SpanFits` (no more numbers than slots) and `InPlace` (a filled
  entry lies in its slot, inside the span) give that two packets never meet in a slot; `FilledOwnsPayload` ties
  the mark to the pointer; `LastIsBuffered` says that the span ends with a packet.
- `DequeueIsSafe`, `PacketsAreNotOverwritten`, `ResendsAreAccurate`: what the calls return, replace and ask for,
  from the invariant and one step.
- `RingImplementsWindow`: every behaviour of the ring, seen through `Held` and `first_seqnum`, is one of
  `PlayoutWindow`. A flush, for instance, is a `Reset` or a `Reposition`, and enqueue is one of three accepting
  steps or a stutter.

The arithmetic of the circle is in a few lemmas (`SlotsDistinct`, `OffsetsSubtract`, `SlotIdentifies`,
`InsideWindow`, `StepForward`), so that the steps themselves only cite facts. `Laps >= 2` is needed: with a ring
as long as half the circle, a packet at the far end of the window compares as older than the last.

From `KeystreamAssumption` (a block of at least one byte): `MirrorTypeCorrect` and `KeptCorrect` by the
invariant `MirrorTypeOK /\ KeptIsNext`. The one fact about division (`BlocksAndRest`) gives that the kept rest
and the cipher stay in step (`DecryptKeepsStep`), and with it `MirrorImplementsKeystream`: with `position`
mapped to `generated - nextDecryptCount`, each payload is decrypted with the next bytes of one keystream.

**The audio receiver** (`RaopRtpProofs`; `RtpAssumption`: volumes are integers, flush positions sequence numbers
or -1). `ReceiverUsesBuffer`: every step of `RaopRtp` is a step of `RaopBuffer` or leaves the buffer alone. So
what is proved of the buffer holds in the composition, as `ReceiverDequeuesSafely` does. `RtpTypeCorrect`,
`LifecycleIsConsistent`, `ThreadHasLeft` and `NoVolumeIsLost` follow from `RtpInv`: types, `Lifecycle` (which
places of thread and caller go together with `running`, `joined` and the sockets; the property alone does not
say that a caller in join has cleared `running`), and `VolumeKept` (a volume that is not marked has been
applied, or the thread has it).

**The clock client** (`RaopNtpProofs`; `NtpAssumption`: samples are less delayed than no sample). `LifeInv` is
`NtpTypeOK` with a `Lifecycle`. `RingInv` says that the place *i* of the ring holds the response `Age(i)`
responses ago (`RingHoldsRecent`), and that the offset was taken from a place of least delay (`OffsetTaken`); an
empty place is never of least delay, whence `OffsetIsOfLeastDelayed`.

**The screen receiver** (`RaopRtpMirrorProofs`; `MirrorAssumption`). `MirrorInv` is `IInv` of the decryption,
types, a `Lifecycle`, and `ReadInv`: what of header and payload has been read is the stretch of the stream that
begins with the message (`HeaderBegun`, `PayloadBegun`), in whatever place of the loop the thread is (`Places`).
From it, `FramesAreHandedOver` maps a complete message to the one `MirrorFrames` takes, and everything in
between to a stutter, with `MirrorImplementsKeystream`'s lemma for the picture's bytes.

**Sessions and server** (`SessionProofs`, `HttpdProofs`; any number of SETUPs; at least one connection and
fewer than the 65536 a `uint16_t` counts).
`SessionInv` adds to the properties that an object that is there is pointed to by the connection, at the stage
of `conn_destroy` it has reached, or has been replaced (`EachIsPointedTo`), that later objects have not been
made, and what one and two TEARDOWNs have achieved (`TeardownsSoFar`). `HttpdInv` adds that who is ready has a
connection and who is answered is not ready (`ReadyAreConnected`), that the thread accepts only with room, and a
`Lifecycle` of thread and main; the count is by the cardinality of the slots. `FreedIsQuiet` says what holds when the server is
given back: connections, sessions and the server socket are gone, and a thread that was waited for has returned.
That a thread which ended by itself has returned too is false: it may be at its last log line (*Findings*).

**Whole streams** (`AudioStreamProofs`; `StreamAssumption`). What a true packet number is, and its 16 bits do
not say, is a witness in the invariant: `InStep` says that there is a true number *f* of the playout position
(`Positioned`), such that each packet in the ring is one of *f* to *f* + `BufferLength` - 1, none newer than
the newest heard, the last rendered lies before *f*, and *f* is behind what has been heard and sent by no more
than the bounds allow; or that the buffer has been emptied and nothing rendered since (`Fresh`), when the
position may be anything until a packet is accepted. A packet that arrives is at most `MaxDelay` older and
`MaxOutage` newer than those heard, so its 16 bits compare with the position's as the true numbers do
(`SeqCompares`), whichever lap they are of. `RingHoldsOneLap` and `StreamIsPlayedInOrder` follow, and
`WholeGapIsAskedFor` because a number in front of the ring names one packet in flight only.
The proof showed that an earlier assumption, `MaxDelay <= Half` and `MaxOutage + BufferLength <= Half`, was too
weak: after a FLUSH of a position that is then Half behind, all that follows compares as older, until a packet
of the next lap is taken for one of this. TLC confirmed that `OneLap` fails there, and the bounds above are the
result.

**Requests and responses** (`HttpRequestProofs`; `RequestAssumption`: a message is a url, headers and maybe a
body, and only a value may be empty; `ResponseAssumption`). The parser's place in a message determines the
request: `Holds` gives url, body, the array of headers, its size and its index from message, span and position,
and `HeldSoFar` says that the request is that of the parser's place while the message lasts and that of its end
when it is complete, unless a second message came too early. `PieceIsStored` shows that each callback moves the
one with the other, `WholeIsHeld` that at the end the handlers' lookup finds what was sent. A message may have
any number of spans of any length, and a span any number of pieces. `Accounted` says of every message the parser
is through with that it is the complete one, handled, cut off, or spoiled, `CompleteSoFar` what may come behind a
complete message in its receive, and `HandledSoFar` that the handled ones are in order; from these,
`EachIsHandledOnce`. `ResponsesFit` has no bound on headers and bodies: a response whose last piece begins within
`data_size`, or that is not longer than twice `data_size`, is inside of its buffer, because the loop of
`http_response_add_data` ends with room for `data_size` and the piece (`NewDataSizeFits`) and doubles at least
once for any piece but an empty one (`NewDataSizeDoubles`). Beyond that it is false (*Findings*). That the loop's
recursive function exists and grows is proved from the least number that would be an exception (`Least`), as the
provers cannot use the library's induction theorems.

Every inductive invariant was checked by TLC on the instances above before it was proved.

Only model-checked: liveness (`StopReturns`, `MailboxIsTaken`, `NtpStopReturns`, `ReceiveReturns`,
`MirrorStopReturns`, `FrameCompletes`, `SignalEndsProgram`), as TLAPS proves nothing from fairness, nor ENABLED.

## Findings

1. `flush_request`: a FLUSH reaches the jitter buffer only if the volume changes in the same round
   (`raop_rtp.c:319`), although the comments at lines 326 and 654 say the thread flushes.
2. `stopped_state`: `raop_buffer_flush` leaves the freed pointers in the entries (`raop_buffer.c:321`), so stop
   does not restore the initial state as `raop_rtp.c:681` says, and the next flush or destroy frees them again.
3. `clock_freed`: when a connection ends without a TEARDOWN, which a comment says is provided for
   (`raop.c:235`), `conn_destroy` frees the clock (`raop.c:232`) before it stops the receivers, whose threads
   read it.

Two uses of memory that `ResponseFits` and `QuietWhenFreed` therefore leave out:

- Each addition to a response sizes the buffer from `data_size`, which is never updated, and from its own length
  (`http_response.c:43`). Behind a value longer than 2048 bytes, as an echoed CSeq may be (`raop.c:155`), the end
  of the line shrinks the buffer and is written beyond it.
- `running` is cleared to "reflect the actual state" (`httpd.c:363`) while the thread has still to log a line
  through the server (`httpd.c:368`). If it ended by itself, `httpd_stop` does not wait for it (`httpd.c:445`),
  and `httpd_destroy` frees what it reads. The audio thread does the same (`raop_rtp.c:517`), which
  `ThreadLeavesBeforeFree` allows for.

Also seen while modelling: on Windows the receive timeouts of the clock client (`raop_ntp.c:203`) and of the
mirrored stream (`raop_rtp_mirror.c:213`) are none, as Winsock reads the first word of the `struct timeval`, 0:
a lost response ends the synchronisation until stop closes the socket, and a stop of mirroring lasts until the
sender goes on or closes; no pairing ever finishes (`raop_handlers.h:198` asks for the status before the
handshake, `pairing.c:214` for the one after it), which nothing depends on; without resends the loop that should
render continuous entries (`raop_rtp.c:490`) ends at a gap with the packet behind it waiting
(`raop_buffer.c:281`); objects that a second SETUP with keys replaces are never freed, nor their threads
stopped; a receiver whose thread has ended by itself is never joined and refuses to start again; a failing
`accept` ends the server for good while the program goes on; a payload shorter than the kept keystream is
decrypted past its end; a volume change empties the buffer without fixing a position, so packets older than the
last one played are accepted again (`PlayedInOrder` allows this one case); a packet resent late, after a flush,
can open a gap that is only asked for when the next data packet comes (`GapsAreAskedFor` speaks of the moment
after a data packet); `handle_resends` does not test `is_empty`, so it may ask for numbers from before a flush; a
complete request with an error behind it in the same receive is dropped (`httpd.c:293`); a second message that
comes before the answer is swallowed or merged with the first (`http_request.c`, which does not pause the parser).

## Not modelled

- AES, ALAC and AAC contents, the average in `raop_rtp_sync_clock` and the conversions of timestamps in
  `raop_ntp.c` (they set presentation times only), plist text.
- FairPlay (`fairplay_playfair.c`): it stores one message and decrypts one key with tables; `SETUP` does not
  look at its result, so that only the key differs.
- The cryptography of pairing; its status is in `Session`.
- A new key that comes *during* a call of `mirror_buffer_decrypt`, and other data races on bytes.
- Several connections at the same time in `Session`: connections share no session state but the server thread,
  the renderers and the counters in `Httpd`.
- Requests that only answer (`/info`, OPTIONS, GET_PARAMETER, feedback, RECORD), failing allocations, and the
  registration with the discovery library, which starts after the server does (a client that connects before
  `raop_set_dnssd` and `raop_set_port` would be answered without them).
- GStreamer, OpenMAX and dummy renderers, `logger.c`, `netutils.c`, `utils.c`, `byteutils.c`, `crypto.c`:
  wrappers whose effect is used where they are called.
- The vendored `llhttp` (but for when it calls back), `fdk-aac`, `h264-bitstream`, `playfair` and the
  headers and build files. They are some 250,000 of the repository's lines, decoders and tables without concurrency, so the modelled code is a small
  part of the whole by lines and most of what was written for this program.
