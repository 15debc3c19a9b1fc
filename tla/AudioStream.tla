---------------------------- MODULE AudioStream -----------------------------
(* A whole audio stream: a sender that numbers its packets 0, 1, 2, ... and  *)
(* puts the low 16 bits of the number on the wire, a datagram network that   *)
(* loses, repeats and reorders packets, and the running receiver of RaopRtp  *)
(* with its jitter buffer.  The payload of a packet is its true number, so   *)
(* what the renderer gets can be compared with what the sender meant, across *)
(* wrap-around, bursts of loss, volume changes and flushes.                  *)
(*                                                                           *)
(* The network keeps no state of its own: at any moment it may deliver any   *)
(* packet that is not too old.  Losing, repeating and reordering are all     *)
(* choices of what to deliver next.                                          *)
EXTENDS RaopRtp

CONSTANTS Packets,       \* bound: how many packets the sender sends
          FirstSeqnum,   \* sequence number of packet 0
          MaxDelay,      \* bound: how many packets later a packet still arrives
          MaxOutage      \* bound: packets sent in a row of which none arrives

\* A packet must not be so late, after so long an outage, that it is half a circle
\* from the playout position.  (With delays of up to Half alone, a position taken
\* from an old FLUSH can let everything newer compare as older, until the numbers
\* have gone once around and a packet of the next lap is taken for one of this.)
ASSUME StreamAssumption ==
  /\ Packets \in Nat
  /\ Data = 0 .. Packets - 1
  /\ FirstSeqnum \in Seqnum
  /\ MaxDelay \in Nat \ {0}
  /\ MaxOutage \in Nat
  /\ MaxDelay + MaxOutage + BufferLength <= Half + 1

VARIABLES sent,          \* packets sent so far
          heard,         \* the newest packet that arrived, or -1
          asked,         \* packets the receiver has asked the sender for again
          last           \* the packet rendered last since a volume change
                         \* flushed the buffer (-1: none)

netvars    == <<sent, heard, asked>>
streamvars == <<rtpvars, netvars, last>>

\* The sequence number on the wire.
Seq(p) == (FirstSeqnum + p) % Modulus

InFlight == {p \in 0 .. sent - 1 : sent - p <= MaxDelay}

\* The stream after raop_rtp_start_audio, nothing received.
StreamInit ==
  /\ Init
  /\ running = TRUE /\ joined = FALSE /\ sockets = TRUE /\ thread = "events"
  /\ control_rport \in ControlPorts
  /\ volume = 0 /\ volume_changed = FALSE /\ flush = NoFlush /\ posted = {}
  /\ taken = Parts(0) /\ applied = 0
  /\ caller = "idle" /\ destroying = FALSE
  /\ sent = 0 /\ heard = -1 /\ asked = {} /\ last = -1

-----------------------------------------------------------------------------
Send == /\ status # "aborted"
        /\ sent < Packets
        /\ heard = -1 \/ sent - heard <= MaxOutage
        /\ sent' = sent + 1
        /\ UNCHANGED <<rtpvars, heard, asked, last>>

Newest(p) == IF p > heard THEN p ELSE heard

DataArrives == \E p \in InFlight :
                 /\ ReceiveData(Seq(p), p)
                 /\ heard' = Newest(p)
                 /\ UNCHANGED <<sent, asked, last>>

ResentArrives == \E p \in InFlight \cap asked :
                   /\ ReceiveResent(Seq(p), p)
                   /\ heard' = Newest(p)
                   /\ UNCHANGED <<sent, asked, last>>

NoAudioArrives == ReceiveNoAudio /\ UNCHANGED <<netvars, last>>

\* audio_process is called with the payload dequeued.
Render == /\ Drain
          /\ last' = IF out'.ret = NULL THEN last ELSE out'.ret
          /\ UNCHANGED netvars

\* The request names sequence numbers; the sender knows which packets they were.
AskAgain == /\ RequestResends
            /\ asked' = IF out'.call = "resend"
                        THEN asked \cup
                             {p \in InFlight : \E k \in 0 .. out'.ret - 1 :
                                                  Seq(p) = ToUnsigned(first_seqnum + k)}
                        ELSE asked
            /\ UNCHANGED <<sent, heard, last>>

\* A volume change flushes the buffer: without a position the next packet to
\* arrive sets it, and the position of a FLUSH may by now lie behind it.
Callbacks == /\ MakeCallbacks
             /\ last' = IF taken.volume_changed THEN -1 ELSE last
             /\ UNCHANGED netvars

Loop == (TakeEvents \/ SelectTimeout) /\ UNCHANGED <<netvars, last>>

\* The user moves the volume slider; the sender flushes, naming its next packet.
VolumeMoves == (\E v \in Volumes : raop_rtp_set_volume(v)) /\ UNCHANGED <<netvars, last>>

SenderFlushes == raop_rtp_flush(Seq(sent)) /\ UNCHANGED <<netvars, last>>

StreamNext == \/ Send \/ DataArrives \/ ResentArrives \/ NoAudioArrives
              \/ Render \/ AskAgain \/ Callbacks \/ Loop
              \/ VolumeMoves \/ SenderFlushes

StreamSpec == StreamInit /\ [][StreamNext]_streamvars

-----------------------------------------------------------------------------
(* Properties.                                                              *)

\* The renderer gets packets in the order the sender made them, each at most
\* once, although the receiver only sees 16 bits of their numbers; only a volume
\* change, which restarts the buffer, may set it back.
PlayedInOrder ==
  [][last' # last => last' > last \/ (thread = "callbacks" /\ taken.volume_changed)]_streamvars

\* The packets waiting in the ring belong together: each lies under its own
\* sequence number, and no two are a ring length or a lap of the circle apart.
OneLap ==
  \A i, j \in Slots : entries[i].filled /\ entries[j].filled =>
     /\ entries[i].seqnum = Seq(entries[i].payload)
     /\ entries[i].payload - entries[j].payload < BufferLength

\* A receiver that asks for resends does not go back to waiting after a data
\* packet with a gap in front of what it holds, unless it has asked for all of
\* the gap.  (A packet resent late, after a flush has moved the position back,
\* can open a gap nobody asks for until the next data packet arrives.)
GapsAreAskedFor ==
  [][thread = "resends" /\ thread' # "resends" /\ ~is_empty =>
       \A k \in 0 .. EntryCount - 2 :
         MissingUpTo(k + 1) =>
           \A p \in InFlight : Seq(p) = ToUnsigned(first_seqnum + k) => p \in asked']_streamvars
=============================================================================
