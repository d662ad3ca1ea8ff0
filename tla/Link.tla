-------------------------------- MODULE Link --------------------------------
(***************************************************************************)
(* Two hosts that run examples/simple_txrx.rs.  A peer sends the lines of  *)
(* its input.  On this host the main thread sends lines too, the reading   *)
(* thread calls recv again and again, and the capture shows it the frames  *)
(* of the peer and, marked as injected here, those of its own main thread. *)
(* The air may lose a frame; it neither repeats nor reorders them.  What   *)
(* else is on the air, and passes the filter, may never stop arriving.     *)
(***************************************************************************)
EXTENDS WfbRx, WfbFrameHeader

CONSTANTS CallPayload, frame_type, SeqNumbers,   \* of WfbTx
          PeerSendsMax, OwnSendsMax,   \* bounds of the model: MaxSends of the two senders
          OwnPayload,                  \* the lines of this host, CallPayload those of the peer
          RadiotapLen, Radio,          \* of FrameLink
          Noise                        \* packets of neither host that pass the filter

VARIABLES
  peer_ieee80211_seq, peer_air, peer_sends, peer_tx_result,   \* the peer's WfbTx
  peer_seq,      \* the number of the peer's next packet
  peer_past,     \* how many of the peer's frames have gone past this host
  own_ieee80211_seq, own_air, own_sends, own_tx_result,       \* this host's WfbTx
  own_seq,
  own_past,
  main,          \* this host's main thread: "lines", "join" or "ended"
  reader,        \* its reading thread: "call", "recv" (inside or just back) or "stopped"
  heard          \* what the reading thread printed

peerTx   == <<peer_ieee80211_seq, peer_air, peer_sends, peer_tx_result, peer_seq>>
ownTx    == <<own_ieee80211_seq, own_air, own_sends, own_tx_result, own_seq>>
past     == <<peer_past, own_past>>
program  == <<main, reader, heard>>
linkVars == <<vars, peerTx, ownTx, past, program>>

\* The number of a line is a u32 that the main thread counts.
Peer == INSTANCE FrameLink WITH
  ieee80211_seq <- peer_ieee80211_seq, air <- peer_air,
  sends <- peer_sends, tx_result <- peer_tx_result,
  CallSeq <- U32, MaxSends <- PeerSendsMax

Own == INSTANCE FrameLink WITH
  ieee80211_seq <- own_ieee80211_seq, air <- own_air,
  sends <- own_sends, tx_result <- own_tx_result,
  CallPayload <- OwnPayload, CallSeq <- U32, MaxSends <- OwnSendsMax

\* The receiver's configuration and its buffer of 4097 bytes, which holds any payload.
ASSUME ExampleAssumption ==
  /\ ignore_self_injected = TRUE
  /\ \A n \in BufLen : n >= max_payload

ASSUME HostsAssumption ==
  /\ SeqNumbers \in Nat \ {0} /\ PeerSendsMax \in Nat /\ OwnSendsMax \in Nat
  /\ CallPayload \subseteq Seq(Byte) /\ OwnPayload \subseteq Seq(Byte)
  /\ RadiotapLen \subseteq Nat

\* A frame on the air, as far as the capture shows it.
OnAir(line, seq) ==
  [stream |-> stream_id, payload |-> line,
   hdr |-> encode([version |-> WFB_PROTO_VERSION, seq |-> seq,
                   payload_len |-> Len(line), flags |-> 0])]

\* The driver gives its own host's frames back with the radiotap field TX_FLAGS.
GivenBack(pkt) == [pkt EXCEPT !.radiotap.self_injected = TRUE]

\* What the capture may show of the two hosts' frames is among the packets.
ASSUME AirAssumption ==
  \A seq \in U32, len \in RadiotapLen, radio \in Radio :
    /\ \A line \in CallPayload, with_fcs \in BOOLEAN :
         Peer!Fits(line) => Peer!Received(OnAir(line, seq), len, with_fcs, radio) \in Packet
    /\ \A line \in OwnPayload :
         Own!Fits(line) => GivenBack(Own!Received(OnAir(line, seq), len, FALSE, radio)) \in Packet

\* The stream is the two hosts': what else passes the filter is damaged, or injected
\* on this host by another program, and the receiver refuses it.
ASSUME NoiseAssumption == \A pkt \in Noise : pkt \in Packet /\ ~Accepts(pkt)

LinkInit ==
  /\ Init
  /\ Peer!TxInit /\ Own!TxInit
  /\ peer_seq = 1 /\ own_seq = 1
  /\ peer_past = 0 /\ own_past = 0
  /\ main = "lines" /\ reader = "call" /\ heard = <<>>

-----------------------------------------------------------------------------
(* The main threads *)

\* wrapping_add(1) on a u32.
NextPacket(seq) == (seq + 1) % (ByteValues * ByteValues * ByteValues * ByteValues)

\* An empty line is skipped.  `?` ends the peer's program when send fails.
PeerSends(line) ==
  /\ peer_tx_result \in {"none", "ok"}
  /\ line # <<>>
  /\ \/ Peer!SendOk(line, peer_seq) /\ peer_seq' = NextPacket(peer_seq)
     \/ (Peer!SendFails(line) \/ Peer!SendTooLarge(line)) /\ UNCHANGED peer_seq
  /\ UNCHANGED <<vars, ownTx, past, program>>

OwnSends(line) ==
  /\ main = "lines"
  /\ line # <<>>
  /\ Own!SendOk(line, own_seq)
  /\ own_seq' = NextPacket(own_seq)
  /\ UNCHANGED <<vars, peerTx, past, program>>

\* main returns the error, and with main the program ends, its reading thread included.
OwnSendFails(line) ==
  /\ main = "lines"
  /\ line # <<>>
  /\ Own!SendFails(line) \/ Own!SendTooLarge(line)
  /\ main' = "ended"
  /\ UNCHANGED <<vars, peerTx, own_seq, past, reader, heard>>

\* The input ends, or cannot be read.
InputEnds ==
  /\ main = "lines"
  /\ main' \in {"join", "ended"}
  /\ UNCHANGED <<vars, peerTx, ownTx, past, reader, heard>>

JoinReturns ==
  /\ main = "join"
  /\ reader = "stopped"
  /\ main' = "ended"
  /\ UNCHANGED <<vars, peerTx, ownTx, past, reader, heard>>

-----------------------------------------------------------------------------
(* The reading thread *)

Running == main # "ended"

ReaderCalls ==
  /\ Running
  /\ reader = "call" /\ reader' = "recv"
  /\ \E n \in BufLen, t \in Timeouts : Recv(n, t)
  /\ UNCHANGED <<peerTx, ownTx, past, main, heard>>

\* Inside recv.
ReaderRecvs ==
  /\ Running
  /\ RecvStep
  /\ UNCHANGED <<peerTx, ownTx, past, program>>

ReaderInterrupted ==
  /\ Running
  /\ PollInterrupted \/ PollFails
  /\ UNCHANGED <<peerTx, ownTx, past, program>>

ReaderPrints ==
  /\ Running
  /\ reader = "recv" /\ result = "frame"
  /\ heard' = Append(heard, [seq |-> popped.meta.seq, payload |-> popped.buf])
  /\ reader' = "call"
  /\ UNCHANGED <<vars, peerTx, ownTx, past, main>>

\* Mutant: the reading thread takes a timeout for the end.
MutReaderContinues ==
  /\ Running
  /\ reader = "recv" /\ result = "timeout"
  /\ reader' = "stopped"
  /\ UNCHANGED <<vars, peerTx, ownTx, past, main, heard>>

ReaderContinues ==
  /\ Running
  /\ reader = "recv" /\ result = "timeout"
  /\ reader' = "call"
  /\ UNCHANGED <<vars, peerTx, ownTx, past, main, heard>>

ReaderBreaks ==
  /\ Running
  /\ reader = "recv" /\ result \in {"io", "invalid"}
  /\ reader' = "stopped"
  /\ UNCHANGED <<vars, peerTx, ownTx, past, main, heard>>

-----------------------------------------------------------------------------
(* The air, the capture of this host, and its clock *)

PeerFrame(len, with_fcs, radio) ==
  Peer!Received(peer_air[peer_past + 1], len, with_fcs, radio)

OwnFrame(len, radio) ==
  GivenBack(Own!Received(own_air[own_past + 1], len, FALSE, radio))

PeerFramePasses ==
  /\ Running
  /\ peer_past < Len(peer_air)
  /\ peer_past' = peer_past + 1
  /\ \/ \E len \in RadiotapLen, with_fcs \in BOOLEAN, radio \in Radio :
           Arrive(PeerFrame(len, with_fcs, radio))
     \/ UNCHANGED vars
  /\ UNCHANGED <<own_past, peerTx, ownTx, program>>

OwnFramePasses ==
  /\ Running
  /\ own_past < Len(own_air)
  /\ own_past' = own_past + 1
  /\ \/ \E len \in RadiotapLen, radio \in Radio : Arrive(OwnFrame(len, radio))
     \/ UNCHANGED vars
  /\ UNCHANGED <<peer_past, peerTx, ownTx, program>>

NoisePasses ==
  /\ Running
  /\ \E pkt \in Noise : Arrive(pkt)
  /\ UNCHANGED <<past, peerTx, ownTx, program>>

LinkWorld ==
  /\ Running
  /\ InterfaceGone \/ Tick
  /\ UNCHANGED <<peerTx, ownTx, past, program>>

-----------------------------------------------------------------------------
ReaderStep ==
  ReaderCalls \/ ReaderRecvs \/ ReaderPrints \/ ReaderContinues \/ ReaderBreaks

LinkNext ==
  \/ \E line \in CallPayload : PeerSends(line)
  \/ \E line \in OwnPayload : OwnSends(line) \/ OwnSendFails(line)
  \/ InputEnds \/ JoinReturns
  \/ ReaderStep \/ ReaderInterrupted
  \/ PeerFramePasses \/ OwnFramePasses \/ NoisePasses
  \/ LinkWorld

LinkReads == Running /\ LoopReads /\ UNCHANGED <<peerTx, ownTx, past, program>>
LinkTick  == Running /\ Tick /\ UNCHANGED <<peerTx, ownTx, past, program>>

\* The reading thread is scheduled, time passes, and the thread does not lose the
\* whole of its timeout between the start of a call and its look at the clock for ever.
LinkSpec ==
  /\ LinkInit /\ [][LinkNext]_linkVars
  /\ WF_linkVars(ReaderStep) /\ WF_linkVars(LinkTick) /\ SF_linkVars(LinkReads)

-----------------------------------------------------------------------------
\* The composition keeps the types of its parts; the packets that reach recv are
\* ones the receiver was checked with.
LinkTypeOK ==
  /\ TypeOK
  /\ Peer!TxTypeOK /\ Own!TxTypeOK
  /\ peer_seq \in U32 /\ own_seq \in U32
  /\ peer_past \in 0 .. Len(peer_air) /\ own_past \in 0 .. Len(own_air)
  /\ main \in {"lines", "join", "ended"}
  /\ reader \in {"call", "recv", "stopped"}
  /\ \A i \in DOMAIN heard : heard[i].seq \in U32

\* What the reading thread prints is what the peer's main thread sent: whole lines
\* under their own numbers, in the order of sending, none of them twice.  The
\* lines of its own host, numbered from 1 just as the peer's, never come back as
\* the peer's.
SentLine(frame) == [seq |-> frame.seq, payload |-> frame.payload]

HeardAsSent ==
  \E place \in [DOMAIN heard -> DOMAIN peer_air] :
    /\ \A k \in DOMAIN heard : heard[k] = SentLine(peer_air[place[k]])
    /\ \A j, k \in DOMAIN heard : j < k => place[j] < place[k]

\* A frame waits behind fewer than ring_size others, in the ring or in the capture buffer.
Awaited(seq) ==
  LET waiting == RingQueue \o Captured
  IN  \E k \in 1 .. Len(waiting) : k <= ring_size /\ waiting[k].meta.seq = seq

Printed(seq) == \E i \in DOMAIN heard : heard[i].seq = seq

Held(seq) == reader = "recv" /\ result = "frame" /\ popped.meta.seq = seq

\* No step of the reading thread, the drain, the capture or the world loses a frame
\* that waits behind fewer than ring_size others: it goes on waiting until recv
\* returns it, and is held until it is printed.  Nothing is asked of fairness, and
\* nothing excused: an interface that goes, a poll that fails and a program that
\* ends leave the frame where it is.
AwaitedIsKept ==
  [][\A seq \in U32 : /\ Awaited(seq) => Awaited(seq)' \/ Held(seq)'
                      /\ Held(seq) => Held(seq)' \/ Printed(seq)']_linkVars

\* A frame of the peer that the capture took in while fewer than ring_size frames
\* waited before it is printed once packets stop arriving, whatever arrived after it
\* until then, of the peer, of this host or of others, and however often recv times out
\* or is interrupted.  It is lost only if the interface goes, poll fails or the program
\* ends.  While packets go on arriving nothing is promised: the drain need not end.
CapturedIsHeard ==
  GoesQuiet =>
    \A seq \in 1 .. PeerSendsMax :
      Awaited(seq) ~> (Printed(seq) \/ ~dev_up \/ result = "io" \/ ~Running)
=============================================================================
