------------------------------- MODULE WfbRx --------------------------------
(***************************************************************************)
(* WfbRx::recv and drain_pcap_nonblock (src/rx.rs) between the capture     *)
(* buffer of the kernel and one calling thread.  recv takes &mut self, so  *)
(* one call runs at a time; what it runs against is the world outside:     *)
(* packets that arrive at any moment, the clock, signals that interrupt    *)
(* poll, a failing poll and an interface that goes away.                   *)
(* The clock counts ticks, TicksPerMs to the millisecond, because recv     *)
(* rounds the time left down to whole milliseconds before it waits.        *)
(***************************************************************************)
EXTENDS RxRing, RxPacket

CONSTANTS Packet,       \* the packets on the air
          FcsByte,      \* stands for every byte of a frame check sequence
          stream_id,    \* of the WfbRxConfig
          Timeouts,     \* the timeouts callers pass, in milliseconds
          TicksPerMs,   \* resolution of the clock
          PollMax,      \* i32::MAX, the longest wait recv asks poll for
          KernelCap     \* packets the capture buffer holds

ASSUME ReceiverAssumption ==
  /\ ignore_self_injected \in BOOLEAN
  /\ Timeouts \subseteq Nat
  /\ TicksPerMs \in Nat \ {0}
  /\ PollMax \in Nat \ {0}
  /\ KernelCap \in Nat \ {0}
  /\ \A pkt \in Packet : WellFormed(pkt, Byte) /\ MetaOf(pkt) \in Meta

ASSUME FcsAssumption ==
  /\ FcsByte \in Byte /\ FcsByte # ZeroByte
  /\ \A pkt \in Packet : FcsIsFlagged(pkt, FcsByte)

VARIABLES pc,         \* where recv is: "idle" (not called), "loop", "ask" (it has read the
                      \* clock and is about to call poll), "poll" or "drain"
          buf_len,    \* length of the caller's buffer
          timeout,    \* the caller's timeout, in milliseconds
          elapsed,    \* start.elapsed(), in ticks
          wait,       \* how long poll is to wait, then what is left of it, in ticks
          lost,       \* history: time between the last clock reading and its poll, in ticks
          result,     \* what the last recv returned, "none" while one runs
          kbuf,       \* the capture buffer: packets the filter let through
          dev_up      \* the interface is there

locals == <<buf_len, timeout, elapsed, wait, lost>>
world  == <<kbuf, dev_up>>
vars   == <<ringVars, pc, locals, result, world>>

Init ==
  /\ RingInit
  /\ pc = "idle" /\ result = "none"
  /\ buf_len = 0 /\ timeout = 0 /\ elapsed = 0 /\ wait = 0 /\ lost = 0
  /\ kbuf = <<>> /\ dev_up = TRUE

-----------------------------------------------------------------------------
(* recv *)

Ticks(ms) == ms * TicksPerMs

\* Mutant: every wait is for the whole timeout.
MutRemainingMs == IF timeout <= PollMax THEN timeout ELSE PollMax

\* as_millis() rounds down, and poll takes an i32.
remaining_ms ==
  LET ms == (Ticks(timeout) - elapsed) \div TicksPerMs
  IN  IF ms <= PollMax THEN ms ELSE PollMax

\* recv returns; its locals are gone.
Return(r) ==
  /\ pc' = "idle" /\ result' = r
  /\ buf_len' = 0 /\ timeout' = 0 /\ elapsed' = 0 /\ wait' = 0 /\ lost' = 0

\* An empty buffer is refused.
RecvInvalid ==
  /\ pc = "idle"
  /\ Return("invalid")
  /\ UNCHANGED <<ringVars, world>>

\* A frame already in the ring is taken before the clock is read.
RecvTakes(n) ==
  /\ pc = "idle"
  /\ pop_one(n)
  /\ Return("frame")
  /\ UNCHANGED world

RecvStarts(n, t) ==
  /\ pc = "idle"
  /\ ring_count = 0
  /\ pc' = "loop" /\ result' = "none"
  /\ buf_len' = n /\ timeout' = t /\ elapsed' = 0 /\ wait' = 0 /\ lost' = 0
  /\ UNCHANGED <<ringVars, world>>

Recv(n, t) == RecvTakes(n) \/ RecvStarts(n, t)

LoopTakes ==
  /\ pc = "loop"
  /\ pop_one(buf_len)
  /\ Return("frame")
  /\ UNCHANGED world

LoopTimesOut ==
  /\ pc = "loop"
  /\ ring_count = 0
  /\ elapsed >= Ticks(timeout)
  /\ Return("timeout")
  /\ UNCHANGED <<ringVars, world>>

\* The clock is read, and poll is to wait for what is left of the timeout.
Asks == pc' = "ask" /\ wait' = Ticks(remaining_ms) /\ lost' = 0

\* Mutant: the ring is looked at once, before the loop.
MutLoopReads ==
  /\ pc = "loop"
  /\ elapsed < Ticks(timeout)
  /\ Asks
  /\ UNCHANGED <<ringVars, buf_len, timeout, elapsed, result, world>>

\* Mutant: the last millisecond is not waited for.
MutLoopGivesUp ==
  /\ pc = "loop"
  /\ ring_count = 0
  /\ elapsed + TicksPerMs < Ticks(timeout)
  /\ Asks
  /\ UNCHANGED <<ringVars, buf_len, timeout, elapsed, result, world>>

\* Mutant: the wait starts again with no look at the time left.
MutLoopReadsOn ==
  /\ pc = "loop"
  /\ ring_count = 0
  /\ Asks
  /\ UNCHANGED <<ringVars, buf_len, timeout, elapsed, result, world>>

LoopReads ==
  /\ pc = "loop"
  /\ ring_count = 0
  /\ elapsed < Ticks(timeout)
  /\ Asks
  /\ UNCHANGED <<ringVars, buf_len, timeout, elapsed, result, world>>

\* The thread may have been preempted since.
LoopPolls ==
  /\ pc = "ask"
  /\ pc' = "poll"
  /\ UNCHANGED <<ringVars, locals, result, world>>

\* poll returns, and recv goes on.
PollEnds(next) ==
  /\ pc' = next /\ wait' = 0 /\ lost' = 0
  /\ UNCHANGED <<ringVars, buf_len, timeout, elapsed, result, world>>

\* poll reports the descriptor readable, and also when the interface is gone.
PollReady ==
  /\ pc = "poll"
  /\ kbuf # <<>> \/ ~dev_up
  /\ PollEnds("drain")

PollTimeout ==
  /\ pc = "poll"
  /\ kbuf = <<>> /\ dev_up
  /\ wait = 0
  /\ Return("timeout")
  /\ UNCHANGED <<ringVars, world>>

\* Mutant: a signal is taken for the end of the timeout.
MutPollInterrupted ==
  /\ pc = "poll"
  /\ kbuf = <<>> /\ dev_up
  /\ Return("timeout")
  /\ UNCHANGED <<ringVars, world>>

\* A signal ends the wait, and recv waits again for what is left of its timeout;
\* poll looks at the descriptor before it looks for a signal.
PollInterrupted ==
  /\ pc = "poll"
  /\ kbuf = <<>> /\ dev_up
  /\ PollEnds("loop")

PollFails ==
  /\ pc = "poll"
  /\ Return("io")
  /\ UNCHANGED <<ringVars, world>>

\* One turn of drain_pcap_nonblock: next_packet, then parse_and_enqueue_one_packet.
DrainOne ==
  /\ pc = "drain"
  /\ kbuf # <<>>
  /\ LET pkt == Head(kbuf)
     IN  \/ Accepts(pkt) /\ enqueue_decoded(PayloadOf(pkt), MetaOf(pkt))
         \/ ~Accepts(pkt) /\ UNCHANGED ringVars
  /\ kbuf' = Tail(kbuf)
  /\ UNCHANGED <<pc, locals, result, dev_up>>

\* Any error of next_packet ends the drain: nothing left to read, or no interface.
DrainStop ==
  /\ pc = "drain"
  /\ kbuf = <<>> \/ ~dev_up
  /\ pc' = "loop"
  /\ UNCHANGED <<ringVars, locals, result, world>>

-----------------------------------------------------------------------------
(* The world outside *)

\* The kernel runs the filter open installed, and drops a packet it has no room for.
Arrive(pkt) ==
  /\ dev_up
  /\ pkt.stream = stream_id
  /\ Len(kbuf) < KernelCap
  /\ kbuf' = Append(kbuf, pkt)
  /\ UNCHANGED <<ringVars, pc, locals, result, dev_up>>

InterfaceGone ==
  /\ dev_up
  /\ dev_up' = FALSE
  /\ UNCHANGED <<ringVars, pc, locals, result, kbuf>>

\* Time past the caller's timeout makes no difference to recv, so elapsed stops there;
\* a poll that began late goes on waiting.
Tick ==
  /\ pc # "idle"
  /\ \/ elapsed < Ticks(timeout) /\ elapsed' = elapsed + 1
     \/ pc = "poll" /\ wait > 0 /\ elapsed = Ticks(timeout) /\ UNCHANGED elapsed
  /\ wait' = IF pc = "poll" /\ wait > 0 THEN wait - 1 ELSE wait
  /\ lost' = IF pc = "ask" THEN lost + 1 ELSE lost
  /\ UNCHANGED <<ringVars, pc, buf_len, timeout, result, world>>

-----------------------------------------------------------------------------
\* What the thread inside recv does by itself.
RecvStep ==
  \/ LoopTakes \/ LoopTimesOut \/ LoopReads \/ LoopPolls
  \/ PollReady \/ PollTimeout
  \/ DrainOne \/ DrainStop

Next ==
  \/ RecvInvalid
  \/ \E n \in BufLen, t \in Timeouts : Recv(n, t)
  \/ RecvStep
  \/ PollInterrupted \/ PollFails
  \/ \E pkt \in Packet : Arrive(pkt)
  \/ InterfaceGone
  \/ Tick

Spec == Init /\ [][Next]_vars

\* A thread inside recv is scheduled, and time passes.  Nothing is assumed of the
\* callers, the traffic, the signals or the interface.
FairSpec == Spec /\ WF_vars(RecvStep) /\ WF_vars(Tick)

-----------------------------------------------------------------------------
\* The receiver's state has its type, between and inside calls of recv.
TypeOK ==
  /\ RingTypeOK
  /\ pc \in {"idle", "loop", "ask", "poll", "drain"}
  /\ buf_len \in BufLen \cup {0}
  /\ timeout \in Timeouts \cup {0}
  /\ elapsed \in 0 .. Ticks(timeout)
  /\ wait \in 0 .. Ticks(timeout) /\ lost \in 0 .. elapsed
  /\ result \in {"none", "frame", "timeout", "invalid", "io"}
  /\ kbuf \in Seq(Packet) /\ Len(kbuf) <= KernelCap
  /\ dev_up \in BOOLEAN

\* recv neither waits nor reports a timeout while a frame is in the ring: the
\* drain that filled it is always followed by another look at ring_count, and
\* whatever the last drain left is found by the next call before it waits.
NeverWaitsOnAFrame ==
  pc \in {"ask", "poll"} \/ result \in {"timeout", "io"} => ring_count = 0

\* However often signals and useless wakeups restart the wait, poll ends within the
\* timeout of the call: each wait is for what is left.  Only what the thread loses to
\* others between its last clock reading and poll can stretch the call, and what it
\* lost in earlier turns of the loop cannot.
NeverWaitsPastTimeout ==
  pc = "poll" => elapsed + wait <= Ticks(timeout) + lost

\* recv reports a timeout at most one millisecond early, the rounding of
\* as_millis, unless the timeout is longer than the longest wait poll can do.
\* In particular a signal, a bad packet or a drain that kept nothing is not a timeout.
TimeoutNotEarly ==
  [][ pc # "idle" /\ pc' = "idle" /\ result' = "timeout"
      => \/ elapsed > Ticks(timeout) - TicksPerMs
         \/ elapsed >= Ticks(PollMax) ]_vars

\* No byte of a frame check sequence ever reaches a reader, whatever the payload
\* length in the header claims and whatever a slot held before: effective_len leaves
\* the FCS out before every length check.
FcsNeverDelivered == \A i \in 1 .. Len(popped.buf) : popped.buf[i] # FcsByte

\* What the readers may still expect: the frames of the ring, then the
\* acceptable packets of the capture buffer.
FrameOf(pkt) == [payload |-> PayloadOf(pkt), meta |-> MetaOf(pkt)]

Frames(pkts) ==
  LET upTo[k \in 0 .. Len(pkts)] ==
        IF k = 0 THEN <<>>
        ELSE IF Accepts(pkts[k]) THEN Append(upTo[k - 1], FrameOf(pkts[k]))
                                 ELSE upTo[k - 1]
  IN  upTo[Len(pkts)]

Captured == Frames(kbuf)

Receiver == INSTANCE LossyFifo WITH Capacity <- ring_size,
                                    pending  <- RingQueue \o Captured

\* Every acceptable packet the capture buffer took in reaches the reader once, in
\* capture order and with its own metadata, across drains, calls and timeouts;
\* one is lost only while ring_size older ones are unread, and no other packet
\* ever reaches the reader.
ReceiverIsLossyFifo == Receiver!LossySpec

\* Packets stop arriving: from some point on the capture buffer takes none in.
GoesQuiet == <>[][Len(kbuf') <= Len(kbuf)]_vars

\* Every call of recv ends, whatever the signals, the interface and the packets
\* do, once packets stop arriving.
RecvReturnsWhenQuiet == GoesQuiet => (pc # "idle" ~> pc = "idle")

\* Every call of recv ends: "RX poll timeout in milliseconds" in
\* python/examples/simple_txrx.py:78, whose main thread joins the reading one for
\* that timeout and 0.2 seconds more.
RecvReturns == pc # "idle" ~> pc = "idle"
=============================================================================
