---------------------------- MODULE WfbRxProofs -----------------------------
(***************************************************************************)
(* Proofs about WfbRx, for every ring size, packet set, timeout and        *)
(* resolution of the clock.  The receiver drives its ring only through     *)
(* enqueue_decoded and pop_one, so what RxRingProofs proves of the ring    *)
(* holds inside it; the rest is what recv adds: when it waits, for how     *)
(* long, and when it says that the time is over.                           *)
(***************************************************************************)
EXTENDS WfbRx, RxRingProofs, InductionLemmas

-----------------------------------------------------------------------------
(* The clock. *)

LEMMA TicksType == ASSUME NEW ms \in Nat PROVE Ticks(ms) \in Nat
  BY ReceiverAssumption DEF Ticks

\* Whole milliseconds of a stretch of time: less than it, by less than one.
LEMMA WholeMs ==
  ASSUME NEW x \in Nat
  PROVE  /\ x \div TicksPerMs \in Nat
         /\ Ticks(x \div TicksPerMs) <= x
         /\ Ticks(x \div TicksPerMs) > x - TicksPerMs
<1>1. TicksPerMs \in Nat \ {0}
  BY ReceiverAssumption
<1>2. /\ x \div TicksPerMs \in Nat
      /\ x = TicksPerMs * (x \div TicksPerMs) + (x % TicksPerMs)
      /\ x % TicksPerMs \in 0 .. (TicksPerMs - 1)
  BY <1>1
<1>3. TicksPerMs * (x \div TicksPerMs) = (x \div TicksPerMs) * TicksPerMs
  BY <1>1, <1>2
<1>4. QED BY <1>1, <1>2, <1>3 DEF Ticks

LEMMA TicksMonotonic ==
  ASSUME NEW a \in Nat, NEW b \in Nat, a <= b
  PROVE  Ticks(a) <= Ticks(b)
  BY ReceiverAssumption DEF Ticks

\* The wait recv asks poll for ends within the timeout, and less than a millisecond
\* before it unless it is the longest wait there is.
LEMMA WaitLength ==
  ASSUME timeout \in Nat, elapsed \in 0 .. Ticks(timeout)
  PROVE  /\ Ticks(remaining_ms) \in Nat
         /\ elapsed + Ticks(remaining_ms) <= Ticks(timeout)
         /\ \/ elapsed + Ticks(remaining_ms) > Ticks(timeout) - TicksPerMs
            \/ elapsed + Ticks(remaining_ms) >= Ticks(PollMax)
<1> DEFINE left == Ticks(timeout) - elapsed
           ms   == left \div TicksPerMs
<1>1. Ticks(timeout) \in Nat /\ left \in Nat /\ elapsed \in Nat
  BY TicksType
<1>2. ms \in Nat /\ Ticks(ms) <= left /\ Ticks(ms) > left - TicksPerMs
  BY <1>1, WholeMs
<1>3. PollMax \in Nat /\ TicksPerMs \in Nat
  BY ReceiverAssumption
<1>4. remaining_ms = IF ms <= PollMax THEN ms ELSE PollMax
  BY DEF remaining_ms
<1>5. Ticks(ms) \in Nat /\ Ticks(PollMax) \in Nat
  BY <1>2, <1>3, TicksType
<1> HIDE DEF left, ms
<1>6. left = Ticks(timeout) - elapsed
  BY DEF left
<1>7. CASE ms <= PollMax
  BY <1>1, <1>2, <1>3, <1>4, <1>5, <1>6, <1>7
<1>8. CASE ~(ms <= PollMax)
  <2>1. Ticks(PollMax) <= Ticks(ms)
    BY <1>2, <1>3, <1>8, TicksMonotonic
  <2>2. QED BY <1>1, <1>2, <1>3, <1>4, <1>5, <1>6, <1>8, <2>1
<1>9. QED BY <1>7, <1>8

-----------------------------------------------------------------------------
(* Every step of the receiver is a step of its ring, or leaves it alone. *)

\* What Accepts lets through fits a slot.
LEMMA AcceptedFits ==
  ASSUME NEW pkt \in Packet, Accepts(pkt)
  PROVE  PayloadOf(pkt) \in Payload /\ MetaOf(pkt) \in Meta
<1>1. WellFormed(pkt, Byte) /\ MetaOf(pkt) \in Meta
  BY ReceiverAssumption
<1>2. /\ pkt.len \in Nat /\ pkt.hdr.payload_len \in Nat /\ pkt.bytes \in Seq(Byte)
      /\ pkt.radiotap.radiotap_len \in Nat
      /\ Len(pkt.bytes) = IF pkt.len >= payload_start(pkt)
                          THEN pkt.len - payload_start(pkt) ELSE 0
  BY <1>1 DEF WellFormed
<1>3. payload_start(pkt) \in Nat
  BY <1>2 DEF payload_start, IEE80211_HEADER_LEN, WFB_PLAINTEXT_HDR_LEN
<1>4. effective_len(pkt) \in Nat /\ effective_len(pkt) <= pkt.len
  BY <1>2 DEF effective_len, FCS_LEN
<1>5. pkt.hdr.payload_len <= Len(pkt.bytes) /\ pkt.hdr.payload_len <= max_payload
  BY <1>2, <1>3, <1>4 DEF Accepts, max_payload
<1>6. /\ PayloadOf(pkt) \in Seq(Byte)
      /\ Len(PayloadOf(pkt)) = pkt.hdr.payload_len
  BY <1>2, <1>5 DEF PayloadOf
<1>7. PayloadOf(pkt) \in Payload
  <2>1. PayloadOf(pkt) \in [1 .. pkt.hdr.payload_len -> Byte]
    BY <1>6
  <2>2. pkt.hdr.payload_len \in 0 .. max_payload /\ max_payload \in Nat
    BY <1>2, <1>5, MaxPayloadType
  <2>3. QED BY <2>1, <2>2 DEF Payload, BoundedSeq, SeqOf
<1>8. QED BY <1>1, <1>7

Locals ==
  /\ pc \in {"idle", "loop", "ask", "poll", "drain"}
  /\ buf_len \in BufLen \cup {0}
  /\ timeout \in Timeouts \cup {0}
  /\ elapsed \in 0 .. Ticks(timeout)
  /\ wait \in 0 .. Ticks(timeout) /\ lost \in 0 .. elapsed
  /\ result \in {"none", "frame", "timeout", "invalid", "io"}

World ==
  /\ kbuf \in Seq(Packet) /\ Len(kbuf) <= KernelCap
  /\ dev_up \in BOOLEAN

\* A wait that is asked for or running ends when the timeout does, but for what the
\* thread lost before poll, and less than a millisecond before unless it is the longest.
WaitInv ==
  /\ elapsed + wait <= Ticks(timeout) + lost
  /\ \/ elapsed + wait > Ticks(timeout) - TicksPerMs
     \/ elapsed + wait >= Ticks(PollMax)

\* What is true of a call that is running.
CallInv ==
  /\ pc # "idle" => result = "none"
  /\ pc # "idle" => buf_len \in BufLen
  /\ pc \in {"ask", "poll"} \/ result \in {"timeout", "io"} => ring_count = 0
  /\ pc \in {"ask", "poll"} => WaitInv

ReceiverInv == RingInv /\ Locals /\ World /\ CallInv

LEMMA TimeoutType ==
  ASSUME Locals
  PROVE  /\ timeout \in Nat /\ Ticks(timeout) \in Nat /\ elapsed \in Nat
         /\ 0 \in 0 .. Ticks(timeout)
<1>1. timeout \in Nat
  BY ReceiverAssumption DEF Locals
<1>2. QED BY <1>1, TicksType DEF Locals

\* A call that has returned left nothing behind.
LEMMA ReturnLocals ==
  ASSUME NEW r \in {"frame", "timeout", "invalid", "io"}, Return(r)
  PROVE  Locals'
<1>1. Ticks(0) = 0
  BY ReceiverAssumption DEF Ticks
<1>2. /\ pc' = "idle" /\ result' = r
      /\ buf_len' = 0 /\ timeout' = 0 /\ elapsed' = 0 /\ wait' = 0 /\ lost' = 0
  BY DEF Return
<1>3. Ticks(timeout') = 0
  BY <1>1, <1>2
<1>4. QED BY <1>2, <1>3 DEF Locals, Ticks

LEMMA InitReceiverInv == Init => ReceiverInv
<1>1. SUFFICES ASSUME Init PROVE ReceiverInv
  OBVIOUS
<1>2. RingInv
  BY <1>1, RingInitInv DEF Init
<1>3. Ticks(timeout) = 0
  BY <1>1, ReceiverAssumption DEF Init, Ticks
<1>4. Locals /\ World
  BY <1>1, <1>3, ReceiverAssumption DEF Init, Locals, World
<1>5. CallInv
  BY <1>1 DEF Init, CallInv
<1>6. QED BY <1>2, <1>4, <1>5 DEF ReceiverInv

-----------------------------------------------------------------------------
(* One lemma for each group of actions. *)

\* A frame is taken: the ring shrinks by one and the call is over.
LEMMA TakeInv ==
  ASSUME ReceiverInv, NEW n \in BufLen, pop_one(n), Return("frame"), UNCHANGED world
  PROVE  ReceiverInv' /\ RingNext
<1>1. n \in Nat
  BY RingAssumption
<1>2. RingInv'
  BY <1>1, PopInv DEF ReceiverInv
<1>3. Locals'
  BY ReturnLocals
<1>4. World'
  BY DEF ReceiverInv, World, world
<1>5. CallInv'
  BY DEF CallInv, Return
<1>6. QED BY <1>2, <1>3, <1>4, <1>5 DEF ReceiverInv, RingNext

\* The call ends without a frame.
LEMMA EndInv ==
  ASSUME ReceiverInv, NEW r \in {"timeout", "io", "invalid"}, Return(r),
         r # "invalid" => ring_count = 0,
         UNCHANGED <<ringVars, world>>
  PROVE  ReceiverInv'
<1>1. RingInv'
  BY RingStutterInv DEF ReceiverInv
<1>2. Locals'
  BY ReturnLocals
<1>3. World'
  BY DEF ReceiverInv, World, world
<1>4. CallInv'
  BY DEF CallInv, Return, ringVars
<1>5. QED BY <1>1, <1>2, <1>3, <1>4 DEF ReceiverInv

LEMMA StartInv ==
  ASSUME ReceiverInv, NEW n \in BufLen, NEW t \in Timeouts, RecvStarts(n, t)
  PROVE  ReceiverInv'
<1>1. RingInv' /\ World'
  BY RingStutterInv DEF ReceiverInv, RecvStarts, World, world
<1>2. Ticks(t) \in Nat
  BY ReceiverAssumption, TicksType
<1>3. Locals'
  BY <1>2 DEF RecvStarts, Locals, Ticks
<1>4. CallInv'
  BY DEF RecvStarts, CallInv, ringVars
<1>5. QED BY <1>1, <1>3, <1>4 DEF ReceiverInv

LEMMA LoopReadsInv ==
  ASSUME ReceiverInv, LoopReads
  PROVE  ReceiverInv'
<1>1. RingInv' /\ World'
  BY RingStutterInv DEF ReceiverInv, LoopReads, World, world
<1>2. timeout \in Nat /\ elapsed \in 0 .. Ticks(timeout) /\ Ticks(timeout) \in Nat
  BY TimeoutType DEF ReceiverInv, Locals
<1>3. /\ pc' = "ask" /\ wait' = Ticks(remaining_ms) /\ lost' = 0
      /\ UNCHANGED <<ringVars, buf_len, timeout, elapsed, result>>
      /\ pc = "loop" /\ ring_count = 0
  BY DEF LoopReads, Asks
<1>4. Ticks(timeout') = Ticks(timeout) /\ ring_count' = ring_count
  BY <1>3 DEF ringVars
<1>5. Locals'
  BY <1>2, <1>3, <1>4, WaitLength DEF ReceiverInv, Locals
<1>6. WaitInv'
  BY <1>2, <1>3, <1>4, WaitLength DEF WaitInv
<1>7. CallInv'
  BY <1>3, <1>4, <1>6 DEF ReceiverInv, CallInv
<1>8. QED BY <1>1, <1>5, <1>7 DEF ReceiverInv

LEMMA LoopPollsInv ==
  ASSUME ReceiverInv, LoopPolls
  PROVE  ReceiverInv'
<1>1. RingInv' /\ World'
  BY RingStutterInv DEF ReceiverInv, LoopPolls, World, world
<1>2. Locals' /\ CallInv'
  BY DEF LoopPolls, ReceiverInv, Locals, CallInv, WaitInv, locals, ringVars, Ticks
<1>3. QED BY <1>1, <1>2 DEF ReceiverInv

\* poll is over, and its wait with it.
LEMMA PollEndsInv ==
  ASSUME ReceiverInv, pc = "poll", NEW next \in {"loop", "drain"}, PollEnds(next)
  PROVE  ReceiverInv'
<1>1. RingInv' /\ World'
  BY RingStutterInv DEF ReceiverInv, PollEnds, World, world
<1>2. Ticks(timeout') = Ticks(timeout) /\ Ticks(timeout) \in Nat /\ elapsed \in Nat
  BY TimeoutType DEF PollEnds, ReceiverInv
<1>3. Locals'
  BY <1>2 DEF PollEnds, ReceiverInv, Locals
<1>4. CallInv'
  BY DEF PollEnds, ReceiverInv, CallInv, ringVars
<1>5. QED BY <1>1, <1>3, <1>4 DEF ReceiverInv

LEMMA DrainStopInv ==
  ASSUME ReceiverInv, DrainStop
  PROVE  ReceiverInv'
<1>1. RingInv' /\ World'
  BY RingStutterInv DEF ReceiverInv, DrainStop, World, world
<1>2. Locals' /\ CallInv'
  BY DEF DrainStop, ReceiverInv, Locals, CallInv, locals, ringVars, Ticks
<1>3. QED BY <1>1, <1>2 DEF ReceiverInv

LEMMA DrainOneInv ==
  ASSUME ReceiverInv, DrainOne
  PROVE  ReceiverInv' /\ [RingNext]_ringVars
<1>1. kbuf \in Seq(Packet) /\ kbuf # <<>>
  BY DEF DrainOne, ReceiverInv, World
<1>2. Head(kbuf) \in Packet /\ Tail(kbuf) \in Seq(Packet) /\ Len(Tail(kbuf)) <= Len(kbuf)
  BY <1>1
<1>3. [RingNext]_ringVars
  <2>1. CASE ~Accepts(Head(kbuf))
    BY <2>1 DEF DrainOne
  <2>2. CASE Accepts(Head(kbuf))
    BY <1>2, <2>2, AcceptedFits DEF DrainOne, RingNext
  <2>3. QED BY <2>1, <2>2
<1>4. RingInv'
  BY <1>3, RingNextInv DEF ReceiverInv
<1>5. World'
  BY <1>2, ReceiverAssumption DEF DrainOne, ReceiverInv, World
<1>6. Locals' /\ CallInv'
  BY DEF DrainOne, ReceiverInv, Locals, CallInv, WaitInv, locals, Ticks
<1>7. QED BY <1>3, <1>4, <1>5, <1>6 DEF ReceiverInv

\* The world moves: a packet arrives or the interface goes.
LEMMA WorldInv ==
  ASSUME ReceiverInv, UNCHANGED <<ringVars, pc, locals, result>>, World'
  PROVE  ReceiverInv'
<1>1. RingInv'
  BY RingStutterInv DEF ReceiverInv
<1>2. Locals' /\ CallInv'
  BY DEF ReceiverInv, Locals, CallInv, WaitInv, locals, Ticks, ringVars
<1>3. QED BY <1>1, <1>2 DEF ReceiverInv

LEMMA ArriveInv ==
  ASSUME ReceiverInv, NEW pkt \in Packet, Arrive(pkt)
  PROVE  ReceiverInv'
<1>1. kbuf \in Seq(Packet) /\ Len(kbuf) < KernelCap /\ KernelCap \in Nat
  BY ReceiverAssumption DEF Arrive, ReceiverInv, World
<1>2. Append(kbuf, pkt) \in Seq(Packet) /\ Len(Append(kbuf, pkt)) <= KernelCap
  BY <1>1
<1>3. World'
  BY <1>2 DEF Arrive, ReceiverInv, World
<1>4. QED BY <1>3, WorldInv DEF Arrive

LEMMA TickInv ==
  ASSUME ReceiverInv, Tick
  PROVE  ReceiverInv'
<1>1. RingInv' /\ World'
  BY RingStutterInv DEF ReceiverInv, Tick, World, world
<1>2. /\ elapsed \in 0 .. Ticks(timeout) /\ Ticks(timeout) \in Nat
      /\ wait \in 0 .. Ticks(timeout) /\ lost \in 0 .. elapsed
  BY TimeoutType DEF ReceiverInv, Locals
<1>3. /\ UNCHANGED <<pc, buf_len, timeout, result, ring_count>> /\ Ticks(timeout') = Ticks(timeout)
      /\ pc # "idle"
  BY DEF Tick, ringVars
<1>4. TicksPerMs \in Nat \ {0} /\ Ticks(PollMax) \in Nat
  BY ReceiverAssumption, TicksType
<1>5. /\ elapsed' \in 0 .. Ticks(timeout) /\ wait' \in 0 .. Ticks(timeout)
      /\ lost' \in 0 .. elapsed'
  BY <1>2 DEF Tick
<1>6. Locals'
  BY <1>3, <1>5 DEF ReceiverInv, Locals
<1>7. CASE pc \in {"ask", "poll"}
  <2>1. WaitInv
    BY <1>7 DEF ReceiverInv, CallInv
  <2>2. WaitInv'
    BY <1>2, <1>3, <1>4, <1>7, <2>1 DEF Tick, WaitInv
  <2>3. QED BY <1>1, <1>3, <1>6, <2>2 DEF ReceiverInv, CallInv
<1>8. CASE pc \notin {"ask", "poll"}
  BY <1>1, <1>3, <1>6, <1>8 DEF ReceiverInv, CallInv
<1>9. QED BY <1>7, <1>8

\* Every step keeps the invariant and does to the ring what a step of the ring does.
LEMMA ReceiverStep ==
  ASSUME ReceiverInv, [Next]_vars
  PROVE  ReceiverInv' /\ [RingNext]_ringVars
<1>1. CASE UNCHANGED vars
  <2>1. UNCHANGED <<ringVars, pc, locals, result, world>>
    BY <1>1 DEF vars
  <2>2. World'
    BY <2>1 DEF ReceiverInv, World, world
  <2>3. QED BY <2>1, <2>2, WorldInv
<1>2. CASE RecvInvalid
  BY <1>2, EndInv DEF RecvInvalid
<1>3. ASSUME NEW n \in BufLen, NEW t \in Timeouts, Recv(n, t)
      PROVE  ReceiverInv' /\ [RingNext]_ringVars
  <2>1. CASE RecvTakes(n)
    BY <2>1, TakeInv DEF RecvTakes
  <2>2. CASE RecvStarts(n, t)
    BY <2>2, StartInv DEF RecvStarts
  <2>3. QED BY <1>3, <2>1, <2>2 DEF Recv
<1>4. CASE RecvStep
  <2>1. CASE LoopTakes
    <3>1. buf_len \in BufLen
      BY <2>1 DEF LoopTakes, ReceiverInv, CallInv
    <3>2. QED BY <2>1, <3>1, TakeInv DEF LoopTakes
  <2>2. CASE LoopTimesOut
    BY <2>2, EndInv DEF LoopTimesOut
  <2>3. CASE LoopReads \/ LoopPolls
    BY <2>3, LoopReadsInv, LoopPollsInv DEF LoopReads, LoopPolls
  <2>4. CASE PollReady
    BY <2>4, PollEndsInv DEF PollReady, PollEnds
  <2>5. CASE PollTimeout
    BY <2>5, EndInv DEF PollTimeout, ReceiverInv, CallInv
  <2>6. CASE DrainOne
    BY <2>6, DrainOneInv
  <2>7. CASE DrainStop
    BY <2>7, DrainStopInv DEF DrainStop
  <2>8. QED BY <1>4, <2>1, <2>2, <2>3, <2>4, <2>5, <2>6, <2>7 DEF RecvStep
<1>5. CASE PollInterrupted
  BY <1>5, PollEndsInv DEF PollInterrupted, PollEnds
<1>6. CASE PollFails
  BY <1>6, EndInv DEF PollFails, ReceiverInv, CallInv
<1>7. ASSUME NEW pkt \in Packet, Arrive(pkt)
      PROVE  ReceiverInv' /\ [RingNext]_ringVars
  BY <1>7, ArriveInv DEF Arrive
<1>8. CASE InterfaceGone
  <2>1. World'
    BY <1>8 DEF InterfaceGone, ReceiverInv, World
  <2>2. QED BY <1>8, <2>1, WorldInv DEF InterfaceGone
<1>9. CASE Tick
  BY <1>9, TickInv DEF Tick
<1>10. QED BY <1>1, <1>2, <1>3, <1>4, <1>5, <1>6, <1>7, <1>8, <1>9 DEF Next

\* What one step does to the ring and the capture buffer together: nothing, a packet
\* arrives, one is taken out for the ring, or a frame goes to the reader.
LEMMA ReaderView ==
  ASSUME ReceiverInv, [Next]_vars
  PROVE  \/ UNCHANGED <<ringVars, kbuf>>
         \/ \E pkt \in Packet : kbuf' = Append(kbuf, pkt) /\ UNCHANGED ringVars
         \/ DrainOne
         \/ \E n \in BufLen : pop_one(n) /\ UNCHANGED kbuf /\ result' = "frame"
<1>1. CASE UNCHANGED vars
  BY <1>1 DEF vars, world
<1>2. CASE \/ RecvInvalid \/ LoopTimesOut \/ LoopReads \/ LoopPolls \/ PollReady
           \/ PollTimeout \/ DrainStop \/ PollInterrupted \/ PollFails \/ InterfaceGone
           \/ Tick
  BY <1>2 DEF RecvInvalid, LoopTimesOut, LoopReads, LoopPolls, PollReady, PollEnds, PollTimeout,
              DrainStop, PollInterrupted, PollFails, InterfaceGone, Tick, world
<1>3. ASSUME NEW n \in BufLen, NEW t \in Timeouts, Recv(n, t)
      PROVE  \/ UNCHANGED <<ringVars, kbuf>>
             \/ pop_one(n) /\ UNCHANGED kbuf /\ result' = "frame"
  BY <1>3 DEF Recv, RecvTakes, RecvStarts, Return, world
<1>4. CASE LoopTakes
  <2>1. buf_len \in BufLen
    BY <1>4 DEF LoopTakes, ReceiverInv, CallInv
  <2>2. QED BY <1>4, <2>1 DEF LoopTakes, Return, world
<1>5. CASE \E pkt \in Packet : Arrive(pkt)
  BY <1>5 DEF Arrive
<1>6. QED BY <1>1, <1>2, <1>3, <1>4, <1>5 DEF Next, RecvStep

LEMMA ReceiverInvariant == Spec => []ReceiverInv
BY InitReceiverInv, ReceiverStep, PTL DEF Spec

-----------------------------------------------------------------------------
\* The state of the receiver has its type, between calls and inside them.
THEOREM ReceiverTypeCorrect == Spec => []TypeOK
<1>1. ReceiverInv => TypeOK
  BY DEF ReceiverInv, RingInv, Locals, World, TypeOK
<1>2. QED BY <1>1, ReceiverInvariant, PTL

\* recv never waits, and never says that the time is over, while its ring holds a
\* frame.
THEOREM NeverWaitsOnAFrameCorrect == Spec => []NeverWaitsOnAFrame
<1>1. ReceiverInv => NeverWaitsOnAFrame
  BY DEF ReceiverInv, CallInv, NeverWaitsOnAFrame
<1>2. QED BY <1>1, ReceiverInvariant, PTL

\* However often a wait is interrupted or was for nothing, the next one ends within
\* the timeout of the call, but for the time lost between its clock reading and poll.
THEOREM NeverWaitsPastTimeoutCorrect == Spec => []NeverWaitsPastTimeout
<1>1. ReceiverInv => NeverWaitsPastTimeout
  BY DEF ReceiverInv, CallInv, WaitInv, NeverWaitsPastTimeout
<1>2. QED BY <1>1, ReceiverInvariant, PTL

\* A timeout is reported at most one millisecond early, or after the longest wait
\* poll can do.
THEOREM TimeoutNotEarlyCorrect == Spec => TimeoutNotEarly
<1> DEFINE Early == pc # "idle" /\ pc' = "idle" /\ result' = "timeout"
           InTime == \/ elapsed > Ticks(timeout) - TicksPerMs
                     \/ elapsed >= Ticks(PollMax)
<1>1. ReceiverInv /\ [Next]_vars => [Early => InTime]_vars
  <2>1. SUFFICES ASSUME ReceiverInv, Next, Early PROVE InTime
    OBVIOUS
  <2>2. elapsed \in Nat /\ Ticks(timeout) \in Nat /\ TicksPerMs \in Nat \ {0}
    BY <2>1, TimeoutType, ReceiverAssumption DEF ReceiverInv
  <2>3. Ticks(PollMax) \in Nat
    BY ReceiverAssumption, TicksType
  <2>4. CASE LoopTimesOut
    BY <2>2, <2>4 DEF LoopTimesOut
  <2>5. CASE PollTimeout
    <3>1. wait = 0 /\ WaitInv
      BY <2>1, <2>5 DEF PollTimeout, ReceiverInv, CallInv
    <3>2. QED BY <2>2, <2>3, <3>1 DEF WaitInv
  <2>6. CASE LoopTakes
    BY <2>1, <2>6 DEF LoopTakes, Return
  <2>7. CASE LoopReads \/ LoopPolls \/ PollReady \/ DrainOne \/ DrainStop \/ PollInterrupted
    BY <2>1, <2>7 DEF LoopReads, Asks, LoopPolls, PollReady, PollEnds, DrainOne, DrainStop,
                      PollInterrupted
  <2>8. CASE PollFails
    BY <2>1, <2>8 DEF PollFails, Return
  <2>9. CASE RecvInvalid \/ \E n \in BufLen, t \in Timeouts : Recv(n, t)
    BY <2>1, <2>9 DEF RecvInvalid, Recv, RecvTakes, RecvStarts
  <2>10. CASE (\E pkt \in Packet : Arrive(pkt)) \/ InterfaceGone \/ Tick
    BY <2>1, <2>10 DEF Arrive, InterfaceGone, Tick
  <2>11. QED
    BY <2>1, <2>4, <2>5, <2>6, <2>7, <2>8, <2>9, <2>10 DEF Next, RecvStep
<1>2. QED BY <1>1, ReceiverInvariant, PTL DEF Spec, TimeoutNotEarly

\* Inside the receiver the ring is the ring of RxRing, and so a bounded FIFO.
THEOREM ReceiverKeepsRing == Spec => RingSpec /\ RingIsFifo
<1>1. Init => RingInit
  BY DEF Init
<1>2. Spec => RingSpec
  BY <1>1, ReceiverInvariant, ReceiverStep, PTL DEF Spec, RingSpec
<1>3. QED BY <1>2, RingImplementsFifo

-----------------------------------------------------------------------------
(* Frame check sequences *)

\* The bytes a packet is accepted with end before its frame check sequence.
LEMMA AcceptedEndsBeforeFcs ==
  ASSUME NEW pkt \in Packet, Accepts(pkt), NEW i \in 1 .. pkt.hdr.payload_len
  PROVE  PayloadOf(pkt)[i] # FcsByte
<1>1. WellFormed(pkt, Byte) /\ FcsIsFlagged(pkt, FcsByte)
  BY ReceiverAssumption, FcsAssumption
<1>2. /\ pkt.len \in Nat /\ pkt.hdr.payload_len \in Nat /\ pkt.bytes \in Seq(Byte)
      /\ pkt.radiotap.radiotap_len \in Nat
      /\ Len(pkt.bytes) = IF pkt.len >= payload_start(pkt)
                          THEN pkt.len - payload_start(pkt) ELSE 0
  BY <1>1 DEF WellFormed
<1>3. payload_start(pkt) \in Nat /\ payload_start(pkt) >= 32
  BY <1>2 DEF payload_start, IEE80211_HEADER_LEN, WFB_PLAINTEXT_HDR_LEN
<1>4. /\ effective_len(pkt) \in Nat /\ effective_len(pkt) <= pkt.len
      /\ effective_len(pkt) >= payload_start(pkt)
      /\ pkt.hdr.payload_len <= effective_len(pkt) - payload_start(pkt)
  BY <1>2 DEF effective_len, FCS_LEN, Accepts
<1>5. pkt.hdr.payload_len <= Len(pkt.bytes)
  BY <1>2, <1>3, <1>4
<1>6. PayloadOf(pkt)[i] = pkt.bytes[i] /\ i \in DOMAIN pkt.bytes
  BY <1>2, <1>5 DEF PayloadOf
<1>7. CASE "FCS" \in pkt.radiotap.rt_flags
  <2>1. effective_len(pkt) = pkt.len - 4
    BY <1>2, <1>3, <1>4, <1>7 DEF effective_len, FCS_LEN
  <2>2. ~(i > Len(pkt.bytes) - FCS_LEN)
    BY <1>2, <1>3, <1>4, <2>1 DEF FCS_LEN
  <2>3. QED BY <1>1, <1>6, <2>2 DEF FcsIsFlagged
<1>8. CASE "FCS" \notin pkt.radiotap.rt_flags
  BY <1>1, <1>6, <1>8 DEF FcsIsFlagged
<1>9. QED BY <1>7, <1>8

\* The slots keep the bytes of older frames: none of those is of an FCS either.
FcsInv == FcsNeverDelivered /\ \A a \in StoreIdx : ring_payload_store[a] # FcsByte

LEMMA FcsStep ==
  ASSUME ReceiverInv, FcsInv, [Next]_vars
  PROVE  FcsInv'
<1>1. CASE UNCHANGED ringVars
  BY <1>1 DEF FcsInv, FcsNeverDelivered, ringVars
<1>2. CASE DrainOne
  <2>1. PICK pkt \in Packet : \/ Accepts(pkt) /\ enqueue_decoded(PayloadOf(pkt), MetaOf(pkt))
                              \/ UNCHANGED ringVars
    <3>1. Head(kbuf) \in Packet
      BY <1>2 DEF DrainOne, ReceiverInv, World
    <3>2. QED BY <1>2, <3>1 DEF DrainOne
  <2>2. SUFFICES ASSUME Accepts(pkt), StoreNew(PayloadOf(pkt), MetaOf(pkt)) PROVE FcsInv'
    BY <1>1, <2>1 DEF enqueue_decoded, DropNew
  <2>3. PayloadOf(pkt) \in Seq(Byte) /\ Len(PayloadOf(pkt)) \in Nat
    BY <2>2, AcceptedFits, PayloadType
  <2>4. Len(PayloadOf(pkt)) = pkt.hdr.payload_len
    <3>1. WellFormed(pkt, Byte)
      BY ReceiverAssumption
    <3>2. QED BY <3>1 DEF WellFormed, PayloadOf
  <2>5. popped' = popped
    BY <2>2 DEF StoreNew
  <2>6. ASSUME NEW a \in StoreIdx PROVE ring_payload_store'[a] # FcsByte
    <3> DEFINE at == a - ring_tail * max_payload
    <3>1. ring_payload_store'[a] = IF at \in 0 .. (Len(PayloadOf(pkt)) - 1)
                                   THEN PayloadOf(pkt)[at + 1] ELSE ring_payload_store[a]
      BY <2>2 DEF StoreNew, Copied
    <3>2. CASE at \in 0 .. (Len(PayloadOf(pkt)) - 1)
      <4> HIDE DEF at
      <4>1. at + 1 \in 1 .. pkt.hdr.payload_len
        BY <2>3, <2>4, <3>2
      <4>2. QED BY <2>2, <3>1, <3>2, <4>1, AcceptedEndsBeforeFcs
    <3>3. QED BY <3>1, <3>2 DEF FcsInv
  <2>7. QED BY <2>5, <2>6 DEF FcsInv, FcsNeverDelivered
<1>3. ASSUME NEW n \in BufLen, pop_one(n) PROVE FcsInv'
  <2> DEFINE len == ring_payload_len[ring_head]
             cut == IF len <= n THEN len ELSE n
             buf == [i \in 1 .. cut |-> ring_payload_store[ring_head * max_payload + i - 1]]
  <2>1. popped'.buf = buf /\ ring_payload_store' = ring_payload_store
    BY <1>3 DEF pop_one
  <2>2. /\ ring_head \in Slot /\ max_payload \in Nat
        /\ len \in 0 .. max_payload /\ n \in Nat
    BY RingAssumption, MaxPayloadType DEF ReceiverInv, RingInv, RingTypeOK
  <2>3. cut \in 0 .. max_payload /\ cut \in Nat
    <3> HIDE DEF len
    <3>1. QED BY <2>2
  <2> HIDE DEF len, cut
  <2>4. ASSUME NEW i \in 1 .. cut PROVE buf[i] # FcsByte
    <3>1. i - 1 \in 0 .. (max_payload - 1)
      BY <2>2, <2>3
    <3>2. /\ ring_head * max_payload + (i - 1) \in StoreIdx
          /\ ring_head * max_payload + (i - 1) = ring_head * max_payload + i - 1
      BY <2>2, <3>1, SlotInStore
    <3>3. QED BY <3>2 DEF FcsInv
  <2>5. Len(buf) = cut
    BY <2>3
  <2>6. QED BY <2>1, <2>4, <2>5 DEF FcsInv, FcsNeverDelivered
<1>4. QED BY <1>1, <1>2, <1>3, ReaderView

\* Whatever the headers claim, no reader is ever given a byte of a frame check sequence.
THEOREM FcsNeverDeliveredCorrect == Spec => []FcsNeverDelivered
<1>1. Init => FcsInv
  <2>1. SUFFICES ASSUME Init PROVE FcsInv
    OBVIOUS
  <2>2. \A a \in StoreIdx : ring_payload_store[a] = ZeroByte
    BY <2>1 DEF Init, RingInit
  <2>3. Len(popped.buf) = 0
    BY <2>1 DEF Init, RingInit, NoFrame
  <2>4. QED BY <2>2, <2>3, FcsAssumption DEF FcsInv, FcsNeverDelivered
<1>2. FcsInv => FcsNeverDelivered
  BY DEF FcsInv
<1>3. QED BY <1>1, <1>2, FcsStep, ReceiverInvariant, PTL DEF Spec

-----------------------------------------------------------------------------
(* Sequences *)

LEMMA AppendOfConcat ==
  ASSUME NEW S, NEW s \in Seq(S), NEW t \in Seq(S), NEW e \in S
  PROVE  s \o Append(t, e) = Append(s \o t, e)
<1>1. <<e>> \in Seq(S) /\ s \o t \in Seq(S)
  BY ConcatProperties
<1>2. Append(t, e) = t \o <<e>> /\ Append(s \o t, e) = (s \o t) \o <<e>>
  BY <1>1, AppendIsConcat
<1> DEFINE last == <<e>>
<1>3. (s \o t) \o last = s \o (t \o last)
  <2>1. last \in Seq(S)
    BY <1>1
  <2> HIDE DEF last
  <2>2. QED BY <2>1, ConcatAssociative
<1>4. QED BY <1>2, <1>3

LEMMA AppendThenConcat ==
  ASSUME NEW S, NEW s \in Seq(S), NEW t \in Seq(S), NEW e \in S
  PROVE  Append(s, e) \o t = s \o (<<e>> \o t)
<1> DEFINE last == <<e>>
<1>1. Append(s, e) = s \o last
  BY AppendIsConcat
<1>2. last \in Seq(S)
  OBVIOUS
<1>3. (s \o last) \o t = s \o (last \o t)
  <2> HIDE DEF last
  <2>1. QED BY <1>2, ConcatAssociative
<1>4. QED BY <1>1, <1>3

\* The element between two sequences is the one taken out.
LEMMA MiddleRemoved ==
  ASSUME NEW S, NEW s \in Seq(S), NEW t \in Seq(S), NEW e \in S
  PROVE  /\ Len(s) + 1 \in 1 .. Len(s \o (<<e>> \o t))
         /\ s \o t = Receiver!RemoveAt(s \o (<<e>> \o t), Len(s) + 1)
<1> DEFINE whole == s \o (<<e>> \o t)
           n     == Len(s)
           front == SubSeq(whole, 1, (n + 1) - 1)
           back  == SubSeq(whole, (n + 1) + 1, Len(whole))
<1>1. <<e>> \in Seq(S) /\ Len(<<e>>) = 1 /\ <<e>>[1] = e
  OBVIOUS
<1>2. /\ whole \in Seq(S) /\ Len(whole) = n + 1 + Len(t) /\ n \in Nat /\ Len(t) \in Nat
      /\ \A i \in 1 .. n : whole[i] = s[i]
      /\ \A i \in 1 .. Len(t) : whole[n + 1 + i] = t[i]
  <2> DEFINE mid == <<e>> \o t
  <2>1. /\ mid \in Seq(S) /\ Len(mid) = 1 + Len(t) /\ Len(t) \in Nat /\ n \in Nat
        /\ \A i \in 1 .. Len(t) : mid[1 + i] = t[i]
    BY <1>1, ConcatProperties
  <2> HIDE DEF mid
  <2>2. /\ s \o mid \in Seq(S) /\ Len(s \o mid) = Len(s) + Len(mid)
        /\ \A i \in 1 .. (Len(s) + Len(mid)) :
              (s \o mid)[i] = IF i <= Len(s) THEN s[i] ELSE mid[i - Len(s)]
    <3>1. mid \in Seq(S)
      BY <2>1
    <3>2. QED BY <3>1, ConcatProperties
  <2>3. \A i \in 1 .. Len(t) : (s \o mid)[n + 1 + i] = t[i]
    <3>1. ASSUME NEW i \in 1 .. Len(t) PROVE (s \o mid)[n + 1 + i] = t[i]
      <4>1. /\ n + 1 + i \in 1 .. (n + Len(mid)) /\ ~(n + 1 + i <= n)
            /\ (n + 1 + i) - n = 1 + i
        BY <2>1
      <4>2. QED BY <2>1, <2>2, <4>1
    <3>2. QED BY <3>1
  <2>4. QED BY <2>1, <2>2, <2>3 DEF mid
<1> HIDE DEF whole
<1>3. front = s
  <2>1. (n + 1) - 1 = n
    BY <1>2
  <2>2. /\ SubSeq(whole, 1, n) \in Seq(S) /\ Len(SubSeq(whole, 1, n)) = n
        /\ \A i \in 1 .. n : SubSeq(whole, 1, n)[i] = s[i]
    BY <1>2
  <2>3. SubSeq(whole, 1, n) = s
    BY <2>2, SeqEqual
  <2>4. QED BY <2>1, <2>3
<1>4. back = t
  <2>1. /\ back \in Seq(S) /\ Len(back) = Len(t)
        /\ \A i \in 1 .. Len(t) : back[i] = whole[n + 1 + i]
    BY <1>2
  <2> HIDE DEF back
  <2>2. QED BY <1>2, <2>1, SeqEqual
<1>5. s \o t = Receiver!RemoveAt(whole, n + 1)
  BY <1>3, <1>4 DEF Receiver!RemoveAt
<1>6. QED BY <1>2, <1>5 DEF whole

LEMMA HeadTailOfConcat ==
  ASSUME NEW S, NEW s \in Seq(S), NEW t \in Seq(S), s # <<>>
  PROVE  s \o t # <<>> /\ Head(s \o t) = Head(s) /\ Tail(s \o t) = Tail(s) \o t
<1>1. Len(s) \in Nat \ {0} /\ Len(t) \in Nat
  BY EmptySeq, LenProperties
<1>2. /\ s \o t \in Seq(S) /\ Len(s \o t) = Len(s) + Len(t)
      /\ \A i \in 1 .. (Len(s) + Len(t)) : (s \o t)[i] = IF i <= Len(s) THEN s[i] ELSE t[i - Len(s)]
  BY ConcatProperties
<1>3. s \o t # <<>> /\ Head(s \o t) = Head(s)
  BY <1>1, <1>2
<1>4. /\ Tail(s) \in Seq(S) /\ Len(Tail(s)) = Len(s) - 1
      /\ \A i \in 1 .. (Len(s) - 1) : Tail(s)[i] = s[i + 1]
  BY <1>1, HeadTailProperties
<1>5. /\ Tail(s \o t) \in Seq(S) /\ Len(Tail(s \o t)) = Len(s) + Len(t) - 1
      /\ \A i \in 1 .. (Len(s) + Len(t) - 1) : Tail(s \o t)[i] = (s \o t)[i + 1]
  BY <1>1, <1>2, <1>3, HeadTailProperties
<1> DEFINE a == Tail(s)
           b == Tail(s \o t)
<1>6. /\ a \o t \in Seq(S) /\ Len(a \o t) = Len(s) + Len(t) - 1
      /\ \A i \in 1 .. (Len(s) + Len(t) - 1) :
            (a \o t)[i] = IF i <= Len(s) - 1 THEN a[i] ELSE t[i - (Len(s) - 1)]
  <2>1. a \in Seq(S) /\ Len(a) = Len(s) - 1
    BY <1>4
  <2> HIDE DEF a
  <2>2. /\ a \o t \in Seq(S) /\ Len(a \o t) = Len(a) + Len(t)
        /\ \A i \in 1 .. (Len(a) + Len(t)) :
              (a \o t)[i] = IF i <= Len(a) THEN a[i] ELSE t[i - Len(a)]
    BY <1>1, <2>1
  <2>3. Len(a) + Len(t) = Len(s) + Len(t) - 1
    BY <1>1, <2>1
  <2>4. QED BY <2>1, <2>2, <2>3
<1>7. \A i \in 1 .. (Len(s) + Len(t) - 1) : (a \o t)[i] = b[i]
  <2>1. ASSUME NEW i \in 1 .. (Len(s) + Len(t) - 1) PROVE (a \o t)[i] = b[i]
    <3>1. /\ i + 1 \in 1 .. (Len(s) + Len(t)) /\ (i + 1 <= Len(s) <=> i <= Len(s) - 1)
          /\ (i + 1) - Len(s) = i - (Len(s) - 1)
      BY <1>1
    <3>2. b[i] = IF i <= Len(s) - 1 THEN s[i + 1] ELSE t[i - (Len(s) - 1)]
      BY <1>2, <1>5, <3>1
    <3>3. i <= Len(s) - 1 => a[i] = s[i + 1]
      BY <1>1, <1>4
    <3> HIDE DEF a, b
    <3>4. QED BY <1>6, <3>2, <3>3
  <2>2. QED BY <2>1
<1>8. a \o t = b
  <2> HIDE DEF a, b
  <2>1. b \in Seq(S) /\ Len(b) = Len(s) + Len(t) - 1
    BY <1>5 DEF b
  <2>2. QED BY <1>6, <1>7, <2>1, SeqEqual
<1>9. QED BY <1>3, <1>8

-----------------------------------------------------------------------------
(* The acceptable frames of a sequence of packets *)

LEMMA FrameOfType ==
  ASSUME NEW pkt \in Packet, Accepts(pkt)
  PROVE  FrameOf(pkt) \in Frame
  BY AcceptedFits DEF FrameOf, Frame

\* f[k] are the frames of the first k packets of pkts.
Unfolds(f, pkts) ==
  /\ f \in [0 .. Len(pkts) -> Seq(Frame)]
  /\ f[0] = <<>>
  /\ \A k \in 1 .. Len(pkts) :
       f[k] = IF Accepts(pkts[k]) THEN Append(f[k - 1], FrameOf(pkts[k])) ELSE f[k - 1]

LEMMA FramesUnfold ==
  ASSUME NEW pkts \in Seq(Packet)
  PROVE  \E f : Unfolds(f, pkts) /\ Frames(pkts) = f[Len(pkts)]
<1> DEFINE n    == Len(pkts)
           Next1(f, k) == IF Accepts(pkts[k]) THEN Append(f[k - 1], FrameOf(pkts[k]))
                                              ELSE f[k - 1]
           Is(f) == f = [k \in 0 .. n |-> IF k = 0 THEN <<>> ELSE Next1(f, k)]
           step == [p \in (1 .. n) \X Seq(Frame) |->
                      IF Accepts(pkts[p[1]]) THEN Append(p[2], FrameOf(pkts[p[1]])) ELSE p[2]]
           upTo == CHOOSE f : Is(f)
<1>1. n \in Nat /\ \A k \in 1 .. n : pkts[k] \in Packet
  OBVIOUS
<1>2. \A k \in 1 .. n : Accepts(pkts[k]) => FrameOf(pkts[k]) \in Frame
  BY <1>1, FrameOfType
<1>3. step \in [(1 .. n) \X Seq(Frame) -> Seq(Frame)]
  <2>1. ASSUME NEW p \in (1 .. n) \X Seq(Frame)
        PROVE  IF Accepts(pkts[p[1]]) THEN Append(p[2], FrameOf(pkts[p[1]])) \in Seq(Frame)
                                      ELSE p[2] \in Seq(Frame)
    <3>1. p[1] \in 1 .. n /\ p[2] \in Seq(Frame)
      BY <2>1
    <3>2. QED BY <1>2, <3>1, AppendProperties
  <2>2. QED BY <2>1
<1>4. PICK f : /\ f \in [0 .. n -> Seq(Frame)] /\ f[0] = <<>>
               /\ \A k \in 1 .. n : f[k] = step[<<k, f[k - 1]>>]
  <2> HIDE DEF step, n
  <2>1. <<>> \in Seq(Frame)
    OBVIOUS
  <2>2. \E f : Recursion(f, n, Seq(Frame), <<>>, step)
    BY <1>1, <1>3, <2>1, RecursiveFunction
  <2>3. QED BY <2>2 DEF Recursion
<1>5. Is(f)
  <2>1. ASSUME NEW k \in 1 .. n PROVE f[k] = Next1(f, k)
    <3>1. <<k, f[k - 1]>> \in (1 .. n) \X Seq(Frame)
      BY <1>1, <1>4
    <3>2. QED BY <1>4, <3>1
  <2> HIDE DEF Next1, n
  <2>2. QED BY <1>1, <1>4, <2>1
<1>6. Is(upTo)
  <2> HIDE DEF Is
  <2>1. QED BY <1>5
<1>7. Frames(pkts) = upTo[n]
  BY DEF Frames
<1>8. /\ upTo[0] = <<>>
      /\ \A k \in 1 .. n : upTo[k] = Next1(upTo, k)
      /\ upTo = [k \in 0 .. n |-> upTo[k]]
  <2>1. ASSUME NEW g, Is(g)
        PROVE  /\ g[0] = <<>>
               /\ \A k \in 1 .. n : g[k] = Next1(g, k)
               /\ g = [k \in 0 .. n |-> g[k]]
    <3>1. \A k \in 0 .. n : g[k] = IF k = 0 THEN <<>> ELSE Next1(g, k)
      BY <2>1
    <3>2. 0 \in 0 .. n /\ \A k \in 1 .. n : k \in 0 .. n /\ k # 0
      BY <1>1
    <3> HIDE DEF Next1
    <3>3. g = [k \in 0 .. n |-> g[k]]
      BY <2>1
    <3>4. QED BY <3>1, <3>2, <3>3
  <2> HIDE DEF Next1, upTo, Is
  <2>2. QED BY <1>6, <2>1
<1> DEFINE Good == {k \in Nat : k <= n => upTo[k] \in Seq(Frame)}
<1>9. Good = Nat
  <2> HIDE DEF upTo, n
  <2>1. 0 \in Good
    <3>1. <<>> \in Seq(Frame)
      OBVIOUS
    <3>2. QED BY <1>8, <3>1
  <2>2. ASSUME NEW k \in Good, k + 1 <= n PROVE upTo[k + 1] \in Seq(Frame)
    <3>1. k + 1 \in 1 .. n /\ upTo[k] \in Seq(Frame) /\ (k + 1) - 1 = k
      BY <1>1, <2>2
    <3>2. upTo[k + 1] = Next1(upTo, k + 1)
      BY <1>8, <3>1
    <3>3. Accepts(pkts[k + 1]) => Append(upTo[k], FrameOf(pkts[k + 1])) \in Seq(Frame)
      BY <1>2, <3>1, AppendProperties
    <3>4. QED BY <3>1, <3>2, <3>3
  <2>3. Good \in SUBSET Nat /\ \A k \in Good : k + 1 \in Good
    BY <2>2
  <2> HIDE DEF Good
  <2>4. QED BY <2>1, <2>3, InductiveSet
<1>10. upTo \in [0 .. n -> Seq(Frame)]
  <2> HIDE DEF upTo, n
  <2>1. \A k \in 0 .. n : k \in Good /\ k <= n
    <3> HIDE DEF Good
    <3>1. QED BY <1>1, <1>9
  <2>2. \A k \in 0 .. n : upTo[k] \in Seq(Frame)
    BY <2>1
  <2>3. QED BY <1>8, <2>2
<1>11. QED
  <2> HIDE DEF upTo
  <2>1. Unfolds(upTo, pkts)
    BY <1>8, <1>10 DEF Unfolds
  <2>2. QED BY <1>7, <2>1

LEMMA FramesType ==
  ASSUME NEW pkts \in Seq(Packet)
  PROVE  Frames(pkts) \in Seq(Frame)
<1>1. PICK f : Unfolds(f, pkts) /\ Frames(pkts) = f[Len(pkts)]
  BY FramesUnfold
<1>2. Len(pkts) \in 0 .. Len(pkts)
  OBVIOUS
<1>3. QED BY <1>1, <1>2 DEF Unfolds

\* Packets that agree give frames that agree.
LEMMA FramesAgree ==
  ASSUME NEW s \in Seq(Packet), NEW t \in Seq(Packet), NEW f, NEW g,
         Unfolds(f, s), Unfolds(g, t),
         NEW n \in Nat, n <= Len(s), n <= Len(t), \A k \in 1 .. n : s[k] = t[k]
  PROVE  f[n] = g[n]
<1> DEFINE Same == {k \in Nat : k <= n => f[k] = g[k]}
<1>1. 0 \in Same
  BY DEF Unfolds
<1>2. ASSUME NEW k \in Same, k + 1 <= n PROVE f[k + 1] = g[k + 1]
  <2>1. /\ k + 1 \in 1 .. Len(s) /\ k + 1 \in 1 .. Len(t) /\ (k + 1) - 1 = k
        /\ s[k + 1] = t[k + 1] /\ f[k] = g[k]
    BY <1>2
  <2>2. QED BY <2>1 DEF Unfolds
<1>3. Same \in SUBSET Nat /\ \A k \in Same : k + 1 \in Same
  BY <1>2
<1>4. Same = Nat
  <2> HIDE DEF Same
  <2>1. QED BY <1>1, <1>3, InductiveSet
<1>5. QED BY <1>4

\* A packet more is a frame more if the packet is acceptable.
LEMMA FramesAppend ==
  ASSUME NEW s \in Seq(Packet), NEW pkt \in Packet
  PROVE  Frames(Append(s, pkt)) = IF Accepts(pkt) THEN Append(Frames(s), FrameOf(pkt))
                                                  ELSE Frames(s)
<1> DEFINE t == Append(s, pkt)
           n == Len(s)
<1>1. /\ t \in Seq(Packet) /\ Len(t) = n + 1 /\ n \in Nat
      /\ t[n + 1] = pkt /\ \A k \in 1 .. n : s[k] = t[k]
  BY AppendProperties
<1> HIDE DEF t
<1>2. PICK f : Unfolds(f, s) /\ Frames(s) = f[n]
  BY FramesUnfold
<1>3. PICK g : Unfolds(g, t) /\ Frames(t) = g[n + 1]
  BY <1>1, FramesUnfold
<1>4. f[n] = g[n]
  BY <1>1, <1>2, <1>3, FramesAgree
<1>5. g[n + 1] = IF Accepts(t[n + 1]) THEN Append(g[n], FrameOf(t[n + 1])) ELSE g[n]
  <2>1. n + 1 \in 1 .. Len(t) /\ (n + 1) - 1 = n
    BY <1>1
  <2>2. QED BY <1>3, <2>1 DEF Unfolds
<1>6. QED BY <1>1, <1>2, <1>3, <1>4, <1>5 DEF t

\* The first packet gives the first frame, if it is acceptable.
LEMMA FramesTail ==
  ASSUME NEW s \in Seq(Packet), s # <<>>
  PROVE  /\ Accepts(Head(s)) => Frames(s) = <<FrameOf(Head(s))>> \o Frames(Tail(s))
         /\ ~Accepts(Head(s)) => Frames(s) = Frames(Tail(s))
<1> DEFINE t == Tail(s)
           n == Len(t)
           front == IF Accepts(Head(s)) THEN <<FrameOf(Head(s))>> ELSE <<>>
<1>1. /\ t \in Seq(Packet) /\ Len(s) = n + 1 /\ n \in Nat /\ Head(s) = s[1] /\ Head(s) \in Packet
      /\ \A k \in 1 .. n : t[k] = s[k + 1] /\ t[k] \in Packet
  <2>1. Len(s) \in Nat \ {0}
    BY EmptySeq
  <2>2. QED BY <2>1, HeadTailProperties
<1>2. front \in Seq(Frame)
  BY <1>1, FrameOfType
<1> HIDE DEF t, front
<1>3. PICK f : Unfolds(f, s) /\ Frames(s) = f[n + 1]
  BY <1>1, FramesUnfold
<1>4. PICK g : Unfolds(g, t) /\ Frames(t) = g[n]
  BY <1>1, FramesUnfold
<1> DEFINE Behind == {k \in Nat : k <= n => f[k + 1] = front \o g[k]}
<1>5. 0 \in Behind
  <2>1. f[1] = IF Accepts(s[1]) THEN Append(f[0], FrameOf(s[1])) ELSE f[0]
    <3>1. 1 \in 1 .. Len(s) /\ 1 - 1 = 0
      BY <1>1
    <3>2. QED BY <1>3, <3>1 DEF Unfolds
  <2>2. f[0] = <<>> /\ g[0] = <<>>
    BY <1>3, <1>4 DEF Unfolds
  <2>3. front \o <<>> = front
    BY <1>2, ConcatEmptySeq
  <2>4. Append(<<>>, FrameOf(s[1])) = <<FrameOf(s[1])>>
    OBVIOUS
  <2>5. f[1] = front
    BY <1>1, <2>1, <2>2, <2>4 DEF front
  <2>6. f[0 + 1] = front \o g[0]
    BY <2>2, <2>3, <2>5
  <2>7. QED BY <2>6
<1>6. ASSUME NEW k \in Behind, k + 1 <= n PROVE f[(k + 1) + 1] = front \o g[k + 1]
  <2>1. /\ k + 1 \in 1 .. n /\ (k + 1) - 1 = k /\ k \in 0 .. n
        /\ (k + 1) + 1 \in 1 .. Len(s) /\ ((k + 1) + 1) - 1 = k + 1
        /\ f[k + 1] = front \o g[k]
    BY <1>1, <1>6
  <2>2. s[(k + 1) + 1] = t[k + 1] /\ t[k + 1] \in Packet
    BY <1>1, <2>1
  <2>3. /\ f[(k + 1) + 1] = IF Accepts(t[k + 1]) THEN Append(f[k + 1], FrameOf(t[k + 1]))
                                                 ELSE f[k + 1]
        /\ g[k + 1] = IF Accepts(t[k + 1]) THEN Append(g[k], FrameOf(t[k + 1])) ELSE g[k]
        /\ g[k] \in Seq(Frame)
    BY <1>3, <1>4, <2>1, <2>2 DEF Unfolds
  <2>4. ASSUME NEW frame \in Frame
        PROVE  Append(front \o g[k], frame) = front \o Append(g[k], frame)
    <3>1. /\ front \o g[k] \in Seq(Frame) /\ <<frame>> \in Seq(Frame)
      BY <1>2, <2>3, ConcatProperties
    <3>2. Append(front \o g[k], frame) = (front \o g[k]) \o <<frame>>
      BY <3>1, AppendIsConcat
    <3>3. Append(g[k], frame) = g[k] \o <<frame>>
      BY <2>3, AppendIsConcat
    <3>4. (front \o g[k]) \o <<frame>> = front \o (g[k] \o <<frame>>)
      <4> DEFINE rest == g[k]
                 last == <<frame>>
      <4>1. rest \in Seq(Frame) /\ last \in Seq(Frame)
        BY <2>3, <3>1
      <4> HIDE DEF rest, last
      <4>2. (front \o rest) \o last = front \o (rest \o last)
        BY <1>2, <4>1, ConcatAssociative
      <4>3. QED BY <4>2 DEF rest, last
    <3>5. QED BY <3>2, <3>3, <3>4
  <2>5. Accepts(t[k + 1]) => FrameOf(t[k + 1]) \in Frame
    BY <2>2, FrameOfType
  <2>6. QED BY <2>1, <2>3, <2>4, <2>5
<1>7. Behind \in SUBSET Nat /\ \A k \in Behind : k + 1 \in Behind
  BY <1>6
<1>8. Behind = Nat
  <2> HIDE DEF Behind
  <2>1. QED BY <1>5, <1>7, InductiveSet
<1>9. Frames(s) = front \o Frames(t)
  BY <1>1, <1>3, <1>4, <1>8
<1>10. <<>> \o Frames(t) = Frames(t)
  BY <1>1, FramesType, ConcatEmptySeq
<1>11. QED BY <1>9, <1>10 DEF front, t

-----------------------------------------------------------------------------
(* The receiver is a lossy first-in first-out queue *)

pending == RingQueue \o Captured

LEMMA PendingType ==
  ASSUME ReceiverInv
  PROVE  /\ RingQueue \in Seq(Frame) /\ Len(RingQueue) = ring_count /\ ring_count \in Nat
         /\ Captured \in Seq(Frame) /\ pending \in Seq(Frame)
<1>1. RingQueue \in Seq(Frame) /\ Len(RingQueue) = ring_count /\ ring_count \in Nat
  BY QueueType DEF ReceiverInv
<1>2. Captured \in Seq(Frame)
  BY FramesType DEF ReceiverInv, World, Captured
<1>3. QED BY <1>1, <1>2, ConcatProperties DEF pending

LEMMA InitPending == ASSUME Init PROVE pending = <<>>
<1>1. RingQueue = <<>>
  BY DEF Init, RingInit, RingQueue
<1>2. Captured = <<>>
  <2>1. kbuf = <<>> /\ kbuf \in Seq(Packet)
    BY DEF Init
  <2>2. PICK f : Unfolds(f, kbuf) /\ Frames(kbuf) = f[Len(kbuf)]
    BY <2>1, FramesUnfold
  <2>3. QED BY <2>1, <2>2 DEF Unfolds, Captured
<1>3. <<>> \o <<>> = <<>>
  OBVIOUS
<1>4. QED BY <1>1, <1>2, <1>3 DEF pending

LEMMA RingQueueKept == ASSUME UNCHANGED ringVars PROVE RingQueue' = RingQueue /\ popped' = popped
  BY DEF ringVars, RingQueue, QueueSlot, SlotFrame

\* A packet arrives: it is captured, or it is not acceptable and never was there.
LEMMA ArriveIsCapture ==
  ASSUME ReceiverInv, NEW pkt \in Packet, kbuf' = Append(kbuf, pkt), UNCHANGED ringVars
  PROVE  \/ Accepts(pkt) /\ Receiver!Capture(FrameOf(pkt)) /\ FrameOf(pkt) \in Frame
         \/ ~Accepts(pkt) /\ pending' = pending /\ popped' = popped
<1>1. RingQueue' = RingQueue /\ popped' = popped
  BY RingQueueKept
<1>2. Captured' = IF Accepts(pkt) THEN Append(Captured, FrameOf(pkt)) ELSE Captured
  BY FramesAppend DEF ReceiverInv, World, Captured
<1>3. CASE Accepts(pkt)
  <2> DEFINE f == FrameOf(pkt)
  <2>1. f \in Frame /\ RingQueue \in Seq(Frame) /\ Captured \in Seq(Frame)
    BY <1>3, FrameOfType, PendingType
  <2> HIDE DEF f
  <2>2. RingQueue \o Append(Captured, f) = Append(RingQueue \o Captured, f)
    BY <2>1, AppendOfConcat
  <2>3. (RingQueue \o Captured)' = Append(RingQueue \o Captured, f)
    BY <1>1, <1>2, <1>3, <2>2 DEF f
  <2>4. QED BY <1>1, <1>3, <2>1, <2>3 DEF Receiver!Capture, f
<1>4. CASE ~Accepts(pkt)
  BY <1>1, <1>2, <1>4 DEF pending
<1>5. QED BY <1>3, <1>4

\* A turn of the drain: the frame only moves on, or the ring is full and it is lost.
LEMMA DrainMovesOrLoses ==
  ASSUME ReceiverInv, DrainOne
  PROVE  \/ pending' = pending /\ popped' = popped
         \/ \E k \in 1 .. Len(pending) : Receiver!Lose(k)
<1>1. /\ kbuf \in Seq(Packet) /\ kbuf # <<>> /\ kbuf' = Tail(kbuf)
      /\ Head(kbuf) \in Packet /\ Tail(kbuf) \in Seq(Packet)
  BY DEF DrainOne, ReceiverInv, World
<1>2. Captured' = Frames(Tail(kbuf))
  BY <1>1 DEF Captured
<1> DEFINE pkt  == Head(kbuf)
           rest == Frames(Tail(kbuf))
<1>3. rest \in Seq(Frame) /\ RingQueue \in Seq(Frame) /\ Len(RingQueue) = ring_count /\ ring_count \in Nat
  BY <1>1, FramesType, PendingType
<1>4. CASE ~Accepts(pkt)
  <2>1. UNCHANGED ringVars /\ Captured = rest
    BY <1>1, <1>4, FramesTail DEF DrainOne, Captured
  <2>2. QED BY <1>2, <2>1, RingQueueKept DEF pending
<1>5. CASE Accepts(pkt)
  <2> DEFINE f == FrameOf(pkt)
  <2>1. /\ f = [payload |-> PayloadOf(pkt), meta |-> MetaOf(pkt)]
        /\ PayloadOf(pkt) \in Payload /\ MetaOf(pkt) \in Meta /\ f \in Frame
    BY <1>1, <1>5, AcceptedFits, FrameOfType DEF FrameOf
  <2>2. Captured = <<f>> \o rest
    BY <1>1, <1>5, FramesTail DEF Captured
  <2>3. DropNew \/ StoreNew(PayloadOf(pkt), MetaOf(pkt))
    BY <1>5 DEF DrainOne, enqueue_decoded
  <2> HIDE DEF f, rest, pkt
  <2>4. CASE StoreNew(PayloadOf(pkt), MetaOf(pkt))
    <3>1. RingQueue' = Append(RingQueue, f) /\ popped' = popped
      BY <2>1, <2>4, StoreNewIsPut DEF Fifo!Put, ReceiverInv
    <3>2. Append(RingQueue, f) \o rest = RingQueue \o (<<f>> \o rest)
      BY <1>3, <2>1, AppendThenConcat
    <3>3. pending' = pending
      BY <1>2, <2>2, <3>1, <3>2 DEF pending, rest
    <3>4. QED BY <3>1, <3>3
  <2>5. CASE DropNew
    <3> DEFINE k == ring_count + 1
    <3>1. RingQueue' = RingQueue /\ popped' = popped /\ ring_count >= ring_size
      BY <2>5, RingQueueKept DEF DropNew, RingFull
    <3>2. /\ pending = RingQueue \o (<<f>> \o rest) /\ pending' = RingQueue \o rest
      BY <1>2, <2>2, <3>1 DEF pending, rest
    <3>3. k > ring_size /\ ring_size \in Nat
      BY <1>3, <3>1, SizeType
    <3>4. /\ k \in 1 .. Len(RingQueue \o (<<f>> \o rest))
          /\ RingQueue \o rest
              = Receiver!RemoveAt(RingQueue \o (<<f>> \o rest), k)
      BY <1>3, <2>1, MiddleRemoved
    <3>5. Receiver!Lose(k)
      BY <3>1, <3>2, <3>3, <3>4 DEF Receiver!Lose, pending
    <3>6. k \in 1 .. Len(pending)
      BY <3>2, <3>4
    <3>7. QED BY <3>5, <3>6
  <2>6. QED BY <2>3, <2>4, <2>5
<1>6. QED BY <1>4, <1>5

\* A frame read is the oldest that was pending.
LEMMA PopTakesPending ==
  ASSUME ReceiverInv, NEW n \in BufLen, pop_one(n), UNCHANGED kbuf
  PROVE  Receiver!Ring!Take(n)
<1>1. Fifo!Take(n)
  BY PopIsTake, RingAssumption DEF ReceiverInv
<1>2. /\ RingQueue # <<>> /\ popped' = Fifo!Cut(Head(RingQueue), n)
      /\ RingQueue' = Tail(RingQueue)
  BY <1>1 DEF Fifo!Take
<1>3. Captured' = Captured /\ RingQueue \in Seq(Frame) /\ Captured \in Seq(Frame)
  BY PendingType DEF Captured
<1>4. /\ pending # <<>> /\ Head(pending) = Head(RingQueue)
      /\ Tail(pending) = Tail(RingQueue) \o Captured
  BY <1>2, <1>3, HeadTailOfConcat DEF pending
<1>5. Receiver!Ring!Cut(Head(pending), n) = Fifo!Cut(Head(RingQueue), n)
  BY <1>4 DEF Receiver!Ring!Cut, Fifo!Cut
<1>6. QED BY <1>2, <1>3, <1>4, <1>5 DEF Receiver!Ring!Take, pending

\* Every acceptable packet the capture buffer took in reaches the reader once, in order
\* and whole, or was lost while ring_size older ones were unread: for every ring, set of
\* packets and traffic.
THEOREM ReceiverImplementsLossyFifo == Spec => ReceiverIsLossyFifo
<1>1. Init => Receiver!LossyInit
  BY InitPending DEF Init, RingInit, Receiver!LossyInit, pending
<1>2. ReceiverInv /\ [Next]_vars => [Receiver!LossyNext]_(Receiver!lossyVars)
  <2>1. SUFFICES ASSUME ReceiverInv, [Next]_vars PROVE [Receiver!LossyNext]_(Receiver!lossyVars)
    OBVIOUS
  <2>2. ASSUME pending' = pending, popped' = popped
        PROVE  UNCHANGED Receiver!lossyVars
    BY <2>2 DEF pending, Receiver!lossyVars
  <2>3. CASE UNCHANGED <<ringVars, kbuf>>
    BY <2>2, <2>3, RingQueueKept DEF pending, Captured
  <2>4. CASE \E pkt \in Packet : kbuf' = Append(kbuf, pkt) /\ UNCHANGED ringVars
    BY <2>1, <2>2, <2>4, ArriveIsCapture DEF Receiver!LossyNext
  <2>5. CASE DrainOne
    BY <2>1, <2>2, <2>5, DrainMovesOrLoses DEF Receiver!LossyNext, pending
  <2>6. CASE \E n \in BufLen : pop_one(n) /\ UNCHANGED kbuf
    BY <2>1, <2>6, PopTakesPending DEF Receiver!LossyNext
  <2>7. QED BY <2>1, <2>3, <2>4, <2>5, <2>6, ReaderView
<1>3. QED BY <1>1, <1>2, ReceiverInvariant, PTL DEF Spec, ReceiverIsLossyFifo, Receiver!LossySpec
=============================================================================
