-------------------------- MODULE SimpleTxRxProofs --------------------------
(***************************************************************************)
(* The leaving of python/examples/simple_txrx.py, for every timeout and    *)
(* every grace: the reader's clock started before the join's, so a reader  *)
(* the join gave up on is late by its own clock too.                       *)
(***************************************************************************)
EXTENDS SimpleTxRx, TLAPS

MainPc == {"open_tx", "open_rx", "start", "started", "read", "stop", "join",
           "close", "clear", "mark", "drop", "end"}
ReaderPc == {"none", "check_stop", "check_closed", "call", "recv", "end"}

Leaving == {"close", "clear", "mark", "drop", "end"}

\* What the argument needs of the types.
PcType ==
  /\ main \in MainPc /\ reader \in ReaderPc
  /\ join_clock \in 0 .. Deadline /\ reader_clock \in 0 .. Deadline

BoxType == box \in [Side -> {"none", "live", "freed", "freed twice"}]

\* Before the with block is left there is no reader, or its receiver is open.
InsideWith ==
  /\ main \in {"open_tx", "open_rx"} => reader = "none"
  /\ main = "start" => reader = "none" /\ box["rx"] = "live"
  /\ main \in {"started", "read", "stop", "join"} => box["rx"] = "live"

\* The reader has been told to stop before it is waited for and left behind.
Told == main = "join" \/ (main \in Leaving /\ Running) => stop_event

\* While the join waits, a reader it waits for is at least as late as the join; one
\* that runs on when the with block is left is past its deadline.
Late ==
  /\ main = "join" /\ Running => join_clock <= reader_clock
  /\ main \in Leaving /\ Running => reader_clock = Deadline

OnTime == InsideWith /\ Told /\ Late

TimeInv == PcType /\ BoxType /\ (join_cut \/ OnTime)

-----------------------------------------------------------------------------
LEMMA DeadlineNat == Deadline \in Nat
BY ClockAssumption DEF Deadline

USE DEF Side

LEMMA InitTime == Init => TimeInv
<1>1. SUFFICES ASSUME Init PROVE TimeInv
  OBVIOUS
<1>2. PcType
  BY <1>1, DeadlineNat DEF Init, PcType, MainPc, ReaderPc
<1>3. OnTime
  BY <1>1 DEF Init, OnTime, InsideWith, Told, Late, Running, Leaving
<1>4. BoxType
  BY <1>1 DEF Init, BoxInit, BoxType
<1>5. QED BY <1>2, <1>3, <1>4 DEF TimeInv, BoxType

LEMMA OpeningTime ==
  ASSUME TimeInv, NEW result \in OpenResults, OpenTx(result) \/ OpenRx(result)
  PROVE  TimeInv'
<1>1. PcType' /\ BoxType'
  BY DEF OpenTx, OpenRx, Opened, wfb_tx_open, wfb_rx_open, TimeInv, PcType, BoxType,
         MainPc, clocks
<1>2. /\ UNCHANGED <<reader, stop_event, reader_clock, join_clock, join_cut>>
      /\ main \in {"open_tx", "open_rx"}
      /\ main' \in {"open_rx", "drop", "start", "close"}
      /\ main' = "start" => box'["rx"] = "live"
  BY DEF OpenTx, OpenRx, Opened, wfb_tx_open, wfb_rx_open, TimeInv, BoxType, clocks, cuts
<1>3. OnTime => OnTime'
  BY <1>2 DEF OnTime, InsideWith, Told, Late, Running
<1>4. QED BY <1>1, <1>2, <1>3 DEF TimeInv, BoxType

LEMMA StartTime == ASSUME TimeInv, StartReader PROVE TimeInv'
<1>1. /\ main = "start" /\ main' = "started" /\ reader' = "check_stop" /\ reader_clock' = 0
      /\ UNCHANGED <<box, stop_event, join_clock, join_cut>>
  BY DEF StartReader, python, cuts
<1>2. PcType
  BY DEF TimeInv
<1>3. PcType'
  BY <1>1, <1>2, DeadlineNat DEF PcType, MainPc, ReaderPc
<1>4. OnTime => OnTime'
  BY <1>1 DEF OnTime, InsideWith, Told, Late, Leaving
<1>5. QED BY <1>1, <1>3, <1>4 DEF TimeInv, BoxType

LEMMA LoopTime ==
  ASSUME TimeInv,
         \/ EnterTry \/ LeavesLoop
         \/ \E result \in {"ok", "invalid", "io"} : SendsLine(result)
  PROVE  TimeInv'
<1>1. /\ main \in {"started", "read"} /\ main' \in {"read", "stop"}
      /\ UNCHANGED <<box, reader, stop_event, join_clock, reader_clock, join_cut>>
  BY DEF EnterTry, LeavesLoop, SendsLine, clocks, cuts
<1>2. PcType'
  BY <1>1 DEF TimeInv, PcType, MainPc
<1>3. OnTime => OnTime'
  BY <1>1 DEF OnTime, InsideWith, Told, Late, Leaving
<1>4. QED BY <1>1, <1>2, <1>3 DEF TimeInv, BoxType

LEMMA StopTime == ASSUME TimeInv, SetsStop PROVE TimeInv'
<1>1. /\ main = "stop" /\ main' = "join" /\ join_clock' = 0
      /\ UNCHANGED <<box, reader, reader_clock, join_cut>>
  BY DEF SetsStop, cuts
<1>2. PcType
  BY DEF TimeInv
<1>3. PcType' /\ join_clock' <= reader_clock'
  BY <1>1, <1>2, DeadlineNat DEF PcType, MainPc
<1>4. Told'
  BY DEF SetsStop, Told
<1>5. InsideWith => InsideWith' /\ Late'
  BY <1>1, <1>3 DEF InsideWith, Late, Leaving
<1>6. QED BY <1>1, <1>3, <1>4, <1>5 DEF TimeInv, BoxType, OnTime

LEMMA JoinTime == ASSUME TimeInv, JoinReturns PROVE TimeInv'
<1>1. /\ main = "join" /\ main' = "close"
      /\ UNCHANGED <<box, reader, stop_event, join_clock, reader_clock, join_cut>>
  BY DEF JoinReturns, ExitsWith, clocks, cuts
<1>2. Running => join_clock >= Deadline
  BY DEF JoinReturns
<1>3. PcType
  BY DEF TimeInv
<1>4. PcType'
  BY <1>1, <1>3 DEF PcType, MainPc
<1>5. Late => (Running => reader_clock = Deadline)
  BY <1>1, <1>2, <1>3, DeadlineNat DEF Late, PcType
<1>6. Late => Late'
  BY <1>1, <1>5 DEF Late, Running
<1>7. InsideWith' /\ (Told => Told')
  BY <1>1 DEF InsideWith, Told
<1>8. QED BY <1>1, <1>4, <1>6, <1>7 DEF TimeInv, BoxType, OnTime

\* The closes stay within Leaving and touch neither the reader nor a clock.
LEMMA ClosingTime == ASSUME TimeInv, ClosingStep PROVE TimeInv'
<1>1. /\ main \in Leaving /\ main' \in Leaving
      /\ UNCHANGED <<reader, stop_event, reader_clock, join_clock, join_cut>>
  BY DEF ClosingStep, CloseReturnsAtOnce, CloseCalls, CloseFindsNothing, CloseClears,
         CloseMarks, DropObject, ProgramEnds, NextClose, ExitsWith, python, clocks, cuts, Leaving
<1>2. BoxType'
  BY DEF ClosingStep, CloseReturnsAtOnce, CloseCalls, CloseFindsNothing, CloseClears,
         CloseMarks, DropObject, ProgramEnds, wfb_tx_close, wfb_rx_close, Dropped,
         TimeInv, BoxType
<1>3. PcType'
  BY <1>1, <1>2 DEF TimeInv, PcType, Leaving, MainPc
<1>4. OnTime => OnTime'
  BY <1>1 DEF OnTime, InsideWith, Told, Late, Leaving, Running
<1>5. QED BY <1>1, <1>2, <1>3, <1>4 DEF TimeInv

\* Ctrl-C leaves a reader that is not joined only when it says so; the closes may be
\* abandoned without harm.
LEMMA InterruptedTime == ASSUME TimeInv, Interrupted PROVE TimeInv'
<1>1. UNCHANGED <<box, reader, stop_event, join_clock, reader_clock>>
  BY DEF Interrupted, clocks
<1>2. PcType'
  <2>1. main' \in MainPc
    BY DEF Interrupted, ExitsWith, NextClose, MainPc
  <2>2. QED BY <1>1, <2>1 DEF TimeInv, PcType
<1>3. CASE main \in {"started", "stop", "join"}
  BY <1>1, <1>2, <1>3 DEF Interrupted, TimeInv, BoxType
<1>4. CASE main \notin {"started", "stop", "join"}
  <2>1. main = "start" \/ main \in Leaving
    BY <1>4 DEF Interrupted, Leaving
  <2>2. main' \in {"close", "drop"}
    BY DEF Interrupted, ExitsWith, NextClose
  <2>3. join_cut => join_cut'
    BY DEF Interrupted
  <2>4. OnTime => OnTime'
    BY <1>1, <2>1, <2>2 DEF OnTime, InsideWith, Told, Late, Running, Leaving
  <2>5. QED BY <1>1, <1>2, <2>3, <2>4 DEF TimeInv, BoxType
<1>5. QED BY <1>3, <1>4

LEMMA ReaderTime == ASSUME TimeInv, ReaderStep PROVE TimeInv'
<1>1. PcType
  BY DEF TimeInv
<1>2. CASE ReaderChecksStop
  <2>1. /\ reader = "check_stop" /\ reader' \in {"end", "check_closed"} /\ reader_clock' = 0
        /\ UNCHANGED <<box, main, stop_event, join_clock, join_cut>>
    BY <1>2 DEF ReaderChecksStop, ReaderTo, cuts
  <2>2. stop_event => reader' = "end"
    BY <1>2 DEF ReaderChecksStop, ReaderTo, cuts
  <2>3. PcType'
    BY <1>1, <2>1, DeadlineNat DEF PcType, ReaderPc
  <2>4. OnTime => OnTime'
    BY <2>1, <2>2 DEF OnTime, InsideWith, Told, Late, Running
  <2>5. QED BY <2>1, <2>3, <2>4 DEF TimeInv, BoxType
<1>3. CASE ~ReaderChecksStop
  <2>1. /\ Running /\ reader # "none" /\ reader' \in {"end", "check_stop", "call", "recv"}
        /\ UNCHANGED <<box, main, stop_event, join_clock, reader_clock, join_cut>>
    BY <1>3 DEF ReaderStep, ReaderChecksClosed, ReaderCalls, ReaderReturns, ReaderTo,
                Running, cuts
  <2>2. PcType'
    BY <1>1, <2>1 DEF PcType, ReaderPc
  <2>3. OnTime => OnTime'
    BY <2>1 DEF OnTime, InsideWith, Told, Late
  <2>4. QED BY <2>1, <2>2, <2>3 DEF TimeInv, BoxType
<1>4. QED BY <1>2, <1>3

\* The clocks advance together.
LEMMA TickTime == ASSUME TimeInv, Tick PROVE TimeInv'
<1>1. UNCHANGED <<box, main, reader, stop_event, join_cut>> /\ (Running <=> Running')
  BY DEF Tick, Running, cuts
<1>2. PcType
  BY DEF TimeInv
<1>3. /\ join_clock \in 0 .. Deadline /\ reader_clock \in 0 .. Deadline
      /\ join_clock' = IF main = "join" THEN Advanced(join_clock) ELSE join_clock
      /\ reader_clock' = IF Running THEN Advanced(reader_clock) ELSE reader_clock
  BY <1>2 DEF Tick, PcType
<1>4. /\ join_clock' \in 0 .. Deadline /\ reader_clock' \in 0 .. Deadline
      /\ main = "join" /\ Running /\ join_clock <= reader_clock => join_clock' <= reader_clock'
      /\ reader_clock = Deadline => reader_clock' = Deadline
  BY <1>3, DeadlineNat DEF Advanced
<1>5. PcType'
  BY <1>1, <1>2, <1>4 DEF PcType
<1>6. OnTime => OnTime'
  BY <1>1, <1>4 DEF OnTime, InsideWith, Told, Late
<1>7. QED BY <1>1, <1>5, <1>6 DEF TimeInv, BoxType

LEMMA TimeInvariant == Spec => []TimeInv
<1>1. TimeInv /\ [Next]_vars => TimeInv'
  <2>1. SUFFICES ASSUME TimeInv, [Next]_vars PROVE TimeInv'
    OBVIOUS
  <2>2. CASE UNCHANGED vars
    BY <2>1, <2>2 DEF vars, clocks, cuts, python, TimeInv, PcType, BoxType, OnTime, InsideWith, Told,
       Late, Running
  <2>3. CASE MainStep
    BY <2>1, <2>3, OpeningTime, StartTime, LoopTime, StopTime, JoinTime, ClosingTime,
       InterruptedTime DEF MainStep, LeavingStep
  <2>4. QED BY <2>1, <2>2, <2>3, ReaderTime, TickTime DEF Next, Done
<1>2. QED BY InitTime, <1>1, PTL DEF Spec

\* Unless Ctrl-C cuts the wait for the reader short, the receiver is closed under a recv
\* only if that recv overruns its timeout by the whole grace of the join, for every
\* timeout and every grace.
THEOREM RecvKeepsItsReceiverCorrect == Spec => []RecvKeepsItsReceiver
<1>1. TimeInv => RecvKeepsItsReceiver
  <2>1. SUFFICES ASSUME TimeInv, ClosedUnderRecv, ~join_cut
                 PROVE  reader_clock >= Deadline
    BY DEF RecvKeepsItsReceiver
  <2>2. Running /\ reader # "none" /\ box["rx"] # "live"
    BY <2>1 DEF ClosedUnderRecv, Running
  <2>3. main \in Leaving
    BY <2>1, <2>2 DEF TimeInv, OnTime, InsideWith, PcType, MainPc, Leaving
  <2>4. reader_clock = Deadline
    BY <2>1, <2>2, <2>3 DEF TimeInv, OnTime, Late
  <2>5. QED BY <2>4, DeadlineNat
<1>2. QED BY <1>1, TimeInvariant, PTL

-----------------------------------------------------------------------------
(* Each value is dropped exactly once *)

TodoSet == {<<>>, <<"tx">>, <<"rx">>, <<"rx", "tx">>}

Pending(s) == todo = <<s>> \/ todo = <<"rx", "tx">>

CloseStage == {"close", "clear", "mark"}

DropTypes ==
  /\ BoxType
  /\ main \in MainPc
  /\ handle \in [Side -> Side \cup {Null}] /\ closed \in [Side -> BOOLEAN]
  /\ todo \in TodoSet
  /\ abandoned \in [Side -> SUBSET CloseStage]

\* Where the main thread is in todo.
TodoAgrees ==
  /\ main \in CloseStage => todo # <<>>
  /\ main \in {"open_tx", "open_rx", "drop", "end"} => todo = <<>>

\* Before a value is opened there is nothing to drop, and before both are, no reader.
OpensFresh ==
  /\ main \in {"open_tx", "open_rx"} => \A s \in Side : ~closed[s]
  /\ main = "open_tx" => \A s \in Side : box[s] # "live"
  /\ main = "open_rx" => box["rx"] # "live"
  /\ main \in {"open_tx", "open_rx", "start"} => reader = "none"

\* A value some close is still to be called for: by the with block, or by __del__, which
\* a reader cannot hold up before there is one; or for which a close was abandoned.
ToClose(s) ==
  \/ Pending(s)
  \/ s \in objects /\ reader = "none"
  \/ "close" \in abandoned[s]

\* A handle that is not null stands for a live value, except between the C close
\* and the clearing of the handle, and after a close that was abandoned there; and
\* every live value is still to be closed.
HandlesAgree ==
  /\ \A s \in Side : box[s] = "freed twice" => "clear" \in abandoned[s]
  /\ \A s \in Side : closed[s] => handle[s] = Null
  /\ \A s \in Side : handle[s] # Null => \/ box[s] = "live"
                                         \/ main = "clear" /\ s = Head(todo)
                                         \/ "clear" \in abandoned[s]
  /\ \A s \in Side : box[s] = "live" => handle[s] # Null
  /\ main = "clear" => box[Head(todo)] # "live"
  /\ main = "mark" => handle[Head(todo)] = Null
  /\ main \in Leaving => \A s \in Side : box[s] = "live" => ToClose(s)
  /\ main = "end" => \A s \in Side : box[s] = "live" => "close" \in abandoned[s]

Orderly == DropTypes /\ TodoAgrees /\ OpensFresh /\ HandlesAgree

LEMMA TodoFacts ==
  ASSUME NEW t \in TodoSet, t # <<>>
  PROVE  /\ Head(t) \in Side
         /\ Tail(t) \in {<<>>, <<"tx">>}
         /\ Len(t) > 1 <=> t = <<"rx", "tx">>
         /\ t = <<"rx", "tx">> => Head(t) = "rx" /\ Tail(t) = <<"tx">>
         /\ t # <<"rx", "tx">> => t = <<Head(t)>> /\ Tail(t) = <<>>
<1>1. CASE t = <<"tx">>
  BY <1>1
<1>2. CASE t = <<"rx">>
  BY <1>2
<1>3. CASE t = <<"rx", "tx">>
  BY <1>3
<1>4. QED BY <1>1, <1>2, <1>3 DEF TodoSet

\* Between the closes and at the end nothing is pending.
LEMMA NothingPending ==
  ASSUME Orderly, main \in {"drop", "end"}
  PROVE  \A s \in Side : ~Pending(s)
<1>1. todo = <<>>
  BY DEF Orderly, TodoAgrees
<1>2. \A s \in Side : Len(<<s>>) # Len(<<>>) /\ Len(<<"rx", "tx">>) # Len(<<>>)
  OBVIOUS
<1>3. QED BY <1>1, <1>2 DEF Pending

\* Where only the reader and the clocks move.
LEMMA ElsewhereOrderly ==
  ASSUME Orderly, UNCHANGED <<box, main, python, abandoned>>,
         reader = "none" <=> reader' = "none"
  PROVE  Orderly'
BY DEF python, Orderly, DropTypes, BoxType, TodoAgrees, OpensFresh, HandlesAgree, ToClose, Pending

\* The next object, once the close of the one at the head is done or abandoned.
LEMMA NextCloseOrderly ==
  ASSUME Orderly, main \in CloseStage, NextClose,
         UNCHANGED <<box, handle, reader, objects>>,
         closed' \in [Side -> BOOLEAN], abandoned' \in [Side -> SUBSET CloseStage],
         \A s \in Side : abandoned[s] \subseteq abandoned'[s],
         \A s \in Side : closed'[s] => handle[s] = Null,
         box[Head(todo)] = "live" => "close" \in abandoned'[Head(todo)],
         handle[Head(todo)] # Null => \/ box[Head(todo)] = "live"
                                      \/ "clear" \in abandoned'[Head(todo)]
  PROVE  Orderly'
<1>1. todo \in TodoSet /\ todo # <<>>
  BY DEF Orderly, DropTypes, TodoAgrees
<1>2. /\ todo' \in TodoSet
      /\ main' \in {"close", "drop"}
      /\ main' = "close" => todo' # <<>>
      /\ main' = "drop" => todo' = <<>>
  <2>1. /\ todo' \in {<<>>, <<"tx">>}
        /\ todo = <<"rx", "tx">> => main' = "close" /\ todo' = <<"tx">>
        /\ todo # <<"rx", "tx">> => main' = "drop" /\ todo' = <<>>
    BY <1>1, TodoFacts DEF NextClose
  <2>2. <<"tx">> # <<>> /\ <<>> \in TodoSet /\ <<"tx">> \in TodoSet
    BY DEF TodoSet
  <2>3. QED BY <2>1, <2>2
<1>3. \A s \in Side : Pending(s) => s = Head(todo) \/ Pending(s)'
  <2>1. \A s \in Side : todo = <<s>> => Head(todo) = s
    OBVIOUS
  <2>2. todo = <<"rx", "tx">> => Head(todo) = "rx" /\ todo' = <<"tx">>
    BY <1>1, TodoFacts DEF NextClose
  <2>3. QED BY <2>1, <2>2 DEF Pending
<1>4. DropTypes' /\ TodoAgrees' /\ OpensFresh'
  BY <1>2 DEF Orderly, DropTypes, BoxType, MainPc, CloseStage, TodoAgrees, OpensFresh
<1>5. HandlesAgree'
  <2>1. HandlesAgree /\ main \in Leaving
    BY DEF Orderly, Leaving, CloseStage
  <2>2. \A s \in Side : box[s] = "live" => ToClose(s)'
    BY <1>3, <2>1 DEF HandlesAgree, ToClose
  <2>3. \A s \in Side : handle[s] # Null => box[s] = "live" \/ "clear" \in abandoned'[s]
    BY <2>1 DEF HandlesAgree
  <2>4. \A s \in Side : box[s] = "freed twice" => "clear" \in abandoned'[s]
    BY <2>1 DEF HandlesAgree
  <2>5. QED BY <1>2, <2>1, <2>2, <2>3, <2>4 DEF HandlesAgree
<1>6. QED BY <1>4, <1>5 DEF Orderly

LEMMA OpenOrderly ==
  ASSUME Orderly, NEW result \in OpenResults, OpenTx(result) \/ OpenRx(result)
  PROVE  Orderly'
<1> USE NullAssumption DEF Orderly, DropTypes, BoxType, OpensFresh, HandlesAgree, MainPc, Leaving,
                           CloseStage
<1>0. <<>> \in TodoSet /\ <<"tx">> \in TodoSet /\ <<"tx">> # <<>>
  BY DEF TodoSet
<1>1. CASE OpenTx(result)
  <2>1. /\ main = "open_tx" /\ todo = <<>> /\ reader = "none"
        /\ \A s \in Side : box[s] # "live"
        /\ objects' = objects \cup {"tx"}
        /\ UNCHANGED <<closed, todo, reader, abandoned>>
    BY <1>1 DEF OpenTx, Opened, TodoAgrees, cuts
  <2>2. CASE result # "ok"
    <3>1. main' = "drop" /\ UNCHANGED <<box, handle>>
      BY <1>1, <2>2 DEF OpenTx, Opened, wfb_tx_open
    <3>2. QED BY <2>1, <3>1 DEF TodoAgrees
  <2>3. CASE result = "ok"
    <3>1. /\ main' \in {"open_rx", "drop"}
          /\ box' = [box EXCEPT !["tx"] = "live"]
          /\ handle' = [handle EXCEPT !["tx"] = "tx"]
      BY <1>1, <2>3 DEF OpenTx, Opened, wfb_tx_open
    <3>2. \A s \in Side : box'[s] = "live" => s = "tx"
      BY <2>1, <3>1
    <3>3. \A s \in Side : box'[s] = "live" => ToClose(s)'
      BY <2>1, <3>2 DEF ToClose
    <3>4. HandlesAgree'
      BY <2>1, <3>1, <3>2, <3>3
    <3>5. DropTypes' /\ TodoAgrees' /\ OpensFresh'
      BY <2>1, <3>1, <3>2 DEF TodoAgrees
    <3>6. QED BY <3>4, <3>5
  <2>4. QED BY <2>2, <2>3
<1>2. CASE OpenRx(result)
  <2>1. /\ main = "open_rx" /\ todo = <<>> /\ reader = "none"
        /\ box["rx"] # "live"
        /\ objects' = objects \cup {"rx"}
        /\ UNCHANGED <<closed, reader, abandoned>>
    BY <1>2 DEF OpenRx, Opened, TodoAgrees, cuts
  <2>2. \/ main' = "start" /\ todo' = <<>>
        \/ main' = "close" /\ todo' = <<"tx">>
    BY <1>2 DEF OpenRx
  <2>3. TodoAgrees' /\ todo' \in TodoSet
    BY <1>0, <2>2 DEF TodoAgrees
  <2>4. main' = "close" => \A s \in Side : ToClose(s)'
    BY <2>1, <2>2 DEF ToClose, Pending
  <2>5. CASE result # "ok"
    <3>1. UNCHANGED <<box, handle>>
      BY <1>2, <2>5 DEF OpenRx, Opened, wfb_rx_open
    <3>2. QED BY <2>1, <2>2, <2>3, <2>4, <3>1
  <2>6. CASE result = "ok"
    <3>1. /\ box' = [box EXCEPT !["rx"] = "live"]
          /\ handle' = [handle EXCEPT !["rx"] = "rx"]
      BY <1>2, <2>6 DEF OpenRx, Opened, wfb_rx_open
    <3>2. HandlesAgree'
      BY <2>1, <2>2, <2>4, <3>1
    <3>3. DropTypes' /\ OpensFresh'
      BY <2>1, <2>2, <2>3, <3>1
    <3>4. QED BY <2>3, <3>2, <3>3
  <2>7. QED BY <2>5, <2>6
<1>3. QED BY <1>1, <1>2

\* Inside the with block; Ctrl-C that leaves it included.
LEMMA LoopOrderly ==
  ASSUME Orderly,
         \/ StartReader \/ EnterTry \/ LeavesLoop \/ SetsStop \/ JoinReturns
         \/ \E result \in {"ok", "invalid", "io"} : SendsLine(result)
         \/ Interrupted /\ main \notin CloseStage
  PROVE  Orderly'
<1>1. /\ main \in {"start", "started", "read", "stop", "join"}
      /\ \/ main' \in {"started", "read", "stop", "join"} /\ todo' = todo
         \/ main' = "close" /\ todo' = <<"rx", "tx">>
      /\ UNCHANGED <<box, handle, closed, abandoned>>
  BY DEF StartReader, EnterTry, LeavesLoop, SetsStop, JoinReturns, SendsLine, ExitsWith, python,
         cuts, Interrupted, CloseStage
<1>2. <<"rx", "tx">> # <<>>
  OBVIOUS
<1>3. main' = "close" => \A s \in Side : ToClose(s)'
  BY <1>1 DEF ToClose, Pending
<1>4. QED BY <1>1, <1>2, <1>3 DEF Orderly, DropTypes, BoxType, TodoAgrees, OpensFresh, HandlesAgree,
                     MainPc, Leaving, CloseStage, TodoSet

LEMMA CloseOrderly ==
  ASSUME Orderly, NEW s \in Side,
         \/ CloseReturnsAtOnce(s) \/ CloseCalls(s) \/ CloseFindsNothing(s)
         \/ CloseClears(s) \/ CloseMarks(s)
  PROVE  Orderly'
<1> USE DEF CloseStage
<1>1. CASE CloseReturnsAtOnce(s)
  BY <1>1, NextCloseOrderly DEF CloseReturnsAtOnce, cuts, Orderly, DropTypes, HandlesAgree
<1>2. CASE CloseCalls(s)
  <2>1. /\ main = "close" /\ main' = "clear" /\ s = Head(todo)
        /\ handle[s] # Null /\ ~closed[s]
        /\ box' = [box EXCEPT ![s] = IF @ = "live" THEN "freed" ELSE "freed twice"]
        /\ UNCHANGED <<reader, python, abandoned>>
    BY <1>2 DEF CloseCalls, wfb_tx_close, wfb_rx_close, Dropped, cuts
  <2>2. /\ box'[s] # "live"
        /\ box'[s] = "freed twice" => "clear" \in abandoned[s]
        /\ \A t \in Side : t # s => box'[t] = box[t]
    BY <2>1 DEF Orderly, DropTypes, BoxType, HandlesAgree
  <2>3. DropTypes' /\ TodoAgrees' /\ OpensFresh'
    BY <2>1 DEF python, Orderly, DropTypes, BoxType, TodoAgrees, OpensFresh, MainPc
  <2>4. \A t \in Side : ToClose(t) => ToClose(t)'
    BY <2>1 DEF python, ToClose, Pending
  <2>5. HandlesAgree'
    BY <2>1, <2>2, <2>4 DEF python, Orderly, HandlesAgree, Leaving
  <2>6. QED BY <2>3, <2>5 DEF Orderly
<1>3. CASE CloseFindsNothing(s)
  BY <1>3 DEF CloseFindsNothing, python, cuts, Orderly, DropTypes, BoxType, TodoAgrees, OpensFresh,
              HandlesAgree, MainPc, Leaving, ToClose, Pending
<1>4. CASE CloseClears(s)
  BY <1>4 DEF CloseClears, cuts, Orderly, DropTypes, BoxType, TodoAgrees, OpensFresh,
              HandlesAgree, MainPc, Leaving, ToClose, Pending
<1>5. CASE CloseMarks(s)
  BY <1>5, NextCloseOrderly DEF CloseMarks, cuts, Orderly, DropTypes, HandlesAgree
<1>6. QED BY <1>1, <1>2, <1>3, <1>4, <1>5

\* Ctrl-C abandons a close: before the C close the value is live and stays; between it
\* and the clearing, the handle stays; after that nothing is missed.
LEMMA AbandonOrderly ==
  ASSUME Orderly, Interrupted, main \in CloseStage
  PROVE  Orderly'
<1>1. /\ NextClose
      /\ abandoned' = [abandoned EXCEPT ![Head(todo)] = @ \cup {main}]
      /\ UNCHANGED <<box, handle, closed, reader, objects>>
  BY DEF Interrupted, CloseStage
<1>2. Head(todo) \in Side
  BY TodoFacts DEF Orderly, DropTypes, TodoAgrees
<1>3. /\ abandoned' \in [Side -> SUBSET CloseStage]
      /\ \A s \in Side : abandoned[s] \subseteq abandoned'[s]
      /\ main \in abandoned'[Head(todo)]
  BY <1>1, <1>2 DEF Orderly, DropTypes
<1>4. main = "close" \/ box[Head(todo)] # "live"
  BY <1>2 DEF CloseStage, Orderly, HandlesAgree
<1>5. handle[Head(todo)] # Null => \/ box[Head(todo)] = "live"
                                   \/ "clear" \in abandoned'[Head(todo)]
  BY <1>2, <1>3 DEF Orderly, HandlesAgree
<1>6. closed' \in [Side -> BOOLEAN] /\ \A s \in Side : closed'[s] => handle[s] = Null
  BY <1>1 DEF Orderly, DropTypes, HandlesAgree
<1>7. QED BY <1>1, <1>3, <1>4, <1>5, <1>6, NextCloseOrderly

LEMMA DropOrderly ==
  ASSUME Orderly, ProgramEnds \/ \E s \in Side : DropObject(s)
  PROVE  Orderly'
<1>1. \A s \in Side : ~Pending(s)
  BY NothingPending DEF ProgramEnds, DropObject
<1>2. CASE ProgramEnds
  <2>1. \A s \in Side : ~(s \in objects /\ reader = "none")
    BY <1>2 DEF ProgramEnds, Running
  <2>2. \A s \in Side : box[s] = "live" => "close" \in abandoned[s]
    BY <1>1, <1>2, <2>1 DEF ProgramEnds, Orderly, HandlesAgree, Leaving, ToClose
  <2>3. QED BY <1>2, <2>2 DEF ProgramEnds, python, cuts, Orderly, DropTypes, BoxType, TodoAgrees,
                    OpensFresh, HandlesAgree, MainPc, Leaving, ToClose, CloseStage
<1>3. CASE \E s \in Side : DropObject(s)
  <2>1. PICK s \in Side : DropObject(s)
    BY <1>3
  <2>2. <<s>> \in TodoSet /\ <<s>> # <<>>
    BY DEF TodoSet
  <2>3. /\ main = "drop" /\ main' = "close" /\ todo' = <<s>> /\ objects' = objects \ {s}
        /\ UNCHANGED <<box, handle, closed, reader, abandoned>>
    BY <2>1 DEF DropObject, ExitsWith, cuts
  <2>4. \A t \in Side : ToClose(t) => ToClose(t)'
    BY <1>1, <2>3 DEF ToClose, Pending
  <2>5. QED BY <2>2, <2>3, <2>4 DEF Orderly, DropTypes, BoxType, TodoAgrees, OpensFresh,
                    HandlesAgree, MainPc, Leaving, CloseStage
<1>4. QED BY <1>2, <1>3

LEMMA OrderlyInvariant == Spec => []Orderly
<1>1. Init => Orderly
  BY DEF Init, BoxInit, Orderly, DropTypes, BoxType, TodoAgrees, OpensFresh, HandlesAgree,
         MainPc, Leaving, TodoSet, CloseStage
<1>2. Orderly /\ [Next]_vars => Orderly'
  <2>1. SUFFICES ASSUME Orderly, [Next]_vars PROVE Orderly'
    OBVIOUS
  <2>2. CASE ReaderStep \/ Tick \/ Done \/ UNCHANGED vars
    <3>1. UNCHANGED <<box, main, python, abandoned>>
      BY <2>2 DEF ReaderStep, Tick, Done, vars, cuts, ReaderChecksStop, ReaderChecksClosed,
                  ReaderCalls, ReaderReturns, ReaderTo
    <3>2. reader = "none" <=> reader' = "none"
      BY <2>2 DEF ReaderStep, Tick, Done, vars, ReaderChecksStop, ReaderChecksClosed,
                  ReaderCalls, ReaderReturns, ReaderTo
    <3>3. QED BY <2>1, <3>1, <3>2, ElsewhereOrderly
  <2>3. CASE Interrupted
    BY <2>1, <2>3, LoopOrderly, AbandonOrderly
  <2>4. CASE MainStep /\ ~Interrupted
    BY <2>1, <2>4, OpenOrderly, LoopOrderly, CloseOrderly, DropOrderly
       DEF MainStep, LeavingStep, ClosingStep
  <2>5. QED BY <2>1, <2>2, <2>3, <2>4 DEF Next
<1>3. QED BY <1>1, <1>2, PTL DEF Spec

\* Wherever Ctrl-C arrives and however often, no value is dropped twice unless a close
\* of it was abandoned between the C close and the clearing of its handle, and none is left
\* at the end unless a close of it was abandoned before it called C.
THEOREM DroppedExactlyOnceCorrect == Spec => []DroppedExactlyOnce
<1>1. Orderly => DroppedExactlyOnce
  BY DEF Orderly, HandlesAgree, DroppedExactlyOnce
<1>2. QED BY <1>1, OrderlyInvariant, PTL

-----------------------------------------------------------------------------
(* Types *)

\* What neither invariant above says of the variables.
FlagTypes == stop_event \in BOOLEAN /\ join_cut \in BOOLEAN /\ objects \subseteq Side

LEMMA FlagTypesKept == ASSUME FlagTypes, [Next]_vars PROVE FlagTypes'
<1> USE DEF FlagTypes, python, cuts
<1>1. CASE ReaderStep \/ Tick \/ Done \/ UNCHANGED vars
  BY <1>1 DEF ReaderStep, Tick, Done, vars, ReaderChecksStop, ReaderChecksClosed, ReaderCalls,
              ReaderReturns, ReaderTo
<1>2. CASE \E result \in OpenResults : OpenTx(result) \/ OpenRx(result)
  BY <1>2 DEF OpenTx, OpenRx, Opened
<1>3. CASE \/ StartReader \/ EnterTry \/ LeavesLoop \/ Interrupted
           \/ \E result \in {"ok", "invalid", "io"} : SendsLine(result)
  BY <1>3 DEF StartReader, EnterTry, LeavesLoop, Interrupted, SendsLine
<1>4. CASE SetsStop \/ JoinReturns
  BY <1>4 DEF SetsStop, JoinReturns
<1>5. CASE ClosingStep
  BY <1>5 DEF ClosingStep, CloseReturnsAtOnce, CloseCalls, CloseFindsNothing, CloseClears,
              CloseMarks, DropObject, ProgramEnds
<1>6. QED BY <1>1, <1>2, <1>3, <1>4, <1>5 DEF Next, MainStep, LeavingStep

\* Every variable keeps its type, whatever Ctrl-C cuts short.
THEOREM ProgramTypeCorrect == Spec => []ProgramTypeOK
<1>1. Init => FlagTypes
  BY DEF Init, FlagTypes
<1>2. TimeInv /\ Orderly /\ FlagTypes => ProgramTypeOK
  <2>1. \A t \in TodoSet : t \in Seq(Side) /\ Len(t) <= 2
    <3>1. /\ <<>> \in Seq(Side) /\ Len(<<>>) <= 2
          /\ \A s \in Side : <<s>> \in Seq(Side) /\ Len(<<s>>) <= 2
      OBVIOUS
    <3>2. <<"rx", "tx">> \in Seq(Side) /\ Len(<<"rx", "tx">>) <= 2
      OBVIOUS
    <3>3. QED BY <3>1, <3>2 DEF TodoSet
  <2>2. QED BY <2>1 DEF TimeInv, PcType, Orderly, DropTypes, BoxType, FlagTypes, ProgramTypeOK,
                        CloseStage, MainPc, ReaderPc
<1>3. QED BY <1>1, <1>2, FlagTypesKept, TimeInvariant, OrderlyInvariant, PTL DEF Spec
=============================================================================
