----------------------------- MODULE SimpleTxRx -----------------------------
(***************************************************************************)
(* python/examples/simple_txrx.py on the Python classes Tx and Rx          *)
(* (wfb_rs_py/api.py) on the C interface.  The main thread sends what it   *)
(* reads from stdin while a thread of its own reads; ctypes releases the   *)
(* interpreter lock in every C call, so the two interleave there and       *)
(* between bytecodes.  On the way out the main thread sets stop_event,     *)
(* joins the reader for timeout + Grace and leaves the with block, which   *)
(* closes the receiver, then the sender.                                   *)
(* Ctrl-C raises KeyboardInterrupt in the main thread, wherever it is.     *)
(***************************************************************************)
EXTENDS CInterface, Integers, Sequences

CONSTANTS timeout,   \* --timeout-ms, in ticks of the clock
          Grace      \* the 0.2 seconds the join adds to it

ASSUME ClockAssumption == timeout \in Nat /\ Grace \in Nat \ {0}

VARIABLES main,         \* where the main thread is
          reader,       \* where the reading thread is, "none" before its start
          handle,       \* self._handle of Tx and Rx: Null, or the side it opens
          closed,       \* self._closed of Tx and Rx
          stop_event,
          todo,         \* the objects whose close() the main thread has still to run
          objects,      \* the Tx and Rx objects whose __del__ has not run
          join_clock,   \* time since the join started
          reader_clock, \* time since the reader last looked at stop_event
          join_cut,     \* history: Ctrl-C arrived with the reader started and not yet
                        \* joined, outside the try block
          abandoned     \* history: where Ctrl-C abandoned a close() of each object

python  == <<handle, closed, todo, objects>>
clocks  == <<join_clock, reader_clock>>
cuts    == <<join_cut, abandoned>>
vars    == <<box, main, reader, stop_event, cuts, python, clocks>>

Init ==
  /\ BoxInit
  /\ main = "open_tx" /\ reader = "none"
  /\ handle = [s \in Side |-> Null] /\ closed = [s \in Side |-> FALSE]
  /\ todo = <<>> /\ objects = {} /\ stop_event = FALSE
  /\ join_clock = 0 /\ reader_clock = 0
  /\ join_cut = FALSE /\ abandoned = [s \in Side |-> {}]

Running == reader \notin {"none", "end"}

\* The longest the join waits for the reader.
Deadline == timeout + Grace

-----------------------------------------------------------------------------
(* The main thread: opening *)

Opened(s, result) ==
  /\ handle' = IF result = "ok" THEN [handle EXCEPT ![s] = s] ELSE handle
  /\ objects' = objects \cup {s}
  /\ UNCHANGED <<reader, closed, stop_event, clocks, cuts>>

\* Tx() returns, or raises: for the result, or for Ctrl-C, which may come when C has
\* opened the sender and the with statement has not got it.
OpenTx(result) ==
  /\ main = "open_tx"
  /\ wfb_tx_open(result)
  /\ Opened("tx", result)
  /\ \/ main' = "open_rx" /\ result = "ok"
     \/ main' = "drop"
  /\ UNCHANGED todo

\* When Rx() raises, the with statement closes the sender it has entered.
OpenRx(result) ==
  /\ main = "open_rx"
  /\ wfb_rx_open(result)
  /\ Opened("rx", result)
  /\ \/ main' = "start" /\ todo' = <<>> /\ result = "ok"
     \/ main' = "close" /\ todo' = <<"tx">>

StartReader ==
  /\ main = "start"
  /\ main' = "started" /\ reader' = "check_stop" /\ reader_clock' = 0
  /\ UNCHANGED <<box, stop_event, python, join_clock, cuts>>

EnterTry ==
  /\ main = "started"
  /\ main' = "read"
  /\ UNCHANGED <<box, reader, stop_event, python, clocks, cuts>>

-----------------------------------------------------------------------------
(* The main thread: sending, and the finally block *)

\* A line of stdin is sent; an error ends the loop.
SendsLine(result) ==
  /\ main = "read"
  /\ main' = IF wfb_tx_send(handle["tx"], result) = "OK" THEN "read" ELSE "stop"
  /\ UNCHANGED <<box, reader, stop_event, python, clocks, cuts>>

\* The end of stdin, or Ctrl-C inside the try block.
LeavesLoop ==
  /\ main = "read"
  /\ main' = "stop"
  /\ UNCHANGED <<box, reader, stop_event, python, clocks, cuts>>

SetsStop ==
  /\ main = "stop"
  /\ stop_event' = TRUE
  /\ main' = "join" /\ join_clock' = 0
  /\ UNCHANGED <<box, reader, python, reader_clock, cuts>>

ExitsWith(closes) == main' = "close" /\ todo' = closes

\* Mutants: a join for the timeout alone, one without a timeout, and a finally
\* block that closes the receiver as well.
MutJoinReturnsEarly ==
  /\ main = "join"
  /\ ~Running \/ join_clock >= timeout
  /\ ExitsWith(<<"rx", "tx">>)
  /\ UNCHANGED <<box, reader, handle, closed, objects, stop_event, clocks, cuts>>

MutJoinReturnsLate ==
  /\ main = "join"
  /\ ~Running
  /\ ExitsWith(<<"rx", "tx">>)
  /\ UNCHANGED <<box, reader, handle, closed, objects, stop_event, clocks, cuts>>

MutJoinReturnsCloses ==
  /\ main = "join"
  /\ ~Running \/ join_clock >= Deadline
  /\ ExitsWith(<<"rx", "rx", "tx">>)
  /\ UNCHANGED <<box, reader, handle, closed, objects, stop_event, clocks, cuts>>

\* join returns when the reader has ended, and after its timeout all the same.
JoinReturns ==
  /\ main = "join"
  /\ ~Running \/ join_clock >= Deadline
  /\ ExitsWith(<<"rx", "tx">>)
  /\ UNCHANGED <<box, reader, handle, closed, objects, stop_event, clocks, cuts>>

-----------------------------------------------------------------------------
(* The main thread: close() of the object at the head of todo *)

\* The next object, or none.
NextClose ==
  /\ todo' = Tail(todo)
  /\ main' = IF Len(todo) > 1 THEN "close" ELSE "drop"

CloseReturnsAtOnce(s) ==
  /\ main = "close" /\ s = Head(todo)
  /\ closed[s]
  /\ NextClose
  /\ UNCHANGED <<box, reader, handle, closed, objects, stop_event, clocks, cuts>>

CloseCalls(s) ==
  /\ main = "close" /\ s = Head(todo)
  /\ ~closed[s]
  /\ \/ s = "tx" /\ wfb_tx_close(handle[s])
     \/ s = "rx" /\ wfb_rx_close(handle[s])
  /\ main' = "clear"
  /\ UNCHANGED <<reader, stop_event, python, clocks, cuts>>

\* Mutant: an open handle may be taken for one that was never opened.
MutCloseFindsNothing(s) ==
  /\ main = "close" /\ s = Head(todo)
  /\ ~closed[s]
  /\ main' = "mark"
  /\ UNCHANGED <<box, reader, stop_event, python, clocks, cuts>>

\* An object whose open failed has nothing to close.
CloseFindsNothing(s) ==
  /\ main = "close" /\ s = Head(todo)
  /\ ~closed[s] /\ handle[s] = Null
  /\ main' = "mark"
  /\ UNCHANGED <<box, reader, stop_event, python, clocks, cuts>>

\* Mutant: only the flag is set, and the handle stays.
MutCloseClears(s) ==
  /\ main = "clear" /\ s = Head(todo)
  /\ main' = "mark"
  /\ UNCHANGED <<box, reader, stop_event, python, clocks, cuts>>

CloseClears(s) ==
  /\ main = "clear" /\ s = Head(todo)
  /\ handle' = [handle EXCEPT ![s] = Null]
  /\ main' = "mark"
  /\ UNCHANGED <<box, reader, closed, todo, objects, stop_event, clocks, cuts>>

CloseMarks(s) ==
  /\ main = "mark" /\ s = Head(todo)
  /\ closed' = [closed EXCEPT ![s] = TRUE]
  /\ NextClose
  /\ UNCHANGED <<box, reader, handle, objects, stop_event, clocks, cuts>>

\* An object nothing refers to any more is closed once more, by __del__; the
\* running reader refers to the receiver.
DropObject(s) ==
  /\ main = "drop"
  /\ s \in objects
  /\ s = "rx" => ~Running
  /\ objects' = objects \ {s}
  /\ ExitsWith(<<s>>)
  /\ UNCHANGED <<box, reader, handle, closed, stop_event, clocks, cuts>>

ProgramEnds ==
  /\ main = "drop"
  /\ objects = {} \/ (objects = {"rx"} /\ Running)
  /\ main' = "end"
  /\ UNCHANGED <<box, reader, stop_event, python, clocks, cuts>>

\* Ctrl-C anywhere else: the with block is left at once, and a close() of its is
\* abandoned where it is.
Interrupted ==
  /\ \/ /\ main \in {"start", "started", "stop", "join"}
        /\ ExitsWith(<<"rx", "tx">>)
        /\ join_cut' = (join_cut \/ main # "start")
        /\ UNCHANGED abandoned
     \/ /\ main \in {"close", "clear", "mark"}
        /\ NextClose
        /\ abandoned' = [abandoned EXCEPT ![Head(todo)] = @ \cup {main}]
        /\ UNCHANGED join_cut
  /\ UNCHANGED <<box, reader, handle, closed, objects, stop_event, clocks>>

-----------------------------------------------------------------------------
(* The reading thread *)

ReaderTo(pc) ==
  /\ reader' = pc
  /\ UNCHANGED <<box, main, stop_event, python, join_clock, cuts>>

ReaderChecksStop ==
  /\ reader = "check_stop"
  /\ ReaderTo(IF stop_event THEN "end" ELSE "check_closed")
  /\ reader_clock' = 0

\* A closed receiver raises RuntimeError, which ends the thread.
ReaderChecksClosed ==
  /\ reader = "check_closed"
  /\ ReaderTo(IF closed["rx"] THEN "end" ELSE "call")
  /\ UNCHANGED reader_clock

\* A handle that is cleared but not yet marked is null, and raises as well.
ReaderCalls ==
  /\ reader = "call"
  /\ ReaderTo(IF handle["rx"] = Null THEN "end" ELSE "recv")
  /\ UNCHANGED reader_clock

\* A frame or a timeout and the loop goes on; anything else ends the thread.  The
\* call keeps the address it was given, whatever close does to handle meanwhile.
ReaderReturns(result) ==
  /\ reader = "recv"
  /\ ReaderTo(IF wfb_rx_recv("rx", result) \in {"OK", "TIMEOUT"} THEN "check_stop" ELSE "end")
  /\ UNCHANGED reader_clock

\* Time past the deadline makes no difference.
Advanced(clock) == IF clock < Deadline THEN clock + 1 ELSE clock

Tick ==
  /\ (main = "join" /\ join_clock < Deadline) \/ (Running /\ reader_clock < Deadline)
  /\ join_clock' = IF main = "join" THEN Advanced(join_clock) ELSE join_clock
  /\ reader_clock' = IF Running THEN Advanced(reader_clock) ELSE reader_clock
  /\ UNCHANGED <<box, main, reader, stop_event, python, cuts>>

-----------------------------------------------------------------------------
ClosingStep ==
  \/ \E s \in Side : \/ CloseReturnsAtOnce(s) \/ CloseCalls(s) \/ CloseFindsNothing(s)
                     \/ CloseClears(s) \/ CloseMarks(s) \/ DropObject(s)
  \/ ProgramEnds

\* What the main thread does of itself once it has left the loop.
LeavingStep == SetsStop \/ JoinReturns \/ ClosingStep

MainStep ==
  \/ \E result \in OpenResults : OpenTx(result) \/ OpenRx(result)
  \/ StartReader \/ EnterTry
  \/ \E result \in {"ok", "invalid", "io"} : SendsLine(result)
  \/ LeavesLoop
  \/ LeavingStep
  \/ Interrupted

ReaderStep ==
  \/ ReaderChecksStop \/ ReaderChecksClosed \/ ReaderCalls
  \/ \E result \in {"frame", "timeout", "io"} : ReaderReturns(result)

\* The process is over, or waits for nothing but a reader that does not return.
Done == main = "end" /\ UNCHANGED vars

Next == MainStep \/ ReaderStep \/ Tick \/ Done

Spec == Init /\ [][Next]_vars

\* The main thread is scheduled and time passes; the reader may never return.
FairSpec == Spec /\ WF_vars(LeavingStep) /\ WF_vars(Tick)

-----------------------------------------------------------------------------
\* Every variable has its type.
ProgramTypeOK ==
  /\ box \in [Side -> {"none", "live", "freed", "freed twice"}]
  /\ main \in {"open_tx", "open_rx", "start", "started", "read", "stop", "join",
               "close", "clear", "mark", "drop", "end"}
  /\ reader \in {"none", "check_stop", "check_closed", "call", "recv", "end"}
  /\ handle \in [Side -> Side \cup {Null}] /\ closed \in [Side -> BOOLEAN]
  /\ stop_event \in BOOLEAN
  /\ join_cut \in BOOLEAN /\ abandoned \in [Side -> SUBSET {"close", "clear", "mark"}]
  /\ todo \in Seq(Side) /\ Len(todo) <= 2 /\ objects \subseteq Side
  /\ join_clock \in 0 .. Deadline /\ reader_clock \in 0 .. Deadline

\* The reader is inside recv of a receiver that is gone.
ClosedUnderRecv == reader = "recv" /\ box["rx"] # "live"

\* Unless Ctrl-C cuts the wait for the reader short, the receiver is closed under the
\* reader's recv only when that call runs Grace longer than its timeout: stop_event,
\* the timed join and the order of the closes add up to that, whatever the
\* interleaving and whatever Ctrl-C does inside the try block or in the closes.
RecvKeepsItsReceiver == ClosedUnderRecv => join_cut \/ reader_clock >= Deadline

\* Each value behind a handle is dropped exactly once by the time the program ends, by
\* close, __exit__ and __del__ together, whichever open fails and wherever Ctrl-C
\* arrives, any number of times, with two exceptions.  It is dropped twice only if
\* Ctrl-C came between the C close of this very object and the line that clears its
\* handle, and it is left only if Ctrl-C abandoned a close of this very object before
\* that called C.
DroppedExactlyOnce ==
  \A s \in Side :
    /\ box[s] = "freed twice" => "clear" \in abandoned[s]
    /\ main = "end" /\ box[s] = "live" => "close" \in abandoned[s]

\* Once the main thread has left its loop the program ends, even if the reader's
\* recv never returns and whatever Ctrl-C does: this is what the join's timeout is for.
ExitsAfterLoop == main = "stop" ~> main = "end"

\* As long as Ctrl-C does not cut the wait for the reader short, no call runs on a
\* receiver that was closed: recv answers
\* `raise RuntimeError("Rx handle is closed")` (python/src/wfb_rs_py/api.py:157).
NoRecvOnClosedReceiver == ClosedUnderRecv => join_cut
=============================================================================
