---------------------------- MODULE Descriptors -----------------------------
(***************************************************************************)
(* Who owns which file descriptor while handles are opened and closed.     *)
(* WfbTx (src/tx.rs) opens a packet socket, WfbRx (src/rx.rs) a pcap       *)
(* capture; each keeps the number of its descriptor.  The process has one  *)
(* descriptor table, and an open takes the lowest free number, so a number *)
(* closed by one thread is soon another thread's.  Each action is one      *)
(* system call with the code up to the next one; threads interleave there. *)
(* Opens that fail before they have a descriptor change nothing.           *)
(***************************************************************************)
EXTENDS Integers

CONSTANTS TxHandle,    \* handles made by WfbTx::open
          RxHandle,    \* handles made by WfbRx::open
          ByClose,     \* those of TxHandle that a Rust program ends with WfbTx::close;
                       \* the others are dropped, the way wfb_tx_close of src/ffi.rs does
          Fd,          \* numbers of the descriptor table
          Free         \* not a handle

Handle == TxHandle \cup RxHandle
NoFd   == -1

ASSUME DescriptorAssumption ==
  /\ Fd \subseteq Nat
  /\ Free \notin Handle
  /\ TxHandle \cap RxHandle = {}
  /\ ByClose \subseteq TxHandle

VARIABLES owner,   \* who opened each descriptor of the table, or Free
          stage,   \* how far the handle's open or close has come
          fd       \* the number the handle keeps

vars == <<owner, stage, fd>>

Init ==
  /\ owner = [f \in Fd |-> Free]
  /\ stage = [h \in Handle |-> "none"]
  /\ fd = [h \in Handle |-> NoFd]

-----------------------------------------------------------------------------
(* The kernel *)

Lowest(f) == owner[f] = Free /\ \A g \in Fd : owner[g] = Free => f <= g

\* socket() or pcap_open_live() gives h a descriptor.
Allocate(h, f) ==
  /\ Lowest(f)
  /\ owner' = [owner EXCEPT ![f] = h]
  /\ fd' = [fd EXCEPT ![h] = f]

\* close() frees the number, whoever opened it; a free one stays free (EBADF).
Closed(h) == owner' = [owner EXCEPT ![fd[h]] = Free]

Enter(h, s) == stage' = [stage EXCEPT ![h] = s]

\* The value that held the number is gone.
Gone(h) == Enter(h, "none") /\ fd' = [fd EXCEPT ![h] = NoFd]

-----------------------------------------------------------------------------
(* WfbTx *)

TxSocket(h, f) ==
  /\ stage[h] = "none"
  /\ Allocate(h, f)
  /\ Enter(h, "socket")

\* Mutant: a failing ioctl or bind returns without close.
MutTxSocketFails(h) ==
  /\ stage[h] = "socket"
  /\ Gone(h)
  /\ UNCHANGED owner

\* Mutant: open goes on after a failing ioctl or bind has closed the socket.
MutTxSocketGoesOn(h) ==
  /\ stage[h] = "socket"
  /\ Closed(h)
  /\ Enter(h, "bound")
  /\ UNCHANGED fd

\* The interface name is too long, or the ioctl or the bind fails.
TxSocketFails(h) ==
  /\ stage[h] = "socket"
  /\ Closed(h)
  /\ Gone(h)

TxBinds(h) ==
  /\ stage[h] = "socket"
  /\ Enter(h, "bound")
  /\ UNCHANGED <<owner, fd>>

\* build_radiotap_ht refuses the MCS index or the bandwidth: `?` drops the new WfbTx.
TxRefused(h) ==
  /\ stage[h] = "bound"
  /\ Closed(h)
  /\ Gone(h)

TxOpened(h) ==
  /\ stage[h] = "bound"
  /\ Enter(h, "open")
  /\ UNCHANGED <<owner, fd>>

TxDrop(h) ==
  /\ stage[h] = "open"
  /\ h \notin ByClose
  /\ Closed(h)
  /\ Gone(h)

\* close(self) closes the descriptor and leaves the number in self ...
TxClose(h) ==
  /\ stage[h] = "open"
  /\ h \in ByClose
  /\ Closed(h)
  /\ Enter(h, "closing")
  /\ UNCHANGED fd

\* ... and self is dropped as close returns.
TxDropAfterClose(h) ==
  /\ stage[h] = "closing"
  /\ Closed(h)
  /\ Gone(h)

-----------------------------------------------------------------------------
(* WfbRx *)

RxPcap(h, f) ==
  /\ stage[h] = "none"
  /\ Allocate(h, f)
  /\ Enter(h, "pcap")

\* setnonblock or the filter fails: the capture is dropped and closes itself.
RxPcapFails(h) ==
  /\ stage[h] = "pcap"
  /\ Closed(h)
  /\ Gone(h)

RxOpened(h) ==
  /\ stage[h] = "pcap"
  /\ Enter(h, "open")
  /\ UNCHANGED <<owner, fd>>

\* Mutant: the receiver is gone with nothing closed and its capture forgotten.
MutRxDrop(h) ==
  /\ stage[h] = "open"
  /\ Gone(h)
  /\ UNCHANGED owner

\* Drop for WfbRx closes the descriptor ...
RxDrop(h) ==
  /\ stage[h] = "open"
  /\ Closed(h)
  /\ Enter(h, "closing")
  /\ UNCHANGED fd

\* ... and then the field pcap is dropped, which is pcap_close.
RxCaptureDrop(h) ==
  /\ stage[h] = "closing"
  /\ Closed(h)
  /\ Gone(h)

-----------------------------------------------------------------------------
TxNext(h) ==
  \/ \E f \in Fd : TxSocket(h, f)
  \/ TxSocketFails(h) \/ TxBinds(h) \/ TxRefused(h) \/ TxOpened(h)
  \/ TxDrop(h) \/ TxClose(h) \/ TxDropAfterClose(h)

RxNext(h) ==
  \/ \E f \in Fd : RxPcap(h, f)
  \/ RxPcapFails(h) \/ RxOpened(h)
  \/ RxDrop(h) \/ RxCaptureDrop(h)

Next == (\E h \in TxHandle : TxNext(h)) \/ (\E h \in RxHandle : RxNext(h))

Spec == Init /\ [][Next]_vars

-----------------------------------------------------------------------------
TypeOK ==
  /\ owner \in [Fd -> Handle \cup {Free}]
  /\ stage \in [Handle -> {"none", "socket", "bound", "pcap", "open", "closing"}]
  /\ fd \in [Handle -> Fd \cup {NoFd}]

InUse(h) == stage[h] \in {"socket", "bound", "pcap", "open"}

\* A handle that is being opened or is open has the descriptor it opened: no
\* other thread's open or close, at any point of either, has taken it away, so
\* what it sends or polls is its own.  "pcap::Capture will close itself."
\* (src/rx.rs:508) says the descriptor of a receiver is closed by its capture; and
\* `if self.fd >= 0` (src/tx.rs:264) that a sender's is closed only while it has one.
OpenOwnsItsDescriptor == \A h \in Handle : InUse(h) => owner[fd[h]] = h

\* Whatever opens, failing opens and closes of all threads interleave, the first
\* descriptor a handle in use loses is taken by the second close of a handle that
\* closes twice (a receiver, or a sender ended by close), and by nothing else.
FirstLossIsASecondClose ==
  [][ OpenOwnsItsDescriptor /\ ~OpenOwnsItsDescriptor'
      => \E h \in Handle : stage[h] = "closing" /\ stage'[h] = "none" ]_vars

\* Nothing leaks: a descriptor in the table belongs to a handle that is being
\* opened or is open and still knows its number, on every failing path of open too.
NothingLeaks ==
  \A f \in Fd : owner[f] # Free => InUse(owner[f]) /\ fd[owner[f]] = f
=============================================================================
