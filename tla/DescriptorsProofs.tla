------------------------- MODULE DescriptorsProofs --------------------------
(***************************************************************************)
(* Descriptors do not leak, whichever handles there are; and a process     *)
(* whose handles are all senders that are dropped never closes a           *)
(* descriptor of another handle.  Both follow from one correspondence      *)
(* between the descriptor table and the numbers the handles keep.          *)
(***************************************************************************)
EXTENDS Descriptors, TLAPS

\* A step of one handle: what each of the actions is to the table.
Takes(h, f) ==
  /\ stage[h] = "none"
  /\ Allocate(h, f)
  /\ \E s \in {"socket", "pcap"} : Enter(h, s)

Moves(h) ==
  /\ InUse(h)
  /\ \E s \in {"bound", "open"} : Enter(h, s)
  /\ UNCHANGED <<owner, fd>>

Ends(h) == stage[h] # "none" /\ Closed(h) /\ Gone(h)

Closes(h) == stage[h] = "open" /\ Closed(h) /\ Enter(h, "closing") /\ UNCHANGED fd

\* Every step of the process takes a descriptor, moves on with it, gives it up, or
\* closes it and keeps its number; only receivers and senders ended by close do
\* the last.
LEMMA StepKinds ==
  ASSUME Next
  PROVE  \E h \in Handle : \/ \E f \in Fd : Takes(h, f)
                           \/ Moves(h)
                           \/ Ends(h) /\ InUse(h)
                           \/ Ends(h) /\ stage[h] = "closing"
                           \/ Closes(h) /\ h \in RxHandle \cup ByClose
<1>1. CASE \E h \in TxHandle : TxNext(h)
  <2>1. PICK h \in TxHandle : TxNext(h)
    BY <1>1
  <2>2. CASE \E f \in Fd : TxSocket(h, f)
    BY <2>2 DEF TxSocket, Takes, Handle
  <2>3. CASE TxBinds(h) \/ TxOpened(h)
    BY <2>3 DEF TxBinds, TxOpened, Moves, InUse, Handle
  <2>4. CASE TxSocketFails(h) \/ TxRefused(h) \/ TxDrop(h)
    BY <2>4 DEF TxSocketFails, TxRefused, TxDrop, Ends, InUse, Handle
  <2>5. CASE TxClose(h)
    BY <2>5 DEF TxClose, Closes, Handle
  <2>6. CASE TxDropAfterClose(h)
    BY <2>6 DEF TxDropAfterClose, Ends, Handle
  <2>7. QED BY <2>1, <2>2, <2>3, <2>4, <2>5, <2>6 DEF TxNext
<1>2. CASE \E h \in RxHandle : RxNext(h)
  <2>1. PICK h \in RxHandle : RxNext(h)
    BY <1>2
  <2>2. CASE \E f \in Fd : RxPcap(h, f)
    BY <2>2 DEF RxPcap, Takes, Handle
  <2>3. CASE RxOpened(h)
    BY <2>3 DEF RxOpened, Moves, InUse, Handle
  <2>4. CASE RxPcapFails(h)
    BY <2>4 DEF RxPcapFails, Ends, InUse, Handle
  <2>5. CASE RxDrop(h)
    BY <2>5 DEF RxDrop, Closes, Handle
  <2>6. CASE RxCaptureDrop(h)
    BY <2>6 DEF RxCaptureDrop, Ends, Handle
  <2>7. QED BY <2>1, <2>2, <2>3, <2>4, <2>5, <2>6 DEF RxNext
<1>3. QED BY <1>1, <1>2 DEF Next

\* A handle in use keeps a number of the table.
HasNumber == \A h \in Handle : stage[h] # "none" => fd[h] \in Fd

TableInv == TypeOK /\ HasNumber /\ NothingLeaks

LEMMA TypeStep ==
  ASSUME TypeOK, HasNumber, [Next]_vars
  PROVE  TypeOK' /\ HasNumber'
<1>1. CASE UNCHANGED vars
  BY <1>1 DEF vars, TypeOK, HasNumber
<1>2. CASE Next
  <2>1. PICK h \in Handle : \/ \E f \in Fd : Takes(h, f)
                            \/ Moves(h)
                            \/ Ends(h)
                            \/ Closes(h)
    BY <1>2, StepKinds
  <2>2. CASE \E f \in Fd : Takes(h, f)
    BY <2>1, <2>2 DEF Takes, Allocate, Enter, TypeOK, HasNumber
  <2>3. CASE Moves(h)
    BY <2>1, <2>3 DEF Moves, InUse, Enter, TypeOK, HasNumber
  <2>4. CASE Ends(h)
    BY <2>1, <2>4 DEF Ends, Closed, Gone, Enter, TypeOK, HasNumber
  <2>5. CASE Closes(h)
    BY <2>1, <2>5 DEF Closes, Closed, Enter, TypeOK, HasNumber
  <2>6. QED BY <2>1, <2>2, <2>3, <2>4, <2>5
<1>3. QED BY <1>1, <1>2

LEMMA LeakStep ==
  ASSUME TableInv, [Next]_vars
  PROVE  NothingLeaks'
<1> USE DEF TableInv
<1>1. CASE UNCHANGED vars
  BY <1>1 DEF vars, NothingLeaks, InUse
<1>2. CASE Next
  <2>1. PICK h \in Handle : \/ \E f \in Fd : Takes(h, f)
                            \/ Moves(h)
                            \/ Ends(h)
                            \/ Closes(h)
    BY <1>2, StepKinds
  <2>2. h # Free
    BY <2>1, DescriptorAssumption
  <2>3. CASE \E f \in Fd : Takes(h, f)
    BY <2>1, <2>2, <2>3 DEF Takes, Allocate, Lowest, Enter, TypeOK, NothingLeaks, InUse
  <2>4. CASE Moves(h)
    BY <2>1, <2>4 DEF Moves, Enter, TypeOK, NothingLeaks, InUse
  <2>5. CASE Ends(h)
    BY <2>1, <2>2, <2>5 DEF Ends, Closed, Gone, Enter, TypeOK, HasNumber, NothingLeaks, InUse
  <2>6. CASE Closes(h)
    BY <2>1, <2>2, <2>6 DEF Closes, Closed, Enter, TypeOK, HasNumber, NothingLeaks, InUse
  <2>7. QED BY <2>1, <2>3, <2>4, <2>5, <2>6
<1>3. QED BY <1>1, <1>2

LEMMA TableInit == Init => TableInv
BY DescriptorAssumption DEF Init, TableInv, TypeOK, HasNumber, NothingLeaks

\* No path of open, failing or not, and no close leaks a descriptor, whichever
\* handles there are and however they are ended: what is in the table belongs to a
\* handle that will close it.
THEOREM NoDescriptorLeaks == Spec => []NothingLeaks
<1>1. TableInv /\ [Next]_vars => TableInv'
  BY TypeStep, LeakStep DEF TableInv
<1>2. TableInv => NothingLeaks
  BY DEF TableInv
<1>3. QED BY TableInit, <1>1, <1>2, PTL DEF Spec

-----------------------------------------------------------------------------
\* Every step but a second close leaves each handle in use its own descriptor.
LEMMA OwnKept ==
  ASSUME TypeOK, HasNumber, OpenOwnsItsDescriptor, NEW h \in Handle,
         \/ \E f \in Fd : Takes(h, f)
         \/ Moves(h)
         \/ Ends(h) /\ InUse(h)
         \/ Closes(h)
  PROVE  OpenOwnsItsDescriptor'
<1>1. h # Free
  BY DescriptorAssumption
<1>2. CASE \E f \in Fd : Takes(h, f)
  <2>1. PICK f \in Fd : Takes(h, f)
    BY <1>2
  <2>2. \A g \in Handle : g # h /\ InUse(g) => fd[g] # f
    BY <2>1, DescriptorAssumption DEF Takes, Allocate, Lowest, OpenOwnsItsDescriptor
  <2>3. QED BY <2>1, <2>2 DEF Takes, Allocate, Enter, TypeOK, OpenOwnsItsDescriptor,
                              InUse, HasNumber
<1>3. CASE Moves(h)
  BY <1>3 DEF Moves, Enter, TypeOK, OpenOwnsItsDescriptor, InUse
<1>4. CASE Ends(h) /\ InUse(h)
  <2>1. \A g \in Handle : g # h /\ InUse(g) => fd[g] # fd[h]
    BY <1>4 DEF OpenOwnsItsDescriptor
  <2>2. QED BY <1>4, <2>1 DEF Ends, Closed, Gone, Enter, TypeOK, OpenOwnsItsDescriptor,
                              InUse, HasNumber
<1>5. CASE Closes(h)
  <2>1. \A g \in Handle : g # h /\ InUse(g) => fd[g] # fd[h]
    BY <1>5 DEF Closes, OpenOwnsItsDescriptor, InUse
  <2>2. QED BY <1>5, <2>1 DEF Closes, Closed, Enter, TypeOK, OpenOwnsItsDescriptor,
                              InUse, HasNumber
<1>6. QED BY <1>2, <1>3, <1>4, <1>5

LEMMA Numbers == Spec => [](TypeOK /\ HasNumber)
<1>1. Init => TypeOK /\ HasNumber
  BY TableInit DEF TableInv
<1>2. (TypeOK /\ HasNumber) /\ [Next]_vars => (TypeOK /\ HasNumber)'
  BY TypeStep
<1>3. QED BY <1>1, <1>2, PTL DEF Spec

\* Whichever handles there are and however their threads interleave, the first
\* descriptor a handle in use loses is lost to the second close of a receiver or of
\* a sender ended by close.
THEOREM FirstLossCorrect == Spec => FirstLossIsASecondClose
<1> DEFINE SecondClose == \E h \in Handle : stage[h] = "closing" /\ stage'[h] = "none"
<1>1. TypeOK /\ HasNumber /\ [Next]_vars
        => [OpenOwnsItsDescriptor /\ ~OpenOwnsItsDescriptor' => SecondClose]_vars
  <2>1. SUFFICES ASSUME TypeOK, HasNumber, Next, OpenOwnsItsDescriptor,
                        ~OpenOwnsItsDescriptor'
                 PROVE  SecondClose
    OBVIOUS
  <2>2. PICK h \in Handle : Ends(h) /\ stage[h] = "closing"
    BY <2>1, StepKinds, OwnKept
  <2>3. stage'[h] = "none"
    BY <2>1, <2>2 DEF Ends, Gone, Enter, TypeOK
  <2>4. QED BY <2>2, <2>3
<1>2. QED BY <1>1, Numbers, PTL DEF Spec, FirstLossIsASecondClose

-----------------------------------------------------------------------------
OnlyDroppedSenders == RxHandle = {} /\ ByClose = {}

NoneClosing == \A h \in Handle : stage[h] # "closing"

OwnInv == TypeOK /\ HasNumber /\ NoneClosing /\ OpenOwnsItsDescriptor

LEMMA OwnStep ==
  ASSUME OnlyDroppedSenders, OwnInv, [Next]_vars
  PROVE  NoneClosing' /\ OpenOwnsItsDescriptor'
<1> USE DEF OwnInv
<1>1. CASE UNCHANGED vars
  BY <1>1 DEF vars, NoneClosing, OpenOwnsItsDescriptor, InUse
<1>2. CASE Next
  <2>1. PICK h \in Handle : \/ \E f \in Fd : Takes(h, f)
                            \/ Moves(h)
                            \/ Ends(h) /\ InUse(h)
    BY <1>2, StepKinds DEF OnlyDroppedSenders, NoneClosing
  <2>2. OpenOwnsItsDescriptor'
    BY <2>1, OwnKept
  <2>3. NoneClosing'
    BY <2>1 DEF Takes, Moves, Ends, Gone, Enter, TypeOK, NoneClosing
  <2>4. QED BY <2>2, <2>3
<1>3. QED BY <1>1, <1>2

\* Senders opened and dropped by any number of threads, which is all a process does
\* that only uses wfb_tx_open and wfb_tx_close, never lose their descriptor to
\* each other.
THEOREM SendersKeepTheirDescriptor ==
  ASSUME OnlyDroppedSenders
  PROVE  Spec => []OpenOwnsItsDescriptor
<1>1. Init => OwnInv
  BY DescriptorAssumption DEF Init, OwnInv, TypeOK, HasNumber, NoneClosing,
                              OpenOwnsItsDescriptor, InUse
<1>2. OwnInv /\ [Next]_vars => OwnInv'
  BY TypeStep, OwnStep DEF OwnInv
<1>3. OwnInv => OpenOwnsItsDescriptor
  BY DEF OwnInv
<1>4. QED BY <1>1, <1>2, <1>3, PTL DEF Spec
=============================================================================
