---------------------------- MODULE BoundedFifo -----------------------------
(***************************************************************************)
(* What the receive ring promises to the rest of WfbRx: a first-in         *)
(* first-out queue of whole frames, that takes a new frame while it holds  *)
(* fewer than Capacity of them and ignores it otherwise, and hands the     *)
(* oldest frame to a reader, cut to the reader's buffer and marked as cut. *)
(***************************************************************************)
EXTENDS Integers, Sequences

CONSTANTS Frame,      \* records [payload, meta]
          Capacity,   \* frames the queue holds at most
          BufLen,     \* lengths of the buffers readers bring
          NoFrame     \* what a reader holds before its first frame

VARIABLES queue,      \* the frames accepted and not yet read, oldest first
          popped      \* the frame handed to the reader last

fifoVars == <<queue, popped>>

\* What a reader with a buffer of buf_len bytes gets of frame f.
Cut(f, buf_len) ==
  LET n == IF Len(f.payload) <= buf_len THEN Len(f.payload) ELSE buf_len
  IN  [buf       |-> [i \in 1 .. n |-> f.payload[i]],
       meta      |-> f.meta,
       truncated |-> Len(f.payload) > buf_len]

FifoInit == queue = <<>> /\ popped = NoFrame

Put(f) ==
  /\ Len(queue) < Capacity
  /\ queue' = Append(queue, f)
  /\ UNCHANGED popped

Take(buf_len) ==
  /\ queue # <<>>
  /\ popped' = Cut(Head(queue), buf_len)
  /\ queue' = Tail(queue)

FifoNext ==
  \/ \E f \in Frame : Put(f)
  \/ \E buf_len \in BufLen : Take(buf_len)

FifoSpec == FifoInit /\ [][FifoNext]_fifoVars
=============================================================================
