----------------------------- MODULE LossyFifo ------------------------------
(***************************************************************************)
(* What WfbRx promises its caller about the acceptable frames the capture  *)
(* buffer took in: they are delivered in capture order, each at most once, *)
(* and one is lost only when at least Capacity older ones are still unread.*)
(***************************************************************************)
EXTENDS Integers, Sequences, SequencesExt

CONSTANTS Frame, Capacity, BufLen, NoFrame

VARIABLES pending,   \* acceptable frames captured and not delivered, oldest first
          popped     \* the frame delivered last

lossyVars == <<pending, popped>>

\* Delivery cuts a frame to the caller's buffer as the ring does.
Ring == INSTANCE BoundedFifo WITH queue <- pending

LossyInit == pending = <<>> /\ popped = NoFrame

Capture(f) == pending' = Append(pending, f) /\ UNCHANGED popped

Lose(k) ==
  /\ k > Capacity
  /\ pending' = RemoveAt(pending, k)
  /\ UNCHANGED popped

LossyNext ==
  \/ \E f \in Frame : Capture(f)
  \/ \E k \in 1 .. Len(pending) : Lose(k)
  \/ \E buf_len \in BufLen : Ring!Take(buf_len)

LossySpec == LossyInit /\ [][LossyNext]_lossyVars
=============================================================================
