---------------------------- MODULE MCFrameLink -----------------------------
(* FrameLink with payloads of up to three bytes, one over the limit of two. *)
EXTENDS FrameLink

MCByte == {"b0", "b1", "fcs"}

MCCallPayload == UNION {[1 .. n -> {"b0", "b1"}] : n \in 0 .. 3}
=============================================================================
