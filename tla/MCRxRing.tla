------------------------------ MODULE MCRxRing ------------------------------
(* RxRing with three slots, two bytes, two metadata values and payloads of up to *)
(* two bytes, read into buffers of one and two bytes; the values are in the cfg. *)
EXTENDS RxRing
=============================================================================
