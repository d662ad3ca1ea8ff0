----------------------------- MODULE CInterface -----------------------------
(***************************************************************************)
(* The C interface (src/ffi.rs) of one sender and one receiver.  An open   *)
(* boxes the Rust value and gives its address away, a close turns the      *)
(* address back into the box and drops it, and the calls between borrow    *)
(* what the address points to: nothing but the caller's care keeps them    *)
(* apart.  What is checked of an address is that it is not null.           *)
(***************************************************************************)
CONSTANT Null   \* the null pointer

Side == {"tx", "rx"}

ASSUME NullAssumption == Null \notin Side

VARIABLE box    \* what is where the address of each side points

BoxInit == box = [s \in Side |-> "none"]

Code == {"OK", "NULL_PTR", "INVALID_ARGUMENT", "IO", "PCAP", "TIMEOUT"}

\* The code of what send and recv return; errors by map_err.
CodeOf(result) ==
  CASE result \in {"ok", "frame"} -> "OK"
    [] result = "timeout"         -> "TIMEOUT"
    [] result = "invalid"         -> "INVALID_ARGUMENT"
    [] result = "io"              -> "IO"
    [] result = "pcap"            -> "PCAP"

OpenResults == {"ok", "invalid", "io", "pcap"}

wfb_tx_open(result) ==
  box' = IF result = "ok" THEN [box EXCEPT !["tx"] = "live"] ELSE box

wfb_rx_open(result) ==
  box' = IF result = "ok" THEN [box EXCEPT !["rx"] = "live"] ELSE box

\* Box::from_raw takes any address for that of a live box.
Dropped(s) == box' = [box EXCEPT ![s] = IF @ = "live" THEN "freed" ELSE "freed twice"]

wfb_tx_close(handle) == handle # Null /\ Dropped("tx")
wfb_rx_close(handle) == handle # Null /\ Dropped("rx")

wfb_tx_send(handle, result) == IF handle = Null THEN "NULL_PTR" ELSE CodeOf(result)
wfb_rx_recv(handle, result) == IF handle = Null THEN "NULL_PTR" ELSE CodeOf(result)
=============================================================================
