------------------------------ MODULE WfbProto ------------------------------
(***************************************************************************)
(* Constants of the WFB-rs plaintext framing (src/proto.rs).  The code     *)
(* fixes WIFI_MTU to 4045; it is a constant here, so that TLC can run with *)
(* payloads of one or two bytes and the theorems hold for every value the  *)
(* subtraction in compute_max_payload and the test in WfbRx::open admit.   *)
(***************************************************************************)
EXTENDS Integers

CONSTANT WIFI_MTU    \* largest frame after the radiotap header, in bytes

WFB_PROTO_VERSION     == 0
IEE80211_HEADER_LEN   == 24
WFB_PLAINTEXT_HDR_LEN == 1 + 4 + 2 + 1

compute_max_payload == WIFI_MTU - IEE80211_HEADER_LEN - WFB_PLAINTEXT_HDR_LEN

\* The usize subtraction does not underflow, and WfbRx::open rejects a maximum below one.
ASSUME MtuAssumption ==
  WIFI_MTU \in Nat /\ WIFI_MTU > IEE80211_HEADER_LEN + WFB_PLAINTEXT_HDR_LEN
=============================================================================
