----------------------------- MODULE FrameLink ------------------------------
(***************************************************************************)
(* A frame WfbTx::send put on the air, as the capture of another host      *)
(* shows it to WfbRx: with the radiotap header of the receiving driver,    *)
(* and with the frame check sequence if that driver leaves it on (and says *)
(* so in the radiotap flags).                                              *)
(***************************************************************************)
EXTENDS WfbTx, RxPacket

CONSTANTS RadiotapLen,   \* lengths of receiving drivers' radiotap headers
          FcsByte,
          Radio          \* what those headers say of the reception

ASSUME LinkAssumption == RadiotapLen \subseteq Nat /\ FcsByte \in Byte

Fcs == [i \in 1 .. FCS_LEN |-> FcsByte]

\* A good reception of `frame`.
Received(frame, radiotap_len, with_fcs, radio) ==
  LET body == IF with_fcs THEN frame.payload \o Fcs ELSE frame.payload
  IN  [stream   |-> frame.stream,
       len      |-> radiotap_len + IEE80211_HEADER_LEN + WFB_PLAINTEXT_HDR_LEN + Len(body),
       radiotap |-> [radiotap_len |-> radiotap_len,
                     rt_flags |-> IF with_fcs THEN {"FCS"} ELSE {},
                     self_injected |-> FALSE, radio |-> radio],
       hdr      |-> decode(frame.hdr),
       bytes    |-> body]

\* Whatever send accepts, recv accepts: every frame on the air, well received by
\* any driver, passes every check of parse_and_enqueue_one_packet and gives the
\* reader the payload and the packet number that were sent.  The two sides check
\* lengths separately and must agree at both ends, the empty payload and the
\* largest, with the FCS and without.  The header crosses as bytes: encode and
\* decode must put the same number at the same place, and `as u16` must not cut
\* a payload length.
SentIsAccepted ==
  \A i \in DOMAIN air :
    \A len \in RadiotapLen, with_fcs \in BOOLEAN, radio \in Radio :
      LET pkt == Received(air[i], len, with_fcs, radio)
      IN  /\ Accepts(pkt)
          /\ PayloadOf(pkt) = air[i].payload
          /\ MetaOf(pkt) = [seq |-> air[i].seq, flags |-> 0, radio |-> radio]
=============================================================================
