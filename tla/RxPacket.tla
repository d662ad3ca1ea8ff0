------------------------------ MODULE RxPacket ------------------------------
(***************************************************************************)
(* Which captured packets WfbRx accepts and what it keeps of them          *)
(* (parse_and_enqueue_one_packet in src/rx.rs).  A packet is a record of   *)
(*   stream    the stream id in its synthetic MAC addresses,               *)
(*   len       the captured length, radiotap header included,              *)
(*   radiotap  what radiotap_meta_from_packet makes of it: NoRadiotap, or  *)
(*             [radiotap_len, rt_flags, self_injected, radio], where radio *)
(*             stands for the frequency, MCS, bandwidth and antenna fields,*)
(*   hdr       the WFB header [version, seq, payload_len, flags],          *)
(*   bytes     the captured bytes after that header, an FCS included.      *)
(* Lengths are numbers, so the arithmetic of the checks is the code's own. *)
(***************************************************************************)
EXTENDS WfbProto, Sequences

CONSTANT ignore_self_injected   \* of the WfbRxConfig: drop what this host sent

NoRadiotap == [radiotap_len |-> 0, rt_flags |-> {"malformed"},
               self_injected |-> FALSE, radio |-> 0]

FCS_LEN == 4

\* Mutant: the FCS is taken for payload.
MutEffectiveLen(pkt) == pkt.len

effective_len(pkt) ==
  IF "FCS" \in pkt.radiotap.rt_flags /\ pkt.len >= FCS_LEN THEN pkt.len - FCS_LEN
                                                           ELSE pkt.len

payload_start(pkt) ==
  pkt.radiotap.radiotap_len + IEE80211_HEADER_LEN + WFB_PLAINTEXT_HDR_LEN

\* Mutant: the payload is not held against the size of a slot.
MutAccepts(pkt) ==
  /\ pkt.radiotap # NoRadiotap
  /\ ~(pkt.radiotap.self_injected /\ ignore_self_injected)
  /\ "BADFCS" \notin pkt.radiotap.rt_flags
  /\ effective_len(pkt) >= payload_start(pkt)
  /\ pkt.hdr.version = WFB_PROTO_VERSION
  /\ pkt.hdr.payload_len <= effective_len(pkt) - payload_start(pkt)

\* Mutant: a frame this host injected is taken for one received.
MutAcceptsOwn(pkt) ==
  /\ pkt.radiotap # NoRadiotap
  /\ "BADFCS" \notin pkt.radiotap.rt_flags
  /\ effective_len(pkt) >= payload_start(pkt)
  /\ pkt.hdr.version = WFB_PROTO_VERSION
  /\ pkt.hdr.payload_len <= effective_len(pkt) - payload_start(pkt)
  /\ pkt.hdr.payload_len <= compute_max_payload

\* The early returns of parse_and_enqueue_one_packet, none of them taken.
Accepts(pkt) ==
  /\ pkt.radiotap # NoRadiotap
  /\ ~(pkt.radiotap.self_injected /\ ignore_self_injected)
  /\ "BADFCS" \notin pkt.radiotap.rt_flags
  /\ effective_len(pkt) >= payload_start(pkt)
  /\ pkt.hdr.version = WFB_PROTO_VERSION
  /\ pkt.hdr.payload_len <= effective_len(pkt) - payload_start(pkt)
  /\ pkt.hdr.payload_len <= compute_max_payload

PayloadOf(pkt) == SubSeq(pkt.bytes, 1, pkt.hdr.payload_len)

MetaOf(pkt) == [seq   |-> pkt.hdr.seq, flags |-> pkt.hdr.flags,
                radio |-> pkt.radiotap.radio]

\* Packets as the capture delivers them: what follows the WFB header is what is
\* left of the captured length.
WellFormed(pkt, ByteSet) ==
  /\ pkt.len \in Nat
  /\ pkt.radiotap.radiotap_len \in 0 .. pkt.len
  /\ pkt.hdr.payload_len \in Nat
  /\ pkt.bytes \in Seq(ByteSet)
  /\ Len(pkt.bytes) = IF pkt.len >= payload_start(pkt) THEN pkt.len - payload_start(pkt)
                                                       ELSE 0

\* With the bytes of frame check sequences told apart from all others: they are the
\* last FCS_LEN bytes of a packet, and there only if the driver says so.
FcsIsFlagged(pkt, FcsByte) ==
  \A i \in DOMAIN pkt.bytes :
    pkt.bytes[i] = FcsByte => "FCS" \in pkt.radiotap.rt_flags /\ i > Len(pkt.bytes) - FCS_LEN
=============================================================================
