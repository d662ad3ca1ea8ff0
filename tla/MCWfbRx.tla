------------------------------ MODULE MCWfbRx -------------------------------
(***************************************************************************)
(* WfbRx with payloads of at most one byte and packets that meet every     *)
(* early return of parse_and_enqueue_one_packet.  Bytes are "zero" (the    *)
(* fresh store), "data" and "fcs", a byte of a frame check sequence.       *)
(***************************************************************************)
EXTENDS WfbRx

MCByte == {"zero", "data", "fcs"}

MCRadiotap(flags, injected) ==
  [radiotap_len |-> 8, rt_flags |-> flags, self_injected |-> injected, radio |-> 0]

Fcs == <<"fcs", "fcs", "fcs", "fcs">>

MCPkt(seq, rtap, version, payload_len, bytes) ==
  [stream |-> 1, len |-> 8 + 24 + 8 + Len(bytes), radiotap |-> rtap,
   hdr |-> [version |-> version, seq |-> seq, payload_len |-> payload_len, flags |-> 0],
   bytes |-> bytes]

Plain   == MCRadiotap({}, FALSE)
WithFcs == MCRadiotap({"FCS"}, FALSE)

First   == MCPkt(1, Plain, 0, 1, <<"data">>)
Second  == MCPkt(2, WithFcs, 0, 1, <<"data">> \o Fcs)

\* Packets that must be dropped, one for each early return.
Bad ==
  { MCPkt(4, WithFcs, 0, 1, Fcs),                             \* payload would be the FCS
    MCPkt(4, Plain, 0, 2, <<"data", "data">>),                \* over max_payload
    MCPkt(4, Plain, 1, 1, <<"data">>),                        \* other version
    MCPkt(4, MCRadiotap({}, TRUE), 0, 1, <<"data">>),         \* self-injected
    MCPkt(4, MCRadiotap({"FCS", "BADFCS"}, FALSE), 0, 1, <<"data">> \o Fcs),
    [MCPkt(4, WithFcs, 0, 0, <<>>) EXCEPT !.len = 38],        \* FCS reaches into the header
    [MCPkt(4, Plain, 0, 0, <<>>) EXCEPT !.radiotap = NoRadiotap, !.len = 7] }

OtherStream == [First EXCEPT !.stream = 2]

MCMeta == {[seq |-> s, flags |-> 0, radio |-> 0] : s \in 0 .. 4}

MCDefaultMeta == [seq |-> 0, flags |-> 0, radio |-> 0]

SafetyPackets == {First, Second, OtherStream} \cup Bad
OnePacket     == {First}
=============================================================================
