------------------------------- MODULE MCLink -------------------------------
(***************************************************************************)
(* Link with payloads of at most one byte: "data" is a line of the peer,   *)
(* "own" one of this host.  Each sender is also given the empty line and a *)
(* line longer than a frame.                                               *)
(***************************************************************************)
EXTENDS Link

MCByte == {"zero", "data", "own", "fcs"}
MCLines(byte) == {<<>>, <<byte>>, <<byte, byte>>}
MCPeerLines == MCLines("data")
MCOwnLines  == MCLines("own")

MCMeta == {[seq |-> s, flags |-> 0, radio |-> 0] : s \in U32}
MCDefaultMeta == [seq |-> 0, flags |-> 0, radio |-> 0]

\* What the capture may show of a frame of one of the two hosts.
MCPacket(seq, line, fcs, flags, injected) ==
  [stream |-> 1, len |-> 8 + 24 + 8 + Len(line \o fcs),
   radiotap |-> [radiotap_len |-> 8, rt_flags |-> flags,
                 self_injected |-> injected, radio |-> 0],
   hdr |-> [version |-> 0, seq |-> seq, payload_len |-> Len(line), flags |-> 0],
   bytes |-> line \o fcs]

MCFcs == <<"fcs", "fcs", "fcs", "fcs">>

\* A packet of the stream that was cut short, behind its 802.11 header.
MCNoise == {[MCPacket(0, <<>>, <<>>, {}, FALSE) EXCEPT !.len = 8 + 24]}

MCPackets ==
  {MCPacket(s, line, <<>>, {}, FALSE) : s \in U32, line \in {<<>>, <<"data">>}} \cup
  {MCPacket(s, line, MCFcs, {"FCS"}, FALSE) : s \in U32, line \in {<<>>, <<"data">>}} \cup
  {MCPacket(s, line, <<>>, {}, TRUE) : s \in U32, line \in {<<>>, <<"own">>}} \cup
  MCNoise
=============================================================================
