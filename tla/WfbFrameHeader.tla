--------------------------- MODULE WfbFrameHeader ---------------------------
(***************************************************************************)
(* The WFB header on the wire (WfbFrameHeader in src/proto.rs): version,   *)
(* packet number, payload length and flags in one, four, two and one       *)
(* bytes, the numbers in network byte order.  A byte holds ByteValues      *)
(* values, 256 in the code.                                                *)
(***************************************************************************)
EXTENDS WfbProto, Sequences

CONSTANT ByteValues

ASSUME HeaderAssumption ==
  /\ ByteValues \in Nat /\ ByteValues > 1
  /\ compute_max_payload < ByteValues * ByteValues

U8  == 0 .. (ByteValues - 1)
U16 == 0 .. (ByteValues * ByteValues - 1)
U32 == 0 .. (ByteValues * ByteValues * ByteValues * ByteValues - 1)

Header == [version : U8, seq : U32, payload_len : U16, flags : U8]

\* The lowest byte of a number, and the number without it.
Low(n)  == n % ByteValues
Rest(n) == n \div ByteValues

\* Mutant: the payload length in the byte order of the host.
Mutencode(h) ==
  << h.version,
     Low(Rest(Rest(Rest(h.seq)))), Low(Rest(Rest(h.seq))), Low(Rest(h.seq)), Low(h.seq),
     Low(h.payload_len), Low(Rest(h.payload_len)),
     h.flags >>

encode(h) ==
  << h.version,
     Low(Rest(Rest(Rest(h.seq)))), Low(Rest(Rest(h.seq))), Low(Rest(h.seq)), Low(h.seq),
     Low(Rest(h.payload_len)), Low(h.payload_len),
     h.flags >>

\* Mutant: the packet number read backwards.
Mutdecode(buf) ==
  [version     |-> buf[1],
   seq         |-> ((buf[5] * ByteValues + buf[4]) * ByteValues + buf[3]) * ByteValues + buf[2],
   payload_len |-> buf[6] * ByteValues + buf[7],
   flags       |-> buf[8]]

\* The receiver passes a slice of WFB_PLAINTEXT_HDR_LEN bytes: it is never too short.
decode(buf) ==
  [version     |-> buf[1],
   seq         |-> ((buf[2] * ByteValues + buf[3]) * ByteValues + buf[4]) * ByteValues + buf[5],
   payload_len |-> buf[6] * ByteValues + buf[7],
   flags       |-> buf[8]]
=============================================================================
