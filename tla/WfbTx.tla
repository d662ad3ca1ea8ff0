------------------------------- MODULE WfbTx --------------------------------
(***************************************************************************)
(* WfbTx::send (src/tx.rs): which payloads it takes, the 802.11 sequence   *)
(* control it stamps on each frame, and the frame it hands to sendmsg.     *)
(* sendmsg may fail, and the sequence control is spent all the same.       *)
(* Sequence control is a 16-bit field, 12 bits of sequence number and 4 of *)
(* fragment number; SeqNumbers is 2^12 in the code.                        *)
(***************************************************************************)
EXTENDS WfbFrameHeader

CONSTANTS Byte,          \* the bytes a payload is made of
          CallPayload,   \* the payloads callers pass, some of them too large
          CallSeq,       \* the packet numbers callers pass
          stream_id, frame_type,
          SeqNumbers,    \* sequence numbers of 802.11
          MaxSends       \* bound of the model: calls that get as far as sendmsg

FragmentNumbers == 16

ASSUME SenderAssumption ==
  /\ SeqNumbers \in Nat \ {0}
  /\ MaxSends \in Nat
  /\ CallPayload \subseteq Seq(Byte)
  /\ CallSeq \subseteq U32

VARIABLES ieee80211_seq,   \* the sequence control of the next frame
          air,             \* the frames sendmsg took, oldest first
          sends,           \* calls that got as far as sendmsg
          tx_result        \* what the last send returned

txVars == <<ieee80211_seq, air, sends, tx_result>>

\* open starts at zero.
TxInit == ieee80211_seq = 0 /\ air = <<>> /\ sends = 0 /\ tx_result = "none"

\* Mutant: the limit is one too many.
MutFits(payload) == Len(payload) <= compute_max_payload + 1

Fits(payload) == Len(payload) <= compute_max_payload

\* The frame of the four iovecs, less the radiotap header the driver strips.
\* `seq` and `number` are not sent beside the header: they tell the properties
\* what the caller asked for, and which call it was.
FrameSent(payload, seq) ==
  [stream  |-> stream_id,
   type    |-> frame_type,
   seq_ctl |-> ieee80211_seq,
   hdr     |-> encode([version |-> WFB_PROTO_VERSION, seq |-> seq,
                       payload_len |-> Len(payload) % (ByteValues * ByteValues),
                       flags |-> 0]),
   payload |-> payload,
   seq     |-> seq,
   number  |-> sends]

\* Mutants: a counter that does not wrap, one that wraps a number early, and one
\* that counts fragments.
MutSeqWide     == ieee80211_seq + FragmentNumbers
MutSeqShort    == (ieee80211_seq + FragmentNumbers) % (FragmentNumbers * (SeqNumbers - 1))
MutSeqFragment == (ieee80211_seq + 1) % (FragmentNumbers * SeqNumbers)

\* wrapping_add(16) on a u16.
NextSeq == (ieee80211_seq + FragmentNumbers) % (FragmentNumbers * SeqNumbers)

SendTooLarge(payload) ==
  /\ ~Fits(payload)
  /\ tx_result' = "invalid"
  /\ UNCHANGED <<ieee80211_seq, air, sends>>

SendOk(payload, seq) ==
  /\ Fits(payload)
  /\ sends < MaxSends
  /\ ieee80211_seq' = NextSeq
  /\ air' = Append(air, FrameSent(payload, seq))
  /\ sends' = sends + 1
  /\ tx_result' = "ok"

SendFails(payload) ==
  /\ Fits(payload)
  /\ sends < MaxSends
  /\ ieee80211_seq' = NextSeq
  /\ sends' = sends + 1
  /\ tx_result' = "io"
  /\ UNCHANGED air

TxNext ==
  \E payload \in CallPayload :
    \/ SendTooLarge(payload)
    \/ \E seq \in CallSeq : SendOk(payload, seq)
    \/ SendFails(payload)

TxSpec == TxInit /\ [][TxNext]_txVars

-----------------------------------------------------------------------------
Numbered(frame) ==
  /\ frame.number \in 0 .. (sends - 1)
  /\ frame.seq_ctl \in 0 .. (FragmentNumbers * SeqNumbers - 1)

\* The counter is a 16-bit value and every frame carries one.
TxTypeOK ==
  /\ ieee80211_seq \in 0 .. (FragmentNumbers * SeqNumbers - 1)
  /\ sends \in 0 .. MaxSends
  /\ tx_result \in {"none", "ok", "io", "invalid"}
  /\ \A i \in DOMAIN air : Numbered(air[i])

\* Within any SeqNumbers consecutive calls no two frames share a sequence
\* control, whichever calls failed in sendmsg and across the wrap of the
\* counter: to 802.11 an equal sequence control is the same frame again.
SeqControlDistinct ==
  \A i, j \in DOMAIN air :
    i # j /\ air[i].number - air[j].number \in 0 .. (SeqNumbers - 1)
      => air[i].seq_ctl # air[j].seq_ctl

\* Every frame is whole: its fragment number is zero, so that no receiver waits
\* for more fragments of it, also after the counter has wrapped.
NeverAFragment == \A i \in DOMAIN air : air[i].seq_ctl % FragmentNumbers = 0
=============================================================================
