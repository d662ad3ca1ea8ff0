-------------------------- MODULE FrameLinkProofs ---------------------------
(***************************************************************************)
(* Proofs about the sender, for every MTU, payload and size of the         *)
(* sequence number: what it sends is what the receiver accepts, and the    *)
(* sequence control repeats only after SeqNumbers calls.                   *)
(***************************************************************************)
EXTENDS FrameLink, SequenceTheorems, TLAPS

SentFrame ==
  [stream  : {stream_id},
   type    : {frame_type},
   seq_ctl : 0 .. (FragmentNumbers * SeqNumbers - 1),
   hdr     : {encode(h) : h \in Header},
   payload : {p \in CallPayload : Fits(p)},
   seq     : CallSeq,
   number  : Nat]

\* The header of every frame tells the caller's packet number and the length of
\* the payload.
HeaderOf(frame) ==
  [version |-> WFB_PROTO_VERSION, seq |-> frame.seq,
   payload_len |-> Len(frame.payload), flags |-> 0]

HeadersAgree == \A i \in DOMAIN air : air[i].hdr = encode(HeaderOf(air[i]))

\* The sequence control of a call is its number, counted modulo SeqNumbers.
Stamp(seq_ctl, number) ==
  \E q \in Nat, n \in 0 .. (SeqNumbers - 1) :
    seq_ctl = FragmentNumbers * n /\ number = q * SeqNumbers + n

Stamped ==
  /\ Stamp(ieee80211_seq, sends)
  /\ \A i \in DOMAIN air : Stamp(air[i].seq_ctl, air[i].number)

AirType ==
  /\ air \in Seq(SentFrame)
  /\ ieee80211_seq \in 0 .. (FragmentNumbers * SeqNumbers - 1)
  /\ sends \in 0 .. MaxSends
  /\ tx_result \in {"none", "ok", "io", "invalid"}
  /\ \A i \in DOMAIN air : air[i].number \in 0 .. (sends - 1)

\* Different frames of the air come from different calls.
DistinctNumbers ==
  \A i, j \in DOMAIN air : i # j => air[i].number # air[j].number

TxInv == AirType /\ HeadersAgree /\ Stamped /\ DistinctNumbers

-----------------------------------------------------------------------------
\* A number is its lowest byte and the rest of it, and the rest of a number of
\* k + 1 bytes has k.
LEMMA LowRest ==
  ASSUME NEW n \in Nat
  PROVE  /\ Low(n) \in U8 /\ Rest(n) \in Nat
         /\ Rest(n) * ByteValues + Low(n) = n
         /\ \A k \in Nat : n < k * ByteValues => Rest(n) < k
<1>1. ByteValues \in Nat /\ ByteValues > 1
  BY HeaderAssumption
<1>2. /\ Low(n) \in 0 .. (ByteValues - 1) /\ Rest(n) \in Nat
      /\ Rest(n) * ByteValues + Low(n) = n
  BY <1>1 DEF Low, Rest
<1>3. ASSUME NEW k \in Nat, n < k * ByteValues PROVE Rest(n) < k
  <2>1. SUFFICES ASSUME Rest(n) >= k PROVE FALSE
    BY <1>2
  <2>2. Rest(n) * ByteValues >= k * ByteValues
    BY <1>1, <1>2, <2>1
  <2>3. QED BY <1>1, <1>2, <1>3, <2>2
<1>4. QED BY <1>2, <1>3 DEF U8

LEMMA LowOfByte == ASSUME NEW n \in U8 PROVE Low(n) = n
BY HeaderAssumption DEF U8, Low

\* Two bytes, most significant first.
LEMMA TwoBytes ==
  ASSUME NEW n \in U16
  PROVE  Low(Rest(n)) * ByteValues + Low(n) = n
<1>1. ByteValues \in Nat /\ n \in Nat /\ n < ByteValues * ByteValues
  BY HeaderAssumption DEF U16
<1>2. Rest(n) \in U8
  BY <1>1, LowRest DEF U8
<1>3. QED BY <1>1, <1>2, LowRest, LowOfByte

\* Four bytes, most significant first.
LEMMA FourBytes ==
  ASSUME NEW n \in U32
  PROVE  ((Low(Rest(Rest(Rest(n)))) * ByteValues + Low(Rest(Rest(n)))) * ByteValues
            + Low(Rest(n))) * ByteValues + Low(n) = n
<1> DEFINE B == ByteValues
<1>1. B \in Nat /\ n \in Nat /\ n < (B * B * B) * B
  BY HeaderAssumption DEF U32
<1>2. B * B \in Nat /\ B * B * B \in Nat
  BY <1>1
<1>3. Rest(n) \in Nat /\ Rest(n) < (B * B) * B
  BY <1>1, <1>2, LowRest
<1>4. Rest(Rest(n)) \in U16
  <2>1. Rest(Rest(n)) \in Nat /\ Rest(Rest(n)) < B * B
    BY <1>2, <1>3, LowRest
  <2>2. QED BY <1>2, <2>1 DEF U16
<1>5. Low(Rest(Rest(Rest(n)))) * B + Low(Rest(Rest(n))) = Rest(Rest(n))
  BY <1>4, TwoBytes
<1>6. Rest(Rest(n)) * B + Low(Rest(n)) = Rest(n)
  BY <1>3, LowRest
<1>7. Rest(n) * B + Low(n) = n
  BY <1>1, LowRest
<1>8. QED BY <1>5, <1>6, <1>7

\* The receiver reads the header the sender wrote, for every header: "frame_hdr_roundtrip"
\* in src/proto.rs tries one.
THEOREM HeaderRoundTrip == \A h \in Header : decode(encode(h)) = h
<1>1. SUFFICES ASSUME NEW h \in Header PROVE decode(encode(h)) = h
  OBVIOUS
<1>2. h.seq \in U32 /\ h.payload_len \in U16
  BY DEF Header
<1>3. decode(encode(h)) = [version |-> h.version, seq |-> h.seq,
                           payload_len |-> h.payload_len, flags |-> h.flags]
  BY <1>2, TwoBytes, FourBytes DEF encode, decode
<1>4. QED BY <1>3 DEF Header

-----------------------------------------------------------------------------
LEMMA MaxPayloadNat == compute_max_payload \in Nat
BY MtuAssumption DEF compute_max_payload, IEE80211_HEADER_LEN, WFB_PLAINTEXT_HDR_LEN

\* What Append does, index by index.
LEMMA AppendIndex ==
  ASSUME NEW S, NEW s \in Seq(S), NEW e \in S
  PROVE  /\ Append(s, e) \in Seq(S)
         /\ DOMAIN Append(s, e) = DOMAIN s \cup {Len(s) + 1}
         /\ \A i \in DOMAIN s : Append(s, e)[i] = s[i]
         /\ Append(s, e)[Len(s) + 1] = e
OBVIOUS

\* The wrapping addition steps to the next sequence number, around the end.
LEMMA NextSeqStep ==
  ASSUME NEW n \in 0 .. (SeqNumbers - 1), ieee80211_seq = FragmentNumbers * n
  PROVE  NextSeq = FragmentNumbers * (IF n + 1 = SeqNumbers THEN 0 ELSE n + 1)
<1>1. SeqNumbers \in Nat \ {0}
  BY SenderAssumption
<1>2. CASE n + 1 = SeqNumbers
  <2>1. ieee80211_seq + FragmentNumbers = FragmentNumbers * SeqNumbers
    BY <1>1, <1>2 DEF FragmentNumbers
  <2>2. NextSeq = 0
    BY <1>1, <2>1 DEF NextSeq, FragmentNumbers
  <2>3. QED BY <1>2, <2>2 DEF FragmentNumbers
<1>3. CASE n + 1 # SeqNumbers
  <2>1. /\ ieee80211_seq + FragmentNumbers = FragmentNumbers * (n + 1)
        /\ FragmentNumbers * (n + 1) \in 0 .. (FragmentNumbers * SeqNumbers - 1)
    BY <1>1, <1>3 DEF FragmentNumbers
  <2>2. NextSeq = FragmentNumbers * (n + 1)
    BY <1>1, <2>1 DEF NextSeq, FragmentNumbers
  <2>3. QED BY <1>3, <2>2
<1>4. QED BY <1>2, <1>3

LEMMA StampStep ==
  ASSUME Stamp(ieee80211_seq, sends), sends \in Nat
  PROVE  /\ NextSeq \in 0 .. (FragmentNumbers * SeqNumbers - 1)
         /\ Stamp(NextSeq, sends + 1)
<1>1. SeqNumbers \in Nat \ {0}
  BY SenderAssumption
<1>2. PICK q \in Nat, n \in 0 .. (SeqNumbers - 1) :
        ieee80211_seq = FragmentNumbers * n /\ sends = q * SeqNumbers + n
  BY DEF Stamp
<1>3. NextSeq = FragmentNumbers * (IF n + 1 = SeqNumbers THEN 0 ELSE n + 1)
  BY <1>2, NextSeqStep
<1>4. CASE n + 1 = SeqNumbers
  <2>1. sends + 1 = (q + 1) * SeqNumbers + 0
    BY <1>1, <1>2, <1>4
  <2>2. NextSeq = FragmentNumbers * 0
    BY <1>3, <1>4
  <2>3. q + 1 \in Nat /\ 0 \in 0 .. (SeqNumbers - 1)
    BY <1>1
  <2>4. Stamp(NextSeq, sends + 1)
    BY <2>1, <2>2, <2>3 DEF Stamp
  <2>5. QED BY <1>1, <2>2, <2>4 DEF FragmentNumbers
<1>5. CASE n + 1 # SeqNumbers
  <2>1. sends + 1 = q * SeqNumbers + (n + 1) /\ n + 1 \in 0 .. (SeqNumbers - 1)
    BY <1>1, <1>2, <1>5
  <2>2. NextSeq = FragmentNumbers * (n + 1)
    BY <1>3, <1>5
  <2>3. Stamp(NextSeq, sends + 1)
    BY <2>1, <2>2 DEF Stamp
  <2>4. QED BY <1>1, <2>1, <2>2, <2>3 DEF FragmentNumbers
<1>6. QED BY <1>4, <1>5

LEMMA HeaderInRange ==
  ASSUME NEW payload \in CallPayload, NEW seq \in CallSeq, Fits(payload)
  PROVE  [version |-> WFB_PROTO_VERSION, seq |-> seq,
          payload_len |-> Len(payload), flags |-> 0] \in Header
<1>1. Len(payload) \in Nat /\ seq \in U32
  BY SenderAssumption
<1>2. Len(payload) \in U16
  BY <1>1, HeaderAssumption, MaxPayloadNat DEF Fits, U16
<1>3. WFB_PROTO_VERSION \in U8 /\ 0 \in U8
  BY HeaderAssumption DEF U8, WFB_PROTO_VERSION
<1>4. QED BY <1>1, <1>2, <1>3 DEF Header

\* `as u16` cuts nothing off the length of a payload that fits.
LEMMA HeaderSent ==
  ASSUME NEW payload \in CallPayload, NEW seq \in CallSeq, Fits(payload)
  PROVE  LET f == FrameSent(payload, seq)
         IN  HeaderOf(f) \in Header /\ f.hdr = encode(HeaderOf(f))
<1> DEFINE f == FrameSent(payload, seq)
<1>1. HeaderOf(f) = [version |-> WFB_PROTO_VERSION, seq |-> seq,
                     payload_len |-> Len(payload), flags |-> 0]
  BY DEF HeaderOf, FrameSent
<1>2. Len(payload) % (ByteValues * ByteValues) = Len(payload)
  <2>1. Len(payload) \in Nat /\ ByteValues * ByteValues \in Nat
    BY SenderAssumption, HeaderAssumption
  <2>2. Len(payload) < ByteValues * ByteValues
    BY <2>1, HeaderAssumption, MaxPayloadNat DEF Fits
  <2>3. QED BY <2>1, <2>2
<1>3. f.hdr = encode(HeaderOf(f))
  BY <1>1, <1>2 DEF FrameSent
<1>4. QED BY <1>1, <1>3, HeaderInRange

LEMMA FrameSentType ==
  ASSUME TxInv, NEW payload \in CallPayload, NEW seq \in CallSeq, Fits(payload)
  PROVE  FrameSent(payload, seq) \in SentFrame
<1>1. HeaderOf(FrameSent(payload, seq)) \in Header
      /\ FrameSent(payload, seq).hdr = encode(HeaderOf(FrameSent(payload, seq)))
  BY HeaderSent
<1>2. sends \in Nat
  BY SenderAssumption DEF TxInv, AirType
<1>3. QED BY <1>1, <1>2 DEF FrameSent, SentFrame, TxInv, AirType

LEMMA TxInitInv == TxInit => TxInv
<1>1. SUFFICES ASSUME TxInit PROVE TxInv
  OBVIOUS
<1>2. SeqNumbers \in Nat \ {0} /\ MaxSends \in Nat
  BY SenderAssumption
<1>3. AirType /\ HeadersAgree /\ DistinctNumbers
  BY <1>1, <1>2 DEF TxInit, AirType, HeadersAgree, DistinctNumbers, FragmentNumbers
<1>4. Stamp(0, 0)
  <2>1. 0 \in Nat /\ 0 \in 0 .. (SeqNumbers - 1) /\ 0 = FragmentNumbers * 0
        /\ 0 = 0 * SeqNumbers + 0
    BY <1>2 DEF FragmentNumbers
  <2>2. QED BY <2>1 DEF Stamp
<1>5. QED BY <1>1, <1>3, <1>4 DEF TxInit, TxInv, Stamped

\* A frame that is sent is one more frame of the air, at its end.
LEMMA SendOkInv ==
  ASSUME TxInv, NEW payload \in CallPayload, NEW seq \in CallSeq, SendOk(payload, seq)
  PROVE  TxInv'
<1> DEFINE f == FrameSent(payload, seq)
<1>1. f \in SentFrame
  BY FrameSentType DEF SendOk
<1>2. /\ air' \in Seq(SentFrame)
      /\ DOMAIN air' = DOMAIN air \cup {Len(air) + 1}
      /\ \A i \in DOMAIN air : air'[i] = air[i]
      /\ air'[Len(air) + 1] = f
  BY <1>1, AppendIndex DEF SendOk, TxInv, AirType
<1>3. sends \in Nat /\ sends' = sends + 1 /\ sends' \in 0 .. MaxSends
  BY SenderAssumption DEF SendOk, TxInv, AirType
<1>4. f.number = sends /\ f.seq_ctl = ieee80211_seq /\ f.hdr = encode(HeaderOf(f))
  BY HeaderSent DEF FrameSent, SendOk
<1>5. /\ ieee80211_seq' \in 0 .. (FragmentNumbers * SeqNumbers - 1)
      /\ Stamp(ieee80211_seq', sends')
  BY <1>3, StampStep DEF SendOk, TxInv, Stamped
<1>6. \A i \in DOMAIN air' : air'[i].number \in 0 .. (sends' - 1)
  BY <1>2, <1>3, <1>4 DEF TxInv, AirType
<1>7. AirType'
  BY <1>2, <1>3, <1>5, <1>6 DEF AirType, SendOk
<1>8. HeadersAgree'
  BY <1>2, <1>4 DEF HeadersAgree, TxInv
<1>9. Stamped'
  BY <1>2, <1>4, <1>5 DEF Stamped, TxInv
<1>10. DistinctNumbers'
  <2>1. SUFFICES ASSUME NEW i \in DOMAIN air', NEW j \in DOMAIN air', i # j
                 PROVE  air'[i].number # air'[j].number
    BY DEF DistinctNumbers
  <2>2. \A k \in DOMAIN air : air[k].number \in 0 .. (sends - 1)
    BY DEF TxInv, AirType
  <2>3. QED BY <1>2, <1>3, <1>4, <2>1, <2>2 DEF DistinctNumbers, TxInv
<1>11. QED BY <1>7, <1>8, <1>9, <1>10 DEF TxInv

LEMMA SendFailsInv ==
  ASSUME TxInv, NEW payload \in CallPayload, SendFails(payload)
  PROVE  TxInv'
<1>1. sends \in Nat /\ sends' = sends + 1 /\ sends' \in 0 .. MaxSends
  BY SenderAssumption DEF SendFails, TxInv, AirType
<1>2. /\ ieee80211_seq' \in 0 .. (FragmentNumbers * SeqNumbers - 1)
      /\ Stamp(ieee80211_seq', sends')
  BY <1>1, StampStep DEF SendFails, TxInv, Stamped
<1>3. AirType'
  BY <1>1, <1>2 DEF AirType, SendFails, TxInv
<1>4. HeadersAgree' /\ Stamped' /\ DistinctNumbers'
  BY <1>2 DEF SendFails, TxInv, HeadersAgree, Stamped, DistinctNumbers
<1>5. QED BY <1>3, <1>4 DEF TxInv

LEMMA TxNextInv == TxInv /\ [TxNext]_txVars => TxInv'
<1>1. SUFFICES ASSUME TxInv, [TxNext]_txVars PROVE TxInv'
  OBVIOUS
<1>2. CASE UNCHANGED txVars
  BY <1>1, <1>2 DEF txVars, TxInv, AirType, HeadersAgree, Stamped, DistinctNumbers
<1>3. ASSUME NEW payload \in CallPayload, SendTooLarge(payload) PROVE TxInv'
  BY <1>1, <1>3 DEF SendTooLarge, TxInv, AirType, HeadersAgree, Stamped,
                      DistinctNumbers
<1>4. QED BY <1>1, <1>2, <1>3, SendOkInv, SendFailsInv DEF TxNext

LEMMA TxInvariant == TxSpec => []TxInv
BY TxInitInv, TxNextInv, PTL DEF TxSpec

-----------------------------------------------------------------------------
\* What the inductive invariant says of types, and of what a receiver makes of a frame.
LEMMA InvTypes == TxInv => TxTypeOK
<1>1. SUFFICES ASSUME TxInv, NEW i \in DOMAIN air
               PROVE  Numbered(air[i])
  BY DEF TxInv, AirType, TxTypeOK
<1>2. air[i] \in SentFrame
  BY <1>1 DEF TxInv, AirType
<1>3. QED BY <1>1, <1>2 DEF Numbered, SentFrame, TxInv, AirType

\* The counter stays a 16-bit value and every frame carries such a value.
THEOREM SenderTypeCorrect == TxSpec => []TxTypeOK
BY InvTypes, TxInvariant, PTL

\* No frame is ever stamped as a fragment, however often the counter has wrapped.
THEOREM NeverAFragmentCorrect == TxSpec => []NeverAFragment
<1>1. TxInv => NeverAFragment
  <2>1. SUFFICES ASSUME TxInv, NEW i \in DOMAIN air
                 PROVE  air[i].seq_ctl % FragmentNumbers = 0
    BY DEF NeverAFragment
  <2>2. PICK n \in 0 .. (SeqNumbers - 1) : air[i].seq_ctl = FragmentNumbers * n
    BY <2>1 DEF TxInv, Stamped, Stamp
  <2>3. n \in Nat
    BY SenderAssumption
  <2>4. QED BY <2>2, <2>3 DEF FragmentNumbers
<1>2. QED BY <1>1, TxInvariant, PTL

\* Two calls less than SeqNumbers apart that are stamped alike are one call.
LEMMA StampApart ==
  ASSUME NEW s \in Nat, NEW a \in Nat, NEW b \in Nat,
         Stamp(s, a), Stamp(s, b), a - b \in 0 .. (SeqNumbers - 1)
  PROVE  a = b
<1>1. SeqNumbers \in Nat \ {0}
  BY SenderAssumption
<1>2. PICK qa \in Nat, na \in 0 .. (SeqNumbers - 1) :
        s = FragmentNumbers * na /\ a = qa * SeqNumbers + na
  BY DEF Stamp
<1>3. PICK qb \in Nat, nb \in 0 .. (SeqNumbers - 1) :
        s = FragmentNumbers * nb /\ b = qb * SeqNumbers + nb
  BY DEF Stamp
<1>4. na = nb
  BY <1>1, <1>2, <1>3 DEF FragmentNumbers
<1>5. a - b = (qa - qb) * SeqNumbers
  BY <1>1, <1>2, <1>3, <1>4
<1>6. ASSUME NEW d \in Int, d >= 1 PROVE d * SeqNumbers >= SeqNumbers
  BY <1>1, <1>6
<1>7. ASSUME NEW d \in Int, d <= -1 PROVE d * SeqNumbers < 0
  BY <1>1, <1>7
<1>8. qa - qb = 0
  BY <1>1, <1>5, <1>6, <1>7
<1>9. QED BY <1>1, <1>5, <1>8

\* The 802.11 sequence control tells any SeqNumbers consecutive calls apart (4096 in
\* the code), failed ones included.
THEOREM SeqControlCorrect == TxSpec => []SeqControlDistinct
<1>1. TxInv => SeqControlDistinct
  <2>1. SUFFICES ASSUME TxInv, NEW i \in DOMAIN air, NEW j \in DOMAIN air,
                        i # j, air[i].number - air[j].number \in 0 .. (SeqNumbers - 1),
                        air[i].seq_ctl = air[j].seq_ctl
                 PROVE  FALSE
    BY DEF SeqControlDistinct
  <2>2. air[i] \in SentFrame /\ air[j] \in SentFrame
    BY <2>1 DEF TxInv, AirType
  <2>3. air[i].seq_ctl \in Nat /\ air[i].number \in Nat /\ air[j].number \in Nat
    BY <2>2, SenderAssumption DEF SentFrame, FragmentNumbers
  <2>4. Stamp(air[i].seq_ctl, air[i].number) /\ Stamp(air[i].seq_ctl, air[j].number)
    BY <2>1 DEF TxInv, Stamped
  <2>5. air[i].number = air[j].number
    BY <2>1, <2>3, <2>4, StampApart
  <2>6. QED BY <2>1, <2>5 DEF TxInv, DistinctNumbers
<1>2. QED BY <1>1, TxInvariant, PTL

-----------------------------------------------------------------------------
\* The first Len(p) elements of p and anything after it are p.
LEMMA PrefixOfConcat ==
  ASSUME NEW S, NEW p \in Seq(S), NEW r \in Seq(S)
  PROVE  /\ SubSeq(p \o r, 1, Len(p)) = p
         /\ Len(p \o r) = Len(p) + Len(r)
<1>1. p \o r \in Seq(S) /\ Len(p \o r) = Len(p) + Len(r) /\ Len(p) \in Nat /\ Len(r) \in Nat
  OBVIOUS
<1>2. SubSeq(p \o r, 1, Len(p)) \in Seq(S) /\ Len(SubSeq(p \o r, 1, Len(p))) = Len(p)
  BY <1>1
<1>3. \A i \in 1 .. Len(p) : SubSeq(p \o r, 1, Len(p))[i] = p[i]
  BY <1>1
<1>4. SubSeq(p \o r, 1, Len(p)) = p
  BY <1>2, <1>3, SeqEqual
<1>5. QED BY <1>1, <1>4

LEMMA WholeSubSeq ==
  ASSUME NEW S, NEW p \in Seq(S)
  PROVE  SubSeq(p, 1, Len(p)) = p
<1>1. SubSeq(p, 1, Len(p)) \in Seq(S) /\ Len(SubSeq(p, 1, Len(p))) = Len(p)
  OBVIOUS
<1>2. \A i \in 1 .. Len(p) : SubSeq(p, 1, Len(p))[i] = p[i]
  OBVIOUS
<1>3. QED BY <1>1, <1>2, SeqEqual

\* The receiver's checks, for one well received frame.
LEMMA FrameAccepted ==
  ASSUME NEW frame \in SentFrame, decode(frame.hdr) = HeaderOf(frame),
         NEW radiotap_len \in RadiotapLen, NEW with_fcs \in BOOLEAN, NEW radio \in Radio
  PROVE  LET pkt == Received(frame, radiotap_len, with_fcs, radio)
         IN  /\ Accepts(pkt)
             /\ PayloadOf(pkt) = frame.payload
             /\ MetaOf(pkt) = [seq |-> frame.seq, flags |-> 0, radio |-> radio]
<1> DEFINE pkt == Received(frame, radiotap_len, with_fcs, radio)
           p == frame.payload
           start == radiotap_len + IEE80211_HEADER_LEN + WFB_PLAINTEXT_HDR_LEN
<1>1. p \in Seq(Byte) /\ Len(p) \in Nat /\ radiotap_len \in Nat
  BY SenderAssumption, LinkAssumption DEF SentFrame
<1>2. Fcs \in Seq(Byte) /\ Len(Fcs) = 4
  BY LinkAssumption DEF Fcs, FCS_LEN
<1>3. /\ pkt.hdr.version = WFB_PROTO_VERSION /\ pkt.hdr.flags = 0
      /\ pkt.hdr.payload_len <= compute_max_payload
      /\ pkt.hdr.payload_len = Len(p)
      /\ pkt.hdr.seq = frame.seq
  <2>1. pkt.hdr = HeaderOf(frame)
    BY DEF Received
  <2>2. QED BY <2>1 DEF HeaderOf, SentFrame, Fits
<1>4. start \in Nat /\ payload_start(pkt) = start
  BY <1>1 DEF Received, payload_start, IEE80211_HEADER_LEN, WFB_PLAINTEXT_HDR_LEN
<1>5. pkt.radiotap.self_injected = FALSE
      /\ "BADFCS" \notin pkt.radiotap.rt_flags /\ "malformed" \notin pkt.radiotap.rt_flags
      /\ pkt.radiotap.radio = radio
  BY DEF Received
<1>6. pkt.radiotap # NoRadiotap
  BY <1>5 DEF NoRadiotap
<1>7. effective_len(pkt) = start + Len(p) /\ PayloadOf(pkt) = p
  <2> HIDE DEF p, start
  <2>1. CASE with_fcs
    <3>1. pkt.bytes = p \o Fcs /\ pkt.len = start + Len(p \o Fcs) /\ "FCS" \in pkt.radiotap.rt_flags
      BY <2>1 DEF Received, p, start
    <3>2. Len(p \o Fcs) = Len(p) + 4
      <4>1. Len(p \o Fcs) = Len(p) + Len(Fcs)
        BY ONLY <1>1, <1>2, PrefixOfConcat
      <4>2. QED BY <1>2, <4>1
    <3>3. pkt.len = start + Len(p) + 4 /\ start + Len(p) \in Nat
      BY <1>1, <1>4, <3>1, <3>2
    <3>4. effective_len(pkt) = pkt.len - 4
      BY <3>1, <3>3 DEF effective_len, FCS_LEN
    <3>5. effective_len(pkt) = start + Len(p)
      BY <3>3, <3>4
    <3>6. PayloadOf(pkt) = p
      BY <1>1, <1>2, <1>3, <1>5, <3>1, PrefixOfConcat DEF PayloadOf
    <3>7. QED BY <3>5, <3>6
  <2>2. CASE ~with_fcs
    <3>1. pkt.bytes = p /\ pkt.len = start + Len(p) /\ "FCS" \notin pkt.radiotap.rt_flags
      BY <2>2 DEF Received, p, start
    <3>2. effective_len(pkt) = start + Len(p)
      BY <3>1 DEF effective_len
    <3>3. PayloadOf(pkt) = p
      BY <1>1, <1>3, <1>5, <3>1, WholeSubSeq DEF PayloadOf
    <3>4. QED BY <3>2, <3>3
  <2>3. QED BY <2>1, <2>2
<1>8. effective_len(pkt) >= payload_start(pkt)
      /\ pkt.hdr.payload_len <= effective_len(pkt) - payload_start(pkt)
  BY <1>1, <1>3, <1>4, <1>5, <1>7
<1>9. Accepts(pkt)
  BY <1>3, <1>5, <1>6, <1>8 DEF Accepts
<1>10. MetaOf(pkt) = [seq |-> frame.seq, flags |-> 0, radio |-> radio]
  BY <1>3, <1>5 DEF MetaOf
<1>11. QED BY <1>7, <1>9, <1>10

\* A frame on the air is a frame the receiver accepts, whole.
LEMMA InvAccepted == TxInv => SentIsAccepted
<1>1. SUFFICES ASSUME TxInv, NEW i \in DOMAIN air, NEW radiotap_len \in RadiotapLen,
                      NEW with_fcs \in BOOLEAN, NEW radio \in Radio
               PROVE  LET pkt == Received(air[i], radiotap_len, with_fcs, radio)
                      IN  /\ Accepts(pkt)
                          /\ PayloadOf(pkt) = air[i].payload
                          /\ MetaOf(pkt) = [seq |-> air[i].seq, flags |-> 0, radio |-> radio]
  BY DEF SentIsAccepted
<1>2. air[i] \in SentFrame /\ air[i].hdr = encode(HeaderOf(air[i]))
  BY <1>1 DEF TxInv, AirType, HeadersAgree
<1>3. HeaderOf(air[i]) \in Header
  BY <1>2, HeaderInRange DEF SentFrame, HeaderOf
<1>4. decode(air[i].hdr) = HeaderOf(air[i])
  BY <1>2, <1>3, HeaderRoundTrip
<1>5. QED BY <1>2, <1>4, FrameAccepted

\* Every frame a sender can send, whatever its payload and whatever the receiving
\* driver puts before and after it, reaches the reader of the stream as it was sent.
THEOREM EverySentFrameIsAccepted == TxSpec => []SentIsAccepted
BY InvAccepted, TxInvariant, PTL
=============================================================================
