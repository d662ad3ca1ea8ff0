----------------------------- MODULE LinkProofs -----------------------------
(***************************************************************************)
(* Proofs about Link, for any number of lines, any traffic of the two      *)
(* hosts, any losses and any ring: what the reading thread prints is what  *)
(* the peer sent.  The receiver is used as the lossy queue WfbRxProofs     *)
(* shows it to be, and each sender as the sender of FrameLinkProofs.       *)
(***************************************************************************)
EXTENDS Link, WfbRxProofs

PeerTx == INSTANCE FrameLinkProofs WITH
  ieee80211_seq <- peer_ieee80211_seq, air <- peer_air,
  sends <- peer_sends, tx_result <- peer_tx_result,
  CallSeq <- U32, MaxSends <- PeerSendsMax

OwnTx == INSTANCE FrameLinkProofs WITH
  ieee80211_seq <- own_ieee80211_seq, air <- own_air,
  sends <- own_sends, tx_result <- own_tx_result,
  CallPayload <- OwnPayload, CallSeq <- U32, MaxSends <- OwnSendsMax

-----------------------------------------------------------------------------
(* The senders *)

\* What FrameLinkProofs assumes of the constants of the peer's sender.
LEMMA PeerAssumptions ==
  /\ PeerTx!MtuAssumption /\ PeerTx!HeaderAssumption
  /\ PeerTx!SenderAssumption /\ PeerTx!LinkAssumption
<1>1. PeerTx!MtuAssumption
  BY MtuAssumption DEF PeerTx!IEE80211_HEADER_LEN, PeerTx!WFB_PLAINTEXT_HDR_LEN,
                       IEE80211_HEADER_LEN, WFB_PLAINTEXT_HDR_LEN
<1>2. PeerTx!HeaderAssumption
  BY HeaderAssumption DEF PeerTx!compute_max_payload, compute_max_payload,
                          PeerTx!IEE80211_HEADER_LEN, PeerTx!WFB_PLAINTEXT_HDR_LEN,
                          IEE80211_HEADER_LEN, WFB_PLAINTEXT_HDR_LEN
<1>3. PeerTx!SenderAssumption
  BY HostsAssumption DEF PeerTx!U32, U32
<1>4. PeerTx!LinkAssumption
  BY HostsAssumption, FcsAssumption
<1>5. QED BY <1>1, <1>2, <1>3, <1>4

\* And of those of this host's sender.
LEMMA OwnAssumptions ==
  /\ OwnTx!MtuAssumption /\ OwnTx!HeaderAssumption
  /\ OwnTx!SenderAssumption /\ OwnTx!LinkAssumption
<1>1. OwnTx!MtuAssumption
  BY MtuAssumption DEF OwnTx!IEE80211_HEADER_LEN, OwnTx!WFB_PLAINTEXT_HDR_LEN,
                       IEE80211_HEADER_LEN, WFB_PLAINTEXT_HDR_LEN
<1>2. OwnTx!HeaderAssumption
  BY HeaderAssumption DEF OwnTx!compute_max_payload, compute_max_payload,
                          OwnTx!IEE80211_HEADER_LEN, OwnTx!WFB_PLAINTEXT_HDR_LEN,
                          IEE80211_HEADER_LEN, WFB_PLAINTEXT_HDR_LEN
<1>3. OwnTx!SenderAssumption
  BY HostsAssumption DEF OwnTx!U32, U32
<1>4. OwnTx!LinkAssumption
  BY HostsAssumption, FcsAssumption
<1>5. QED BY <1>1, <1>2, <1>3, <1>4

LEMMA PeerInit == Peer!TxInit => PeerTx!TxInv
<1>1. Peer!TxInit => PeerTx!TxInit
  BY DEF Peer!TxInit, PeerTx!TxInit
<1>2. QED BY <1>1, PeerTx!TxInitInv, PeerAssumptions

LEMMA OwnInit == Own!TxInit => OwnTx!TxInv
<1>1. Own!TxInit => OwnTx!TxInit
  BY DEF Own!TxInit, OwnTx!TxInit
<1>2. QED BY <1>1, OwnTx!TxInitInv, OwnAssumptions

\* A call of send keeps the invariant of its sender.
LEMMA PeerSteps ==
  ASSUME PeerTx!TxInv, NEW line \in CallPayload, NEW seq \in U32,
         Peer!SendOk(line, seq) \/ Peer!SendFails(line) \/ Peer!SendTooLarge(line)
  PROVE  PeerTx!TxInv'
<1>1. PeerTx!SendOk(line, seq) \/ PeerTx!SendFails(line) \/ PeerTx!SendTooLarge(line)
  BY DEF Peer!SendOk, Peer!SendFails, Peer!SendTooLarge, PeerTx!SendOk, PeerTx!SendFails,
         PeerTx!SendTooLarge, Peer!Fits, PeerTx!Fits, Peer!NextSeq, PeerTx!NextSeq,
         Peer!FrameSent, PeerTx!FrameSent, Peer!encode, PeerTx!encode, Peer!Low, PeerTx!Low,
         Peer!Rest, PeerTx!Rest, Peer!FragmentNumbers, PeerTx!FragmentNumbers,
         Peer!WFB_PROTO_VERSION, PeerTx!WFB_PROTO_VERSION,
         Peer!compute_max_payload, PeerTx!compute_max_payload,
         Peer!IEE80211_HEADER_LEN, PeerTx!IEE80211_HEADER_LEN,
         Peer!WFB_PLAINTEXT_HDR_LEN, PeerTx!WFB_PLAINTEXT_HDR_LEN
<1>2. PeerTx!TxNext
  BY <1>1 DEF PeerTx!TxNext
<1>3. PeerTx!TxInv /\ [PeerTx!TxNext]_(PeerTx!txVars) => PeerTx!TxInv'
  BY PeerTx!TxNextInv, PeerAssumptions
<1>4. QED BY <1>2, <1>3

LEMMA OwnSteps ==
  ASSUME OwnTx!TxInv, NEW line \in OwnPayload, NEW seq \in U32,
         Own!SendOk(line, seq) \/ Own!SendFails(line) \/ Own!SendTooLarge(line)
  PROVE  OwnTx!TxInv'
<1>1. OwnTx!SendOk(line, seq) \/ OwnTx!SendFails(line) \/ OwnTx!SendTooLarge(line)
  BY DEF Own!SendOk, Own!SendFails, Own!SendTooLarge, OwnTx!SendOk, OwnTx!SendFails,
         OwnTx!SendTooLarge, Own!Fits, OwnTx!Fits, Own!NextSeq, OwnTx!NextSeq,
         Own!FrameSent, OwnTx!FrameSent, Own!encode, OwnTx!encode, Own!Low, OwnTx!Low,
         Own!Rest, OwnTx!Rest, Own!FragmentNumbers, OwnTx!FragmentNumbers,
         Own!WFB_PROTO_VERSION, OwnTx!WFB_PROTO_VERSION,
         Own!compute_max_payload, OwnTx!compute_max_payload,
         Own!IEE80211_HEADER_LEN, OwnTx!IEE80211_HEADER_LEN,
         Own!WFB_PLAINTEXT_HDR_LEN, OwnTx!WFB_PLAINTEXT_HDR_LEN
<1>2. OwnTx!TxNext
  BY <1>1 DEF OwnTx!TxNext
<1>3. OwnTx!TxInv /\ [OwnTx!TxNext]_(OwnTx!txVars) => OwnTx!TxInv'
  BY OwnTx!TxNextInv, OwnAssumptions
<1>4. QED BY <1>2, <1>3

\* A host that sends nothing keeps it too.
LEMMA PeerRests == ASSUME PeerTx!TxInv, UNCHANGED peerTx PROVE PeerTx!TxInv'
<1>1. PeerTx!TxInv /\ [PeerTx!TxNext]_(PeerTx!txVars) => PeerTx!TxInv'
  BY PeerTx!TxNextInv, PeerAssumptions
<1>2. UNCHANGED PeerTx!txVars
  BY DEF peerTx, PeerTx!txVars
<1>3. QED BY <1>1, <1>2

LEMMA OwnRests ==
  ASSUME OwnTx!TxInv,
         UNCHANGED <<own_ieee80211_seq, own_air, own_sends, own_tx_result>>
  PROVE  OwnTx!TxInv'
<1>1. OwnTx!TxInv /\ [OwnTx!TxNext]_(OwnTx!txVars) => OwnTx!TxInv'
  BY OwnTx!TxNextInv, OwnAssumptions
<1>2. UNCHANGED OwnTx!txVars
  BY DEF OwnTx!txVars
<1>3. QED BY <1>1, <1>2

-----------------------------------------------------------------------------
(* What the capture makes of the frames on the air *)

Line == [seq : U32, payload : Seq(Byte)]

\* What the reading thread will print of a frame.
LineOf(frame) == [seq |-> frame.meta.seq, payload |-> frame.payload]

\* A frame on the air is what OnAir says of its line and number.
LEMMA PeerAirFrame ==
  ASSUME PeerTx!TxInv, NEW i \in DOMAIN peer_air
  PROVE  LET f == peer_air[i]
         IN  /\ f.payload \in CallPayload /\ Peer!Fits(f.payload) /\ f.seq \in U32
             /\ f.stream = stream_id /\ f.hdr = OnAir(f.payload, f.seq).hdr
             /\ SentLine(f) \in Line
<1> DEFINE f == peer_air[i]
<1>1. f \in PeerTx!SentFrame /\ f.hdr = PeerTx!encode(PeerTx!HeaderOf(f))
  BY DEF PeerTx!TxInv, PeerTx!AirType, PeerTx!HeadersAgree
<1>2. f.payload \in CallPayload /\ PeerTx!Fits(f.payload) /\ f.seq \in U32 /\ f.stream = stream_id
  BY <1>1 DEF PeerTx!SentFrame
<1>3. Peer!Fits(f.payload)
  BY <1>2 DEF Peer!Fits, PeerTx!Fits, Peer!compute_max_payload, PeerTx!compute_max_payload,
              Peer!IEE80211_HEADER_LEN, PeerTx!IEE80211_HEADER_LEN,
              Peer!WFB_PLAINTEXT_HDR_LEN, PeerTx!WFB_PLAINTEXT_HDR_LEN
<1>4. f.hdr = OnAir(f.payload, f.seq).hdr
  BY <1>1 DEF OnAir, PeerTx!HeaderOf, PeerTx!encode, encode, PeerTx!Low, Low, PeerTx!Rest, Rest,
              PeerTx!WFB_PROTO_VERSION, WFB_PROTO_VERSION
<1>5. SentLine(f) \in Line
  BY <1>2, HostsAssumption DEF SentLine, Line
<1>6. QED BY <1>2, <1>3, <1>4, <1>5

\* Every good reception of a frame of the peer is a packet that recv accepts, and the
\* line the peer sent is what it will return.
LEMMA PeerFrameAccepted ==
  ASSUME PeerTx!TxInv, NEW i \in DOMAIN peer_air,
         NEW len \in RadiotapLen, NEW with_fcs \in BOOLEAN, NEW radio \in Radio
  PROVE  LET pkt == Peer!Received(peer_air[i], len, with_fcs, radio)
         IN  pkt \in Packet /\ Accepts(pkt) /\ LineOf(FrameOf(pkt)) = SentLine(peer_air[i])
<1> DEFINE f   == peer_air[i]
           pkt == Peer!Received(f, len, with_fcs, radio)
<1>1. pkt \in Packet
  <2>1. Peer!Received(OnAir(f.payload, f.seq), len, with_fcs, radio) \in Packet
    BY PeerAirFrame, AirAssumption
  <2>2. /\ OnAir(f.payload, f.seq).payload = f.payload
        /\ OnAir(f.payload, f.seq).stream = f.stream
        /\ OnAir(f.payload, f.seq).hdr = f.hdr
    BY PeerAirFrame DEF OnAir
  <2>3. QED BY <2>1, <2>2 DEF Peer!Received
<1>2. /\ PeerTx!Accepts(pkt) /\ PeerTx!PayloadOf(pkt) = f.payload
      /\ PeerTx!MetaOf(pkt) = [seq |-> f.seq, flags |-> 0, radio |-> radio]
  <2>1. PeerTx!SentIsAccepted
    BY PeerTx!InvAccepted, PeerAssumptions
  <2>2. PeerTx!Received(f, len, with_fcs, radio) = pkt
    BY DEF PeerTx!Received, Peer!Received, PeerTx!Fcs, Peer!Fcs, PeerTx!FCS_LEN, Peer!FCS_LEN,
           PeerTx!decode, Peer!decode, PeerTx!IEE80211_HEADER_LEN, Peer!IEE80211_HEADER_LEN,
           PeerTx!WFB_PLAINTEXT_HDR_LEN, Peer!WFB_PLAINTEXT_HDR_LEN
  <2>3. QED BY <2>1, <2>2 DEF PeerTx!SentIsAccepted
<1>3. Accepts(pkt)
  BY <1>2 DEF Accepts, PeerTx!Accepts, NoRadiotap, PeerTx!NoRadiotap, effective_len,
              PeerTx!effective_len, payload_start, PeerTx!payload_start, FCS_LEN, PeerTx!FCS_LEN,
              WFB_PROTO_VERSION, PeerTx!WFB_PROTO_VERSION,
              compute_max_payload, PeerTx!compute_max_payload,
              IEE80211_HEADER_LEN, PeerTx!IEE80211_HEADER_LEN,
              WFB_PLAINTEXT_HDR_LEN, PeerTx!WFB_PLAINTEXT_HDR_LEN
<1>4. PayloadOf(pkt) = f.payload /\ MetaOf(pkt).seq = f.seq
  BY <1>2 DEF PayloadOf, PeerTx!PayloadOf, MetaOf, PeerTx!MetaOf
<1>5. QED BY <1>1, <1>3, <1>4 DEF LineOf, FrameOf, SentLine

\* What the capture shows of this host's own frames is a packet, and one recv drops.
LEMMA OwnFrameRefused ==
  ASSUME OwnTx!TxInv, NEW i \in DOMAIN own_air, NEW len \in RadiotapLen, NEW radio \in Radio
  PROVE  LET pkt == GivenBack(Own!Received(own_air[i], len, FALSE, radio))
         IN  pkt \in Packet /\ ~Accepts(pkt)
<1> DEFINE f   == own_air[i]
           got == Own!Received(f, len, FALSE, radio)
<1>1. f \in OwnTx!SentFrame /\ f.hdr = OwnTx!encode(OwnTx!HeaderOf(f))
  BY DEF OwnTx!TxInv, OwnTx!AirType, OwnTx!HeadersAgree
<1>2. f.payload \in OwnPayload /\ OwnTx!Fits(f.payload) /\ f.seq \in U32 /\ f.stream = stream_id
  BY <1>1 DEF OwnTx!SentFrame
<1>3. Own!Fits(f.payload)
  BY <1>2 DEF Own!Fits, OwnTx!Fits, Own!compute_max_payload, OwnTx!compute_max_payload,
              Own!IEE80211_HEADER_LEN, OwnTx!IEE80211_HEADER_LEN,
              Own!WFB_PLAINTEXT_HDR_LEN, OwnTx!WFB_PLAINTEXT_HDR_LEN
<1>4. /\ OnAir(f.payload, f.seq).payload = f.payload
      /\ OnAir(f.payload, f.seq).stream = f.stream
      /\ OnAir(f.payload, f.seq).hdr = f.hdr
  BY <1>1, <1>2 DEF OnAir, OwnTx!HeaderOf, OwnTx!encode, encode, OwnTx!Low, Low, OwnTx!Rest, Rest,
                    OwnTx!WFB_PROTO_VERSION, WFB_PROTO_VERSION
<1>5. Own!Received(OnAir(f.payload, f.seq), len, FALSE, radio) = got
  BY <1>4 DEF Own!Received
<1>6. GivenBack(got) \in Packet
  BY <1>2, <1>3, <1>5, AirAssumption
<1>7. GivenBack(got).radiotap.self_injected = TRUE
  BY DEF GivenBack, Own!Received
<1>8. QED BY <1>6, <1>7, ExampleAssumption DEF Accepts

-----------------------------------------------------------------------------
(* Where the lines stand among the frames of the peer *)

\* The lines of a list are those of the first `gone` frames on the air, some of them,
\* in the order of the frames.
Placed(lines, air, gone) ==
  \E p \in [DOMAIN lines -> 1 .. gone] :
    /\ \A i \in DOMAIN lines : lines[i] = SentLine(air[p[i]])
    /\ \A i, j \in DOMAIN lines : i < j => p[i] < p[j]

\* Told already, then the frames that still wait.
Lines(told, waiting) ==
  [i \in 1 .. (Len(told) + Len(waiting)) |->
     IF i <= Len(told) THEN told[i] ELSE LineOf(waiting[i - Len(told)])]

\* More frames go past, and more are sent.
LEMMA PlacedGrows ==
  ASSUME NEW lines, NEW air, NEW air2, NEW m \in Nat, NEW n \in Nat,
         Placed(lines, air, m), m <= n, \A i \in 1 .. m : air2[i] = air[i]
  PROVE  Placed(lines, air2, n)
<1>1. PICK p \in [DOMAIN lines -> 1 .. m] :
        /\ \A i \in DOMAIN lines : lines[i] = SentLine(air[p[i]])
        /\ \A i, j \in DOMAIN lines : i < j => p[i] < p[j]
  BY DEF Placed
<1>2. p \in [DOMAIN lines -> 1 .. n]
  OBVIOUS
<1>3. \A i \in DOMAIN lines : lines[i] = SentLine(air2[p[i]])
  <2>1. ASSUME NEW i \in DOMAIN lines PROVE lines[i] = SentLine(air2[p[i]])
    <3>1. p[i] \in 1 .. m
      OBVIOUS
    <3>2. QED BY <1>1, <3>1
  <2>2. QED BY <2>1
<1>4. QED BY <1>1, <1>2, <1>3 DEF Placed

\* The frame that goes past now comes after them all.
LEMMA PlacedAppend ==
  ASSUME NEW n \in Nat, NEW m \in Nat, NEW air, NEW lines, NEW more,
         DOMAIN lines = 1 .. n, DOMAIN more = 1 .. (n + 1),
         \A i \in 1 .. n : more[i] = lines[i],
         more[n + 1] = SentLine(air[m + 1]),
         Placed(lines, air, m)
  PROVE  Placed(more, air, m + 1)
<1>1. PICK p \in [1 .. n -> 1 .. m] :
        /\ \A i \in 1 .. n : lines[i] = SentLine(air[p[i]])
        /\ \A i, j \in 1 .. n : i < j => p[i] < p[j]
  BY DEF Placed
<1> DEFINE q == [i \in 1 .. (n + 1) |-> IF i <= n THEN p[i] ELSE m + 1]
<1>2. \A i \in 1 .. n : p[i] \in 1 .. m /\ q[i] = p[i]
  OBVIOUS
<1>3. q[n + 1] = m + 1
  OBVIOUS
<1>4. \A i \in 1 .. (n + 1) : i \in 1 .. n \/ i = n + 1
  OBVIOUS
<1>5. q \in [1 .. (n + 1) -> 1 .. (m + 1)]
  BY <1>2
<1> HIDE DEF q
<1>6. \A i \in 1 .. (n + 1) : more[i] = SentLine(air[q[i]])
  BY <1>1, <1>2, <1>3, <1>4
<1>7. \A i, j \in 1 .. (n + 1) : i < j => q[i] < q[j]
  <2>1. ASSUME NEW i \in 1 .. (n + 1), NEW j \in 1 .. (n + 1), i < j PROVE q[i] < q[j]
    <3>1. i \in 1 .. n
      BY <2>1
    <3>2. CASE j \in 1 .. n
      BY <1>1, <1>2, <2>1, <3>1, <3>2
    <3>3. CASE j = n + 1
      BY <1>2, <1>3, <3>1, <3>3
    <3>4. QED BY <1>4, <3>2, <3>3
  <2>2. QED BY <2>1
<1>8. QED BY <1>5, <1>6, <1>7 DEF Placed

\* A line that is lost leaves the others where they are.
LEMMA PlacedRemove ==
  ASSUME NEW n \in Nat, NEW m \in Nat, NEW k \in 1 .. n, NEW air, NEW lines, NEW less,
         DOMAIN lines = 1 .. n, DOMAIN less = 1 .. (n - 1),
         \A i \in 1 .. (n - 1) : less[i] = IF i < k THEN lines[i] ELSE lines[i + 1],
         Placed(lines, air, m)
  PROVE  Placed(less, air, m)
<1>1. PICK p \in [1 .. n -> 1 .. m] :
        /\ \A i \in 1 .. n : lines[i] = SentLine(air[p[i]])
        /\ \A i, j \in 1 .. n : i < j => p[i] < p[j]
  BY DEF Placed
<1> DEFINE q == [i \in 1 .. (n - 1) |-> IF i < k THEN p[i] ELSE p[i + 1]]
<1>2. \A i \in 1 .. (n - 1) : i \in 1 .. n /\ i + 1 \in 1 .. n
  OBVIOUS
<1>3. \A i \in 1 .. (n - 1) : q[i] = IF i < k THEN p[i] ELSE p[i + 1]
  OBVIOUS
<1>4. q \in [1 .. (n - 1) -> 1 .. m]
  BY <1>2
<1> HIDE DEF q
<1>5. \A i \in 1 .. (n - 1) : less[i] = SentLine(air[q[i]])
  BY <1>1, <1>2, <1>3
<1>6. \A i, j \in 1 .. (n - 1) : i < j => q[i] < q[j]
  <2>1. ASSUME NEW i \in 1 .. (n - 1), NEW j \in 1 .. (n - 1), i < j PROVE q[i] < q[j]
    <3>1. q[i] = p[IF i < k THEN i ELSE i + 1] /\ q[j] = p[IF j < k THEN j ELSE j + 1]
      BY <1>3
    <3>2. (IF i < k THEN i ELSE i + 1) < (IF j < k THEN j ELSE j + 1)
      BY <2>1
    <3>3. QED BY <1>1, <1>2, <3>1, <3>2
  <2>2. QED BY <2>1
<1>7. QED BY <1>4, <1>5, <1>6 DEF Placed

\* The three steps of the queue, between what is told and what waits.
LEMMA LinesCapture ==
  ASSUME NEW told \in Seq(Line), NEW waiting \in Seq(Frame), NEW f \in Frame,
         NEW air, NEW m \in Nat, LineOf(f) = SentLine(air[m + 1]),
         Placed(Lines(told, waiting), air, m)
  PROVE  Placed(Lines(told, Append(waiting, f)), air, m + 1)
<1> DEFINE more == Lines(told, Append(waiting, f))
           n    == Len(told) + Len(waiting)
<1>1. /\ Len(told) \in Nat /\ Len(waiting) \in Nat /\ Len(Append(waiting, f)) = Len(waiting) + 1
      /\ \A i \in 1 .. Len(waiting) : Append(waiting, f)[i] = waiting[i]
      /\ Append(waiting, f)[Len(waiting) + 1] = f
  OBVIOUS
<1>2. DOMAIN Lines(told, waiting) = 1 .. n /\ DOMAIN more = 1 .. (n + 1)
  BY <1>1 DEF Lines
<1>3. \A i \in 1 .. n : more[i] = Lines(told, waiting)[i]
  <2>1. ASSUME NEW i \in 1 .. n, i > Len(told) PROVE more[i] = Lines(told, waiting)[i]
    <3>1. i - Len(told) \in 1 .. Len(waiting)
      BY <1>1, <2>1
    <3>2. Append(waiting, f)[i - Len(told)] = waiting[i - Len(told)]
      BY <1>1, <3>1
    <3>3. QED BY <1>1, <2>1, <3>2 DEF Lines
  <2>2. ASSUME NEW i \in 1 .. n, i <= Len(told) PROVE more[i] = Lines(told, waiting)[i]
    BY <1>1, <2>2 DEF Lines
  <2>3. QED BY <1>1, <2>1, <2>2
<1>4. more[n + 1] = LineOf(f)
  BY <1>1 DEF Lines
<1>5. n \in Nat
  BY <1>1
<1> HIDE DEF more, n
<1>6. Placed(more, air, m + 1)
  BY <1>2, <1>3, <1>4, <1>5, PlacedAppend
<1>7. QED BY <1>6 DEF more

\* What is left of a list without its element k.
LEMMA RemovedAt ==
  ASSUME NEW waiting \in Seq(Frame), NEW k \in 1 .. Len(waiting)
  PROVE  LET rest == Receiver!RemoveAt(waiting, k)
         IN  /\ Len(rest) = Len(waiting) - 1
             /\ \A i \in 1 .. (Len(waiting) - 1) :
                   rest[i] = IF i < k THEN waiting[i] ELSE waiting[i + 1]
<1> DEFINE rest == Receiver!RemoveAt(waiting, k)
<1>0. Len(waiting) \in Nat
  OBVIOUS
<1>1. rest = SubSeq(waiting, 1, k - 1) \o SubSeq(waiting, k + 1, Len(waiting))
  BY DEF Receiver!RemoveAt
<1> DEFINE front == SubSeq(waiting, 1, k - 1)
           back  == SubSeq(waiting, k + 1, Len(waiting))
<1>2. /\ front \in Seq(Frame) /\ Len(front) = k - 1
      /\ \A i \in 1 .. (k - 1) : front[i] = waiting[i]
  OBVIOUS
<1>3. /\ back \in Seq(Frame) /\ Len(back) = Len(waiting) - k
      /\ \A i \in 1 .. (Len(waiting) - k) : back[i] = waiting[i + k]
  OBVIOUS
<1> HIDE DEF front, back
<1>4. /\ Len(front \o back) = Len(front) + Len(back)
      /\ \A i \in 1 .. (Len(front) + Len(back)) :
            (front \o back)[i] = IF i <= Len(front) THEN front[i] ELSE back[i - Len(front)]
  BY <1>2, <1>3, ConcatProperties
<1>5. rest = front \o back
  BY <1>1 DEF front, back
<1>6. ASSUME NEW i \in 1 .. (Len(waiting) - 1), i >= k
      PROVE  rest[i] = waiting[i + 1]
  <2>1. i - Len(front) \in 1 .. (Len(waiting) - k) /\ (i - Len(front)) + k = i + 1
    BY <1>2, <1>6
  <2>2. back[i - Len(front)] = waiting[i + 1]
    BY <1>3, <2>1
  <2>3. QED BY <1>2, <1>3, <1>4, <1>5, <1>6, <2>2
<1> HIDE DEF rest
<1>7. ASSUME NEW i \in 1 .. (Len(waiting) - 1), i < k
      PROVE  rest[i] = waiting[i]
  BY <1>2, <1>3, <1>4, <1>5, <1>7
<1>8. Len(rest) = Len(waiting) - 1
  <2>1. Len(rest) = (k - 1) + (Len(waiting) - k)
    BY <1>2, <1>3, <1>4, <1>5
  <2>2. QED BY <1>0, <2>1
<1>9. \A i \in 1 .. (Len(waiting) - 1) :
         rest[i] = IF i < k THEN waiting[i] ELSE waiting[i + 1]
  BY <1>0, <1>6, <1>7
<1>10. QED BY <1>8, <1>9 DEF rest

LEMMA LinesLose ==
  ASSUME NEW told \in Seq(Line), NEW waiting \in Seq(Frame), NEW k \in 1 .. Len(waiting),
         NEW air, NEW m \in Nat, Placed(Lines(told, waiting), air, m)
  PROVE  Placed(Lines(told, Receiver!RemoveAt(waiting, k)), air, m)
<1> DEFINE rest == Receiver!RemoveAt(waiting, k)
           less == Lines(told, rest)
           n    == Len(told) + Len(waiting)
<1>1. Len(told) \in Nat /\ Len(waiting) \in Nat
  OBVIOUS
<1>2. /\ Len(rest) = Len(waiting) - 1
      /\ \A i \in 1 .. (Len(waiting) - 1) :
            rest[i] = IF i < k THEN waiting[i] ELSE waiting[i + 1]
  BY RemovedAt
<1>3. DOMAIN Lines(told, waiting) = 1 .. n /\ DOMAIN less = 1 .. (n - 1)
  BY <1>1, <1>2 DEF Lines
<1>4. \A i \in 1 .. (n - 1) :
        less[i] = IF i < Len(told) + k THEN Lines(told, waiting)[i]
                                       ELSE Lines(told, waiting)[i + 1]
  <2> HIDE DEF rest
  <2>1. ASSUME NEW i \in 1 .. (n - 1), i <= Len(told)
        PROVE  less[i] = Lines(told, waiting)[i] /\ i < Len(told) + k
    BY <1>1, <1>2, <2>1 DEF Lines
  <2>2. ASSUME NEW i \in 1 .. (n - 1), i > Len(told)
        PROVE  less[i] = IF i < Len(told) + k THEN Lines(told, waiting)[i]
                                              ELSE Lines(told, waiting)[i + 1]
    <3>1. i - Len(told) \in 1 .. (Len(waiting) - 1) /\ (i + 1) - Len(told) = (i - Len(told)) + 1
      BY <1>1, <2>2
    <3>2. rest[i - Len(told)] = IF i - Len(told) < k THEN waiting[i - Len(told)]
                                                     ELSE waiting[(i + 1) - Len(told)]
      BY <1>2, <3>1
    <3>3. less[i] = LineOf(rest[i - Len(told)])
      BY <1>1, <1>2, <2>2 DEF Lines
    <3>4. /\ Lines(told, waiting)[i] = LineOf(waiting[i - Len(told)])
          /\ Lines(told, waiting)[i + 1] = LineOf(waiting[(i + 1) - Len(told)])
      BY <1>1, <2>2 DEF Lines
    <3>5. i < Len(told) + k <=> i - Len(told) < k
      BY <1>1
    <3>6. QED BY <3>2, <3>3, <3>4, <3>5
  <2>3. QED BY <1>1, <2>1, <2>2
<1>5. n \in Nat /\ Len(told) + k \in 1 .. n
  BY <1>1
<1> HIDE DEF less, n, rest
<1>6. Placed(less, air, m)
  BY <1>3, <1>4, <1>5, PlacedRemove
<1>7. QED BY <1>6 DEF less, rest

LEMMA LinesTake ==
  ASSUME NEW told \in Seq(Line), NEW waiting \in Seq(Frame), waiting # <<>>,
         LineOf(Head(waiting)) \in Line
  PROVE  Lines(Append(told, LineOf(Head(waiting))), Tail(waiting)) = Lines(told, waiting)
<1> DEFINE line  == LineOf(Head(waiting))
           after == Lines(Append(told, line), Tail(waiting))
<1>1. /\ Len(told) \in Nat /\ Len(Append(told, line)) = Len(told) + 1
      /\ Len(waiting) \in Nat /\ Len(waiting) > 0 /\ Len(Tail(waiting)) = Len(waiting) - 1
      /\ \A i \in 1 .. Len(told) : Append(told, line)[i] = told[i]
      /\ Append(told, line)[Len(told) + 1] = line
      /\ \A i \in 1 .. (Len(waiting) - 1) : Tail(waiting)[i] = waiting[i + 1]
      /\ Head(waiting) = waiting[1]
  OBVIOUS
<1> DEFINE n == Len(told) + Len(waiting)
<1>2. /\ after = [i \in 1 .. n |-> after[i]]
      /\ Lines(told, waiting) = [i \in 1 .. n |-> Lines(told, waiting)[i]]
  BY <1>1 DEF Lines
<1>3. ASSUME NEW i \in 1 .. n PROVE after[i] = Lines(told, waiting)[i]
  <2>1. CASE i <= Len(told)
    BY <1>1, <2>1 DEF Lines
  <2>2. CASE i = Len(told) + 1
    <3>1. i - Len(told) = 1
      BY <1>1, <2>2
    <3>2. after[i] = line
      BY <1>1, <2>2 DEF Lines
    <3>3. Lines(told, waiting)[i] = LineOf(waiting[1])
      BY <1>1, <2>2, <3>1 DEF Lines
    <3>4. QED BY <1>1, <3>2, <3>3
  <2>3. CASE i > Len(told) + 1
    <3>1. i - (Len(told) + 1) \in 1 .. (Len(waiting) - 1)
          /\ (i - (Len(told) + 1)) + 1 = i - Len(told)
      BY <1>1, <2>3
    <3>2. after[i] = LineOf(Tail(waiting)[i - (Len(told) + 1)])
      BY <1>1, <2>3 DEF Lines
    <3>3. Tail(waiting)[i - (Len(told) + 1)] = waiting[i - Len(told)]
      BY <1>1, <3>1
    <3>4. Lines(told, waiting)[i] = LineOf(waiting[i - Len(told)])
      BY <1>1, <2>3 DEF Lines
    <3>5. QED BY <3>2, <3>3, <3>4
  <2>4. QED BY <1>1, <2>1, <2>2, <2>3
<1> HIDE DEF after, n
<1>4. after = Lines(told, waiting)
  BY <1>2, <1>3
<1>5. QED BY <1>4 DEF after

-----------------------------------------------------------------------------
(* The inductive invariant *)

\* What the reading thread has been told: what it printed, and the frame it holds.
Told == IF reader = "recv" /\ result = "frame"
        THEN Append(heard, [seq |-> popped.meta.seq, payload |-> popped.buf])
        ELSE heard

Programs ==
  /\ peer_seq \in U32 /\ own_seq \in U32
  /\ peer_past \in 0 .. Len(peer_air) /\ own_past \in 0 .. Len(own_air)
  /\ main \in {"lines", "join", "ended"}
  /\ reader \in {"call", "recv", "stopped"}
  /\ pc # "idle" => reader = "recv"

\* What is told, and then what waits in the ring and in the capture buffer, are lines
\* of the frames that have gone past, in their order.
InOrder ==
  /\ heard \in Seq(Line) /\ Told \in Seq(Line)
  /\ Placed(Lines(Told, pending), peer_air, peer_past)

LinkInv == ReceiverInv /\ PeerTx!TxInv /\ OwnTx!TxInv /\ Programs /\ InOrder

LEMMA WaitingType == ASSUME LinkInv PROVE pending \in Seq(Frame) /\ peer_past \in Nat
<1>1. pending \in Seq(Frame)
  BY PendingType DEF LinkInv
<1>2. Len(peer_air) \in Nat
  BY DEF LinkInv, PeerTx!TxInv, PeerTx!AirType
<1>3. QED BY <1>1, <1>2 DEF LinkInv, Programs

LEMMA FirstLine ==
  ASSUME LinkInv, pending # <<>>
  PROVE  LineOf(Head(pending)) \in Line
<1>1. Told \in Seq(Line) /\ pending \in Seq(Frame) /\ peer_past \in Nat
  BY WaitingType DEF LinkInv, InOrder
<1> DEFINE n == Len(Told) + 1
<1>2. /\ Len(Told) \in Nat /\ Len(pending) \in Nat /\ Len(pending) > 0 /\ n - Len(Told) = 1
      /\ Head(pending) = pending[1]
  BY <1>1
<1>3. n \in DOMAIN Lines(Told, pending) /\ Lines(Told, pending)[n] = LineOf(Head(pending))
  BY <1>2 DEF Lines
<1>4. PICK p \in [DOMAIN Lines(Told, pending) -> 1 .. peer_past] :
        \A i \in DOMAIN Lines(Told, pending) : Lines(Told, pending)[i] = SentLine(peer_air[p[i]])
  BY DEF LinkInv, InOrder, Placed
<1>5. p[n] \in DOMAIN peer_air
  <2>1. peer_past \in 0 .. Len(peer_air) /\ Len(peer_air) \in Nat
        /\ DOMAIN peer_air = 1 .. Len(peer_air)
    BY DEF LinkInv, Programs, PeerTx!TxInv, PeerTx!AirType
  <2>2. p[n] \in 1 .. peer_past
    BY <1>3, <1>4
  <2>3. QED BY <2>1, <2>2
<1>6. SentLine(peer_air[p[n]]) \in Line
  BY <1>5, PeerAirFrame DEF LinkInv
<1>7. QED BY <1>3, <1>4, <1>6

\* A step that neither tells, loses nor captures.
LEMMA OrderKept ==
  ASSUME LinkInv, Told' = Told, pending' = pending, UNCHANGED peer_past,
         heard' = heard \/ heard' = Told,
         \A i \in DOMAIN peer_air : peer_air'[i] = peer_air[i]
  PROVE  InOrder'
<1>1. peer_past \in Nat /\ \A i \in 1 .. peer_past : peer_air'[i] = peer_air[i]
  <2>1. peer_past \in 0 .. Len(peer_air) /\ Len(peer_air) \in Nat
        /\ DOMAIN peer_air = 1 .. Len(peer_air)
    BY DEF LinkInv, Programs, PeerTx!TxInv, PeerTx!AirType
  <2>2. QED BY <2>1
<1>2. Placed(Lines(Told, pending), peer_air', peer_past)
  <2>1. Placed(Lines(Told, pending), peer_air, peer_past) /\ peer_past <= peer_past
    BY <1>1 DEF LinkInv, InOrder
  <2>2. QED BY ONLY <1>1, <2>1, PlacedGrows
<1>3. QED BY <1>2 DEF LinkInv, InOrder

LEMMA PendingKept == ASSUME UNCHANGED <<ringVars, kbuf>> PROVE pending' = pending /\ popped' = popped
BY RingQueueKept DEF pending, Captured

\* recv returns the oldest frame that waits, whole.
LEMMA OrderTold ==
  ASSUME LinkInv, Told = heard, NEW n \in BufLen, pop_one(n), UNCHANGED kbuf,
         reader' = "recv", result' = "frame",
         UNCHANGED <<heard, peer_past, peer_air>>
  PROVE  InOrder'
<1>1. Receiver!Ring!Take(n)
  BY PopTakesPending DEF LinkInv
<1>2. /\ pending # <<>> /\ pending' = Tail(pending)
      /\ popped' = Receiver!Ring!Cut(Head(pending), n)
  BY <1>1 DEF Receiver!Ring!Take, pending
<1>3. Told \in Seq(Line) /\ pending \in Seq(Frame) /\ LineOf(Head(pending)) \in Line
  BY <1>2, WaitingType, FirstLine DEF LinkInv, InOrder
<1>4. popped'.buf = Head(pending).payload /\ popped'.meta = Head(pending).meta
  <2>1. Head(pending) \in Frame
    BY <1>2, <1>3
  <2>2. /\ Head(pending).payload \in Payload /\ max_payload \in Nat
        /\ n \in Nat /\ n >= max_payload
    BY <2>1, RingAssumption, ExampleAssumption, MaxPayloadType DEF Frame
  <2>3. /\ Head(pending).payload \in Seq(Byte) /\ Len(Head(pending).payload) <= max_payload
    BY <2>2 DEF Payload, BoundedSeq, SeqOf
  <2>4. popped'.buf = [i \in 1 .. Len(Head(pending).payload) |-> Head(pending).payload[i]]
    BY <1>2, <2>2, <2>3 DEF Receiver!Ring!Cut
  <2>5. popped'.meta = Head(pending).meta
    BY <1>2 DEF Receiver!Ring!Cut
  <2>6. ASSUME NEW s \in Seq(Byte) PROVE s = [i \in 1 .. Len(s) |-> s[i]]
    OBVIOUS
  <2>7. QED BY <2>3, <2>4, <2>5, <2>6
<1>5. Told' = Append(Told, LineOf(Head(pending)))
  BY <1>4 DEF Told, LineOf
<1>6. Lines(Told', pending') = Lines(Told, pending)
  BY <1>2, <1>3, <1>5, LinesTake
<1>7. QED BY <1>3, <1>5, <1>6 DEF LinkInv, InOrder

\* A drain moves a frame from the capture buffer to the ring, or loses it there.
LEMMA OrderDrained ==
  ASSUME LinkInv, DrainOne, UNCHANGED <<reader, heard, peer_past, peer_air>>
  PROVE  InOrder'
<1>1. Told = heard /\ Told' = heard
  BY DEF LinkInv, ReceiverInv, CallInv, DrainOne, Told
<1>2. CASE pending' = pending
  BY <1>1, <1>2, OrderKept
<1>3. ASSUME NEW k \in 1 .. Len(pending), Receiver!Lose(k) PROVE InOrder'
  <2>1. pending' = Receiver!RemoveAt(pending, k)
    BY <1>3 DEF Receiver!Lose, pending
  <2>2. Placed(Lines(Told, Receiver!RemoveAt(pending, k)), peer_air, peer_past)
    <3>1. /\ Told \in Seq(Line) /\ pending \in Seq(Frame) /\ peer_past \in Nat
          /\ Placed(Lines(Told, pending), peer_air, peer_past)
      BY WaitingType DEF LinkInv, InOrder
    <3>2. QED BY ONLY <3>1, k \in 1 .. Len(pending), LinesLose
  <2>3. QED BY <1>1, <2>1, <2>2 DEF LinkInv, InOrder
<1>4. QED BY <1>2, <1>3, DrainMovesOrLoses DEF LinkInv

LEMMA LinkInitInv == LinkInit => LinkInv
<1>1. SUFFICES ASSUME LinkInit PROVE LinkInv
  OBVIOUS
<1>2. ReceiverInv /\ PeerTx!TxInv /\ OwnTx!TxInv
  BY <1>1, InitReceiverInv, PeerInit, OwnInit DEF LinkInit
<1>3. peer_air = <<>> /\ own_air = <<>>
  BY <1>1 DEF LinkInit, Peer!TxInit, Own!TxInit
<1>4. Programs
  <2>1. 1 \in U32
    <3>1. ByteValues \in Nat /\ ByteValues > 1
      BY HeaderAssumption
    <3>2. ByteValues * ByteValues \in Nat /\ ByteValues * ByteValues > 1
      BY <3>1
    <3>3. ByteValues * ByteValues * ByteValues \in Nat /\ ByteValues * ByteValues * ByteValues > 1
      BY <3>1, <3>2
    <3>4. QED BY <3>1, <3>3 DEF U32
  <2>2. QED BY <1>1, <1>3, <2>1 DEF LinkInit, Init, Programs
<1>5. pending = <<>>
  <2>1. Init
    BY <1>1 DEF LinkInit
  <2>2. QED BY <2>1, InitPending
<1>6. Told = <<>>
  BY <1>1 DEF LinkInit, Told
<1>7. InOrder
  <2> heard = <<>>
    BY <1>1 DEF LinkInit
  <2>1. DOMAIN Lines(Told, pending) = {}
    BY <1>5, <1>6 DEF Lines
  <2>2. PICK p : p = [i \in {} |-> 0]
    OBVIOUS
  <2>3. p \in [DOMAIN Lines(Told, pending) -> 1 .. peer_past]
    BY <2>1, <2>2
  <2>4. Placed(Lines(Told, pending), peer_air, peer_past)
    BY <2>1, <2>3 DEF Placed
  <2>5. <<>> \in Seq(Line)
    OBVIOUS
  <2>6. QED BY <1>6, <2>4, <2>5 DEF InOrder
<1>8. QED BY <1>2, <1>4, <1>7 DEF LinkInv

-----------------------------------------------------------------------------
(* The steps *)

LEMMA NextPacketType == ASSUME NEW seq \in U32 PROVE NextPacket(seq) \in U32
<1>1. ByteValues \in Nat /\ ByteValues > 1
  BY HeaderAssumption
<1> DEFINE all == ByteValues * ByteValues * ByteValues * ByteValues
<1>2. all \in Nat /\ all > 0
  <2>1. ByteValues * ByteValues \in Nat /\ ByteValues * ByteValues > 0
    BY <1>1
  <2>2. ByteValues * ByteValues * ByteValues \in Nat /\ ByteValues * ByteValues * ByteValues > 0
    BY <1>1, <2>1
  <2>3. QED BY <1>1, <2>2
<1>3. seq \in 0 .. (all - 1)
  BY DEF U32
<1>4. (seq + 1) % all \in 0 .. (all - 1)
  <2> HIDE DEF all
  <2>1. QED BY <1>2, <1>3
<1>5. QED BY <1>4 DEF U32, NextPacket

\* A step that leaves the receiver, the frames that have gone past and what is
\* printed alone, with the reading thread where it was.
LEMMA ReceiverRests ==
  ASSUME LinkInv, UNCHANGED <<vars, past, reader, heard>>,
         \A i \in DOMAIN peer_air : peer_air'[i] = peer_air[i]
  PROVE  ReceiverInv' /\ InOrder' /\ pc' = pc
<1>1. ReceiverInv' /\ pc' = pc
  BY ReceiverStep DEF LinkInv, vars
<1>2. pending' = pending /\ popped' = popped
  BY PendingKept DEF vars, world
<1>3. Told' = Told
  BY <1>2 DEF Told, vars
<1>4. QED BY <1>1, <1>2, <1>3, OrderKept DEF past

LEMMA AppendKeeps ==
  ASSUME NEW S, NEW s \in Seq(S), NEW e
  PROVE  /\ Len(Append(s, e)) = Len(s) + 1 /\ Len(s) \in Nat
         /\ \A i \in DOMAIN s : Append(s, e)[i] = s[i]
OBVIOUS

LEMMA PeerSendsInv ==
  ASSUME LinkInv, NEW line \in CallPayload, PeerSends(line)
  PROVE  LinkInv'
<1>1. peer_seq \in U32 /\ peer_air \in Seq(PeerTx!SentFrame)
  BY DEF LinkInv, Programs, PeerTx!TxInv, PeerTx!AirType
<1>2. PeerTx!TxInv' /\ OwnTx!TxInv'
  BY <1>1, PeerSteps, OwnRests DEF PeerSends, LinkInv, ownTx
<1>3. Len(peer_air) \in Nat /\ Len(peer_air') \in Nat /\ Len(peer_air) <= Len(peer_air')
      /\ \A i \in DOMAIN peer_air : peer_air'[i] = peer_air[i]
  <2>1. \/ \E f : peer_air' = Append(peer_air, f)
        \/ peer_air' = peer_air
    BY DEF PeerSends, Peer!SendOk, Peer!SendFails, Peer!SendTooLarge
  <2>2. QED BY <1>1, <2>1, AppendKeeps
<1>4. ReceiverInv' /\ InOrder' /\ pc' = pc
  BY <1>3, ReceiverRests DEF PeerSends, program
<1>5. Programs'
  <2>1. peer_seq' \in U32
    BY <1>1, NextPacketType DEF PeerSends
  <2>2. peer_past' \in 0 .. Len(peer_air')
    BY <1>3 DEF PeerSends, past, LinkInv, Programs
  <2>3. QED BY <1>4, <2>1, <2>2 DEF PeerSends, past, ownTx, program, LinkInv, Programs
<1>6. QED BY <1>2, <1>4, <1>5 DEF LinkInv

LEMMA OwnSendsInv ==
  ASSUME LinkInv, NEW line \in OwnPayload, OwnSends(line) \/ OwnSendFails(line)
  PROVE  LinkInv'
<1>1. own_seq \in U32 /\ own_air \in Seq(OwnTx!SentFrame)
  BY DEF LinkInv, Programs, OwnTx!TxInv, OwnTx!AirType
<1>2. UNCHANGED <<vars, peerTx, past, reader, heard>>
  BY DEF OwnSends, OwnSendFails, program
<1>3. PeerTx!TxInv' /\ OwnTx!TxInv'
  BY <1>1, <1>2, OwnSteps, PeerRests DEF OwnSends, OwnSendFails, LinkInv
<1>4. Len(own_air) \in Nat /\ Len(own_air') \in Nat /\ Len(own_air) <= Len(own_air')
  <2>1. \/ \E f : own_air' = Append(own_air, f)
        \/ own_air' = own_air
    BY DEF OwnSends, OwnSendFails, Own!SendOk, Own!SendFails, Own!SendTooLarge
  <2>2. QED BY <1>1, <2>1, AppendKeeps
<1>5. ReceiverInv' /\ InOrder' /\ pc' = pc
  BY <1>2, ReceiverRests DEF peerTx
<1>6. Programs'
  <2>1. own_seq' \in U32
    BY <1>1, NextPacketType DEF OwnSends, OwnSendFails
  <2>2. own_past' \in 0 .. Len(own_air')
    BY <1>2, <1>4 DEF past, LinkInv, Programs
  <2>3. main' \in {"lines", "join", "ended"}
    BY DEF OwnSends, OwnSendFails, program, LinkInv, Programs
  <2>4. QED BY <1>2, <1>5, <2>1, <2>2, <2>3 DEF past, peerTx, LinkInv, Programs
<1>7. QED BY <1>3, <1>5, <1>6 DEF LinkInv

\* Steps in which no host sends.
LEMMA HostsRest ==
  ASSUME LinkInv, UNCHANGED <<peerTx, ownTx>>
  PROVE  /\ PeerTx!TxInv' /\ OwnTx!TxInv'
         /\ UNCHANGED <<peer_air, own_air, peer_seq, own_seq>>
BY PeerRests, OwnRests DEF LinkInv, peerTx, ownTx

LEMMA MainInv == ASSUME LinkInv, InputEnds \/ JoinReturns PROVE LinkInv'
<1>1. UNCHANGED <<vars, peerTx, ownTx, past, reader, heard>> /\ main' \in {"lines", "join", "ended"}
  BY DEF InputEnds, JoinReturns
<1>2. PeerTx!TxInv' /\ OwnTx!TxInv' /\ UNCHANGED <<peer_air, own_air, peer_seq, own_seq>>
  BY <1>1, HostsRest
<1>3. ReceiverInv' /\ InOrder' /\ pc' = pc
  BY <1>1, <1>2, ReceiverRests
<1>4. Programs'
  BY <1>1, <1>2, <1>3 DEF past, LinkInv, Programs
<1>5. QED BY <1>2, <1>3, <1>4 DEF LinkInv

\* What is left to show of a step of the reading thread and of the world.
LEMMA ReaderInv ==
  ASSUME LinkInv, [Next]_vars, UNCHANGED <<peerTx, ownTx, past, main>>,
         reader' \in {"call", "recv", "stopped"}, pc' # "idle" => reader' = "recv", InOrder'
  PROVE  LinkInv'
<1>1. PeerTx!TxInv' /\ OwnTx!TxInv' /\ UNCHANGED <<peer_air, own_air, peer_seq, own_seq>>
  BY HostsRest
<1>2. ReceiverInv'
  BY ReceiverStep DEF LinkInv
<1>3. Programs'
  BY <1>1 DEF past, LinkInv, Programs
<1>4. QED BY <1>1, <1>2, <1>3 DEF LinkInv

LEMMA ReaderCallsInv == ASSUME LinkInv, ReaderCalls PROVE LinkInv'
<1>1. PICK n \in BufLen, t \in Timeouts : Recv(n, t)
  BY DEF ReaderCalls
<1>2. [Next]_vars
  BY <1>1 DEF Next
<1>3. UNCHANGED <<peerTx, ownTx, past, main, heard>> /\ reader' = "recv" /\ Told = heard
  BY DEF ReaderCalls, Told
<1>4. UNCHANGED <<peer_past, peer_air>>
  BY <1>3 DEF past, peerTx
<1>5. CASE RecvTakes(n)
  <2>1. pop_one(n) /\ UNCHANGED kbuf /\ result' = "frame"
    BY <1>5 DEF RecvTakes, Return, world
  <2>2. InOrder'
    BY <1>3, <1>4, <2>1, OrderTold
  <2>3. QED BY <1>2, <1>3, <2>2, ReaderInv
<1>6. CASE RecvStarts(n, t)
  <2>1. UNCHANGED <<ringVars, kbuf>> /\ result' = "none"
    BY <1>6 DEF RecvStarts, world
  <2>2. pending' = pending /\ Told' = Told
    BY <1>3, <2>1, PendingKept DEF Told
  <2>3. InOrder'
    BY <1>3, <1>4, <2>2, OrderKept
  <2>4. QED BY <1>2, <1>3, <2>3, ReaderInv
<1>7. QED BY <1>1, <1>5, <1>6 DEF Recv

LEMMA ReaderRecvsInv == ASSUME LinkInv, ReaderRecvs \/ ReaderInterrupted PROVE LinkInv'
<1>1. /\ pc # "idle" /\ reader = "recv" /\ result = "none" /\ Told = heard
      /\ UNCHANGED <<peerTx, ownTx, past, main, reader, heard, peer_past, peer_air>>
  <2>1. pc # "idle"
    BY DEF ReaderRecvs, ReaderInterrupted, RecvStep, LoopTakes, LoopTimesOut, LoopReads, LoopPolls,
           PollReady, PollTimeout, DrainOne, DrainStop, PollInterrupted, PollFails
  <2>2. UNCHANGED <<peerTx, ownTx, past, main, reader, heard, peer_past, peer_air>>
    BY DEF ReaderRecvs, ReaderInterrupted, program, past, peerTx
  <2>3. QED BY <2>1, <2>2 DEF LinkInv, Programs, ReceiverInv, CallInv, Told
<1>2. [Next]_vars
  BY DEF ReaderRecvs, ReaderInterrupted, Next
<1>3. CASE LoopTakes
  <2>1. /\ buf_len \in BufLen /\ pop_one(buf_len) /\ UNCHANGED kbuf /\ result' = "frame"
    BY <1>3 DEF LoopTakes, Return, world, LinkInv, ReceiverInv, CallInv
  <2>2. InOrder'
    BY <1>1, <2>1, OrderTold
  <2>3. QED BY <1>1, <1>2, <2>2, ReaderInv
<1>4. CASE DrainOne
  <2>1. InOrder'
    BY <1>1, <1>4, OrderDrained
  <2>2. QED BY <1>1, <1>2, <2>1, ReaderInv
<1>5. CASE \/ LoopTimesOut \/ LoopReads \/ LoopPolls \/ PollReady \/ PollTimeout \/ DrainStop
           \/ PollInterrupted \/ PollFails
  <2>1. UNCHANGED <<ringVars, kbuf>> /\ result' # "frame"
    BY <1>1, <1>5 DEF LoopTimesOut, LoopReads, LoopPolls, PollReady, PollEnds, PollTimeout,
                      DrainStop, PollInterrupted, PollFails, Return, world
  <2>2. pending' = pending /\ Told' = Told
    BY <1>1, <2>1, PendingKept DEF Told
  <2>3. InOrder'
    BY <1>1, <2>2, OrderKept
  <2>4. QED BY <1>1, <1>2, <2>3, ReaderInv
<1>6. QED BY <1>3, <1>4, <1>5 DEF ReaderRecvs, ReaderInterrupted, RecvStep

\* Between two calls: the thread prints the frame it holds, goes on after a timeout, or ends.
LEMMA ReaderBetweenInv ==
  ASSUME LinkInv, ReaderPrints \/ ReaderContinues \/ ReaderBreaks
  PROVE  LinkInv'
<1>1. /\ UNCHANGED <<vars, peerTx, ownTx, past, main>> /\ reader' \in {"call", "stopped"}
      /\ pc' = pc /\ pc = "idle"
  BY DEF ReaderPrints, ReaderContinues, ReaderBreaks, vars, LinkInv, ReceiverInv, CallInv
<1>2. Told' = Told /\ (heard' = heard \/ heard' = Told)
  BY DEF ReaderPrints, ReaderContinues, ReaderBreaks, Told
<1>3. pending' = pending /\ UNCHANGED <<peer_past, peer_air>>
  BY <1>1, PendingKept DEF vars, world, past, peerTx
<1>4. InOrder'
  BY <1>2, <1>3, OrderKept
<1>5. QED BY <1>1, <1>4, ReaderInv

LEMMA LinkWorldInv == ASSUME LinkInv, LinkWorld PROVE LinkInv'
<1>1. [Next]_vars /\ UNCHANGED <<ringVars, kbuf, pc, result>>
  BY DEF LinkWorld, Next, InterfaceGone, Tick, world
<1>2. UNCHANGED <<peerTx, ownTx, past, main, reader, heard, peer_past, peer_air>>
  BY DEF LinkWorld, program, past, peerTx
<1>3. pending' = pending /\ Told' = Told
  BY <1>1, <1>2, PendingKept DEF Told
<1>4. InOrder'
  BY <1>2, <1>3, OrderKept
<1>5. QED BY <1>1, <1>2, <1>4, ReaderInv DEF LinkInv, Programs

\* What is left to show of a step in which a frame goes past.
LEMMA PassesInv ==
  ASSUME LinkInv, [Next]_vars, UNCHANGED <<peerTx, ownTx, program, pc>>,
         peer_past' \in 0 .. Len(peer_air), own_past' \in 0 .. Len(own_air), InOrder'
  PROVE  LinkInv'
<1>1. PeerTx!TxInv' /\ OwnTx!TxInv' /\ UNCHANGED <<peer_air, own_air, peer_seq, own_seq>>
  BY HostsRest
<1>2. ReceiverInv'
  BY ReceiverStep DEF LinkInv
<1>3. Programs'
  BY <1>1 DEF program, LinkInv, Programs
<1>4. QED BY <1>1, <1>2, <1>3 DEF LinkInv

\* A frame of the peer goes past: its line will be told after all the others, or never.
LEMMA PeerFramePassesInv == ASSUME LinkInv, PeerFramePasses PROVE LinkInv'
<1>1. /\ Len(peer_air) \in Nat /\ peer_past \in Nat /\ peer_past + 1 \in DOMAIN peer_air
      /\ peer_past' = peer_past + 1 /\ peer_past' \in 0 .. Len(peer_air)
      /\ UNCHANGED <<peerTx, ownTx, program, own_past, peer_air, reader, heard>>
  <2>1. Len(peer_air) \in Nat /\ DOMAIN peer_air = 1 .. Len(peer_air) /\ peer_past \in 0 .. Len(peer_air)
    BY DEF LinkInv, Programs, PeerTx!TxInv, PeerTx!AirType
  <2>2. QED BY <2>1 DEF PeerFramePasses, program, peerTx
<1>2. own_past' \in 0 .. Len(own_air)
  BY <1>1 DEF LinkInv, Programs
<1>3. /\ heard \in Seq(Line) /\ Told \in Seq(Line) /\ pending \in Seq(Frame)
      /\ Placed(Lines(Told, pending), peer_air, peer_past)
  BY WaitingType DEF LinkInv, InOrder
<1>4. ASSUME pending' = pending, Told' = Told PROVE InOrder'
  <2>1. peer_past <= peer_past + 1 /\ peer_past + 1 \in Nat
        /\ \A i \in 1 .. peer_past : peer_air[i] = peer_air[i]
    BY <1>1
  <2>2. Placed(Lines(Told, pending), peer_air, peer_past + 1)
    BY ONLY <1>1, <1>3, <2>1, PlacedGrows
  <2>3. QED BY <1>1, <1>3, <1>4, <2>2 DEF InOrder
<1>5. CASE UNCHANGED vars
  <2>1. pending' = pending /\ Told' = Told /\ pc' = pc
    BY <1>1, <1>5, PendingKept DEF Told, vars, world
  <2>2. QED BY <1>1, <1>2, <1>4, <1>5, <2>1, PassesInv
<1>6. ASSUME NEW len \in RadiotapLen, NEW with_fcs \in BOOLEAN, NEW radio \in Radio,
             Arrive(PeerFrame(len, with_fcs, radio))
      PROVE  LinkInv'
  <2> DEFINE pkt == PeerFrame(len, with_fcs, radio)
  <2>1. /\ pkt \in Packet /\ Accepts(pkt)
        /\ LineOf(FrameOf(pkt)) = SentLine(peer_air[peer_past + 1])
    BY <1>1, PeerFrameAccepted DEF LinkInv, PeerFrame
  <2> HIDE DEF pkt
  <2>2. Arrive(pkt)
    BY <1>6 DEF pkt
  <2>3. [Next]_vars
    BY <2>1, <2>2 DEF Next
  <2>4. kbuf' = Append(kbuf, pkt) /\ UNCHANGED <<ringVars, pc, result>>
    BY <2>2 DEF Arrive
  <2>5. Receiver!Capture(FrameOf(pkt)) /\ FrameOf(pkt) \in Frame
    BY <2>1, <2>4, ArriveIsCapture DEF LinkInv
  <2>6. pending' = Append(pending, FrameOf(pkt)) /\ Told' = Told
    BY <1>1, <2>4, <2>5 DEF Receiver!Capture, pending, Told
  <2>7. Placed(Lines(Told, Append(pending, FrameOf(pkt))), peer_air, peer_past + 1)
    BY ONLY <1>1, <1>3, <2>1, <2>5, LinesCapture
  <2>8. InOrder'
    BY <1>1, <1>3, <2>6, <2>7 DEF InOrder
  <2>9. QED BY <1>1, <1>2, <2>3, <2>4, <2>8, PassesInv
<1>7. QED BY <1>5, <1>6 DEF PeerFramePasses

\* A frame of this host goes past, and nobody is told.
LEMMA OwnFramePassesInv == ASSUME LinkInv, OwnFramePasses PROVE LinkInv'
<1>1. /\ own_past + 1 \in DOMAIN own_air /\ own_past' \in 0 .. Len(own_air)
      /\ UNCHANGED <<peerTx, ownTx, program, peer_past, peer_air, reader, heard>>
  <2>1. Len(own_air) \in Nat /\ DOMAIN own_air = 1 .. Len(own_air) /\ own_past \in 0 .. Len(own_air)
    BY DEF LinkInv, Programs, OwnTx!TxInv, OwnTx!AirType
  <2>2. QED BY <2>1 DEF OwnFramePasses, program, peerTx
<1>2. peer_past' \in 0 .. Len(peer_air)
  BY <1>1 DEF LinkInv, Programs
<1>3. CASE UNCHANGED vars
  <2>1. pending' = pending /\ Told' = Told /\ pc' = pc
    BY <1>1, <1>3, PendingKept DEF Told, vars, world
  <2>2. InOrder'
    BY <1>1, <2>1, OrderKept
  <2>3. QED BY <1>1, <1>2, <1>3, <2>1, <2>2, PassesInv
<1>4. ASSUME NEW len \in RadiotapLen, NEW radio \in Radio, Arrive(OwnFrame(len, radio))
      PROVE  LinkInv'
  <2> DEFINE pkt == OwnFrame(len, radio)
  <2>1. pkt \in Packet /\ ~Accepts(pkt)
    BY <1>1, OwnFrameRefused DEF LinkInv, OwnFrame
  <2> HIDE DEF pkt
  <2>2. Arrive(pkt)
    BY <1>4 DEF pkt
  <2>3. [Next]_vars
    BY <2>1, <2>2 DEF Next
  <2>4. kbuf' = Append(kbuf, pkt) /\ UNCHANGED <<ringVars, pc, result>>
    BY <2>2 DEF Arrive
  <2>5. pending' = pending /\ popped' = popped
    BY <2>1, <2>4, ArriveIsCapture DEF LinkInv
  <2>6. Told' = Told
    BY <1>1, <2>4, <2>5 DEF Told
  <2>7. InOrder'
    BY <1>1, <2>5, <2>6, OrderKept
  <2>8. QED BY <1>1, <1>2, <2>3, <2>4, <2>7, PassesInv
<1>5. QED BY <1>3, <1>4 DEF OwnFramePasses

\* Something else goes past, and nobody is told.
LEMMA NoisePassesInv == ASSUME LinkInv, NoisePasses PROVE LinkInv'
<1>1. PICK pkt \in Noise : Arrive(pkt)
  BY DEF NoisePasses
<1>2. pkt \in Packet /\ ~Accepts(pkt)
  BY NoiseAssumption
<1>3. [Next]_vars
  BY <1>1, <1>2 DEF Next
<1>4. /\ kbuf' = Append(kbuf, pkt) /\ UNCHANGED <<ringVars, pc, result>>
      /\ UNCHANGED <<past, peerTx, ownTx, program, peer_past, own_past, peer_air, reader, heard>>
  BY <1>1 DEF Arrive, NoisePasses, past, program, peerTx
<1>5. pending' = pending /\ Told' = Told
  BY <1>2, <1>4, ArriveIsCapture DEF LinkInv, Told
<1>6. InOrder'
  BY <1>4, <1>5, OrderKept
<1>7. peer_past' \in 0 .. Len(peer_air) /\ own_past' \in 0 .. Len(own_air)
  BY <1>4 DEF LinkInv, Programs
<1>8. QED BY <1>3, <1>4, <1>6, <1>7, PassesInv

LEMMA LinkNextInv == LinkInv /\ [LinkNext]_linkVars => LinkInv'
<1>1. SUFFICES ASSUME LinkInv, [LinkNext]_linkVars PROVE LinkInv'
  OBVIOUS
<1>2. CASE UNCHANGED linkVars
  <2>1. /\ UNCHANGED <<vars, peerTx, ownTx, past, main, reader, heard, peer_past, peer_air, pc>>
    BY <1>2 DEF linkVars, program, past, peerTx, vars
  <2>2. pending' = pending /\ Told' = Told
    BY <2>1, PendingKept DEF Told, vars, world
  <2>3. InOrder'
    BY <1>1, <2>1, <2>2, OrderKept
  <2>4. QED BY <1>1, <2>1, <2>3, ReaderInv DEF LinkInv, Programs
<1>3. QED BY <1>1, <1>2, PeerSendsInv, OwnSendsInv, MainInv, ReaderCallsInv, ReaderRecvsInv,
            ReaderBetweenInv, PeerFramePassesInv, OwnFramePassesInv, NoisePassesInv, LinkWorldInv
         DEF LinkNext, ReaderStep

LEMMA LinkInvariant == LinkSpec => []LinkInv
BY LinkInitInv, LinkNextInv, PTL DEF LinkSpec

-----------------------------------------------------------------------------
LEMMA HeardIsTold ==
  ASSUME LinkInv
  PROVE  /\ heard \in Seq(Line) /\ Len(heard) <= Len(Told)
         /\ \A i \in DOMAIN heard : heard[i] = Told[i]
<1>1. heard \in Seq(Line) /\ (Told = heard \/ \E e : Told = Append(heard, e))
  BY DEF LinkInv, InOrder, Told
<1>2. QED BY <1>1, AppendKeeps

\* The composition keeps the types of its parts.
THEOREM LinkTypeCorrect == LinkSpec => []LinkTypeOK
<1>1. LinkInv => LinkTypeOK
  <2>1. SUFFICES ASSUME LinkInv PROVE LinkTypeOK
    OBVIOUS
  <2>2. TypeOK
    BY <2>1 DEF LinkInv, ReceiverInv, RingInv, Locals, World, TypeOK
  <2>3. Peer!TxTypeOK
    <3>1. PeerTx!TxTypeOK
      BY <2>1, PeerTx!InvTypes, PeerAssumptions DEF LinkInv
    <3>2. QED BY <3>1 DEF PeerTx!TxTypeOK, Peer!TxTypeOK, PeerTx!Numbered, Peer!Numbered,
                          PeerTx!FragmentNumbers, Peer!FragmentNumbers
  <2>4. Own!TxTypeOK
    <3>1. OwnTx!TxTypeOK
      BY <2>1, OwnTx!InvTypes, OwnAssumptions DEF LinkInv
    <3>2. QED BY <3>1 DEF OwnTx!TxTypeOK, Own!TxTypeOK, OwnTx!Numbered, Own!Numbered,
                          OwnTx!FragmentNumbers, Own!FragmentNumbers
  <2>5. \A i \in DOMAIN heard : heard[i].seq \in U32
    <3>1. heard \in Seq(Line)
      BY <2>1, HeardIsTold
    <3>2. \A i \in DOMAIN heard : heard[i] \in Line
      BY <3>1
    <3>3. QED BY <3>2 DEF Line
  <2>6. QED BY <2>1, <2>2, <2>3, <2>4, <2>5 DEF LinkInv, Programs, LinkTypeOK
<1>2. QED BY <1>1, LinkInvariant, PTL

\* The lines that are printed are lines the peer sent, whole, under their own numbers, in
\* the order of sending and none of them twice, whatever this host sends and whatever the
\* air, the capture buffer and the ring lose: for every MTU, ring, bound and traffic.
THEOREM HeardAsSentCorrect == LinkSpec => []HeardAsSent
<1>1. LinkInv => HeardAsSent
  <2>1. SUFFICES ASSUME LinkInv PROVE HeardAsSent
    OBVIOUS
  <2>2. PICK p \in [DOMAIN Lines(Told, pending) -> 1 .. peer_past] :
          /\ \A i \in DOMAIN Lines(Told, pending) : Lines(Told, pending)[i] = SentLine(peer_air[p[i]])
          /\ \A i, j \in DOMAIN Lines(Told, pending) : i < j => p[i] < p[j]
    BY <2>1 DEF LinkInv, InOrder, Placed
  <2>3. \A i \in DOMAIN heard : i \in DOMAIN Lines(Told, pending) /\ Lines(Told, pending)[i] = heard[i]
    <3>1. /\ heard \in Seq(Line) /\ Told \in Seq(Line) /\ pending \in Seq(Frame)
          /\ Len(heard) <= Len(Told) /\ \A i \in DOMAIN heard : heard[i] = Told[i]
      BY <2>1, HeardIsTold, WaitingType DEF LinkInv, InOrder
    <3>2. /\ DOMAIN heard = 1 .. Len(heard) /\ Len(heard) \in Nat /\ Len(Told) \in Nat
          /\ Len(pending) \in Nat
      BY <3>1
    <3>3. QED BY <3>1, <3>2 DEF Lines
  <2>4. \A i \in DOMAIN heard : p[i] \in DOMAIN peer_air
    <3>1. /\ peer_past \in 0 .. Len(peer_air) /\ Len(peer_air) \in Nat
          /\ DOMAIN peer_air = 1 .. Len(peer_air)
      BY <2>1 DEF LinkInv, Programs, PeerTx!TxInv, PeerTx!AirType
    <3>2. QED BY <2>2, <2>3, <3>1
  <2> DEFINE place == [i \in DOMAIN heard |-> p[i]]
  <2>5. place \in [DOMAIN heard -> DOMAIN peer_air]
    BY <2>4
  <2>6. /\ \A k \in DOMAIN heard : heard[k] = SentLine(peer_air[place[k]])
        /\ \A j, k \in DOMAIN heard : j < k => place[j] < place[k]
    BY <2>2, <2>3
  <2> HIDE DEF place
  <2>7. QED BY <2>5, <2>6 DEF HeardAsSent
<1>2. QED BY <1>1, LinkInvariant, PTL

-----------------------------------------------------------------------------
(* The parts of the composition *)

LEMMA StepsOfReceiver == LinkInv /\ [LinkNext]_linkVars => [Next]_vars
<1>1. SUFFICES ASSUME LinkInv, LinkNext PROVE [Next]_vars
  BY DEF linkVars
<1>2. ASSUME NEW line, PeerSends(line) \/ OwnSends(line) \/ OwnSendFails(line)
      PROVE  UNCHANGED vars
  BY <1>2 DEF PeerSends, OwnSends, OwnSendFails
<1>3. CASE InputEnds \/ JoinReturns \/ ReaderPrints \/ ReaderContinues \/ ReaderBreaks
  BY <1>3 DEF InputEnds, JoinReturns, ReaderPrints, ReaderContinues, ReaderBreaks
<1>4. CASE ReaderCalls \/ ReaderRecvs \/ ReaderInterrupted \/ LinkWorld
  BY <1>4 DEF ReaderCalls, ReaderRecvs, ReaderInterrupted, LinkWorld, Next
<1>5. CASE PeerFramePasses
  <2>1. peer_past + 1 \in DOMAIN peer_air
    <3>1. Len(peer_air) \in Nat /\ DOMAIN peer_air = 1 .. Len(peer_air) /\ peer_past \in 0 .. Len(peer_air)
      BY <1>1 DEF LinkInv, Programs, PeerTx!TxInv, PeerTx!AirType
    <3>2. QED BY <1>5, <3>1 DEF PeerFramePasses
  <2>2. ASSUME NEW len \in RadiotapLen, NEW with_fcs \in BOOLEAN, NEW radio \in Radio
        PROVE  PeerFrame(len, with_fcs, radio) \in Packet
    BY <1>1, <2>1, PeerFrameAccepted DEF LinkInv, PeerFrame
  <2>3. QED BY <1>5, <2>2 DEF PeerFramePasses, Next
<1>6. CASE OwnFramePasses
  <2>1. own_past + 1 \in DOMAIN own_air
    <3>1. Len(own_air) \in Nat /\ DOMAIN own_air = 1 .. Len(own_air) /\ own_past \in 0 .. Len(own_air)
      BY <1>1 DEF LinkInv, Programs, OwnTx!TxInv, OwnTx!AirType
    <3>2. QED BY <1>6, <3>1 DEF OwnFramePasses
  <2>2. ASSUME NEW len \in RadiotapLen, NEW radio \in Radio
        PROVE  OwnFrame(len, radio) \in Packet
    BY <1>1, <2>1, OwnFrameRefused DEF LinkInv, OwnFrame
  <2>3. QED BY <1>6, <2>2 DEF OwnFramePasses, Next
<1>7. CASE NoisePasses
  BY <1>7, NoiseAssumption DEF NoisePasses, Next
<1>8. QED BY <1>1, <1>2, <1>3, <1>4, <1>5, <1>6, <1>7 DEF LinkNext, ReaderStep

LEMMA StepsOfSenders ==
  LinkInv /\ [LinkNext]_linkVars => [Peer!TxNext]_(Peer!txVars) /\ [Own!TxNext]_(Own!txVars)
<1>1. SUFFICES ASSUME LinkInv, LinkNext
               PROVE  [Peer!TxNext]_(Peer!txVars) /\ [Own!TxNext]_(Own!txVars)
  BY DEF linkVars, peerTx, ownTx, Peer!txVars, Own!txVars
<1>2. peer_seq \in U32 /\ own_seq \in U32
  BY <1>1 DEF LinkInv, Programs
<1>3. ASSUME NEW line \in CallPayload, PeerSends(line)
      PROVE  Peer!TxNext /\ UNCHANGED Own!txVars
  BY <1>2, <1>3 DEF PeerSends, Peer!TxNext, ownTx, Own!txVars
<1>4. ASSUME NEW line \in OwnPayload, OwnSends(line) \/ OwnSendFails(line)
      PROVE  Own!TxNext /\ UNCHANGED Peer!txVars
  BY <1>2, <1>4 DEF OwnSends, OwnSendFails, Own!TxNext, peerTx, Peer!txVars
<1>5. ASSUME UNCHANGED <<peerTx, ownTx>>
      PROVE  UNCHANGED Peer!txVars /\ UNCHANGED Own!txVars
  BY <1>5 DEF peerTx, ownTx, Peer!txVars, Own!txVars
<1>6. \/ \E line \in CallPayload : PeerSends(line)
      \/ \E line \in OwnPayload : OwnSends(line) \/ OwnSendFails(line)
      \/ UNCHANGED <<peerTx, ownTx>>
  BY <1>1 DEF LinkNext, ReaderStep, InputEnds, JoinReturns, ReaderCalls, ReaderRecvs, ReaderPrints,
              ReaderContinues, ReaderBreaks, ReaderInterrupted, PeerFramePasses, OwnFramePasses,
              NoisePasses, LinkWorld
<1>7. QED BY <1>3, <1>4, <1>5, <1>6

\* The reading thread uses its receiver, and each main thread its sender, only as their
\* own specifications allow: so what is proved of them holds inside the programs.
THEOREM LinkUsesItsParts == LinkSpec => Spec /\ Peer!TxSpec /\ Own!TxSpec
<1>1. LinkInit => Init /\ Peer!TxInit /\ Own!TxInit
  BY DEF LinkInit
<1>2. QED BY <1>1, LinkInvariant, StepsOfReceiver, StepsOfSenders, PTL
          DEF LinkSpec, Spec, Peer!TxSpec, Own!TxSpec

\* In particular, what reaches the reading thread is a lossy queue of the peer's frames
\* without a byte of a frame check sequence.
THEOREM LinkReceives == LinkSpec => ReceiverIsLossyFifo /\ []FcsNeverDelivered
BY LinkUsesItsParts, ReceiverImplementsLossyFifo, FcsNeverDeliveredCorrect

-----------------------------------------------------------------------------
(* What waits is not lost *)

\* Only the reading thread takes a frame out of the ring.
LEMMA PopIsReader ==
  ASSUME LinkInv, [LinkNext]_linkVars, NEW n \in BufLen, pop_one(n)
  PROVE  reader' = "recv"
<1>1. ring_count' # ring_count
  <2>1. ring_count \in Nat
    BY PendingType DEF LinkInv
  <2>2. QED BY <2>1 DEF pop_one
<1>2. ~UNCHANGED vars
  BY <1>1 DEF vars, ringVars
<1>3. ASSUME NEW line, PeerSends(line) \/ OwnSends(line) \/ OwnSendFails(line) PROVE FALSE
  BY <1>2, <1>3 DEF PeerSends, OwnSends, OwnSendFails
<1>4. ~(InputEnds \/ JoinReturns \/ ReaderPrints \/ ReaderContinues \/ ReaderBreaks)
  BY <1>2 DEF InputEnds, JoinReturns, ReaderPrints, ReaderContinues, ReaderBreaks
<1>5. ~(PeerFramePasses \/ OwnFramePasses \/ NoisePasses \/ LinkWorld)
  BY <1>1, <1>2 DEF PeerFramePasses, OwnFramePasses, NoisePasses, LinkWorld, Arrive, InterfaceGone,
                    Tick, ringVars
<1>6. CASE ReaderCalls
  BY <1>6 DEF ReaderCalls
<1>7. CASE ReaderRecvs \/ ReaderInterrupted
  <2>1. pc # "idle" /\ UNCHANGED reader
    BY <1>7 DEF ReaderRecvs, ReaderInterrupted, RecvStep, LoopTakes, LoopTimesOut, LoopReads,
                LoopPolls, PollReady, PollTimeout, DrainOne, DrainStop, PollInterrupted, PollFails, program
  <2>2. QED BY <2>1 DEF LinkInv, Programs
<1>8. QED BY <1>2, <1>3, <1>4, <1>5, <1>6, <1>7 DEF LinkNext, ReaderStep, linkVars

\* A waiting frame keeps its place in the queue or moves up, or recv returns it.
LEMMA WaitsOn ==
  ASSUME LinkInv, [LinkNext]_linkVars, NEW k \in 1 .. Len(pending), k <= ring_size
  PROVE  \/ k \in 1 .. Len(pending') /\ pending'[k] = pending[k]
         \/ k - 1 \in 1 .. Len(pending') /\ pending'[k - 1] = pending[k]
         \/ k = 1 /\ popped'.meta = pending[1].meta /\ result' = "frame" /\ reader' = "recv"
<1>1. pending \in Seq(Frame) /\ Len(pending) \in Nat
  BY WaitingType
<1>2. [Next]_vars /\ ReceiverInv
  BY StepsOfReceiver DEF LinkInv
<1>3. ASSUME pending' = pending PROVE k \in 1 .. Len(pending') /\ pending'[k] = pending[k]
  BY <1>3
<1>4. CASE UNCHANGED <<ringVars, kbuf>>
  BY <1>3, <1>4, PendingKept
<1>5. CASE \E pkt \in Packet : kbuf' = Append(kbuf, pkt) /\ UNCHANGED ringVars
  <2>1. PICK pkt \in Packet : kbuf' = Append(kbuf, pkt) /\ UNCHANGED ringVars
    BY <1>5
  <2>2. CASE pending' = pending
    BY <1>3, <2>2
  <2>3. CASE Receiver!Capture(FrameOf(pkt)) /\ FrameOf(pkt) \in Frame
    <3>1. pending' = Append(pending, FrameOf(pkt))
      BY <2>3 DEF Receiver!Capture, pending
    <3>2. QED BY <1>1, <2>3, <3>1
  <2>4. QED BY <1>2, <2>1, <2>2, <2>3, ArriveIsCapture
<1>6. CASE DrainOne
  <2>1. CASE pending' = pending
    BY <1>3, <2>1
  <2>2. ASSUME NEW j \in 1 .. Len(pending), Receiver!Lose(j)
        PROVE  k \in 1 .. Len(pending') /\ pending'[k] = pending[k]
    <3>1. j > ring_size /\ pending' = Receiver!RemoveAt(pending, j)
      BY <2>2 DEF Receiver!Lose, pending
    <3>2. k < j
      BY <1>1, <3>1, SizeType
    <3>3. QED BY <1>1, <2>2, <3>1, <3>2, RemovedAt
  <2>3. QED BY <1>2, <1>6, <2>1, <2>2, DrainMovesOrLoses
<1>7. CASE \E n \in BufLen : pop_one(n) /\ UNCHANGED kbuf /\ result' = "frame"
  <2>1. PICK n \in BufLen : pop_one(n) /\ UNCHANGED kbuf /\ result' = "frame"
    BY <1>7
  <2>2. Receiver!Ring!Take(n)
    BY <1>2, <2>1, PopTakesPending
  <2>3. /\ pending # <<>> /\ pending' = Tail(pending)
        /\ popped'.meta = Head(pending).meta
    BY <2>2 DEF Receiver!Ring!Take, Receiver!Ring!Cut, pending
  <2>4. CASE k = 1
    <3>1. reader' = "recv"
      BY <2>1, PopIsReader
    <3>2. QED BY <1>1, <2>1, <2>3, <2>4, <3>1
  <2>5. CASE k # 1
    BY <1>1, <2>3, <2>5
  <2>6. QED BY <2>4, <2>5
<1>8. QED BY <1>2, <1>4, <1>5, <1>6, <1>7, ReaderView

LEMMA AwaitedStep ==
  ASSUME LinkInv, [LinkNext]_linkVars, NEW seq, Awaited(seq)
  PROVE  Awaited(seq)' \/ Held(seq)'
<1>1. PICK k \in 1 .. Len(pending) : k <= ring_size /\ pending[k].meta.seq = seq
  BY DEF Awaited, pending
<1>2. ASSUME NEW j \in 1 .. Len(pending'), j <= ring_size, pending'[j] = pending[k]
      PROVE  Awaited(seq)'
  BY <1>1, <1>2 DEF Awaited, pending
<1>3. k - 1 <= ring_size
  BY <1>1, SizeType
<1>4. CASE k = 1 /\ popped'.meta = pending[1].meta /\ result' = "frame" /\ reader' = "recv"
  BY <1>1, <1>4 DEF Held
<1>5. QED BY <1>1, <1>2, <1>3, <1>4, WaitsOn

LEMMA HeldStep ==
  ASSUME LinkInv, [LinkNext]_linkVars, NEW seq, Held(seq)
  PROVE  Held(seq)' \/ Printed(seq)'
<1>1. reader = "recv" /\ result = "frame" /\ popped.meta.seq = seq /\ pc = "idle"
  BY DEF Held, LinkInv, ReceiverInv, CallInv
<1>2. CASE UNCHANGED <<popped, result, reader>>
  BY <1>1, <1>2 DEF Held
<1>3. CASE ReaderPrints
  <2>1. heard' = Append(heard, [seq |-> popped.meta.seq, payload |-> popped.buf])
    BY <1>3 DEF ReaderPrints
  <2>2. heard \in Seq(Line) /\ heard' \in Seq(Line)
    <3>1. heard' = Told
      BY <1>1, <2>1 DEF Told
    <3>2. QED BY <3>1 DEF LinkInv, InOrder
  <2>3. Len(heard) + 1 \in DOMAIN heard' /\ heard'[Len(heard) + 1].seq = seq
    BY <1>1, <2>1, <2>2
  <2>4. QED BY <2>3 DEF Printed
<1>4. ~(ReaderCalls \/ ReaderRecvs \/ ReaderInterrupted \/ ReaderContinues \/ ReaderBreaks)
  BY <1>1 DEF ReaderCalls, ReaderRecvs, ReaderInterrupted, ReaderContinues, ReaderBreaks, RecvStep,
              LoopTakes, LoopTimesOut, LoopReads, LoopPolls, PollReady, PollTimeout, DrainOne,
              DrainStop, PollInterrupted, PollFails
<1>5. ASSUME NEW line, PeerSends(line) \/ OwnSends(line) \/ OwnSendFails(line)
      PROVE  UNCHANGED <<popped, result, reader>>
  BY <1>5 DEF PeerSends, OwnSends, OwnSendFails, vars, ringVars, program
<1>6. CASE \/ InputEnds \/ JoinReturns \/ PeerFramePasses \/ OwnFramePasses \/ NoisePasses
           \/ LinkWorld \/ UNCHANGED linkVars
  <2>1. UNCHANGED <<popped, result, reader>>
    BY <1>6 DEF InputEnds, JoinReturns, PeerFramePasses, OwnFramePasses, NoisePasses, LinkWorld,
                Arrive, InterfaceGone, Tick, linkVars, vars, ringVars, program
  <2>2. QED BY <1>2, <2>1
<1>7. QED BY <1>2, <1>3, <1>4, <1>5, <1>6 DEF LinkNext, ReaderStep

\* No step loses a frame of the peer that waits behind fewer than ring_size others, nor
\* one that recv has returned: for every ring, any losses on the air and any traffic.
THEOREM AwaitedIsKeptCorrect == LinkSpec => AwaitedIsKept
<1> DEFINE Kept == \A seq \in U32 : /\ Awaited(seq) => Awaited(seq)' \/ Held(seq)'
                                    /\ Held(seq) => Held(seq)' \/ Printed(seq)'
<1>1. LinkInv /\ [LinkNext]_linkVars => [Kept]_linkVars
  BY AwaitedStep, HeldStep
<1>2. QED BY <1>1, LinkInvariant, PTL DEF LinkSpec, AwaitedIsKept
=============================================================================
