---------------------------- MODULE RxRingProofs ----------------------------
(***************************************************************************)
(* Proofs about RxRing, for every MTU, ring size, byte and metadata.  The  *)
(* inductive invariant is RingTypeOK /\ CursorsAgree; with it each step of *)
(* the ring is a step of BoundedFifo under the mapping of RxRing.          *)
(***************************************************************************)
EXTENDS RxRing, SequenceTheorems, TLAPS

-----------------------------------------------------------------------------
(* Arithmetic of the ring and of its flat store. *)

\* open clamps the ring size, so there are always between 2 and 128 slots.
LEMMA SizeType == ring_size \in 2 .. 128
  BY RingAssumption DEF ring_size

\* A slot holds at least one byte, which open tests.
LEMMA MaxPayloadType == max_payload \in Nat \ {0}
  BY MtuAssumption
  DEF max_payload, compute_max_payload, IEE80211_HEADER_LEN, WFB_PLAINTEXT_HDR_LEN

\* The wrap of a cursor moved by at most one turn.
LEMMA Wrap ==
  ASSUME NEW i \in Slot, NEW k \in 0 .. ring_size
  PROVE  /\ (i + k) % ring_size = IF i + k < ring_size THEN i + k ELSE i + k - ring_size
         /\ (i + k) % ring_size \in Slot
  <1>1. ASSUME NEW n \in Nat \ {0}, NEW x \in Nat, x < 2 * n
        PROVE  x % n = IF x < n THEN x ELSE x - n
    BY <1>1
  <1>2. ring_size \in Nat \ {0}
    BY SizeType
  <1>3. i + k \in Nat /\ i + k < 2 * ring_size
    BY <1>2 DEF Slot
  <1>4. (i + k) % ring_size = IF i + k < ring_size THEN i + k ELSE i + k - ring_size
    <2>1. ASSUME NEW x \in Nat, x = i + k
          PROVE  x % ring_size = IF x < ring_size THEN x ELSE x - ring_size
      BY <1>1, <1>2, <1>3, <2>1
    <2>2. QED
      BY <1>2, <1>3, <2>1 DEF Slot
  <1>5. QED
    BY <1>2, <1>3, <1>4 DEF Slot

\* Slot number and offset identify a byte of the store: slots do not overlap.
LEMMA SlotsApart ==
  ASSUME NEW m \in Nat \ {0}, NEW i \in Nat, NEW j \in Nat, i # j,
         NEW a \in 0 .. (m - 1), NEW b \in 0 .. (m - 1)
  PROVE  i * m + a # j * m + b
  <1>1. ASSUME NEW p \in Nat, NEW q \in Nat, p < q
        PROVE  p * m \in Nat /\ q * m \in Nat /\ p * m + m <= q * m
    <2>1. (p + 1) * m <= q * m
      BY <1>1
    <2>2. (p + 1) * m = p * m + m
      OBVIOUS
    <2>3. QED
      BY <2>1, <2>2
  <1>2. CASE i < j
    BY <1>1, <1>2
  <1>3. CASE j < i
    BY <1>1, <1>3
  <1>4. QED
    BY <1>2, <1>3

\* The bytes of a slot lie in the store.
LEMMA SlotInStore ==
  ASSUME NEW i \in Slot, NEW j \in 0 .. (max_payload - 1)
  PROVE  /\ i * max_payload \in Nat
         /\ i * max_payload + j \in StoreIdx
  <1>1. /\ ring_size \in Nat /\ max_payload \in Nat \ {0}
        /\ i \in Nat /\ i + 1 <= ring_size
    BY SizeType, MaxPayloadType DEF Slot
  <1>2. (i + 1) * max_payload <= ring_size * max_payload
    BY <1>1
  <1>3. (i + 1) * max_payload = i * max_payload + max_payload
    BY <1>1
  <1>4. i * max_payload \in Nat /\ ring_size * max_payload \in Nat
    BY <1>1
  <1>5. QED
    BY <1>1, <1>2, <1>3, <1>4 DEF StoreIdx

\* A payload is a sequence of bytes that fits a slot.
LEMMA PayloadType ==
  ASSUME NEW payload \in Payload
  PROVE  /\ payload \in Seq(Byte)
         /\ Len(payload) \in 0 .. max_payload
         /\ payload \in [1 .. Len(payload) -> Byte]
  <1>1. PICK n \in 0 .. max_payload : payload \in [1 .. n -> Byte]
    BY MaxPayloadType DEF Payload, BoundedSeq, SeqOf
  <1>2. payload \in Seq(Byte) /\ Len(payload) = n
    BY <1>1, MaxPayloadType, IsASeq
  <1>3. QED
    BY <1>1, <1>2

\* A function on 1..n is a sequence of length n.
LEMMA FunctionIsSeq ==
  ASSUME NEW S, NEW n \in Nat, NEW f \in [1 .. n -> S]
  PROVE  f \in Seq(S) /\ Len(f) = n
  OBVIOUS

\* Append, Head and Tail of a sequence, element by element.
LEMMA AppendElements ==
  ASSUME NEW S, NEW s \in Seq(S), NEW e \in S
  PROVE  Append(s, e) = [k \in 1 .. (Len(s) + 1) |-> IF k = Len(s) + 1 THEN e ELSE s[k]]
  <1> DEFINE t == Append(s, e)
  <1>1. /\ t \in Seq(S) /\ Len(t) = Len(s) + 1 /\ Len(s) \in Nat
        /\ \A k \in 1 .. Len(s) : t[k] = s[k]
        /\ t[Len(s) + 1] = e
    BY AppendProperties, LenProperties
  <1>2. t \in [1 .. (Len(s) + 1) -> S]
    BY <1>1, LenProperties
  <1>3. \A k \in 1 .. (Len(s) + 1) : t[k] = IF k = Len(s) + 1 THEN e ELSE s[k]
    BY <1>1
  <1>4. QED
    <2> HIDE DEF t
    <2>1. t = [k \in 1 .. (Len(s) + 1) |-> IF k = Len(s) + 1 THEN e ELSE s[k]]
      BY <1>2, <1>3
    <2>2. QED
      BY <2>1 DEF t

LEMMA HeadTailElements ==
  ASSUME NEW S, NEW s \in Seq(S), Len(s) > 0
  PROVE  /\ s # <<>> /\ Head(s) = s[1]
         /\ Tail(s) = [k \in 1 .. (Len(s) - 1) |-> s[k + 1]]
  <1> DEFINE t == Tail(s)
  <1>1. s # <<>> /\ Len(s) \in Nat /\ Head(s) = s[1]
    BY EmptySeq, LenProperties
  <1>2. /\ t \in Seq(S) /\ Len(t) = Len(s) - 1
        /\ \A k \in 1 .. Len(t) : t[k] = s[k + 1]
    BY <1>1, HeadTailProperties
  <1>3. t \in [1 .. (Len(s) - 1) -> S]
    BY <1>2, LenProperties
  <1>4. t = [k \in 1 .. (Len(s) - 1) |-> s[k + 1]]
    <2> HIDE DEF t
    <2>1. QED
      BY <1>2, <1>3
  <1>5. QED
    BY <1>1, <1>4

-----------------------------------------------------------------------------
(* The inductive invariant. *)

RingInv == RingTypeOK /\ CursorsAgree

\* A freshly opened ring satisfies the invariant.
LEMMA RingInitInv == RingInit => RingInv
  <1> SUFFICES ASSUME RingInit
               PROVE  RingInv
    OBVIOUS
  <1>1. ring_size \in 2 .. 128 /\ max_payload \in Nat \ {0}
    BY SizeType, MaxPayloadType
  <1>2. ring_payload_store \in [StoreIdx -> Byte]
    BY RingAssumption DEF RingInit
  <1>3. popped \in [buf : Seq(Byte), meta : Meta, truncated : BOOLEAN]
    BY RingAssumption, EmptySeq DEF RingInit, NoFrame
  <1>4. RingTypeOK
    <2>1. 0 \in Slot /\ 0 \in 0 .. ring_size /\ 0 \in 0 .. max_payload
      BY <1>1 DEF Slot
    <2>2. /\ ring_payload_len \in [Slot -> 0 .. max_payload]
          /\ ring_meta \in [Slot -> Meta]
      BY <2>1, RingAssumption DEF RingInit
    <2>3. QED
      BY <1>2, <1>3, <2>1, <2>2 DEF RingInit, RingTypeOK
  <1>5. CursorsAgree
    BY <1>1, Wrap DEF RingInit, CursorsAgree
  <1>6. QED
    BY <1>4, <1>5 DEF RingInv

\* Storing a frame keeps the invariant.
LEMMA StoreNewInv ==
  ASSUME RingInv, NEW payload \in Payload, NEW meta \in Meta, StoreNew(payload, meta)
  PROVE  RingInv'
  <1>1. /\ ring_size \in 2 .. 128 /\ max_payload \in Nat \ {0}
        /\ ring_count \in 0 .. (ring_size - 1)
        /\ ring_head \in 0 .. (ring_size - 1)
        /\ ring_tail \in 0 .. (ring_size - 1)
    BY SizeType, MaxPayloadType DEF RingInv, RingTypeOK, StoreNew, RingFull, Slot
  <1>2. ring_tail' = IF ring_tail + 1 < ring_size THEN ring_tail + 1
                                                  ELSE ring_tail + 1 - ring_size
    <2>1. ring_tail \in Slot /\ 1 \in 0 .. ring_size
      BY <1>1 DEF Slot
    <2>2. (ring_tail + 1) % ring_size = IF ring_tail + 1 < ring_size THEN ring_tail + 1
                                        ELSE ring_tail + 1 - ring_size
      BY <2>1, Wrap
    <2>3. ring_tail' = (ring_tail + 1) % ring_size
      BY DEF StoreNew
    <2>4. QED
      BY <2>2, <2>3
  <1>3. ring_payload_store' \in [StoreIdx -> Byte]
    <2>1. ASSUME NEW a \in StoreIdx,
                 a - ring_tail * max_payload \in 0 .. (Len(payload) - 1)
          PROVE  payload[a - ring_tail * max_payload + 1] \in Byte
      BY <2>1, PayloadType
    <2>2. QED
      BY <2>1 DEF StoreNew, Copied, RingInv, RingTypeOK
  <1>4. ring_payload_len' \in [Slot -> 0 .. max_payload]
    BY PayloadType DEF StoreNew, RingInv, RingTypeOK
  <1>5. RingTypeOK'
    BY <1>1, <1>2, <1>3, <1>4 DEF StoreNew, RingInv, RingTypeOK, Slot
  <1>6. CursorsAgree'
    <2>1. ring_tail = IF ring_head + ring_count < ring_size
                      THEN ring_head + ring_count ELSE ring_head + ring_count - ring_size
      BY <1>1, Wrap DEF RingInv, CursorsAgree
    <2>2. (ring_head + (ring_count + 1)) % ring_size
            = IF ring_head + (ring_count + 1) < ring_size
              THEN ring_head + (ring_count + 1)
              ELSE ring_head + (ring_count + 1) - ring_size
      BY <1>1, Wrap
    <2>3. QED
      BY <1>1, <1>2, <2>1, <2>2 DEF StoreNew, CursorsAgree
  <1>7. QED
    BY <1>5, <1>6 DEF RingInv

\* Reading a frame keeps the invariant.
LEMMA PopInv ==
  ASSUME RingInv, NEW buf_len \in Nat, pop_one(buf_len)
  PROVE  RingInv'
  <1> DEFINE payload_len == ring_payload_len[ring_head]
             to_copy     == IF payload_len <= buf_len THEN payload_len ELSE buf_len
             src_off     == ring_head * max_payload
             buf         == [i \in 1 .. to_copy |-> ring_payload_store[src_off + i - 1]]
  <1>1. /\ ring_size \in 2 .. 128 /\ max_payload \in Nat \ {0}
        /\ ring_count \in 1 .. ring_size
        /\ ring_head \in 0 .. (ring_size - 1)
        /\ ring_tail \in 0 .. (ring_size - 1)
        /\ ring_head \in Slot
    BY SizeType, MaxPayloadType DEF RingInv, RingTypeOK, pop_one, Slot
  <1>2. ring_head' = IF ring_head + 1 < ring_size THEN ring_head + 1
                                                  ELSE ring_head + 1 - ring_size
    <2>1. ring_head \in Slot /\ 1 \in 0 .. ring_size
      BY <1>1
    <2>2. (ring_head + 1) % ring_size = IF ring_head + 1 < ring_size THEN ring_head + 1
                                        ELSE ring_head + 1 - ring_size
      BY <2>1, Wrap
    <2>3. ring_head' = (ring_head + 1) % ring_size
      BY DEF pop_one
    <2>4. QED
      BY <2>2, <2>3
  <1>3. payload_len \in 0 .. max_payload /\ to_copy \in 0 .. max_payload
    BY <1>1 DEF RingInv, RingTypeOK
  <1>4. buf \in Seq(Byte)
    <2>1. ASSUME NEW i \in 1 .. to_copy
          PROVE  ring_payload_store[src_off + i - 1] \in Byte
      <3>1. i - 1 \in 0 .. (max_payload - 1)
        BY <1>1, <1>3
      <3>2. src_off \in Nat /\ src_off + (i - 1) \in StoreIdx
        BY <1>1, <3>1, SlotInStore
      <3>3. src_off + (i - 1) = src_off + i - 1
        BY <3>2
      <3>4. QED
        BY <3>2, <3>3 DEF RingInv, RingTypeOK
    <2>2. buf \in [1 .. to_copy -> Byte]
      BY <2>1
    <2>3. to_copy \in Nat
      BY <1>1, <1>3
    <2>4. QED
      <3> HIDE DEF buf, to_copy
      <3>1. QED
        BY <2>2, <2>3, FunctionIsSeq
  <1>5. popped' \in [buf : Seq(Byte), meta : Meta, truncated : BOOLEAN]
    <2>1. popped' = [buf |-> buf, meta |-> ring_meta[ring_head],
                     truncated |-> to_copy # payload_len]
      BY DEF pop_one
    <2>2. ring_meta[ring_head] \in Meta
      BY <1>1 DEF RingInv, RingTypeOK
    <2>3. QED
      BY <2>1, <2>2, <1>4
  <1>6. RingTypeOK'
    <2>1. /\ ring_count > 0 /\ ring_count' = ring_count - 1
          /\ UNCHANGED <<ring_tail, ring_payload_store, ring_payload_len, ring_meta>>
      BY DEF pop_one
    <2>2. ring_count' \in 0 .. ring_size /\ ring_head' \in Slot
      BY <1>1, <1>2, <2>1 DEF RingInv, RingTypeOK, Slot
    <2>3. QED
      BY <1>5, <2>1, <2>2 DEF RingInv, RingTypeOK, Slot, StoreIdx
  <1>7. CursorsAgree'
    <2>1. ring_tail = IF ring_head + ring_count < ring_size
                      THEN ring_head + ring_count ELSE ring_head + ring_count - ring_size
      BY <1>1, Wrap DEF RingInv, CursorsAgree
    <2>2. ring_count' = ring_count - 1 /\ ring_tail' = ring_tail
      BY DEF pop_one
    <2>3. ring_head' \in Slot /\ ring_count' \in 0 .. ring_size
      BY <1>1, <1>2, <2>2 DEF Slot
    <2>4. (ring_head' + ring_count') % ring_size
            = IF ring_head' + ring_count' < ring_size
              THEN ring_head' + ring_count' ELSE ring_head' + ring_count' - ring_size
      BY <2>3, Wrap
    <2>5. QED
      BY <1>1, <1>2, <2>1, <2>2, <2>4 DEF CursorsAgree
  <1>8. QED
    BY <1>6, <1>7 DEF RingInv

\* The invariant does not depend on anything but the ring's variables.
LEMMA RingStutterInv == RingInv /\ UNCHANGED ringVars => RingInv'
  BY DEF RingInv, RingTypeOK, CursorsAgree, ringVars

LEMMA RingNextInv == RingInv /\ [RingNext]_ringVars => RingInv'
  <1> SUFFICES ASSUME RingInv, [RingNext]_ringVars
               PROVE  RingInv'
    OBVIOUS
  <1>1. ASSUME NEW payload \in Payload, NEW meta \in Meta, enqueue_decoded(payload, meta)
        PROVE  RingInv'
    BY <1>1, StoreNewInv, RingStutterInv DEF enqueue_decoded, DropNew
  <1>2. ASSUME NEW buf_len \in BufLen, pop_one(buf_len)
        PROVE  RingInv'
    BY <1>2, PopInv, RingAssumption
  <1>3. CASE UNCHANGED ringVars
    BY <1>3, RingStutterInv
  <1>4. QED
    BY <1>1, <1>2, <1>3 DEF RingNext

\* The ring never holds more frames than it has slots, its cursors stay inside it and
\* every stored length fits a slot, for every MTU and every configured ring size: the
\* slices enqueue_decoded and pop_one take of the store are in bounds.
THEOREM RingTypeCorrect == RingSpec => []RingTypeOK
  <1>1. RingInv => RingTypeOK
    BY DEF RingInv
  <1>2. QED
    BY RingInitInv, RingNextInv, <1>1, PTL DEF RingSpec

\* The tail is always ring_count slots ahead of the head, around the ring.
THEOREM CursorsCorrect == RingSpec => []CursorsAgree
  <1>1. RingInv => CursorsAgree
    BY DEF RingInv
  <1>2. QED
    BY RingInitInv, RingNextInv, <1>1, PTL DEF RingSpec

-----------------------------------------------------------------------------
(* The ring implements the bounded FIFO. *)

\* Where the k-th oldest frame is, and that the slot after the last is the tail.
LEMMA QueueSlots ==
  ASSUME RingInv
  PROVE  /\ \A k \in 1 .. ring_size :
              /\ QueueSlot(k) \in Slot
              /\ QueueSlot(k) = IF ring_head + k - 1 < ring_size THEN ring_head + k - 1
                                 ELSE ring_head + k - 1 - ring_size
         /\ ring_tail \in Slot
         /\ ring_count < ring_size => QueueSlot(ring_count + 1) = ring_tail
         /\ ring_count < ring_size => \A k \in 1 .. ring_count : QueueSlot(k) # ring_tail
  <1>1. /\ ring_size \in 2 .. 128 /\ ring_count \in 0 .. ring_size
        /\ ring_head \in Slot /\ ring_tail \in Slot
    BY SizeType DEF RingInv, RingTypeOK
  <1>2. ASSUME NEW k \in 1 .. ring_size
        PROVE  /\ QueueSlot(k) \in Slot
               /\ QueueSlot(k) = IF ring_head + k - 1 < ring_size THEN ring_head + k - 1
                                  ELSE ring_head + k - 1 - ring_size
    <2>1. k - 1 \in 0 .. ring_size /\ ring_head + (k - 1) = ring_head + k - 1
      BY <1>1 DEF Slot
    <2>2. /\ (ring_head + (k - 1)) % ring_size
               = IF ring_head + (k - 1) < ring_size THEN ring_head + (k - 1)
                 ELSE ring_head + (k - 1) - ring_size
          /\ (ring_head + (k - 1)) % ring_size \in Slot
      BY <1>1, <2>1, Wrap
    <2>3. QED
      BY <2>1, <2>2 DEF QueueSlot
  <1>3. ring_tail = IF ring_head + ring_count < ring_size
                    THEN ring_head + ring_count ELSE ring_head + ring_count - ring_size
    BY <1>1, Wrap DEF RingInv, CursorsAgree
  <1>4. QED
    BY <1>1, <1>2, <1>3 DEF Slot

\* A slot holds a frame, whose payload has the length kept for the slot.
LEMMA SlotFrameType ==
  ASSUME RingTypeOK, NEW i \in Slot
  PROVE  /\ SlotFrame(i) \in Frame
         /\ SlotFrame(i).payload = [j \in 1 .. ring_payload_len[i] |->
                                      ring_payload_store[i * max_payload + j - 1]]
         /\ Len(SlotFrame(i).payload) = ring_payload_len[i]
         /\ ring_payload_len[i] \in 0 .. max_payload
  <1> DEFINE n == ring_payload_len[i]
             p == [j \in 1 .. n |-> ring_payload_store[i * max_payload + j - 1]]
  <1>1. max_payload \in Nat \ {0} /\ n \in 0 .. max_payload /\ n \in Nat
    BY MaxPayloadType DEF RingTypeOK
  <1>2. ASSUME NEW j \in 1 .. n
        PROVE  ring_payload_store[i * max_payload + j - 1] \in Byte
    <2>1. j - 1 \in 0 .. (max_payload - 1)
      BY <1>1
    <2>2. i * max_payload \in Nat /\ i * max_payload + (j - 1) \in StoreIdx
      BY <2>1, SlotInStore
    <2>3. i * max_payload + (j - 1) = i * max_payload + j - 1
      BY <2>2
    <2>4. QED
      BY <2>2, <2>3 DEF RingTypeOK
  <1>3. p \in [1 .. n -> Byte]
    BY <1>2
  <1>4. p \in Payload /\ Len(p) = n
    <2> HIDE DEF p, n
    <2>1. QED
      BY <1>1, <1>3, FunctionIsSeq DEF Payload, BoundedSeq, SeqOf
  <1>5. QED
    BY <1>1, <1>4 DEF SlotFrame, Frame, RingTypeOK

\* The frames in the ring form a sequence as long as the count says.
LEMMA QueueType ==
  ASSUME RingInv
  PROVE  RingQueue \in Seq(Frame) /\ Len(RingQueue) = ring_count /\ ring_count \in Nat
  <1>1. ring_count \in 0 .. ring_size /\ ring_count \in Nat /\ ring_size \in 2 .. 128
    BY SizeType DEF RingInv, RingTypeOK
  <1>2. ASSUME NEW k \in 1 .. ring_count
        PROVE  SlotFrame(QueueSlot(k)) \in Frame
    <2>1. QueueSlot(k) \in Slot
      BY <1>1, QueueSlots
    <2>2. \A i \in Slot : SlotFrame(i) \in Frame
      BY SlotFrameType DEF RingInv
    <2>3. QED
      BY <2>1, <2>2
  <1>3. RingQueue \in [1 .. ring_count -> Frame]
    BY <1>2 DEF RingQueue
  <1>4. QED
    BY <1>1, <1>3, FunctionIsSeq

\* Storing a frame leaves the frames of the other slots as they were: the copy into the
\* flat store touches only the bytes of the slot at the tail.
LEMMA StoreNewFrames ==
  ASSUME RingInv, NEW payload \in Payload, NEW meta \in Meta, StoreNew(payload, meta)
  PROVE  \A i \in Slot : SlotFrame(i)' = IF i = ring_tail
                                         THEN [payload |-> payload, meta |-> meta]
                                         ELSE SlotFrame(i)
  <1> DEFINE dst_off == ring_tail * max_payload
  <1>1. /\ max_payload \in Nat \ {0}
        /\ ring_tail \in Slot /\ ring_tail \in Nat
        /\ Len(payload) \in 0 .. max_payload
        /\ payload \in [1 .. Len(payload) -> Byte]
        /\ dst_off \in Nat
    BY MaxPayloadType, PayloadType DEF RingInv, RingTypeOK, Slot
  <1>2. ring_payload_store' =
          [a \in StoreIdx |-> IF a - dst_off \in 0 .. (Len(payload) - 1)
                              THEN payload[a - dst_off + 1] ELSE ring_payload_store[a]]
    BY DEF StoreNew, Copied
  <1>3. ASSUME NEW i \in Slot, i # ring_tail
        PROVE  SlotFrame(i)' = SlotFrame(i)
    <2>1. /\ ring_payload_len'[i] = ring_payload_len[i]
          /\ ring_meta'[i] = ring_meta[i]
          /\ ring_payload_len[i] \in 0 .. max_payload
      BY <1>3 DEF StoreNew, RingInv, RingTypeOK
    <2>2. ASSUME NEW j \in 1 .. ring_payload_len[i]
          PROVE  ring_payload_store'[i * max_payload + j - 1]
                   = ring_payload_store[i * max_payload + j - 1]
      <3>1. j - 1 \in 0 .. (max_payload - 1)
        BY <1>1, <2>1
      <3>2. /\ i * max_payload \in Nat /\ i * max_payload + (j - 1) \in StoreIdx
            /\ i * max_payload + (j - 1) = i * max_payload + j - 1
        BY <3>1, SlotInStore
      <3>3. ASSUME NEW b \in 0 .. (Len(payload) - 1)
            PROVE  i * max_payload + (j - 1) # dst_off + b
        <4>1. b \in 0 .. (max_payload - 1) /\ i \in Nat
          BY <1>1 DEF Slot
        <4>2. QED
          BY <1>1, <1>3, <3>1, <4>1, SlotsApart
      <3>4. (i * max_payload + (j - 1)) - dst_off \notin 0 .. (Len(payload) - 1)
        BY <1>1, <3>2, <3>3
      <3>5. QED
        BY <1>2, <3>2, <3>4
    <2>3. QED
      BY <2>1, <2>2 DEF SlotFrame
  <1>4. ASSUME NEW i \in Slot, i = ring_tail
        PROVE  SlotFrame(i)' = [payload |-> payload, meta |-> meta]
    <2>1. ring_payload_len'[ring_tail] = Len(payload) /\ ring_meta'[ring_tail] = meta
      BY <1>1 DEF StoreNew, RingInv, RingTypeOK
    <2>2. ASSUME NEW j \in 1 .. Len(payload)
          PROVE  ring_payload_store'[dst_off + j - 1] = payload[j]
      <3>1. j - 1 \in 0 .. (max_payload - 1)
        BY <1>1
      <3>2. dst_off + (j - 1) \in StoreIdx /\ dst_off + (j - 1) = dst_off + j - 1
        BY <1>1, <3>1, SlotInStore
      <3>3. /\ (dst_off + (j - 1)) - dst_off \in 0 .. (Len(payload) - 1)
            /\ (dst_off + (j - 1)) - dst_off + 1 = j
        BY <1>1
      <3>4. QED
        BY <1>2, <3>2, <3>3
    <2>3. [j \in 1 .. Len(payload) |-> ring_payload_store'[dst_off + j - 1]] = payload
      BY <1>1, <2>2
    <2>4. QED
      BY <1>4, <2>1, <2>3 DEF SlotFrame
  <1>5. QED
    BY <1>3, <1>4

\* Storing a frame is Put of the abstract queue.
LEMMA StoreNewIsPut ==
  ASSUME RingInv, NEW payload \in Payload, NEW meta \in Meta, StoreNew(payload, meta)
  PROVE  Fifo!Put([payload |-> payload, meta |-> meta])
  <1> DEFINE f == [payload |-> payload, meta |-> meta]
  <1>1. /\ ring_count \in 0 .. (ring_size - 1) /\ ring_count < ring_size
        /\ ring_count' = ring_count + 1 /\ ring_head' = ring_head /\ popped' = popped
        /\ ring_size \in 2 .. 128
    BY SizeType DEF RingInv, RingTypeOK, StoreNew, RingFull
  <1>2. \A k \in 1 .. (ring_count + 1) : QueueSlot(k)' = QueueSlot(k)
    BY <1>1 DEF QueueSlot
  <1>3. ASSUME NEW k \in 1 .. (ring_count + 1)
        PROVE  SlotFrame(QueueSlot(k))' = IF k = ring_count + 1 THEN f
                                          ELSE SlotFrame(QueueSlot(k))
    <2>1. /\ QueueSlot(k) \in Slot
          /\ QueueSlot(k) = ring_tail <=> k = ring_count + 1
      BY <1>1, QueueSlots
    <2>2. ASSUME NEW i \in Slot, i = QueueSlot(k)
          PROVE  SlotFrame(QueueSlot(k))' = SlotFrame(i)'
      <3>1. QueueSlot(k)' = i
        BY <1>2, <2>2
      <3>2. QED
        BY <3>1 DEF SlotFrame
    <2>3. QED
      BY <2>1, <2>2, StoreNewFrames
  <1>4. RingQueue' = [k \in 1 .. (ring_count + 1) |->
                        IF k = ring_count + 1 THEN f ELSE RingQueue[k]]
    BY <1>1, <1>3 DEF RingQueue
  <1>5. RingQueue' = Append(RingQueue, f)
    <2> HIDE DEF f
    <2>1. f \in Frame
      BY DEF f, Frame
    <2>2. QED
      BY <1>4, <2>1, QueueType, AppendElements
  <1>6. QED
    BY <1>1, <1>5, QueueType DEF Fifo!Put

\* Reading a frame is Take of the abstract queue.
LEMMA PopIsTake ==
  ASSUME RingInv, NEW buf_len \in Nat, pop_one(buf_len)
  PROVE  Fifo!Take(buf_len)
  <1>1. /\ ring_count \in 1 .. ring_size /\ ring_count \in Nat
        /\ ring_count' = ring_count - 1
        /\ ring_size \in 2 .. 128
        /\ ring_head \in Slot /\ ring_head' = (ring_head + 1) % ring_size
        /\ \A i : SlotFrame(i)' = SlotFrame(i)
    BY SizeType DEF RingInv, RingTypeOK, pop_one, SlotFrame
  <1>2. QueueSlot(1) = ring_head
    BY <1>1, QueueSlots DEF Slot
  <1>3. ASSUME NEW k \in 1 .. (ring_count - 1)
        PROVE  QueueSlot(k)' = QueueSlot(k + 1)
    <2>1. QueueSlot(k)' = IF ring_head' + k - 1 < ring_size THEN ring_head' + k - 1
                          ELSE ring_head' + k - 1 - ring_size
      <3>1. RingInv'
        BY PopInv
      <3>2. ring_head' \in Slot /\ k - 1 \in 0 .. ring_size
        BY <1>1, <3>1 DEF RingInv, RingTypeOK
      <3>3. ring_head' + (k - 1) = ring_head' + k - 1
        BY <1>1, <3>2 DEF Slot
      <3>4. QED
        BY <1>1, <3>2, <3>3, Wrap DEF QueueSlot
    <2>2. ring_head' = IF ring_head + 1 < ring_size THEN ring_head + 1
                       ELSE ring_head + 1 - ring_size
      BY <1>1, Wrap
    <2>3. /\ k + 1 \in 1 .. ring_size
          /\ QueueSlot(k + 1) = IF ring_head + (k + 1) - 1 < ring_size
                                THEN ring_head + (k + 1) - 1
                                ELSE ring_head + (k + 1) - 1 - ring_size
      BY <1>1, QueueSlots
    <2>4. QED
      BY <1>1, <2>1, <2>2, <2>3 DEF Slot
  <1>4. ASSUME NEW k \in 1 .. (ring_count - 1)
        PROVE  SlotFrame(QueueSlot(k))' = SlotFrame(QueueSlot(k + 1))
    <2>1. QueueSlot(k)' = QueueSlot(k + 1)
      BY <1>3
    <2>2. QED
      BY <2>1 DEF SlotFrame, pop_one
  <1>5. RingQueue' = [k \in 1 .. (ring_count - 1) |-> RingQueue[k + 1]]
    BY <1>1, <1>4 DEF RingQueue
  <1>6. RingQueue # <<>> /\ RingQueue' = Tail(RingQueue) /\ Head(RingQueue) = RingQueue[1]
    <2>1. /\ RingQueue \in Seq(Frame) /\ Len(RingQueue) = ring_count
          /\ Len(RingQueue) > 0
      BY <1>1, QueueType
    <2>2. QED
      BY <1>5, <2>1, HeadTailElements
  <1>7. Head(RingQueue) = SlotFrame(ring_head)
    BY <1>1, <1>2, <1>6 DEF RingQueue
  <1>8. popped' = Fifo!Cut(SlotFrame(ring_head), buf_len)
    <2> DEFINE len == ring_payload_len[ring_head]
               n   == IF len <= buf_len THEN len ELSE buf_len
    <2>1. /\ SlotFrame(ring_head).payload = [j \in 1 .. len |->
                ring_payload_store[ring_head * max_payload + j - 1]]
          /\ Len(SlotFrame(ring_head).payload) = len
          /\ len \in Nat
          /\ SlotFrame(ring_head).meta = ring_meta[ring_head]
      <3>1. RingTypeOK
        BY DEF RingInv
      <3>2. len \in 0 .. max_payload /\ len \in Nat
        BY <1>1, <3>1, MaxPayloadType DEF RingTypeOK
      <3>3. SlotFrame(ring_head).meta = ring_meta[ring_head]
        BY DEF SlotFrame
      <3>4. QED
        BY <1>1, <3>1, <3>2, <3>3, SlotFrameType
    <2>2. [j \in 1 .. n |-> SlotFrame(ring_head).payload[j]]
            = [j \in 1 .. n |-> ring_payload_store[ring_head * max_payload + j - 1]]
      BY <2>1
    <2>3. n # len <=> len > buf_len
      BY <2>1
    <2>4. popped' = [buf |-> [j \in 1 .. n |->
                                ring_payload_store[ring_head * max_payload + j - 1]],
                     meta |-> ring_meta[ring_head], truncated |-> n # len]
      BY DEF pop_one
    <2>5. Fifo!Cut(SlotFrame(ring_head), buf_len)
            = [buf       |-> [j \in 1 .. n |-> SlotFrame(ring_head).payload[j]],
               meta      |-> ring_meta[ring_head],
               truncated |-> len > buf_len]
      <3> HIDE DEF len
      <3>1. QED
        BY <2>1 DEF Fifo!Cut
    <2>6. QED
      <3> HIDE DEF len, n
      <3>1. (n # len) = (len > buf_len)
        BY <2>3
      <3>2. QED
        BY <2>2, <2>4, <2>5, <3>1
  <1>9. QED
    BY <1>6, <1>7, <1>8 DEF Fifo!Take

\* The flat, wrapping ring of WfbRx behaves for its callers as a bounded first-in first-out
\* queue: whole frames, in order, without bytes of older frames, lost only when new and
\* only when the ring is full.  For every ring size, MTU, byte and metadata.
THEOREM RingImplementsFifo == RingSpec => RingIsFifo
  <1>1. RingInit => Fifo!FifoInit
    <2>1. RingInit => RingQueue = <<>>
      BY DEF RingInit, RingQueue
    <2>2. QED
      BY <2>1 DEF RingInit, Fifo!FifoInit
  <1>2. RingInv /\ [RingNext]_ringVars => [Fifo!FifoNext]_(Fifo!fifoVars)
    <2> SUFFICES ASSUME RingInv, [RingNext]_ringVars
                 PROVE  [Fifo!FifoNext]_(Fifo!fifoVars)
      OBVIOUS
    <2>1. CASE UNCHANGED ringVars
      BY <2>1 DEF ringVars, Fifo!fifoVars, RingQueue, QueueSlot, SlotFrame
    <2>2. ASSUME NEW payload \in Payload, NEW meta \in Meta, enqueue_decoded(payload, meta)
          PROVE  [Fifo!FifoNext]_(Fifo!fifoVars)
      <3>1. [payload |-> payload, meta |-> meta] \in Frame
        BY DEF Frame
      <3>2. CASE StoreNew(payload, meta)
        BY <3>1, <3>2, StoreNewIsPut DEF Fifo!FifoNext
      <3>3. QED
        BY <2>1, <2>2, <3>2 DEF enqueue_decoded, DropNew
    <2>3. ASSUME NEW buf_len \in BufLen, pop_one(buf_len)
          PROVE  [Fifo!FifoNext]_(Fifo!fifoVars)
      BY <2>3, PopIsTake, RingAssumption DEF Fifo!FifoNext
    <2>4. QED
      BY <2>1, <2>2, <2>3 DEF RingNext
  <1>3. QED
    BY <1>1, <1>2, RingInitInv, RingNextInv, PTL DEF RingSpec, RingIsFifo, Fifo!FifoSpec
=============================================================================
