------------------------------- MODULE RxRing -------------------------------
(***************************************************************************)
(* The bounded ring of WfbRx (src/rx.rs): ring_size slots, slot i with its *)
(* payload in bytes i*max_payload onwards of one flat store, its payload   *)
(* length and its metadata in arrays beside it.  enqueue_decoded fills the *)
(* slot at ring_tail and drops the NEW frame when the ring is full;        *)
(* pop_one empties the slot at ring_head.  Neither clears a slot, so the   *)
(* store keeps bytes of older, longer frames.                              *)
(***************************************************************************)
EXTENDS WfbProto, Sequences, SequencesExt

CONSTANTS Byte,          \* the bytes a payload is made of
          ZeroByte,      \* what the store is filled with at open
          Meta,          \* the values of WfbRxMeta, less the field `truncated`
          DefaultMeta,   \* WfbRxMeta::default()
          CfgRingSize,   \* ring_size of the WfbRxConfig given to open
          BufLen         \* lengths of the buffers callers pass, none of them zero

ASSUME RingAssumption ==
  /\ ZeroByte \in Byte
  /\ DefaultMeta \in Meta
  /\ CfgRingSize \in Nat
  /\ BufLen \subseteq Nat \ {0}

VARIABLES ring_count, ring_head, ring_tail,
          ring_payload_store, ring_payload_len, ring_meta,
          popped         \* what the last pop_one gave its caller

ringVars == <<ring_count, ring_head, ring_tail,
              ring_payload_store, ring_payload_len, ring_meta, popped>>

-----------------------------------------------------------------------------
\* open: 0 asks for the default of 16, any other value is clamped to 2..128.
ring_size ==
  LET asked == IF CfgRingSize = 0 THEN 16 ELSE CfgRingSize
  IN  IF asked < 2 THEN 2 ELSE IF asked > 128 THEN 128 ELSE asked

max_payload == compute_max_payload

Slot     == 0 .. (ring_size - 1)
StoreIdx == 0 .. (ring_size * max_payload - 1)

\* The payloads parse_and_enqueue_one_packet lets through: at most max_payload bytes.
Payload == BoundedSeq(Byte, max_payload)

Frame == [payload : Payload, meta : Meta]

NoFrame == [buf |-> <<>>, meta |-> DefaultMeta, truncated |-> FALSE]

RingInit ==
  /\ ring_count = 0 /\ ring_head = 0 /\ ring_tail = 0
  /\ ring_payload_store = [a \in StoreIdx |-> ZeroByte]
  /\ ring_payload_len = [i \in Slot |-> 0]
  /\ ring_meta = [i \in Slot |-> DefaultMeta]
  /\ popped = NoFrame

\* Mutant: slots one byte closer together than they are long.
MutCopied(payload, dst_off) ==
  [a \in StoreIdx |-> IF a - (dst_off - ring_tail) \in 0 .. (Len(payload) - 1)
                      THEN payload[a - (dst_off - ring_tail) + 1]
                      ELSE ring_payload_store[a]]

\* The store after payload is copied to the bytes from dst_off onwards.
Copied(payload, dst_off) ==
  [a \in StoreIdx |-> IF a - dst_off \in 0 .. (Len(payload) - 1)
                      THEN payload[a - dst_off + 1]
                      ELSE ring_payload_store[a]]

\* Mutants: the test for a full ring is off by one, either way.
MutFullLate  == ring_count > ring_size
MutFullEarly == ring_count + 1 >= ring_size

RingFull == ring_count >= ring_size

\* Mutant: the tail moves on when the frame is dropped.
MutDropNew ==
  /\ RingFull
  /\ ring_tail' = (ring_tail + 1) % ring_size
  /\ UNCHANGED <<ring_count, ring_head, ring_payload_store,
                 ring_payload_len, ring_meta, popped>>

DropNew == RingFull /\ UNCHANGED ringVars

StoreNew(payload, meta) ==
  /\ ~RingFull
  /\ ring_payload_len' = [ring_payload_len EXCEPT ![ring_tail] = Len(payload)]
  /\ ring_meta' = [ring_meta EXCEPT ![ring_tail] = meta]
  /\ ring_payload_store' = Copied(payload, ring_tail * max_payload)
  /\ ring_tail' = (ring_tail + 1) % ring_size
  /\ ring_count' = ring_count + 1
  /\ UNCHANGED <<ring_head, popped>>

enqueue_decoded(payload, meta) == DropNew \/ StoreNew(payload, meta)

\* Both callers of pop_one have tested ring_count > 0.
pop_one(buf_len) ==
  LET payload_len == ring_payload_len[ring_head]
      to_copy     == IF payload_len <= buf_len THEN payload_len ELSE buf_len
      src_off     == ring_head * max_payload
  IN  /\ ring_count > 0
      /\ popped' = [buf       |-> [i \in 1 .. to_copy |->
                                     ring_payload_store[src_off + i - 1]],
                    meta      |-> ring_meta[ring_head],
                    truncated |-> to_copy # payload_len]
      /\ ring_head' = (ring_head + 1) % ring_size
      /\ ring_count' = ring_count - 1
      /\ UNCHANGED <<ring_tail, ring_payload_store, ring_payload_len, ring_meta>>

RingNext ==
  \/ \E payload \in Payload, meta \in Meta : enqueue_decoded(payload, meta)
  \/ \E buf_len \in BufLen : pop_one(buf_len)

RingSpec == RingInit /\ [][RingNext]_ringVars

-----------------------------------------------------------------------------
\* Every field of the ring has its type: the count never passes the size, the
\* two cursors stay in the ring, and every length fits its slot.
RingTypeOK ==
  /\ ring_count \in 0 .. ring_size
  /\ ring_head \in Slot
  /\ ring_tail \in Slot
  /\ ring_payload_store \in [StoreIdx -> Byte]
  /\ ring_payload_len \in [Slot -> 0 .. max_payload]
  /\ ring_meta \in [Slot -> Meta]
  /\ popped \in [buf : Seq(Byte), meta : Meta, truncated : BOOLEAN]

\* The count and the two cursors are kept apart by enqueue_decoded and pop_one
\* and must agree all the same: the tail is always the count's distance ahead
\* of the head, around the ring.
CursorsAgree == ring_tail = (ring_head + ring_count) % ring_size

\* The frame a slot holds, and the frames of the ring from the oldest on.
SlotFrame(i) ==
  [payload |-> [j \in 1 .. ring_payload_len[i] |->
                  ring_payload_store[i * max_payload + j - 1]],
   meta    |-> ring_meta[i]]

QueueSlot(k) == (ring_head + k - 1) % ring_size

RingQueue == [k \in 1 .. ring_count |-> SlotFrame(QueueSlot(k))]

Fifo == INSTANCE BoundedFifo WITH Capacity <- ring_size, queue <- RingQueue

\* The ring is a bounded FIFO of whole frames: slots do not overlap in the flat
\* store, bytes of an older frame never reach a reader, frames come out in the
\* order they went in, and a frame is marked truncated exactly when it is cut.
\* Only the new frame is ever lost, and only when the ring holds ring_size.
RingIsFifo == Fifo!FifoSpec
=============================================================================
