------------------------------ MODULE Radiotap ------------------------------
(***************************************************************************)
(* radiotap_meta_from_packet (src/rx.rs): the walk over the fields of a    *)
(* radiotap header, whose presence bits say which fields follow, in which  *)
(* order and, with each field's alignment, at which offset.  A header is a *)
(* record                                                                  *)
(*   version  of radiotap,                                                 *)
(*   len      radiotap_len, as the header gives it,                        *)
(*   words    the presence words, each the set of its bits below 31; bit   *)
(*            31, "another word follows", is set in all but the last,      *)
(*   pkt_len  the length of the packet the header is part of.              *)
(* What the walk learns is where each field is: the bytes there are the    *)
(* driver's.                                                               *)
(***************************************************************************)
EXTENDS Integers, Sequences

CONSTANT Header     \* the headers packets come with

ASSUME HeaderAssumption ==
  \A h \in Header :
    /\ h.version \in Nat /\ h.len \in Nat /\ h.pkt_len \in Nat
    /\ h.words \in Seq(SUBSET (0 .. 30)) /\ h.words # <<>>

RTAP_FLAGS    == 1
RTAP_ANTENNA  == 11
RTAP_TX_FLAGS == 15
RTAP_MCS      == 19

\* field_layout knows these fields, each with its alignment and its size in bytes.
Known == (0 .. 17) \cup (19 .. 22)

Align(field) ==
  IF field \in {0, 22} THEN 8
  ELSE IF field = 20 THEN 4
  ELSE IF field \in {3, 4, 7, 8, 9, 14, 15, 21} THEN 2
  ELSE 1

\* Mutant: TX_FLAGS is one byte, as FLAGS is.
MutSize(field) ==
  CASE field \in {21, 22}         -> 12
    [] field \in {0, 20}          -> 8
    [] field = 3                  -> 4
    [] field = 19                 -> 3
    [] field \in {4, 7, 8, 9, 14} -> 2
    [] OTHER                      -> 1

Size(field) ==
  CASE field \in {21, 22}             -> 12
    [] field \in {0, 20}              -> 8
    [] field = 3                      -> 4
    [] field = 19                     -> 3
    [] field \in {4, 7, 8, 9, 14, 15} -> 2
    [] OTHER                          -> 1

\* Mutant: fields follow each other without padding.
MutAlignUp(v, align) == v

align_up(v, align) == ((v + (align - 1)) \div align) * align

VARIABLES header,        \* the header of the packet at hand
          pc,            \* "start", "walk", or the outcome, "Some" or "None"
          field_index,   \* where the loop over the presence bits is
          cur_off,       \* the offset behind the last field
          ant_idx,       \* antennas seen
          found          \* the fields read: which, where, and for which antenna

vars == <<header, pc, field_index, cur_off, ant_idx, found>>

args_offset == 8 + 4 * (Len(header.words) - 1)

Init ==
  /\ header \in Header
  /\ pc = "start"
  /\ field_index = 0 /\ cur_off = 0 /\ ant_idx = 0
  /\ found = {}

Outcome(o) == pc' = o /\ UNCHANGED <<header, field_index, cur_off, ant_idx, found>>

-----------------------------------------------------------------------------
\* Mutant: the room for the presence words is not tested.
MutWellFramed ==
  /\ header.pkt_len >= 8
  /\ header.version = 0
  /\ header.len <= header.pkt_len

\* The fixed part and the presence words lie inside the packet.
WellFramed ==
  /\ header.pkt_len >= 8
  /\ header.version = 0
  /\ header.len <= header.pkt_len
  /\ args_offset <= header.pkt_len

Refuse == pc = "start" /\ ~WellFramed /\ Outcome("None")

Start ==
  /\ pc = "start"
  /\ WellFramed
  /\ pc' = "walk"
  /\ cur_off' = args_offset
  /\ UNCHANGED <<header, field_index, ant_idx, found>>

\* The presence bits from field_index on, numbered through all the words.
Present ==
  {i \in field_index .. (32 * Len(header.words) - 1) :
     i % 32 \in header.words[(i \div 32) + 1]}

IsNext(field) == field \in Present /\ \A i \in Present : field <= i

\* Mutant: one antenna is enough.
MutStops(field) == ant_idx >= 1 \/ field \notin Known

Stops(field) == ant_idx >= 4 \/ field \notin Known

\* The walk is over: no bit is left, four antennas are known, or the next field is
\* not one whose size is known.
Finish ==
  /\ pc = "walk"
  /\ \A field \in Present : IsNext(field) => Stops(field)
  /\ Outcome("Some")

Placed(field) == align_up(cur_off, Align(field))

Read(field) ==
  /\ found' = found \cup {[field |-> field, off |-> Placed(field), ant |-> ant_idx]}
  /\ ant_idx' = IF field = RTAP_ANTENNA THEN ant_idx + 1 ELSE ant_idx
  /\ cur_off' = Placed(field) + Size(field)
  /\ field_index' = field + 1

Visit ==
  /\ pc = "walk"
  /\ \E field \in Present :
       /\ IsNext(field) /\ ~Stops(field)
       /\ Placed(field) + Size(field) <= header.pkt_len
       /\ Read(field)
  /\ UNCHANGED <<header, pc>>

\* The field would reach past the packet.
PastEnd ==
  /\ pc = "walk"
  /\ \E field \in Present :
       /\ IsNext(field) /\ ~Stops(field)
       /\ Placed(field) + Size(field) > header.pkt_len
  /\ Outcome("None")

Next == Refuse \/ Start \/ Visit \/ PastEnd \/ Finish

Spec == Init /\ [][Next]_vars

-----------------------------------------------------------------------------
\* The walk's variables have their types, and it never stands past the packet.
WalkTypeOK ==
  /\ header \in Header
  /\ pc \in {"start", "walk", "Some", "None"}
  /\ field_index \in Nat /\ cur_off \in Nat
  /\ ant_idx \in 0 .. 4
  /\ found \subseteq [field : Known, off : Nat, ant : 0 .. 3]
  /\ pc = "walk" => cur_off \in args_offset .. header.pkt_len

End(x) == x.off + Size(x.field)

Before(x) == {y \in found : y.field < x.field}

\* Every field is read at the offset the radiotap layout gives it: the first
\* multiple of its alignment at or after the end of the fields before it, and all of
\* it inside the packet.  So no two fields overlap, and a field that is not kept
\* still takes its room.
ReadInPlace ==
  \A x \in found :
    /\ x.off % Align(x.field) = 0
    /\ x.off >= args_offset /\ End(x) <= header.pkt_len
    /\ \A y \in Before(x) : End(y) <= x.off
    /\ \E end \in {args_offset} \cup {End(y) : y \in Before(x)} :
         x.off < end + Align(x.field)

\* A walk that succeeds has read every field of the first word up to the first whose
\* size is not known, after which nothing can be placed and nothing is read.
ReadsAllItCan ==
  pc = "Some" =>
    LET first   == header.words[1]
        unknown == first \ Known
        placed  == {f \in first : \A u \in unknown : f < u}
    IN  {x.field : x \in found} = placed

\* The header WfbTx puts before its frames (RADIOTAP_HT_TEMPLATE in src/tx.rs): 13
\* bytes, TX_FLAGS and MCS; build_radiotap_ht patches the bytes at MCS_FLAGS_OFF and
\* MCS_IDX_OFF.
RADIOTAP_HEADER_HT_LEN == 13
MCS_FLAGS_OFF == 11
MCS_IDX_OFF   == 12

IsOwn ==
  /\ header.version = 0
  /\ header.len = RADIOTAP_HEADER_HT_LEN /\ header.pkt_len >= RADIOTAP_HEADER_HT_LEN
  /\ header.words = <<{RTAP_TX_FLAGS, RTAP_MCS}>>

\* The receiver reads the header the sender builds the way it was meant: the frame
\* is self-injected, and the MCS field's second and third byte, from which bandwidth
\* and MCS index are taken, are the two bytes the sender patched.
OwnHeaderUnderstood ==
  IsOwn /\ pc \in {"Some", "None"} =>
    /\ pc = "Some"
    /\ \E x \in found : x.field = RTAP_TX_FLAGS
    /\ \E x \in found : /\ x.field = RTAP_MCS
                        /\ x.off + 1 = MCS_FLAGS_OFF /\ x.off + 2 = MCS_IDX_OFF

\* "Parse present words and extended present words." (src/rx.rs:90): the antennas
\* that drivers announce one per extended word are found, up to the four that
\* WfbRxMeta has room for.
ExtendedWordsRead ==
  pc = "Some" /\ (\A k \in DOMAIN header.words : header.words[k] \subseteq Known \cup {29}) =>
    \A k \in DOMAIN header.words :
      k <= 4 /\ RTAP_ANTENNA \in header.words[k]
        => \E x \in found : x.field % 32 = RTAP_ANTENNA /\ x.field \div 32 = k - 1
=============================================================================
