--------------------------- MODULE RadiotapProofs ---------------------------
(***************************************************************************)
(* Proofs about Radiotap, for every header and every length of the packet: *)
(* the walk never stands past the packet, and it reads every field in its  *)
(* place.  What makes it inductive is where cur_off is: behind every field *)
(* that was read, and right behind one of them or at the first argument.   *)
(***************************************************************************)
EXTENDS Radiotap, InductionLemmas

Walked ==
  pc = "walk" =>
    /\ \A x \in found : x.field < field_index /\ End(x) <= cur_off
    /\ cur_off = args_offset \/ \E x \in found : End(x) = cur_off
    /\ cur_off \in args_offset .. header.pkt_len

Unstarted == pc = "start" => found = {} /\ field_index = 0 /\ ant_idx = 0

WalkInv == WalkTypeOK /\ Unstarted /\ Walked /\ ReadInPlace

-----------------------------------------------------------------------------
\* Rounding up to an alignment.
LEMMA AlignUp ==
  ASSUME NEW v \in Nat, NEW field \in Known
  PROVE  /\ align_up(v, Align(field)) \in v .. (v + Align(field) - 1)
         /\ align_up(v, Align(field)) % Align(field) = 0
         /\ align_up(v, Align(field)) \in Nat
<1>1. CASE Align(field) = 1
  BY <1>1 DEF align_up
<1>2. CASE Align(field) = 2
  BY <1>2 DEF align_up
<1>3. CASE Align(field) = 4
  BY <1>3 DEF align_up
<1>4. CASE Align(field) = 8
  BY <1>4 DEF align_up
<1>5. QED BY <1>1, <1>2, <1>3, <1>4 DEF Align

LEMMA SizeNat == ASSUME NEW field \in Known PROVE Size(field) \in Nat
  BY DEF Size, Known

LEMMA HeaderType ==
  ASSUME header \in Header
  PROVE  /\ header.pkt_len \in Nat /\ args_offset \in Nat
         /\ Len(header.words) \in Nat
  BY HeaderAssumption DEF args_offset

LEMMA WalkInit == Init => WalkInv
  BY DEF Init, WalkInv, WalkTypeOK, Unstarted, Walked, ReadInPlace

\* A field is read behind all the others.
LEMMA VisitInv ==
  ASSUME WalkInv, Visit
  PROVE  WalkInv'
<1>1. PICK field \in Present : /\ IsNext(field) /\ ~Stops(field)
                               /\ Placed(field) + Size(field) <= header.pkt_len
                               /\ Read(field)
  BY DEF Visit
<1> DEFINE off == Placed(field)
           new == [field |-> field, off |-> off, ant |-> ant_idx]
<1>2. pc = "walk" /\ pc' = "walk" /\ header' = header
  BY DEF Visit
<1>3. /\ header \in Header /\ header.pkt_len \in Nat /\ args_offset \in Nat
      /\ field_index \in Nat /\ cur_off \in Nat /\ ant_idx \in 0 .. 4
      /\ found \subseteq [field : Known, off : Nat, ant : 0 .. 3]
  BY HeaderType DEF WalkInv, WalkTypeOK
<1>4. field \in Known /\ field \in Nat /\ field >= field_index /\ ant_idx \in 0 .. 3
  BY <1>1, <1>3 DEF Stops, Present, Known
<1>5. /\ off \in Nat /\ off >= cur_off /\ off < cur_off + Align(field)
      /\ off % Align(field) = 0
      /\ Align(field) \in Nat
  BY <1>3, <1>4, AlignUp DEF Placed, Align
<1>6. Size(field) \in Nat /\ \A x \in found : Size(x.field) \in Nat /\ x.off \in Nat /\ x.field \in Nat
  BY <1>3, <1>4, SizeNat DEF Known
<1>7. /\ found' = found \cup {new} /\ cur_off' = off + Size(field) /\ field_index' = field + 1
      /\ ant_idx' = IF field = RTAP_ANTENNA THEN ant_idx + 1 ELSE ant_idx
  BY <1>1 DEF Read
<1>8. new.field = field /\ new.off = off /\ End(new) = off + Size(field)
  BY DEF End
<1>9. /\ \A x \in found : x.field < field_index /\ End(x) <= cur_off /\ End(x) \in Nat
      /\ cur_off = args_offset \/ \E x \in found : End(x) = cur_off
      /\ cur_off \in args_offset .. header.pkt_len
  BY <1>2, <1>6 DEF WalkInv, Walked, End
<1>10. args_offset' = args_offset
  BY <1>2 DEF args_offset
<1> HIDE DEF off, new
<1>11. new \in [field : Known, off : Nat, ant : 0 .. 3]
  BY <1>4, <1>5 DEF new, off
<1>12. WalkTypeOK'
  <2>1. ant_idx' \in 0 .. 4 /\ field_index' \in Nat
    BY <1>3, <1>4, <1>7
  <2>2. cur_off' \in args_offset .. header.pkt_len
    BY <1>1, <1>3, <1>5, <1>6, <1>7, <1>9 DEF off
  <2>3. QED BY <1>2, <1>3, <1>7, <1>10, <1>11, <2>1, <2>2 DEF WalkTypeOK
<1>13. Walked'
  <2>1. \A x \in found' : x.field < field_index' /\ End(x) <= cur_off'
    BY <1>3, <1>4, <1>5, <1>6, <1>7, <1>8, <1>9
  <2>2. \E x \in found' : End(x) = cur_off'
    BY <1>7, <1>8
  <2>3. cur_off' \in args_offset .. header.pkt_len
    BY <1>1, <1>3, <1>5, <1>6, <1>7, <1>9 DEF off
  <2>4. QED BY <1>2, <1>10, <2>1, <2>2, <2>3 DEF Walked, End
<1>14. ReadInPlace'
  <2>1. SUFFICES ASSUME NEW x \in found'
                 PROVE  /\ x.off % Align(x.field) = 0
                        /\ x.off >= args_offset /\ End(x) <= header.pkt_len
                        /\ \A y \in found' : y.field < x.field => End(y) <= x.off
                        /\ \/ x.off < args_offset + Align(x.field)
                           \/ \E y \in found' : /\ y.field < x.field
                                                /\ x.off < End(y) + Align(x.field)
    BY <1>2, <1>10 DEF ReadInPlace, Before, End
  <2>2. CASE x = new
    <3>1. x.off % Align(x.field) = 0 /\ x.off >= args_offset
      BY <1>3, <1>5, <1>8, <1>9, <2>2
    <3>2. End(x) <= header.pkt_len
      BY <1>1, <1>8, <2>2 DEF off
    <3>3. \A y \in found' : y.field < x.field => End(y) <= x.off
      BY <1>3, <1>4, <1>5, <1>7, <1>8, <1>9, <2>2
    <3>4. \/ x.off < args_offset + Align(x.field)
          \/ \E y \in found' : /\ y.field < x.field
                               /\ x.off < End(y) + Align(x.field)
      BY <1>3, <1>4, <1>5, <1>6, <1>7, <1>8, <1>9, <2>2
    <3>5. QED BY <3>1, <3>2, <3>3, <3>4
  <2>3. CASE x \in found
    <3>1. /\ x.off % Align(x.field) = 0
          /\ x.off >= args_offset /\ End(x) <= header.pkt_len
          /\ \A y \in found : y.field < x.field => End(y) <= x.off
          /\ \/ x.off < args_offset + Align(x.field)
             \/ \E y \in found : /\ y.field < x.field
                                 /\ x.off < End(y) + Align(x.field)
      BY <2>3 DEF WalkInv, ReadInPlace, Before
    <3>2. ~(new.field < x.field)
      BY <1>3, <1>4, <1>6, <1>8, <1>9, <2>3
    <3>3. QED BY <1>7, <3>1, <3>2
  <2>4. QED BY <1>7, <2>1, <2>2, <2>3
<1>15. Unstarted'
  BY <1>2 DEF Unstarted
<1>16. QED BY <1>12, <1>13, <1>14, <1>15 DEF WalkInv

LEMMA WalkNext == WalkInv /\ [Next]_vars => WalkInv'
<1>1. SUFFICES ASSUME WalkInv, [Next]_vars PROVE WalkInv'
  OBVIOUS
<1>2. CASE UNCHANGED vars
  BY <1>1, <1>2 DEF vars, WalkInv, WalkTypeOK, Unstarted, Walked, ReadInPlace, Before, End,
                    args_offset
<1>3. CASE Start
  <2>1. header.pkt_len \in Nat /\ args_offset \in Nat
    BY <1>1, HeaderType DEF WalkInv, WalkTypeOK
  <2>2. QED BY <1>1, <1>3, <2>1 DEF Start, WellFramed, WalkInv, WalkTypeOK, Unstarted, Walked,
                                    ReadInPlace, Before, End, args_offset
<1>4. CASE Refuse \/ PastEnd \/ Finish
  <2>1. /\ UNCHANGED <<header, field_index, cur_off, ant_idx, found>>
        /\ pc' \in {"Some", "None"} /\ pc \in {"start", "walk"}
    BY <1>4 DEF Refuse, PastEnd, Finish, Outcome
  <2>2. QED BY <1>1, <2>1 DEF WalkInv, WalkTypeOK, Unstarted, Walked, ReadInPlace, Before, End,
                              args_offset
<1>5. CASE Visit
  BY <1>1, <1>5, VisitInv
<1>6. QED BY <1>1, <1>2, <1>3, <1>4, <1>5 DEF Next

LEMMA WalkInvariant == Spec => []WalkInv
BY WalkInit, WalkNext, PTL DEF Spec

\* The walk's variables have their types and it never stands past the packet.
THEOREM WalkTypeCorrect == Spec => []WalkTypeOK
<1>1. WalkInv => WalkTypeOK
  BY DEF WalkInv
<1>2. QED BY <1>1, WalkInvariant, PTL

\* Every field of every header is read where the radiotap layout puts it, inside the
\* packet and apart from every other field.
THEOREM FieldsReadInPlace == Spec => []ReadInPlace
<1>1. WalkInv => ReadInPlace
  BY DEF WalkInv
<1>2. QED BY <1>1, WalkInvariant, PTL

-----------------------------------------------------------------------------
(* Nothing readable is left out *)

first == header.words[1]

Fields == {x.field : x \in found}

\* The walk has read every present field before field_index, so that with one
\* antenna to a word it never stops for the antennas it has.
Swept ==
  /\ pc \in {"start", "walk"} => Fields = {f \in first : f < field_index}
  /\ ant_idx = 0 \/ (ant_idx = 1 /\ field_index > RTAP_ANTENNA)

SweepInv == WalkInv /\ Swept /\ ReadsAllItCan

\* The bits of the first word, and what of them is still to come.
LEMMA FirstWord ==
  ASSUME header \in Header
  PROVE  /\ first \subseteq 0 .. 30
         /\ \A f \in first : f >= field_index /\ field_index \in Nat => f \in Present
         /\ \A f \in Present : f < 31 /\ field_index \in Nat => f \in first
         /\ field_index \in Nat => \A f \in Present : f \in Nat /\ f >= field_index
<1>1. /\ header.words \in Seq(SUBSET (0 .. 30)) /\ Len(header.words) \in Nat \ {0}
  BY HeaderAssumption
<1>2. first \subseteq 0 .. 30
  <2>1. ASSUME NEW S, NEW s \in Seq(S), Len(s) \in Nat \ {0} PROVE s[1] \in S
    BY <2>1
  <2>2. header.words[1] \in SUBSET (0 .. 30)
    BY <1>1, <2>1
  <2>3. QED BY <2>2 DEF first
<1>3. \A f \in 0 .. 30 : f % 32 = f /\ f \div 32 = 0
  OBVIOUS
<1>4. ASSUME NEW f \in first, f >= field_index, field_index \in Nat PROVE f \in Present
  <2>1. f \in 0 .. 30 /\ f % 32 = f /\ f \div 32 = 0
    BY <1>2, <1>3, <1>4
  <2>2. f \in field_index .. (32 * Len(header.words) - 1)
    BY <1>1, <1>4, <2>1
  <2>3. f % 32 \in header.words[(f \div 32) + 1]
    BY <1>4, <2>1 DEF first
  <2>4. QED BY <2>2, <2>3 DEF Present
<1>5. ASSUME NEW f \in Present, f < 31, field_index \in Nat PROVE f \in first
  BY <1>1, <1>3, <1>5 DEF Present, first
<1>6. ASSUME NEW f \in Present, field_index \in Nat PROVE f \in Nat /\ f >= field_index
  <2>1. f \in field_index .. (32 * Len(header.words) - 1)
    BY DEF Present
  <2>2. QED BY <1>1, <1>6, <2>1
<1>7. QED BY <1>2, <1>4, <1>5, <1>6

\* The next field is one of the first word, and there is none between.
LEMMA VisitSweeps ==
  ASSUME SweepInv, Visit
  PROVE  Swept'
<1>1. PICK field \in Present : /\ IsNext(field) /\ ~Stops(field)
                               /\ Read(field)
  BY DEF Visit
<1>2. pc = "walk" /\ pc' = "walk" /\ header' = header /\ first' = first
  BY DEF Visit, first
<1>3. header \in Header /\ field_index \in Nat /\ ant_idx \in Nat
  BY DEF SweepInv, WalkInv, WalkTypeOK
<1>4. field \in Known /\ field \in Nat /\ field < 31 /\ field >= field_index
  <2>1. field \in Known
    BY <1>1 DEF Stops
  <2>2. field \in Nat /\ field < 31
    BY <2>1 DEF Known
  <2>3. QED BY <1>3, <2>1, <2>2, FirstWord
<1>5. field \in first /\ first \subseteq Nat
  BY <1>3, <1>4, FirstWord
<1>6. \A f \in first : f < field \/ f = field => f < field_index \/ f = field
  BY <1>1, <1>3, <1>4, <1>5, FirstWord DEF IsNext
<1>7. field_index' = field + 1 /\ Fields' = Fields \cup {field}
      /\ ant_idx' = IF field = RTAP_ANTENNA THEN ant_idx + 1 ELSE ant_idx
  <2> DEFINE new == [field |-> field, off |-> Placed(field), ant |-> ant_idx]
  <2>1. found' = found \cup {new} /\ new.field = field
    BY <1>1 DEF Read
  <2> HIDE DEF new
  <2>2. {x.field : x \in found'} = {x.field : x \in found} \cup {field}
    BY <2>1
  <2>3. QED BY <1>1, <2>2 DEF Read, Fields
<1>8. Fields = {f \in first : f < field_index}
  BY <1>2 DEF SweepInv, Swept
<1>8a. ant_idx = 0 \/ (ant_idx = 1 /\ field_index > RTAP_ANTENNA)
  BY DEF SweepInv, Swept
<1>9. Fields' = {f \in first : f < field_index'}
  <2>1. \A f \in first : f < field + 1 <=> f < field_index \/ f = field
    BY <1>3, <1>4, <1>5, <1>6
  <2>2. Fields \cup {field} = {f \in first : f < field_index \/ f = field}
    BY <1>5, <1>8
  <2>3. {f \in first : f < field_index \/ f = field} = {f \in first : f < field + 1}
    BY <2>1
  <2>4. QED BY <1>7, <2>2, <2>3
<1>10. ant_idx' = 0 \/ (ant_idx' = 1 /\ field_index' > RTAP_ANTENNA)
  BY <1>3, <1>4, <1>7, <1>8a DEF RTAP_ANTENNA
<1>11. QED BY <1>2, <1>9, <1>10 DEF Swept

\* At the end of the loop, the least bit that is left is of unknown size, or there is
\* none in the first word.
LEMMA FinishReadsAll ==
  ASSUME SweepInv, Finish
  PROVE  ReadsAllItCan'
<1>1. /\ pc = "walk" /\ header \in Header /\ field_index \in Nat
      /\ UNCHANGED <<header, found>>
  BY DEF Finish, Outcome, SweepInv, WalkInv, WalkTypeOK
<1>2. ~(ant_idx >= 4)
  BY DEF SweepInv, Swept
<1>3. Fields = {f \in first : f < field_index}
  BY <1>1 DEF SweepInv, Swept
<1>4. Fields \subseteq Known
  BY DEF SweepInv, WalkInv, WalkTypeOK, Fields
<1> DEFINE unknown == first \ Known
           placed  == {f \in first : \A u \in unknown : f < u}
<1>5. first \subseteq 0 .. 30
  BY <1>1, FirstWord
<1>6. Fields = placed
  <2>1. CASE \E f \in first : f >= field_index
    <3>1. Present # {} /\ Present \in SUBSET Nat
      BY <1>1, <2>1, FirstWord
    <3>2. PICK m \in Present : \A k \in Present : m <= k
      BY <3>1, LeastNumber
    <3>3. m \notin Known
      BY <1>1, <1>2, <3>2 DEF Finish, IsNext, Stops
    <3>4. \A f \in first : f >= field_index => m <= f
      BY <1>1, <3>2, FirstWord
    <3>5. m \in first /\ m \in Nat /\ m >= field_index
      <4>1. PICK f \in first : f >= field_index
        BY <2>1
      <4>2. m \in Nat /\ m >= field_index
        BY <1>1, <3>2, FirstWord
      <4>3. m <= f /\ f < 31
        BY <1>1, <1>5, <3>2, <4>1, FirstWord
      <4>4. m < 31
        BY <1>5, <4>1, <4>2, <4>3
      <4>5. QED BY <1>1, <3>2, <4>2, <4>4, FirstWord
    <3>6. m \in unknown /\ \A u \in unknown : m <= u
      BY <1>1, <1>3, <1>4, <1>5, <3>3, <3>4, <3>5
    <3>7. \A f \in first : f < field_index <=> f < m
      BY <1>1, <1>5, <3>4, <3>5
    <3>8. \A f \in first : f < m <=> \A u \in unknown : f < u
      BY <1>5, <3>5, <3>6
    <3>9. QED BY <1>3, <3>7, <3>8
  <2>2. CASE \A f \in first : f < field_index
    <3>1. Fields = first
      BY <1>3, <2>2
    <3>2. unknown = {}
      BY <1>4, <3>1
    <3>3. QED BY <3>1, <3>2
  <2>3. QED BY <1>1, <1>5, <2>1, <2>2
<1>7. QED BY <1>1, <1>6 DEF ReadsAllItCan, Fields, first

LEMMA SweepNext == SweepInv /\ [Next]_vars => SweepInv'
<1>1. SUFFICES ASSUME SweepInv, [Next]_vars PROVE SweepInv'
  OBVIOUS
<1>2. WalkInv'
  BY <1>1, WalkNext DEF SweepInv
<1>3. CASE Visit
  <2>1. pc' = "walk"
    BY <1>3 DEF Visit
  <2>2. QED BY <1>1, <1>2, <1>3, <2>1, VisitSweeps DEF SweepInv, ReadsAllItCan
<1>4. CASE Finish
  <2>1. Swept'
    BY <1>1, <1>4 DEF Finish, Outcome, SweepInv, Swept
  <2>2. QED BY <1>1, <1>2, <1>4, <2>1, FinishReadsAll DEF SweepInv
<1>5. CASE Refuse \/ PastEnd
  BY <1>1, <1>2, <1>5 DEF Refuse, PastEnd, Outcome, SweepInv, Swept, ReadsAllItCan
<1>6. CASE Start \/ UNCHANGED vars
  BY <1>1, <1>2, <1>6 DEF Start, vars, SweepInv, Swept, ReadsAllItCan, Fields, first
<1>7. QED BY <1>1, <1>3, <1>4, <1>5, <1>6 DEF Next

\* No header makes the walk leave out a field of the first word that could be placed.
THEOREM NothingReadableLeftOut == Spec => []ReadsAllItCan
<1>1. Init => SweepInv
  <2>1. SUFFICES ASSUME Init PROVE SweepInv
    OBVIOUS
  <2>2. first \subseteq 0 .. 30
    BY <2>1, FirstWord DEF Init
  <2>3. Fields = {f \in first : f < field_index}
    <3>1. Fields = {}
      BY <2>1 DEF Init, Fields
    <3>2. \A f \in first : ~(f < field_index)
      BY <2>1, <2>2 DEF Init
    <3>3. QED BY <3>1, <3>2
  <2>4. QED BY <2>1, <2>3, WalkInit DEF Init, SweepInv, Swept, ReadsAllItCan
<1>2. SweepInv => ReadsAllItCan
  BY DEF SweepInv
<1>3. QED BY <1>1, <1>2, SweepNext, PTL DEF Spec

-----------------------------------------------------------------------------
(* The header of this crate's own sender *)

ReadAt(field, off) == \E x \in found : x.field = field /\ x.off = off

\* The walk over the sender's header takes two turns.
OwnWalk ==
  IsOwn =>
    /\ pc # "None"
    /\ pc = "walk" =>
         \/ field_index = 0 /\ cur_off = 8 /\ ant_idx = 0
         \/ field_index = 16 /\ cur_off = 10 /\ ant_idx = 0 /\ ReadAt(RTAP_TX_FLAGS, 8)
         \/ field_index = 20 /\ ReadAt(RTAP_TX_FLAGS, 8) /\ ReadAt(RTAP_MCS, 10)
    /\ pc = "Some" => ReadAt(RTAP_TX_FLAGS, 8) /\ ReadAt(RTAP_MCS, 10)

OwnInv == WalkInv /\ OwnWalk

LEMMA OwnPresent ==
  ASSUME IsOwn, header \in Header, field_index \in Nat
  PROVE  /\ args_offset = 8 /\ WellFramed
         /\ Present = {f \in {RTAP_TX_FLAGS, RTAP_MCS} : f >= field_index}
<1>1. header.words = <<{15, 19}>> /\ Len(header.words) = 1 /\ header.words[1] = {15, 19}
  BY DEF IsOwn, RTAP_TX_FLAGS, RTAP_MCS
<1>2. \A i \in 0 .. 31 : i % 32 = i /\ i \div 32 = 0
  OBVIOUS
<1>3. Present = {f \in {15, 19} : f >= field_index}
  BY <1>1, <1>2 DEF Present
<1>4. args_offset = 8 /\ WellFramed
  BY <1>1, HeaderAssumption DEF args_offset, WellFramed, IsOwn, RADIOTAP_HEADER_HT_LEN
<1>5. QED BY <1>3, <1>4 DEF RTAP_TX_FLAGS, RTAP_MCS

LEMMA OwnNext == OwnInv /\ [Next]_vars => OwnInv'
<1>1. SUFFICES ASSUME OwnInv, [Next]_vars, IsOwn' PROVE OwnWalk'
  BY WalkNext DEF OwnInv, OwnWalk
<1>2. /\ header' = header /\ IsOwn /\ header \in Header /\ field_index \in Nat
      /\ header.pkt_len \in Nat /\ header.pkt_len >= 13
  BY <1>1, HeaderType DEF Next, vars, Start, Visit, Refuse, PastEnd, Finish, Outcome, IsOwn,
                          OwnInv, WalkInv, WalkTypeOK, RADIOTAP_HEADER_HT_LEN
<1>3. /\ args_offset = 8 /\ WellFramed
      /\ Present = {f \in {15, 19} : f >= field_index}
  BY <1>2, OwnPresent DEF RTAP_TX_FLAGS, RTAP_MCS
<1>4. OwnWalk
  BY <1>1 DEF OwnInv
<1> DEFINE Turn0 == field_index = 0 /\ cur_off = 8 /\ ant_idx = 0
           Turn1 == field_index = 16 /\ cur_off = 10 /\ ant_idx = 0 /\ ReadAt(15, 8)
           Turn2 == field_index = 20 /\ ReadAt(15, 8) /\ ReadAt(19, 10)
<1>5. pc = "walk" => Turn0 \/ Turn1 \/ Turn2
  BY <1>2, <1>4 DEF OwnWalk, RTAP_TX_FLAGS, RTAP_MCS
\* The field each turn reads, and where.
<1>6. ASSUME pc = "walk", NEW field \in Present, IsNext(field)
      PROVE  /\ ~Stops(field) /\ Placed(field) + Size(field) <= header.pkt_len
             /\ \/ Turn0 /\ field = 15 /\ Placed(field) = 8 /\ Size(field) = 2
                \/ Turn1 /\ field = 19 /\ Placed(field) = 10 /\ Size(field) = 3
  <2>1. ~Turn2
    BY <1>3, <1>6
  <2>2. CASE Turn0
    <3>1. field = 15
      BY <1>3, <1>6, <2>2 DEF IsNext
    <3>2. Align(15) = 2 /\ Size(15) = 2 /\ 15 \in Known
      BY DEF Align, Size, Known
    <3>3. Placed(15) = 8
      BY <2>2, <3>2 DEF Placed, align_up
    <3>4. ~Stops(15)
      BY <2>2, <3>2 DEF Stops
    <3>5. QED BY <1>2, <2>2, <3>1, <3>2, <3>3, <3>4
  <2>3. CASE Turn1
    <3>1. field = 19
      BY <1>3, <1>6, <2>3
    <3>2. Align(19) = 1 /\ Size(19) = 3 /\ 19 \in Known
      BY DEF Align, Size, Known
    <3>3. Placed(19) = 10
      BY <2>3, <3>2 DEF Placed, align_up
    <3>4. ~Stops(19)
      BY <2>3, <3>2 DEF Stops
    <3>5. QED BY <1>2, <2>3, <3>1, <3>2, <3>3, <3>4
  <2>4. QED BY <1>5, <1>6, <2>1, <2>2, <2>3
<1>7. CASE UNCHANGED vars
  BY <1>4, <1>7 DEF vars, OwnWalk, IsOwn, ReadAt
<1>8. CASE Refuse
  BY <1>3, <1>8 DEF Refuse
<1>9. CASE PastEnd
  <2>1. PICK field \in Present : IsNext(field) /\ Placed(field) + Size(field) > header.pkt_len
    BY <1>9 DEF PastEnd
  <2>2. pc = "walk"
    BY <1>9 DEF PastEnd
  <2>3. Placed(field) + Size(field) <= 13 /\ Placed(field) + Size(field) \in Nat
    BY <1>6, <2>1, <2>2
  <2>4. QED BY <1>2, <2>1, <2>3
<1>10. CASE Start
  <2>1. field_index = 0 /\ ant_idx = 0
    BY <1>1, <1>10 DEF Start, OwnInv, WalkInv, Unstarted
  <2>2. QED BY <1>3, <1>10, <2>1 DEF Start, OwnWalk
<1>11. CASE Finish
  <2>1. pc = "walk" /\ pc' = "Some" /\ found' = found
    BY <1>11 DEF Finish, Outcome
  <2>2. ~Turn0
    <3>1. SUFFICES ASSUME Turn0 PROVE FALSE
      OBVIOUS
    <3>2. 15 \in Present /\ IsNext(15)
      BY <1>3, <3>1 DEF IsNext
    <3>3. QED BY <1>6, <1>11, <2>1, <3>2 DEF Finish
  <2>3. ~Turn1
    <3>1. SUFFICES ASSUME Turn1 PROVE FALSE
      OBVIOUS
    <3>2. 19 \in Present /\ IsNext(19)
      BY <1>3, <3>1 DEF IsNext
    <3>3. QED BY <1>6, <1>11, <2>1, <3>2 DEF Finish
  <2>4. ReadAt(15, 8) /\ ReadAt(19, 10)
    BY <1>5, <2>1, <2>2, <2>3
  <2>5. QED BY <2>1, <2>4 DEF OwnWalk, ReadAt, RTAP_TX_FLAGS, RTAP_MCS
<1>12. CASE Visit
  <2>1. PICK field \in Present : IsNext(field) /\ Read(field)
    BY <1>12 DEF Visit
  <2>2. pc = "walk" /\ pc' = "walk"
    BY <1>12 DEF Visit
  <2> DEFINE new == [field |-> field, off |-> Placed(field), ant |-> ant_idx]
  <2>3. /\ found' = found \cup {new} /\ new.field = field /\ new.off = Placed(field)
        /\ ant_idx' = IF field = RTAP_ANTENNA THEN ant_idx + 1 ELSE ant_idx
        /\ cur_off' = Placed(field) + Size(field) /\ field_index' = field + 1
    BY <2>1 DEF Read
  <2> HIDE DEF new
  <2>5. CASE Turn0 /\ field = 15 /\ Placed(field) = 8 /\ Size(field) = 2
    <3>1. field_index' = 16 /\ cur_off' = 10 /\ ant_idx' = 0
      BY <2>3, <2>5 DEF RTAP_ANTENNA
    <3>2. ReadAt(15, 8)'
      BY <2>3, <2>5 DEF ReadAt
    <3>3. QED BY <2>2, <3>1, <3>2 DEF OwnWalk, RTAP_TX_FLAGS, RTAP_MCS
  <2>6. CASE Turn1 /\ field = 19 /\ Placed(field) = 10 /\ Size(field) = 3
    <3>1. field_index' = 20
      BY <2>3, <2>6
    <3>2. ReadAt(15, 8)' /\ ReadAt(19, 10)'
      BY <2>3, <2>6 DEF ReadAt
    <3>3. QED BY <2>2, <3>1, <3>2 DEF OwnWalk, RTAP_TX_FLAGS, RTAP_MCS
  <2>7. QED BY <1>6, <2>1, <2>2, <2>5, <2>6
<1>13. QED BY <1>1, <1>7, <1>8, <1>9, <1>10, <1>11, <1>12 DEF Next

\* Whatever packet it is part of, the header the sender builds is read as it was meant.
THEOREM OwnHeaderIsUnderstood == Spec => []OwnHeaderUnderstood
<1>1. Init => OwnInv
  BY WalkInit DEF Init, OwnInv, OwnWalk
<1>2. OwnInv => OwnHeaderUnderstood
  <2>1. SUFFICES ASSUME OwnInv, IsOwn, pc = "Some" PROVE OwnHeaderUnderstood
    BY DEF OwnInv, OwnWalk, OwnHeaderUnderstood
  <2>2. ReadAt(RTAP_TX_FLAGS, 8) /\ ReadAt(RTAP_MCS, 10)
    BY <2>1 DEF OwnInv, OwnWalk
  <2>3. QED BY <2>1, <2>2 DEF ReadAt, OwnHeaderUnderstood, MCS_FLAGS_OFF, MCS_IDX_OFF
<1>3. QED BY <1>1, <1>2, OwnNext, PTL DEF Spec
=============================================================================
