----------------------------- MODULE MCRadiotap -----------------------------
(***************************************************************************)
(* Radiotap over headers with one or two presence words.  The bits have    *)
(* alignments of 1, 2, 4 and 8 and sizes of 1, 2, 3, 4, 8 and 12 bytes; 18 *)
(* and 29 are not in field_layout.  Packets are cut anywhere from an empty *)
(* header to past its end.                                                 *)
(***************************************************************************)
EXTENDS Radiotap

FirstWords == SUBSET {1, 3, 11, 15, 18, 19, 20, 22}
LaterWords == SUBSET {5, 11, 29}

Len1 == {0, 7, 8, 11, 13, 20, 29, 45, 60}

OneWord == {[version |-> 0, len |-> 8, words |-> <<w>>, pkt_len |-> n] :
              w \in FirstWords, n \in Len1}

TwoWords == {[version |-> 0, len |-> 12, words |-> <<v, w>>, pkt_len |-> n] :
               v \in SUBSET {1, 5, 11, 29}, w \in LaterWords, n \in {11, 12, 40}}

Odd == {[version |-> 1, len |-> 8, words |-> <<{1}>>, pkt_len |-> 40],
        [version |-> 0, len |-> 41, words |-> <<{1}>>, pkt_len |-> 40],
        [version |-> 0, len |-> 8, words |-> <<{1}, {}>>, pkt_len |-> 11],   \* second word cut
        [version |-> 0, len |-> 13, words |-> <<{15, 19}>>, pkt_len |-> 13],
        [version |-> 0, len |-> 13, words |-> <<{15, 19}>>, pkt_len |-> 45]}

MCHeader == OneWord \cup TwoWords \cup Odd

\* A receiver with two antennas, the way Linux describes each in a word of its own.
MCExtended == {[version |-> 0, len |-> 30, pkt_len |-> 80,
                words |-> <<{1, 3, 5, 14, 29}, {5, 11, 29}, {5, 11}>>]}
=============================================================================
