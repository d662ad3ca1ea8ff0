--------------------------- MODULE InductionLemmas ---------------------------
(***************************************************************************)
(* Induction over the natural numbers in a form the provers can use: about *)
(* a set of numbers, not about an operator.                                *)
(***************************************************************************)
EXTENDS Integers, WellFoundedInduction, TLAPS

\* Numbers that there are any of have a least one.
LEMMA LeastNumber ==
  ASSUME NEW S \in SUBSET Nat, S # {}
  PROVE  \E m \in S : \A k \in S : m <= k
<1>1. PICK m \in S : \A k \in S : <<k, m>> \notin OpToRel(<, Nat)
  BY NatLessThanWellFounded, WFMin
<1>2. ASSUME NEW k \in S PROVE m <= k
  <2>1. <<k, m>> \in OpToRel(<, Nat) <=> k < m
    BY DEF OpToRel
  <2>2. ~(k < m)
    BY <1>1, <2>1
  <2>3. QED BY <2>2
<1>3. QED BY <1>2

\* A set with 0 and with the successor of each of its numbers has them all.
LEMMA InductiveSet ==
  ASSUME NEW S \in SUBSET Nat, 0 \in S, \A n \in S : n + 1 \in S
  PROVE  S = Nat
<1>1. SUFFICES ASSUME Nat \ S # {} PROVE FALSE
  OBVIOUS
<1>2. PICK m \in Nat \ S : \A k \in Nat \ S : m <= k
  BY <1>1, LeastNumber
<1>3. m - 1 \in S
  BY <1>2
<1>4. QED BY <1>2, <1>3

\* f is a function on 0 .. n, from zero on one step at a time.
Recursion(f, n, S, zero, step) ==
  /\ f \in [0 .. n -> S] /\ f[0] = zero
  /\ \A k \in 1 .. n : f[k] = step[<<k, f[k - 1]>>]

\* Recursion over 0 .. n defines a function.
LEMMA RecursiveFunction ==
  ASSUME NEW n \in Nat, NEW S, NEW zero \in S, NEW step \in [(1 .. n) \X S -> S]
  PROVE  \E f : Recursion(f, n, S, zero, step)
<1> DEFINE Defines(f, m) == /\ f \in [0 .. m -> S] /\ f[0] = zero
                            /\ \A k \in 1 .. m : f[k] = step[<<k, f[k - 1]>>]
           Reached == {m \in Nat : m <= n => \E f : Defines(f, m)}
<1>1. 0 \in Reached
  <2>1. Defines([k \in 0 .. 0 |-> zero], 0)
    OBVIOUS
  <2>2. QED BY <2>1
<1>2. ASSUME NEW m \in Reached PROVE m + 1 \in Reached
  <2>1. SUFFICES ASSUME m + 1 <= n PROVE \E f : Defines(f, m + 1)
    OBVIOUS
  <2>2. PICK f : Defines(f, m)
    BY <2>1
  <2> DEFINE g == [k \in 0 .. (m + 1) |-> IF k = m + 1 THEN step[<<m + 1, f[m]>>] ELSE f[k]]
  <2>3. f[m] \in S /\ m \in Nat
    BY <2>2
  <2>4. step[<<m + 1, f[m]>>] \in S
    BY <2>1, <2>3
  <2>5. g \in [0 .. (m + 1) -> S] /\ g[0] = zero
    BY <2>2, <2>3, <2>4
  <2>6. ASSUME NEW k \in 1 .. (m + 1) PROVE g[k] = step[<<k, g[k - 1]>>]
    <3>1. CASE k = m + 1
      <4>1. g[m + 1] = step[<<m + 1, f[m]>>] /\ g[m] = f[m]
        BY <2>3
      <4>2. k - 1 = m
        BY <2>3, <3>1
      <4> HIDE DEF g
      <4>3. QED BY <3>1, <4>1, <4>2
    <3>2. CASE k \in 1 .. m
      BY <2>2, <2>3, <3>2
    <3>3. QED BY <2>3, <3>1, <3>2
  <2>7. QED BY <2>5, <2>6
<1>3. Reached = Nat
  <2> HIDE DEF Reached
  <2>1. Reached \in SUBSET Nat
    BY DEF Reached
  <2>2. QED BY <1>1, <1>2, <2>1, InductiveSet
<1>4. QED BY <1>3 DEF Recursion
=============================================================================
