-------------------------- MODULE NumberInduction --------------------------
(***************************************************************************)
(* Induction over natural numbers, stated for sets of numbers instead of   *)
(* predicates: a fact that is to hold of every number becomes the set of   *)
(* the numbers that it holds of.  The proofs about folds and recursive     *)
(* functions rest on these lemmas.                                         *)
(***************************************************************************)
EXTENDS Naturals, TLAPS, WellFoundedInduction

Less == {pair \in Nat \X Nat : pair[1] < pair[2]}

\* Every set of natural numbers that is not empty has a least element.
LEMMA LeastNumber ==
  ASSUME NEW T, T \subseteq Nat, T # {}
  PROVE  \E x \in T : \A y \in T : x <= y
  <1>1. IsWellFoundedOn(Less, Nat)
    BY NatLessThanWellFounded, Zenon DEF OpToRel, Less
  <1>2. PICK x \in T : \A y \in T : ~(<<y, x>> \in Less)
    BY <1>1, WFMin, Zenon
  <1>3. ASSUME NEW y \in T
        PROVE  x <= y
    <2>1. ~(<<y, x>> \in Less) /\ x \in Nat /\ y \in Nat
      BY <1>2
    <2>2. QED
      BY <2>1 DEF Less
  <1>4. QED
    BY <1>3

\* What holds of 0, and of a number's successor if of the number, holds of all.
LEMMA UpwardInduction ==
  ASSUME NEW S, 0 \in S, \A k \in Nat : k \in S => k + 1 \in S
  PROVE  Nat \subseteq S
  <1> SUFFICES ASSUME Nat \ S # {}
               PROVE  FALSE
    OBVIOUS
  <1>1. PICK x \in Nat \ S : \A y \in Nat \ S : x <= y
    BY LeastNumber
  <1>2. x - 1 \in Nat /\ x - 1 \in S
    BY <1>1
  <1>3. QED
    BY <1>1, <1>2

\* The same downwards, from n + 1 to 1.
LEMMA DownwardInduction ==
  ASSUME NEW n \in Nat, NEW S, n + 1 \in S,
         \A k \in 1 .. n : k + 1 \in S => k \in S
  PROVE  1 .. n + 1 \subseteq S
  <1> DEFINE U == {j \in Nat : j <= n => n + 1 - j \in S}
  <1>1. 0 \in U
    OBVIOUS
  <1>2. ASSUME NEW j \in Nat, j \in U
        PROVE  j + 1 \in U
    <2>1. CASE j + 1 <= n
      <3>1. n - j \in 1 .. n /\ (n - j) + 1 = n + 1 - j
        BY <2>1
      <3>2. n - j \in S
        BY <1>2, <2>1, <3>1
      <3>3. n + 1 - (j + 1) = n - j
        OBVIOUS
      <3>4. QED
        BY <3>2, <3>3
    <2>2. QED
      BY <2>1
  <1>3. Nat \subseteq U
    <2> HIDE DEF U
    <2>1. QED
      BY <1>1, <1>2, UpwardInduction
  <1>4. ASSUME NEW k \in 1 .. n + 1
        PROVE  k \in S
    <2>1. n + 1 - k \in U /\ n + 1 - k <= n /\ n + 1 - (n + 1 - k) = k
      BY <1>3
    <2>2. QED
      BY <2>1
  <1>5. QED
    BY <1>4
=============================================================================
