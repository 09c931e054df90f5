----------------------------- MODULE NumberFacts -----------------------------
(***************************************************************************)
(* Facts about numbers that the proofs about schedules, samples and totals *)
(* need and the library does not state: least elements, Min and Max of the *)
(* community modules, division.                                            *)
(*                                                                         *)
(* Where an argument goes along a list, LeastNatural takes the place of    *)
(* induction: of the places where the claim fails, one would be the first. *)
(***************************************************************************)
EXTENDS Integers, FiniteSetsExt, TLAPS, WellFoundedInduction

(* A set of natural numbers that has any has a least one.                    *)
LEMMA LeastNatural ==
    ASSUME NEW T \in SUBSET Nat, T # {}
    PROVE  \E x \in T : \A y \in T : x <= y
  <1> DEFINE R == OpToRel(<, Nat)
  <1>1. IsWellFoundedOn(R, Nat)
    BY NatLessThanWellFounded
  <1>2. \A x, y \in Nat : x < y => <<x, y>> \in R
    BY DEF OpToRel
  <1> HIDE DEF R
  <1>3. \E x \in T : \A y \in T : ~ (<<y, x>> \in R)
    BY <1>1, WFMin
  <1>4. \A x, y \in T : ~ (<<y, x>> \in R) => x <= y
    <2> SUFFICES ASSUME NEW x \in T, NEW y \in T, ~(x <= y) PROVE <<y, x>> \in R
      OBVIOUS
    <2>1. x \in Nat /\ y \in Nat
      OBVIOUS
    <2>2. y < x
      BY <2>1
    <2> QED
      BY <1>2, <2>1, <2>2
  <1> QED
    BY <1>3, <1>4

(* It is the one that Min chooses.                                           *)
LEMMA LeastIsMin ==
    ASSUME NEW T \in SUBSET Nat, T # {}
    PROVE  Min(T) \in T /\ \A y \in T : Min(T) <= y
  BY LeastNatural DEF Min

(* A bounded set of integers has a greatest one, and Max chooses it.         *)
LEMMA GreatestInteger ==
    ASSUME NEW T, T \subseteq Int, NEW b \in Int, \A x \in T : x <= b, T # {}
    PROVE  Max(T) \in T /\ \A y \in T : Max(T) >= y
  <1> DEFINE U == {x \in Nat : b - x \in T}
  <1>1. U \in SUBSET Nat /\ U # {}
    <2>1. PICK x \in T : TRUE
      OBVIOUS
    <2>2. x \in Int /\ x <= b
      BY <2>1
    <2>3. b - x \in Nat /\ b - (b - x) = x
      BY <2>2
    <2> QED
      BY <2>1, <2>3
  <1>2. PICK u \in U : \A y \in U : u <= y
    BY <1>1, LeastNatural
  <1>3. b - u \in T /\ \A y \in T : b - u >= y
    <2> SUFFICES ASSUME NEW y \in T PROVE b - u >= y
      OBVIOUS
    <2>1. y \in Int /\ y <= b
      OBVIOUS
    <2>2. b - y \in Nat /\ b - (b - y) = y
      BY <2>1
    <2>3. u <= b - y
      BY <1>2, <2>2
    <2>4. u \in Nat
      OBVIOUS
    <2> QED
      BY <2>1, <2>3, <2>4
  <1> QED
    BY <1>3 DEF Max

(* Min and Max of two numbers, as the code's min() and max() take them.      *)
LEMMA MinOfTwo ==
    ASSUME NEW a \in Int, NEW b \in Int
    PROVE  Min({a, b}) = IF a <= b THEN a ELSE b
  BY DEF Min

(* The same for Max.                                                         *)
LEMMA MaxOfTwo ==
    ASSUME NEW a \in Int, NEW b \in Int
    PROVE  Max({a, b}) = IF a >= b THEN a ELSE b
  BY DEF Max

-----------------------------------------------------------------------------
(* Division, as timeshift.py uses // and %. *)

(* What is left over is below the divisor.                                   *)
LEMMA DivMod ==
    ASSUME NEW n \in Nat \ {0}, NEW a \in Int
    PROVE  /\ a % n \in 0..n - 1 /\ a \div n \in Int
           /\ a = n * (a \div n) + (a % n)
  OBVIOUS

(* And is the only such number.                                              *)
LEMMA ModUnique ==
    ASSUME NEW n \in Nat \ {0}, NEW q \in Int, NEW r \in 0..n - 1
    PROVE  /\ (n * q + r) % n = r /\ (n * q + r) \div n = q
  OBVIOUS

(* Multiples of the divisor leave nothing over.                              *)
LEMMA ModPlus ==
    ASSUME NEW n \in Nat \ {0}, NEW q \in Int, NEW a \in Int
    PROVE  (n * q + a) % n = a % n
  <1>1. a % n \in 0..n - 1 /\ a \div n \in Int /\ a = n * (a \div n) + (a % n)
    BY DivMod
  <1>2. n * (q + (a \div n)) = n * q + n * (a \div n)
    BY <1>1
  <1>3. n * q + a = n * (q + (a \div n)) + (a % n)
    BY <1>1, <1>2
  <1>4. q + (a \div n) \in Int
    BY <1>1
  <1> QED
    BY <1>1, <1>3, <1>4, ModUnique

(* What is left over may be taken before adding.                             *)
LEMMA ModAdd ==
    ASSUME NEW n \in Nat \ {0}, NEW a \in Int, NEW b \in Int
    PROVE  ((a % n) + b) % n = (a + b) % n
  <1>1. a % n \in 0..n - 1 /\ a \div n \in Int /\ a = n * (a \div n) + (a % n)
    BY DivMod
  <1>2. a + b = n * (a \div n) + ((a % n) + b) /\ (a % n) + b \in Int
    BY <1>1
  <1> QED
    BY <1>1, <1>2, ModPlus

(* A minute of the week is the same minute of its day.                       *)
LEMMA ModMod ==
    ASSUME NEW n \in Nat \ {0}, NEW m \in Nat \ {0}, NEW a \in Int
    PROVE  (a % (m * n)) % n = a % n
  <1> DEFINE w == m * n
  <1>1. w \in Nat \ {0}
    OBVIOUS
  <1>2. a % w \in 0..w - 1 /\ a \div w \in Int /\ a = w * (a \div w) + (a % w)
    BY <1>1, DivMod
  <1> DEFINE q == m * (a \div w)
             r == a % w
  <1>3. q \in Int /\ r \in Int
    BY <1>1, <1>2
  <1>4. a = n * q + r
    BY <1>1, <1>2
  <1> HIDE DEF q, r
  <1>5. (n * q + r) % n = r % n
    BY <1>3, ModPlus
  <1> QED
    BY <1>4, <1>5 DEF r

=============================================================================
