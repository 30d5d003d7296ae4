-------------------------- MODULE SeedUpdateProofs --------------------------
(***************************************************************************)
(* What update of src/ccheck/splitmix.c computes, for words of any width:  *)
(* it adds gamma modulo George to the place of the seed, and adds it again *)
(* when the sum is not the place of a word.  The gammas are those that     *)
(* SplitMix64_initImpl makes, from 13 to the largest positive number.      *)
(***************************************************************************)
EXTENDS SeedUpdate, TLAPS

LEMMA ModulusPositive == Modulus \in Nat /\ Modulus > 0 /\ Modulus = 2 * Half
BY HalfAssumption DEF Modulus

(* A sum that is a word, and one that wraps once, upwards or downwards.    *)
LEMMA Wraps ==
  ASSUME NEW m \in Nat, m > 0, NEW n \in Int
  PROVE  /\ 0 <= n /\ n < m => n % m = n
         /\ m <= n /\ n < 2*m => n % m = n - m
         /\ -m <= n /\ n < 0 => n % m = n + m
<1>1. ASSUME 0 <= n, n < m PROVE n % m = n
  BY <1>1, Z3
<1>2. ASSUME m <= n, n < 2*m PROVE n % m = n - m
  BY <1>2, SMT
<1>3. ASSUME -m <= n, n < 0 PROVE n % m = n + m
  BY <1>3, SMT
<1> QED
  BY <1>1, <1>2, <1>3

-----------------------------------------------------------------------------
(***************************************************************************)
(* The comparisons of update, which are between signed and unsigned        *)
(* numbers, find out exactly whether the sum reaches George and whether it *)
(* is the place of a word.                                                 *)
(***************************************************************************)
THEOREM UpdateAddsModuloGeorge ==
  ASSUME NEW s \in Int64, NEW g \in Excess .. Half-1
  PROVE  /\ update(s, g) \in Int64
         /\ Place(update(s, g)) =
              LET sum == Place(s) + g
              IN  IF sum < Modulus THEN sum
                  ELSE IF sum >= George THEN sum - George
                  ELSE sum + g - George
<1> DEFINE r == Unsigned(s + g)
<1>1. /\ Half \in Nat /\ Half > 0 /\ Modulus = 2 * Half
      /\ Excess \in Nat /\ Excess >= 1 /\ Excess <= Half
      /\ s \in Nat /\ s < Modulus
      /\ g \in Nat /\ g >= Excess /\ g < Half
  BY HalfAssumption, ModulusPositive DEF Int64
<1>2. ASSUME NEW n \in Int
      PROVE  /\ 0 <= n /\ n < Modulus => Unsigned(n) = n
             /\ Modulus <= n /\ n < 2 * Modulus => Unsigned(n) = n - Modulus
  BY Wraps, ModulusPositive DEF Unsigned
<1>3. CASE s < Half /\ s + g < Half
  <2>1. r = s + g
    BY <1>1, <1>2, <1>3
  <2>2. Signed(r) >= Signed(s)
    BY <1>1, <1>3, <2>1 DEF Signed
  <2>3. update(s, g) = s + g
    BY <2>1, <2>2 DEF update
  <2> QED
    BY <1>1, <1>3, <2>3 DEF Place, Signed, Int64
<1>4. CASE s < Half /\ s + g >= Half
  <2>1. r = s + g
    BY <1>1, <1>2, <1>4
  <2>2. /\ Signed(r) < Signed(s)
        /\ ~ (Signed(r) >= Signed(s))
    BY <1>1, <1>4, <2>1 DEF Signed
  <2>3. CASE s + g >= Half + Excess
    <3>1. update(s, g) = Unsigned(s + g - Excess)
      BY <2>1, <2>2, <2>3, <1>1 DEF update
    <3>2. update(s, g) = s + g - Excess
      BY <3>1, <1>1, <1>2, <2>3, <1>4
    <3> QED
      BY <1>1, <1>4, <2>3, <3>2 DEF Place, Signed, Int64, George
  <2>4. CASE s + g < Half + Excess
    <3>1. update(s, g) = Unsigned(s + g - Excess + g)
      BY <2>1, <2>2, <2>4, <1>1 DEF update
    <3>2. update(s, g) = s + g - Excess + g
      BY <3>1, <1>1, <1>2, <2>4, <1>4
    <3> QED
      BY <1>1, <1>4, <2>4, <3>2 DEF Place, Signed, Int64, George
  <2> QED
    BY <2>3, <2>4, <1>1
<1>5. CASE s >= Half /\ s + g < Modulus
  <2>1. r = s + g
    BY <1>1, <1>2, <1>5
  <2>2. Signed(r) >= Signed(s)
    BY <1>1, <1>5, <2>1 DEF Signed
  <2>3. update(s, g) = s + g
    BY <2>1, <2>2 DEF update
  <2> QED
    BY <1>1, <1>5, <2>3 DEF Place, Signed, Int64
<1>6. CASE s >= Half /\ s + g >= Modulus
  <2>1. r = s + g - Modulus
    BY <1>1, <1>2, <1>6
  <2>2. Signed(r) >= Signed(s)
    BY <1>1, <1>6, <2>1 DEF Signed
  <2>3. update(s, g) = s + g - Modulus
    BY <2>1, <2>2 DEF update
  <2> QED
    BY <1>1, <1>6, <2>3 DEF Place, Signed, Int64
<1> QED
  BY <1>1, <1>3, <1>4, <1>5, <1>6

(***************************************************************************)
(* Two states of a generator never meet: update has one seed for every     *)
(* value it gives, so a stream that comes back comes back to its start.    *)
(***************************************************************************)
THEOREM UpdateInjective ==
  ASSUME NEW s \in Int64, NEW z \in Int64, NEW g \in Excess .. Half-1,
         update(s, g) = update(z, g)
  PROVE  s = z
<1>1. /\ Half \in Nat /\ Modulus = 2 * Half /\ George = Modulus + Excess
      /\ Excess \in Nat /\ g \in Nat /\ g >= Excess /\ g < Half
  BY HalfAssumption, ModulusPositive DEF George
<1>2. /\ Place(s) \in 0 .. Modulus-1
      /\ Place(z) \in 0 .. Modulus-1
      /\ Place(s) = Place(z) => s = z
  BY <1>1 DEF Place, Signed, Int64
<1>3. Place(s) = Place(z)
  BY <1>1, <1>2, UpdateAddsModuloGeorge
<1> QED
  BY <1>2, <1>3
=============================================================================
