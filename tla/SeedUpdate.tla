----------------------------- MODULE SeedUpdate -----------------------------
(***************************************************************************)
(* The words of src/ccheck/splitmix.c and the function update, on words of *)
(* any width.  A word is the number of its bits; a signed comparison goes  *)
(* by the number it stands for.                                            *)
(***************************************************************************)
EXTENDS Integers

CONSTANTS
  Half,    \* 2^63
  Excess   \* 13: the prime George is 2^64 + Excess

ASSUME HalfAssumption ==
  /\ Half \in Nat \ {0}
  /\ Excess \in 1..Half

Modulus == 2 * Half
Int64   == 0 .. Modulus-1
George  == Modulus + Excess

Signed(x)   == IF x < Half THEN x ELSE x - Modulus
Unsigned(n) == n % Modulus

(* Mutant: George is taken off before the value is known to reach it.      *)
UpdateEarly(s, g) ==
  LET r == Unsigned(s + g)
  IN  IF Signed(r) >= Signed(s) THEN r ELSE Unsigned(r - Excess)

(* The literal 0x800000000000000DL is unsigned.  The sum of signed numbers *)
(* wraps, as the build, which does not optimise, compiles it.              *)
update(s, g) ==
  LET r == Unsigned(s + g)
  IN  IF Signed(r) >= Signed(s) THEN r
      ELSE IF r >= Half + Excess THEN Unsigned(r - Excess)
      ELSE Unsigned(r - Excess + g)

(* The place of a word in the order of signed numbers.                     *)
Place(x) == Signed(x) + Half
=============================================================================
