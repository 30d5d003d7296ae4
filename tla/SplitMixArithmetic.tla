------------------------- MODULE SplitMixArithmetic -------------------------
(***************************************************************************)
(* The mixing functions of src/ccheck/splitmix.c on words of any width.    *)
(***************************************************************************)
EXTENDS SeedUpdate, Bitwise

CONSTANTS
  Width,       \* the bits of an int64_t
  Small,       \* the 56 bits of mix56
  Shift,       \* the 33 bits that the mixing functions shift by
  SmallShift,  \* the same in mix56
  Odd1, Odd2   \* the multipliers of the mixing functions

ASSUME WidthAssumption ==
  /\ Width \in Nat \ {0} /\ Half = 2^(Width-1)
  /\ Small \in 1..Width-1
  /\ Odd1 % 2 = 1 /\ Odd2 % 2 = 1

LSR(x, n) == x \div 2^n

Mixed(z, bits, shift) ==
  LET a == ((z ^^ LSR(z, shift)) * Odd1) % 2^bits
      b == ((a ^^ LSR(a, shift)) * Odd2) % 2^bits
  IN  b ^^ LSR(b, shift)

mix64(z) == Mixed(z, Width, Shift)
mix56(z) == Mixed(z, Small, SmallShift)
=============================================================================
