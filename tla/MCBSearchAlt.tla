---------------------------- MODULE MCBSearchAlt ----------------------------
(* Model checking of BSearchAlt: short arrays, every monotone predicate.   *)
EXTENDS BSearchAlt

CONSTANT MaxLen

UpToMaxLen == 0..MaxLen
=============================================================================
