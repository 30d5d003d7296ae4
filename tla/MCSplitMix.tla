----------------------------- MODULE MCSplitMix -----------------------------
(* Model checking of SplitMix: ranges from the smallest to the largest     *)
(* number of five bits.                                                    *)
EXTENDS SplitMix, SplitMixArithmetic

Extremes == {-16, -15, -1, 0, 1, 2, 15}
=============================================================================
