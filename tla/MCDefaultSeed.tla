---------------------------- MODULE MCDefaultSeed ----------------------------
(* Model checking of DefaultSeed: the generator is the one of splitmix.c   *)
(* on narrow words, with a gamma that is negative as DEFAULT_SEED_GAMMA is.*)
EXTENDS DefaultSeed, SplitMixArithmetic

CONSTANT SeedGamma

StepOf == [s \in Int64 |-> update(s, SeedGamma)]
SeedOf == [s \in Int64 |-> mix64(s)]
=============================================================================
