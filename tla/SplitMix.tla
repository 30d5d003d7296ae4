------------------------------ MODULE SplitMix ------------------------------
(***************************************************************************)
(* The generators of src/ccheck/splitmix.c: what SplitMix64_init,          *)
(* SplitMix64_initDefault and SplitMix64_split make, and what is drawn     *)
(* from them.  A generator belongs to one thread.                          *)
(***************************************************************************)
EXTENDS SeedUpdate

CONSTANTS
  Mix64(_), Mix56(_),  \* the mixing functions: see SplitMixArithmetic
  Percy,       \* GAMMA_PRIME, the largest prime of 56 bits
  GammaGamma,  \* GAMMA_GAMMA
  NGens,       \* the generators are 1..NGens
  Bounds       \* the bounds of the ranges it is asked for

ASSUME MixAssumption ==
  /\ \A z \in Int64 : Mix64(z) \in Int64
  /\ \A z \in 0..Percy-1 : Mix56(z) \in 0 .. Half-1-Excess
  /\ \A y, z \in 0..Percy-1 : Mix56(y) = Mix56(z) => y = z

(* Percy is prime: the multiples of GAMMA_GAMMA differ modulo Percy.       *)
ASSUME PercyAssumption ==
  /\ Percy \in Nat /\ GammaGamma \in 1..Percy-1
  /\ \A d, e \in 0..Percy-1 :
       (d * GammaGamma) % Percy = (e * GammaGamma) % Percy => d = e

(* George is prime: so do the multiples of a gamma modulo George.          *)
ASSUME GeorgeAssumption ==
  \A g \in Excess..Half-1 : \A d, e \in 0..George-1 :
    (d * g) % George = (e * g) % George => d = e

ASSUME BoundsAssumption == NGens \in Nat /\ Bounds \subseteq -Half..Half-1

VARIABLE gens    \* the SplitMix64 of each, or None

None == [seed |-> -1, gamma |-> -1, nextSplit |-> -1, depth |-> -1]
Gens == 1..NGens
Made == {i \in Gens : gens[i] # None}

(* Mutant: the gamma of the parent is used again.                          *)
InitImplAgain(seed, s, depth) ==
  [seed |-> seed, gamma |-> Mix56(s) + Excess, nextSplit |-> s, depth |-> depth % Percy]

(* depth counts how often GAMMA_GAMMA was added, modulo GAMMA_PRIME.       *)
SplitMix64_initImpl(seed, s, depth) ==
  LET t == IF s + GammaGamma >= Percy THEN s + GammaGamma - Percy ELSE s + GammaGamma
  IN  [seed |-> seed, gamma |-> Mix56(t) + Excess, nextSplit |-> t, depth |-> depth % Percy]

nextRaw64(g) == [g EXCEPT !.seed = update(g.seed, g.gamma)]

SplitMix64_nextInt64(g) == Mix64(nextRaw64(g).seed)

(* Mutant: the remainder of the signed number, which C rounds to zero.     *)
RangeSigned(g, lb, ub) ==
  LET x == Signed(SplitMix64_nextInt64(g))
      n == Unsigned(ub - lb)
      y == IF x >= 0 THEN x % n ELSE -((-x) % n)
  IN  Signed(Unsigned(y + lb))

(* ub - lb and the sum may wrap.                                           *)
SplitMix64_nextInt64Range(g, lb, ub) ==
  Signed(Unsigned((SplitMix64_nextInt64(g) % Unsigned(ub - lb)) + lb))
-----------------------------------------------------------------------------
Init == gens = [i \in Gens |-> None]

InitSeed(i, seed) ==
  gens' = [gens EXCEPT ![i] = SplitMix64_initImpl(seed, 0, 1)]

(* The seed is one that nextDefaultSeed gives: see DefaultSeed.            *)
InitDefault(i, seed) ==
  gens' = [gens EXCEPT ![i] = SplitMix64_initImpl(seed, GammaGamma, 2)]

Split(dest, src) ==
  /\ src \in Made \ {dest}
  /\ LET g == nextRaw64(gens[src])
     IN  gens' = [gens EXCEPT ![src] = g,
                    ![dest] = SplitMix64_initImpl(g.seed, g.nextSplit, g.depth + 1)]

(* nextInt64, nextInt64Range and nextDouble each draw one word.            *)
Draw(i) ==
  /\ i \in Made
  /\ gens' = [gens EXCEPT ![i] = nextRaw64(@)]

Next ==
  \E i \in Gens :
    \/ \E seed \in Int64 : InitSeed(i, seed) \/ InitDefault(i, seed)
    \/ \E src \in Gens : Split(i, src)
    \/ Draw(i)

Spec == Init /\ [][Next]_gens
-----------------------------------------------------------------------------
SplitMix64 ==
  [seed : Int64, gamma : Excess..Half-1, nextSplit : 0..Percy-1, depth : 0..Percy-1]

TypeOK == gens \in [Gens -> SplitMix64 \union {None}]

(* What the depth of a generator stands for.                               *)
SplitsAreMultiples ==
  \A i \in Made :
    /\ gens[i].nextSplit = (gens[i].depth * GammaGamma) % Percy
    /\ gens[i].gamma = Mix56(gens[i].nextSplit) + Excess

IInv == TypeOK /\ SplitsAreMultiples

(***************************************************************************)
(* No generator comes back to a seed before it went through all words:     *)
(* adding gamma modulo the prime George, and once more when the sum is not *)
(* a word, is one cycle whatever the gamma (update).                       *)
(***************************************************************************)
Orbit ==
  \A i \in Made :
    LET at[n \in 0..Modulus] == IF n = 0 THEN gens[i].seed ELSE update(at[n-1], gens[i].gamma)
    IN  {at[n] : n \in 1..Modulus} = Int64

(***************************************************************************)
(* A generator and those split off it, and off these, have gammas of their *)
(* own until GAMMA_GAMMA was added GAMMA_PRIME times                       *)
(* (SplitMix64_initImpl), and keep the requirement 0 <= s < Percy.         *)
(***************************************************************************)
GammasByDepth ==
  \A i, j \in Made :
    /\ gens[i].nextSplit \in 0..Percy-1
    /\ gens[i].gamma = gens[j].gamma <=> gens[i].depth = gens[j].depth

(***************************************************************************)
(* SplitMix64_nextInt64Range gives a number in [lb, ub), also when ub - lb *)
(* is more than the largest signed number.                                 *)
(***************************************************************************)
RangesHold ==
  \A i \in Made : \A lb, ub \in Bounds :
    lb < ub => SplitMix64_nextInt64Range(gens[i], lb, ub) \in lb .. ub-1
=============================================================================
