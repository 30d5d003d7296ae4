--------------------------- MODULE SplitMixProofs ---------------------------
(***************************************************************************)
(* The generators of src/ccheck/splitmix.c, for words of any width, any    *)
(* mixing functions and any number of generators: split gives gammas of    *)
(* their own, and ranges are kept to.                                      *)
(***************************************************************************)
EXTENDS SplitMix, SeedUpdateProofs, WellFoundedInduction, FiniteSetTheorems,
        FunctionTheorems

(* The least-number principle, and with it induction over a set.           *)
LEMMA LeastNatural ==
  ASSUME NEW T, T \subseteq Nat, T # {}
  PROVE  \E n \in T : \A k \in T : n <= k
<1>1. PICK n \in T : \A k \in T : <<k, n>> \notin OpToRel(<, Nat)
  BY WFMin, NatLessThanWellFounded, Zenon
<1>2. ASSUME NEW k \in T PROVE ~ (k < n)
  BY <1>1, Zenon DEF OpToRel
<1> QED
  BY <1>2

LEMMA Induction ==
  ASSUME NEW S, 0 \in S, \A n \in Nat : n \in S => n + 1 \in S
  PROVE  Nat \subseteq S
<1> SUFFICES ASSUME Nat \ S # {} PROVE FALSE
  OBVIOUS
<1>1. PICK n \in Nat \ S : \A k \in Nat \ S : n <= k
  BY LeastNatural
<1>2. n - 1 \in Nat /\ n - 1 \in S
  BY <1>1
<1> QED
  BY <1>2

LEMMA DivisionOfNaturals ==
  ASSUME NEW p \in Nat, p > 0, NEW n \in Nat
  PROVE  /\ n \div p \in Nat
         /\ n % p \in 0..p-1
         /\ n = p * (n \div p) + (n % p)
<1>1. n % p \in 0..p-1
  BY Z3
<1>2. n \div p \in Nat
  BY Z3
<1>3. n = p * (n \div p) + (n % p)
  BY Z3
<1> QED
  BY <1>1, <1>2, <1>3

(* A number has one quotient and one remainder.                            *)
LEMMA RemainderIsUnique ==
  ASSUME NEW p \in Nat, p > 0, NEW q \in Nat, NEW r \in 0..p-1
  PROVE  (p * q + r) % p = r
<1>1. PICK k \in Nat, s \in 0..p-1 : p * q + r = p * k + s /\ s = (p * q + r) % p
  <2>1. p * q + r \in Nat
    OBVIOUS
  <2> QED
    BY <2>1, DivisionOfNaturals
<1>2. ASSUME NEW a \in Nat, NEW b \in Nat, a < b
      PROVE  p * b >= p * a + p
  <2>1. PICK c \in Nat : b = a + c + 1
    <3>1. b - a - 1 \in Nat /\ b = a + (b - a - 1) + 1
      BY <1>2
    <3> QED
      BY <3>1
  <2>2. p * b = p * a + p * c + p
    BY <2>1
  <2>3. p * c \in Nat
    OBVIOUS
  <2> QED
    BY <2>2, <2>3
<1>3. ~ (k < q)
  <2>1. k < q => p * q >= p * k + p
    BY <1>2
  <2> QED
    BY <1>1, <2>1
<1>4. ~ (q < k)
  <2>1. q < k => p * k >= p * q + p
    BY <1>2
  <2> QED
    BY <1>1, <2>1
<1>5. k = q
  BY <1>3, <1>4
<1> QED
  BY <1>1, <1>5

(* A sum modulo p without a division.                                      *)
LEMMA AddToRemainder ==
  ASSUME NEW p \in Nat, p > 0, NEW n \in Nat, NEW g \in 0..p-1
  PROVE  (n + g) % p = IF (n % p) + g < p THEN (n % p) + g ELSE (n % p) + g - p
<1> DEFINE q == n \div p
           r == n % p
<1>1. q \in Nat /\ r \in 0..p-1 /\ n = p * q + r
  BY DivisionOfNaturals
<1> HIDE DEF q, r
<1>2. CASE r + g < p
  <2>1. n + g = p * q + (r + g)
    BY <1>1
  <2> QED
    BY <1>1, <1>2, <2>1, RemainderIsUnique DEF r
<1>3. CASE r + g >= p
  <2>1. /\ q + 1 \in Nat
        /\ n + g = p * (q + 1) + (r + g - p)
        /\ r + g - p \in 0..p-1
    BY <1>1, <1>3
  <2>2. (n + g) % p = r + g - p
    BY <2>1, RemainderIsUnique
  <2> QED
    BY <1>1, <1>3, <2>2 DEF r
<1> QED
  BY <1>1, <1>2, <1>3 DEF r

Congruent(p, a, b) == a % p = b % p

(* A term that two congruent sums share can be taken off.                  *)
LEMMA SumsCongruent ==
  ASSUME NEW p \in Nat, p > 0, NEW c \in Nat, NEW a \in Nat, NEW b \in Nat,
         Congruent(p, c + a, c + b), a >= b
  PROVE  Congruent(p, a, b)
<1>1. PICK k \in Nat, l \in Nat, r \in 0..p-1 : c + a = p * k + r /\ c + b = p * l + r
  <2>1. PICK k \in Nat, r \in 0..p-1 : c + a = p * k + r /\ r = (c + a) % p
    <3>1. c + a \in Nat
      OBVIOUS
    <3> QED
      BY <3>1, DivisionOfNaturals
  <2>2. PICK l \in Nat, t \in 0..p-1 : c + b = p * l + t /\ t = (c + b) % p
    <3>1. c + b \in Nat
      OBVIOUS
    <3> QED
      BY <3>1, DivisionOfNaturals
  <2>3. r = t
    BY <2>1, <2>2, Zenon DEF Congruent
  <2> QED
    BY <2>1, <2>2, <2>3
<1>2. PICK q \in Nat, t \in 0..p-1 : b = p * q + t /\ t = b % p
  BY DivisionOfNaturals
<1>3. k >= l
  <2>1. SUFFICES ASSUME k < l PROVE FALSE
    OBVIOUS
  <2>2. PICK m \in Nat : l = k + m + 1
    <3>1. l - k - 1 \in Nat /\ l = k + (l - k - 1) + 1
      BY <2>1
    <3> QED
      BY <3>1
  <2>3. p * l = p * k + p * m + p
    BY <2>2
  <2>4. p * m \in Nat
    OBVIOUS
  <2> QED
    BY <1>1, <2>3, <2>4
<1>4. PICK m \in Nat : k = l + m
  <2>1. k - l \in Nat /\ k = l + (k - l)
    BY <1>3
  <2> QED
    BY <2>1
<1>5. p * k = p * l + p * m
  BY <1>4
<1>6. a = p * (q + m) + t
  <2>1. p * (q + m) = p * q + p * m
    OBVIOUS
  <2>2. p * q \in Nat /\ p * m \in Nat /\ p * k \in Nat /\ p * l \in Nat
    OBVIOUS
  <2> QED
    BY <1>1, <1>2, <1>5, <2>1, <2>2
<1> QED
  BY <1>2, <1>6, RemainderIsUnique DEF Congruent

LEMMA TermsCongruent ==
  ASSUME NEW p \in Nat, p > 0, NEW c \in Nat, NEW a \in Nat, NEW b \in Nat,
         Congruent(p, c + a, c + b)
  PROVE  Congruent(p, a, b)
<1>1. CASE a >= b
  BY <1>1, SumsCongruent
<1>2. CASE b >= a
  <2>1. Congruent(p, c + b, c + a)
    BY DEF Congruent
  <2>2. Congruent(p, b, a)
    BY <1>2, <2>1, SumsCongruent
  <2> QED
    BY <2>2 DEF Congruent
<1> QED
  BY <1>1, <1>2

-----------------------------------------------------------------------------
(* The sum that SplitMix64_initImpl makes without a division.              *)
Advanced(s) == IF s + GammaGamma >= Percy THEN s + GammaGamma - Percy ELSE s + GammaGamma

LEMMA PercyPositive ==
  /\ Percy \in Nat /\ Percy > 1
  /\ GammaGamma \in Nat /\ GammaGamma > 0 /\ GammaGamma < Percy
BY PercyAssumption

LEMMA NextMultiple ==
  ASSUME NEW d \in 0..Percy-1, NEW s, s = (d * GammaGamma) % Percy
  PROVE  /\ Advanced(s) \in 0..Percy-1
         /\ (d + 1) % Percy \in 0..Percy-1
         /\ Advanced(s) = (((d + 1) % Percy) * GammaGamma) % Percy
<1> USE PercyPositive
<1> DEFINE n == d * GammaGamma
           q == n \div Percy
<1>1. n \in Nat
  OBVIOUS
<1>2. q \in Nat /\ s \in 0..Percy-1 /\ n = Percy * q + s
  BY <1>1, DivisionOfNaturals
<1> HIDE DEF q
<1>3. Advanced(s) \in 0..Percy-1
  BY <1>2 DEF Advanced
<1>4. (n + GammaGamma) % Percy = Advanced(s)
  BY <1>1, AddToRemainder DEF Advanced
<1>5. (d + 1) * GammaGamma = n + GammaGamma
  OBVIOUS
<1>6. CASE d + 1 < Percy
  <2>1. (d + 1) % Percy = d + 1
    BY <1>6, Wraps
  <2> QED
    BY <1>3, <1>4, <1>5, <1>6, <2>1
<1>7. CASE d + 1 = Percy
  <2>1. (d + 1) % Percy = 0
    BY <1>7, Wraps
  <2>2. (Percy * GammaGamma + 0) % Percy = 0
    BY RemainderIsUnique
  <2>3. n + GammaGamma = Percy * GammaGamma + 0
    BY <1>5, <1>7
  <2>4. (0 * GammaGamma) % Percy = 0
    BY Wraps
  <2> QED
    BY <1>3, <1>4, <2>1, <2>2, <2>3, <2>4
<1> QED
  BY <1>6, <1>7

-----------------------------------------------------------------------------
(* What IInv says of one generator.                                        *)
Sound(g) ==
  /\ g \in SplitMix64
  /\ g.nextSplit = (g.depth * GammaGamma) % Percy
  /\ g.gamma = Mix56(g.nextSplit) + Excess

LEMMA NoneIsNotSound == None \notin SplitMix64
<1>1. None.seed = -1
  BY DEF None
<1>2. \A g \in SplitMix64 : g.seed \in Int64
  BY DEF SplitMix64
<1>3. -1 \notin Int64
  BY DEF Int64
<1> QED
  BY <1>1, <1>2, <1>3

(* IInv, generator by generator.                                           *)
LEMMA OneByOne ==
  IInv <=> /\ gens = [i \in Gens |-> gens[i]]
           /\ \A i \in Gens : gens[i] = None \/ Sound(gens[i])
BY NoneIsNotSound DEF IInv, TypeOK, SplitsAreMultiples, Made, Sound

LEMMA OneByOneNext ==
  (IInv <=> /\ gens = [i \in Gens |-> gens[i]]
            /\ \A i \in Gens : gens[i] = None \/ Sound(gens[i]))'
BY OneByOne, PTL

LEMMA InitImplSound ==
  ASSUME NEW seed \in Int64, NEW d \in 0..Percy-1,
         NEW s, s = (d * GammaGamma) % Percy
  PROVE  Sound(SplitMix64_initImpl(seed, s, d + 1))
<1> DEFINE g == SplitMix64_initImpl(seed, s, d + 1)
<1>1. g = [seed |-> seed, gamma |-> Mix56(Advanced(s)) + Excess,
           nextSplit |-> Advanced(s), depth |-> (d + 1) % Percy]
  BY DEF SplitMix64_initImpl, Advanced
<1>2. Mix56(Advanced(s)) + Excess \in Excess..Half-1
  BY NextMultiple, MixAssumption, HalfAssumption
<1> QED
  BY <1>1, <1>2, NextMultiple DEF Sound, SplitMix64

(* The draw of a word moves the seed and nothing else.                     *)
LEMMA DrawSound ==
  ASSUME NEW g, Sound(g)
  PROVE  /\ Sound(nextRaw64(g))
         /\ nextRaw64(g).seed \in Int64
<1>1. update(g.seed, g.gamma) \in Int64
  BY UpdateAddsModuloGeorge DEF Sound, SplitMix64
<1>2. nextRaw64(g) = [seed |-> update(g.seed, g.gamma), gamma |-> g.gamma,
                      nextSplit |-> g.nextSplit, depth |-> g.depth]
  BY DEF nextRaw64, Sound, SplitMix64
<1> QED
  BY <1>1, <1>2 DEF Sound, SplitMix64

(***************************************************************************)
(* In every behaviour the generators satisfy IInv: each has the multiple   *)
(* of GAMMA_GAMMA that its depth says, and the gamma mixed from it         *)
(* (SplitMix64_initImpl, SplitMix64_split).                                *)
(***************************************************************************)
THEOREM Invariance == Spec => []IInv
<1>1. Init => IInv
  BY OneByOne DEF Init
<1>2. IInv /\ [Next]_gens => IInv'
  <2> SUFFICES ASSUME IInv, [Next]_gens PROVE IInv'
    OBVIOUS
  <2>1. /\ gens = [k \in Gens |-> gens[k]]
        /\ \A k \in Gens : gens[k] = None \/ Sound(gens[k])
    BY OneByOne
  <2>2. ASSUME NEW i \in Gens, NEW seed \in Int64, InitSeed(i, seed) PROVE IInv'
    <3>1. 0 \in 0..Percy-1 /\ 0 = (0 * GammaGamma) % Percy
      BY PercyPositive, Wraps
    <3>2. Sound(SplitMix64_initImpl(seed, 0, 0 + 1))
      BY <3>1, InitImplSound
    <3>3. gens' = [gens EXCEPT ![i] = SplitMix64_initImpl(seed, 0, 1)]
      BY <2>2 DEF InitSeed
    <3> QED
      BY <2>1, <3>2, <3>3, OneByOneNext
  <2>3. ASSUME NEW i \in Gens, NEW seed \in Int64, InitDefault(i, seed) PROVE IInv'
    <3>1. 1 \in 0..Percy-1 /\ GammaGamma = (1 * GammaGamma) % Percy
      BY PercyPositive, Wraps
    <3>2. Sound(SplitMix64_initImpl(seed, GammaGamma, 1 + 1))
      BY <3>1, InitImplSound
    <3>3. gens' = [gens EXCEPT ![i] = SplitMix64_initImpl(seed, GammaGamma, 2)]
      BY <2>3 DEF InitDefault
    <3> QED
      BY <2>1, <3>2, <3>3, OneByOneNext
  <2>4. ASSUME NEW i \in Gens, NEW src \in Gens, Split(i, src) PROVE IInv'
    <3> DEFINE g == nextRaw64(gens[src])
               h == SplitMix64_initImpl(g.seed, g.nextSplit, g.depth + 1)
    <3>1. Sound(gens[src])
      BY <2>1, <2>4 DEF Split, Made
    <3>2. Sound(g)
      BY <3>1, DrawSound
    <3>3. g.seed \in Int64 /\ g.depth \in 0..Percy-1
      BY <3>2 DEF Sound, SplitMix64
    <3>4. g.nextSplit = (g.depth * GammaGamma) % Percy
      BY <3>2 DEF Sound
    <3>5. Sound(h)
      BY <3>3, <3>4, InitImplSound
    <3>6. gens' = [gens EXCEPT ![src] = g, ![i] = h]
      BY <2>4 DEF Split
    <3> HIDE DEF g, h
    <3> QED
      BY <2>1, <3>2, <3>5, <3>6, OneByOneNext
  <2>5. ASSUME NEW i \in Gens, Draw(i) PROVE IInv'
    <3>1. Sound(nextRaw64(gens[i]))
      BY <2>1, <2>5, DrawSound DEF Draw, Made
    <3>2. gens' = [gens EXCEPT ![i] = nextRaw64(gens[i])]
      BY <2>5 DEF Draw
    <3> QED
      BY <2>1, <3>1, <3>2, OneByOneNext
  <2>6. CASE UNCHANGED gens
    BY <2>1, <2>6, OneByOneNext
  <2> QED
    BY <2>2, <2>3, <2>4, <2>5, <2>6 DEF Next
<1> QED
  BY <1>1, <1>2, PTL DEF Spec

(***************************************************************************)
(* Two generators have one gamma exactly when their depths agree: the      *)
(* multiples of GAMMA_GAMMA differ, and mix56 maps different ones to       *)
(* different gammas.                                                       *)
(***************************************************************************)
THEOREM SplitsDiffer == Spec => []GammasByDepth
<1>1. IInv => GammasByDepth
  <2> SUFFICES ASSUME IInv, NEW i \in Made, NEW j \in Made
               PROVE  /\ gens[i].nextSplit \in 0..Percy-1
                      /\ gens[i].gamma = gens[j].gamma <=> gens[i].depth = gens[j].depth
    BY DEF GammasByDepth
  <2>1. /\ gens[i] \in SplitMix64 /\ gens[j] \in SplitMix64
        /\ gens[i].nextSplit = (gens[i].depth * GammaGamma) % Percy
        /\ gens[i].gamma = Mix56(gens[i].nextSplit) + Excess
        /\ gens[j].nextSplit = (gens[j].depth * GammaGamma) % Percy
        /\ gens[j].gamma = Mix56(gens[j].nextSplit) + Excess
    BY DEF IInv, TypeOK, SplitsAreMultiples, Made
  <2>2. /\ gens[i].nextSplit \in 0..Percy-1 /\ gens[i].depth \in 0..Percy-1
        /\ gens[j].nextSplit \in 0..Percy-1 /\ gens[j].depth \in 0..Percy-1
    BY <2>1 DEF SplitMix64
  <2>3. ASSUME gens[i].gamma = gens[j].gamma
        PROVE  gens[i].depth = gens[j].depth
    <3>1. /\ Mix56(gens[i].nextSplit) \in Int /\ Mix56(gens[j].nextSplit) \in Int
          /\ Excess \in Int
      BY <2>2, MixAssumption, HalfAssumption
    <3>2. Mix56(gens[i].nextSplit) + Excess = Mix56(gens[j].nextSplit) + Excess
      BY <2>1, <2>3
    <3>3. ASSUME NEW a \in Int, NEW b \in Int, NEW e \in Int, a + e = b + e
          PROVE  a = b
      BY <3>3
    <3>4. Mix56(gens[i].nextSplit) = Mix56(gens[j].nextSplit)
      BY <3>1, <3>2, <3>3
    <3>5. gens[i].nextSplit = gens[j].nextSplit
      BY <2>2, <3>4, MixAssumption
    <3> QED
      BY <2>1, <2>2, <3>5, PercyAssumption
  <2>4. ASSUME gens[i].depth = gens[j].depth
        PROVE  gens[i].gamma = gens[j].gamma
    BY <2>1, <2>4
  <2> QED
    BY <2>2, <2>3, <2>4
<1> QED
  BY <1>1, Invariance, PTL

-----------------------------------------------------------------------------
LEMMA GeorgePositive ==
  /\ Half \in Nat /\ Half > 0 /\ Modulus \in Nat /\ Modulus = 2 * Half
  /\ Excess \in Nat /\ Excess >= 1 /\ Excess <= Half
  /\ George \in Nat /\ George = Modulus + Excess /\ George > 0
BY HalfAssumption, ModulusPositive DEF George

LEMMA PlaceIsOneToOne ==
  ASSUME NEW s \in Int64, NEW z \in Int64
  PROVE  /\ Place(s) \in 0..Modulus-1
         /\ Place(s) = Place(z) => s = z
BY GeorgePositive DEF Place, Signed, Int64

(***************************************************************************)
(* What is closed under update is everything: a generator has one cycle,   *)
(* whatever its gamma.  The places p, p + g, p + 2g ... modulo George are  *)
(* all of 0..George-1, and update leaves out none of them that is a word:  *)
(* the place it skips is past the words, and the next one is not.          *)
(***************************************************************************)
THEOREM OneCycle ==
  ASSUME NEW g \in Excess .. Half-1,
         NEW C, C \subseteq Int64, C # {},
         \A s \in C : update(s, g) \in C
  PROVE  C = Int64
<1> USE GeorgePositive
<1> DEFINE D == {Place(s) : s \in C}
<1>1. PICK p \in D : p \in 0..Modulus-1
  BY PlaceIsOneToOne
<1> DEFINE P(j) == (p + j * g) % George
<1>2. g \in 1..George-1 /\ g \in Nat /\ p \in Nat /\ g >= Excess
  BY <1>1
<1>3. ASSUME NEW x \in D
      PROVE  /\ x \in 0..Modulus-1
             /\ x + g < Modulus => x + g \in D
             /\ x + g >= George => x + g - George \in D
             /\ x + g >= Modulus /\ x + g < George => x + g + g - George \in D
  <2>1. PICK s \in C : x = Place(s)
    OBVIOUS
  <2>2. Place(update(s, g)) \in D /\ s \in Int64
    OBVIOUS
  <2> HIDE DEF D
  <2> QED
    BY <2>1, <2>2, UpdateAddsModuloGeorge, PlaceIsOneToOne
<1> HIDE DEF D
<1>4. ASSUME NEW j \in Nat
      PROVE  /\ p + j * g \in Nat
             /\ P(j) \in 0..George-1
             /\ P(j + 1) = IF P(j) + g < George THEN P(j) + g ELSE P(j) + g - George
  <2>1. p + j * g \in Nat
    BY <1>2
  <2>2. p + (j + 1) * g = (p + j * g) + g
    BY <1>2
  <2>3. P(j) \in 0..George-1
    BY <2>1, DivisionOfNaturals
  <2>4. g \in 0..George-1
    BY <1>2
  <2>5. ((p + j * g) + g) % George = IF P(j) + g < George THEN P(j) + g ELSE P(j) + g - George
    BY <2>1, <2>4, AddToRemainder
  <2> QED
    BY <2>1, <2>2, <2>3, <2>5
<1>5. P(0) = p
  <2>1. p + 0 * g = p
    BY <1>2
  <2> QED
    BY <2>1, <1>1, Wraps
<1>6. ASSUME NEW d \in 0..George-1, NEW e \in 0..George-1, P(d) = P(e)
      PROVE  d = e
  <2>1. d * g \in Nat /\ e * g \in Nat
    BY <1>2
  <2>2. Congruent(George, p + d * g, p + e * g)
    BY <1>6, Zenon DEF Congruent
  <2>3. Congruent(George, d * g, e * g)
    BY <1>2, <2>1, <2>2, TermsCongruent, Zenon
  <2> QED
    BY <1>2, <2>3, GeorgeAssumption, Zenon DEF Congruent
<1> HIDE DEF P
<1> DEFINE S == {j \in Nat : P(j) \in D \/ (P(j) >= Modulus /\ P(j) + g - George \in D)}
<1>7. Nat \subseteq S
  <2>1. 0 \in S
    BY <1>1, <1>5
  <2>2. ASSUME NEW j \in Nat, j \in S PROVE j + 1 \in S
    <3>1. CASE P(j) \in D
      <4>1. CASE P(j) + g < Modulus
        BY <1>2, <1>3, <1>4, <3>1, <4>1
      <4>2. CASE P(j) + g >= George
        BY <1>2, <1>3, <1>4, <3>1, <4>2
      <4>3. CASE P(j) + g >= Modulus /\ P(j) + g < George
        BY <1>2, <1>3, <1>4, <3>1, <4>3
      <4> QED
        BY <1>2, <1>4, <4>1, <4>2, <4>3
    <3>2. CASE P(j) >= Modulus /\ P(j) + g - George \in D
      BY <1>2, <1>4, <3>2
    <3> QED
      BY <2>2, <3>1, <3>2
  <2> HIDE DEF S
  <2> QED
    BY <2>1, <2>2, Induction
<1> DEFINE R == 0..George-1
           F == [j \in R |-> P(j)]
<1>8. \A t \in R : \E j \in R : P(j) = t
  <2>1. F \in Injection(R, R)
    <3>1. F \in [R -> R]
      BY <1>4
    <3> QED
      BY <1>6, <3>1 DEF Injection, IsInjective
  <2>2. IsFiniteSet(R)
    BY FS_Interval
  <2>3. F \in Surjection(R, R)
    <3> HIDE DEF F, R
    <3> QED
      BY <2>1, <2>2, FS_Injection
  <2> QED
    BY <2>3 DEF Surjection
<1>9. ASSUME NEW s \in Int64 PROVE s \in C
  <2>1. Place(s) \in 0..Modulus-1
    BY PlaceIsOneToOne
  <2>2. PICK j \in R : P(j) = Place(s)
    BY <1>8, <2>1
  <2>3. Place(s) \in D
    BY <1>7, <2>1, <2>2
  <2> QED
    BY <2>3, PlaceIsOneToOne DEF D
<1> QED
  BY <1>9

(* The first m seeds after s, as the function that Orbit chooses.          *)
IsWalk(at, s, g, m) ==
  at = [n \in 0..m |-> IF n = 0 THEN s ELSE update(at[n-1], g)]

LEMMA WalkExists ==
  ASSUME NEW s, NEW g
  PROVE  \E at : IsWalk(at, s, g, Modulus)
<1> DEFINE S == {m \in Nat : \E f : IsWalk(f, s, g, m)}
<1>1. 0 \in S
  <2>1. IsWalk([n \in 0..0 |-> s], s, g, 0)
    BY DEF IsWalk
  <2> QED
    BY <2>1
<1>2. ASSUME NEW m \in Nat, m \in S PROVE m + 1 \in S
  <2>1. PICK f : IsWalk(f, s, g, m)
    BY <1>2
  <2> DEFINE h == [n \in 0..m+1 |-> IF n = m + 1 THEN update(f[m], g) ELSE f[n]]
  <2>2. ASSUME NEW n \in 0..m+1
        PROVE  h[n] = IF n = 0 THEN s ELSE update(h[n-1], g)
    <3>1. CASE n = 0
      BY <2>1, <3>1 DEF IsWalk
    <3>2. CASE n = m + 1
      <4>1. h[n] = update(f[m], g) /\ h[n-1] = f[m]
        BY <3>2
      <4> QED
        BY <3>2, <4>1
    <3>3. CASE n \in 1..m
      <4>1. h[n] = f[n] /\ h[n-1] = f[n-1] /\ n \in 0..m /\ n # 0
        BY <3>3
      <4>2. f[n] = IF n = 0 THEN s ELSE update(f[n-1], g)
        <5> HIDE DEF h
        <5> QED
          BY <2>1, <4>1 DEF IsWalk
      <4> HIDE DEF h
      <4> QED
        BY <4>1, <4>2
    <3> QED
      BY <2>2, <3>1, <3>2, <3>3
  <2>3. h = [n \in 0..m+1 |-> h[n]]
    OBVIOUS
  <2> HIDE DEF h
  <2>4. IsWalk(h, s, g, m + 1)
    BY <2>2, <2>3 DEF IsWalk
  <2> QED
    BY <2>4
<1>3. Nat \subseteq S
  <2> HIDE DEF S
  <2> QED
    BY <1>1, <1>2, Induction
<1> QED
  BY <1>3, GeorgePositive

LEMMA WalkSteps ==
  ASSUME NEW s \in Int64, NEW g \in Excess .. Half-1,
         NEW at, at = [n \in 0..Modulus |-> IF n = 0 THEN s ELSE update(at[n-1], g)]
  PROVE  /\ at \in [0..Modulus -> Int64]
         /\ \A n \in 1..Modulus : at[n] = update(at[n-1], g)
<1> USE GeorgePositive
<1>1. at[0] = s
  BY 0 \in 0..Modulus, Zenon
<1>2. ASSUME NEW n \in 1..Modulus PROVE at[n] = update(at[n-1], g)
  BY n \in 0..Modulus, n # 0
<1> DEFINE S == {n \in Nat : n <= Modulus => at[n] \in Int64}
<1>3. Nat \subseteq S
  <2>1. 0 \in S
    BY <1>1
  <2>2. ASSUME NEW n \in Nat, n \in S PROVE n + 1 \in S
    <3>1. SUFFICES ASSUME n + 1 <= Modulus PROVE at[n+1] \in Int64
      OBVIOUS
    <3>2. at[n+1] = update(at[n+1-1], g) /\ n + 1 - 1 = n
      <4>1. n + 1 \in 1..Modulus /\ n + 1 - 1 = n
        BY <3>1
      <4>2. at[n+1] = update(at[(n+1)-1], g)
        BY <1>2, <4>1, Zenon
      <4> QED
        BY <4>1, <4>2
    <3>3. at[n] \in Int64
      BY <2>2, <3>1
    <3> QED
      BY <3>2, <3>3, UpdateAddsModuloGeorge
  <2> HIDE DEF S
  <2> QED
    BY <2>1, <2>2, Induction
<1>4. ASSUME NEW n \in 0..Modulus PROVE at[n] \in Int64
  <2>1. n \in Nat /\ n <= Modulus
    OBVIOUS
  <2>2. n \in S
    <3> HIDE DEF S
    <3> QED
      BY <1>3, <2>1
  <2> QED
    BY <2>1, <2>2
<1>5. at = [n \in 0..Modulus |-> at[n]]
  OBVIOUS
<1> QED
  BY <1>2, <1>4, <1>5

(* One of n + 1 values of n comes twice.                                  *)
LEMMA Repeats ==
  ASSUME NEW n \in Nat, NEW S, IsFiniteSet(S), Cardinality(S) = n,
         NEW f \in [0..n -> S]
  PROVE  \E x, y \in 0..n : x # y /\ f[x] = f[y]
<1>1. ASSUME NEW I, NEW h \in [I -> S], IsFiniteSet(I), Cardinality(S) < Cardinality(I)
      PROVE  \E x, y \in I : x # y /\ h[x] = h[y]
  BY <1>1, FS_PigeonHole, Zenon
<1>2. IsFiniteSet(0..n) /\ Cardinality(0..n) = n + 1
  BY FS_Interval
<1>3. IsFiniteSet(0..n) /\ Cardinality(S) < Cardinality(0..n)
  BY <1>2
<1> QED
  BY <1>1, <1>3, Zenon

(* A walk comes back to the seed it began with, before any other: what     *)
(* comes back to a later one came through the one before it.               *)
LEMMA WalkReturns ==
  ASSUME NEW g \in Excess .. Half-1, NEW at \in [0..Modulus -> Int64],
         \A n \in 1..Modulus : at[n] = update(at[n-1], g)
  PROVE  \E b \in 1..Modulus : at[b] = at[0]
<1> DEFINE T == {a \in Nat : \E b \in 0..Modulus : a < b /\ at[a] = at[b]}
<1>1. \E x, y \in 0..Modulus : x # y /\ at[x] = at[y]
  <2>1. IsFiniteSet(Int64) /\ Cardinality(Int64) = Modulus /\ Modulus \in Nat
    BY FS_Interval, GeorgePositive DEF Int64
  <2> QED
    BY <2>1, Repeats, Zenon
<1>2. T \subseteq Nat /\ T # {}
  <2>1. PICK x \in 0..Modulus, y \in 0..Modulus : x # y /\ at[x] = at[y]
    BY <1>1
  <2>2. CASE x < y
    <3>1. x \in T
      BY <2>1, <2>2
    <3> QED
      BY <3>1
  <2>3. CASE y < x
    <3>1. y \in T
      BY <2>1, <2>3
    <3> QED
      BY <3>1
  <2> QED
    BY <2>1, <2>2, <2>3
<1>3. PICK a \in T : \A k \in T : a <= k
  <2> HIDE DEF T
  <2> QED
    BY <1>2, LeastNatural
<1>4. PICK b \in 0..Modulus : a < b /\ at[a] = at[b]
  BY <1>3
<1>5. a = 0
  <2> SUFFICES ASSUME a # 0 PROVE FALSE
    OBVIOUS
  <2>1. /\ a \in 1..Modulus /\ b \in 1..Modulus
        /\ a - 1 \in Nat /\ a - 1 \in 0..Modulus /\ b - 1 \in 0..Modulus
        /\ a - 1 < b - 1
    BY <1>3, <1>4, GeorgePositive
  <2>2. update(at[a-1], g) = update(at[b-1], g)
    <3>1. at[a] = update(at[a-1], g) /\ at[b] = update(at[b-1], g)
      BY <2>1
    <3> QED
      BY <1>4, <3>1
  <2>3. at[a-1] = at[b-1]
    BY <2>1, <2>2, UpdateInjective
  <2>4. a - 1 \in T
    BY <2>1, <2>3
  <2> QED
    BY <1>3, <2>1, <2>4
<1> QED
  BY <1>4, <1>5, GeorgePositive

(***************************************************************************)
(* No generator comes back to a seed before it went through all words,     *)
(* whatever its gamma (update, SplitMix64_initImpl).                       *)
(***************************************************************************)
THEOREM OrbitIsFull == Spec => []Orbit
<1>1. IInv => Orbit
  <2> SUFFICES ASSUME IInv, NEW i \in Made
               PROVE  LET at[n \in 0..Modulus] == IF n = 0 THEN gens[i].seed
                                                  ELSE update(at[n-1], gens[i].gamma)
                      IN  {at[n] : n \in 1..Modulus} = Int64
    BY DEF Orbit
  <2> DEFINE s == gens[i].seed
             g == gens[i].gamma
             at[n \in 0..Modulus] == IF n = 0 THEN s ELSE update(at[n-1], g)
  <2>1. s \in Int64 /\ g \in Excess..Half-1
    <3>1. gens[i] \in SplitMix64
      BY DEF IInv, TypeOK, Made
    <3> QED
      BY <3>1 DEF SplitMix64
  <2>2. at = [n \in 0..Modulus |-> IF n = 0 THEN s ELSE update(at[n-1], g)]
    <3> HIDE DEF s, g
    <3>1. \E f : IsWalk(f, s, g, Modulus)
      BY WalkExists, Zenon
    <3> QED
      BY <3>1, Zenon DEF at, IsWalk
  <2> HIDE DEF s, g, at
  <2>3. /\ at \in [0..Modulus -> Int64]
        /\ \A n \in 1..Modulus : at[n] = update(at[n-1], g)
    BY <2>1, <2>2, WalkSteps
  <2>4. PICK b \in 1..Modulus : at[b] = at[0]
    BY <2>1, <2>3, WalkReturns
  <2> DEFINE C == {at[n] : n \in 1..b}
  <2>5. C = Int64
    <3>1. C \subseteq Int64
      BY <2>3, GeorgePositive
    <3>2. at[1] \in C
      BY GeorgePositive
    <3>3. ASSUME NEW z \in C PROVE update(z, g) \in C
      <4>1. PICK n \in 1..b : z = at[n]
        OBVIOUS
      <4>2. CASE n = b
        <5>1. at[1] = update(at[1-1], g)
          BY <2>3, GeorgePositive
        <5>2. update(z, g) = at[1]
          BY <2>4, <4>1, <4>2, <5>1
        <5> QED
          BY <3>2, <5>2
      <4>3. CASE n < b
        <5>1. /\ n + 1 \in 1..b /\ n + 1 \in 1..Modulus /\ n + 1 - 1 = n
          BY <4>3, GeorgePositive
        <5>2. update(z, g) = at[n+1]
          BY <2>3, <4>1, <5>1
        <5> QED
          BY <5>1, <5>2
      <4> QED
        BY <4>2, <4>3, GeorgePositive
    <3> HIDE DEF C
    <3> QED
      BY <2>1, <3>1, <3>2, <3>3, OneCycle
  <2>6. {at[n] : n \in 1..Modulus} = Int64
    <3>1. C \subseteq {at[n] : n \in 1..Modulus}
      BY GeorgePositive
    <3>2. {at[n] : n \in 1..Modulus} \subseteq Int64
      BY <2>3, GeorgePositive
    <3> QED
      BY <2>5, <3>1, <3>2
  <2> QED
    BY <2>6 DEF at, s, g
<1> QED
  BY <1>1, Invariance, PTL

-----------------------------------------------------------------------------
(***************************************************************************)
(* The signed and unsigned arithmetic of SplitMix64_nextInt64Range does    *)
(* not lose a bit that counts: ub - lb is right as an unsigned number even *)
(* where the signed difference overflows, and so is the sum as a signed    *)
(* one.                                                                    *)
(***************************************************************************)
THEOREM RangesAreKept == Spec => []RangesHold
<1>1. IInv => RangesHold
  <2> SUFFICES ASSUME IInv, NEW i \in Made, NEW lb \in Bounds, NEW ub \in Bounds, lb < ub
               PROVE  SplitMix64_nextInt64Range(gens[i], lb, ub) \in lb .. ub-1
    BY DEF RangesHold
  <2>1. /\ Half \in Nat /\ Half > 0 /\ Modulus \in Nat /\ Modulus = 2 * Half
        /\ lb \in Int /\ ub \in Int /\ -Half <= lb /\ lb < ub /\ ub < Half
    BY HalfAssumption, ModulusPositive, BoundsAssumption
  <2> DEFINE w == SplitMix64_nextInt64(gens[i])
             n == ub - lb
             r == w % n
  <2>2. w \in Nat
    <3>1. Sound(gens[i])
      BY DEF Sound, IInv, TypeOK, SplitsAreMultiples, Made
    <3>2. Mix64(nextRaw64(gens[i]).seed) \in Int64
      BY <3>1, DrawSound, MixAssumption
    <3> QED
      BY <2>1, <3>2 DEF SplitMix64_nextInt64, Int64
  <2>3. n \in Nat /\ n > 0 /\ Unsigned(n) = n
    BY <2>1, Wraps DEF Unsigned
  <2>4. r \in 0..n-1
    BY <2>2, <2>3, DivisionOfNaturals
  <2>5. r + lb \in lb..ub-1
    BY <2>1, <2>4
  <2>6. Signed(Unsigned(r + lb)) = r + lb
    <3>1. CASE r + lb >= 0
      <4>1. Unsigned(r + lb) = r + lb
        BY <2>1, <2>5, <3>1, Wraps DEF Unsigned
      <4> QED
        BY <2>1, <2>5, <4>1 DEF Signed
    <3>2. CASE r + lb < 0
      <4>1. Unsigned(r + lb) = r + lb + Modulus
        BY <2>1, <2>5, <3>2, Wraps DEF Unsigned
      <4> QED
        BY <2>1, <2>5, <3>2, <4>1 DEF Signed
    <3> QED
      BY <2>1, <2>5, <3>1, <3>2
  <2>7. SplitMix64_nextInt64Range(gens[i], lb, ub) = Signed(Unsigned(r + lb))
    BY <2>3 DEF SplitMix64_nextInt64Range
  <2> QED
    BY <2>5, <2>6, <2>7
<1> QED
  BY <1>1, Invariance, PTL
=============================================================================
