-------------------------- MODULE AlgorithmProofs --------------------------
(***************************************************************************)
(* Proofs about the algorithms of libpfds that SortedPairs,                *)
(* TreeMapMeasures and NodePacking define, for arrays of every length and  *)
(* keys and values of every number.                                        *)
(***************************************************************************)
EXTENDS TreeMapMeasures, NodePacking, Functions, TLAPS, WellFoundedInduction,
        FiniteSetTheorems, SequenceTheorems

(* Every set of naturals that is not empty has a least element: what       *)
(* stands for an induction below is the least counterexample.              *)
LEMMA Least ==
  ASSUME NEW T, T \subseteq Nat, T # {}
  PROVE  \E n \in T : \A k \in T : n <= k
<1>1. PICK n \in T : \A k \in T : <<k, n>> \notin OpToRel(<, Nat)
  BY WFMin, NatLessThanWellFounded, Zenon
<1>2. ASSUME NEW k \in T PROVE ~ (k < n)
  BY <1>1, Zenon DEF OpToRel
<1> QED
  BY <1>2

(* pfds_cmp of two boxed numbers is their order.                           *)
LEMMA Compared ==
  ASSUME NEW a, NEW b, Number(a) \in Int, Number(b) \in Int
  PROVE  /\ KeyCmp(a, b) = "LT" <=> Number(a) < Number(b)
         /\ KeyCmp(a, b) = "EQ" <=> Number(a) = Number(b)
         /\ KeyCmp(a, b) = "GT" <=> Number(b) < Number(a)
BY DEF KeyCmp, NumberCmp

(* Arrays of pairs, and boxes that hold numbers.                           *)
PairArrays(K, V) == Seq(K \X V)
Numbers(S) == \A x \in S : Number(x) \in Int

(* The parts of the pairs of an array.                                     *)
LEMMA KeysOf ==
  ASSUME NEW K, NEW V, Numbers(K), NEW ps \in PairArrays(K, V), NEW i \in 1..Len(ps)
  PROVE  ps[i] \in K \X V /\ ps[i][1] \in K /\ ps[i][2] \in V /\ Number(ps[i][1]) \in Int
BY DEF PairArrays, Numbers

(* Neighbours in order are all in order.                                   *)
LEMMA IncreasingPairwise ==
  ASSUME NEW K, NEW V, Numbers(K), NEW ps \in PairArrays(K, V), Increasing(ps),
         NEW i \in 1..Len(ps), NEW j \in 1..Len(ps), i < j
  PROVE  Number(ps[i][1]) < Number(ps[j][1])
<1> DEFINE T == {n \in i+1..Len(ps) : ~ (Number(ps[i][1]) < Number(ps[n][1]))}
<1>0. Len(ps) \in Nat
  BY DEF PairArrays
<1> SUFFICES ASSUME T # {} PROVE FALSE
  BY <1>0
<1>1. PICK n \in T : \A k \in T : n <= k
  <2>1. T \subseteq Nat
    BY <1>0
  <2> HIDE DEF T
  <2> QED
    BY <2>1, Least
<1>2. /\ n \in 2..Len(ps) /\ n - 1 \in 1..Len(ps)-1 /\ n - 1 \in 1..Len(ps)
      /\ n \in 1..Len(ps) /\ (n - 1) + 1 = n
  BY <1>0
<1>3. Number(ps[n-1][1]) < Number(ps[n][1])
  <2>1. KeyCmp(ps[n-1][1], ps[n][1]) = "LT"
    BY <1>2 DEF Increasing
  <2> QED
    BY <1>2, <2>1, KeysOf, Compared
<1>4. CASE n = i + 1
  BY <1>0, <1>2, <1>3, <1>4
<1>5. CASE n > i + 1
  <2>1. n - 1 \notin T /\ n - 1 \in i+1..Len(ps)
    BY <1>0, <1>1, <1>2, <1>5
  <2>2. Number(ps[i][1]) < Number(ps[n-1][1])
    BY <2>1
  <2>3. Number(ps[i][1]) \in Int /\ Number(ps[n-1][1]) \in Int /\ Number(ps[n][1]) \in Int
    BY <1>2, KeysOf
  <2> QED
    BY <1>1, <1>3, <2>2, <2>3
<1> QED
  BY <1>0, <1>4, <1>5

(* The place of a key is between the pairs with smaller keys and the       *)
(* others (pred_cmp_LE in ArrayMap_lookup_LE): counting them is finding    *)
(* it.                                                                     *)
THEOREM PlaceIsFirst ==
  ASSUME NEW K, NEW V, Numbers(K), NEW ps \in PairArrays(K, V), Increasing(ps),
         NEW k \in K
  PROVE  /\ PlaceOf(ps, k) \in 0..Len(ps)
         /\ \A i \in 1..Len(ps) : i <= PlaceOf(ps, k) <=> Number(ps[i][1]) < Number(k)
<1> DEFINE S == {i \in DOMAIN ps : KeyCmp(k, ps[i][1]) = "GT"}
<1>0. /\ Len(ps) \in Nat /\ DOMAIN ps = 1..Len(ps) /\ Number(k) \in Int
  BY DEF PairArrays, Numbers
<1>1. \A i \in 1..Len(ps) : i \in S <=> Number(ps[i][1]) < Number(k)
  BY <1>0, KeysOf, Compared
<1> HIDE DEF S
<1>2. PICK m \in 0..Len(ps) : \A i \in 1..Len(ps) : i <= m <=> i \in S
  <2> DEFINE T == 1..Len(ps)+1 \ S
  <2>1. T \subseteq Nat /\ Len(ps)+1 \in T
    BY <1>0 DEF S
  <2>2. PICK n \in T : \A j \in T : n <= j
    <3> HIDE DEF T
    <3> QED
      BY <2>1, Least
  <2>3. n - 1 \in 0..Len(ps)
    BY <1>0
  <2>4. ASSUME NEW i \in 1..Len(ps) PROVE i <= n-1 <=> i \in S
    <3>1. ASSUME i <= n-1 PROVE i \in S
      BY <3>1, <2>2, <1>0
    <3>2. ASSUME i \in S, ~ (i <= n-1) PROVE FALSE
      <4>1. n \in 1..Len(ps) /\ n \notin S /\ n <= i
        BY <1>0, <3>2
      <4>2. n # i
        BY <3>2, <4>1
      <4>3. Number(ps[n][1]) < Number(ps[i][1])
        BY <4>1, <4>2, IncreasingPairwise
      <4> QED
        BY <1>0, <1>1, <3>2, <4>1, <4>3, KeysOf
    <3> QED
      BY <3>1, <3>2
  <2> QED
    BY <2>3, <2>4
<1>3. S = 1..m
  BY <1>0, <1>2 DEF S
<1>4. Cardinality(S) = m
  BY <1>0, <1>3, FS_Interval
<1>5. PlaceOf(ps, k) = m
  BY <1>4 DEF PlaceOf, S
<1> QED
  BY <1>1, <1>2, <1>5

(* A search of bsearch_alt that has returned r.                            *)
Search(len, p, r) ==
  INSTANCE BSearchAlt WITH Lengths <- Nat, n <- len, pred <- p, result <- r,
                           pc <- "done", lb <- 0, ub <- 0

(* bsearch_alt finds that place: the predicate of ArrayMap_lookup_LE is    *)
(* monotone on the array of an ArrayMap, as bsearch_alt requires, and what *)
(* bsearch_alt promises of its result, FindsFirst, leaves no other place.  *)
THEOREM SearchFindsThePlace ==
  ASSUME NEW K, NEW V, Numbers(K), NEW ps \in PairArrays(K, V), Increasing(ps),
         NEW k \in K, NEW r
  PROVE  LET p == [i \in 0..Len(ps)-1 |-> KeyCmp(k, ps[i+1][1]) # "GT"]
         IN  /\ Search(Len(ps), p, r)!Monotone(p, Len(ps))
             /\ Search(Len(ps), p, r)!FindsFirst => r = PlaceOf(ps, k)
<1> DEFINE p == [i \in 0..Len(ps)-1 |-> KeyCmp(k, ps[i+1][1]) # "GT"]
           n == PlaceOf(ps, k)
<1>0. Len(ps) \in Nat /\ Number(k) \in Int
  BY DEF PairArrays, Numbers
<1>1. n \in 0..Len(ps) /\ \A i \in 1..Len(ps) : i <= n <=> Number(ps[i][1]) < Number(k)
  BY PlaceIsFirst
<1> HIDE DEF n
<1>2. ASSUME NEW i \in 0..Len(ps)-1 PROVE p[i] <=> n <= i
  <2>1. i+1 \in 1..Len(ps) /\ p[i] = (KeyCmp(k, ps[i+1][1]) # "GT")
    BY <1>0
  <2>2. KeyCmp(k, ps[i+1][1]) = "GT" <=> Number(ps[i+1][1]) < Number(k)
    BY <1>0, <2>1, KeysOf, Compared
  <2>3. i+1 <= n <=> Number(ps[i+1][1]) < Number(k)
    BY <1>1, <2>1
  <2>4. i+1 <= n <=> ~ (n <= i)
    BY <1>0, <1>1
  <2>5. ~ (KeyCmp(k, ps[i+1][1]) # "GT") <=> i+1 <= n
    BY <2>2, <2>3
  <2> QED
    BY <2>1, <2>4, <2>5, Zenon
<1> HIDE DEF p
<1>3. Search(Len(ps), p, r)!Monotone(p, Len(ps))
  BY <1>0, <1>1, <1>2 DEF Search!Monotone
<1>4. ASSUME Search(Len(ps), p, r)!FindsFirst PROVE r = n
  <2>1. /\ r \in 0..Len(ps)
        /\ \A i \in 0..r-1 : ~ p[i]
        /\ r < Len(ps) => p[r]
    BY <1>4 DEF Search!FindsFirst
  <2>2. ~ (r < n)
    BY <1>0, <1>1, <1>2, <2>1
  <2>3. ~ (n < r)
    BY <1>0, <1>1, <1>2, <2>1
  <2> QED
    BY <1>0, <1>1, <2>1, <2>2, <2>3
<1> QED
  BY <1>3, <1>4 DEF p, n

(* Whether the key at a place is k, in numbers.                            *)
LEMMA IsAtPlace ==
  ASSUME NEW K, NEW V, Numbers(K), NEW ps \in PairArrays(K, V), NEW k \in K,
         NEW n \in 0..Len(ps)
  PROVE  IsAt(ps, n, k) <=> n < Len(ps) /\ Number(ps[n+1][1]) = Number(k)
<1>1. Len(ps) \in Nat /\ Number(k) \in Int
  BY DEF PairArrays, Numbers
<1>2. CASE n < Len(ps)
  <2>1. n+1 \in 1..Len(ps)
    BY <1>1, <1>2
  <2> QED
    BY <1>1, <1>2, <2>1, KeysOf, Compared DEF IsAt
<1> QED
  BY <1>2 DEF IsAt

(* The pairs that an insertion at place n makes, by their positions.       *)
LEMMA InsertedAt ==
  ASSUME NEW K, NEW V, NEW ps \in PairArrays(K, V), NEW k \in K, NEW x \in V,
         NEW n \in 0..Len(ps)
  PROVE  LET qs == Inserted(ps, n, k, x)
         IN  /\ qs \in PairArrays(K, V)
             /\ Len(qs) = IF IsAt(ps, n, k) THEN Len(ps) ELSE Len(ps) + 1
             /\ \A i \in 1..n : qs[i] = ps[i]
             /\ qs[n+1] = <<k, x>>
             /\ \A i \in n+2..Len(qs) : qs[i] = IF IsAt(ps, n, k) THEN ps[i] ELSE ps[i-1]
<1> DEFINE a == IF IsAt(ps, n, k) THEN n+2 ELSE n+1
           b == Before(ps, n)
           c == << <<k, x>> >>
           d == Behind(ps, n, k)
           qs == Inserted(ps, n, k, x)
<1>1. Len(ps) \in Nat /\ ps \in Seq(K \X V)
  BY DEF PairArrays
<1>2. a \in 1..Len(ps)+1 /\ (IsAt(ps, n, k) => n < Len(ps))
  BY <1>1 DEF IsAt
<1>3. b \in Seq(K \X V) /\ Len(b) = n /\ \A i \in 1..n : b[i] = ps[i]
  BY <1>1 DEF Before
<1>4. c \in Seq(K \X V) /\ Len(c) = 1 /\ c[1] = <<k, x>>
  OBVIOUS
<1>5. d = SubSeq(ps, a, Len(ps))
  BY DEF Behind
<1> HIDE DEF a, b, c, d
<1>6. /\ d \in Seq(K \X V) /\ Len(d) = Len(ps) - a + 1
      /\ \A i \in 1..Len(d) : d[i] = ps[a + i - 1]
  BY <1>1, <1>2, <1>5
<1>7. /\ b \o c \in Seq(K \X V) /\ Len(b \o c) = n + 1
      /\ \A i \in 1..n+1 : (b \o c)[i] = IF i <= n THEN b[i] ELSE c[i - n]
  <2>1. /\ b \o c \in Seq(K \X V) /\ Len(b \o c) = Len(b) + Len(c)
        /\ \A i \in 1..Len(b) + Len(c) :
             (b \o c)[i] = IF i <= Len(b) THEN b[i] ELSE c[i - Len(b)]
    BY <1>3, <1>4, ConcatProperties, Zenon
  <2> QED
    BY <1>3, <1>4, <2>1
<1>8. qs = (b \o c) \o d
  BY DEF Inserted, b, c, d
<1> HIDE DEF qs
<1>9. /\ qs \in Seq(K \X V) /\ Len(qs) = n + 1 + Len(d)
      /\ \A i \in 1..n + 1 + Len(d) :
           qs[i] = IF i <= n + 1 THEN (b \o c)[i] ELSE d[i - (n + 1)]
  <2> DEFINE e == b \o c
  <2>1. e \in Seq(K \X V) /\ Len(e) = n + 1
    BY <1>7
  <2> HIDE DEF e
  <2>2. /\ e \o d \in Seq(K \X V) /\ Len(e \o d) = Len(e) + Len(d)
        /\ \A i \in 1..Len(e) + Len(d) :
             (e \o d)[i] = IF i <= Len(e) THEN e[i] ELSE d[i - Len(e)]
    BY <1>6, <2>1, ConcatProperties, Zenon
  <2>3. qs = e \o d
    BY <1>8 DEF e
  <2>4. Len(d) \in Nat
    BY <1>6
  <2> QED
    BY <2>1, <2>2, <2>3, <2>4 DEF e
<1>10. /\ \A i \in 1..n : qs[i] = ps[i]
       /\ qs[n+1] = <<k, x>>
       /\ \A i \in n+2..Len(qs) : qs[i] = ps[a + (i - (n + 1)) - 1]
  <2>1. Len(d) \in Nat
    BY <1>6
  <2>2. ASSUME NEW i \in 1..n PROVE qs[i] = ps[i]
    BY <1>1, <1>3, <1>7, <1>9, <2>1
  <2>3. qs[n+1] = <<k, x>>
    <3>1. /\ n + 1 \in 1..n + 1 + Len(d) /\ n + 1 \in 1..n+1
          /\ n + 1 <= n + 1 /\ ~ (n + 1 <= n) /\ (n + 1) - n = 1
      BY <1>1, <2>1
    <3>2. qs[n+1] = (b \o c)[n+1]
      BY <1>9, <3>1, Zenon
    <3>3. (b \o c)[n+1] = c[(n+1) - n]
      BY <1>7, <3>1, Zenon
    <3> QED
      BY <1>4, <3>1, <3>2, <3>3
  <2>4. ASSUME NEW i \in n+2..Len(qs) PROVE qs[i] = ps[a + (i - (n + 1)) - 1]
    <3>1. qs[i] = d[i - (n + 1)]
      <4>1. i \in 1..n + 1 + Len(d) /\ ~ (i <= n + 1)
        BY <1>1, <1>9, <2>1
      <4> QED
        BY <1>9, <4>1, Zenon
    <3>2. i - (n + 1) \in 1..Len(d)
      BY <1>1, <1>9, <2>1
    <3> QED
      BY <1>6, <3>1, <3>2
  <2> QED
    BY <2>2, <2>3, <2>4
<1>11. CASE IsAt(ps, n, k)
  <2>1. a = n + 2 /\ Len(qs) = Len(ps)
    BY <1>1, <1>2, <1>6, <1>9, <1>11 DEF a
  <2>2. ASSUME NEW i \in n+2..Len(qs) PROVE qs[i] = ps[i]
    <3>1. a + (i - (n + 1)) - 1 = i
      BY <1>1, <2>1
    <3> QED
      BY <1>10, <3>1
  <2> QED
    BY <1>9, <1>10, <1>11, <2>1, <2>2 DEF qs, PairArrays
<1>12. CASE ~ IsAt(ps, n, k)
  <2>1. a = n + 1 /\ Len(qs) = Len(ps) + 1
    BY <1>1, <1>2, <1>6, <1>9, <1>12 DEF a
  <2>2. ASSUME NEW i \in n+2..Len(qs) PROVE qs[i] = ps[i-1]
    <3>1. a + (i - (n + 1)) - 1 = i - 1
      BY <1>1, <2>1
    <3> QED
      BY <1>10, <3>1
  <2> QED
    BY <1>9, <1>10, <1>12, <2>1, <2>2 DEF qs, PairArrays
<1> QED
  BY <1>11, <1>12

(* No two pairs have one key.                                              *)
LEMMA KeysDiffer ==
  ASSUME NEW K, NEW V, Numbers(K), NEW ps \in PairArrays(K, V), Increasing(ps),
         NEW i \in 1..Len(ps), NEW j \in 1..Len(ps), Number(ps[i][1]) = Number(ps[j][1])
  PROVE  i = j
<1>1. Number(ps[i][1]) \in Int /\ Number(ps[j][1]) \in Int /\ Len(ps) \in Nat
  BY KeysOf DEF PairArrays
<1>2. CASE i < j
  <2>1. Number(ps[i][1]) < Number(ps[j][1])
    BY <1>2, IncreasingPairwise
  <2> QED
    BY <1>1, <2>1
<1>3. CASE j < i
  <2>1. Number(ps[j][1]) < Number(ps[i][1])
    BY <1>3, IncreasingPairwise
  <2> QED
    BY <1>1, <2>1
<1> QED
  BY <1>1, <1>2, <1>3

(* f has the keys of the pairs ps, each with its value.                    *)
MapsKeys(f, ps) ==
  /\ DOMAIN f = {Number(ps[i][1]) : i \in 1..Len(ps)}
  /\ \A i \in 1..Len(ps) : f[Number(ps[i][1])] = Number(ps[i][2])

(* The map of the pairs has their keys, each with its value.               *)
LEMMA MapAt ==
  ASSUME NEW K, NEW V, Numbers(K), NEW ps \in PairArrays(K, V), Increasing(ps)
  PROVE  MapsKeys(AsMap(ps), ps)
<1>0. Len(ps) \in Nat /\ DOMAIN ps = 1..Len(ps)
  BY DEF PairArrays
<1>1. DOMAIN AsMap(ps) = {Number(ps[i][1]) : i \in 1..Len(ps)}
  BY <1>0, Zenon DEF AsMap
<1>2. ASSUME NEW i \in 1..Len(ps)
      PROVE  AsMap(ps)[Number(ps[i][1])] = Number(ps[i][2])
  <2> DEFINE j == CHOOSE j \in DOMAIN ps : Number(ps[j][1]) = Number(ps[i][1])
  <2>1. j \in 1..Len(ps) /\ Number(ps[j][1]) = Number(ps[i][1])
    BY <1>0, Zenon
  <2>2. AsMap(ps)[Number(ps[i][1])] = Number(ps[j][2])
    <3>1. Number(ps[i][1]) \in {Number(ps[l][1]) : l \in DOMAIN ps}
      BY <1>0, Zenon
    <3> QED
      BY <3>1, Zenon DEF AsMap
  <2> HIDE DEF j
  <2>3. j = i
    BY <2>1, KeysDiffer
  <2> QED
    BY <2>2, <2>3
<1> QED
  BY <1>1, <1>2, Zenon DEF MapsKeys

(* There is one function that gives each key its value.                    *)
IsMapOf(f, ps) ==
  /\ f = [n \in {Number(ps[i][1]) : i \in 1..Len(ps)} |-> f[n]]
  /\ \A i \in 1..Len(ps) : f[Number(ps[i][1])] = Number(ps[i][2])

(* A map is determined by the pairs it is of.                              *)
LEMMA MapIsUnique ==
  ASSUME NEW ps, NEW f, NEW g, IsMapOf(f, ps), IsMapOf(g, ps)
  PROVE  f = g
<1> DEFINE D == {Number(ps[i][1]) : i \in 1..Len(ps)}
<1>1. ASSUME NEW n \in D PROVE f[n] = g[n]
  <2>1. PICK i \in 1..Len(ps) : n = Number(ps[i][1])
    OBVIOUS
  <2> QED
    BY <2>1, Zenon DEF IsMapOf
<1>2. [n \in D |-> f[n]] = [n \in D |-> g[n]]
  BY <1>1, Zenon
<1> QED
  BY <1>2, Zenon DEF IsMapOf

(* AsMap is that map.                                                      *)
LEMMA MapOf ==
  ASSUME NEW K, NEW V, Numbers(K), NEW ps \in PairArrays(K, V), Increasing(ps)
  PROVE  IsMapOf(AsMap(ps), ps)
<1> DEFINE D == {Number(ps[i][1]) : i \in 1..Len(ps)}
<1>1. /\ DOMAIN AsMap(ps) = D
      /\ \A i \in 1..Len(ps) : AsMap(ps)[Number(ps[i][1])] = Number(ps[i][2])
  <2>1. MapsKeys(AsMap(ps), ps)
    BY MapAt
  <2> QED
    BY <2>1 DEF MapsKeys
<1> HIDE DEF D
<1>3. AsMap(ps) = [n \in D |-> AsMap(ps)[n]]
  <2>1. AsMap(ps) = [n \in DOMAIN AsMap(ps) |-> AsMap(ps)[n]]
    BY DEF AsMap
  <2> QED
    BY <1>1, <2>1
<1> QED
  BY <1>1, <1>3, Zenon DEF IsMapOf, D

(* ArrayMap_insert keeps the representation: the keys still increase,      *)
(* whether the key was there or not (MappingClient!Representation).        *)
THEOREM InsertKeepsOrder ==
  ASSUME NEW K, NEW V, Numbers(K), NEW ps \in PairArrays(K, V), Increasing(ps),
         NEW k \in K, NEW x \in V
  PROVE  Increasing(Inserted(ps, PlaceOf(ps, k), k, x))
<1> DEFINE n  == PlaceOf(ps, k)
           qs == Inserted(ps, n, k, x)
           key(i) == Number(ps[i][1])
<1>0. Len(ps) \in Nat /\ Number(k) \in Int
  BY DEF PairArrays, Numbers
<1>1. n \in 0..Len(ps) /\ \A i \in 1..Len(ps) : i <= n <=> key(i) < Number(k)
  BY PlaceIsFirst
<1>2. IsAt(ps, n, k) <=> n < Len(ps) /\ key(n+1) = Number(k)
  BY <1>1, IsAtPlace
<1> HIDE DEF n
<1>3. /\ qs \in PairArrays(K, V)
      /\ Len(qs) = IF IsAt(ps, n, k) THEN Len(ps) ELSE Len(ps) + 1
      /\ \A i \in 1..n : qs[i] = ps[i]
      /\ qs[n+1] = <<k, x>>
      /\ \A i \in n+2..Len(qs) : qs[i] = IF IsAt(ps, n, k) THEN ps[i] ELSE ps[i-1]
  BY <1>1, InsertedAt
<1> HIDE DEF qs
<1>4. SUFFICES ASSUME NEW i \in 1..Len(qs)-1
               PROVE  KeyCmp(qs[i][1], qs[i+1][1]) = "LT"
  BY DEF Increasing, n, qs
<1>5. /\ Len(qs) \in Nat /\ Number(qs[i][1]) \in Int /\ Number(qs[i+1][1]) \in Int
  BY <1>3, KeysOf DEF PairArrays
<1>6. SUFFICES Number(qs[i][1]) < Number(qs[i+1][1])
  BY <1>5, Compared
<1>7. \A j \in 1..Len(ps) : key(j) \in Int
  BY KeysOf
<1>8. \A j, l \in 1..Len(ps) : j < l => key(j) < key(l)
  BY IncreasingPairwise
<1> HIDE DEF key
<1>9. CASE i < n
  <2>1. i \in 1..n /\ i+1 \in 1..n /\ i \in 1..Len(ps) /\ i+1 \in 1..Len(ps)
    BY <1>0, <1>1, <1>5, <1>9
  <2>2. Number(qs[i][1]) = key(i) /\ Number(qs[i+1][1]) = key(i+1)
    BY <1>3, <2>1 DEF key
  <2> QED
    BY <1>8, <2>1, <2>2
<1>10. CASE i = n
  <2>1. i \in 1..n /\ i \in 1..Len(ps)
    BY <1>0, <1>1, <1>5, <1>10
  <2>2. Number(qs[i][1]) = key(i) /\ Number(qs[i+1][1]) = Number(k)
    BY <1>3, <1>10, <2>1 DEF key
  <2>3. i <= n
    BY <1>1, <1>10
  <2> QED
    BY <1>1, <2>1, <2>2, <2>3
<1>11. CASE i = n + 1
  <2>1. i+1 \in n+2..Len(qs) /\ Number(qs[i][1]) = Number(k)
    BY <1>1, <1>3, <1>5, <1>11
  <2>2. CASE IsAt(ps, n, k)
    <3>1. n+1 \in 1..Len(ps) /\ n+2 \in 1..Len(ps) /\ n+1 < n+2 /\ i+1 = n+2
      BY <1>0, <1>1, <1>3, <1>11, <2>2
    <3>2. Number(qs[i+1][1]) = key(n+2) /\ key(n+1) = Number(k)
      BY <1>2, <1>3, <2>1, <2>2, <3>1 DEF key
    <3> QED
      BY <1>8, <2>1, <3>1, <3>2
  <2>3. CASE ~ IsAt(ps, n, k)
    <3>1. n+1 \in 1..Len(ps) /\ (i+1)-1 = n+1 /\ n < Len(ps) /\ ~ (n+1 <= n)
      BY <1>0, <1>1, <1>3, <1>11, <2>3
    <3>2. Number(qs[i+1][1]) = key(n+1)
      BY <1>3, <2>1, <2>3, <3>1 DEF key
    <3> QED
      BY <1>0, <1>1, <1>2, <1>7, <2>1, <2>3, <3>1, <3>2
  <2> QED
    BY <2>2, <2>3
<1>12. CASE i > n + 1
  <2>1. i \in n+2..Len(qs) /\ i+1 \in n+2..Len(qs)
    BY <1>1, <1>5, <1>12
  <2>2. CASE IsAt(ps, n, k)
    <3>1. i \in 1..Len(ps) /\ i+1 \in 1..Len(ps) /\ i < i+1
      BY <1>0, <1>3, <2>2
    <3>2. Number(qs[i][1]) = key(i) /\ Number(qs[i+1][1]) = key(i+1)
      BY <1>3, <2>1, <2>2 DEF key
    <3> QED
      BY <1>8, <3>1, <3>2
  <2>3. CASE ~ IsAt(ps, n, k)
    <3>1. i-1 \in 1..Len(ps) /\ i \in 1..Len(ps) /\ i-1 < i /\ (i+1)-1 = i
      BY <1>0, <1>1, <1>3, <1>12, <2>3
    <3>2. Number(qs[i][1]) = key(i-1) /\ Number(qs[i+1][1]) = key(i)
      BY <1>3, <2>1, <2>3, <3>1 DEF key
    <3> QED
      BY <1>8, <3>1, <3>2
  <2> QED
    BY <2>2, <2>3
<1> QED
  BY <1>1, <1>5, <1>9, <1>10, <1>11, <1>12

(* What a mapping promises.                                                *)
Maps == INSTANCE PersistentMaps WITH
          Vars <- {}, None <- {}, val <- <<>>, call <- <<>>, stopped <- FALSE, lastWins <- FALSE

(* ArrayMap_insert is the insertion that PersistentMaps promises: the key  *)
(* has the new value and no other key has changed.                         *)
THEOREM InsertIsSet ==
  ASSUME NEW K, NEW V, Numbers(K), NEW ps \in PairArrays(K, V), Increasing(ps),
         NEW k \in K, NEW x \in V
  PROVE  AsMap(Inserted(ps, PlaceOf(ps, k), k, x)) = Maps!Set(AsMap(ps), Number(k), Number(x))
<1> DEFINE n  == PlaceOf(ps, k)
           qs == Inserted(ps, n, k, x)
           f  == AsMap(ps)
           g  == Maps!Set(f, Number(k), Number(x))
           D  == DOMAIN f \cup {Number(k)}
<1>0. Len(ps) \in Nat /\ Number(k) \in Int
  BY DEF PairArrays, Numbers
<1>1. n \in 0..Len(ps) /\ \A i \in 1..Len(ps) : i <= n <=> Number(ps[i][1]) < Number(k)
  BY PlaceIsFirst
<1>2. Increasing(qs)
  BY InsertKeepsOrder
<1>3. IsAt(ps, n, k) <=> n < Len(ps) /\ Number(ps[n+1][1]) = Number(k)
  BY <1>1, IsAtPlace
<1> HIDE DEF n
<1>4. /\ qs \in PairArrays(K, V)
      /\ Len(qs) = IF IsAt(ps, n, k) THEN Len(ps) ELSE Len(ps) + 1
      /\ \A i \in 1..n : qs[i] = ps[i]
      /\ qs[n+1] = <<k, x>>
      /\ \A i \in n+2..Len(qs) : qs[i] = IF IsAt(ps, n, k) THEN ps[i] ELSE ps[i-1]
  BY <1>1, InsertedAt
<1> HIDE DEF qs
<1>5. /\ DOMAIN f = {Number(ps[i][1]) : i \in 1..Len(ps)}
      /\ \A i \in 1..Len(ps) : f[Number(ps[i][1])] = Number(ps[i][2])
  <2>1. MapsKeys(f, ps)
    BY MapAt
  <2> QED
    BY <2>1 DEF MapsKeys
<1> HIDE DEF f
<1>6. \A i \in 1..Len(ps) : Number(ps[i][1]) \in Int
  BY KeysOf
<1>7. /\ g = [j \in D |-> g[j]]
      /\ g[Number(k)] = Number(x)
      /\ \A j \in DOMAIN f : j # Number(k) => g[j] = f[j]
  BY Zenon DEF Maps!Set
<1> HIDE DEF g
(* Every new pair is the inserted one, or an old one of another key.       *)
<1>8. ASSUME NEW i \in 1..Len(qs), i # n+1
      PROVE  \E j \in 1..Len(ps) : qs[i] = ps[j] /\ Number(ps[j][1]) # Number(k)
  <2>1. CASE i <= n
    <3>1. i \in 1..n /\ i \in 1..Len(ps)
      BY <1>0, <1>1, <2>1
    <3>2. qs[i] = ps[i] /\ Number(ps[i][1]) < Number(k)
      BY <1>1, <1>4, <2>1, <3>1
    <3> QED
      BY <1>0, <1>6, <3>1, <3>2
  <2>2. CASE ~ (i <= n)
    <3>1. i \in n+2..Len(qs) /\ Len(qs) \in Nat
      BY <1>0, <1>1, <1>4, <1>8, <2>2 DEF PairArrays
    <3>2. CASE IsAt(ps, n, k)
      <4>1. i \in 1..Len(ps) /\ n+1 \in 1..Len(ps) /\ n+1 < i
        BY <1>0, <1>1, <1>4, <3>1, <3>2
      <4>2. Number(ps[n+1][1]) < Number(ps[i][1])
        BY <4>1, IncreasingPairwise
      <4>3. qs[i] = ps[i]
        BY <1>4, <3>1, <3>2
      <4> QED
        BY <1>0, <1>3, <1>6, <3>2, <4>1, <4>2, <4>3
    <3>3. CASE ~ IsAt(ps, n, k)
      <4>1. i-1 \in 1..Len(ps) /\ n+1 \in 1..Len(ps) /\ n+1 <= i-1 /\ n < Len(ps)
        BY <1>0, <1>1, <1>4, <3>1, <3>3
      <4>2. ~ (Number(ps[n+1][1]) < Number(k)) /\ Number(ps[n+1][1]) # Number(k)
        <5>1. ~ (n+1 <= n)
          BY <1>1
        <5> QED
          BY <1>1, <1>3, <3>3, <4>1, <5>1
      <4>3. n+1 < i-1 => Number(ps[n+1][1]) < Number(ps[i-1][1])
        BY <4>1, IncreasingPairwise
      <4>4. qs[i] = ps[i-1]
        BY <1>4, <3>1, <3>3
      <4>5. Number(ps[n+1][1]) \in Int /\ Number(ps[i-1][1]) \in Int /\ i-1 \in Int /\ n+1 \in Int
        BY <1>1, <1>6, <4>1
      <4>6. n+1 = i-1 \/ n+1 < i-1
        BY <4>1, <4>5
      <4> DEFINE p == n+1
                 q == i-1
      <4>7. Number(ps[q][1]) # Number(k)
        <5> HIDE DEF p, q
        <5>1. CASE p = q
          BY <4>2, <5>1 DEF p
        <5>2. CASE p < q
          BY <1>0, <4>2, <4>3, <4>5, <5>2 DEF p, q
        <5> QED
          BY <4>6, <5>1, <5>2 DEF p, q
      <4> QED
        BY <4>1, <4>4, <4>7
    <3> QED
      BY <3>2, <3>3
  <2> QED
    BY <2>1, <2>2
(* Every old pair of another key is still there.                           *)
<1>9. ASSUME NEW j \in 1..Len(ps), Number(ps[j][1]) # Number(k)
      PROVE  \E i \in 1..Len(qs) : qs[i] = ps[j]
  <2>1. CASE j <= n
    <3>1. j \in 1..n /\ j \in 1..Len(qs)
      BY <1>0, <1>1, <1>4, <2>1
    <3> QED
      BY <1>4, <3>1
  <2>2. CASE ~ (j <= n)
    <3>1. CASE IsAt(ps, n, k)
      <4>1. j # n+1
        BY <1>3, <1>9, <3>1
      <4>2. j \in n+2..Len(qs) /\ j \in 1..Len(qs)
        BY <1>0, <1>1, <1>4, <2>2, <3>1, <4>1
      <4> QED
        BY <1>4, <3>1, <4>2
    <3>2. CASE ~ IsAt(ps, n, k)
      <4>1. j+1 \in n+2..Len(qs) /\ j+1 \in 1..Len(qs) /\ (j+1)-1 = j
        BY <1>0, <1>1, <1>4, <2>2, <3>2
      <4>2. qs[j+1] = ps[(j+1)-1]
        BY <1>4, <3>2, <4>1
      <4> QED
        BY <4>1, <4>2
    <3> QED
      BY <3>1, <3>2
  <2> QED
    BY <2>1, <2>2
<1>10. n+1 \in 1..Len(qs) /\ qs[n+1][1] = k /\ qs[n+1][2] = x
  BY <1>0, <1>1, <1>4 DEF IsAt
<1>11. D = {Number(qs[i][1]) : i \in 1..Len(qs)}
  <2>1. ASSUME NEW d \in D PROVE \E i \in 1..Len(qs) : d = Number(qs[i][1])
    <3>1. CASE d = Number(k)
      BY <1>10, <3>1, Zenon
    <3>2. CASE d \in DOMAIN f /\ d # Number(k)
      BY <1>5, <1>9, <3>2, Zenon
    <3> QED
      BY <3>1, <3>2, Zenon
  <2>2. ASSUME NEW i \in 1..Len(qs) PROVE Number(qs[i][1]) \in D
    <3>1. CASE i = n+1
      BY <1>10, <3>1, Zenon
    <3>2. CASE i # n+1
      BY <1>5, <1>8, <3>2, Zenon
    <3> QED
      BY <3>1, <3>2, Zenon
  <2> QED
    BY <2>1, <2>2, Zenon
<1>12. \A i \in 1..Len(qs) : g[Number(qs[i][1])] = Number(qs[i][2])
  <2> TAKE i \in 1..Len(qs)
  <2>1. CASE i = n+1
    BY <1>7, <1>10, <2>1, Zenon
  <2>2. CASE i # n+1
    <3>1. PICK j \in 1..Len(ps) : qs[i] = ps[j] /\ Number(ps[j][1]) # Number(k)
      BY <1>8, <2>2, Zenon
    <3>2. Number(ps[j][1]) \in DOMAIN f
      BY <1>5, Zenon
    <3> QED
      BY <1>5, <1>7, <3>1, <3>2, Zenon
  <2> QED
    BY <2>1, <2>2
<1> HIDE DEF D
<1>13. AsMap(qs) = g
  <2>1. IsMapOf(g, qs)
    BY <1>7, <1>11, <1>12, Zenon DEF IsMapOf
  <2>2. IsMapOf(AsMap(qs), qs)
    BY <1>2, <1>4, MapOf
  <2> QED
    BY <2>1, <2>2, MapIsUnique
<1> QED
  BY <1>13 DEF qs, g, n, f

(***************************************************************************)
(* Lookup.                                                                 *)
(***************************************************************************)
(* ArrayMap_lookup finds a key exactly when the map has it, and lends its  *)
(* value (MappingClient!Queries).                                          *)
THEOREM LookupFinds ==
  ASSUME NEW K, NEW V, Numbers(K), NEW ps \in PairArrays(K, V), Increasing(ps),
         NEW k \in K
  PROVE  LET n == PlaceOf(ps, k)
         IN  /\ IsAt(ps, n, k) <=> Number(k) \in DOMAIN AsMap(ps)
             /\ IsAt(ps, n, k) => AsMap(ps)[Number(k)] = Number(ps[n+1][2])
<1> DEFINE n == PlaceOf(ps, k)
<1>0. Len(ps) \in Nat /\ Number(k) \in Int
  BY DEF PairArrays, Numbers
<1>1. n \in 0..Len(ps) /\ \A i \in 1..Len(ps) : i <= n <=> Number(ps[i][1]) < Number(k)
  BY PlaceIsFirst
<1> HIDE DEF n
<1>2. IsAt(ps, n, k) <=> n < Len(ps) /\ Number(ps[n+1][1]) = Number(k)
  BY <1>1, IsAtPlace
<1>3. /\ DOMAIN AsMap(ps) = {Number(ps[i][1]) : i \in 1..Len(ps)}
      /\ \A i \in 1..Len(ps) : AsMap(ps)[Number(ps[i][1])] = Number(ps[i][2])
  <2>1. MapsKeys(AsMap(ps), ps)
    BY MapAt
  <2> QED
    BY <2>1 DEF MapsKeys
<1>4. ASSUME IsAt(ps, n, k)
      PROVE  /\ Number(k) \in DOMAIN AsMap(ps)
             /\ AsMap(ps)[Number(k)] = Number(ps[n+1][2])
  <2>1. n+1 \in 1..Len(ps) /\ Number(k) = Number(ps[n+1][1])
    BY <1>0, <1>1, <1>2, <1>4
  <2> QED
    BY <1>3, <2>1, Zenon
<1>5. ASSUME Number(k) \in DOMAIN AsMap(ps) PROVE IsAt(ps, n, k)
  <2>1. PICK i \in 1..Len(ps) : Number(k) = Number(ps[i][1])
    BY <1>3, <1>5, Zenon
  <2>2. n < i
    BY <1>0, <1>1, <2>1
  <2>3. n+1 \in 1..Len(ps) /\ ~ (n+1 <= n) /\ n < Len(ps)
    BY <1>0, <1>1, <2>2
  <2>4. ~ (Number(ps[n+1][1]) < Number(k)) /\ Number(ps[n+1][1]) \in Int
    BY <1>1, <2>3, KeysOf
  <2>5. ~ (n+1 < i)
    <3> SUFFICES ASSUME n+1 < i PROVE FALSE
      OBVIOUS
    <3>1. Number(ps[n+1][1]) < Number(ps[i][1])
      BY <2>3, IncreasingPairwise
    <3> QED
      BY <2>1, <2>4, <3>1
  <2>6. n+1 = i
    BY <1>0, <1>1, <2>2, <2>5
  <2> QED
    BY <1>2, <2>1, <2>3, <2>6
<1> QED
  BY <1>4, <1>5 DEF n

(***************************************************************************)
(* One pair left out.                                                      *)
(***************************************************************************)
(* qs is ps without its pair j; its map then loses that key.               *)
IsWithout(qs, ps, j) ==
  /\ Len(qs) = Len(ps) - 1
  /\ \A i \in 1..Len(ps)-1 : qs[i] = IF i < j THEN ps[i] ELSE ps[i+1]

Loses(qs, ps, j) ==
  /\ Increasing(qs)
  /\ AsMap(qs) = Restrict(AsMap(ps), DOMAIN AsMap(ps) \ {Number(ps[j][1])})

(* An array that leaves one pair out is increasing, and its map is the map *)
(* without the key of that pair.                                           *)
LEMMA WithoutOne ==
  ASSUME NEW K, NEW V, Numbers(K), NEW ps \in PairArrays(K, V), Increasing(ps),
         NEW j \in 1..Len(ps), NEW qs \in PairArrays(K, V), IsWithout(qs, ps, j)
  PROVE  Loses(qs, ps, j)
<1> DEFINE f == AsMap(ps)
           S == DOMAIN f \ {Number(ps[j][1])}
           g == Restrict(f, S)
<1>0. Len(ps) \in Nat /\ Len(qs) = Len(ps) - 1 /\ j \in Int
  BY DEF PairArrays, IsWithout
<1>1. \A i \in 1..Len(qs) : qs[i] = IF i < j THEN ps[i] ELSE ps[i+1]
  BY DEF IsWithout
<1>2. Increasing(qs)
  <2> SUFFICES ASSUME NEW i \in 1..Len(qs)-1
               PROVE  KeyCmp(qs[i][1], qs[i+1][1]) = "LT"
    BY DEF Increasing
  <2>1. i \in 1..Len(qs) /\ i+1 \in 1..Len(qs)
    BY <1>0
  <2>2. PICK a \in 1..Len(ps), b \in 1..Len(ps) : a < b /\ qs[i] = ps[a] /\ qs[i+1] = ps[b]
    <3>1. CASE i+1 < j
      <4>1. i < j /\ i \in 1..Len(ps) /\ i+1 \in 1..Len(ps) /\ i < i+1
        BY <1>0, <3>1
      <4> QED
        BY <1>1, <2>1, <3>1, <4>1
    <3>2. CASE i+1 = j
      <4>1. i < j /\ ~ (i+1 < j) /\ i \in 1..Len(ps) /\ (i+1)+1 \in 1..Len(ps) /\ i < (i+1)+1
        BY <1>0, <3>2
      <4> QED
        BY <1>1, <2>1, <4>1
    <3>3. CASE ~ (i < j)
      <4>1. /\ ~ (i+1 < j) /\ i+1 \in 1..Len(ps) /\ (i+1)+1 \in 1..Len(ps)
            /\ i+1 < (i+1)+1
        BY <1>0, <3>3
      <4> QED
        BY <1>1, <2>1, <3>3, <4>1
    <3> QED
      BY <1>0, <3>1, <3>2, <3>3
  <2>3. Number(ps[a][1]) < Number(ps[b][1])
    BY <2>2, IncreasingPairwise
  <2> QED
    BY <2>2, <2>3, KeysOf, Compared
<1>3. /\ DOMAIN f = {Number(ps[i][1]) : i \in 1..Len(ps)}
      /\ \A i \in 1..Len(ps) : f[Number(ps[i][1])] = Number(ps[i][2])
  <2>1. MapsKeys(f, ps)
    BY MapAt
  <2> QED
    BY <2>1 DEF MapsKeys
<1> HIDE DEF f
<1>4. g = [n \in S |-> g[n]] /\ \A n \in S : g[n] = f[n]
  BY Zenon DEF Restrict
<1>5. ASSUME NEW i \in 1..Len(ps), i # j PROVE Number(ps[i][1]) # Number(ps[j][1])
  BY <1>5, KeysDiffer
<1>6. ASSUME NEW i \in 1..Len(qs)
      PROVE  Number(qs[i][1]) \in S /\ g[Number(qs[i][1])] = Number(qs[i][2])
  <2>1. PICK a \in 1..Len(ps) : a # j /\ qs[i] = ps[a]
    <3>1. CASE i < j
      BY <1>0, <1>1, <3>1
    <3>2. CASE ~ (i < j)
      <4>1. i+1 \in 1..Len(ps) /\ i+1 # j
        BY <1>0, <3>2
      <4> QED
        BY <1>1, <3>2, <4>1
    <3> QED
      BY <3>1, <3>2
  <2>2. Number(ps[a][1]) # Number(ps[j][1])
    BY <1>5, <2>1
  <2>3. Number(ps[a][1]) \in S
    BY <1>3, <2>2, Zenon
  <2> QED
    BY <1>3, <1>4, <2>1, <2>3, Zenon
<1>7. ASSUME NEW n \in S PROVE \E i \in 1..Len(qs) : n = Number(qs[i][1])
  <2>1. PICK a \in 1..Len(ps) : n = Number(ps[a][1])
    BY <1>3, Zenon
  <2>2. a # j
    BY <2>1
  <2>3. CASE a < j
    <3>1. a \in 1..Len(qs)
      BY <1>0, <2>3
    <3> QED
      BY <1>1, <2>1, <2>3, <3>1
  <2>4. CASE ~ (a < j)
    <3>1. a-1 \in 1..Len(qs) /\ ~ (a-1 < j) /\ (a-1)+1 = a
      BY <1>0, <2>2, <2>4
    <3>2. qs[a-1] = ps[(a-1)+1]
      BY <1>1, <3>1
    <3> QED
      BY <2>1, <3>1, <3>2
  <2> QED
    BY <2>3, <2>4
<1> HIDE DEF S, g
<1>8. S = {Number(qs[i][1]) : i \in 1..Len(qs)}
  BY <1>6, <1>7, Zenon
<1>9. IsMapOf(g, qs)
  BY <1>4, <1>6, <1>8, Zenon DEF IsMapOf
<1>10. IsMapOf(AsMap(qs), qs)
  BY <1>2, MapOf
<1>11. AsMap(qs) = g
  BY <1>9, <1>10, MapIsUnique
<1> QED
  BY <1>2, <1>11 DEF Loses, g, S, f

(* ArrayMap_popMin removes the least key, as PersistentMaps promises, and  *)
(* what it copies is an ArrayMap.                                          *)
THEOREM PopIsLeast ==
  ASSUME NEW K, NEW V, Numbers(K), NEW ps \in PairArrays(K, V), Increasing(ps),
         ps # <<>>
  PROVE  /\ Increasing(Tail(ps))
         /\ AsMap(Tail(ps)) = Maps!Least(AsMap(ps))
<1>0. Len(ps) \in Nat /\ 1 \in 1..Len(ps) /\ ps \in Seq(K \X V)
  BY DEF PairArrays
<1>1. Tail(ps) \in PairArrays(K, V) /\ IsWithout(Tail(ps), ps, 1)
  BY <1>0 DEF PairArrays, IsWithout
<1>2. Loses(Tail(ps), ps, 1)
  <2>1. Tail(ps) \in PairArrays(K, V)
    BY <1>1
  <2>2. IsWithout(Tail(ps), ps, 1)
    BY <1>1
  <2>3. 1 \in 1..Len(ps)
    BY <1>0
  <2> QED
    BY <2>1, <2>2, <2>3, WithoutOne, Zenon
<1> DEFINE S == DOMAIN AsMap(ps)
           a == Number(ps[1][1])
<1>3. a \in S /\ \A n \in S : a <= n
  <2>1. /\ S = {Number(ps[i][1]) : i \in 1..Len(ps)}
        /\ \A i \in 1..Len(ps) : AsMap(ps)[Number(ps[i][1])] = Number(ps[i][2])
    <3>1. MapsKeys(AsMap(ps), ps)
      BY MapAt
    <3> QED
      BY <3>1 DEF MapsKeys
  <2>2. ASSUME NEW i \in 1..Len(ps) PROVE a <= Number(ps[i][1])
    <3>1. a \in Int /\ Number(ps[i][1]) \in Int
      BY <1>0, KeysOf
    <3>2. CASE i = 1
      BY <3>1, <3>2
    <3>3. CASE 1 < i
      <4>1. a < Number(ps[i][1])
        BY <1>0, <3>3, IncreasingPairwise
      <4> QED
        BY <3>1, <4>1
    <3> QED
      BY <1>0, <3>2, <3>3
  <2> HIDE DEF S, a
  <2>3. a \in S
    BY <1>0, <2>1 DEF a
  <2> QED
    BY <2>1, <2>2, <2>3
<1>4. S \subseteq Int
  <2>1. /\ S = {Number(ps[i][1]) : i \in 1..Len(ps)}
        /\ \A i \in 1..Len(ps) : AsMap(ps)[Number(ps[i][1])] = Number(ps[i][2])
    <3>1. MapsKeys(AsMap(ps), ps)
      BY MapAt
    <3> QED
      BY <3>1 DEF MapsKeys
  <2> QED
    BY <2>1, KeysOf
<1> HIDE DEF S, a
<1>5. Min(S) = a
  <2>1. Min(S) \in S /\ \A n \in S : Min(S) <= n
    BY <1>3, Zenon DEF Min
  <2>2. a <= Min(S) /\ Min(S) <= a /\ a \in Int /\ Min(S) \in Int
    BY <1>3, <1>4, <2>1, Zenon
  <2> HIDE DEF S, a
  <2> QED
    BY <2>2
<1> QED
  BY <1>2, <1>5 DEF Loses, S, a, Maps!Least, Maps!Restrict, Maps!Min, Restrict, Min

(* ArrayMap_erase of a key that is present and not the first removes the   *)
(* key before it and keeps the one it was given, in an array that is still *)
(* increasing: no search in it can tell.                                   *)
THEOREM EraseLosesTheOneBefore ==
  ASSUME NEW K, NEW V, Numbers(K), NEW ps \in PairArrays(K, V), Increasing(ps),
         NEW k \in K, IsAt(ps, PlaceOf(ps, k), k), PlaceOf(ps, k) # 0
  PROVE  LET n  == PlaceOf(ps, k)
             qs == Shifted(ps, n)
         IN  /\ Increasing(qs)
             /\ AsMap(qs) = Restrict(AsMap(ps), DOMAIN AsMap(ps) \ {Number(ps[n][1])})
             /\ Number(ps[n][1]) < Number(k)
             /\ Number(k) \in DOMAIN AsMap(qs)
<1> DEFINE n == PlaceOf(ps, k)
           qs == Shifted(ps, n)
<1>0. Len(ps) \in Nat /\ Number(k) \in Int /\ ps \in Seq(K \X V)
  BY DEF PairArrays, Numbers
<1>1. n \in 0..Len(ps) /\ \A i \in 1..Len(ps) : i <= n <=> Number(ps[i][1]) < Number(k)
  BY PlaceIsFirst
<1>2. n \in 1..Len(ps)
  BY <1>0, <1>1
<1>3. Number(k) \in DOMAIN AsMap(ps)
  BY LookupFinds
<1> HIDE DEF n
<1>4. qs \in PairArrays(K, V) /\ IsWithout(qs, ps, n)
  <2> DEFINE b == SubSeq(ps, 1, n-1)
             d == SubSeq(ps, n+1, Len(ps))
  <2>1. b \in Seq(K \X V) /\ Len(b) = n-1 /\ \A i \in 1..n-1 : b[i] = ps[i]
    BY <1>0, <1>2
  <2>2. /\ d \in Seq(K \X V) /\ Len(d) = Len(ps) - n
        /\ \A i \in 1..Len(ps)-n : d[i] = ps[(n+1) + i - 1]
    BY <1>0, <1>2
  <2> HIDE DEF b, d
  <2>3. /\ b \o d \in Seq(K \X V) /\ Len(b \o d) = Len(b) + Len(d)
        /\ \A i \in 1..Len(b) + Len(d) :
             (b \o d)[i] = IF i <= Len(b) THEN b[i] ELSE d[i - Len(b)]
    BY <2>1, <2>2, ConcatProperties, Zenon
  <2>4. qs = b \o d
    BY DEF Shifted, b, d
  <2>5. ASSUME NEW i \in 1..Len(ps)-1
        PROVE  qs[i] = IF i < n THEN ps[i] ELSE ps[i+1]
    <3>1. i \in 1..Len(b) + Len(d)
      BY <1>0, <1>2, <2>1, <2>2
    <3>2. (b \o d)[i] = IF i <= Len(b) THEN b[i] ELSE d[i - Len(b)]
      BY <2>3, <3>1, Zenon
    <3>3. CASE i < n
      <4>1. i <= Len(b) /\ i \in 1..n-1
        BY <1>2, <2>1, <3>3
      <4> QED
        BY <2>1, <2>4, <3>2, <3>3, <4>1
    <3>4. CASE ~ (i < n)
      <4>1. ~ (i <= Len(b)) /\ i - Len(b) \in 1..Len(ps)-n /\ (n+1) + (i - Len(b)) - 1 = i+1
        BY <1>0, <1>2, <2>1, <3>4
      <4>2. d[i - Len(b)] = ps[(n+1) + (i - Len(b)) - 1]
        BY <2>2, <4>1
      <4> QED
        BY <2>4, <3>2, <3>4, <4>1, <4>2
    <3> QED
      BY <3>3, <3>4
  <2>6. Len(qs) = Len(ps) - 1 /\ qs \in Seq(K \X V)
    BY <1>0, <1>2, <2>1, <2>2, <2>3, <2>4
  <2> QED
    BY <2>5, <2>6 DEF IsWithout, PairArrays
<1> HIDE DEF qs
<1>5. Loses(qs, ps, n)
  <2>1. qs \in PairArrays(K, V)
    BY <1>4
  <2>2. IsWithout(qs, ps, n)
    BY <1>4
  <2> QED
    BY <1>2, <2>1, <2>2, WithoutOne, Zenon
<1>6. Number(ps[n][1]) < Number(k) /\ Number(ps[n][1]) \in Int
  BY <1>1, <1>2, KeysOf
<1>7. Number(k) \in DOMAIN AsMap(ps) \ {Number(ps[n][1])}
  BY <1>0, <1>3, <1>6
<1>8. Number(k) \in DOMAIN AsMap(qs)
  BY <1>5, <1>7, Zenon DEF Loses, Restrict
<1> QED
  BY <1>5, <1>6, <1>8 DEF Loses, n, qs

(***************************************************************************)
(* What fromArray keeps.                                                   *)
(***************************************************************************)
(* Neighbours that are not out of order are all in order.                  *)
LEMMA SortedPairwise ==
  ASSUME NEW K, NEW V, Numbers(K), NEW ps \in PairArrays(K, V), Sorted(ps),
         NEW i \in 1..Len(ps), NEW j \in 1..Len(ps), i <= j
  PROVE  Number(ps[i][1]) <= Number(ps[j][1])
<1> DEFINE T == {n \in i..Len(ps) : ~ (Number(ps[i][1]) <= Number(ps[n][1]))}
<1>0. Len(ps) \in Nat /\ Number(ps[i][1]) \in Int
  BY KeysOf DEF PairArrays
<1> SUFFICES ASSUME T # {} PROVE FALSE
  BY <1>0
<1>1. PICK n \in T : \A k \in T : n <= k
  <2>1. T \subseteq Nat
    BY <1>0
  <2> HIDE DEF T
  <2> QED
    BY <2>1, Least
<1>2. n # i
  BY <1>0
<1>3. /\ n-1 \in 1..Len(ps)-1 /\ n-1 \in 1..Len(ps) /\ n \in 1..Len(ps)
      /\ (n-1)+1 = n /\ n-1 \in i..Len(ps) /\ ~ (n <= n-1)
  BY <1>0, <1>2
<1>4. Number(ps[n-1][1]) \in Int /\ Number(ps[n][1]) \in Int
  BY <1>3, KeysOf
<1>5. KeyCmp(ps[n-1][1], ps[n][1]) # "GT"
  BY <1>3 DEF Sorted
<1>6. Number(ps[n-1][1]) <= Number(ps[n][1])
  BY <1>4, <1>5, Compared
<1>7. n-1 \notin T
  BY <1>1, <1>3
<1>8. Number(ps[i][1]) <= Number(ps[n-1][1])
  BY <1>3, <1>7
<1> QED
  BY <1>0, <1>1, <1>4, <1>6, <1>8

(* fromArray drops a pair exactly when an earlier pair of the sorted array *)
(* has its key: one pair of each key is kept, the first.                   *)
THEOREM FirstOfEachKeyIsKept ==
  ASSUME NEW K, NEW V, Numbers(K), NEW ps \in PairArrays(K, V), Sorted(ps),
         NEW i \in 1..Len(ps)
  PROVE  i \notin Repeated(ps) <=> \A j \in 1..i-1 : Number(ps[j][1]) # Number(ps[i][1])
<1>0. Len(ps) \in Nat /\ Number(ps[i][1]) \in Int
  BY KeysOf DEF PairArrays
<1>1. ASSUME i \notin Repeated(ps), NEW j \in 1..i-1, Number(ps[j][1]) = Number(ps[i][1])
      PROVE  FALSE
  <2>1. i \in 2..Len(ps) /\ j \in 1..Len(ps) /\ i-1 \in 1..Len(ps) /\ j <= i-1 /\ i-1 <= i
    BY <1>0
  <2>2. Number(ps[j][1]) <= Number(ps[i-1][1])
    BY <2>1, SortedPairwise
  <2>3. Number(ps[i-1][1]) <= Number(ps[i][1])
    BY <2>1, SortedPairwise
  <2>4. Number(ps[i-1][1]) \in Int
    BY <2>1, KeysOf
  <2>5. Number(ps[i-1][1]) = Number(ps[i][1])
    BY <1>0, <1>1, <2>2, <2>3, <2>4
  <2>6. KeyCmp(ps[i-1][1], ps[i][1]) = "EQ"
    BY <1>0, <2>4, <2>5, Compared
  <2> QED
    BY <1>1, <2>1, <2>6 DEF Repeated
<1>2. ASSUME i \in Repeated(ps) PROVE \E j \in 1..i-1 : Number(ps[j][1]) = Number(ps[i][1])
  <2>1. i \in 2..Len(ps) /\ KeyCmp(ps[i-1][1], ps[i][1]) = "EQ"
    BY <1>2 DEF Repeated
  <2>2. i-1 \in 1..i-1 /\ i-1 \in 1..Len(ps)
    BY <1>0, <2>1
  <2>3. Number(ps[i-1][1]) = Number(ps[i][1])
    BY <1>0, <2>1, <2>2, KeysOf, Compared
  <2> QED
    BY <2>2, <2>3
<1> QED
  BY <1>1, <1>2

(***************************************************************************)
(* Size, and the order of maps.                                            *)
(***************************************************************************)
(* ArrayMap_size is the number of keys (MappingClient!Queries).            *)
THEOREM SizeIsCardinality ==
  ASSUME NEW K, NEW V, Numbers(K), NEW ps \in PairArrays(K, V), Increasing(ps)
  PROVE  Cardinality(DOMAIN AsMap(ps)) = Len(ps)
<1> DEFINE D == DOMAIN AsMap(ps)
           b == [i \in 1..Len(ps) |-> Number(ps[i][1])]
<1>0. Len(ps) \in Nat
  BY DEF PairArrays
<1>1. /\ D = {Number(ps[i][1]) : i \in 1..Len(ps)}
      /\ \A i \in 1..Len(ps) : AsMap(ps)[Number(ps[i][1])] = Number(ps[i][2])
  <2>1. MapsKeys(AsMap(ps), ps)
    BY MapAt
  <2> QED
    BY <2>1 DEF MapsKeys
<1>2. \A i, j \in 1..Len(ps) : b[i] = b[j] => i = j
  BY KeysDiffer
<1> HIDE DEF D
<1>3. b \in [1..Len(ps) -> D] /\ \A d \in D : \E i \in 1..Len(ps) : b[i] = d
  BY <1>1
<1> HIDE DEF b
<1>4. b \in Bijection(1..Len(ps), D)
  BY <1>2, <1>3 DEF Bijection, Injection, Surjection, IsInjective
<1>5. ExistsBijection(1..Len(ps), D)
  BY <1>4 DEF ExistsBijection
<1> QED
  BY <1>0, <1>5, FS_CountingElements DEF D

(* What the minimum of a set of integers is.                               *)
LEMMA LeastIs ==
  ASSUME NEW S, S \subseteq Int, NEW a \in S, \A n \in S : a <= n
  PROVE  Min(S) = a
<1>1. Min(S) \in S /\ \A n \in S : Min(S) <= n
  BY Zenon DEF Min
<1>2. a <= Min(S) /\ Min(S) <= a /\ a \in Int /\ Min(S) \in Int
  BY <1>1, Zenon
<1> QED
  BY <1>2

(* What two arrays have in common before place m does not differ.          *)
SameAt(ps, qs, i) == Number(ps[i][1]) = Number(qs[i][1]) /\ Number(ps[i][2]) = Number(qs[i][2])

(* A key below that of place m, before which two arrays agree, has the     *)
(* same value in both.                                                     *)
LEMMA AgreeBefore ==
  ASSUME NEW K, NEW V, Numbers(K), NEW ps \in PairArrays(K, V), Increasing(ps),
         NEW qs \in PairArrays(K, V), Increasing(qs),
         NEW m \in 1..Len(ps), m \in 1..Len(qs), \A i \in 1..m-1 : SameAt(ps, qs, i),
         NEW d \in DOMAIN AsMap(ps), d < Number(ps[m][1])
  PROVE  d \in DOMAIN AsMap(qs) /\ AsMap(ps)[d] = AsMap(qs)[d]
<1>0. Len(ps) \in Nat /\ Len(qs) \in Nat
  BY DEF PairArrays
<1>1. /\ DOMAIN AsMap(ps) = {Number(ps[i][1]) : i \in 1..Len(ps)}
      /\ \A i \in 1..Len(ps) : AsMap(ps)[Number(ps[i][1])] = Number(ps[i][2])
  <2>1. MapsKeys(AsMap(ps), ps)
    BY MapAt
  <2> QED
    BY <2>1 DEF MapsKeys
<1>2. /\ DOMAIN AsMap(qs) = {Number(qs[i][1]) : i \in 1..Len(qs)}
      /\ \A i \in 1..Len(qs) : AsMap(qs)[Number(qs[i][1])] = Number(qs[i][2])
  <2>1. MapsKeys(AsMap(qs), qs)
    BY MapAt
  <2> QED
    BY <2>1 DEF MapsKeys
<1>3. PICK i \in 1..Len(ps) : d = Number(ps[i][1])
  BY <1>1
<1>4. Number(ps[i][1]) \in Int /\ Number(ps[m][1]) \in Int
  BY KeysOf
<1>5. i < m
  <2>1. i # m
    BY <1>3, <1>4
  <2>2. ~ (m < i)
    <3> SUFFICES ASSUME m < i PROVE FALSE
      OBVIOUS
    <3>1. Number(ps[m][1]) < Number(ps[i][1])
      BY IncreasingPairwise
    <3> QED
      BY <1>3, <1>4, <3>1
  <2> QED
    BY <1>0, <2>1, <2>2
<1>6. i \in 1..m-1 /\ i \in 1..Len(qs)
  BY <1>0, <1>5
<1>7. SameAt(ps, qs, i)
  BY <1>6
<1> QED
  BY <1>1, <1>2, <1>3, <1>6, <1>7, Zenon DEF SameAt

(* At the first different place the smaller key is not in the other array. *)
LEMMA NotAKey ==
  ASSUME NEW K, NEW V, Numbers(K), NEW ps \in PairArrays(K, V), Increasing(ps),
         NEW qs \in PairArrays(K, V), Increasing(qs),
         NEW m \in 1..Len(ps), m \in 1..Len(qs), \A i \in 1..m-1 : SameAt(ps, qs, i),
         Number(ps[m][1]) < Number(qs[m][1])
  PROVE  Number(ps[m][1]) \notin DOMAIN AsMap(qs)
<1>0. Len(ps) \in Nat /\ Len(qs) \in Nat
  BY DEF PairArrays
<1>1. /\ DOMAIN AsMap(qs) = {Number(qs[i][1]) : i \in 1..Len(qs)}
      /\ \A i \in 1..Len(qs) : AsMap(qs)[Number(qs[i][1])] = Number(qs[i][2])
  <2>1. MapsKeys(AsMap(qs), qs)
    BY MapAt
  <2> QED
    BY <2>1 DEF MapsKeys
<1> SUFFICES ASSUME NEW j \in 1..Len(qs), Number(qs[j][1]) = Number(ps[m][1])
             PROVE  FALSE
  BY <1>1
<1>2. Number(qs[j][1]) \in Int /\ Number(ps[m][1]) \in Int /\ Number(qs[m][1]) \in Int
  BY KeysOf
<1>3. CASE j < m
  <2>1. j \in 1..m-1 /\ j \in 1..Len(ps)
    BY <1>0, <1>3
  <2>2. Number(ps[j][1]) = Number(qs[j][1])
    BY <2>1 DEF SameAt
  <2>3. Number(ps[j][1]) < Number(ps[m][1])
    BY <1>3, <2>1, IncreasingPairwise
  <2> QED
    BY <1>2, <2>2, <2>3
<1>4. CASE m < j
  <2>1. Number(qs[m][1]) < Number(qs[j][1])
    BY <1>4, IncreasingPairwise
  <2> QED
    BY <1>2, <2>1
<1>5. CASE j = m
  BY <1>2, <1>5
<1> QED
  BY <1>0, <1>3, <1>4, <1>5

(* The least key that differs is no further than the first different place.*)
LEMMA LeastDiffering ==
  ASSUME NEW K, NEW V, Numbers(K), NEW ps \in PairArrays(K, V), Increasing(ps),
         NEW qs \in PairArrays(K, V), Increasing(qs),
         NEW m \in 1..Len(ps), m \in 1..Len(qs), \A i \in 1..m-1 : SameAt(ps, qs, i),
         NEW k \in Differing(AsMap(ps), AsMap(qs)),
         k <= Number(ps[m][1]), k <= Number(qs[m][1])
  PROVE  Min(Differing(AsMap(ps), AsMap(qs))) = k
<1> DEFINE f == AsMap(ps)
           g == AsMap(qs)
           S == Differing(f, g)
<1>1. S \subseteq Int
  <2>1. /\ DOMAIN f = {Number(ps[i][1]) : i \in 1..Len(ps)}
        /\ \A i \in 1..Len(ps) : f[Number(ps[i][1])] = Number(ps[i][2])
    <3>1. MapsKeys(f, ps)
      BY MapAt
    <3> QED
      BY <3>1 DEF MapsKeys
  <2>2. /\ DOMAIN g = {Number(qs[i][1]) : i \in 1..Len(qs)}
        /\ \A i \in 1..Len(qs) : g[Number(qs[i][1])] = Number(qs[i][2])
    <3>1. MapsKeys(g, qs)
      BY MapAt
    <3> QED
      BY <3>1 DEF MapsKeys
  <2>3. DOMAIN f \subseteq Int
    BY <2>1, KeysOf
  <2>4. DOMAIN g \subseteq Int
    BY <2>2, KeysOf
  <2> HIDE DEF f, g
  <2> QED
    BY <2>3, <2>4 DEF Differing
<1>2. ASSUME NEW d \in S PROVE k <= d
  <2>0. k \in Int /\ d \in Int /\ Number(ps[m][1]) \in Int /\ Number(qs[m][1]) \in Int
    BY <1>1, KeysOf
  <2> SUFFICES ASSUME d < k PROVE FALSE
    BY <2>0
  <2>1. d < Number(ps[m][1]) /\ d < Number(qs[m][1])
    BY <2>0
  <2>2. CASE d \in DOMAIN f
    <3>1. d \in DOMAIN g /\ f[d] = g[d]
      BY <2>1, <2>2, AgreeBefore
    <3> QED
      BY <2>2, <3>1, Zenon DEF Differing
  <2>3. CASE d \in DOMAIN g
    <3>1. \A i \in 1..m-1 : SameAt(qs, ps, i)
      BY DEF SameAt
    <3>2. d \in DOMAIN f /\ g[d] = f[d]
      BY <2>1, <2>3, <3>1, AgreeBefore
    <3> QED
      BY <2>3, <3>2, Zenon DEF Differing
  <2> QED
    BY <2>2, <2>3, Zenon DEF Differing
<1> HIDE DEF S
<1>3. k \in S
  BY DEF S
<1> QED
  BY <1>1, <1>2, <1>3, LeastIs DEF S

(* pfds_ArrayMap_cmp compares arrays of one size place by place; that is   *)
(* comparing their maps at the least key where they differ.                *)
THEOREM FirstDifferenceIsLeast ==
  ASSUME NEW K, NEW V, Numbers(K), Numbers(V),
         NEW ps \in PairArrays(K, V), Increasing(ps),
         NEW qs \in PairArrays(K, V), Increasing(qs), Len(ps) = Len(qs)
  PROVE  FirstDifference(ps, qs) = LeastDifference(AsMap(ps), AsMap(qs))
<1> DEFINE f == AsMap(ps)
           g == AsMap(qs)
           D == DifferentPlaces(ps, qs)
           key(i) == Number(ps[i][1])
           keyQ(i) == Number(qs[i][1])
<1>0. Len(ps) \in Nat /\ DOMAIN ps = 1..Len(ps)
  BY DEF PairArrays
<1>1. /\ DOMAIN f = {Number(ps[i][1]) : i \in 1..Len(ps)}
      /\ \A i \in 1..Len(ps) : f[Number(ps[i][1])] = Number(ps[i][2])
  <2>1. MapsKeys(f, ps)
    BY MapAt
  <2> QED
    BY <2>1 DEF MapsKeys
<1>2. /\ DOMAIN g = {Number(qs[i][1]) : i \in 1..Len(qs)}
      /\ \A i \in 1..Len(qs) : g[Number(qs[i][1])] = Number(qs[i][2])
  <2>1. MapsKeys(g, qs)
    BY MapAt
  <2> QED
    BY <2>1 DEF MapsKeys
<1>3. ASSUME NEW i \in 1..Len(ps)
      PROVE  /\ key(i) \in Int /\ keyQ(i) \in Int
             /\ Number(ps[i][2]) \in Int /\ Number(qs[i][2]) \in Int
             /\ i \in D <=> ~ SameAt(ps, qs, i)
  <2>1. /\ key(i) \in Int /\ keyQ(i) \in Int
        /\ Number(ps[i][2]) \in Int /\ Number(qs[i][2]) \in Int
    BY KeysOf DEF Numbers
  <2>2. PairCmp(ps[i], qs[i]) = "EQ" <=> SameAt(ps, qs, i)
    BY <2>1, Compared DEF PairCmp, SameAt
  <2> QED
    BY <1>0, <2>1, <2>2 DEF DifferentPlaces
<1>4. CASE D = {}
  <2>1. \A i \in 1..Len(ps) : SameAt(ps, qs, i)
    BY <1>3, <1>4
  <2>2. \A d \in DOMAIN f : d \in DOMAIN g /\ f[d] = g[d]
    <3> TAKE d \in DOMAIN f
    <3>1. PICK i \in 1..Len(ps) : d = Number(ps[i][1])
      BY <1>1, Zenon
    <3>2. i \in 1..Len(qs)
      OBVIOUS
    <3>3. SameAt(ps, qs, i)
      BY <2>1
    <3> QED
      BY <1>1, <1>2, <3>1, <3>2, <3>3, Zenon DEF SameAt
  <2>3. \A d \in DOMAIN g : d \in DOMAIN f
    <3> TAKE d \in DOMAIN g
    <3>1. PICK i \in 1..Len(qs) : d = Number(qs[i][1])
      BY <1>2, Zenon
    <3>2. i \in 1..Len(ps)
      OBVIOUS
    <3>3. SameAt(ps, qs, i)
      BY <2>1, <3>2
    <3> QED
      BY <1>1, <3>1, <3>2, <3>3, Zenon DEF SameAt
  <2> HIDE DEF f, g
  <2>4. Differing(f, g) = {}
    BY <2>2, <2>3, Zenon DEF Differing
  <2>5. LeastDifference(f, g) = "EQ"
    BY <2>4 DEF LeastDifference
  <2>6. FirstDifference(ps, qs) = "EQ"
    BY <1>4 DEF FirstDifference
  <2> QED
    BY <2>5, <2>6 DEF f, g
<1>5. CASE D # {}
  <2>1. D \subseteq 1..Len(ps)
    BY <1>0 DEF DifferentPlaces
  <2> DEFINE m == Min(D)
  <2>2. m \in D /\ \A i \in D : m <= i
    <3> HIDE DEF D
    <3>1. D \subseteq Nat
      BY <1>0, <2>1
    <3>2. \E i \in D : \A j \in D : i <= j
      BY <1>5, <3>1, Least
    <3> QED
      BY <3>2, Zenon DEF Min
  <2>3. FirstDifference(ps, qs) = PairCmp(ps[m], qs[m])
    BY <1>5 DEF FirstDifference
  <2> HIDE DEF D, m
  <2>4. m \in 1..Len(ps) /\ m \in 1..Len(qs) /\ ~ SameAt(ps, qs, m)
    BY <1>3, <2>1, <2>2
  <2>5. \A i \in 1..m-1 : SameAt(ps, qs, i)
    <3> TAKE i \in 1..m-1
    <3>1. i \in 1..Len(ps) /\ ~ (m <= i)
      BY <1>0, <2>4
    <3> QED
      BY <1>3, <2>2, <3>1
  <2>6. \A i \in 1..m-1 : SameAt(qs, ps, i)
    BY <2>5, Zenon DEF SameAt
  <2>7. key(m) \in Int /\ keyQ(m) \in Int /\ Number(ps[m][2]) \in Int /\ Number(qs[m][2]) \in Int
    BY <1>3, <2>4
  <2>8. key(m) \in DOMAIN f /\ keyQ(m) \in DOMAIN g
    BY <1>1, <1>2, <2>4, Zenon
  <2>9. CASE key(m) < keyQ(m)
    <3>1. key(m) \notin DOMAIN g
      BY <2>4, <2>5, <2>9, NotAKey
    <3>2. key(m) \in Differing(f, g)
      BY <2>8, <3>1, Zenon DEF Differing
    <3>3. Min(Differing(f, g)) = key(m)
      BY <2>4, <2>5, <2>7, <2>9, <3>2, LeastDiffering
    <3>4. LeastDifference(f, g) = "LT"
      BY <3>1, <3>2, <3>3, Zenon DEF LeastDifference
    <3>5. PairCmp(ps[m], qs[m]) = "LT"
      BY <2>7, <2>9, Compared DEF PairCmp
    <3> QED
      BY <2>3, <3>4, <3>5
  <2>10. CASE keyQ(m) < key(m)
    <3>1. keyQ(m) \notin DOMAIN f
      BY <2>4, <2>6, <2>10, NotAKey
    <3>2. keyQ(m) \in Differing(f, g)
      BY <2>8, <3>1, Zenon DEF Differing
    <3>3. Min(Differing(f, g)) = keyQ(m)
      BY <2>4, <2>5, <2>7, <2>10, <3>2, LeastDiffering
    <3>4. LeastDifference(f, g) = "GT"
      BY <2>8, <3>1, <3>2, <3>3, Zenon DEF LeastDifference
    <3>5. PairCmp(ps[m], qs[m]) = "GT"
      BY <2>7, <2>10, Compared DEF PairCmp
    <3> QED
      BY <2>3, <3>4, <3>5
  <2>11. CASE key(m) = keyQ(m)
    <3>1. f[key(m)] = Number(ps[m][2]) /\ g[key(m)] = Number(qs[m][2])
      BY <1>1, <1>2, <2>4, <2>11, Zenon
    <3>2. f[key(m)] # g[key(m)]
      BY <2>4, <2>11, <3>1 DEF SameAt
    <3>3. key(m) \in DOMAIN g
      BY <2>8, <2>11
    <3>4. key(m) \in Differing(f, g)
      BY <2>8, <3>2, <3>3, Zenon DEF Differing
    <3>5. Min(Differing(f, g)) = key(m)
      BY <2>4, <2>5, <2>7, <2>11, <3>4, LeastDiffering
    <3>6. LeastDifference(f, g) = NumberCmp(Number(ps[m][2]), Number(qs[m][2]))
      BY <2>8, <3>1, <3>3, <3>4, <3>5, Zenon DEF LeastDifference
    <3>7. PairCmp(ps[m], qs[m]) = NumberCmp(Number(ps[m][2]), Number(qs[m][2]))
      BY <2>7, <2>11, Compared DEF PairCmp, KeyCmp
    <3> QED
      BY <2>3, <3>6, <3>7
  <2> QED
    BY <2>7, <2>9, <2>10, <2>11
<1> QED
  BY <1>4, <1>5

(* pfds_ArrayMap_cmp is the order of maps: it depends on the maps alone,   *)
(* not on which objects hold their numbers (MappingClient!Ordering).       *)
THEOREM ComparesTheMaps ==
  ASSUME NEW K, NEW V, Numbers(K), Numbers(V),
         NEW ps \in PairArrays(K, V), Increasing(ps),
         NEW qs \in PairArrays(K, V), Increasing(qs)
  PROVE  PairsCompared(ps, qs) = MapCmp(AsMap(ps), AsMap(qs))
<1>1. /\ Cardinality(DOMAIN AsMap(ps)) = Len(ps)
      /\ Cardinality(DOMAIN AsMap(qs)) = Len(qs)
  BY SizeIsCardinality
<1>2. Len(ps) \in Nat /\ Len(qs) \in Nat
  BY DEF PairArrays
<1>3. CASE Len(ps) = Len(qs)
  <2>1. FirstDifference(ps, qs) = LeastDifference(AsMap(ps), AsMap(qs))
    BY <1>3, FirstDifferenceIsLeast
  <2>2. NumberCmp(Len(ps), Len(qs)) = "EQ"
    BY <1>2, <1>3 DEF NumberCmp
  <2> QED
    BY <1>1, <2>1, <2>2, Zenon DEF PairsCompared, MapCmp
<1>4. CASE Len(ps) # Len(qs)
  <2>1. NumberCmp(Len(ps), Len(qs)) # "EQ"
    BY <1>2, <1>4 DEF NumberCmp
  <2> QED
    BY <1>1, <2>1, Zenon DEF PairsCompared, MapCmp
<1> QED
  BY <1>3, <1>4

(***************************************************************************)
(* The measures of a TreeMap.                                              *)
(***************************************************************************)
(* What a measure can be.                                                  *)
Measures(K) == Nat \X (K \cup {NoKey}) \X (K \cup {NoKey})

(* The parts of a measure.                                                 *)
LEMMA MeasureParts ==
  ASSUME NEW K, NEW m \in Measures(K)
  PROVE  /\ m = <<m[1], m[2], m[3]>>
         /\ m[1] \in Nat /\ m[2] \in K \cup {NoKey} /\ m[3] \in K \cup {NoKey}
BY DEF Measures

(* The switch without breaks is associative, and NULL its identity.        *)
LEMMA RightKeyIsMonoid ==
  ASSUME NEW K, NEW a \in K \cup {NoKey}, NEW b \in K \cup {NoKey}, NEW c \in K \cup {NoKey}
  PROVE  /\ RightKey(a, b) \in K \cup {NoKey}
         /\ RightKey(NoKey, a) = a /\ RightKey(a, NoKey) = a
         /\ RightKey(RightKey(a, b), c) = RightKey(a, RightKey(b, c))
BY DEF RightKey

(* The measures of a TreeMap are a monoid, missing breaks and all: the     *)
(* measure that a finger tree caches does not depend on how its nodes      *)
(* group the items.                                                        *)
THEOREM MeasuresAreMonoid ==
  ASSUME NEW K, NEW l \in Measures(K), NEW m \in Measures(K), NEW r \in Measures(K)
  PROVE  /\ TreeMapMeasure_mempty \in Measures(K)
         /\ TreeMapMeasure_mappend(l, m) \in Measures(K)
         /\ TreeMapMeasure_mappend(TreeMapMeasure_mempty, m) = m
         /\ TreeMapMeasure_mappend(m, TreeMapMeasure_mempty) = m
         /\ TreeMapMeasure_mappend(TreeMapMeasure_mappend(l, m), r)
              = TreeMapMeasure_mappend(l, TreeMapMeasure_mappend(m, r))
<1>1. /\ l[1] \in Nat /\ m[1] \in Nat /\ r[1] \in Nat /\ m = <<m[1], m[2], m[3]>>
      /\ l[2] \in K \cup {NoKey} /\ m[2] \in K \cup {NoKey} /\ r[2] \in K \cup {NoKey}
      /\ l[3] \in K \cup {NoKey} /\ m[3] \in K \cup {NoKey} /\ r[3] \in K \cup {NoKey}
  BY MeasureParts
<1>2. TreeMapMeasure_mempty \in Measures(K)
  BY DEF TreeMapMeasure_mempty, Measures
<1>3. TreeMapMeasure_mappend(l, m) \in Measures(K)
  <2>1. /\ RightKey(l[2], m[2]) \in K \cup {NoKey} /\ RightKey(l[3], m[3]) \in K \cup {NoKey}
        /\ l[1] + m[1] \in Nat
    BY <1>1 DEF RightKey
  <2> QED
    BY <2>1 DEF TreeMapMeasure_mappend, Measures
<1>4. /\ RightKey(NoKey, m[2]) = m[2] /\ RightKey(NoKey, m[3]) = m[3]
      /\ RightKey(m[2], NoKey) = m[2] /\ RightKey(m[3], NoKey) = m[3]
      /\ 0 + m[1] = m[1] /\ m[1] + 0 = m[1]
  BY <1>1, RightKeyIsMonoid
<1>5. /\ TreeMapMeasure_mappend(TreeMapMeasure_mempty, m) = m
      /\ TreeMapMeasure_mappend(m, TreeMapMeasure_mempty) = m
  BY <1>1, <1>4 DEF TreeMapMeasure_mappend, TreeMapMeasure_mempty
<1>6. /\ (l[1] + m[1]) + r[1] = l[1] + (m[1] + r[1])
      /\ RightKey(RightKey(l[2], m[2]), r[2]) = RightKey(l[2], RightKey(m[2], r[2]))
      /\ RightKey(RightKey(l[3], m[3]), r[3]) = RightKey(l[3], RightKey(m[3], r[3]))
  <2>1. (l[1] + m[1]) + r[1] = l[1] + (m[1] + r[1])
    BY <1>1
  <2>2. RightKey(RightKey(l[2], m[2]), r[2]) = RightKey(l[2], RightKey(m[2], r[2]))
    BY DEF RightKey
  <2>3. RightKey(RightKey(l[3], m[3]), r[3]) = RightKey(l[3], RightKey(m[3], r[3]))
    BY DEF RightKey
  <2> QED
    BY <2>1, <2>2, <2>3
<1>7. TreeMapMeasure_mappend(TreeMapMeasure_mappend(l, m), r)
        = TreeMapMeasure_mappend(l, TreeMapMeasure_mappend(m, r))
  BY <1>6 DEF TreeMapMeasure_mappend
<1> QED
  BY <1>2, <1>3, <1>5, <1>7

(* t[i] is the measure of the first i items.                               *)
IsRunning(t, ps) ==
  /\ t[0] = TreeMapMeasure_mempty
  /\ \A i \in 1..Len(ps) : t[i] = TreeMapMeasure_mappend(t[i-1], KeyMeasure(ps[i][1]))

RunningMeasure(ps) ==
  [i \in 0..Len(ps) |-> IF i = 0 THEN TreeMapMeasure_mempty ELSE <<i, ps[i][1], ps[i][1]>>]

(* One more item: its key is both minKey and maxKey.                       *)
LEMMA NextMeasure ==
  ASSUME NEW K, NoKey \notin K, NEW k \in K, NEW m, NEW i \in Nat, m[1] = i
  PROVE  TreeMapMeasure_mappend(m, KeyMeasure(k)) = <<i+1, k, k>>
BY DEF TreeMapMeasure_mappend, KeyMeasure, RightKey

(* The measure of the first items of a tree is their number and the key of *)
(* the last of them, twice: minKey is not the least key, which             *)
(* pred_TreeMap_findKey never reads.                                       *)
THEOREM RunningMeasures ==
  ASSUME NEW K, NEW V, NoKey \notin K, Numbers(K), NEW ps \in PairArrays(K, V)
  PROVE  /\ IsRunning(RunningMeasure(ps), ps)
         /\ \A t : IsRunning(t, ps) =>
              \A i \in 1..Len(ps) : t[i] = <<i, ps[i][1], ps[i][1]>>
<1>0. Len(ps) \in Nat
  BY DEF PairArrays
<1>1. IsRunning(RunningMeasure(ps), ps)
  <2> DEFINE t == RunningMeasure(ps)
  <2>1. t[0] = TreeMapMeasure_mempty
    BY <1>0 DEF RunningMeasure
  <2>2. ASSUME NEW i \in 1..Len(ps)
        PROVE  t[i] = TreeMapMeasure_mappend(t[i-1], KeyMeasure(ps[i][1]))
    <3>1. t[i] = <<i, ps[i][1], ps[i][1]>> /\ i-1 \in Nat /\ (i-1) + 1 = i
      BY <1>0 DEF RunningMeasure
    <3>2. t[i-1][1] = i-1
      BY <1>0 DEF RunningMeasure, TreeMapMeasure_mempty
    <3>3. ps[i][1] \in K
      BY KeysOf
    <3> HIDE DEF t
    <3>4. TreeMapMeasure_mappend(t[i-1], KeyMeasure(ps[i][1])) = <<(i-1)+1, ps[i][1], ps[i][1]>>
      BY <3>1, <3>2, <3>3, NextMeasure
    <3> QED
      BY <3>1, <3>4
  <2> QED
    BY <2>1, <2>2 DEF IsRunning
<1>2. ASSUME NEW t, IsRunning(t, ps), NEW j \in 1..Len(ps)
      PROVE  t[j] = <<j, ps[j][1], ps[j][1]>>
  <2> DEFINE T == {i \in 1..Len(ps) : t[i] # <<i, ps[i][1], ps[i][1]>>}
  <2> SUFFICES ASSUME T # {} PROVE FALSE
    OBVIOUS
  <2>1. PICK n \in T : \A k \in T : n <= k
    <3>1. T \subseteq Nat
      BY <1>0
    <3> HIDE DEF T
    <3> QED
      BY <3>1, Least
  <2>2. n \in 1..Len(ps) /\ t[n] = TreeMapMeasure_mappend(t[n-1], KeyMeasure(ps[n][1]))
    BY <1>2 DEF IsRunning
  <2>3. t[n-1][1] = n-1
    <3>1. CASE n = 1
      <4>1. n-1 = 0
        BY <3>1
      <4> QED
        BY <1>2, <4>1 DEF IsRunning, TreeMapMeasure_mempty
    <3>2. CASE n # 1
      <4>1. n-1 \in 1..Len(ps) /\ ~ (n <= n-1)
        BY <1>0, <2>2, <3>2
      <4>2. n-1 \notin T
        BY <2>1, <4>1
      <4>3. t[n-1] = <<n-1, ps[n-1][1], ps[n-1][1]>>
        BY <4>1, <4>2
      <4> QED
        BY <4>3
    <3> QED
      BY <3>1, <3>2
  <2>4. ps[n][1] \in K /\ n-1 \in Nat /\ (n-1) + 1 = n
    BY <1>0, <2>2, KeysOf
  <2> HIDE DEF T
  <2>5. TreeMapMeasure_mappend(t[n-1], KeyMeasure(ps[n][1])) = <<(n-1)+1, ps[n][1], ps[n][1]>>
    BY <2>3, <2>4, NextMeasure
  <2> QED
    BY <2>2, <2>4, <2>5 DEF T
<1> QED
  BY <1>1, <1>2

(* The predicate that TreeMap splits its tree with fails up to the place   *)
(* of the key and holds behind it: it is monotone, as                      *)
(* pfds_FingerTree_split requires, and the split is where                  *)
(* ArrayMap_lookup_LE finds the key in an array of the same items.         *)
THEOREM FindKeyIsPlace ==
  ASSUME NEW K, NEW V, NoKey \notin K, Numbers(K),
         NEW ps \in PairArrays(K, V), Increasing(ps), NEW k \in K,
         NEW t, IsRunning(t, ps), NEW i \in 0..Len(ps)
  PROVE  pred_TreeMap_findKey(k, t[i]) <=> PlaceOf(ps, k) < i
<1>0. Len(ps) \in Nat /\ Number(k) \in Int
  BY DEF PairArrays, Numbers
<1>1. /\ PlaceOf(ps, k) \in 0..Len(ps)
      /\ \A j \in 1..Len(ps) : j <= PlaceOf(ps, k) <=> Number(ps[j][1]) < Number(k)
  BY PlaceIsFirst
<1>2. CASE i = 0
  <2>1. ~ pred_TreeMap_findKey(k, t[i])
    BY <1>2 DEF IsRunning, TreeMapMeasure_mempty, pred_TreeMap_findKey
  <2> QED
    BY <1>0, <1>1, <1>2, <2>1
<1>3. CASE i # 0
  <2>1. i \in 1..Len(ps)
    BY <1>0, <1>3
  <2>2. t[i] = <<i, ps[i][1], ps[i][1]>>
    BY <2>1, RunningMeasures
  <2>3. t[i][3] = ps[i][1] /\ ps[i][1] \in K /\ Number(ps[i][1]) \in Int
    BY <2>1, <2>2, KeysOf
  <2>4. pred_TreeMap_findKey(k, t[i]) <=> ~ (Number(ps[i][1]) < Number(k))
    BY <1>0, <2>3, Compared DEF pred_TreeMap_findKey
  <2>5. i <= PlaceOf(ps, k) <=> Number(ps[i][1]) < Number(k)
    BY <1>1, <2>1
  <2> QED
    BY <1>0, <1>1, <2>1, <2>4, <2>5
<1> QED
  BY <1>2, <1>3

(***************************************************************************)
(* The nodes of a concatenation.                                           *)
(***************************************************************************)
(* A node leaves elements for one node less, and never a single one.       *)
LEMMA OneNodeLess ==
  ASSUME NEW left \in Nat, left >= 2
  PROVE  LET rest == left - NodeSize(left)
         IN  /\ NumNodes(left) \in Nat /\ NumNodes(left) > 0
             /\ rest \in Nat /\ rest # 1
             /\ NumNodes(rest) = NumNodes(left) - 1
BY DEF NodeSize, NumNodes

(* left[i] elements remain when i nodes are made.                          *)
IsPacking(left, elts) ==
  /\ left[0] = elts
  /\ \A i \in Nat : left[i+1] = left[i] - NodeSize(left[i])

(* The loop of pfds_FingerTree_app3 that stops after NumNodes nodes has    *)
(* then packed every element, reads none that is not there, and writes no  *)
(* node behind the array on the stack.                                     *)
THEOREM PackingIsExact ==
  ASSUME NEW elts \in Nat, elts >= 2, NEW left, IsPacking(left, elts)
  PROVE  /\ \A i \in 0..NumNodes(elts)-1 : left[i] \in Nat /\ left[i] >= NodeSize(left[i])
         /\ left[NumNodes(elts)] = 0
<1> DEFINE num == NumNodes(elts)
           Good(i) == left[i] \in Nat /\ left[i] # 1 /\ NumNodes(left[i]) = num - i
           T == {i \in 0..num : ~ Good(i)}
<1>0. num \in Nat /\ num > 0
  BY OneNodeLess
<1>1. T = {}
  <2> SUFFICES ASSUME T # {} PROVE FALSE
    OBVIOUS
  <2>1. PICK n \in T : \A k \in T : n <= k
    <3>1. T \subseteq Nat
      BY <1>0
    <3> HIDE DEF T
    <3> QED
      BY <3>1, Least
  <2>2. n # 0
    <3>1. left[0] = elts
      BY DEF IsPacking
    <3> QED
      BY <1>0, <2>1, <3>1
  <2>3. n-1 \in 0..num /\ n-1 \in Nat /\ ~ (n <= n-1) /\ (n-1)+1 = n
    BY <1>0, <2>1, <2>2
  <2>4. Good(n-1)
    BY <2>1, <2>3
  <2>5. left[n] = left[n-1] - NodeSize(left[n-1])
    BY <2>3 DEF IsPacking
  <2> DEFINE l == left[n-1]
  <2>6. l \in Nat /\ l >= 2
    <3>1. NumNodes(l) = num - (n-1) /\ num - (n-1) > 0 /\ l \in Nat /\ l # 1
      BY <1>0, <2>1, <2>3, <2>4
    <3> HIDE DEF l, num
    <3>2. l # 0
      BY <3>1 DEF NumNodes
    <3> QED
      BY <3>1, <3>2
  <2> HIDE DEF l
  <2>7. left[n] \in Nat /\ left[n] # 1 /\ NumNodes(left[n]) = NumNodes(l) - 1
    BY <2>5, <2>6, OneNodeLess DEF l
  <2>8. NumNodes(l) = num - (n-1)
    BY <2>4 DEF l
  <2>9. Good(n)
    BY <1>0, <2>1, <2>7, <2>8
  <2> QED
    BY <2>1, <2>9
<1>2. \A i \in 0..num : Good(i)
  BY <1>1
<1>3. left[num] = 0
  <2>1. left[num] \in Nat /\ left[num] # 1 /\ NumNodes(left[num]) = num - num
    BY <1>0, <1>2
  <2> HIDE DEF num
  <2> QED
    BY <1>0, <2>1 DEF NumNodes
<1>4. ASSUME NEW i \in 0..num-1 PROVE left[i] \in Nat /\ left[i] >= NodeSize(left[i])
  <2>1. left[i] \in Nat /\ left[i] # 1 /\ NumNodes(left[i]) = num - i /\ num - i > 0
    BY <1>0, <1>2
  <2> HIDE DEF num
  <2>2. left[i] # 0
    BY <2>1 DEF NumNodes
  <2> QED
    BY <2>1, <2>2 DEF NodeSize
<1> QED
  BY <1>3, <1>4

(* With digits of 1 to 4 elements and at most 4 elements between two       *)
(* trees, at most 4 nodes go between their middles: every level of the     *)
(* recursion starts with at most 4, so the array on the stack never grows. *)
THEOREM CarriesAtMostFour ==
  ASSUME NEW a \in 1..4, NEW b \in 1..4, NEW n \in 0..4
  PROVE  NumNodes(a + n + b) \in 1..4
BY DEF NumNodes
=============================================================================
