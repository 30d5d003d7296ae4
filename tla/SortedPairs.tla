----------------------------- MODULE SortedPairs -----------------------------
(***************************************************************************)
(* Pairs of a key and a value in the order of their keys, without the heap *)
(* they are in: the comparisons of boxed numbers, the map that the pairs   *)
(* stand for, and what the loops of src/src/arraymap.c search and copy.    *)
(***************************************************************************)
EXTENDS Integers, Sequences, FiniteSetsExt

CONSTANT Number(_)     \* the number that a boxed key or value holds

NumberCmp(a, b) == IF a < b THEN "LT" ELSE IF a = b THEN "EQ" ELSE "GT"

(* pfds_cmp of two keys, or of two values.                                 *)
KeyCmp(a, b) == NumberCmp(Number(a), Number(b))

PairCmp(p, q) ==
  IF KeyCmp(p[1], q[1]) # "EQ" THEN KeyCmp(p[1], q[1]) ELSE KeyCmp(p[2], q[2])

(* The representation that the searches rely on.                           *)
Increasing(ps) ==
  \A i \in 1..Len(ps)-1 : KeyCmp(ps[i][1], ps[i+1][1]) = "LT"

(* What qsort leaves of an array that is not sorted, and the pairs that    *)
(* fromArray then drops: those whose key is the key of the one before.     *)
Sorted(ps)   == \A i \in 1..Len(ps)-1 : KeyCmp(ps[i][1], ps[i+1][1]) # "GT"
Repeated(ps) == {i \in 2..Len(ps) : KeyCmp(ps[i-1][1], ps[i][1]) = "EQ"}

(* The function from the numbers of the keys to those of the values.       *)
AsMap(ps) ==
  [n \in {Number(ps[i][1]) : i \in DOMAIN ps} |->
     Number(ps[CHOOSE i \in DOMAIN ps : Number(ps[i][1]) = n][2])]
-----------------------------------------------------------------------------
(* The place of key k: the number of pairs before the first whose key is   *)
(* at least k (bsearch_alt), and whether the key there is k (bsearch).     *)
PlaceBehind(ps, k) == \* mutant: the place is behind an equal key
  Cardinality({i \in DOMAIN ps : KeyCmp(k, ps[i][1]) # "LT"})
PlaceOf(ps, k) == Cardinality({i \in DOMAIN ps : KeyCmp(k, ps[i][1]) = "GT"})
IsAt(ps, n, k) == n < Len(ps) /\ KeyCmp(ps[n+1][1], k) = "EQ"

(* What an insertion at place n copies, and the pairs it makes.            *)
Before(ps, n)         == SubSeq(ps, 1, n)
Behind(ps, n, k)      == SubSeq(ps, IF IsAt(ps, n, k) THEN n+2 ELSE n+1, Len(ps))
Inserted(ps, n, k, x) == Before(ps, n) \o << <<k, x>> >> \o Behind(ps, n, k)

(* The second loop of ArrayMap_erase starts at the item to be erased and   *)
(* writes each item one place to the left: the item before the erased one  *)
(* is lost and the erased one stays.                                       *)
Shifted(ps, n) == SubSeq(ps, 1, n-1) \o SubSeq(ps, n+1, Len(ps))

(* pfds_ArrayMap_cmp: of arrays of one size, the first difference.         *)
DifferentPlaces(ps, qs) == {i \in DOMAIN ps : PairCmp(ps[i], qs[i]) # "EQ"}
FirstDifference(ps, qs) ==
  LET ds == DifferentPlaces(ps, qs)
  IN  IF ds = {} THEN "EQ" ELSE PairCmp(ps[Min(ds)], qs[Min(ds)])

PairsCompared(ps, qs) ==
  LET c == NumberCmp(Len(ps), Len(qs))
  IN  IF c # "EQ" THEN c ELSE FirstDifference(ps, qs)

(* The order of maps: by their sizes, then at the least key where they     *)
(* differ.                                                                 *)
Differing(f, g) ==
  {k \in DOMAIN f \cup DOMAIN g : k \notin DOMAIN f \/ k \notin DOMAIN g \/ f[k] # g[k]}
LeastDifference(f, g) ==
  LET k == Min(Differing(f, g))
  IN  IF Differing(f, g) = {}  THEN "EQ"
      ELSE IF k \notin DOMAIN g THEN "LT"
      ELSE IF k \notin DOMAIN f THEN "GT"
      ELSE NumberCmp(f[k], g[k])

MapCmp(f, g) ==
  LET c == NumberCmp(Cardinality(DOMAIN f), Cardinality(DOMAIN g))
  IN  IF c # "EQ" THEN c ELSE LeastDifference(f, g)
=============================================================================
