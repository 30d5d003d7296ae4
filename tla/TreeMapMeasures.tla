--------------------------- MODULE TreeMapMeasures ---------------------------
(***************************************************************************)
(* The measure that src/src/treemap.c gives the finger tree of a TreeMap,  *)
(* and the predicate it splits the tree with: <<size, minKey, maxKey>>, of *)
(* the items below.  The items are in the order of their keys, so the      *)
(* first place where the largest key so far is at least k is where k is,   *)
(* or belongs.                                                             *)
(***************************************************************************)
EXTENDS SortedPairs

NoKey == 0    \* NULL, where a measure of no items has no key

TreeMapMeasure_mempty == <<0, NoKey, NoKey>>
KeyMeasure(k)         == <<1, k, k>>   \* of one item

(* The switch on the comparison of two keys has no break: the right key    *)
(* is taken whichever is smaller.                                          *)
RightKey(l, r) == IF l # NoKey /\ r = NoKey THEN l ELSE r

(* Mutant: the largest key of the left operand stays.                      *)
TreeMapMeasure_mappendLeft(l, r) ==
  <<l[1] + r[1], RightKey(l[2], r[2]), RightKey(r[3], l[3])>>

TreeMapMeasure_mappend(l, r) ==
  <<l[1] + r[1], RightKey(l[2], r[2]), RightKey(l[3], r[3])>>

(* Mutant: the place of k is behind the keys equal to it.                  *)
FindAfter(k, m) == m[3] # NoKey /\ KeyCmp(k, m[3]) = "LT"

pred_TreeMap_findKey(k, m) == m[3] # NoKey /\ KeyCmp(k, m[3]) # "GT"
=============================================================================
