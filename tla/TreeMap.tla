------------------------------ MODULE TreeMap ------------------------------
(***************************************************************************)
(* src/src/treemap.c: the mapping that a finger tree of items makes, whose *)
(* measure is that of TreeMapMeasures.                                     *)
(***************************************************************************)
EXTENDS MappingDefaults, TreeMapMeasures, FingerTree
-----------------------------------------------------------------------------
(* A TreeMapItem owns <<key, value>>.  A measure <<size, minKey, maxKey>>  *)
(* owns its two keys.                                                      *)
MapItem(h, k, x) == New(h, "TreeMapItem", <<k, x>>, NULL)
Key(h, item)     == Kids(h, item)[1]
Value(h, item)   == Kids(h, item)[2]

TreeMap_measure(h, item) == KeyMeasure(Key(h, item))
MeasureKeys(m)           == <<m[2], m[3]>>
-----------------------------------------------------------------------------
Tree(h, m)    == Kids(h, m)[1]
TreeMap_new(h) == New(h, "TreeMap", <<h.ret>>, NULL)   \* of the tree in h.ret

TreeMap_empty(h) == TreeMap_new(Empty(h))

TreeMap_singleton(h, k, x) ==
  LET h1 == MapItem(h, k, x) IN TreeMap_new(Single(h1, h1.ret))

TreeMap_isEmpty(h, m) == Kind(h, Tree(h, m)) = "empty"
TreeMap_size(h, m)    == TreeMeasure(h, 0, Tree(h, m))[1]

(* Lends the value: the item found is released before its value is given.  *)
Lend(h, k) ==
  LET s == h.ret
      x == IF KeyCmp(Key(h, s[3]), k) = "EQ" THEN Value(h, s[3]) ELSE NULL
  IN  IF s[1] THEN Return(Release(h, s[3]), x) ELSE Return(h, NULL)

TreeMap_lookup(h, m, k) ==
  Lend(FTSplit(Retain(h, Tree(h, m)), FALSE, FALSE, k, Tree(h, m)), k)

(* What a split left, in h.ret, is put together again around items; the    *)
(* item it found is dropped when its key is k, else it stays.              *)
MapAround(h, s, items) == TreeMap_new(App3(h, 0, s[2], items, s[4]))

(* Mutant: the item that is replaced is not released.                      *)
JoinLeaky(h, s, k, new) ==
  IF KeyCmp(Key(h, s[3]), k) = "EQ" THEN MapAround(h, s, new)
                                    ELSE MapAround(h, s, Append(new, s[3]))

Join(h, s, k, new) ==
  IF KeyCmp(Key(h, s[3]), k) = "EQ" THEN MapAround(Release(h, s[3]), s, new)
                                    ELSE MapAround(h, s, Append(new, s[3]))

Placed(h, s, k, x) ==
  LET h1 == MapItem(h, k, x)
  IN  IF s[1] THEN Join(h1, s, k, <<h1.ret>>)
              ELSE TreeMap_new(FTPushBack(h1, 0, s[2], h1.ret))
Place(h, k, x) == Placed(h, h.ret, k, x)

TreeMap_insert(h, m, k, x) ==
  LET t == Tree(h, m)
  IN  Place(FTSplit(Unpack(h, m, <<t>>), TRUE, TRUE, k, t), k, x)

(* The key is not released.  When it is greater than every key, neither is *)
(* the tree that split gives back: the mapping itself is returned.         *)
Without(h, m, k) ==
  IF h.ret[1] THEN Join(Release(h, m), h.ret, k, <<>>) ELSE Return(h, m)

TreeMap_erase(h, m, k) ==
  LET t == Tree(h, m)
  IN  Without(FTSplit(Retain(h, t), TRUE, TRUE, k, t), m, k)

(* The pairs are inserted in their order, into the mapping in h.ret.       *)
RECURSIVE InsertPairs(_, _)
InsertPairs(h, pairs) ==
  IF pairs = <<>> THEN h
  ELSE InsertPairs(TreeMap_insert(h, h.ret, pairs[1][1], pairs[1][2]), Tail(pairs))

TreeMap_fromArray(h, pairs) == {InsertPairs(TreeMap_empty(h), pairs)}

(* The outparams that the caller wants are asked of the tree, and assigned *)
(* only when there is an item; the others stay NULL.                       *)
ItemOut(h, want, item) ==
  IF want THEN Return(Unpack(h, item, Kids(h, item)), Kids(h, item))
          ELSE Return(h, <<NULL, NULL>>)
RestOut(h, want, t) == IF want THEN TreeMap_new(Return(h, t)) ELSE Return(h, NULL)

PopResult(h, p, wi, wr) ==
  LET h1 == ItemOut(h, wi, p[2])
      h2 == RestOut(h1, wr, p[3])
  IN  IF p[1] THEN Return(h2, <<TRUE, h1.ret, h2.ret>>)
              ELSE Return(h, <<FALSE, <<Unassigned, Unassigned>>, Unassigned>>)
PopOutparams(h, wi, wr) == PopResult(h, h.ret, wi, wr)

TreeMap_popMin(h, m, wi, wr) ==
  LET t  == Tree(h, m)
      h1 == PopOutparams(FTPopFront(Retain(h, t), 0, wi, wr, t), wi, wr)
  IN  Release(h1, m)
-----------------------------------------------------------------------------
(* The items of a mapping, as pairs of a key and a value, in their order.  *)
TreeMap_Items(h, m) ==
  LET items == TreeElements(h, 0, Tree(h, m))
  IN  [i \in DOMAIN items |-> Kids(h, items[i])]

(* The representation every operation relies on: a 2-3 finger tree whose   *)
(* keys increase strictly, and in which every cached measure has the       *)
(* number of items below it and, as its maxKey, the last of their keys.    *)
RECURSIVE LastKeyCached(_, _, _)
LastKeyCached(h, lvl, t) ==
  LET ks == Kids(h, t)
      es == TreeElements(h, lvl, t)
      v  == MeasureVal(h, ks[1])
  IN  Kind(h, t) = "deep" =>
        /\ v[1] = Len(es) /\ v[3] = Key(h, Last(es))
        /\ LastKeyCached(h, lvl+1, ks[3])

TreeMap_WellFormed(h, m) ==
  /\ IsTree(h, 0, Tree(h, m)) /\ TreeCached(h, 0, Tree(h, m))
  /\ LastKeyCached(h, 0, Tree(h, m))
  /\ Increasing(TreeMap_Items(h, m))
=============================================================================
