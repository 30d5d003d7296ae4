------------------------------ MODULE ArrayMap ------------------------------
(***************************************************************************)
(* src/src/arraymap.c: a mapping that is a sorted array of pairs.  The     *)
(* array belongs to the object alone: its kids are the keys and the values *)
(* in turn.  Its buffer is not modelled.                                   *)
(***************************************************************************)
EXTENDS MappingDefaults
-----------------------------------------------------------------------------
Flat(pairs)  == FlattenSeq(pairs)
Pairs(h, m)  == [i \in 1..Len(Kids(h, m)) \div 2 |->
                   <<Kids(h, m)[2*i - 1], Kids(h, m)[2*i]>>]

(* The object of pairs that are sorted and unique (the flags AMCF_SORTED   *)
(* and AMCF_UNIQUE); the references in them are taken.                     *)
ArrayMap_new(h, pairs) == New(h, "ArrayMap", Flat(pairs), NULL)

ArrayMap_empty(h)           == ArrayMap_new(h, <<>>)
ArrayMap_singleton(h, k, x) == ArrayMap_new(h, << <<k, x>> >>)

(* qsort: any sorted order, the order of equal keys is not specified.      *)
OrdersNone(pairs) == {pairs}   \* mutant: as if AMCF_SORTED were set
Orders(pairs) ==
  {ps \in {[i \in DOMAIN pairs |-> pairs[p[i]]] : p \in Permutations(DOMAIN pairs)} :
     Sorted(ps)}

(* The first of the pairs of each key is kept; the others are released.    *)
Chosen(ps, is) == [n \in 1..Cardinality(is) |-> ps[SetToSortSeq(is, <)[n]]]

Unique(h, ps) ==
  LET gone == Chosen(ps, Repeated(ps))
      kept == Chosen(ps, DOMAIN ps \ Repeated(ps))
  IN  ArrayMap_new(ReleaseAll(h, Flat(gone)), kept)

(* fromArray_ex of an array without flags: fewer than two pairs are not    *)
(* sorted.                                                                 *)
ArrayMap_fromArray(h, pairs) == {Unique(h, ps) : ps \in Orders(pairs)}

ArrayMap_size(h, m)    == Len(Pairs(h, m))
ArrayMap_isEmpty(h, m) == ArrayMap_size(h, m) = 0

LookedUp(ps, n, k) == IF IsAt(ps, n, k) THEN ps[n+1][2] ELSE NULL
ArrayMap_lookup(h, m, k) ==
  Return(h, LookedUp(Pairs(h, m), PlaceOf(Pairs(h, m), k), k))

(* pfds_ArrayMap_getItem, for the tests.                                   *)
ArrayMap_getItem(h, m, i) ==
  IF i < ArrayMap_size(h, m) THEN Return(h, Pairs(h, m)[i+1])
                             ELSE Panic(h, "assert in getItem")

(* The pairs kept are retained before the mapping is released.             *)
Remade(h, m, kept, new) == ArrayMap_new(Release(RetainAll(h, Flat(kept)), m), new)

(* Mutant: a key that is present is inserted again, before itself.         *)
InsertTwice(h, m, ps, n, k, x) ==
  Remade(h, m, ps, Before(ps, n) \o << <<k, x>> >> \o SubSeq(ps, n+1, Len(ps)))

InsertIn(h, m, ps, n, k, x) ==
  Remade(h, m, Before(ps, n) \o Behind(ps, n, k), Inserted(ps, n, k, x))

ArrayMap_insert(h, m, k, x) ==
  InsertIn(h, m, Pairs(h, m), PlaceOf(Pairs(h, m), k), k, x)

(* Every item is retained, the one that Shifted loses too.  Without one    *)
(* before the erased one, the first write is in front of the buffer.       *)
EraseAt(h, m, ps, n, k) ==
  LET h1 == ReleaseAll(RetainAll(h, Flat(ps)), <<k, m>>)
  IN  IF n = 0 THEN Panic(h, "write in front of the buffer")
               ELSE ArrayMap_new(h1, Shifted(ps, n))

EraseIn(h, m, ps, n, k) ==
  IF IsAt(ps, n, k) THEN EraseAt(h, m, ps, n, k) ELSE Return(Release(h, k), m)

ArrayMap_erase(h, m, k) == EraseIn(h, m, Pairs(h, m), PlaceOf(Pairs(h, m), k), k)

PopFirst(h, m, ps, wi, wr) ==
  LET h1 == IF wi THEN RetainAll(h, ps[1]) ELSE h
      h2 == ArrayMap_new(RetainAll(h1, Flat(Tail(ps))), Tail(ps))
  IN  Return(Release(IF wr THEN h2 ELSE h1, m),
             <<TRUE, IF wi THEN ps[1] ELSE <<NULL, NULL>>, IF wr THEN h2.ret ELSE NULL>>)

ArrayMap_popMin(h, m, wi, wr) ==
  IF ArrayMap_isEmpty(h, m) THEN Return(Release(h, m), <<FALSE, <<NULL, NULL>>, NULL>>)
                            ELSE PopFirst(h, m, Pairs(h, m), wi, wr)

ArrayMap_compare(h, l, r) == Return(h, PairsCompared(Pairs(h, l), Pairs(h, r)))

(* pfds_mapping_fromArrayMap: a mapping of another type with the pairs of  *)
(* an ArrayMap, which is taken.                                            *)
FromArrayMap(h, m) ==
  {Return(Release(h1, m), h1.ret) : h1 \in fromArray(RetainAll(h, Kids(h, m)), Pairs(h, m))}
-----------------------------------------------------------------------------
(* The pairs, and the representation that bsearch relies on.               *)
ArrayMap_Items(h, m) == Pairs(h, m)
ArrayMap_WellFormed(h, m) == Increasing(Pairs(h, m))
=============================================================================
