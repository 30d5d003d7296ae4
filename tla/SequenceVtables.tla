--------------------------- MODULE SequenceVtables ---------------------------
(***************************************************************************)
(* The three sequences behind one interface: each function                 *)
(* pfds_sequence_... of src/src/pfds.c calls the method in the vtable of   *)
(* the object it is given.  The functions that make a list out of nothing  *)
(* (mempty, singleton, fromArray, concat) are called through a vtable that *)
(* the caller has: h.vt.  popFront, popBack and insertAfter are the        *)
(* default methods in all three.                                           *)
(***************************************************************************)
EXTENDS LinkedList, ArrayList, TreeList

vtable_fromArray(h, xs) ==
  CASE h.vt = "LinkedList" -> LinkedList_fromArray(h, xs)
    [] h.vt = "ArrayList"  -> ArrayList_fromArray(h, xs)
    [] h.vt = "TreeList"   -> TreeList_fromArray(h, xs)

vtable_concat(h, ls) ==
  CASE h.vt = "LinkedList" -> LinkedList_concat(h, ls)
    [] h.vt = "ArrayList"  -> ArrayList_concat(h, ls)
    [] h.vt = "TreeList"   -> TreeList_concat(h, ls)

pfds_mappend(h, l, r) ==
  CASE Kind(h, l) = "LinkedList" -> LinkedList_mappend(h, l, r)
    [] Kind(h, l) = "ArrayList"  -> ArrayList_mappend(h, l, r)
    [] Kind(h, l) = "TreeList"   -> TreeList_mappend(h, l, r)

pfds_sequence_pushFront(h, x, l) ==
  CASE Kind(h, l) = "LinkedList" -> LinkedList_pushFront(h, x, l)
    [] Kind(h, l) = "ArrayList"  -> ArrayList_pushFront(h, x, l)
    [] Kind(h, l) = "TreeList"   -> TreeList_pushFront(h, x, l)

pfds_sequence_pushBack(h, l, x) ==
  CASE Kind(h, l) = "LinkedList" -> LinkedList_pushBack(h, l, x)
    [] Kind(h, l) = "ArrayList"  -> ArrayList_pushBack(h, l, x)
    [] Kind(h, l) = "TreeList"   -> TreeList_pushBack(h, l, x)

pfds_sequence_split(h, l, n, wi, wl, wt) ==
  CASE Kind(h, l) = "LinkedList" -> LinkedList_split(h, l, n, wi, wl, wt)
    [] Kind(h, l) = "ArrayList"  -> ArrayList_split(h, l, n, wi, wl, wt)
    [] Kind(h, l) = "TreeList"   -> TreeList_split(h, l, n, wi, wl, wt)

pfds_sequence_reverse(h, l) ==
  IF Kind(h, l) = "ArrayList" THEN ArrayList_reverse(h, l) ELSE DefaultReverse(h, l)

pfds_sequence_insertBefore(h, l, n, x) ==
  CASE Kind(h, l) = "LinkedList" -> LinkedList_insertBefore(h, l, n, x)
    [] Kind(h, l) = "ArrayList"  -> ArrayList_insertBefore(h, l, n, x)
    [] Kind(h, l) = "TreeList"   -> DefaultInsertBefore(h, l, n, x)

pfds_sequence_updateAt(h, l, n, x) ==
  CASE Kind(h, l) = "LinkedList" -> LinkedList_updateAt(h, l, n, x)
    [] Kind(h, l) = "ArrayList"  -> ArrayList_updateAt(h, l, n, x)
    [] Kind(h, l) = "TreeList"   -> DefaultUpdateAt(h, l, n, x)

pfds_sequence_deleteAt(h, l, n) ==
  CASE Kind(h, l) = "LinkedList" -> LinkedList_deleteAt(h, l, n)
    [] Kind(h, l) = "ArrayList"  -> ArrayList_deleteAt(h, l, n)
    [] Kind(h, l) = "TreeList"   -> DefaultDeleteAt(h, l, n)

pfds_sequence_size(h, l) ==
  CASE Kind(h, l) = "LinkedList" -> LinkedList_size(h, l)
    [] Kind(h, l) = "ArrayList"  -> ArrayList_size(h, l)
    [] Kind(h, l) = "TreeList"   -> TreeList_size(h, l)

pfds_sequence_isEmpty(h, l) ==
  CASE Kind(h, l) = "LinkedList" -> LinkedList_isEmpty(h, l)
    [] Kind(h, l) = "ArrayList"  -> ArrayList_isEmpty(h, l)
    [] Kind(h, l) = "TreeList"   -> TreeList_isEmpty(h, l)

pfds_sequence_get(h, l, n) ==
  CASE Kind(h, l) = "LinkedList" -> LinkedList_get(h, l, n)
    [] Kind(h, l) = "ArrayList"  -> ArrayList_get(h, l, n)
    [] Kind(h, l) = "TreeList"   -> TreeList_get(h, l, n)

pfds_sequence_front(h, l) ==
  IF Kind(h, l) = "LinkedList" THEN LinkedList_front(h, l) ELSE DefaultFront(h, l)

pfds_sequence_back(h, l) ==
  IF Kind(h, l) = "LinkedList" THEN LinkedList_back(h, l) ELSE DefaultBack(h, l)

pfds_cmp(h, l, r) ==
  CASE Kind(h, l) = "LinkedList" -> LinkedList_compare(h, l, r)
    [] Kind(h, l) = "ArrayList"  -> ArrayList_compare(h, l, r)
    [] Kind(h, l) = "TreeList"   -> DefaultCmp(h, l, r)

pfds_sequence_reduceRight(h, l, acc) ==
  CASE Kind(h, l) = "LinkedList" -> LinkedList_reduceRight(h, l, acc)
    [] Kind(h, l) = "ArrayList"  -> ArrayList_reduceRight(h, l, acc)
    [] Kind(h, l) = "TreeList"   -> DefaultReduceRight(h, l, acc)

pfds_sequence_reduceLeft(h, acc, l) ==
  IF Kind(h, l) = "ArrayList" THEN ArrayList_reduceLeft(h, acc, l) ELSE DefaultReduceLeft(h, acc, l)

-----------------------------------------------------------------------------
(* The elements of a list of any type, and what its methods rely on.       *)
ContentsOf(h, l) ==
  CASE Kind(h, l) = "LinkedList" -> LinkedList_Contents(h, l)
    [] Kind(h, l) = "ArrayList"  -> ArrayList_Contents(h, l)
    [] Kind(h, l) = "TreeList"   -> TreeList_Contents(h, l)

RepresentationOK(h, l) ==
  CASE Kind(h, l) = "LinkedList" -> LinkedList_WellFormed(h, l)
    [] Kind(h, l) = "ArrayList"  -> ArrayList_WellFormed(h, l)
    [] Kind(h, l) = "TreeList"   -> TreeList_WellFormed(h, l)
=============================================================================
