----------------------------- MODULE LinkedList -----------------------------
(***************************************************************************)
(* src/src/linkedlist.c: cells <<head, tail>> with the cached size of the  *)
(* list they begin; the last cell is empty, <<NULL, NULL>>.  A             *)
(* configuration names these functions, and the defaults of pfds.c, as the *)
(* methods in the order of pfds_LinkedList_vtable.                         *)
(*                                                                         *)
(* The loops that fill a chain of new cells from its front are written as  *)
(* recursions that build the chain from its end.                           *)
(***************************************************************************)
EXTENDS SequenceDefaults
-----------------------------------------------------------------------------
Cell(h, hd, tl, sz) == New(h, "LinkedList", <<hd, tl>>, sz % Word)
EmptyCell(h)        == Cell(h, NULL, NULL, 0)

HeadOf(h, l) == Kids(h, l)[1]
TailOf(h, l) == Kids(h, l)[2]
LinkedList_size(h, l)   == h.obj[l].val
LinkedList_isEmpty(h, l) == HeadOf(h, l) = NULL

(* The elements up to the empty cell.                                      *)
RECURSIVE Cells(_, _)
Cells(h, l) == IF LinkedList_isEmpty(h, l) THEN <<>> ELSE <<HeadOf(h, l)>> \o Cells(h, TailOf(h, l))

(* The first n cells of l are copied, with sizes from sz down, in front of *)
(* the list last, which is taken.                                          *)
RECURSIVE CopyCells(_, _, _, _, _)
(* Mutant: the copies share the elements without a reference of their own. *)
CopyCellsBorrowing(h, l, n, sz, last) ==
  IF n = 0 THEN Return(h, last)
  ELSE LET h1 == CopyCells(h, TailOf(h, l), n-1, sz-1, last)
       IN  Cell(h1, HeadOf(h, l), h1.ret, sz)

CopyCells(h, l, n, sz, last) ==
  IF n = 0 THEN Return(h, last)
  ELSE LET h1 == CopyCells(Retain(h, HeadOf(h, l)), TailOf(h, l), n-1, sz-1, last)
       IN  Cell(h1, HeadOf(h, l), h1.ret, sz)

LinkedList_mappend(h, l, r) ==
  CASE LinkedList_isEmpty(h, l)                      -> Return(Release(h, l), r)
    [] ~ LinkedList_isEmpty(h, l) /\ LinkedList_isEmpty(h, r)   -> Return(Release(h, r), l)
    [] ~ LinkedList_isEmpty(h, l) /\ ~ LinkedList_isEmpty(h, r) ->
         LET n  == Len(Cells(h, l))
             sz == LinkedList_size(h, l) + LinkedList_size(h, r)
             h1 == CopyCells(h, l, n, sz, r)
         IN  IF sz - n # LinkedList_size(h, r) THEN Panic(h, "assert in LinkedList_mappend")
                                    ELSE Return(Release(h1, l), h1.ret)

(* From the last list to the first. *)
RECURSIVE LinkedList_concat(_, _)
LinkedList_concat(h, ls) ==
  CASE ls = <<>>    -> EmptyCell(h)
    [] Len(ls) = 1  -> Return(h, ls[1])
    [] Len(ls) >= 2 -> LET h1 == LinkedList_concat(h, Tail(ls)) IN LinkedList_mappend(h1, Head(ls), h1.ret)

LinkedList_pushFront(h, x, l) == Cell(h, x, l, LinkedList_size(h, l) + 1)

RECURSIVE LinkedList_fromArray(_, _)
LinkedList_fromArray(h, xs) ==
  IF xs = <<>> THEN EmptyCell(h)
  ELSE LET h1 == LinkedList_fromArray(h, Tail(xs)) IN LinkedList_pushFront(h1, Head(xs), h1.ret)

RECURSIVE Nth(_, _, _)
Nth(h, l, n) == IF n = 0 THEN l ELSE Nth(h, TailOf(h, l), n-1)

(* ret is <<found, init, link, tail>>; what is not wanted stays NULL.      *)
LinkedList_split(h, l, n, wi, wl, wt) ==
  IF LinkedList_size(h, l) <= n THEN Return(Release(h, l), <<FALSE, NULL, NULL, NULL>>)
  ELSE LET at   == Nth(h, l, n)
           link == IF wl THEN HeadOf(h, at) ELSE NULL
           tail == IF wt THEN TailOf(h, at) ELSE NULL
           h1   == EmptyCell(h)
           h2   == IF wi THEN CopyCells(h1, l, n, n, h1.ret) ELSE Return(h, NULL)
       IN  IF LinkedList_size(h, at) # LinkedList_size(h, l) - n THEN Panic(h, "assert in LinkedList_split")
           ELSE Return(Release(RetainAll(h2, <<link, tail>>), l),
                       <<TRUE, h2.ret, link, tail>>)

LinkedList_front(h, l) == Return(Retain(h, HeadOf(h, l)), HeadOf(h, l))

LinkedList_back(h, l) ==
  IF LinkedList_isEmpty(h, l) THEN Return(h, NULL)
  ELSE LET x == Last(Cells(h, l)) IN Return(Retain(h, x), x)

LinkedList_get(h, l, n) ==
  IF n >= LinkedList_size(h, l) THEN Return(h, NULL)
  ELSE LET x == HeadOf(h, Nth(h, l, n)) IN Return(Retain(h, x), x)

(* Mutant: the copied cells keep their sizes.                              *)
PushBackStale(h, l, x) ==
  LET h1 == EmptyCell(h)
      h2 == Cell(h1, x, h1.ret, 1)
      h3 == CopyCells(h2, l, Len(Cells(h, l)), LinkedList_size(h, l), h2.ret)
  IN  Return(Release(h3, l), h3.ret)

LinkedList_pushBack(h, l, x) ==
  LET h1 == EmptyCell(h)
      h2 == Cell(h1, x, h1.ret, 1)
      h3 == CopyCells(h2, l, Len(Cells(h, l)), LinkedList_size(h, l) + 1, h2.ret)
  IN  Return(Release(h3, l), h3.ret)

(* The walks of insertBefore, updateAt and deleteAt take the cell they     *)
(* copy apart: its fields are retained and the cell is released.           *)
RECURSIVE InsertWalk(_, _, _, _, _)
InsertWalk(h, l, sz, n, x) ==
  IF n = 0 THEN Cell(h, x, l, sz)
  ELSE LET ks == Kids(h, l)
           h1 == InsertWalk(Unpack(h, l, ks), ks[2], sz-1, n-1, x)
       IN  Cell(h1, ks[1], h1.ret, sz)

(* Mutant: the end of the list is refused.                                 *)
InsertBeforeInside(h, l, n, x) ==
  IF n >= LinkedList_size(h, l) THEN Panic(h, "LinkedList index out of bounds")
                     ELSE InsertWalk(h, l, LinkedList_size(h, l) + 1, n, x)

LinkedList_insertBefore(h, l, n, x) ==
  IF n > LinkedList_size(h, l) THEN Panic(h, "LinkedList index out of bounds")
                    ELSE InsertWalk(h, l, LinkedList_size(h, l) + 1, n, x)

RECURSIVE UpdateWalk(_, _, _, _, _)
UpdateWalk(h, l, sz, n, x) ==
  LET ks == Kids(h, l) IN
  IF n = 0 THEN Cell(Unpack(h, l, <<ks[2]>>), x, ks[2], sz)
  ELSE LET h1 == UpdateWalk(Unpack(h, l, ks), ks[2], sz-1, n-1, x)
       IN  Cell(h1, ks[1], h1.ret, sz)

LinkedList_updateAt(h, l, n, x) ==
  IF n >= LinkedList_size(h, l) THEN Panic(h, "LinkedList index out of bounds")
                     ELSE UpdateWalk(h, l, LinkedList_size(h, l), n, x)

(* The cell before the one that is deleted is the last that is copied.     *)
RECURSIVE DeleteWalk(_, _, _, _)
DeleteWalk(h, l, sz, n) ==
  LET ks == Kids(h, l) IN
  IF n = 1 THEN LET rest == TailOf(h, ks[2])
                IN  Cell(Unpack(h, l, <<ks[1], rest>>), ks[1], rest, sz)
  ELSE LET h1 == DeleteWalk(Unpack(h, l, ks), ks[2], sz-1, n-1)
       IN  Cell(h1, ks[1], h1.ret, sz)

LinkedList_deleteAt(h, l, n) ==
  CASE n >= LinkedList_size(h, l)          -> Panic(h, "LinkedList index out of bounds")
    [] n < LinkedList_size(h, l) /\ n = 0  -> Return(Unpack(h, l, <<TailOf(h, l)>>), TailOf(h, l))
    [] n < LinkedList_size(h, l) /\ n # 0  -> DeleteWalk(h, l, LinkedList_size(h, l) - 1, n)

(* pfds_LinkedList_cmp walks both lists and touches no refcount.           *)
RECURSIVE CmpWalk(_, _, _)
(* Mutant: the walk stops at the end of either list.                       *)
CmpWalkPrefix(h, l, r) ==
  IF LinkedList_isEmpty(h, l) \/ LinkedList_isEmpty(h, r) THEN "EQ"
  ELSE LET c == ElementCmp(h, HeadOf(h, l), HeadOf(h, r))
       IN  IF c # "EQ" THEN c ELSE CmpWalk(h, TailOf(h, l), TailOf(h, r))

CmpWalk(h, l, r) ==
  CASE LinkedList_isEmpty(h, l) /\ LinkedList_isEmpty(h, r)   -> "EQ"
    [] LinkedList_isEmpty(h, l) /\ ~ LinkedList_isEmpty(h, r) -> "LT"
    [] ~ LinkedList_isEmpty(h, l) /\ LinkedList_isEmpty(h, r) -> "GT"
    [] ~ LinkedList_isEmpty(h, l) /\ ~ LinkedList_isEmpty(h, r) ->
         LET c == ElementCmp(h, HeadOf(h, l), HeadOf(h, r))
         IN  IF c # "EQ" THEN c ELSE CmpWalk(h, TailOf(h, l), TailOf(h, r))

LinkedList_compare(h, l, r) == Return(h, CmpWalk(h, l, r))

(* Over the reversed list, which is released at the end; the function      *)
(* collects its elements and releases them.                                *)
FoldCells(h, l, acc) ==
  LET xs == Cells(h, l)
      h1 == ReleaseAll(RetainAll(h, xs), xs)
  IN  Return(Release(h1, l), Reverse(xs) \o acc)
FoldReversed(h, acc) == FoldCells(h, h.ret, acc)

LinkedList_reduceRight(h, l, acc) == FoldReversed(reverse(h, l), acc)
-----------------------------------------------------------------------------
(* The elements of a list, and what its methods rely on: the size of every *)
(* cell is the number of elements from it on.                              *)
LinkedList_Contents(h, l) == Cells(h, l)

RECURSIVE LinkedList_WellFormed(_, _)
LinkedList_WellFormed(h, l) ==
  /\ Kind(h, l) = "LinkedList" /\ Len(Kids(h, l)) = 2
  /\ HeadOf(h, l) = NULL <=> TailOf(h, l) = NULL
  /\ LinkedList_size(h, l) = Len(Cells(h, l))
  /\ TailOf(h, l) # NULL => LinkedList_WellFormed(h, TailOf(h, l))
=============================================================================
