------------------------------ MODULE ArrayList ------------------------------
(***************************************************************************)
(* src/src/arraylist.c: an object that owns an array of elements.  The     *)
(* array belongs to the object alone: it is its kids.  A configuration     *)
(* names these functions, and the defaults of pfds.c, as the methods in    *)
(* the order of pfds_ArrayList_vtable.                                     *)
(***************************************************************************)
EXTENDS SequenceDefaults
-----------------------------------------------------------------------------
(* pfds_ArrayList_fromArrayEx; fromArray takes the references of xs.       *)
ArrayList_fromArray(h, xs) == New(h, "ArrayList", xs, NULL)

ArrayList_size(h, l)    == Len(Kids(h, l))
ArrayList_isEmpty(h, l) == ArrayList_size(h, l) = 0

(* A method that takes l makes a list of other elements: old, which l owns *)
(* too and are retained, and new, which are taken.                         *)
Remade(h, l, before, new, after) ==
  LET h1 == RetainAll(h, before \o after)
      h2 == ArrayList_fromArray(Release(h1, l), before \o new \o after)
  IN  h2

ArrayList_concat(h, ls) ==
  LET add(hh, l) == Return(Release(RetainAll(hh, Kids(hh, l)), l), hh.ret \o Kids(hh, l))
      h1 == FoldLeft(add, Return(h, <<>>), ls)
  IN  ArrayList_fromArray(h1, h1.ret)

ArrayList_mappend(h, l, r) ==
  CASE ArrayList_size(h, l) = 0                    -> Return(Release(h, l), r)
    [] ArrayList_size(h, l) # 0 /\ ArrayList_size(h, r) = 0  -> Return(Release(h, r), l)
    [] ArrayList_size(h, l) # 0 /\ ArrayList_size(h, r) # 0  ->
         LET xs == Kids(h, l) \o Kids(h, r)
             h1 == ReleaseAll(RetainAll(h, xs), <<l, r>>)
         IN  ArrayList_fromArray(h1, xs)

ArrayList_pushFront(h, x, l) == Remade(h, l, <<>>, <<x>>, Kids(h, l))
ArrayList_pushBack(h, l, x)  == Remade(h, l, Kids(h, l), <<x>>, <<>>)

(* ret is <<found, init, link, tail>>; what is not wanted stays NULL.      *)
Piece(h, want, xs) == IF want THEN ArrayList_fromArray(RetainAll(h, xs), xs) ELSE Return(h, NULL)

ArrayList_split(h, l, n, wi, wl, wt) ==
  LET xs   == Kids(h, l)
      link == IF wl THEN xs[n+1] ELSE NULL
      h1   == Piece(h, wi, SubSeq(xs, 1, n))
      h2   == Piece(Retain(h1, link), wt, SubSeq(xs, n+2, Len(xs)))
  IN  IF Len(xs) <= n THEN Return(Release(h, l), <<FALSE, NULL, NULL, NULL>>)
                      ELSE Return(Release(h2, l), <<TRUE, h1.ret, link, h2.ret>>)

(* Mutant: the last element is out of bounds.                              *)
GetShort(h, l, n) ==
  IF n + 1 < ArrayList_size(h, l) THEN Return(Retain(h, Kids(h, l)[n+1]), Kids(h, l)[n+1])
                        ELSE Return(h, NULL)

ArrayList_get(h, l, n) ==
  IF n < ArrayList_size(h, l) THEN Return(Retain(h, Kids(h, l)[n+1]), Kids(h, l)[n+1])
                    ELSE Return(h, NULL)

(* self->size is read again after self is released.                        *)
ArrayList_reverse(h, l) ==
  LET xs == Reverse(Kids(h, l))
      h1 == Release(RetainAll(h, xs), l)
  IN  IF l \in DOMAIN h1.obj THEN ArrayList_fromArray(h1, xs) ELSE Panic(h1, "use after free")

ArrayList_insertBefore(h, l, n, x) ==
  IF n > ArrayList_size(h, l) THEN Panic(h, "ArrayList index out of bounds")
  ELSE Remade(h, l, SubSeq(Kids(h, l), 1, n), <<x>>, SubSeq(Kids(h, l), n+1, ArrayList_size(h, l)))

ArrayList_updateAt(h, l, n, x) ==
  IF n >= ArrayList_size(h, l) THEN Panic(h, "ArrayList index out of bounds")
  ELSE Remade(h, l, SubSeq(Kids(h, l), 1, n), <<x>>, SubSeq(Kids(h, l), n+2, ArrayList_size(h, l)))

ArrayList_deleteAt(h, l, n) ==
  IF n >= ArrayList_size(h, l) THEN Panic(h, "ArrayList index out of bounds")
  ELSE Remade(h, l, SubSeq(Kids(h, l), 1, n), <<>>, SubSeq(Kids(h, l), n+2, ArrayList_size(h, l)))

(* The first difference within the shorter length, then the lengths.       *)
ArrayList_compare(h, l, r) ==
  LET xs == Kids(h, l)
      ys == Kids(h, r)
      c(i)  == ElementCmp(h, xs[i], ys[i])
      diffs == {i \in DOMAIN xs \cap DOMAIN ys : c(i) # "EQ"}
  IN Return(h, IF diffs # {} THEN c(CHOOSE i \in diffs : \A j \in diffs : i <= j)
               ELSE CASE Len(xs) < Len(ys) -> "LT"
                      [] Len(xs) > Len(ys) -> "GT"
                      [] Len(xs) = Len(ys) -> "EQ")

(* Mutant: the list that is taken is not released.                         *)
VisitLeaky(h, l) == ReleaseAll(RetainAll(h, Kids(h, l)), Kids(h, l))

(* With a function that collects the elements it is given and releases     *)
(* them.                                                                   *)
Visit(h, l) == Release(ReleaseAll(RetainAll(h, Kids(h, l)), Kids(h, l)), l)
ArrayList_reduceLeft(h, acc, l)  == Return(Visit(h, l), acc \o Kids(h, l))
ArrayList_reduceRight(h, l, acc) == Return(Visit(h, l), Kids(h, l) \o acc)
-----------------------------------------------------------------------------
ArrayList_Contents(h, l)   == Kids(h, l)
ArrayList_WellFormed(h, l) == Kind(h, l) = "ArrayList" /\ NULL \notin Range(Kids(h, l))
=============================================================================
