------------------------------ MODULE TreeList ------------------------------
(***************************************************************************)
(* src/src/treelist.c: the sequence that a finger tree measured by its     *)
(* size makes.  The operators in lower case are the methods of             *)
(* pfds_TreeList_vtable: the functions of treelist.c and the defaults of   *)
(* pfds.c that it names.                                                   *)
(***************************************************************************)
EXTENDS SequenceDefaults, FingerTree
-----------------------------------------------------------------------------
(* The measure: every element counts for 1, sums are of UInt64, and the    *)
(* n-th element is the first one where n < the size up to it.              *)
MeasureTreeListSize(h, x) == 1
Sum(a, b)                 == (a + b) % Word
PredTooEarly(n, sz)       == n <= sz   \* mutant: off by one
PredTreeListSize(n, sz)   == n < sz
NoKids(sz)                == <<>>
-----------------------------------------------------------------------------
(* The list of a tree, or of the one in h.ret.                             *)
TreeListNew(h, ft) == New(h, "TreeList", <<ft>>, NULL)
ListOf(h)          == TreeListNew(h, h.ret)
Tree(h, l)         == Kids(h, l)[1]

(* Mutant: the list that is taken is not released.                         *)
OpenLeaky(h, l) == Return(RetainAll(h, Kids(h, l)), Tree(h, l))

(* The tree of a list that is taken.                                       *)
Open(h, l) == Return(Unpack(h, l, Kids(h, l)), Tree(h, l))

TreeList_mappend(h, l, r) ==
  LET h1 == Open(h, l)
      h2 == Open(h1, r)
  IN  ListOf(App3(h2, 0, h1.ret, <<>>, h2.ret))

TreeList_fromArray(h, xs) == ListOf(PushBackArray(Empty(h), 0, xs))

(* h.ret is the concatenation of the lists before ls.                      *)
RECURSIVE ConcatLoop(_, _)
ConcatLoop(h, ls) ==
  IF ls = <<>> THEN h ELSE ConcatLoop(TreeList_mappend(h, h.ret, Head(ls)), Tail(ls))

TreeList_concat(h, ls) ==
  IF ls = <<>> THEN TreeList_fromArray(h, <<>>) ELSE ConcatLoop(Return(h, Head(ls)), Tail(ls))

TreeList_pushFront(h, x, l) ==
  LET h1 == Open(h, l)
  IN  ListOf(FTPushFront(h1, 0, x, h1.ret))

TreeList_pushBack(h, l, x) ==
  LET h1 == Open(h, l)
  IN  ListOf(FTPushBack(h1, 0, h1.ret, x))

TreeList_size(h, l)    == TreeMeasure(h, 0, Tree(h, l))
TreeList_isEmpty(h, l) == Kind(h, Tree(h, l)) = "empty"

(* An outparam of split: the result, or a release when it is not wanted.   *)
Out(h, want, x)     == IF want THEN Return(h, x)      ELSE Return(Release(h, x), NULL)
OutList(h, want, t) == IF want THEN TreeListNew(h, t) ELSE Return(Release(h, t), NULL)

(* The trees and the element in s, which h.ret is, become the results.     *)
SplitLists(h, s, wi, wl, wt) ==
  LET h1 == OutList(h, wi, s[2])
      h2 == Out(h1, wl, s[3])
      h3 == OutList(h2, wt, s[4])
  IN  IF s[1] THEN Return(h3, <<TRUE, h1.ret, h2.ret, h3.ret>>)
              ELSE Return(Release(h, s[2]), <<FALSE, NULL, NULL, NULL>>)
SplitResult(h, wi, wl, wt) == SplitLists(h, h.ret, wi, wl, wt)

TreeList_split(h, l, n, wi, wl, wt) ==
  LET h1 == Open(h, l)
  IN  SplitResult(FTSplit(h1, TRUE, TRUE, n, h1.ret), wi, wl, wt)

(* Gives a reference to the element, the link between the parts of a       *)
(* split: the tree is retained for split, which takes it.                  *)
LinkOf(h) == Return(h, h.ret[3])

TreeList_get(h, l, n) ==
  IF TreeList_size(h, l) > n
  THEN LinkOf(FTSplit(Retain(h, Tree(h, l)), FALSE, FALSE, n, Tree(h, l)))
  ELSE Return(h, NULL)
-----------------------------------------------------------------------------
(* The elements of a list, and the representation every operation relies   *)
(* on: a 2-3 finger tree (digits of 1 to 4 elements, nodes of 2 or 3, all  *)
(* elements at the depth of their level) where every cached size is the    *)
(* number of elements below it.                                            *)
TreeList_Contents(h, l) == TreeElements(h, 0, Tree(h, l))

TreeList_WellFormed(h, l) ==
  /\ Kind(h, l) = "TreeList" /\ Len(Kids(h, l)) = 1
  /\ IsTree(h, 0, Tree(h, l)) /\ TreeCached(h, 0, Tree(h, l))
=============================================================================
