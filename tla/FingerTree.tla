----------------------------- MODULE FingerTree -----------------------------
(***************************************************************************)
(* src/src/fingertree.c: 2-3 finger trees whose nodes cache a measure, as  *)
(* operators on the heap of module Heap.  Every operator follows the       *)
(* ownership of its function: which references it takes, and which it      *)
(* gives (in ret).                                                         *)
(*                                                                         *)
(* Objects: an "empty" tree; a "single" tree <<element>>; a "deep" tree    *)
(* <<measure, prefix, m, suffix>>; a "digit" of 1 to 4 elements; a "node"  *)
(* <<measure, e0, e1>> or <<measure, e0, e1, e2>>; a "measure", whose val  *)
(* is a value of the catenable.  lvl is 0 for the tree of the caller's     *)
(* elements; in the tree m of a tree of level lvl the elements are nodes   *)
(* and mm is Node_measure: its level is lvl + 1.                           *)
(***************************************************************************)
EXTENDS Heap, NodePacking

CONSTANTS
  Measure(_, _),   \* mm of the caller: the measure of an element in a heap
  MEmpty,          \* cat->mempty
  MAppend(_, _),   \* cat->mappend, on values
  MKids(_),        \* the objects a measure of this value owns
  Pred(_, _)       \* p(ud, measure)
-----------------------------------------------------------------------------
(* Measures.  The measure objects that a computation makes and releases on *)
(* the way to its result are not modelled: only the result is.             *)

NewMeasure(h, v) == New(RetainAll(h, MKids(v)), "measure", MKids(v), v)

MeasureVal(h, a) == h.obj[a].val

(* cat->mappend on a measure that is taken and the value of one made for   *)
(* the call.                                                               *)
Mappend(h, i, v) ==
  LET h1 == NewMeasure(h, MAppend(MeasureVal(h, i), v))
  IN  Release(h1, i)

ElementMeasure(h, lvl, x) ==
  IF lvl = 0 THEN Measure(h, x) ELSE MeasureVal(h, Kids(h, x)[1])

RECURSIVE SumMeasures(_, _, _)
SumMeasures(h, lvl, xs) ==
  LET last == ElementMeasure(h, lvl, Last(xs))
  IN  IF Len(xs) = 1 THEN last ELSE MAppend(SumMeasures(h, lvl, Front(xs)), last)

DigitMeasure(h, lvl, d) == SumMeasures(h, lvl, Kids(h, d))

TreeMeasure(h, lvl, t) ==
  CASE Kind(h, t) = "empty"  -> MEmpty
    [] Kind(h, t) = "single" -> ElementMeasure(h, lvl, Kids(h, t)[1])
    [] Kind(h, t) = "deep"   -> MeasureVal(h, Kids(h, t)[1])
-----------------------------------------------------------------------------
(* Constructors: the references in their arguments are taken.              *)

Digit(h, xs) ==
  IF Len(xs) \in 1..4 THEN New(h, "digit", xs, NULL)
                      ELSE Panic(h, "assert in Digit_new")

(* h.ret is the measure.                                                   *)
NewNode(h, xs)         == New(h, "node", <<h.ret>> \o xs, NULL)
NewDeep(h, pr, m, sf)  == New(h, "deep", <<h.ret, pr, m, sf>>, NULL)

Node(h, lvl, xs) == NewNode(NewMeasure(h, SumMeasures(h, lvl, xs)), xs)

Empty(h)     == New(h, "empty", <<>>, NULL)
Single(h, x) == New(h, "single", <<x>>, NULL)

(* Mutant: the suffix is not measured.                                     *)
DeepShort(h, lvl, pr, m, sf) ==
  LET v == MAppend(DigitMeasure(h, lvl, pr), TreeMeasure(h, lvl+1, m))
  IN  NewDeep(NewMeasure(h, v), pr, m, sf)

Deep(h, lvl, pr, m, sf) ==
  LET v == MAppend(MAppend(DigitMeasure(h, lvl, pr), TreeMeasure(h, lvl+1, m)),
                   DigitMeasure(h, lvl, sf))
  IN  NewDeep(NewMeasure(h, v), pr, m, sf)

(* The elements xs and ys around an empty middle tree.                     *)
DeepPair(h, lvl, xs, ys) ==
  LET h1 == Digit(h, xs)
      h2 == Empty(h1)
      h3 == Digit(h2, ys)
  IN  Deep(h3, lvl, h1.ret, h2.ret, h3.ret)

(* Mutant: the elements of the node come out in the wrong order.           *)
DigitFromNodeSwapped(h, node) ==
  LET xs == Tail(Kids(h, node))
  IN  Digit(Unpack(h, node, xs), Reverse(xs))

DigitFromNode(h, node) ==
  LET xs == Tail(Kids(h, node))
  IN  Digit(Unpack(h, node, xs), xs)
-----------------------------------------------------------------------------
(* pfds_FingerTree_pushFront and pushBack.  parts are the prefix, m and    *)
(* suffix of a deep tree that is unpacked; ys are the elements of the      *)
(* digit that x joins, retained.                                           *)

RECURSIVE FTPushFront(_, _, _, _), PushFrontDeep(_, _, _, _, _)
FTPushFront(h, lvl, x, tail) ==
  LET ks == Kids(h, tail) IN
  CASE Kind(h, tail) = "empty"  -> Single(Release(h, tail), x)
    [] Kind(h, tail) = "single" -> DeepPair(Unpack(h, tail, ks), lvl, <<x>>, ks)
    [] Kind(h, tail) = "deep"   ->
         LET ys == Kids(h, ks[2])
         IN  PushFrontDeep(RetainAll(Unpack(h, tail, Tail(ks)), ys), lvl, x, Tail(ks), ys)

PushFrontDeep(h, lvl, x, parts, ys) ==
  IF Len(ys) < 4
  THEN LET h1 == Digit(h, <<x>> \o ys)
       IN  Deep(Release(h1, parts[1]), lvl, h1.ret, parts[2], parts[3])
  ELSE LET h1 == Digit(h, <<x, ys[1]>>)
           h2 == Node(h1, lvl, Tail(ys))
           h3 == FTPushFront(Release(h2, parts[1]), lvl+1, h2.ret, parts[2])
       IN  Deep(h3, lvl, h1.ret, h3.ret, parts[3])

RECURSIVE FTPushBack(_, _, _, _), PushBackDeep(_, _, _, _, _)
FTPushBack(h, lvl, init, x) ==
  LET ks == Kids(h, init) IN
  CASE Kind(h, init) = "empty"  -> Single(Release(h, init), x)
    [] Kind(h, init) = "single" -> DeepPair(Unpack(h, init, ks), lvl, ks, <<x>>)
    [] Kind(h, init) = "deep"   ->
         LET ys == Kids(h, ks[4])
         IN  PushBackDeep(RetainAll(Unpack(h, init, Tail(ks)), ys), lvl, x, Tail(ks), ys)

PushBackDeep(h, lvl, x, parts, ys) ==
  IF Len(ys) < 4
  THEN LET h1 == Digit(h, ys \o <<x>>)
       IN  Deep(Release(h1, parts[3]), lvl, parts[1], parts[2], h1.ret)
  ELSE LET h1 == Node(h, lvl, SubSeq(ys, 1, 3))
           h2 == Digit(h1, <<ys[4], x>>)
           h3 == FTPushBack(Release(h2, parts[3]), lvl+1, parts[2], h1.ret)
       IN  Deep(h3, lvl, parts[1], h3.ret, h2.ret)

(* The loops over an array that add its elements to the tree in h.ret.     *)
RECURSIVE PushFrontArray(_, _, _), PushBackArray(_, _, _)
PushFrontArray(h, lvl, xs) ==
  IF xs = <<>> THEN h
  ELSE PushFrontArray(FTPushFront(h, lvl, Last(xs), h.ret), lvl, Front(xs))

PushBackArray(h, lvl, xs) ==
  IF xs = <<>> THEN h
  ELSE PushBackArray(FTPushBack(h, lvl, h.ret, Head(xs)), lvl, Tail(xs))

(* FingerTree_pushFrontRange and pushBackRange, on the tree in h.ret: the  *)
(* elements of a digit that is taken are pushed, then it is released.      *)
PushFrontRange(h, lvl, d) ==
  Release(PushFrontArray(RetainAll(h, Kids(h, d)), lvl, Kids(h, d)), d)

PushBackRange(h, lvl, d) ==
  Release(PushBackArray(RetainAll(h, Kids(h, d)), lvl, Kids(h, d)), d)
-----------------------------------------------------------------------------
(* pfds_FingerTree_popFront and popBack return <<popped, element, rest>>;  *)
(* wh and wt say whether the caller of popFront wants the element and the  *)
(* rest (its outparams are not NULL).  A digit loses an element (NULL when *)
(* it was the only one).                                                   *)

(* An outparam: computed when it is wanted, else what it would own is      *)
(* released and it stays NULL.                                             *)
Optional(want, result, otherwise) == IF want THEN result ELSE Return(otherwise, NULL)

DigitOrNull(h, xs) ==
  IF xs = <<>> THEN Return(h, NULL) ELSE Digit(RetainAll(h, xs), xs)

(* Mutant: the element is retained, wanted or not.                         *)
DigitPopFrontEager(h, wh, d) ==
  LET xs == Kids(h, d)
      h1 == DigitOrNull(Retain(h, xs[1]), Tail(xs))
  IN  Return(Release(h1, d), <<IF wh THEN xs[1] ELSE NULL, h1.ret>>)

DigitPopFront(h, wh, d) ==
  LET xs   == Kids(h, d)
      head == IF wh THEN xs[1] ELSE NULL
      h1   == DigitOrNull(Retain(h, head), Tail(xs))
  IN  Return(Release(h1, d), <<head, h1.ret>>)

DigitPopBack(h, d) ==
  LET xs == Kids(h, d)
      h1 == DigitOrNull(Retain(h, Last(xs)), Front(xs))
  IN  Return(Release(h1, d), <<Last(xs), h1.ret>>)

Popped(h, x) == Return(h, <<TRUE, x, h.ret>>)

RECURSIVE FTPopFront(_, _, _, _, _), PopPrefix(_, _, _, _, _), DeepL(_, _, _, _, _)
FTPopFront(h, lvl, wh, wt, t) ==
  LET ks == Kids(h, t) IN
  CASE Kind(h, t) = "empty"  -> Return(Release(h, t), <<FALSE, NULL, NULL>>)
    [] Kind(h, t) = "single" ->
         LET h1 == Unpack(h, t, ks)
             h2 == Optional(wh, Return(h1, ks[1]), Release(h1, ks[1]))
             h3 == Optional(wt, Empty(h2), h2)
         IN  Return(h3, <<TRUE, h2.ret, h3.ret>>)
    [] Kind(h, t) = "deep"   ->
         PopPrefix(DigitPopFront(Unpack(h, t, Tail(ks)), wh, ks[2]), lvl, wt, ks[3], ks[4])

(* h.ret is the element that the prefix lost and what is left of it.       *)
PopPrefix(h, lvl, wt, m, sf) ==
  LET pr == h.ret[2]
  IN  Popped(Optional(wt, DeepL(h, lvl, pr, m, sf), ReleaseAll(h, <<pr, m, sf>>)), h.ret[1])

(* What FTPopFront took from the middle tree becomes the prefix; when the  *)
(* middle tree is empty only the suffix is left.                           *)
RefillL(h, lvl, sf) ==
  IF h.ret[1] THEN LET h1 == DigitFromNode(h, h.ret[2])
                   IN  Deep(h1, lvl, h1.ret, h.ret[3], sf)
              ELSE PushFrontRange(Empty(h), lvl, sf)

(* A deep tree whose prefix may be missing (NULL).                         *)
DeepL(h, lvl, pr, m, sf) ==
  IF pr # NULL THEN Deep(h, lvl, pr, m, sf)
               ELSE RefillL(FTPopFront(h, lvl+1, TRUE, TRUE, m), lvl, sf)

RECURSIVE FTPopBack(_, _, _), PopSuffix(_, _, _, _), DeepR(_, _, _, _, _)
FTPopBack(h, lvl, t) ==
  LET ks == Kids(h, t) IN
  CASE Kind(h, t) = "empty"  -> Return(Release(h, t), <<FALSE, NULL, NULL>>)
    [] Kind(h, t) = "single" -> Popped(Unpack(Empty(h), t, ks), ks[1])
    [] Kind(h, t) = "deep"   ->
         PopSuffix(DigitPopBack(Unpack(h, t, Tail(ks)), ks[4]), lvl, ks[2], ks[3])

PopSuffix(h, lvl, pr, m) == Popped(DeepR(h, lvl, pr, m, h.ret[2]), h.ret[1])

RefillR(h, lvl, pr) ==
  IF h.ret[1] THEN LET h1 == DigitFromNode(h, h.ret[2])
                   IN  Deep(h1, lvl, pr, h.ret[3], h1.ret)
              ELSE PushBackRange(Empty(h), lvl, pr)

DeepR(h, lvl, pr, m, sf) ==
  IF sf # NULL THEN Deep(h, lvl, pr, m, sf)
               ELSE RefillR(FTPopBack(h, lvl+1, m), lvl, pr)

FromDigit(h, lvl, d) ==
  LET h1 == Empty(h)
  IN  IF d = NULL THEN h1 ELSE DeepL(h1, lvl, NULL, h1.ret, d)
-----------------------------------------------------------------------------
(***************************************************************************)
(* pfds_FingerTree_app3: xs, then the elements ts, then ys.                *)
(***************************************************************************)

(* The loop that packs the elements of xs' suffix, ts and ys' prefix into  *)
(* num nodes; h.ret is the sequence of the nodes already made.  It retains *)
(* every element it packs.                                                 *)
RECURSIVE PackNodes(_, _, _, _)
Packed(h, nodes) == Return(h, Append(nodes, h.ret))
PackNodes(h, lvl, num, elts) ==
  LET k    == NodeSize(Len(elts))
      ws   == SubSeq(elts, 1, k)
  IN  IF Len(h.ret) = num THEN h
      ELSE PackNodes(Packed(RetainAll(Node(h, lvl, ws), ws), h.ret),
                     lvl, num, SubSeq(elts, k+1, Len(elts)))

RECURSIVE App3(_, _, _, _, _), App3Deep(_, _, _, _)
App3(h, lvl, xs, ts, ys) ==
  LET xk == Kids(h, xs)
      yk == Kids(h, ys)
  IN
  CASE Kind(h, xs) = "empty" -> PushFrontArray(Return(Release(h, xs), ys), lvl, ts)
    [] Kind(h, xs) # "empty" /\ Kind(h, ys) = "empty" ->
         PushBackArray(Return(Release(h, ys), xs), lvl, ts)
    [] Kind(h, xs) = "single" /\ Kind(h, ys) # "empty" ->
         PushFrontArray(Return(Unpack(h, xs, xk), ys), lvl, xk \o ts)
    [] Kind(h, xs) = "deep" /\ Kind(h, ys) = "single" ->
         PushBackArray(Return(Unpack(h, ys, yk), xs), lvl, ts \o yk)
    [] Kind(h, xs) = "deep" /\ Kind(h, ys) = "deep" ->
         LET h1   == Unpack(Unpack(h, xs, Tail(xk)), ys, Tail(yk))
             elts == Kids(h, xk[4]) \o ts \o Kids(h, yk[2])
             h2   == PackNodes(Return(h1, <<>>), lvl, NumNodes(Len(elts)), elts)
         IN  App3Deep(ReleaseAll(h2, <<xk[4], yk[2]>>), lvl, xk, yk)

(* Around the middle trees of xs and ys with the nodes in h.ret between.   *)
Around(h, lvl, xk, yk)   == Deep(h, lvl, xk[2], h.ret, yk[4])
App3Deep(h, lvl, xk, yk) == Around(App3(h, lvl+1, xk[3], h.ret, yk[3]), lvl, xk, yk)
-----------------------------------------------------------------------------
(***************************************************************************)
(* Splitting at the first element where the predicate Pred(ud, _) holds of *)
(* the measure of everything up to that element.  ret is <<init, pivot,    *)
(* tail>>; wi and wt say whether the caller wants init and tail (their     *)
(* outparams are not NULL).  i, the measure of what precedes, is taken.    *)
(***************************************************************************)
(* The elements before the k-th, the k-th and those after it.              *)
DigitCut(h, wi, wt, d, k) ==
  LET xs == Kids(h, d)
      h1 == DigitOrNull(h, IF wi THEN SubSeq(xs, 1, k-1) ELSE <<>>)
      h2 == DigitOrNull(Retain(h1, xs[k]), IF wt THEN SubSeq(xs, k+1, Len(xs)) ELSE <<>>)
  IN  Return(Release(h2, d), <<h1.ret, xs[k], h2.ret>>)

DigitSplit(h, lvl, wi, wt, ud, i, d) ==
  LET xs == Kids(h, d)
      upto(k) == MAppend(MeasureVal(h, i), SumMeasures(h, lvl, SubSeq(xs, 1, k)))
      hits == {k \in DOMAIN xs : Pred(ud, upto(k))}
  IN  IF hits = {} THEN Panic(h, "invalid predicate in Digit_split")
                   ELSE DigitCut(Release(h, i), wi, wt, d, Min(hits))

(* The three parts of a deep tree (prefix, m, suffix) are in parts; in the *)
(* operators that continue after Digit_split or after a measure, h.ret is  *)
(* what that call returned.                                                *)
RECURSIVE SplitTree(_, _, _, _, _, _, _), SplitDeep(_, _, _, _, _, _, _),
          SplitBehind(_, _, _, _, _, _, _), SplitMiddle(_, _, _, _, _, _, _)
SplitTree(h, lvl, wi, wt, ud, i, t) ==
  LET ks == Kids(h, t) IN
  CASE Kind(h, t) = "empty" -> Panic(h, "invalid split, tree is empty")
    [] Kind(h, t) = "single" ->
         LET h1 == Release(Unpack(h, t, ks), i)
             h2 == Optional(wi, Empty(h1), h1)
             h3 == Optional(wt, Empty(h2), h2)
         IN  Return(h3, <<h2.ret, ks[1], h3.ret>>)
    [] Kind(h, t) = "deep" ->
         LET h1 == Retain(Unpack(h, t, Tail(ks)), i)
         IN  SplitDeep(Mappend(h1, i, DigitMeasure(h1, lvl, ks[2])),
                       lvl, wi, wt, ud, i, Tail(ks))

Pieces(h, init, pivot) == Return(h, <<init, pivot, h.ret>>)

(* The pivot is in the prefix, which was split into s.                     *)
PrefixTail(h, lvl, wt, s, m, sf) ==
  Pieces(Optional(wt, DeepL(h, lvl, s[3], m, sf), ReleaseAll(h, <<s[3], m, sf>>)),
         h.ret, s[2])
PrefixTrees(h, lvl, wi, wt, s, m, sf) ==
  PrefixTail(Optional(wi, FromDigit(h, lvl, s[1]), Release(h, s[1])), lvl, wt, s, m, sf)

(* h.ret is vpr, the measure up to the end of the prefix.                  *)
SplitDeep(h, lvl, wi, wt, ud, i, parts) ==
  IF Pred(ud, MeasureVal(h, h.ret))
  THEN LET h1 == DigitSplit(Release(h, h.ret), lvl, TRUE, TRUE, ud, i, parts[1])
       IN  PrefixTrees(h1, lvl, wi, wt, h1.ret, parts[2], parts[3])
  ELSE LET h1 == Retain(Release(h, i), h.ret)
       IN  SplitBehind(Mappend(h1, h.ret, TreeMeasure(h1, lvl+1, parts[2])),
                       lvl, wi, wt, ud, h.ret, parts)

(* The pivot is in the suffix, which was split into s.                     *)
SuffixTail(h, lvl, wt, s) ==
  Pieces(Optional(wt, FromDigit(h, lvl, s[3]), h), h.ret, s[2])
SuffixTrees(h, lvl, wi, wt, s, pr, m) ==
  SuffixTail(Optional(wi, DeepR(h, lvl, pr, m, s[1]), ReleaseAll(h, <<pr, m>>)), lvl, wt, s)

(* h.ret is vm, the measure up to the end of the middle tree.              *)
SplitBehind(h, lvl, wi, wt, ud, vpr, parts) ==
  IF Pred(ud, MeasureVal(h, h.ret))
  THEN SplitMiddle(Release(Retain(h, vpr), h.ret), lvl, wi, wt, ud, vpr, parts)
  ELSE LET h1 == DigitSplit(Release(h, vpr), lvl, wi, wt, ud, h.ret, parts[3])
       IN  SuffixTrees(h1, lvl, wi, wt, h1.ret, parts[1], parts[2])

(* The pivot is in the middle tree, which is split at a node into ms; then *)
(* the node is split into s.                                               *)
NodeSplit(h, lvl, wi, wt, ud, vpr, ms) ==
  LET h1 == Mappend(h, vpr, TreeMeasure(h, lvl+1, ms[1]))
      h2 == DigitFromNode(h1, ms[2])
  IN  DigitSplit(h2, lvl, wi, wt, ud, h1.ret, h2.ret)

MiddleTail(h, lvl, wt, mtail, s, sf) ==
  Pieces(Optional(wt, DeepL(h, lvl, s[3], mtail, sf), Release(h, sf)), h.ret, s[2])
MiddleTrees(h, lvl, wi, wt, ms, s, pr, sf) ==
  MiddleTail(Optional(wi, DeepR(h, lvl, pr, ms[1], s[1]), ReleaseAll(h, <<pr, ms[1]>>)),
             lvl, wt, ms[3], s, sf)

(* The node at which the middle tree was split, into ms, is split.         *)
MiddleHalves(h, lvl, wi, wt, ms, parts) ==
  MiddleTrees(h, lvl, wi, wt, ms, h.ret, parts[1], parts[3])
MiddleNode(h, lvl, wi, wt, ud, vpr, ms, parts) ==
  MiddleHalves(NodeSplit(h, lvl, wi, wt, ud, vpr, ms), lvl, wi, wt, ms, parts)
MiddleParts(h, lvl, wi, wt, ud, vpr, parts) ==
  MiddleNode(h, lvl, wi, wt, ud, vpr, h.ret, parts)

SplitMiddle(h, lvl, wi, wt, ud, vpr, parts) ==
  MiddleParts(SplitTree(h, lvl+1, TRUE, wt, ud, vpr, parts[2]), lvl, wi, wt, ud, vpr, parts)

(* pfds_FingerTree_split: <<found, init, pivot, tail>>; the tree is taken, *)
(* and given back as init when the predicate holds nowhere.                *)
Found(h) == Return(h, <<TRUE>> \o h.ret)

FTSplit(h, wi, wt, ud, t) ==
  IF ~ Pred(ud, TreeMeasure(h, 0, t))
  THEN LET h1 == Optional(wi, Return(h, t), Release(h, t))
       IN  Return(h1, <<FALSE, h1.ret, NULL, NULL>>)
  ELSE IF Kind(h, t) = "empty"
  THEN Panic(h, "invalid FingerTree split, predicate matches empty tree")
  ELSE LET h1 == NewMeasure(h, MEmpty)
       IN  Found(SplitTree(h1, 0, wi, wt, ud, h1.ret, t))
-----------------------------------------------------------------------------
(* The elements of a tree, in order.                                       *)
RECURSIVE NodeElements(_, _, _), LevelElements(_, _, _)
NodeElements(h, lvl, x) ==
  IF lvl = 0 THEN <<x>> ELSE LevelElements(h, lvl-1, Tail(Kids(h, x)))

LevelElements(h, lvl, xs) ==
  IF xs = <<>> THEN <<>>
  ELSE NodeElements(h, lvl, Head(xs)) \o LevelElements(h, lvl, Tail(xs))

RECURSIVE TreeElements(_, _, _)
TreeElements(h, lvl, t) ==
  LET ks == Kids(h, t) IN
  IF Kind(h, t) # "deep" THEN LevelElements(h, lvl, ks)
  ELSE LevelElements(h, lvl, Kids(h, ks[2]))
       \o TreeElements(h, lvl+1, ks[3]) \o LevelElements(h, lvl, Kids(h, ks[4]))

(* The shape of a tree of level lvl: digits of 1 to 4 elements, nodes of 2 *)
(* or 3, and every element at the same depth.                              *)
RECURSIVE IsElement(_, _, _), IsTree(_, _, _)
IsElement(h, lvl, x) ==
  IF lvl = 0 THEN Kind(h, x) \notin {"node", "digit", "deep", "single", "empty"}
  ELSE /\ Kind(h, x) = "node" /\ Len(Kids(h, x)) \in {3, 4}
       /\ Kind(h, Kids(h, x)[1]) = "measure"
       /\ \A i \in 2..Len(Kids(h, x)) : IsElement(h, lvl-1, Kids(h, x)[i])

IsDigit(h, lvl, d) ==
  /\ Kind(h, d) = "digit" /\ Len(Kids(h, d)) \in 1..4
  /\ \A i \in DOMAIN Kids(h, d) : IsElement(h, lvl, Kids(h, d)[i])

IsTree(h, lvl, t) ==
  LET ks == Kids(h, t) IN
  \/ Kind(h, t) = "empty"  /\ ks = <<>>
  \/ Kind(h, t) = "single" /\ Len(ks) = 1 /\ IsElement(h, lvl, ks[1])
  \/ /\ Kind(h, t) = "deep" /\ Len(ks) = 4
     /\ Kind(h, ks[1]) = "measure"
     /\ IsDigit(h, lvl, ks[2]) /\ IsTree(h, lvl+1, ks[3]) /\ IsDigit(h, lvl, ks[4])

(* Every cached measure is the measure of the elements below it.           *)
MeasureOf(h, xs) == IF xs = <<>> THEN MEmpty ELSE SumMeasures(h, 0, xs)

RECURSIVE ElementCached(_, _, _), TreeCached(_, _, _)
ElementCached(h, lvl, x) ==
  lvl > 0 =>
    /\ MeasureVal(h, Kids(h, x)[1]) = MeasureOf(h, NodeElements(h, lvl, x))
    /\ \A i \in 2..Len(Kids(h, x)) : ElementCached(h, lvl-1, Kids(h, x)[i])

DigitCached(h, lvl, d) ==
  \A i \in DOMAIN Kids(h, d) : ElementCached(h, lvl, Kids(h, d)[i])

TreeCached(h, lvl, t) ==
  LET ks == Kids(h, t) IN
  CASE Kind(h, t) = "empty"  -> TRUE
    [] Kind(h, t) = "single" -> ElementCached(h, lvl, ks[1])
    [] Kind(h, t) = "deep"   ->
         /\ MeasureVal(h, ks[1]) = MeasureOf(h, TreeElements(h, lvl, t))
         /\ DigitCached(h, lvl, ks[2]) /\ TreeCached(h, lvl+1, ks[3])
         /\ DigitCached(h, lvl, ks[4])
=============================================================================
