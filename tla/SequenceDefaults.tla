-------------------------- MODULE SequenceDefaults --------------------------
(***************************************************************************)
(* The sequence interface of src/src/pfds.c.  The methods of the sequence  *)
(* type are constants: a configuration gives them the functions that the   *)
(* type's vtable (pfds_sequencevtable) names, its own or one of the        *)
(* default implementations below (pfds_sequence_default...).               *)
(*                                                                         *)
(* Like the operators of Heap, a method follows a whole call: it takes a   *)
(* heap and returns the heap after the call, its result in ret.            *)
(***************************************************************************)
EXTENDS Heap

CONSTANT Word   \* the number of values of size_t and of UInt64, 2^64

ASSUME WordAssumption == Word \in Nat \ {0}

CONSTANTS                  \* the methods
  fromArray(_, _),         \* fromArray(heap, elements)
  concat(_, _),            \* concat(heap, sequences)
  mappend(_, _, _),        \* mappend(heap, left, right)
  pushFront(_, _, _),      \* pushFront(heap, head, tail)
  pushBack(_, _, _),       \* pushBack(heap, init, last)
  popFront(_, _),          \* popFront(heap, self): ret is <<popped, element,
  popBack(_, _),           \*   rest>>; rest is NULL when nothing is popped
  split(_, _, _, _, _, _), \* split(heap, self, n, wanted init, link, tail):
                           \*   ret is <<found, init, link, tail>>
  insertBefore(_, _, _, _), insertAfter(_, _, _, _), updateAt(_, _, _, _),
                           \* insertBefore(heap, self, n, x)
  deleteAt(_, _, _),       \* deleteAt(heap, self, n)
  reverse(_, _), size(_, _), isEmpty(_, _), front(_, _), back(_, _),
                           \* size(heap, self)
  get(_, _, _),            \* get(heap, self, n)
  reduceLeft(_, _, _),     \* reduceLeft(heap, seed, self)
  reduceRight(_, _, _),    \* reduceRight(heap, self, seed)
  compare(_, _, _)         \* pfds_cmp(heap, left, right): LT, EQ or GT
-----------------------------------------------------------------------------
DefaultFront(h, self) == get(h, self, 0)
DefaultBack(h, self)  == get(h, self, (size(h, self) - 1) % Word)

(* What split returned, in h.ret, as the result of popFront or popBack.    *)
FrontPopped(h) == Return(h, <<h.ret[1], h.ret[3], h.ret[4]>>)
BackPopped(h)  == Return(h, <<h.ret[1], h.ret[3], h.ret[2]>>)

DefaultPopFront(h, self) == FrontPopped(split(h, self, 0, FALSE, TRUE, TRUE))

(* Mutant: the index of the end, where there is no element.                *)
DefaultPopBackEnd(h, self) ==
  BackPopped(split(h, self, size(h, self), TRUE, TRUE, FALSE))

DefaultPopBack(h, self) ==
  BackPopped(split(h, self, (size(h, self) - 1) % Word, TRUE, TRUE, FALSE))

(* The middle, in h.ret, goes between the parts of a list split into s.    *)
Rejoin(h, s) == concat(h, <<s[2], h.ret, s[4]>>)

(* A list that was split is in h.ret: x goes before the element between.   *)
InsertBetween(h, x) == Rejoin(fromArray(h, <<x, h.ret[3]>>), h.ret)

DefaultInsertBefore(h, self, n, x) ==
  CASE n = 0                         -> pushFront(h, x, self)
    [] n # 0 /\ n = size(h, self)    -> pushBack(h, self, x)
    [] n # 0 /\ n > size(h, self)    -> Panic(h, "list index out of bounds")
    [] n # 0 /\ n < size(h, self)    -> InsertBetween(split(h, self, n, TRUE, TRUE, TRUE), x)

DefaultInsertAfter(h, self, n, x) == insertBefore(h, self, (n + 1) % Word, x)

(* x replaces the element between the parts of a list that was split.      *)
Replace(h, x) ==
  IF h.ret[1] THEN Rejoin(fromArray(h, <<x>>), h.ret)
              ELSE Panic(h, "assert in defaultUpdateAt")

(* The index of the end passes the check of the bounds: the assertion on   *)
(* the result of split stops the program.                                  *)
DefaultUpdateAt(h, self, n, x) ==
  IF n > size(h, self) THEN Panic(h, "list index out of bounds")
                       ELSE Replace(split(h, self, n, TRUE, FALSE, TRUE), x)

(* The parts of a list that was split, without the element between.        *)
WithoutLink(h) ==
  IF h.ret[1] THEN mappend(Release(h, h.ret[3]), h.ret[2], h.ret[4])
              ELSE Return(h, NULL)

(* Takes self; gives NULL when there is no element n.                      *)
DefaultDeleteAt(h, self, n) == WithoutLink(split(h, self, n, TRUE, TRUE, TRUE))

(* The head in h.ret is pushed to the result, then the tail is reversed.   *)
RECURSIVE ReverseLoop(_, _)
ReversePopped(h, result) ==
  IF h.ret[1] THEN ReverseLoop(pushFront(h, h.ret[2], result), h.ret[3]) ELSE Return(h, result)
ReverseLoop(h, self) == ReversePopped(popFront(h, self), h.ret)

DefaultReverse(h, self) == ReverseLoop(fromArray(h, <<>>), self)

(* reduceLeft and reduceRight with a function that collects the elements   *)
(* it is given and releases them; ret is the sequence of elements.         *)
RECURSIVE DefaultReduceLeft(_, _, _), DefaultReduceRight(_, _, _)
ReduceLeftPopped(h, x) ==
  IF h.ret[1] THEN DefaultReduceLeft(Release(h, h.ret[2]), Append(x, h.ret[2]), h.ret[3])
              ELSE Return(h, x)
DefaultReduceLeft(h, x, self) == ReduceLeftPopped(popFront(h, self), x)

ReduceRightPopped(h, y) ==
  IF h.ret[1] THEN DefaultReduceRight(Release(h, h.ret[2]), h.ret[3], <<h.ret[2]>> \o y)
              ELSE Return(h, y)
DefaultReduceRight(h, self, y) == ReduceRightPopped(popBack(h, self), y)

(* Both sequences are borrowed: they are retained, and consumed by the     *)
(* loop.  p and q are what popFront gave of each.                          *)
RECURSIVE CmpLoop(_, _, _)
(* Mutant: a difference is returned without releasing what remains of the  *)
(* two sequences.                                                          *)
HeadsCmpLeaky(p, h, q) ==
  LET h1 == ReleaseAll(h, <<p[2], q[2]>>)
      c  == ElementCmp(h, p[2], q[2])
  IN CASE p[1] /\ q[1]     -> IF c # "EQ" THEN Return(h1, c) ELSE CmpLoop(h1, p[3], q[3])
       [] p[1] /\ ~ q[1]   -> Return(Release(h1, p[3]), "GT")
       [] ~ p[1] /\ q[1]   -> Return(Release(h1, q[3]), "LT")
       [] ~ p[1] /\ ~ q[1] -> Return(h, "EQ")

HeadsCmp(p, h, q) ==
  LET h1 == ReleaseAll(h, <<p[2], q[2]>>)
      h2 == ReleaseAll(h1, <<p[3], q[3]>>)
      c  == ElementCmp(h, p[2], q[2])
  IN CASE p[1] /\ q[1]     -> IF c # "EQ" THEN Return(h2, c) ELSE CmpLoop(h1, p[3], q[3])
       [] p[1] /\ ~ q[1]   -> Return(h2, "GT")
       [] ~ p[1] /\ q[1]   -> Return(h2, "LT")
       [] ~ p[1] /\ ~ q[1] -> Return(h, "EQ")

PoppedBoth(p, h) == HeadsCmp(p, h, h.ret)
PoppedLeft(h, r) == PoppedBoth(h.ret, popFront(h, r))
CmpLoop(h, l, r) == PoppedLeft(popFront(h, l), r)

DefaultCmp(h, l, r) == CmpLoop(RetainAll(h, <<l, r>>), l, r)
=============================================================================
