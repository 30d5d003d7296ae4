--------------------------- MODULE MappingDefaults ---------------------------
(***************************************************************************)
(* The mapping interface of src/src/pfds.c.  The methods of the mapping    *)
(* type are constants: a configuration gives them the functions that the   *)
(* type's vtable (pfds_mappingvtable) names.  A method follows a whole     *)
(* call, as in SequenceDefaults.                                           *)
(***************************************************************************)
EXTENDS Heap, SortedPairs

CONSTANTS
  empty(_),            \* empty(heap)
  singleton(_, _, _),  \* singleton(heap, key, value)
  fromArray(_, _),     \* fromArray(heap, pairs): a set of heaps, one for each
                       \*   order in which qsort may leave equal keys
  isEmpty(_, _), size(_, _),  \* size(heap, self)
  lookup(_, _, _),     \* lookup(heap, self, key)
  insert(_, _, _, _),  \* insert(heap, self, key, value)
  erase(_, _, _),      \* erase(heap, self, key)
  popMin(_, _, _, _),  \* popMin(heap, self, wanted item, wanted rest): ret is
                       \*   <<popped, <<key, value>>, rest>>
  compare(_, _, _)     \* pfds_cmp(heap, left, right)

(* An outparam that the callee does not assign.                            *)
Unassigned == -1
-----------------------------------------------------------------------------
(* pfds_mapping_defaultCmp, for mappings of the same size.  Both are       *)
(* borrowed: they are retained, and consumed by the loop.  The items that  *)
(* compare equal are not released.                                         *)
RECURSIVE PairsCmp(_, _, _)
(* Mutant: the values are not compared.                                    *)
ItemsCmpKeys(p, h, q) ==
  CASE p[1] # q[1]       -> Panic(h, "invalid popMin")
    [] ~ p[1] /\ ~ q[1]  -> Return(h, "EQ")
    [] p[1] /\ q[1]      ->
         IF KeyCmp(p[2][1], q[2][1]) = "EQ" THEN PairsCmp(h, p[3], q[3])
         ELSE Return(ReleaseAll(h, p[2] \o <<p[3]>> \o q[2] \o <<q[3]>>), KeyCmp(p[2][1], q[2][1]))

(* p and q are what popMin gave of the two mappings.                       *)
ItemsCmp(p, h, q) ==
  CASE p[1] # q[1]       -> Panic(h, "invalid popMin")
    [] ~ p[1] /\ ~ q[1]  -> Return(h, "EQ")
    [] p[1] /\ q[1]      ->
         IF PairCmp(p[2], q[2]) = "EQ" THEN PairsCmp(h, p[3], q[3])
         ELSE Return(ReleaseAll(h, p[2] \o <<p[3]>> \o q[2] \o <<q[3]>>), PairCmp(p[2], q[2]))

PoppedBoth(p, h)  == ItemsCmp(p, h, h.ret)
PoppedLeft(h, r)  == PoppedBoth(h.ret, popMin(h, r, TRUE, TRUE))
PairsCmp(h, l, r) == PoppedLeft(popMin(h, l, TRUE, TRUE), r)

DefaultCmp(h, l, r) ==
  LET c == NumberCmp(size(h, l), size(h, r))
  IN  IF c # "EQ" THEN Return(h, c) ELSE PairsCmp(RetainAll(h, <<l, r>>), l, r)
=============================================================================
