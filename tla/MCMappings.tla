----------------------------- MODULE MCMappings -----------------------------
(* Model checking of TreeMap and ArrayMap: the client of MappingClient,    *)
(* its bounds.                                                             *)
EXTENDS MappingVtables, MappingClient

CONSTANT MaxSize

PairsUpTo2 == BoundedSeq(KeyObjects \X ValueObjects, 2)
NoArrays   == {<<>>}
Small(f)   == Cardinality(DOMAIN f) <= MaxSize
OneOther(f) == Small(f) /\ Cardinality({k \in DOMAIN f : f[k] # 1}) <= 1

(* Each key has a value of its own, that tells where it was found.         *)
Diagonal(f) == Small(f) /\ \A k \in DOMAIN f : f[k] = k

ThreeKeys == <<1, 2, 2, 3>>
EightKeys == <<1, 2, 3, 4, 5, 6, 7, 8>>

(* A client that erases a key from a TreeMap only when the TreeMap has a   *)
(* key at least as large, and from an ArrayMap only when the ArrayMap does *)
(* not have it.                                                            *)
Inside(c) == c[1] = "erase" => \E n \in DOMAIN Contents(c[2]) : Number(c[3]) <= n
Absent(c) == c[1] = "erase" => Number(c[3]) \notin DOMAIN Contents(c[2])
Careful ==
  \/ Library
  \/ Request /\ IF class = "TreeMap" THEN Inside(call') ELSE Absent(call')
CarefulSpec == Init /\ [][Careful]_vars

(* A client that never erases the first key of a mapping.                  *)
Later(c) ==
  c[1] = "erase" /\ Contents(c[2]) # <<>> => Number(c[3]) # Min(DOMAIN Contents(c[2]))
ErasesLater == Library \/ (Request /\ Later(call'))
LaterSpec   == Init /\ [][ErasesLater]_vars

(* A client with one TreeMap that it builds by insertions, and takes apart.*)
Grow ==
  \/ Library
  \/ /\ Request /\ Inside(call')
     /\ call'[1] \in {"empty", "insert", "erase", "popMin"}
     /\ call'[1] = "popMin" => call'[4]
GrowSpec == Init /\ [][Grow]_vars

(* What the mappings look like, whatever the objects that nothing reaches  *)
(* and the counts are: the counts only decide when an object is freed, and *)
(* are never below the number of references.                               *)
Shape ==
  LET at == Trace(obj, [x \in Elems |-> x] \o var, <<>>)
  IN  <<[a \in DOMAIN at |-> <<obj[a].kind, obj[a].kids, obj[a].val>>], var, call, fault>>

(***************************************************************************)
(* pfds_ArrayMap_getItem lends the items in the order of their keys, and   *)
(* looking up the key of one finds its value.                              *)
(***************************************************************************)
ByPosition ==
  Idle /\ class = "ArrayMap" => \A v \in Vars : Held(v) =>
    \A i \in 1..size(TheHeap, var[v]) :
      LET h == ArrayMap_getItem(TheHeap, var[v], i-1)
      IN /\ h.obj = obj
         /\ Cardinality({n \in DOMAIN Contents(v) : n < Number(h.ret[1])}) = i-1
         /\ lookup(h, var[v], h.ret[1]).ret = h.ret[2]
=============================================================================
