---------------------------- MODULE MappingClient ----------------------------
(***************************************************************************)
(* A client of one mapping type of libpfds, through the methods of its     *)
(* vtable.  The client owns one reference to each key and to each value    *)
(* and keeps it; its variables own the mappings they hold.  A call is two  *)
(* steps: the client chooses it, the library runs it.  The module extends  *)
(* ArrayMap because the client can turn an ArrayMap into a mapping of the  *)
(* type it is about.                                                       *)
(***************************************************************************)
EXTENDS ArrayMap

CONSTANTS
  Classes,      \* the types of mapping the client may choose
  KeyNums,      \* the number that each key object holds, in a sequence
  NValues,      \* the values hold 1..NValues
  NVars,        \* the variables of the client are 1..NVars
  Arrays,       \* the arrays of pairs it makes mappings of
  InBounds(_)   \* the maps it builds, as functions

CONSTANTS
  Items(_, _),      \* the pairs of a mapping
  WellFormed(_, _)  \* its representation is one the methods rely on

NKeys == Len(KeyNums)

ASSUME ClientAssumption ==
  /\ KeyNums \in Seq(Nat \ {0}) /\ NKeys > 0
  /\ NValues \in Nat \ {0} /\ NVars \in Nat \ {0}
  /\ Classes \subseteq {"TreeMap", "ArrayMap"}

KeyObjects   == 1..NKeys
ValueObjects == NKeys+1..NKeys+NValues
Elems        == KeyObjects \cup ValueObjects
Vars         == 1..NVars

(* The number that an object holds, for Number.                            *)
NumberOf(a) == IF a \in KeyObjects THEN KeyNums[a] ELSE a - NKeys
-----------------------------------------------------------------------------
VARIABLES
  class,   \* the type of mapping of this client: it passes the vtable
  obj,     \* the objects, by address
  var,     \* the mapping each variable of the client owns, or NULL
  call,    \* the call in progress, or <<>>
  fault    \* what stopped the program, or "none"

vars == <<class, obj, var, call, fault>>

TheHeap == [vt |-> class, obj |-> obj, fault |-> fault, ret |-> NULL]

Held(v)     == var[v] # NULL
Contents(v) == AsMap(Items(TheHeap, var[v]))

Init ==
  /\ class \in Classes
  /\ obj   = [x \in Elems |-> Object("elem", <<>>, NumberOf(x))]
  /\ var   = [v \in Vars |-> NULL]
  /\ call  = <<>>
  /\ fault = "none"

(***************************************************************************)
(* The client calls a method; a mapping that it makes goes to a variable   *)
(* that is empty.  popMin is called with each of its outparams wanted or   *)
(* not.                                                                    *)
(***************************************************************************)
With(f, k, x) == (Number(k) :> Number(x)) @@ f

Calls ==
  LET held == {v \in Vars : Held(v)}
      free == Vars \ held
  IN {<<"empty", v>> : v \in free}
     \cup {<<"singleton", v, k, x>> : v \in free, k \in KeyObjects, x \in ValueObjects}
     \cup {<<op, v, ps>> : op \in {"fromArray", "fromArrayMap"}, v \in free,
                           ps \in {a \in Arrays : InBounds(AsMap(a))}}
     \cup {<<"dup", v, w>> : v \in held, w \in free}
     \cup {<<"drop", v>> : v \in held}
     \cup UNION {{c \in {<<"insert", v, k, x>> : k \in KeyObjects, x \in ValueObjects} :
                    InBounds(With(Contents(v), c[3], c[4]))} : v \in held}
     \cup {<<"erase", v, k>> : v \in held, k \in KeyObjects}
     \cup {<<"popMin", v, wi, wr>> : v \in held, wi \in BOOLEAN, wr \in BOOLEAN}

Request ==
  /\ call = <<>> /\ fault = "none"
  /\ call' \in Calls
  /\ UNCHANGED <<class, obj, var, fault>>

(***************************************************************************)
(* The call in progress returns: h is the heap it leaves, vs the variables *)
(* of the client.  Addresses mean nothing to the client: objects are       *)
(* numbered in the order they are reached (unreachable ones last).         *)
(***************************************************************************)
Finish(h, vs) ==
  IF h.fault # "none" THEN fault' = h.fault /\ UNCHANGED <<class, obj, var, call>>
  ELSE LET elems   == [x \in Elems |-> x]
           reached == Trace(h.obj, elems \o vs, <<>>)
           lost    == SetToSeq(DOMAIN h.obj \ DOMAIN reached)
           at      == Trace(h.obj, lost, reached)
       IN /\ obj'  = Renumber(h.obj, at)
          /\ var'  = [v \in Vars |-> IF vs[v] = NULL THEN NULL ELSE at[vs[v]]]
          /\ call' = <<>>
          /\ UNCHANGED <<class, fault>>

Running(op) == call # <<>> /\ fault = "none" /\ call[1] = op

(* The mapping and the key of the call.  The client retains what it gives. *)
Map       == var[call[2]]
KeyArg    == call[3]
Given(os) == RetainAll(TheHeap, os)

Gives(h) == Finish(h, [var EXCEPT ![call[2]] = h.ret])

MakeEmpty     == Running("empty")     /\ Gives(empty(TheHeap))
MakeSingleton == Running("singleton") /\ Gives(singleton(Given(Tail(Tail(call))), KeyArg, call[4]))

FromArray ==
  /\ Running("fromArray")
  /\ \E h \in fromArray(Given(Flat(call[3])), call[3]) : Gives(h)

ThroughArrayMap ==
  /\ Running("fromArrayMap")
  /\ \E h \in ArrayMap_fromArray(Given(Flat(call[3])), call[3]) :
       \E h1 \in FromArrayMap(h, h.ret) : Gives(h1)

Dup  == Running("dup")  /\ Finish(Retain(TheHeap, Map), [var EXCEPT ![call[3]] = Map])
Drop == Running("drop") /\ Finish(Release(TheHeap, Map), [var EXCEPT ![call[2]] = NULL])

Insert ==
  /\ Running("insert")
  /\ Gives(insert(Given(<<KeyArg, call[4]>>), Map, KeyArg, call[4]))

(* pfds-mapping.h says that erase takes the key.  An ArrayMap does; a      *)
(* TreeMap only reads it.  The client retains the key for the one and not  *)
(* for the other, which would leak it.                                     *)
Erase ==
  /\ Running("erase")
  /\ Gives(erase(IF class = "ArrayMap" THEN Given(<<KeyArg>>) ELSE TheHeap, Map, KeyArg))

(* The client releases the key and the value it is given.  When popMin     *)
(* says that there was nothing to pop, it looks at neither outparam.       *)
PopGives(h) ==
  IF h.ret[1] THEN Finish(ReleaseAll(h, h.ret[2]), [var EXCEPT ![call[2]] = h.ret[3]])
              ELSE Finish(h, [var EXCEPT ![call[2]] = NULL])
PopMin == Running("popMin") /\ PopGives(popMin(TheHeap, Map, call[3], call[4]))

Library ==
  \/ MakeEmpty \/ MakeSingleton \/ FromArray \/ ThroughArrayMap \/ Dup \/ Drop
  \/ Insert \/ Erase \/ PopMin

Next == Request \/ Library

Spec == Init /\ [][Next]_vars
-----------------------------------------------------------------------------
Idle == call = <<>> /\ fault = "none"

(***************************************************************************)
(* After every call the refcount of every object is the number of          *)
(* references to it: those of the fields of objects, of the variables, and *)
(* the one the client keeps to a key or a value.  The client counts what   *)
(* the code takes and gives: that is what pfds-mapping.h says but for the  *)
(* key that a TreeMap erases (src/src/treemap.c:285), which the client     *)
(* keeps.  Nothing is leaked or freed early, whatever the arguments share  *)
(* and whichever results of popMin are wanted.                             *)
(***************************************************************************)
Counted ==
  Idle => \A a \in DOMAIN obj :
            obj[a].rc = OwnedRefs(TheHeap, a) + Cardinality({v \in Vars : var[v] = a})
                        + (IF a \in Elems THEN 1 ELSE 0)

(***************************************************************************)
(* Every operation leaves every mapping in the representation that the     *)
(* searches of the next one rely on: keys in strictly increasing order, in *)
(* a well-formed tree whose measures are those of its items.               *)
(***************************************************************************)
Representation == Idle => \A v \in Vars : Held(v) => WellFormed(TheHeap, var[v])

(***************************************************************************)
(* size, isEmpty and lookup answer what the mapping holds, for every key   *)
(* present or not, and leave every refcount as it was: the value is lent,  *)
(* and still owned by the mapping when lookup returns.                     *)
(***************************************************************************)
Queries ==
  Idle => \A v \in Vars : Held(v) =>
    LET m == var[v]
        f == Contents(v)
        h == TheHeap
    IN /\ size(h, m) = Cardinality(DOMAIN f)
       /\ isEmpty(h, m) <=> f = <<>>
       /\ \A k \in KeyObjects :
            lookup(h, m, k) =
              Return(h, IF Number(k) \in DOMAIN f THEN NKeys + f[Number(k)] ELSE NULL)

(***************************************************************************)
(* pfds_cmp orders mappings by their sizes, then by the least key at which *)
(* they differ, whatever they share; it is the same for both types.        *)
(***************************************************************************)
Ordering ==
  Idle => \A v, w \in Vars : Held(v) /\ Held(w) =>
    LET h == compare(TheHeap, var[v], var[w])
    IN  h.fault = "none" /\ h.ret = MapCmp(Contents(v), Contents(w))

(***************************************************************************)
(* The mappings implement immutable maps: each call gives the map its      *)
(* comment describes, whatever the mappings share, changes no other        *)
(* variable, and never stops the program.  What popMin leaves in its       *)
(* outparams when there is nothing to pop is not looked at.                *)
(***************************************************************************)
NoMap == 0 :> 0
Ideal == INSTANCE PersistentMaps WITH
           None <- NoMap, lastWins <- (class = "TreeMap"), stopped <- (fault # "none"),
           val <- [v \in Vars |-> IF Held(v) THEN Contents(v) ELSE NoMap]
ImplementsMaps == Ideal!Spec
=============================================================================
