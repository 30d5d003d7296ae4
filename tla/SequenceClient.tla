--------------------------- MODULE SequenceClient ---------------------------
(***************************************************************************)
(* A client of one sequence type of libpfds, through the methods of its    *)
(* vtable.  The client owns one reference to each element of Elems and     *)
(* keeps it; its variables own the lists they hold.  A call is two steps:  *)
(* the client chooses it, the library runs it.                             *)
(***************************************************************************)
EXTENDS SequenceDefaults

CONSTANTS
  Classes,       \* the types of sequence the client may choose
  NElems,        \* the elements are the objects 1..NElems
  NVars,         \* the variables of the client are 1..NVars
  Indices,       \* the indices the client passes
  Arrays,        \* the arrays it makes lists of
  InBounds(_, _) \* the sequences it builds of a type

CONSTANTS
  Contents(_, _),   \* the elements of a list
  WellFormed(_, _)  \* its representation is one the methods rely on

ASSUME ClientAssumption ==
  /\ NElems \in Nat \ {0} /\ NVars \in Nat \ {0}
  /\ Indices \subseteq 0..Word-1 /\ Arrays \subseteq Seq(1..NElems)

Elems == 1..NElems
Vars  == 1..NVars
-----------------------------------------------------------------------------
VARIABLES
  class,   \* the type of sequence of this client: it passes the vtable
  obj,     \* the objects, by address
  var,     \* the list each variable of the client owns, or NULL
  call,    \* the call in progress, or <<>>
  fault    \* what stopped the program, or "none"

vars == <<class, obj, var, call, fault>>

TheHeap == [vt |-> class, obj |-> obj, fault |-> fault, ret |-> NULL]

Held(v)  == var[v] # NULL
Items(v) == Contents(TheHeap, var[v])

Init ==
  /\ class \in Classes
  /\ obj   = [x \in Elems |-> Object("elem", <<>>, x)]
  /\ var   = [v \in Vars |-> NULL]
  /\ call  = <<>>
  /\ fault = "none"

(***************************************************************************)
(* The client calls a method on the list of a variable; the result, or a   *)
(* second list, goes to a variable that is empty.                          *)
(***************************************************************************)
Calls ==
  LET held  == {v \in Vars : Held(v)}
      free  == Vars \ held
      pairs == {p \in held \X held : p[1] # p[2] /\ InBounds(class, Items(p[1]) \o Items(p[2]))}
      adds  == {p \in held \X Elems : InBounds(class, Append(Items(p[1]), p[2]))}
  IN {<<"fromArray", v, xs>> : v \in free, xs \in {s \in Arrays : InBounds(class, s)}}
     \cup {<<"dup", v, w>> : v \in held, w \in free}
     \cup {<<op, v>> : op \in {"drop", "reverse", "popFront", "popBack"}, v \in held}
     \cup {<<op, p[1], p[2]>> : op \in {"mappend", "concat"}, p \in pairs}
     \cup {<<op, p[1], p[2]>> : op \in {"pushFront", "pushBack"}, p \in adds}
     \cup {<<"split", v, w, n>> : v \in held, w \in free, n \in Indices}
     \cup {<<"deleteAt", v, n>> : v \in held, n \in Indices}
     \cup {<<op, p[1], n, p[2]>> : op \in {"insertBefore", "insertAfter", "updateAt"},
                                   p \in adds, n \in Indices}

Request ==
  /\ call = <<>> /\ fault = "none"
  /\ call' \in Calls
  /\ UNCHANGED <<class, obj, var, fault>>

(***************************************************************************)
(* The call in progress returns: h is the heap it leaves, vs the variables *)
(* of the client.  Addresses mean nothing to the client: objects are       *)
(* numbered in the order they are reached (unreachable ones last).         *)
(***************************************************************************)
Finish(h, vs) ==
  IF h.fault # "none" THEN fault' = h.fault /\ UNCHANGED <<class, obj, var, call>>
  ELSE LET reached == Trace(h.obj, [x \in Elems |-> x] \o vs, <<>>)
           lost    == SetToSeq(DOMAIN h.obj \ DOMAIN reached)
           at      == Trace(h.obj, lost, reached)
       IN /\ obj'  = Renumber(h.obj, at)
          /\ var'  = [v \in Vars |-> IF vs[v] = NULL THEN NULL ELSE at[vs[v]]]
          /\ call' = <<>>
          /\ UNCHANGED <<class, fault>>

Running(op) == call # <<>> /\ fault = "none" /\ call[1] = op

(* The arguments of the call: a list, an index and, last, an element,      *)
(* which the client retains before it gives it.                            *)
List     == var[call[2]]
Elem     == call[Len(call)]
Supplied == Retain(TheHeap, Elem)

(* The call leaves its result in the variable it took its list from.       *)
Gives(h) == Finish(h, [var EXCEPT ![call[2]] = h.ret])

FromArray ==
  /\ Running("fromArray")
  /\ Gives(fromArray(RetainAll(TheHeap, call[3]), call[3]))

Dup  == Running("dup")  /\ Finish(Retain(TheHeap, List), [var EXCEPT ![call[3]] = List])
Drop == Running("drop") /\ Finish(Release(TheHeap, List), [var EXCEPT ![call[2]] = NULL])

PushFront == Running("pushFront") /\ Gives(pushFront(Supplied, Elem, List))
PushBack  == Running("pushBack")  /\ Gives(pushBack(Supplied, List, Elem))
Reversal  == Running("reverse")   /\ Gives(reverse(TheHeap, List))

(* The right argument is taken too: its variable is empty afterwards.      *)
Append2 ==
  /\ Running("mappend") \/ Running("concat")
  /\ LET h == IF call[1] = "mappend" THEN mappend(TheHeap, List, var[call[3]])
                                     ELSE concat(TheHeap, <<List, var[call[3]]>>)
     IN  Finish(h, [var EXCEPT ![call[2]] = h.ret, ![call[3]] = NULL])

(* The client releases the element that split, popFront or popBack gives.  *)
GivesParts(h) == Finish(Release(h, h.ret[3]), [var EXCEPT ![call[2]] = h.ret[2], ![call[3]] = h.ret[4]])
GivesRest(h)  == Finish(Release(h, h.ret[2]), [var EXCEPT ![call[2]] = h.ret[3]])

Split == Running("split") /\ GivesParts(split(TheHeap, List, call[4], TRUE, TRUE, TRUE))

Pop ==
  \/ Running("popFront") /\ GivesRest(popFront(TheHeap, List))
  \/ Running("popBack")  /\ GivesRest(popBack(TheHeap, List))

DeleteAt     == Running("deleteAt")     /\ Gives(deleteAt(TheHeap, List, call[3]))
InsertBefore == Running("insertBefore") /\ Gives(insertBefore(Supplied, List, call[3], Elem))
InsertAfter  == Running("insertAfter")  /\ Gives(insertAfter(Supplied, List, call[3], Elem))
UpdateAt     == Running("updateAt")     /\ Gives(updateAt(Supplied, List, call[3], Elem))

Library ==
  \/ FromArray \/ Dup \/ Drop \/ PushFront \/ PushBack \/ Append2 \/ Split \/ Pop
  \/ Reversal \/ DeleteAt \/ InsertBefore \/ InsertAfter \/ UpdateAt

Next == Request \/ Library

Spec == Init /\ [][Next]_vars
-----------------------------------------------------------------------------
(* Every reference is to an object that exists, every variable holds a     *)
(* list and no refcount is below 1.                                        *)
TypeOK ==
  /\ \A a \in DOMAIN obj :
       /\ obj[a].rc \in Nat \ {0}
       /\ \A i \in DOMAIN obj[a].kids : obj[a].kids[i] \in DOMAIN obj \cup {NULL}
  /\ var \in [Vars -> {NULL} \cup (DOMAIN obj \ Elems)]

Idle == call = <<>> /\ fault = "none"

(***************************************************************************)
(* After every call the refcount of every object is the number of          *)
(* references to it: those of the fields of objects, of the variables, and *)
(* the one the client keeps to an element.  The client counts as the gc    *)
(* tests of src/test/test_sequence.c do: every method takes its arguments, *)
(* popFront, popBack and split also when they return false, and gives its  *)
(* results, get, front and back included.  On these two points the         *)
(* comments of pfds-sequence.h say otherwise: BorrowsAsDocumented below.   *)
(***************************************************************************)
Counted ==
  Idle => \A a \in DOMAIN obj :
            obj[a].rc = OwnedRefs(TheHeap, a) + Cardinality({v \in Vars : var[v] = a})
                        + (IF a \in Elems THEN 1 ELSE 0)

(***************************************************************************)
(* What the tests assert at their end (ASSERT_GC_COUNTS in                 *)
(* src/test/test_pfds.c): a client that dropped every list it was given    *)
(* leaves nothing allocated, and no reference it did not have before.      *)
(***************************************************************************)
GCCountsZero ==
  Idle /\ (\A v \in Vars : ~ Held(v)) =>
    DOMAIN obj = Elems /\ \A x \in Elems : obj[x].rc = 1

(***************************************************************************)
(* A reference that was taken is not used again: the code reads no object  *)
(* after the release that freed it (take(x) in src/src/pfds.h).            *)
(***************************************************************************)
NoUseAfterFree == fault # "use after free"

(***************************************************************************)
(* Every operation leaves every list in the representation the next one    *)
(* relies on: the shape and the cached sizes of a finger tree, the cached  *)
(* size of every cell of a linked list.                                    *)
(***************************************************************************)
Representation == Idle => \A v \in Vars : Held(v) => WellFormed(TheHeap, var[v])

(***************************************************************************)
(* What get, front, back and size answer is the contents of the list, and  *)
(* they leave the heap as it was but for a reference to the element, which *)
(* is the caller's: test_gc_sequence_get, _front and _back release it, and *)
(* do so after the list.  (pfds-sequence.h has it lent by the list.)       *)
(***************************************************************************)
Answer(h, s, n) == IF n < Len(s) THEN Return(Retain(h, s[n+1]), s[n+1]) ELSE Return(h, NULL)

Queries ==
  Idle => \A v \in Vars : Held(v) =>
    LET l == var[v]
        s == Items(v)
        h == TheHeap
    IN /\ size(h, l) = Len(s)
       /\ isEmpty(h, l) <=> s = <<>>
       /\ \A n \in {i \in Indices : i <= Len(s)} \cup {Word - 1} : get(h, l, n) = Answer(h, s, n)
       /\ front(h, l) = Answer(h, s, 0)
       /\ back(h, l) = Answer(h, s, (Len(s) - 1) % Word)

(***************************************************************************)
(* What pfds-sequence.h says of ownership where the code and the tests     *)
(* differ from it: a popFront, popBack or split that returns false has     *)
(* borrowed its list, and the element that get, front or back returns is   *)
(* lent.  Both leave every refcount as it was.                             *)
(***************************************************************************)
Borrows(h) == h.ret[1] \/ h.obj = obj


(***************************************************************************)
(* pfds_cmp of two lists is the lexicographic order of their contents,     *)
(* also of lists that share parts or are the same object, and it borrows   *)
(* them: the heap is what it was.                                          *)
(***************************************************************************)
Lexicographic(s, t) ==
  LET n == CHOOSE n \in 0..Len(s) :
             /\ n <= Len(t) /\ SubSeq(s, 1, n) = SubSeq(t, 1, n)
             /\ n < Len(s) /\ n < Len(t) => s[n+1] # t[n+1]
  IN CASE n = Len(s) /\ n = Len(t) -> "EQ"
       [] n = Len(s) /\ n < Len(t) -> "LT"
       [] n < Len(s) /\ n = Len(t) -> "GT"
       [] n < Len(s) /\ n < Len(t) -> IF s[n+1] < t[n+1] THEN "LT" ELSE "GT"

Comparison ==
  Idle => \A v, w \in Vars : Held(v) /\ Held(w) =>
    compare(TheHeap, var[v], var[w]) = Return(TheHeap, Lexicographic(Items(v), Items(w)))

(***************************************************************************)
(* reduceLeft and reduceRight, given a reference of their own to the list, *)
(* visit the elements in order and consume exactly that reference.         *)
(***************************************************************************)
Reductions ==
  Idle => \A v \in Vars : Held(v) =>
    LET h == Retain(TheHeap, var[v])
        r == Return(TheHeap, Items(v))
    IN  reduceLeft(h, <<>>, var[v]) = r /\ reduceRight(h, var[v], <<>>) = r

(***************************************************************************)
(* The lists implement immutable sequences, as PersistentLists has them:   *)
(* each call gives the sequence its comment describes, whatever the lists  *)
(* share, changes no other variable, and only an index out of bounds stops *)
(* the program.  The list is gone after a popFront, popBack or split that  *)
(* returns false, as the code and the gc tests have it.                    *)
(***************************************************************************)
Ideal == INSTANCE PersistentLists WITH
           None <- <<NULL>>, stopped <- (fault # "none"),
           val <- [v \in Vars |-> IF Held(v) THEN Items(v) ELSE <<NULL>>]
ImplementsLists == Ideal!Spec
=============================================================================
