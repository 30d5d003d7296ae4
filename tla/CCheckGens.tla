----------------------------- MODULE CCheckGens -----------------------------
(***************************************************************************)
(* The generators of src/ccheck/ccheck.c whose dispose is assigned, and    *)
(* those of numbers, as values of the constants of CCheck.                 *)
(***************************************************************************)
EXTENDS CCheck

CONSTANTS
  Kind,          \* "int", "sizedInt", "series", "array" or "size" of each
  Child,         \* the generator of the elements, or of the sized value
  AtLeast        \* what clampBelow clamps below

ASSUME GensAssumption ==
  /\ Kind \in [Gens -> {"int", "sizedInt", "series", "array", "size"}]
  /\ \A g \in Gens : Kind[g] \in {"array", "size"} => Child[g] \in Gens

Clamp(size) == IF size < AtLeast THEN AtLeast ELSE size

RECURSIVE DrawsOf(_, _)
DrawsOf(g, size) ==
  CASE Kind[g] = "int"      -> 1
    [] Kind[g] = "sizedInt" -> IF size <= 1 THEN 0 ELSE 1
    [] Kind[g] = "series"   -> 0
    [] Kind[g] = "array"    -> size * DrawsOf(Child[g], size)
    [] Kind[g] = "size"     -> DrawsOf(Child[g], Clamp(size))

(* A sample: the word it was made of, <<>> where none was drawn, and the   *)
(* elements behind its pointer, <<>> where that is NULL.                   *)
Leaf(word) == [word |-> word, elements |-> <<>>]

RECURSIVE SampleOf(_, _, _)
SampleOf(g, size, rand) ==
  CASE Kind[g] = "int"      -> Leaf(rand)
    [] Kind[g] = "sizedInt" -> Leaf(IF size <= 1 THEN <<>> ELSE rand)
    [] Kind[g] = "series"   -> [word |-> <<>>, elements |-> [i \in 1..size |-> Leaf(<<>>)]]
    [] Kind[g] = "array"    ->
         [word |-> <<>>, elements |-> [i \in 1..size |->
            SampleOf(Child[g], size, After(rand, (i-1) * DrawsOf(Child[g], size)))]]
    [] Kind[g] = "size"     -> SampleOf(Child[g], Clamp(size), rand)

(* The blocks of elements that generate allocates for the sample at place, *)
(* and show reads.                                                         *)
RECURSIVE BlocksOf(_, _, _)
BlocksOf(g, sample, place) ==
  CASE Kind[g] \in {"int", "sizedInt"} -> {}
    [] Kind[g] = "size" -> BlocksOf(Child[g], sample, place)
    [] OTHER ->
         IF sample.elements = <<>> THEN {}
         ELSE {place} \union
                IF Kind[g] = "series" THEN {}
                ELSE UNION {BlocksOf(Child[g], sample.elements[i], Append(place, i)) :
                              i \in DOMAIN sample.elements}

(* Generators of numbers have no dispose; genSize has one if its child has.*)
RECURSIVE HasDispose(_)
HasDispose(g) == CASE Kind[g] \in {"int", "sizedInt"} -> FALSE
                   [] Kind[g] \in {"series", "array"} -> TRUE
                   [] Kind[g] = "size"                -> HasDispose(Child[g])

(* CCHECK_Gen_dispose: the blocks that the dispose of a generator frees.   *)
RECURSIVE DisposedOf(_, _, _)
DisposedOf(g, sample, place) ==
  CASE ~ HasDispose(g)    -> {}
    [] Kind[g] = "size"   -> DisposedOf(Child[g], sample, place)
    [] Kind[g] = "series" -> IF sample.elements # <<>> THEN {place} ELSE {}
    [] Kind[g] = "array"  ->
         (IF sample.elements # <<>> THEN {place} ELSE {}) \union
           UNION {DisposedOf(Child[g], sample.elements[i], Append(place, i)) :
                    i \in DOMAIN sample.elements}
=============================================================================
