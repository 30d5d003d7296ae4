------------------------------ MODULE MCCCheck ------------------------------
(* Model checking of CCheck: an array of arrays has elements to dispose of,*)
(* and genArray of it has had libffi lay out the type of arrays before the *)
(* first test.                                                             *)
EXTENDS CCheckGens, TLC

Nested == "array of series"

GenKind  == [g \in Gens |-> CASE g = "int"          -> "int"
                              [] g = "sized int"    -> "sizedInt"
                              [] g = "series"       -> "series"
                              [] g = Nested         -> "array"
                              [] g = "array of int" -> "array"
                              [] g = "clamped"      -> "size"]
GenChild == Nested :> "series" @@ "array of int" :> "sized int" @@ "clamped" :> Nested

Lists == {<<"int">>, <<"series", "clamped">>, <<"array of int", Nested, "sized int">>}
=============================================================================
