--------------------------- MODULE PersistentMaps ---------------------------
(***************************************************************************)
(* What the mappings of libpfds promise: variables that hold immutable     *)
(* maps.  A call takes the map of a variable and gives a new one back to   *)
(* it; no call on one variable changes what another one holds.             *)
(***************************************************************************)
EXTENDS Integers, Sequences, Functions, FiniteSetsExt

CONSTANTS
  Vars, None,
  Number(_)    \* what the comparison sees of a key or a value object

VARIABLES
  val,      \* the map each variable holds, from numbers to numbers, or None
  call,     \* the call in progress, <<operation, arguments>>, or <<>>
  stopped,  \* the program was stopped
  lastWins  \* fromArray keeps the last of equal keys; else any of them

Init == val = [v \in Vars |-> None] /\ call = <<>> /\ stopped = FALSE /\ lastWins \in BOOLEAN

Request == call = <<>> /\ call' # <<>> /\ UNCHANGED <<val, stopped, lastWins>>

(* The call c returns; variable v then holds f.                            *)
Returns(c)    == call = c /\ call' = <<>> /\ UNCHANGED <<stopped, lastWins>>
Becomes(v, f) == val' = [val EXCEPT ![v] = f]

Set(f, k, x) == [n \in DOMAIN f \cup {k} |-> IF n = k THEN x ELSE f[n]]
Least(f)     == Restrict(f, DOMAIN f \ {Min(DOMAIN f)})

(* A map made from pairs has their keys, each with a value given to it.    *)
Given(pairs, k)  == {i \in DOMAIN pairs : Number(pairs[i][1]) = k}
MadeFrom(pairs, f) ==
  /\ DOMAIN f = {Number(pairs[i][1]) : i \in DOMAIN pairs}
  /\ \A k \in DOMAIN f : \E i \in Given(pairs, k) : f[k] = Number(pairs[i][2])
KeepsLast(pairs, f) ==
  \A k \in DOMAIN f : f[k] = Number(pairs[Max(Given(pairs, k))][2])

(* empty and singleton are fromArray of 0 and 1 pairs; a map made from an  *)
(* ArrayMap has the contents of the ArrayMap.                              *)
Making == {"empty", "singleton", "fromArray", "fromArrayMap"}
PairsOf(c) ==
  CASE c[1] = "empty"     -> <<>>
    [] c[1] = "singleton" -> << <<c[3], c[4]>> >>
    [] c[1] \notin {"empty", "singleton"} -> c[3]

Make(v) ==
  /\ call # <<>> /\ call[1] \in Making /\ call[2] = v /\ Returns(call)
  /\ val[v] = None
  /\ LET f == val'[v] IN
       /\ MadeFrom(PairsOf(call), f) /\ Becomes(v, f)
       /\ lastWins /\ call[1] = "fromArray" => KeepsLast(PairsOf(call), f)

Dup(v, w) == Returns(<<"dup", v, w>>) /\ val[w] = None /\ Becomes(w, val[v])
Drop(v)   == Returns(<<"drop", v>>)   /\ Becomes(v, None)

Insert(v) ==
  /\ call # <<>> /\ call[1] = "insert" /\ call[2] = v /\ Returns(call)
  /\ Becomes(v, Set(val[v], Number(call[3]), Number(call[4])))

Erase(v) ==
  /\ call # <<>> /\ call[1] = "erase" /\ call[2] = v /\ Returns(call)
  /\ Becomes(v, Restrict(val[v], DOMAIN val[v] \ {Number(call[3])}))

(* The caller may leave the rest; the rest of an empty map is no map.      *)
PopMin(v) ==
  /\ call # <<>> /\ call[1] = "popMin" /\ call[2] = v /\ Returns(call)
  /\ Becomes(v, IF call[4] /\ val[v] # <<>> THEN Least(val[v]) ELSE None)

Next ==
  \/ Request
  \/ \E v \in Vars : Make(v) \/ Drop(v) \/ Insert(v) \/ Erase(v) \/ PopMin(v)
  \/ \E v, w \in Vars : Dup(v, w)

Spec == Init /\ [][Next]_<<val, call, stopped, lastWins>>
=============================================================================
