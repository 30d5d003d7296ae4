----------------------------- MODULE MCSequences -----------------------------
(* Model checking of LinkedList, ArrayList and TreeList: the client of     *)
(* SequenceClient, its bounds.                                             *)
EXTENDS SequenceVtables, SequenceClient

CONSTANTS
  MaxShort,  \* the length of a LinkedList or an ArrayList
  MaxLen,    \* the length of a TreeList that is the only list of a client
  MaxShared  \* the length of each of two TreeLists

Pairs == BoundedSeq(Elems, 2)

(* The lists do not look at their elements: where an operation puts each   *)
(* element shows when at most one element is not the element 1.            *)
Marked(s) == Range(s) \subseteq 1..2 /\ Cardinality({i \in DOMAIN s : s[i] # 1}) <= 1
OneMarked(s) == Len(s) <= MaxLen /\ Marked(s)

(* It shows as well in a list where no five elements in a row come twice.  *)
Long == <<1,1,1,1,1,2,1,1,1,2,1,2,1,1,2,2,1,2,2,2,2,2>>
PairsAndLong == Pairs \cup {Long}

Buildable(type, s) ==
  IF type = "TreeList" THEN OneMarked(s) \/ s = Long ELSE Len(s) <= MaxShort

(* A client that passes no index far out of bounds but the largest one     *)
(* there is, and that one not to insertAfter, whose n + 1 wraps.           *)
Indexed(c) == c[1] \in {"split", "deleteAt", "insertBefore", "insertAfter", "updateAt"}
IndexOf(c) == IF c[1] = "split" THEN c[4] ELSE c[3]
IndexFits(c) ==
  Indexed(c) => \/ IndexOf(c) \in 0..Len(Items(c[2]))
                \/ IndexOf(c) = Word - 1 /\ c[1] # "insertAfter"

(* A client of ArrayLists reverses only those it has another reference to. *)
ReversesShared(c) == class = "ArrayList" /\ c[1] = "reverse" => obj[var[c[2]]].rc > 1

(* A client of TreeLists shares short ones, builds longer ones when it has *)
(* no other, and takes the long one apart: of the two lists that a split   *)
(* of a list that is not short gives it drops one.                         *)
IsShort(v) == Len(Items(v)) <= MaxShared
Others(c)  == {v \in Vars : Held(v)} \ {c[2]}
Grows == {"pushFront", "pushBack", "insertBefore", "insertAfter"}

SharesShort(c) ==
  /\ c[1] = "fromArray" => \A w \in Others(c) : IsShort(w) /\ c[3] # Long
  /\ c[1] = "dup" => IsShort(c[2])
  /\ c[1] \in Grows /\ Others(c) # {} => Len(Items(c[2])) < MaxShared
  /\ (\E v \in Vars : Held(v) /\ ~ IsShort(v)) /\ Others(c) # {} => c[1] = "drop"
  /\ Held(c[2]) /\ ~ OneMarked(Items(c[2])) => c[1] \in {"split", "popFront", "popBack", "drop"}

(* New lists go to the first variable that is free.                        *)
Fits(c) ==
  /\ c[1] = "fromArray" => c[2] = Min({v \in Vars : ~ Held(v)})
  /\ IndexFits(c) /\ ReversesShared(c)
  /\ class = "TreeList" => SharesShort(c)

Client == Library \/ (Request /\ Fits(call'))
ClientSpec == Init /\ [][Client]_vars

(* A client that only builds lists, appends them and drops them.           *)
Doubling(type, s) == Len(s) <= MaxLen \/ Len(s) = 2 * MaxLen
Build ==
  \/ Library
  \/ Request /\ call'[1] \in {"fromArray", "pushBack", "dup", "mappend", "drop"}
BuildSpec == Init /\ [][Build]_vars
=============================================================================
