----------------------------- MODULE BSearchAlt -----------------------------
(***************************************************************************)
(* bsearch_alt of src/src/pfds.c: the binary search for the first element  *)
(* of an array that a predicate holds of, one turn of its loop at a time.  *)
(***************************************************************************)
EXTENDS Integers

CONSTANT Lengths   \* the lengths of the arrays that are searched

ASSUME LengthsAssumption == Lengths \subseteq Nat

VARIABLES
  n,       \* the length of the array
  pred,    \* pred[i]: the predicate of element i
  pc,      \* "check" the two ends, "loop", or "done"
  lb, ub,  \* the bounds of the search
  result   \* the index of the element that is returned

vars == <<n, pred, pc, lb, ub, result>>

(* What the comment in src/src/misc.h asks of the predicate.               *)
Monotone(p, len) == \A i, j \in 0..len-1 : i < j /\ p[i] => p[j]

Init ==
  /\ n \in Lengths
  /\ pred \in {p \in [0..n-1 -> BOOLEAN] : Monotone(p, n)}
  /\ pc = "check" /\ lb = 0 /\ ub = 0 /\ result = 0

Return(i) == pc' = "done" /\ result' = i /\ UNCHANGED <<n, pred, lb, ub>>

(* The cases before the loop. *)
NoElement  == pc = "check" /\ n = 0 /\ Return(0)
FirstHolds == pc = "check" /\ n # 0 /\ pred[0] /\ Return(0)
LastFails  == pc = "check" /\ n # 0 /\ ~ pred[0] /\ ~ pred[n-1] /\ Return(n)

Enter ==
  /\ pc = "check" /\ n # 0 /\ ~ pred[0] /\ pred[n-1]
  /\ pc' = "loop" /\ lb' = 0 /\ ub' = n-1
  /\ UNCHANGED <<n, pred, result>>

MoreInclusive == lb < ub       \* mutant: the bounds need not be apart
More          == lb + 1 < ub

(* Mutant: the half where the predicate changes is thrown away.            *)
HalveSwapped ==
  /\ pc = "loop" /\ More
  /\ LET mid == (lb + ub) \div 2
     IN  IF pred[mid] THEN lb' = mid /\ UNCHANGED ub ELSE ub' = mid /\ UNCHANGED lb
  /\ UNCHANGED <<n, pred, pc, result>>

Halve ==
  /\ pc = "loop" /\ More
  /\ LET mid == (lb + ub) \div 2
     IN  IF pred[mid] THEN ub' = mid /\ UNCHANGED lb ELSE lb' = mid /\ UNCHANGED ub
  /\ UNCHANGED <<n, pred, pc, result>>

FinishBelow == pc = "loop" /\ ~ More /\ Return(lb)   \* mutant: the wrong bound
Finish      == pc = "loop" /\ ~ More /\ Return(ub)

Next == NoElement \/ FirstHolds \/ LastFails \/ Enter \/ Halve \/ Finish

(* The call runs to its end.                                               *)
Spec == Init /\ [][Next]_vars /\ WF_vars(Next)
-----------------------------------------------------------------------------
(***************************************************************************)
(* The result is the first element that the predicate holds of, or the end *)
(* of the array when there is none: ArrayMap finds and inserts keys there. *)
(***************************************************************************)
FindsFirst ==
  pc = "done" => /\ result \in 0..n
                 /\ \A i \in 0..result-1 : ~ pred[i]
                 /\ result < n => pred[result]

(***************************************************************************)
(* Why: the predicate fails at lb and holds at ub, and both are elements   *)
(* of the array (no other element is read).                                *)
(***************************************************************************)
TypeOK ==
  /\ n \in Lengths /\ pred \in [0..n-1 -> BOOLEAN] /\ Monotone(pred, n)
  /\ pc \in {"check", "loop", "done"}
  /\ lb \in Nat /\ ub \in Nat /\ result \in Nat

Bracket ==
  pc = "loop" => /\ lb < ub /\ ub <= n-1
                 /\ ~ pred[lb] /\ pred[ub]

BracketInv == TypeOK /\ Bracket /\ FindsFirst

(***************************************************************************)
(* Each turn of the loop keeps within the bounds and leaves at most half   *)
(* of the elements between them (rounded up), and fewer than there were:   *)
(* bsearch_alt asks the predicate about log2 n times.                      *)
(***************************************************************************)
Narrows ==
  [][pc = "loop" /\ pc' = "loop" =>
       /\ lb <= lb' /\ ub' <= ub
       /\ 2 * (ub' - lb') <= ub - lb + 1
       /\ ub' - lb' \in 1 .. ub-lb-1]_vars

(* The search returns: every turn of the loop brings the bounds closer.    *)
Terminates == <>(pc = "done")
=============================================================================
