-------------------------- MODULE BSearchAltProofs --------------------------
(* Proofs about BSearchAlt, for arrays of every length.                    *)
EXTENDS BSearchAlt, TLAPS

(* The middle of two bounds that are apart lies strictly between them: the *)
(* search reads no element outside them and each half is shorter.          *)
LEMMA MiddleBetween ==
  ASSUME NEW l \in Nat, NEW u \in Nat, l + 1 < u
  PROVE  /\ (l + u) \div 2 \in Nat
         /\ l < (l + u) \div 2
         /\ (l + u) \div 2 < u
BY SMT

(* A monotone predicate that fails at an element fails before it.          *)
LEMMA FailsBefore ==
  ASSUME NEW len \in Nat, NEW p, Monotone(p, len),
         NEW k \in 0..len-1, ~ p[k]
  PROVE  \A i \in 0..k : ~ p[i]
BY DEF Monotone

LEMMA InitBracketInv == Init => BracketInv
BY LengthsAssumption DEF Init, BracketInv, TypeOK, Bracket, FindsFirst

LEMMA NextBracketInv == BracketInv /\ [Next]_vars => BracketInv'
<1> SUFFICES ASSUME BracketInv, [Next]_vars
             PROVE  BracketInv'
  OBVIOUS
<1> USE DEF BracketInv, TypeOK
<1>1. n \in Nat
  BY LengthsAssumption
<1>2. CASE NoElement
  BY <1>1, <1>2 DEF NoElement, Return, Bracket, FindsFirst
<1>3. CASE FirstHolds
  BY <1>1, <1>3 DEF FirstHolds, Return, Bracket, FindsFirst
<1>4. CASE LastFails
  <2>1. \A i \in 0..n-1 : ~ pred[i]
    BY <1>1, <1>4, FailsBefore DEF LastFails
  <2> QED
    BY <1>1, <1>4, <2>1 DEF LastFails, Return, Bracket, FindsFirst
<1>5. CASE Enter
  <2>1. n-1 \in Nat /\ 0 < n-1
    BY <1>1, <1>5 DEF Enter
  <2> QED
    BY <1>1, <1>5, <2>1 DEF Enter, Bracket, FindsFirst
<1>6. CASE Halve
  <2> DEFINE mid == (lb + ub) \div 2
  <2>1. mid \in Nat /\ lb < mid /\ mid < ub
    BY <1>6, MiddleBetween DEF Halve, More
  <2> HIDE DEF mid
  <2>2. IF pred[mid] THEN ub' = mid /\ lb' = lb ELSE lb' = mid /\ ub' = ub
    BY <1>6 DEF Halve, mid
  <2>3. UNCHANGED <<n, pred, pc, result>> /\ pc = "loop"
    BY <1>6 DEF Halve
  <2> QED
    BY <1>1, <2>1, <2>2, <2>3 DEF Bracket, FindsFirst
<1>7. CASE Finish
  <2>1. ub = lb + 1 /\ lb \in 0..n-1 /\ ub \in 0..n-1 /\ ~ pred[lb] /\ pred[ub]
    BY <1>1, <1>7 DEF Finish, More, Bracket
  <2>2. \A i \in 0..lb : ~ pred[i]
    BY <1>1, <2>1, FailsBefore
  <2> QED
    BY <1>1, <1>7, <2>1, <2>2 DEF Finish, Return, Bracket, FindsFirst
<1>8. CASE UNCHANGED vars
  BY <1>8 DEF vars, Bracket, FindsFirst, Monotone
<1> QED
  BY <1>2, <1>3, <1>4, <1>5, <1>6, <1>7, <1>8 DEF Next

(* The bracket around the first hit holds at every turn of the loop of     *)
(* bsearch_alt, for every length and every monotone predicate.             *)
THEOREM SearchInvariance == Spec => []BracketInv
BY InitBracketInv, NextBracketInv, PTL DEF Spec

(* bsearch_alt returns the first element that the predicate holds of, or   *)
(* the end of the array.                                                   *)
THEOREM FirstIsFound == Spec => []FindsFirst
<1>1. BracketInv => FindsFirst
  BY DEF BracketInv
<1> QED
  BY SearchInvariance, <1>1, PTL

LEMMA MiddleHalves ==
  ASSUME NEW l \in Nat, NEW u \in Nat, l + 1 < u,
         NEW mid, mid = (l + u) \div 2
  PROVE  /\ 2 * (mid - l) <= u - l + 1 /\ mid - l \in 1 .. u-l-1
         /\ 2 * (u - mid) <= u - l + 1 /\ u - mid \in 1 .. u-l-1
<1>1. mid \in Nat /\ (l + u = 2 * mid \/ l + u = 2 * mid + 1)
  BY SMT
<1> QED
  BY <1>1

(***************************************************************************)
(* Every turn of the loop of bsearch_alt halves what is left to search, so *)
(* the search is short, and ends, for arrays of every length.              *)
(***************************************************************************)
THEOREM SearchNarrows == Spec => Narrows
<1>1. ASSUME BracketInv, [Next]_vars, ~ UNCHANGED vars, pc = "loop", pc' = "loop"
      PROVE  /\ lb <= lb' /\ ub' <= ub
             /\ 2 * (ub' - lb') <= ub - lb + 1
             /\ ub' - lb' \in 1 .. ub-lb-1
  <2>1. Halve
    BY <1>1 DEF Next, NoElement, FirstHolds, LastFails, Enter, Finish, Return
  <2>2. lb \in Nat /\ ub \in Nat /\ lb + 1 < ub
    BY <1>1, <2>1 DEF Halve, More, BracketInv, TypeOK
  <2> DEFINE mid == (lb + ub) \div 2
  <2>3. \/ ub' = mid /\ lb' = lb
        \/ lb' = mid /\ ub' = ub
    BY <2>1 DEF Halve
  <2>4. lb < mid /\ mid < ub /\ mid \in Nat
    BY <2>2, MiddleBetween
  <2>5. /\ 2 * (mid - lb) <= ub - lb + 1 /\ mid - lb \in 1 .. ub-lb-1
        /\ 2 * (ub - mid) <= ub - lb + 1 /\ ub - mid \in 1 .. ub-lb-1
    BY <2>2, MiddleHalves
  <2> HIDE DEF mid
  <2> QED
    BY <2>2, <2>3, <2>4, <2>5
<1>2. BracketInv /\ [Next]_vars
        => [pc = "loop" /\ pc' = "loop" =>
              /\ lb <= lb' /\ ub' <= ub
              /\ 2 * (ub' - lb') <= ub - lb + 1
              /\ ub' - lb' \in 1 .. ub-lb-1]_vars
  BY <1>1
<1> QED
  BY <1>2, SearchInvariance, PTL DEF Spec, Narrows
=============================================================================
