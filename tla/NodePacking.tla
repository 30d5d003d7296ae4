---------------------------- MODULE NodePacking ----------------------------
(***************************************************************************)
(* How pfds_FingerTree_app3 packs the elements between two deep trees into *)
(* nodes of 2 or 3, in an array on the stack of a size computed before.    *)
(***************************************************************************)
EXTENDS Integers

(* The nodes that the array has room for, and that the loop makes.         *)
NumNodes(elts) == (elts + 2) \div 3

(* The node made next, when so many elements remain: 4 are two nodes of 2. *)
NodeSize(left) == IF left \in {2, 4} THEN 2 ELSE 3
=============================================================================
