----------------------------- MODULE MCRefCount -----------------------------
(* Model checking of RefCount.  No SYMMETRY: a run with a liveness         *)
(* property needs every state.                                             *)
EXTENDS RefCount
=============================================================================
