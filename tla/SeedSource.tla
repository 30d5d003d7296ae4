----------------------------- MODULE SeedSource -----------------------------
(***************************************************************************)
(* What the shared default generator of src/ccheck/splitmix.c promises to  *)
(* threads: each request advances the generator by one step, as if there   *)
(* were no other thread, and answers with the state it stepped to.         *)
(***************************************************************************)
CONSTANTS
  Threads,
  Words,    \* the values of an int64_t
  Zero,     \* DEFAULT_GEN_UNINITIALIZED
  Update,   \* the state after each state: update(_, DEFAULT_SEED_GAMMA)
  Mix       \* the seed that each state answers with: mix64

VARIABLES
  gen,      \* the state of the generator
  asking,   \* the threads that wait for an answer
  answer    \* the last answer of each thread, Zero while it has none

Init ==
  /\ gen    = Zero
  /\ asking = {}
  /\ answer = [t \in Threads |-> Zero]

(* The first seed is kept: a later one is refused.                         *)
Set(seed) ==
  /\ gen = Zero
  /\ gen' = seed
  /\ UNCHANGED <<asking, answer>>

Ask(t) ==
  /\ t \notin asking
  /\ asking' = asking \cup {t}
  /\ answer' = [answer EXCEPT ![t] = Zero]
  /\ UNCHANGED gen

Take(t) ==
  /\ t \in asking
  /\ gen'    = Update[gen]
  /\ answer' = [answer EXCEPT ![t] = Mix[gen']]
  /\ asking' = asking \ {t}

Next ==
  \/ \E seed \in Words : Set(seed)
  \/ \E t \in Threads : Ask(t) \/ Take(t)

Spec == Init /\ [][Next]_<<gen, asking, answer>>
=============================================================================
