----------------------------- MODULE DefaultSeed -----------------------------
(***************************************************************************)
(* Threads that take seeds from the default generator of                   *)
(* src/ccheck/splitmix.c: nextDefaultSeed is a loop around a weak          *)
(* compare-and-exchange of the one shared word defaultGen, and             *)
(* SplitMix64_setInitialSeed a strong one.  An atomic operation is a step; *)
(* what a thread computes between two of them is local.                    *)
(***************************************************************************)
EXTENDS Naturals

CONSTANTS
  Threads,
  Words,       \* the values of an int64_t
  Zero,        \* DEFAULT_GEN_UNINITIALIZED
  Update,      \* update(_, DEFAULT_SEED_GAMMA), as a function
  Mix,         \* mix64, as a function
  MaxSpurious  \* how often the weak exchange fails for no reason between two
               \*   that succeed

ASSUME SeedAssumption ==
  /\ Zero \in Words
  /\ Update \in [Words -> Words]
  /\ Mix \in [Words -> Words]
  /\ MaxSpurious \in Nat

VARIABLES
  defaultGen,
  pc,        \* where each thread is: "idle", "load" or "exchange"
  p, q,      \* the locals of nextDefaultSeed
  answer,    \* what nextDefaultSeed returned last, Zero once it is called again
  spurious   \* spurious failures since an exchange last succeeded

vars == <<defaultGen, pc, p, q, answer, spurious>>

TypeOK ==
  /\ defaultGen \in Words
  /\ pc \in [Threads -> {"idle", "load", "exchange"}]
  /\ p \in [Threads -> Words]
  /\ q \in [Threads -> Words]
  /\ answer \in [Threads -> Words]
  /\ spurious \in 0..MaxSpurious

(* The locals p and q are Zero outside the loop, where nothing reads them. *)
Init ==
  /\ defaultGen = Zero
  /\ pc     = [t \in Threads |-> "idle"]
  /\ p      = [t \in Threads |-> Zero]
  /\ q      = [t \in Threads |-> Zero]
  /\ answer = [t \in Threads |-> Zero]
  /\ spurious = 0

(* SplitMix64_setInitialSeed, and SplitMix64_initialSeed with any seed that*)
(* getentropy may give; when the word is not Zero only a message appears.  *)
SetInitialSeed(t, seed) ==
  /\ pc[t] = "idle"
  /\ defaultGen = Zero
  /\ defaultGen' = seed
  /\ UNCHANGED <<pc, p, q, answer, spurious>>

(* SplitMix64_initDefault calls nextDefaultSeed.                           *)
Call(t) ==
  /\ pc[t] = "idle"
  /\ pc' = [pc EXCEPT ![t] = "load"]
  /\ answer' = [answer EXCEPT ![t] = Zero]
  /\ UNCHANGED <<defaultGen, p, q, spurious>>

Load(t) ==
  /\ pc[t] = "load"
  /\ p'  = [p EXCEPT ![t] = defaultGen]
  /\ q'  = [q EXCEPT ![t] = Update[p'[t]]]
  /\ pc' = [pc EXCEPT ![t] = "exchange"]
  /\ UNCHANGED <<defaultGen, answer, spurious>>

Succeed(t) ==
  /\ pc[t] = "exchange"
  /\ defaultGen = p[t]
  /\ defaultGen' = q[t]
  /\ answer' = [answer EXCEPT ![t] = Mix[q[t]]]
  /\ pc' = [pc EXCEPT ![t] = "idle"]
  /\ p' = [p EXCEPT ![t] = Zero]
  /\ q' = [q EXCEPT ![t] = Zero]
  /\ spurious' = 0

(* Mutant: the word it found replaces p, but q is not computed again.      *)
FailStale(t) ==
  /\ pc[t] = "exchange"
  /\ defaultGen # p[t]
  /\ p' = [p EXCEPT ![t] = defaultGen]
  /\ UNCHANGED <<defaultGen, pc, q, answer, spurious>>

(* Mutant: the loop does not load the word again.                          *)
FailForever(t) ==
  /\ pc[t] = "exchange"
  /\ \/ defaultGen # p[t] /\ UNCHANGED spurious
     \/ /\ defaultGen = p[t]
        /\ spurious < MaxSpurious
        /\ spurious' = spurious + 1
  /\ UNCHANGED <<defaultGen, pc, p, q, answer>>

(* The exchange finds another word, or fails spuriously; it puts the word  *)
(* into p, and the loop begins again.                                      *)
Fail(t) ==
  /\ pc[t] = "exchange"
  /\ \/ defaultGen # p[t] /\ UNCHANGED spurious
     \/ /\ defaultGen = p[t]
        /\ spurious < MaxSpurious
        /\ spurious' = spurious + 1
  /\ p'  = [p EXCEPT ![t] = defaultGen]
  /\ pc' = [pc EXCEPT ![t] = "load"]
  /\ UNCHANGED <<defaultGen, q, answer>>

Next ==
  \E t \in Threads :
    \/ \E seed \in Words : SetInitialSeed(t, seed)
    \/ Call(t) \/ Load(t) \/ Succeed(t) \/ Fail(t)

(* The scheduler runs every thread that is inside nextDefaultSeed.         *)
Runs(t) == Load(t) \/ Succeed(t) \/ Fail(t)

Spec == Init /\ [][Next]_vars /\ \A t \in Threads : WF_vars(Runs(t))
-----------------------------------------------------------------------------
(* What an exchange would store follows what it compares with.             *)
Computed == \A t \in Threads : pc[t] = "exchange" => q[t] = Update[p[t]]

(***************************************************************************)
(* Whatever the interleaving of the threads, each of them gets a seed as   *)
(* if nextDefaultSeed were one step (nextDefaultSeed): no state of the     *)
(* generator is answered twice for one step, and none is skipped, also     *)
(* when the word changes and changes back between load and exchange.       *)
(***************************************************************************)
Source == INSTANCE SeedSource WITH
            gen <- defaultGen, asking <- {t \in Threads : pc[t] # "idle"}
ImplementsSeedSource == Source!Spec

(***************************************************************************)
(* Either there are always moments again when no thread is inside          *)
(* nextDefaultSeed, or threads are answered again and again: the loop is   *)
(* lock-free.  That each thread is answered is more than the code          *)
(* promises.                                                               *)
(***************************************************************************)
Trying   == \E t \in Threads : pc[t] # "idle"
Answered == \E t \in Threads : pc[t] # "idle" /\ pc'[t] = "idle"
LockFree == []<>(~ Trying) \/ []<><<Answered>>_vars
=============================================================================
