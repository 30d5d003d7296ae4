------------------------- MODULE DefaultSeedProofs -------------------------
(***************************************************************************)
(* Proof that the compare-and-exchange loop of nextDefaultSeed is a single *)
(* step to its callers, for any threads, any words and any function in     *)
(* place of update.                                                        *)
(***************************************************************************)
EXTENDS DefaultSeed, TLAPS

Inv == TypeOK /\ Computed

(* The locals of every thread in the loop have their types and belong      *)
(* together (nextDefaultSeed, src/ccheck/splitmix.c).                      *)
THEOREM LocalsAgree == Spec => []Inv
<1>1. Init => Inv
  BY SeedAssumption DEF Init, Inv, TypeOK, Computed
<1>2. Inv /\ [Next]_vars => Inv'
  <2> SUFFICES ASSUME Inv, [Next]_vars
               PROVE  Inv'
    OBVIOUS
  <2>1. ASSUME NEW t \in Threads, NEW seed \in Words, SetInitialSeed(t, seed)
        PROVE  Inv'
    BY <2>1 DEF Inv, TypeOK, Computed, SetInitialSeed
  <2>2. ASSUME NEW t \in Threads, Call(t)
        PROVE  Inv'
    BY <2>2, SeedAssumption DEF Inv, TypeOK, Computed, Call
  <2>3. ASSUME NEW t \in Threads, Load(t)
        PROVE  Inv'
    BY <2>3, SeedAssumption DEF Inv, TypeOK, Computed, Load
  <2>4. ASSUME NEW t \in Threads, Succeed(t)
        PROVE  Inv'
    BY <2>4, SeedAssumption DEF Inv, TypeOK, Computed, Succeed
  <2>5. ASSUME NEW t \in Threads, Fail(t)
        PROVE  Inv'
    BY <2>5, SeedAssumption DEF Inv, TypeOK, Computed, Fail
  <2>6. CASE UNCHANGED vars
    BY <2>6 DEF Inv, TypeOK, Computed, vars
  <2> QED
    BY <2>1, <2>2, <2>3, <2>4, <2>5, <2>6 DEF Next
<1> QED
  BY <1>1, <1>2, PTL DEF Spec

(* Each step of a thread is a step of SeedSource, or changes nothing that  *)
(* SeedSource speaks of: only the exchange that succeeds takes a seed.     *)
LEMMA StepRefines ==
  ASSUME Inv, [Next]_vars
  PROVE  [Source!Next]_<<defaultGen, {t \in Threads : pc[t] # "idle"}, answer>>
<1> DEFINE Asking == {t \in Threads : pc[t] # "idle"}
<1>1. ASSUME NEW t \in Threads, NEW seed \in Words, SetInitialSeed(t, seed)
      PROVE  Source!Set(seed)
  BY <1>1 DEF SetInitialSeed, Source!Set
<1>2. ASSUME NEW t \in Threads, Call(t)
      PROVE  Source!Ask(t)
  <2>1. Asking' = Asking \cup {t}
    BY <1>2 DEF Call, Inv, TypeOK
  <2> QED
    BY <1>2, <2>1 DEF Call, Source!Ask
<1>3. ASSUME NEW t \in Threads, Load(t)
      PROVE  UNCHANGED <<defaultGen, Asking, answer>>
  <2>1. Asking' = Asking
    BY <1>3 DEF Load, Inv, TypeOK
  <2> QED
    BY <1>3, <2>1 DEF Load
<1>4. ASSUME NEW t \in Threads, Succeed(t)
      PROVE  Source!Take(t)
  <2>1. Asking' = Asking \ {t}
    BY <1>4 DEF Succeed, Inv, TypeOK
  <2>2. defaultGen' = Update[defaultGen]
    BY <1>4 DEF Succeed, Inv, Computed
  <2>3. answer' = [answer EXCEPT ![t] = Mix[defaultGen']]
    BY <1>4 DEF Succeed
  <2> QED
    BY <1>4, <2>1, <2>2, <2>3 DEF Succeed, Source!Take
<1>5. ASSUME NEW t \in Threads, Fail(t)
      PROVE  UNCHANGED <<defaultGen, Asking, answer>>
  <2>1. Asking' = Asking
    BY <1>5 DEF Fail, Inv, TypeOK
  <2> QED
    BY <1>5, <2>1 DEF Fail
<1>6. CASE UNCHANGED vars
  BY <1>6 DEF vars
<1> QED
  BY <1>1, <1>2, <1>3, <1>4, <1>5, <1>6 DEF Next, Source!Next

(* The generator that threads share implements SeedSource: every answer    *)
(* of nextDefaultSeed is that of one step of the generator.                *)
THEOREM SeedsAreTakenOneByOne == Spec => ImplementsSeedSource
<1>1. Init => Source!Init
  BY DEF Init, Source!Init
<1>2. Inv /\ [Next]_vars
        => [Source!Next]_<<defaultGen, {t \in Threads : pc[t] # "idle"}, answer>>
  BY StepRefines
<1> QED
  BY <1>1, <1>2, LocalsAgree, PTL DEF Spec, ImplementsSeedSource, Source!Spec
=============================================================================
