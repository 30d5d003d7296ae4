--------------------------- MODULE RefCountProofs ---------------------------
(***************************************************************************)
(* Proofs about RefCount, for every set of objects, fields and handles and *)
(* every value of INT_MAX.                                                 *)
(***************************************************************************)
EXTENDS RefCount, FiniteSetTheorems, FunctionTheorems, TLAPS

-----------------------------------------------------------------------------
(* Types.                                                                  *)

LEMMA BuiltType ==
  ASSUME NEW p \in [Slots -> Objects \cup {NULL}], NEW o \in Objects,
         NEW h \in Handles, NEW g \in Givable(p)
  PROVE  Built(p, o, h, g) \in [Slots -> Objects \cup {NULL}]
<1>1. \A s \in Slots : s \in {o} \X Fields => s[2] \in Fields
  OBVIOUS
<1>2. \A f \in Fields : g[f] = NULL \/ g[f] \in Slots
  BY DEF Givable, Slots
<1>3. \A s \in Slots : p[s] \in Objects \cup {NULL}
  OBVIOUS
<1> QED
  BY <1>1, <1>2, <1>3 DEF Built

(* The slots an action names are slots.                                    *)
LEMMA ActionSlots ==
  ASSUME TypeOK
  PROVE  /\ \A h \in Handles : h \in Slots
         /\ \A f \in Fields : DestroyField(f) => <<Head(stack), f>> \in Slots
         /\ stack # <<>> => Head(stack) \in Objects
<1>1. \A h \in Handles : h \in Slots
  BY DEF Slots
<1>2. stack # <<>> => Head(stack) \in Objects
  <2>1. stack \in Seq(Objects)
    BY DEF TypeOK, ControlTypeOK
  <2> QED
    BY <2>1
<1>3. \A f \in Fields : DestroyField(f) => stack # <<>>
  BY DEF DestroyField
<1> QED
  BY <1>1, <1>2, <1>3 DEF Slots, FieldSlots

LEMMA EnterReleaseType ==
  ASSUME TypeOK, NEW s \in Slots, ptr[s] # NULL, EnterRelease(s)
  PROVE  TypeOK'
<1>1. ptr[s] \in Objects
  BY DEF TypeOK, HeapTypeOK
<1>2. ptr' = [ptr EXCEPT ![s] = NULL] /\ refbal' = refbal - 1
  BY DEF EnterRelease
<1>3. CounterTypeOK'
  <2>1. objbal' = objbal \/ objbal' = objbal - 1
    BY DEF EnterRelease
  <2> QED
    BY <1>2, <2>1 DEF TypeOK, CounterTypeOK
<1>4. CASE refcount[ptr[s]] = 0
  <2>1. /\ UNCHANGED <<status, refcount, stack, objbal>>
        /\ fault' = "double release"
    BY <1>4 DEF EnterRelease
  <2> QED
    BY <1>2, <1>3, <2>1 DEF TypeOK, HeapTypeOK, ControlTypeOK
<1>5. CASE refcount[ptr[s]] # 0
  <2>1. /\ refcount' = [refcount EXCEPT ![ptr[s]] = @ - 1]
        /\ fault' = fault
        /\ \/ /\ status' = [status EXCEPT ![ptr[s]] = "dying"]
              /\ stack' = <<ptr[s]>> \o stack
           \/ UNCHANGED <<status, stack>>
    BY <1>5 DEF EnterRelease
  <2>2. refcount[ptr[s]] \in 1..MaxRef
    BY <1>1, <1>5, MaxRefAssumption DEF TypeOK, HeapTypeOK
  <2>3. refcount[ptr[s]] - 1 \in 0..MaxRef
    BY <2>2, MaxRefAssumption
  <2>4. HeapTypeOK'
    BY <1>1, <1>2, <2>1, <2>3 DEF TypeOK, HeapTypeOK
  <2>5. ControlTypeOK'
    <3>1. stack \in Seq(Objects)
      BY DEF TypeOK, ControlTypeOK
    <3>2. <<ptr[s]>> \o stack \in Seq(Objects)
      BY <1>1, <3>1
    <3> QED
      BY <2>1, <3>2 DEF TypeOK, ControlTypeOK
  <2> QED
    BY <1>3, <2>4, <2>5 DEF TypeOK
<1> QED
  BY <1>4, <1>5

LEMMA TypingStep == TypeOK /\ [Next]_vars => TypeOK'
<1> SUFFICES ASSUME TypeOK, [Next]_vars PROVE TypeOK'
  OBVIOUS
<1>1. ASSUME NEW o \in Objects, NEW h \in Handles, NEW g \in Givable(ptr),
             New(o, h, g)
      PROVE  TypeOK'
  <2>1. ptr' \in [Slots -> Objects \cup {NULL}]
    BY <1>1, BuiltType DEF New, TypeOK, HeapTypeOK
  <2>2. 1 \in 0..MaxRef
    BY MaxRefAssumption
  <2>3. HeapTypeOK'
    BY <1>1, <2>1, <2>2 DEF New, TypeOK, HeapTypeOK
  <2>4. ControlTypeOK'
    BY <1>1 DEF New, TypeOK, ControlTypeOK
  <2>5. CounterTypeOK'
    BY <1>1 DEF New, TypeOK, CounterTypeOK
  <2> QED
    BY <2>3, <2>4, <2>5 DEF TypeOK
<1>2. ASSUME NEW s \in Slots, NEW h \in Handles, Retain(s, h)
      PROVE  TypeOK'
  <2>1. ptr[s] \in Objects /\ h \in Slots
    BY <1>2 DEF Retain, Readable, TypeOK, HeapTypeOK, Slots
  <2>2. CounterTypeOK'
    <3>1. objbal' = objbal /\ refbal' = refbal + 1
      BY <1>2 DEF Retain
    <3> QED
      BY <3>1 DEF TypeOK, CounterTypeOK
  <2>3. CASE refcount[ptr[s]] = MaxRef
    BY <1>2, <2>2, <2>3 DEF Retain, TypeOK, HeapTypeOK, ControlTypeOK
  <2>4. CASE refcount[ptr[s]] # MaxRef
    <3>1. /\ refcount' = [refcount EXCEPT ![ptr[s]] = @ + 1]
          /\ ptr' = [ptr EXCEPT ![h] = ptr[s]]
          /\ UNCHANGED <<status, stack, fault>>
      BY <1>2, <2>4 DEF Retain
    <3>2. refcount[ptr[s]] + 1 \in 0..MaxRef
      BY <2>1, <2>4, MaxRefAssumption DEF TypeOK, HeapTypeOK
    <3> QED
      BY <2>1, <2>2, <3>1, <3>2 DEF TypeOK, HeapTypeOK, ControlTypeOK
  <2> QED
    BY <2>3, <2>4
<1>3. ASSUME NEW h \in Handles, Drop(h)
      PROVE  TypeOK'
  BY <1>3, EnterReleaseType, ActionSlots DEF Drop
<1>4. ASSUME NEW f \in Fields, DestroyField(f)
      PROVE  TypeOK'
  BY <1>4, EnterReleaseType, ActionSlots DEF DestroyField
<1>5. CASE Free
  BY <1>5, ActionSlots
     DEF Free, TypeOK, HeapTypeOK, ControlTypeOK, CounterTypeOK
<1>6. CASE UNCHANGED vars
  BY <1>6 DEF vars, TypeOK, HeapTypeOK, ControlTypeOK, CounterTypeOK
<1> QED
  BY <1>1, <1>2, <1>3, <1>4, <1>5, <1>6
     DEF Next, Construct, DupRef, DropRef, ReleaseRun

(***************************************************************************)
(* Every variable keeps its type; in particular the refcount field never   *)
(* leaves 0..INT_MAX.                                                      *)
(***************************************************************************)
THEOREM Typing == Spec => []TypeOK
<1>1. Init => TypeOK
  BY MaxRefAssumption
     DEF Init, TypeOK, HeapTypeOK, ControlTypeOK, CounterTypeOK
<1> QED
  BY <1>1, TypingStep, PTL DEF Spec

-----------------------------------------------------------------------------
(* Counting references.                                                    *)

LEMMA SlotsFinite == IsFiniteSet(Slots)
BY FiniteAssumption, FS_Product, FS_Union DEF Slots, FieldSlots

LEMMA RefsFinite ==
  /\ \A o \in Objects : IsFiniteSet(Refs(o))
  /\ IsFiniteSet({s \in Slots : ptr[s] # NULL})
BY SlotsFinite, FS_Subset DEF Refs

(* An object a slot refers to is counted, hence live.                      *)
LEMMA ReferencedIsLive ==
  ASSUME IInv, NEW s \in Slots, ptr[s] # NULL
  PROVE  /\ ptr[s] \in Objects
         /\ s \in Refs(ptr[s])
         /\ refcount[ptr[s]] \in 1..MaxRef
         /\ status[ptr[s]] = "live"
<1>1. ptr[s] \in Objects
  BY DEF IInv, TypeOK, HeapTypeOK
<1>2. s \in Refs(ptr[s])
  BY DEF Refs
<1>3. Cardinality(Refs(ptr[s])) # 0
  BY <1>1, <1>2, RefsFinite, FS_EmptySet
<1>4. refcount[ptr[s]] # 0 /\ refcount[ptr[s]] \in 0..MaxRef
  BY <1>1, <1>3 DEF IInv, ExactCount, TypeOK, HeapTypeOK
<1> QED
  BY <1>1, <1>2, <1>4, MaxRefAssumption DEF IInv, LiveIffCounted

(* The slots of S that refer to an object of T.                            *)
Holding(p, S, T) == {s \in S : p[s] \in T}

(***************************************************************************)
(* A constructor moves references from handles to the fields of the new    *)
(* object: besides the one in the result handle, as many slots refer to    *)
(* the objects of T after it as before.                                    *)
(***************************************************************************)
LEMMA MovedCount ==
  ASSUME NEW p \in [Slots -> Objects \cup {NULL}],
         NEW o \in Objects, NEW h \in Handles, NEW g \in Givable(p),
         p[h] = NULL \/ h \in Given(g),
         \A f \in Fields : p[<<o, f>>] = NULL,
         NEW T, NULL \notin T
  PROVE  /\ IsFiniteSet(Holding(p, Slots, T))
         /\ IsFiniteSet(Holding(Built(p, o, h, g), Slots \ {h}, T))
         /\ Cardinality(Holding(Built(p, o, h, g), Slots \ {h}, T))
              = Cardinality(Holding(p, Slots, T))
<1> DEFINE q == Built(p, o, h, g)
           A == {s \in Slots : p[s] \in T}
           B == {s \in Slots \ {h} : q[s] \in T}
           to(s) == IF s \in Given(g) THEN <<o, CHOOSE f \in Fields : g[f] = s>>
                                      ELSE s
           F == [s \in A |-> to(s)]
<1>0. /\ \A s \in Handles : s \in Slots /\ s \notin FieldSlots
      /\ \A f \in Fields : <<o, f>> \in Slots /\ <<o, f>> \in FieldSlots
      /\ \A s \in Given(g) : s \in Handles
  BY HandleAssumption DEF Slots, FieldSlots, Given, Givable
<1>1. \A s \in Given(g) :
        LET f == CHOOSE f \in Fields : g[f] = s
        IN  f \in Fields /\ g[f] = s
  BY DEF Given
<1>2. \A s \in Slots : q[s] = IF s = h THEN o
                             ELSE IF s \in Given(g) THEN NULL
                             ELSE IF s \in {o} \X Fields
                                  THEN IF g[s[2]] = NULL THEN NULL ELSE p[g[s[2]]]
                             ELSE p[s]
  BY DEF Built
<1>3. F \in [A -> B]
  <2> SUFFICES ASSUME NEW s \in A PROVE to(s) \in B
    OBVIOUS
  <2>1. CASE s \in Given(g)
    <3>1. PICK f \in Fields : to(s) = <<o, f>> /\ g[f] = s
      BY <2>1, <1>1
    <3>2. <<o, f>> \in Slots \ {h} /\ <<o, f>> \notin Given(g)
      BY <1>0
    <3>3. s # NULL
      BY <2>1 DEF Given
    <3>4. q[<<o, f>>] = p[s]
      BY <1>2, <3>1, <3>2, <3>3
    <3> QED
      BY <3>1, <3>2, <3>4
  <2>2. CASE s \notin Given(g)
    <3>1. s # h
      BY <2>2
    <3>2. s \notin {o} \X Fields
      OBVIOUS
    <3> QED
      BY <1>2, <2>2, <3>1, <3>2
  <2> QED
    BY <2>1, <2>2
<1>4. \A s, t \in A : F[s] = F[t] => s = t
  <2> SUFFICES ASSUME NEW s \in A, NEW t \in A, to(s) = to(t) PROVE s = t
    OBVIOUS
  <2>1. \A u \in A : u \notin {o} \X Fields
    OBVIOUS
  <2>2. \A u \in Given(g) : to(u) \in {o} \X Fields /\ g[to(u)[2]] = u
    BY <1>1
  <2>3. \A u \in A : u \notin Given(g) => to(u) = u
    OBVIOUS
  <2> QED
    BY <2>1, <2>2, <2>3
<1>5. \A t \in B : \E s \in A : F[s] = t
  <2> SUFFICES ASSUME NEW t \in B PROVE \E s \in A : to(s) = t
    OBVIOUS
  <2>0. t \in Slots /\ t # h /\ q[t] \in T
    OBVIOUS
  <2>1. t \notin Given(g)
    BY <2>0, <1>2
  <2>2. CASE t \in {o} \X Fields
    <3>1. PICK f \in Fields : t = <<o, f>>
      BY <2>2
    <3>2. g[f] # NULL /\ q[t] = p[g[f]]
      BY <2>0, <2>1, <2>2, <3>1, <1>2
    <3>3. g[f] \in Given(g)
      BY <3>2 DEF Given
    <3>4. (CHOOSE e \in Fields : g[e] = g[f]) = f
      BY <3>2, <3>3, <1>1 DEF Givable
    <3>5. g[f] \in A
      BY <2>0, <3>2, <3>3, <1>0
    <3> QED
      BY <3>1, <3>3, <3>4, <3>5
  <2>3. CASE t \notin {o} \X Fields
    <3>1. t \in A
      BY <2>0, <2>1, <2>3, <1>2
    <3> QED
      BY <2>1, <3>1
  <2> QED
    BY <2>2, <2>3
<1>6. F \in Bijection(A, B)
  BY <1>3, <1>4, <1>5, Fun_IsBij
<1>7. IsFiniteSet(A)
  BY SlotsFinite, FS_Subset
<1>8. IsFiniteSet(B) /\ Cardinality(B) = Cardinality(A)
  BY <1>6, <1>7, FS_Bijection, Fun_ExistsBij
<1> QED
  BY <1>7, <1>8 DEF Holding

-----------------------------------------------------------------------------
(* The invariant is inductive: one lemma per kind of step.                 *)

LEMMA LiveFinite == IsFiniteSet(With("live"))
BY FiniteAssumption, FS_Subset DEF With

LEMMA ReleaseInv ==
  ASSUME IInv, TypeOK', fault = "none",
         NEW s \in Slots, ptr[s] # NULL, EnterRelease(s)
  PROVE  IInv'
<1> DEFINE o == ptr[s]
<1>0. o \in Objects /\ s \in Refs(o) /\ status[o] = "live"
  BY ReferencedIsLive
<1>1. refcount[o] \in 1..MaxRef /\ refcount[o] \in Nat \ {0}
  BY ReferencedIsLive, MaxRefAssumption
<1>2. /\ ptr' = [ptr EXCEPT ![s] = NULL]
      /\ refcount' = [refcount EXCEPT ![o] = @ - 1]
      /\ refbal' = refbal - 1
      /\ fault' = "none"
  BY <1>1 DEF EnterRelease
<1>3. \/ /\ refcount[o] = 1
         /\ status' = [status EXCEPT ![o] = "dying"]
         /\ stack' = <<o>> \o stack
         /\ objbal' = objbal - 1
      \/ /\ refcount[o] > 1
         /\ UNCHANGED <<status, stack, objbal>>
  <2>1. CASE refcount[o] = 1
    BY <2>1 DEF EnterRelease
  <2>2. CASE refcount[o] > 1
    <3>1. ~ (refcount[o] - 1 <= 0) /\ refcount[o] # 0
      BY <1>1, <2>2
    <3> QED
      BY <2>2, <3>1 DEF EnterRelease
  <2> QED
    BY <1>1, <2>1, <2>2
<1>4. /\ \A t \in Slots : ptr'[t] = IF t = s THEN NULL ELSE ptr[t]
      /\ \A t \in Slots : ptr[t] \in Objects \cup {NULL}
  BY <1>2 DEF IInv, TypeOK, HeapTypeOK
<1>5. \A p \in Objects : refcount'[p] = IF p = o THEN refcount[p] - 1 ELSE refcount[p]
  BY <1>2 DEF IInv, TypeOK, HeapTypeOK
<1>6. ExactCount'
  <2> SUFFICES ASSUME NEW p \in Objects
               PROVE  refcount'[p] = Cardinality(Refs(p)')
    BY DEF ExactCount
  <2>1. refcount[p] = Cardinality(Refs(p)) /\ IsFiniteSet(Refs(p))
    BY RefsFinite DEF IInv, ExactCount
  <2>2. CASE p = o
    <3>1. Refs(p)' = Refs(p) \ {s}
      BY <1>0, <1>4, <2>2, NullAssumption DEF Refs
    <3>2. Cardinality(Refs(p) \ {s}) = Cardinality(Refs(p)) - 1
      BY <1>0, <2>1, <2>2, FS_RemoveElement
    <3> QED
      BY <1>5, <2>1, <2>2, <3>1, <3>2
  <2>3. CASE p # o
    <3>1. Refs(p)' = Refs(p)
      BY <1>4, <2>3, NullAssumption DEF Refs
    <3> QED
      BY <1>5, <2>1, <2>3, <3>1
  <2> QED
    BY <2>2, <2>3
<1>7. \A p \in Objects : status'[p] = IF p = o /\ refcount[o] = 1 THEN "dying"
                                                              ELSE status[p]
  BY <1>0, <1>1, <1>3 DEF IInv, TypeOK, HeapTypeOK
<1>8. LiveIffCounted'
  BY <1>0, <1>1, <1>5, <1>7 DEF IInv, LiveIffCounted
<1>9. FreeOwnsNothing'
  BY <1>0, <1>4, <1>7 DEF IInv, FreeOwnsNothing, Slots, FieldSlots
<1>10. DyingOnStack'
  <2>0. stack \in Seq(Objects) /\ stack' \in Seq(Objects)
    BY DEF IInv, TypeOK, ControlTypeOK
  <2>1. CASE refcount[o] = 1
    <3>1. stack' = <<o>> \o stack
      BY <1>3, <2>1
    <3>2. /\ Len(stack') = Len(stack) + 1
          /\ stack'[1] = o
          /\ \A i \in 1..Len(stack) : stack'[i+1] = stack[i]
          /\ \A i \in 1..Len(stack') : i = 1 \/ (i-1 \in 1..Len(stack) /\ stack'[i] = stack[i-1])
      BY <1>0, <2>0, <3>1
    <3>3. \A i \in 1..Len(stack') : status'[stack'[i]] # "live"
      <4>1. \A i \in 1..Len(stack) : stack[i] \in Objects /\ status[stack[i]] # "live"
        BY <2>0 DEF IInv, DyingOnStack
      <4> QED
        BY <1>0, <1>7, <2>1, <3>2, <4>1
    <3>4. \A p \in Objects : status'[p] = "dying" => \E i \in 1..Len(stack') : stack'[i] = p
      <4> SUFFICES ASSUME NEW p \in Objects, status'[p] = "dying"
                   PROVE  \E i \in 1..Len(stack') : stack'[i] = p
        OBVIOUS
      <4>1. CASE p = o
        BY <2>0, <3>2, <4>1
      <4>2. CASE p # o
        <5>1. PICK i \in 1..Len(stack) : stack[i] = p
          BY <1>7, <4>2 DEF IInv, DyingOnStack
        <5> QED
          BY <2>0, <3>2, <5>1
      <4> QED
        BY <4>1, <4>2
    <3> QED
      BY <3>3, <3>4 DEF DyingOnStack
  <2>2. CASE refcount[o] # 1
    BY <1>3, <2>2 DEF IInv, DyingOnStack
  <2> QED
    BY <2>1, <2>2
<1>11. Acyclic'
  <2> SUFFICES ASSUME NEW D \in SUBSET Objects, D # {}
               PROVE  \E x \in D : \A t \in D \X Fields : ptr'[t] # x
    BY DEF Acyclic
  <2>1. PICK x \in D : \A t \in D \X Fields : ptr[t] # x
    BY DEF IInv, Acyclic
  <2>2. \A t \in D \X Fields : t \in Slots
    BY DEF Slots, FieldSlots
  <2> QED
    BY <1>4, <2>1, <2>2, NullAssumption
<1>12. NoDoubleRelease'
  BY <1>2 DEF NoDoubleRelease
<1>13. GCInfoExact'
  <2>1. /\ objbal = Cardinality(With("live"))
        /\ refbal = Cardinality({t \in Slots : ptr[t] # NULL})
    BY DEF IInv, GCInfoExact
  <2>2. refbal' = Cardinality({t \in Slots : ptr'[t] # NULL})
    <3>1. {t \in Slots : ptr'[t] # NULL} = {t \in Slots : ptr[t] # NULL} \ {s}
      BY <1>4
    <3> QED
      BY <1>2, <2>1, <3>1, RefsFinite, FS_RemoveElement
  <2>3. objbal' = Cardinality(With("live")')
    <3>1. CASE refcount[o] = 1
      <4>1. With("live")' = With("live") \ {o}
        BY <1>7, <3>1 DEF With
      <4>2. o \in With("live")
        BY <1>0 DEF With
      <4> QED
        BY <1>3, <2>1, <3>1, <4>1, <4>2, LiveFinite, FS_RemoveElement
    <3>2. CASE refcount[o] # 1
      BY <1>3, <2>1, <3>2 DEF With
    <3> QED
      BY <3>1, <3>2
  <2> QED
    BY <2>2, <2>3 DEF GCInfoExact
<1> QED
  BY <1>6, <1>8, <1>9, <1>10, <1>11, <1>12, <1>13 DEF IInv

LEMMA NewInv ==
  ASSUME IInv, TypeOK',
         NEW o \in Objects, NEW h \in Handles, NEW g \in Givable(ptr), New(o, h, g)
  PROVE  IInv'
<1>1. /\ stack = <<>> /\ stack' = <<>> /\ fault = "none" /\ fault' = "none"
      /\ status[o] = "free"
      /\ ptr[h] = NULL \/ h \in Given(g)
      /\ ptr' = Built(ptr, o, h, g)
      /\ objbal' = objbal + 1 /\ refbal' = refbal + 1
  BY DEF New, ClientRuns
<1>2. ptr \in [Slots -> Objects \cup {NULL}] /\ ptr' \in [Slots -> Objects \cup {NULL}]
  BY DEF IInv, TypeOK, HeapTypeOK
<1>3. \A f \in Fields : ptr[<<o, f>>] = NULL
  BY <1>1 DEF IInv, FreeOwnsNothing
<1>4. \A p \in Objects : /\ refcount'[p] = IF p = o THEN 1 ELSE refcount[p]
                        /\ status'[p] = IF p = o THEN "live" ELSE status[p]
  BY DEF New, IInv, TypeOK, HeapTypeOK
<1>5. \A s \in Slots : ptr[s] # o
  BY <1>1, NullAssumption, ReferencedIsLive
<1>6. \A T : NULL \notin T =>
         /\ IsFiniteSet({s \in Slots : ptr[s] \in T})
         /\ IsFiniteSet({s \in Slots \ {h} : ptr'[s] \in T})
         /\ Cardinality({s \in Slots \ {h} : ptr'[s] \in T})
              = Cardinality({s \in Slots : ptr[s] \in T})
  <2> SUFFICES ASSUME NEW T, NULL \notin T
               PROVE  /\ IsFiniteSet(Holding(ptr, Slots, T))
                      /\ IsFiniteSet(Holding(Built(ptr, o, h, g), Slots \ {h}, T))
                      /\ Cardinality(Holding(Built(ptr, o, h, g), Slots \ {h}, T))
                           = Cardinality(Holding(ptr, Slots, T))
    BY <1>1 DEF Holding
  <2>1. ptr \in [Slots -> Objects \cup {NULL}]
    BY <1>2
  <2>2. ptr[h] = NULL \/ h \in Given(g)
    BY <1>1
  <2> QED
    BY <1>3, <2>1, <2>2, MovedCount
<1>7. h \in Slots /\ h \notin FieldSlots /\ ptr'[h] = o
  BY <1>1, HandleAssumption DEF Slots, Built
<1>8. \A s \in Slots \ {h} : ptr'[s] # o
  <2>1. {s \in Slots : ptr[s] \in {o}} = {}
    BY <1>5
  <2>0. NULL \notin {o}
    BY NullAssumption
  <2>2. Cardinality({s \in Slots \ {h} : ptr'[s] \in {o}}) = 0
    <3>1. Cardinality({s \in Slots \ {h} : ptr'[s] \in {o}})
            = Cardinality({s \in Slots : ptr[s] \in {o}})
      BY <1>6, <2>0
    <3> QED
      BY <2>1, <3>1, FS_EmptySet
  <2>3. {s \in Slots \ {h} : ptr'[s] \in {o}} = {}
    BY <1>6, <2>2, NullAssumption, FS_EmptySet
  <2> QED
    BY <2>3
<1>9. ExactCount'
  <2> SUFFICES ASSUME NEW p \in Objects
               PROVE  refcount'[p] = Cardinality(Refs(p)')
    BY DEF ExactCount
  <2>1. CASE p = o
    <3>1. Refs(p)' = {h}
      BY <1>7, <1>8, <2>1 DEF Refs
    <3>2. Cardinality({h}) = 1
      BY FS_Singleton
    <3> QED
      BY <1>4, <2>1, <3>1, <3>2
  <2>2. CASE p # o
    <3>1. Refs(p)' = {s \in Slots \ {h} : ptr'[s] \in {p}}
      BY <1>7, <2>2 DEF Refs
    <3>2. Refs(p) = {s \in Slots : ptr[s] \in {p}}
      BY DEF Refs
    <3>3. Cardinality(Refs(p)') = Cardinality(Refs(p))
      BY <1>6, <3>1, <3>2, NullAssumption
    <3> QED
      BY <1>4, <2>2, <3>3 DEF IInv, ExactCount
  <2> QED
    BY <2>1, <2>2
<1>10. LiveIffCounted'
  BY <1>4 DEF IInv, LiveIffCounted
<1>11. \A s \in FieldSlots : s \notin {o} \X Fields => ptr'[s] = ptr[s]
  <2>1. Given(g) \subseteq Handles
    BY DEF Given, Givable
  <2> QED
    BY <1>1, <1>7, <2>1, HandleAssumption DEF Built, Slots
<1>12. FreeOwnsNothing'
  BY <1>4, <1>11 DEF IInv, FreeOwnsNothing, FieldSlots
<1>13. DyingOnStack'
  BY <1>1, <1>4 DEF IInv, DyingOnStack
<1>14. Acyclic'
  <2> SUFFICES ASSUME NEW D \in SUBSET Objects, D # {}
               PROVE  \E x \in D : \A t \in D \X Fields : ptr'[t] # x
    BY DEF Acyclic
  <2>1. CASE o \in D
    BY <1>7, <1>8, <2>1 DEF Slots, FieldSlots
  <2>2. CASE o \notin D
    <3>1. PICK x \in D : \A t \in D \X Fields : ptr[t] # x
      BY DEF IInv, Acyclic
    <3> QED
      BY <1>11, <2>2, <3>1 DEF FieldSlots
  <2> QED
    BY <2>1, <2>2
<1>15. NoDoubleRelease'
  BY <1>1 DEF NoDoubleRelease
<1>16. GCInfoExact'
  <2> DEFINE used == {s \in Slots : ptr[s] # NULL}
  <2>1. objbal = Cardinality(With("live")) /\ refbal = Cardinality(used)
    BY <1>1 DEF IInv, GCInfoExact
  <2>2. objbal' = Cardinality(With("live")')
    <3>1. With("live")' = With("live") \cup {o} /\ o \notin With("live")
      BY <1>1, <1>4 DEF With
    <3>2. Cardinality(With("live") \cup {o}) = Cardinality(With("live")) + 1
      BY <3>1, LiveFinite, FS_AddElement
    <3> QED
      BY <1>1, <2>1, <3>1, <3>2
  <2>3. refbal' = Cardinality({s \in Slots : ptr'[s] # NULL})
    <3> DEFINE moved == {s \in Slots \ {h} : ptr'[s] \in Objects}
    <3>1. used = {s \in Slots : ptr[s] \in Objects}
      BY <1>2, NullAssumption
    <3>2. IsFiniteSet(moved) /\ Cardinality(moved) = Cardinality(used)
      BY <1>6, <3>1, NullAssumption
    <3>3. {s \in Slots : ptr'[s] # NULL} = moved \cup {h} /\ h \notin moved
      BY <1>2, <1>7, NullAssumption
    <3>4. Cardinality(moved \cup {h}) = Cardinality(moved) + 1
      BY <3>2, <3>3, FS_AddElement
    <3> QED
      BY <1>1, <2>1, <3>2, <3>3, <3>4
  <2> QED
    BY <2>2, <2>3 DEF GCInfoExact
<1> QED
  BY <1>9, <1>10, <1>12, <1>13, <1>14, <1>15, <1>16 DEF IInv

LEMMA RetainInv ==
  ASSUME IInv, TypeOK', NEW s \in Slots, NEW h \in Handles, Retain(s, h)
  PROVE  IInv'
<1> DEFINE o == ptr[s]
<1>0. /\ fault = "none" /\ stack = <<>>
      /\ ptr[s] # NULL /\ ptr[h] = NULL /\ h \in Slots
      /\ refbal' = refbal + 1 /\ UNCHANGED <<status, stack, objbal>>
  BY DEF Retain, Readable, ClientRuns, Slots
<1>1. o \in Objects /\ refcount[o] \in 1..MaxRef /\ status[o] = "live"
  BY <1>0, ReferencedIsLive
<1>2. CASE refcount[o] = MaxRef
  <2>1. refcount' = refcount /\ ptr' = ptr
    BY <1>2 DEF Retain
  <2>2. /\ Acyclic' /\ ExactCount'
        /\ LiveIffCounted' /\ FreeOwnsNothing'
    <3>1. Acyclic'
      BY <2>1 DEF IInv, Acyclic
    <3>2. ExactCount'
      BY <2>1 DEF IInv, ExactCount, Refs
    <3>3. LiveIffCounted' /\ FreeOwnsNothing'
      BY <1>0, <2>1 DEF IInv, LiveIffCounted, FreeOwnsNothing
    <3> QED
      BY <3>1, <3>2, <3>3
  <2>3. DyingOnStack'
    BY <1>0 DEF IInv, DyingOnStack
  <2>4. NoDoubleRelease' /\ GCInfoExact'
    <3>1. fault' = "pfds_object_retain overflow"
      BY <1>2 DEF Retain
    <3> QED
      BY <3>1 DEF NoDoubleRelease, GCInfoExact
  <2> QED
    BY <2>2, <2>3, <2>4 DEF IInv
<1>3. CASE refcount[o] # MaxRef
  <2>1. /\ refcount' = [refcount EXCEPT ![o] = @ + 1]
        /\ ptr' = [ptr EXCEPT ![h] = o]
        /\ fault' = "none"
    BY <1>0, <1>3 DEF Retain
  <2>2. /\ \A t \in Slots : ptr'[t] = IF t = h THEN o ELSE ptr[t]
        /\ \A p \in Objects : refcount'[p] = IF p = o THEN refcount[p] + 1
                                                    ELSE refcount[p]
        /\ \A p \in Objects : refcount[p] \in Nat
    BY <2>1, MaxRefAssumption DEF IInv, TypeOK, HeapTypeOK
  <2>3. ExactCount'
    <3> SUFFICES ASSUME NEW p \in Objects
                 PROVE  refcount'[p] = Cardinality(Refs(p)')
      BY DEF ExactCount
    <3>1. refcount[p] = Cardinality(Refs(p)) /\ IsFiniteSet(Refs(p))
      BY RefsFinite DEF IInv, ExactCount
    <3>2. CASE p = o
      <4>1. Refs(p)' = Refs(p) \cup {h} /\ h \notin Refs(p)
        BY <1>0, <1>1, <2>2, <3>2 DEF Refs
      <4>2. Cardinality(Refs(p) \cup {h}) = Cardinality(Refs(p)) + 1
        BY <3>1, <4>1, FS_AddElement
      <4> QED
        BY <2>2, <3>1, <3>2, <4>1, <4>2
    <3>3. CASE p # o
      <4>1. Refs(p)' = Refs(p)
        BY <1>0, <2>2, <3>3, NullAssumption DEF Refs
      <4> QED
        BY <2>2, <3>1, <3>3, <4>1
    <3> QED
      BY <3>2, <3>3
  <2>4. LiveIffCounted'
    BY <1>0, <1>1, <2>2 DEF IInv, LiveIffCounted
  <2>5. \A t \in FieldSlots : ptr'[t] = ptr[t]
    BY <2>2, HandleAssumption DEF Slots
  <2>6. FreeOwnsNothing' /\ Acyclic'
    BY <1>0, <2>5 DEF IInv, FreeOwnsNothing, Acyclic, FieldSlots
  <2>7. DyingOnStack'
    BY <1>0 DEF IInv, DyingOnStack
  <2>8. NoDoubleRelease'
    BY <2>1 DEF NoDoubleRelease
  <2>9. GCInfoExact'
    <3> DEFINE used == {t \in Slots : ptr[t] # NULL}
    <3>1. objbal = Cardinality(With("live")) /\ refbal = Cardinality(used)
      BY <1>0 DEF IInv, GCInfoExact
    <3>2. {t \in Slots : ptr'[t] # NULL} = used \cup {h} /\ h \notin used
      BY <1>0, <2>2
    <3>3. Cardinality(used \cup {h}) = Cardinality(used) + 1
      BY <3>2, RefsFinite, FS_AddElement
    <3>4. objbal' = Cardinality(With("live")')
      BY <1>0, <3>1 DEF With
    <3> QED
      BY <1>0, <3>1, <3>2, <3>3, <3>4 DEF GCInfoExact
  <2> QED
    BY <2>3, <2>4, <2>6, <2>7, <2>8, <2>9 DEF IInv
<1> QED
  BY <1>2, <1>3

LEMMA FreeInv ==
  ASSUME IInv, TypeOK', Free
  PROVE  IInv'
<1> DEFINE o == Head(stack)
<1>0. stack \in Seq(Objects) /\ stack # <<>> /\ stack' = Tail(stack)
  BY DEF Free, IInv, TypeOK, ControlTypeOK
<1>1. /\ o \in Objects /\ 1 \in 1..Len(stack) /\ stack[1] = o
      /\ Len(stack') = Len(stack) - 1
      /\ \A i \in 1..Len(stack') : i+1 \in 1..Len(stack) /\ stack'[i] = stack[i+1]
      /\ \A i \in 1..Len(stack) : i = 1 \/ (i-1 \in 1..Len(stack') /\ stack'[i-1] = stack[i])
  BY <1>0
<1>2. /\ \A p \in Objects : status'[p] = IF p = o THEN "free" ELSE status[p]
      /\ \A f \in Fields : ptr[<<o, f>>] = NULL
      /\ fault = "none" /\ UNCHANGED <<refcount, ptr, objbal, refbal, fault>>
  BY DEF Free, IInv, TypeOK, HeapTypeOK
<1>3. status[o] # "live"
  BY <1>1 DEF IInv, DyingOnStack
<1>4. ExactCount' /\ Acyclic' /\ NoDoubleRelease'
  BY <1>2 DEF IInv, ExactCount, Acyclic, NoDoubleRelease, Refs
<1>5. LiveIffCounted'
  BY <1>2, <1>3 DEF IInv, LiveIffCounted
<1>6. FreeOwnsNothing'
  BY <1>2 DEF IInv, FreeOwnsNothing
<1>7. DyingOnStack'
  <2>1. \A i \in 1..Len(stack) : status[stack[i]] # "live" /\ stack[i] \in Objects
    BY <1>0 DEF IInv, DyingOnStack
  <2>2. \A i \in 1..Len(stack') : status'[stack'[i]] # "live"
    BY <1>1, <1>2, <2>1
  <2>3. \A p \in Objects : status'[p] = "dying" => \E i \in 1..Len(stack') : stack'[i] = p
    <3> SUFFICES ASSUME NEW p \in Objects, status'[p] = "dying"
                 PROVE  \E i \in 1..Len(stack') : stack'[i] = p
      OBVIOUS
    <3>1. p # o /\ status[p] = "dying"
      BY <1>2
    <3>2. PICK i \in 1..Len(stack) : stack[i] = p
      BY <3>1 DEF IInv, DyingOnStack
    <3> QED
      BY <1>1, <3>1, <3>2
  <2> QED
    BY <2>2, <2>3 DEF DyingOnStack
<1>8. GCInfoExact'
  <2>1. With("live")' = With("live")
    BY <1>2, <1>3 DEF With
  <2> QED
    BY <1>2, <2>1 DEF IInv, GCInfoExact
<1> QED
  BY <1>4, <1>5, <1>6, <1>7, <1>8 DEF IInv

(***************************************************************************)
(* The invariant holds in every reachable state.                           *)
(***************************************************************************)
THEOREM Invariance == Spec => []IInv
<1>1. Init => IInv
  <2> SUFFICES ASSUME Init PROVE IInv
    OBVIOUS
  <2>1. TypeOK
    BY MaxRefAssumption
       DEF Init, TypeOK, HeapTypeOK, ControlTypeOK, CounterTypeOK
  <2>2. /\ \A s \in Slots : ptr[s] = NULL
        /\ \A s \in FieldSlots : ptr[s] = NULL
        /\ \A o \in Objects : refcount[o] = 0 /\ status[o] = "free"
        /\ stack = <<>> /\ objbal = 0 /\ refbal = 0 /\ fault = "none"
    BY DEF Init, Slots
  <2>3. /\ \A o \in Objects : Refs(o) = {}
        /\ {s \in Slots : ptr[s] # NULL} = {}
        /\ With("live") = {}
    BY <2>2, NullAssumption DEF Refs, With
  <2>4. ExactCount /\ GCInfoExact
    BY <2>2, <2>3, FS_EmptySet DEF ExactCount, GCInfoExact
  <2>5. LiveIffCounted /\ FreeOwnsNothing /\ NoDoubleRelease
    BY <2>2 DEF LiveIffCounted, FreeOwnsNothing, NoDoubleRelease, FieldSlots
  <2>6. DyingOnStack
    BY <2>2 DEF DyingOnStack
  <2>7. Acyclic
    BY <2>2, NullAssumption DEF Acyclic, FieldSlots
  <2> QED
    BY <2>1, <2>4, <2>5, <2>6, <2>7 DEF IInv
<1>2. IInv /\ [Next]_vars => IInv'
  <2> SUFFICES ASSUME IInv, [Next]_vars PROVE IInv'
    OBVIOUS
  <2>0. TypeOK /\ TypeOK'
    BY TypingStep DEF IInv
  <2>1. ASSUME NEW o \in Objects, NEW h \in Handles, NEW g \in Givable(ptr),
               New(o, h, g)
        PROVE  IInv'
    BY <2>0, <2>1, NewInv
  <2>2. ASSUME NEW s \in Slots, NEW h \in Handles, Retain(s, h)
        PROVE  IInv'
    BY <2>0, <2>2, RetainInv
  <2>3. ASSUME NEW h \in Handles, Drop(h)
        PROVE  IInv'
    BY <2>0, <2>3, ActionSlots, ReleaseInv DEF Drop, ClientRuns
  <2>4. ASSUME NEW f \in Fields, DestroyField(f)
        PROVE  IInv'
    BY <2>0, <2>4, ActionSlots, ReleaseInv DEF DestroyField
  <2>5. CASE Free
    BY <2>0, <2>5, FreeInv
  <2>6. CASE UNCHANGED vars
    <3>1. ExactCount' /\ LiveIffCounted' /\ FreeOwnsNothing' /\ Acyclic'
      BY <2>6 DEF vars, IInv, ExactCount, Refs, LiveIffCounted,
                  FreeOwnsNothing, Acyclic
    <3>2. DyingOnStack'
      BY <2>6 DEF vars, IInv, DyingOnStack
    <3>3. NoDoubleRelease' /\ GCInfoExact'
      BY <2>6 DEF vars, IInv, NoDoubleRelease, GCInfoExact, With
    <3> QED
      BY <2>0, <3>1, <3>2, <3>3 DEF IInv
  <2> QED
    BY <2>1, <2>2, <2>3, <2>4, <2>5, <2>6
       DEF Next, Construct, DupRef, DropRef, ReleaseRun
<1> QED
  BY <1>1, <1>2, PTL DEF Spec

(***************************************************************************)
(* refcount is the number of references that exist, during a cascade too.  *)
(***************************************************************************)
THEOREM CountsAreExact == Spec => []ExactCount
<1>1. IInv => ExactCount
  BY DEF IInv
<1> QED
  BY <1>1, Invariance, PTL

(***************************************************************************)
(* No reference leads to freed memory: no use after free is possible.      *)
(***************************************************************************)
THEOREM NeverDangling == Spec => []NoDangling
<1>1. IInv => NoDangling
  BY ReferencedIsLive DEF NoDangling
<1> QED
  BY <1>1, Invariance, PTL

(***************************************************************************)
(* The panic "double release" is unreachable.                              *)
(***************************************************************************)
THEOREM NeverReleasedTwice == Spec => []NoDoubleRelease
<1>1. IInv => NoDoubleRelease
  BY DEF IInv
<1> QED
  BY <1>1, Invariance, PTL

(***************************************************************************)
(* The counters the tests compare count live objects and references.       *)
(***************************************************************************)
THEOREM CountersAreExact == Spec => []GCInfoExact
<1>1. IInv => GCInfoExact
  BY DEF IInv
<1> QED
  BY <1>1, Invariance, PTL

(* Every object outside a closed set would be referred to by one of its    *)
(* own; the object graph has no cycle, so there is none.                   *)
LEMMA LiveIsReachable ==
  ASSUME IInv, stack = <<>>
  PROVE  With("live") = Reach(ptr)
<1>0. \A o \in Objects : status[o] # "dying"
  BY DEF IInv, DyingOnStack
<1>1. \A s \in Slots : ptr[s] # NULL => ptr[s] \in With("live")
  BY ReferencedIsLive DEF With
<1>2. Closed(ptr, With("live")) /\ With("live") \in SUBSET Objects
  BY <1>1 DEF Closed, Slots, FieldSlots, With
<1>3. ASSUME NEW C \in SUBSET Objects, Closed(ptr, C)
      PROVE  With("live") \subseteq C
  <2> DEFINE D == With("live") \ C
  <2> SUFFICES ASSUME D # {} PROVE FALSE
    OBVIOUS
  <2>0. D \in SUBSET Objects
    BY DEF With
  <2>1. PICK x \in D : \A s \in D \X Fields : ptr[s] # x
    BY <2>0 DEF IInv, Acyclic
  <2>2. x \in Objects /\ refcount[x] # 0
    BY <2>0 DEF With, IInv, LiveIffCounted
  <2>3. PICK s \in Slots : ptr[s] = x
    <3>1. Refs(x) # {}
      BY <2>2, FS_EmptySet DEF IInv, ExactCount
    <3> QED
      BY <3>1 DEF Refs
  <2>4. x # NULL /\ x \notin C
    BY <2>2, NullAssumption
  <2>5. s \notin Handles
    BY <1>3, <2>3, <2>4 DEF Closed
  <2>6. PICK o \in Objects, f \in Fields : s = <<o, f>>
    BY <2>5 DEF Slots, FieldSlots
  <2>7. o \notin C
    BY <1>3, <2>3, <2>4, <2>6 DEF Closed
  <2>8. status[o] = "live"
    BY <1>0, <2>3, <2>4, <2>6
       DEF IInv, FreeOwnsNothing, TypeOK, HeapTypeOK
  <2> QED
    BY <2>1, <2>3, <2>6, <2>7, <2>8 DEF With
<1> QED
  BY <1>2, <1>3 DEF Reach, With

(***************************************************************************)
(* When the client runs, exactly the objects it can reach are allocated.   *)
(***************************************************************************)
THEOREM NothingLeaks == Spec => []NoLeak
<1>1. IInv => NoLeak
  <2> SUFFICES ASSUME IInv, ClientRuns
               PROVE  With("live") = Reach(ptr) /\ With("dying") = {}
    BY DEF NoLeak
  <2>1. With("dying") = {}
    BY DEF With, IInv, DyingOnStack, ClientRuns
  <2> QED
    BY <2>1, LiveIsReachable DEF ClientRuns
<1> QED
  BY <1>1, Invariance, PTL

-----------------------------------------------------------------------------
LEMMA OwnedFieldsFinite == IsFiniteSet(OwnedFields)
BY FiniteAssumption, FS_Product, FS_Subset DEF OwnedFields, FieldSlots

(* A release in destroy takes a reference away; Free leaves them alone.    *)
LEMMA DestroyFieldWork ==
  ASSUME IInv, TypeOK', NEW f \in Fields, DestroyField(f)
  PROVE  Work' \in 0..Work-1 /\ fault' = "none"
<1> DEFINE s == <<Head(stack), f>>
           o == ptr[s]
<1>1. /\ fault = "none" /\ stack # <<>> /\ stack \in Seq(Objects)
      /\ ptr[s] # NULL /\ EnterRelease(s)
  BY DEF DestroyField, IInv, TypeOK, ControlTypeOK
<1>2. s \in FieldSlots /\ s \in Slots
  BY <1>1 DEF FieldSlots, Slots
<1>3. o \in Objects /\ refcount[o] # 0
  BY <1>1, <1>2, ReferencedIsLive
<1> HIDE DEF s
<1>4. /\ ptr' = [ptr EXCEPT ![s] = NULL]
      /\ fault' = "none"
      /\ stack' = stack \/ stack' = <<o>> \o stack
  BY <1>1, <1>3 DEF EnterRelease
<1>5. OwnedFields' = OwnedFields \ {s}
  <2>1. ptr \in [Slots -> Objects \cup {NULL}]
    BY DEF IInv, TypeOK, HeapTypeOK
  <2> QED
    BY <1>2, <1>4, <2>1 DEF OwnedFields, Slots
<1>6. /\ Cardinality(OwnedFields) \in Nat
      /\ Cardinality(OwnedFields') \in Nat
      /\ Cardinality(OwnedFields') = Cardinality(OwnedFields) - 1
  <2>1. s \in OwnedFields
    BY <1>1, <1>2 DEF OwnedFields
  <2>2. IsFiniteSet(OwnedFields \ {s}) /\ IsFiniteSet(OwnedFields)
    BY OwnedFieldsFinite, FS_RemoveElement
  <2> QED
    BY <1>5, <2>1, <2>2, FS_RemoveElement, FS_CardinalityType
<1>7. /\ Len(stack) \in Nat /\ Len(stack') \in Nat
      /\ Len(stack') = Len(stack) \/ Len(stack') = Len(stack) + 1
  BY <1>1, <1>3, <1>4
<1> QED
  BY <1>4, <1>6, <1>7 DEF Work

(***************************************************************************)
(* Every release ends, however deep its cascade and whatever is shared:    *)
(* each step leaves less to do, and none of them panics.  The number Work  *)
(* of a state bounds the steps of the cascade from there.                  *)
(***************************************************************************)
THEOREM CascadesAreFinite == Spec => WorkShrinks
<1>1. IInv /\ IInv' /\ [Next]_vars
        => [ReleaseRun => Work' \in 0..Work-1 /\ fault' = "none"]_vars
  <2> SUFFICES ASSUME IInv, IInv', ReleaseRun
               PROVE  Work' \in 0..Work-1 /\ fault' = "none"
    OBVIOUS
  <2>1. TypeOK'
    BY DEF IInv
  <2>2. ASSUME NEW f \in Fields, DestroyField(f)
        PROVE  Work' \in 0..Work-1 /\ fault' = "none"
    BY <2>1, <2>2, DestroyFieldWork
  <2>3. CASE Free
    <3>1. /\ stack \in Seq(Objects) /\ stack # <<>> /\ stack' = Tail(stack)
          /\ ptr' = ptr /\ fault' = "none"
      BY <2>3 DEF Free, IInv, TypeOK, ControlTypeOK
    <3>2. OwnedFields' = OwnedFields
      BY <3>1 DEF OwnedFields
    <3>3. Len(stack) \in Nat /\ Len(stack') \in Nat /\ Len(stack') = Len(stack) - 1
      BY <3>1
    <3>4. Cardinality(OwnedFields) \in Nat
      BY OwnedFieldsFinite, FS_CardinalityType
    <3> QED
      BY <3>1, <3>2, <3>3, <3>4 DEF Work
  <2> QED
    BY <2>2, <2>3 DEF ReleaseRun
<1> QED
  BY <1>1, Invariance, PTL DEF Spec, WorkShrinks
-----------------------------------------------------------------------------
(* The call of destroy that a release makes is the only one for its object.*)
LEMMA EnterReleaseOnce ==
  ASSUME IInv, OneCallEach, NEW s \in Slots, ptr[s] # NULL, EnterRelease(s)
  PROVE  OneCallEach'
<1> DEFINE o == ptr[s]
<1>1. o \in Objects /\ refcount[o] # 0 /\ status[o] = "live"
  BY ReferencedIsLive
<1>2. /\ stack \in Seq(Objects) /\ Len(stack) \in Nat
      /\ status \in [Objects -> {"free", "live", "dying"}]
  <2>1. stack \in Seq(Objects)
    BY DEF IInv, TypeOK, ControlTypeOK
  <2>2. Len(stack) \in Nat
    BY <2>1
  <2> QED
    BY <2>1, <2>2 DEF IInv, TypeOK, HeapTypeOK
<1>3. \A i \in 1..Len(stack) : stack[i] # o
  BY <1>1, <1>2 DEF OneCallEach
<1>4. CASE UNCHANGED <<status, stack>>
  BY <1>4 DEF OneCallEach
<1>5. CASE /\ status' = [status EXCEPT ![o] = "dying"]
           /\ stack' = <<o>> \o stack
  <2> HIDE DEF o
  <2>1. /\ Len(stack') = Len(stack) + 1 /\ stack'[1] = o
        /\ \A i \in 2..Len(stack') : i-1 \in 1..Len(stack) /\ stack'[i] = stack[i-1]
        /\ \A i \in 1..Len(stack) : i+1 \in 2..Len(stack') /\ stack'[i+1] = stack[i]
    BY <1>1, <1>2, <1>5
  <2>2. \A i, j \in 1..Len(stack') : stack'[i] = stack'[j] => i = j
    <3> SUFFICES ASSUME NEW i \in 1..Len(stack'), NEW j \in 1..Len(stack'),
                        stack'[i] = stack'[j]
                 PROVE  i = j
      OBVIOUS
    <3>1. (i = 1 \/ i \in 2..Len(stack')) /\ (j = 1 \/ j \in 2..Len(stack'))
      BY <1>2, <2>1
    <3>2. ASSUME i \in 2..Len(stack'), j \in 2..Len(stack')
          PROVE  i = j
      <4>1. /\ i-1 \in 1..Len(stack) /\ j-1 \in 1..Len(stack)
            /\ stack[i-1] = stack[j-1]
        BY <2>1, <3>2
      <4>2. i - 1 = j - 1
        BY <4>1 DEF OneCallEach
      <4> QED
        BY <4>2
    <3> QED
      BY <1>3, <2>1, <3>1, <3>2
  <2>3. ASSUME NEW p \in Objects
        PROVE  status'[p] = "dying" <=> \E i \in 1..Len(stack') : stack'[i] = p
    <3>1. CASE p = o
      <4>1. status'[p] = "dying" /\ 1 \in 1..Len(stack')
        BY <1>2, <1>5, <2>1, <3>1
      <4> QED
        BY <2>1, <3>1, <4>1
    <3>2. CASE p # o
      <4>1. status'[p] = status[p]
        BY <1>2, <1>5, <3>2
      <4>2. (\E i \in 1..Len(stack') : stack'[i] = p) <=> \E i \in 1..Len(stack) : stack[i] = p
        <5>1. \A i \in 1..Len(stack') : i = 1 \/ i \in 2..Len(stack')
          BY <1>2, <2>1
        <5>2. \A i \in 2..Len(stack') : i \in 1..Len(stack')
          BY <1>2, <2>1
        <5> QED
          BY <2>1, <3>2, <5>1, <5>2
      <4> QED
        BY <4>1, <4>2 DEF OneCallEach
    <3> QED
      BY <3>1, <3>2
  <2> QED
    BY <2>2, <2>3 DEF OneCallEach
<1> QED
  BY <1>1, <1>4, <1>5 DEF EnterRelease

LEMMA FreeOnce ==
  ASSUME IInv, OneCallEach, Free
  PROVE  OneCallEach'
<1> DEFINE o == Head(stack)
<1>1. /\ stack \in Seq(Objects) /\ stack # <<>> /\ stack' = Tail(stack)
      /\ status \in [Objects -> {"free", "live", "dying"}]
      /\ status' = [status EXCEPT ![o] = "free"]
  BY DEF Free, IInv, TypeOK, HeapTypeOK, ControlTypeOK
<1>2. /\ o \in Objects /\ 1 \in 1..Len(stack) /\ stack[1] = o
      /\ Len(stack) \in Nat /\ Len(stack') = Len(stack) - 1
      /\ \A i \in 1..Len(stack') : i+1 \in 1..Len(stack) /\ stack'[i] = stack[i+1]
      /\ \A i \in 1..Len(stack) : i = 1 \/ (i-1 \in 1..Len(stack') /\ stack'[i-1] = stack[i])
  BY <1>1
<1> HIDE DEF o
<1>3. \A i \in 1..Len(stack') : stack'[i] # o
  BY <1>2 DEF OneCallEach
<1>4. \A i, j \in 1..Len(stack') : stack'[i] = stack'[j] => i = j
  <2> SUFFICES ASSUME NEW i \in 1..Len(stack'), NEW j \in 1..Len(stack'),
                      stack'[i] = stack'[j]
               PROVE  i = j
    OBVIOUS
  <2>1. stack[i+1] = stack[j+1] /\ i+1 \in 1..Len(stack) /\ j+1 \in 1..Len(stack)
    BY <1>2
  <2>2. i + 1 = j + 1
    BY <2>1 DEF OneCallEach
  <2> QED
    BY <1>2, <2>2
<1>5. ASSUME NEW p \in Objects
      PROVE  status'[p] = "dying" <=> \E i \in 1..Len(stack') : stack'[i] = p
  <2>1. CASE p = o
    BY <1>1, <1>3, <2>1
  <2>2. CASE p # o
    <3>1. status'[p] = status[p]
      BY <1>1, <2>2
    <3>2. (\E i \in 1..Len(stack') : stack'[i] = p) <=> \E i \in 1..Len(stack) : stack[i] = p
      BY <1>2, <2>2
    <3> QED
      BY <3>1, <3>2 DEF OneCallEach
  <2> QED
    BY <2>1, <2>2
<1> QED
  BY <1>4, <1>5 DEF OneCallEach

(***************************************************************************)
(* Each object is destroyed once, by one call of destroy, however the      *)
(* objects of a cascade refer to each other; the calls are as deep as      *)
(* there are objects dying, and no deeper.                                 *)
(***************************************************************************)
THEOREM DestroyedOnce == Spec => []OneCallEach
<1>1. Init => OneCallEach
  BY DEF Init, OneCallEach
<1>2. IInv /\ OneCallEach /\ [Next]_vars => OneCallEach'
  <2> SUFFICES ASSUME IInv, OneCallEach, [Next]_vars PROVE OneCallEach'
    OBVIOUS
  <2>1. ASSUME NEW o \in Objects, NEW h \in Handles, NEW g \in Givable(ptr), New(o, h, g)
        PROVE  OneCallEach'
    <3>1. /\ stack = <<>> /\ stack' = <<>> /\ status' = [status EXCEPT ![o] = "live"]
          /\ status \in [Objects -> {"free", "live", "dying"}]
      BY <2>1 DEF New, ClientRuns, IInv, TypeOK, HeapTypeOK
    <3> QED
      BY <3>1 DEF OneCallEach
  <2>2. ASSUME NEW s \in Slots, NEW h \in Handles, Retain(s, h)
        PROVE  OneCallEach'
    <3>1. status' = status /\ stack' = stack
      BY <2>2 DEF Retain
    <3> QED
      BY <3>1 DEF OneCallEach
  <2>3. ASSUME NEW h \in Handles, Drop(h)
        PROVE  OneCallEach'
    BY <2>3, EnterReleaseOnce DEF Drop, Slots
  <2>4. ASSUME NEW f \in Fields, DestroyField(f)
        PROVE  OneCallEach'
    <3>1. <<Head(stack), f>> \in Slots
      BY <2>4, ActionSlots DEF IInv
    <3> QED
      BY <2>4, <3>1, EnterReleaseOnce DEF DestroyField
  <2>5. CASE Free
    BY <2>5, FreeOnce
  <2>6. CASE UNCHANGED vars
    BY <2>6 DEF vars, OneCallEach
  <2> QED
    BY <2>1, <2>2, <2>3, <2>4, <2>5, <2>6
       DEF Next, Construct, DupRef, DropRef, ReleaseRun
<1> QED
  BY <1>1, <1>2, Invariance, PTL DEF Spec
=============================================================================
