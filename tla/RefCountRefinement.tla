------------------------- MODULE RefCountRefinement -------------------------
(***************************************************************************)
(* Proof that the collector implements the store of immutable objects, for *)
(* every set of objects, fields and handles and every value of INT_MAX.    *)
(***************************************************************************)
EXTENDS RefCountProofs

References == [Slots -> Objects \cup {NULL}]

-----------------------------------------------------------------------------
(* What can be reached and what can be seen.                               *)

(* Reach(p) is the least of the closed sets of objects.                    *)
LEMMA ReachIsLeast ==
  ASSUME NEW p \in References
  PROVE  /\ Reach(p) \in SUBSET Objects
         /\ Closed(p, Reach(p))
         /\ \A C \in SUBSET Objects : Closed(p, C) => Reach(p) \subseteq C
<1>1. \A h \in Handles : h \in Slots
  BY DEF Slots
<1>2. \A s \in Reach(p) \X Fields : s \in Slots
  BY DEF Reach, Slots, FieldSlots
<1>3. \A s \in Slots : p[s] # NULL => p[s] \in Objects
  BY DEF References
<1>4. ASSUME NEW h \in Handles, p[h] # NULL
      PROVE  p[h] \in Reach(p)
  <2>1. p[h] \in Objects
    BY <1>1, <1>3, <1>4
  <2> QED
    BY <1>4, <2>1 DEF Reach, Closed
<1>5. ASSUME NEW s \in Reach(p) \X Fields, p[s] # NULL
      PROVE  p[s] \in Reach(p)
  <2>1. p[s] \in Objects
    BY <1>2, <1>3, <1>5
  <2>2. ASSUME NEW C \in SUBSET Objects, Closed(p, C)
        PROVE  p[s] \in C
    <3>1. s \in C \X Fields
      BY <2>2 DEF Reach
    <3> QED
      BY <1>5, <2>2, <3>1 DEF Closed
  <2> QED
    BY <2>1, <2>2 DEF Reach
<1> QED
  BY <1>4, <1>5 DEF Reach, Closed

(* What can be reached depends on the handles and the fields of what can   *)
(* be reached, and on nothing else.                                        *)
LEMMA ReachDepends ==
  ASSUME NEW p \in References, NEW q \in References,
         \A h \in Handles : q[h] = p[h],
         \A s \in Reach(p) \X Fields : q[s] = p[s]
  PROVE  Reach(q) = Reach(p)
<1>1. Reach(q) \subseteq Reach(p)
  <2>1. Closed(q, Reach(p)) /\ Reach(p) \in SUBSET Objects
    BY ReachIsLeast DEF Closed
  <2> QED
    BY <2>1, ReachIsLeast
<1>2. Reach(p) \subseteq Reach(q)
  <2> DEFINE C == Reach(q) \cap Reach(p)
  <2>1. C \in SUBSET Objects
    BY ReachIsLeast
  <2>2. Closed(p, C)
    <3>1. Closed(q, Reach(q)) /\ Closed(p, Reach(p))
      BY ReachIsLeast
    <3>2. \A h \in Handles : p[h] # NULL => p[h] \in C
      BY <3>1 DEF Closed
    <3>3. \A s \in C \X Fields : p[s] # NULL => p[s] \in C
      <4>1. \A s \in C \X Fields : s \in Reach(p) \X Fields /\ s \in Reach(q) \X Fields
        OBVIOUS
      <4> QED
        BY <3>1, <4>1 DEF Closed
    <3> QED
      BY <3>2, <3>3 DEF Closed
  <2> QED
    BY <2>1, <2>2, ReachIsLeast
<1> QED
  BY <1>1, <1>2

(* The same of what can be seen.                                           *)
LEMMA VisibleDepends ==
  ASSUME NEW p \in References, NEW q \in References,
         \A h \in Handles : q[h] = p[h],
         \A s \in Reach(p) \X Fields : q[s] = p[s]
  PROVE  Visible(q) = Visible(p)
<1>1. Reach(q) = Reach(p)
  BY ReachDepends
<1>2. ASSUME NEW s \in Slots, s \in Handles \/ s[1] \in Reach(p)
      PROVE  q[s] = p[s]
  <2>1. s \notin Handles => s \in Reach(p) \X Fields
    BY <1>2 DEF Slots, FieldSlots
  <2> QED
    BY <2>1
<1> QED
  BY <1>1, <1>2 DEF Visible

(* A client sees all of its handles.                                       *)
LEMMA HandlesVisible ==
  ASSUME NEW p, NEW h \in Handles
  PROVE  Visible(p)[h] = p[h]
BY DEF Visible, Slots

-----------------------------------------------------------------------------
(* What the collector keeps is what can be seen.                           *)

(* Only live objects can be reached, during a cascade of releases too.     *)
LEMMA ReachableIsLive ==
  ASSUME IInv
  PROVE  ptr \in References /\ Reach(ptr) \subseteq With("live")
<1>1. ptr \in References
  BY DEF IInv, TypeOK, HeapTypeOK, References
<1>2. \A s \in Slots : ptr[s] # NULL => ptr[s] \in With("live")
  BY ReferencedIsLive DEF With
<1>3. Closed(ptr, With("live")) /\ With("live") \in SUBSET Objects
  BY <1>2 DEF Closed, Slots, FieldSlots, With
<1> QED
  BY <1>1, <1>3, ReachIsLeast

(* When no object is being destroyed the client sees every reference.      *)
LEMMA AllIsVisible == IInv /\ stack = <<>> => Visible(ptr) = ptr
<1> SUFFICES ASSUME IInv, stack = <<>> PROVE Visible(ptr) = ptr
  OBVIOUS
<1>1. ptr \in References
  BY DEF IInv, TypeOK, HeapTypeOK, References
<1>2. ASSUME NEW s \in Slots, s \notin Handles, s[1] \notin Reach(ptr)
      PROVE  ptr[s] = NULL
  <2>1. PICK o \in Objects, f \in Fields : s = <<o, f>>
    BY <1>2 DEF Slots, FieldSlots
  <2>2. status[o] # "live"
    BY <1>2, <2>1, LiveIsReachable DEF With
  <2>3. status[o] # "dying"
    BY DEF IInv, DyingOnStack
  <2>4. status[o] = "free"
    BY <2>2, <2>3 DEF IInv, TypeOK, HeapTypeOK
  <2> QED
    BY <2>1, <2>4 DEF IInv, FreeOwnsNothing
<1> QED
  BY <1>1, <1>2 DEF Visible, References

(* The object whose destroy method runs is not live.                       *)
LEMMA DyingHead ==
  ASSUME IInv, stack # <<>>
  PROVE  Head(stack) \in Objects /\ status[Head(stack)] # "live"
<1>1. stack \in Seq(Objects)
  BY DEF IInv, TypeOK, ControlTypeOK
<1>2. 1 \in 1..Len(stack) /\ stack[1] = Head(stack)
  BY <1>1
<1> QED
  BY <1>1, <1>2 DEF IInv, DyingOnStack

(* The same after a step.                                                  *)
LEMMA AllIsVisibleNext == (IInv /\ stack = <<>> => Visible(ptr) = ptr)'
BY AllIsVisible, PTL

-----------------------------------------------------------------------------
(* Every step of the collector is one of the store, or changes nothing     *)
(* that the client sees: one lemma per kind of step.                       *)

(* The store and the collector speak of the same graph of objects.         *)
LEMMA SameGraph ==
  /\ Ideal!Slots = Slots
  /\ \A p : /\ Ideal!Reach(p) = Reach(p)
             /\ Ideal!Visible(p) = Visible(p)
             /\ Ideal!Givable(p) = Givable(p)
             /\ \A s : Ideal!Readable(p, s) <=> Readable(p, s)
  /\ \A g : Ideal!Given(g) = Given(g)
  /\ \A p, o, h, g : Ideal!Built(p, o, h, g) = Built(p, o, h, g)
<1>1. Ideal!Slots = Slots
  BY DEF Slots, FieldSlots, Ideal!Slots, Ideal!FieldSlots
<1>2. \A p : Ideal!Reach(p) = Reach(p)
  BY DEF Reach, Closed, Ideal!Reach, Ideal!Closed
<1>3. \A p : Ideal!Visible(p) = Visible(p)
  BY <1>1, <1>2 DEF Visible, Ideal!Visible
<1>4. \A p : Ideal!Givable(p) = Givable(p)
  BY DEF Givable, Ideal!Givable
<1>5. \A p, s : Ideal!Readable(p, s) <=> Readable(p, s)
  BY DEF Readable, Ideal!Readable
<1>6. \A g : Ideal!Given(g) = Given(g)
  BY DEF Given, Ideal!Given
<1>7. \A p, o, h, g : Ideal!Built(p, o, h, g) = Built(p, o, h, g)
  BY <1>1, <1>6 DEF Built, Ideal!Built
<1> QED
  BY <1>1, <1>2, <1>3, <1>4, <1>5, <1>6, <1>7

(* A constructor makes an object at an address nothing can reach.          *)
LEMMA NewMakes ==
  ASSUME IInv, IInv', NEW o \in Objects, NEW h \in Handles,
         NEW g \in Givable(ptr), New(o, h, g)
  PROVE  Ideal!Next
<1>1. /\ stack = <<>> /\ stack' = <<>>
      /\ status[o] = "free" /\ ptr' = Built(ptr, o, h, g)
      /\ ptr[h] = NULL \/ h \in Given(g)
  BY DEF New, ClientRuns
<1>2. Visible(ptr) = ptr /\ Visible(ptr)' = ptr'
  BY <1>1, AllIsVisible, AllIsVisibleNext
<1>3. o \notin Reach(ptr)
  BY <1>1, ReachableIsLive DEF With
<1>4. ptr[h] # o
  <2>1. ptr[h] # NULL => status[ptr[h]] = "live"
    BY ReferencedIsLive DEF Slots
  <2> QED
    BY <1>1, <2>1, NullAssumption
<1>5. ptr'[h] = o
  BY <1>1 DEF Built, Slots
<1>6. Ideal!Make(o, h, g)
  BY <1>1, <1>2, <1>3, SameGraph DEF Ideal!Make
<1> QED
  BY <1>2, <1>4, <1>5, <1>6, SameGraph DEF Ideal!Next

(* pfds_retain copies a reference, or panics and copies none.              *)
LEMMA RetainCopies ==
  ASSUME IInv, IInv', NEW s \in Slots, NEW h \in Handles, Retain(s, h)
  PROVE  Ideal!Next \/ UNCHANGED Visible(ptr)
<1>1. /\ stack = <<>> /\ stack' = <<>>
      /\ Readable(ptr, s) /\ ptr[s] # NULL /\ ptr[h] = NULL
  BY DEF Retain, ClientRuns, Readable
<1>2. CASE refcount[ptr[s]] = MaxRef
  <2>1. ptr' = ptr
    BY <1>2 DEF Retain
  <2> QED
    BY <2>1
<1>3. CASE refcount[ptr[s]] # MaxRef
  <2>1. Visible(ptr) = ptr /\ Visible(ptr)' = ptr'
    BY <1>1, AllIsVisible, AllIsVisibleNext
  <2>2. ptr' = [ptr EXCEPT ![h] = ptr[s]]
    BY <1>3 DEF Retain
  <2>3. ptr'[h] # ptr[h]
    BY <1>1, <2>2, ReachableIsLive DEF References, Slots
  <2>4. Ideal!Copy(s, h)
    BY <1>1, <2>1, <2>2, SameGraph DEF Ideal!Copy
  <2> QED
    BY <2>1, <2>3, <2>4, SameGraph DEF Ideal!Next
<1> QED
  BY <1>2, <1>3

(* pfds_release on a handle forgets it, and with it what only it reached.  *)
LEMMA DropForgets ==
  ASSUME IInv, NEW h \in Handles, Drop(h)
  PROVE  Ideal!Next
<1>1. stack = <<>> /\ ptr[h] # NULL /\ ptr' = [ptr EXCEPT ![h] = NULL]
  BY DEF Drop, ClientRuns, EnterRelease
<1>2. Visible(ptr) = ptr
  BY <1>1, AllIsVisible
<1>3. Ideal!Forget(h)
  BY <1>1, <1>2, SameGraph DEF Ideal!Forget
<1>4. Visible(ptr')[h] = NULL
  BY <1>1, HandlesVisible, ReachableIsLive DEF References, Slots
<1> QED
  BY <1>1, <1>2, <1>3, <1>4 DEF Ideal!Next

(* What a destroy method releases was out of reach before it began.        *)
LEMMA DestroyFieldUnseen ==
  ASSUME IInv, NEW f \in Fields, DestroyField(f)
  PROVE  UNCHANGED Visible(ptr)
<1> DEFINE o == Head(stack)
<1>1. stack # <<>> /\ ptr' = [ptr EXCEPT ![<<o, f>>] = NULL]
  BY DEF DestroyField, EnterRelease
<1>2. o \in Objects /\ status[o] # "live"
  BY <1>1, DyingHead
<1>3. o \notin Reach(ptr)
  BY <1>2, ReachableIsLive DEF With
<1>4. <<o, f>> \in FieldSlots /\ <<o, f>> \notin Handles
  BY <1>2, HandleAssumption DEF FieldSlots
<1>5. ptr \in References /\ ptr' \in References
  BY <1>1, ReachableIsLive DEF References
<1>6. /\ \A k \in Handles : ptr'[k] = ptr[k]
      /\ \A s \in Reach(ptr) \X Fields : ptr'[s] = ptr[s]
  <2>1. \A s \in Slots : s # <<o, f>> => ptr'[s] = ptr[s]
    BY <1>1, <1>5 DEF References
  <2>2. \A s \in Reach(ptr) \X Fields : s \in Slots /\ s # <<o, f>>
    BY <1>3 DEF Reach, Slots, FieldSlots
  <2> QED
    BY <1>4, <2>1, <2>2 DEF Slots
<1> QED
  BY <1>5, <1>6, VisibleDepends

LEMMA StepRefines ==
  ASSUME IInv, IInv', [Next]_vars
  PROVE  [Ideal!Next]_(Visible(ptr))
<1>1. ASSUME NEW o \in Objects, NEW h \in Handles, NEW g \in Givable(ptr),
             New(o, h, g)
      PROVE  Ideal!Next
  BY <1>1, NewMakes
<1>2. ASSUME NEW s \in Slots, NEW h \in Handles, Retain(s, h)
      PROVE  Ideal!Next \/ UNCHANGED Visible(ptr)
  BY <1>2, RetainCopies
<1>3. ASSUME NEW h \in Handles, Drop(h)
      PROVE  Ideal!Next
  BY <1>3, DropForgets
<1>4. ASSUME NEW f \in Fields, DestroyField(f)
      PROVE  UNCHANGED Visible(ptr)
  BY <1>4, DestroyFieldUnseen
<1>5. CASE Free
  <2>1. ptr' = ptr
    BY <1>5 DEF Free
  <2> QED
    BY <2>1
<1>6. CASE UNCHANGED vars
  <2>1. ptr' = ptr
    BY <1>6 DEF vars
  <2> QED
    BY <2>1
<1> QED
  BY <1>1, <1>2, <1>3, <1>4, <1>5, <1>6
     DEF Next, Construct, DupRef, DropRef, ReleaseRun

(***************************************************************************)
(* The collector implements the store: whatever the client shares and      *)
(* drops, in whatever order destroy methods release their fields           *)
(* (pfds_object_release), what it sees changes by its own calls only.      *)
(***************************************************************************)
THEOREM Refinement == Spec => ImplementsStore
<1>1. Init => Ideal!Init
  BY SameGraph DEF Init, Ideal!Init, Visible
<1>2. IInv /\ IInv' /\ [Next]_vars => [Ideal!Next]_(Visible(ptr))
  BY StepRefines
<1> QED
  BY <1>1, <1>2, Invariance, PTL DEF Spec, ImplementsStore, Ideal!Spec

-----------------------------------------------------------------------------
(***************************************************************************)
(* What makes a data structure persistent: no step changes an object that  *)
(* can be reached when it is taken, whoever else drops what they share     *)
(* with it and however deep the cascade of releases that follows.          *)
(***************************************************************************)
Persistent == [][\A s \in Reach(ptr) \X Fields : ptr'[s] = ptr[s]]_vars

(* The fields of an object are written before the client can reach it and  *)
(* released after it no longer can (pfds_object_new, pfds_object_release). *)
THEOREM Persistence == Spec => Persistent
<1>1. IInv /\ [Next]_vars => \A s \in Reach(ptr) \X Fields : ptr'[s] = ptr[s]
  <2> SUFFICES ASSUME IInv, [Next]_vars, NEW s \in Reach(ptr) \X Fields
               PROVE  ptr'[s] = ptr[s]
    OBVIOUS
  <2>0. /\ ptr \in References
        /\ s \in Slots /\ s \notin Handles
        /\ s[1] \in Objects /\ status[s[1]] = "live"
    BY ReachableIsLive, HandleAssumption DEF With, Slots, FieldSlots
  <2>1. ASSUME NEW o \in Objects, NEW h \in Handles, NEW g \in Givable(ptr),
               New(o, h, g)
        PROVE  ptr'[s] = ptr[s]
    <3>1. s[1] # o
      BY <2>0, <2>1 DEF New
    <3>2. s # h /\ s \notin Given(g)
      BY <2>0 DEF Given, Givable
    <3> QED
      BY <2>0, <2>1, <3>1, <3>2 DEF New, Built
  <2>2. ASSUME NEW t \in Slots, NEW h \in Handles, Retain(t, h)
        PROVE  ptr'[s] = ptr[s]
    <3>1. ptr' = ptr \/ ptr' = [ptr EXCEPT ![h] = ptr[t]]
      BY <2>2 DEF Retain
    <3>2. s # h
      BY <2>0
    <3> QED
      BY <2>0, <3>1, <3>2 DEF References
  <2>3. ASSUME NEW h \in Handles, Drop(h)
        PROVE  ptr'[s] = ptr[s]
    <3>1. ptr' = [ptr EXCEPT ![h] = NULL] /\ s # h
      BY <2>0, <2>3 DEF Drop, EnterRelease
    <3> QED
      BY <2>0, <3>1 DEF References
  <2>4. ASSUME NEW f \in Fields, DestroyField(f)
        PROVE  ptr'[s] = ptr[s]
    <3>1. stack # <<>> /\ ptr' = [ptr EXCEPT ![<<Head(stack), f>>] = NULL]
      BY <2>4 DEF DestroyField, EnterRelease
    <3>2. status[Head(stack)] # "live"
      BY <3>1, DyingHead
    <3>3. s # <<Head(stack), f>>
      BY <2>0, <3>2
    <3> QED
      BY <2>0, <3>1, <3>3
  <2>5. CASE Free
    BY <2>5 DEF Free
  <2>6. CASE UNCHANGED vars
    BY <2>6 DEF vars
  <2> QED
    BY <2>1, <2>2, <2>3, <2>4, <2>5, <2>6
       DEF Next, Construct, DupRef, DropRef, ReleaseRun
<1> QED
  BY <1>1, Invariance, PTL DEF Spec, Persistent
=============================================================================
