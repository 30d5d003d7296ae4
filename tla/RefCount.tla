------------------------------ MODULE RefCount ------------------------------
(***************************************************************************)
(* The reference counting collector of libpfds (src/src/pfds.c, the build  *)
(* configured with PFDS_GC_REFCOUNT) and a client that follows the         *)
(* ownership conventions of src/src/pfds.h: dup, drop, borrow, take, give. *)
(*                                                                         *)
(* pfds_object_release is recursive through the destroy method of the      *)
(* object, so it is modelled one call at a time: the C call stack is       *)
(* "stack", an object whose destroy method runs is "dying", and the fields *)
(* it has not released yet still hold their reference.                     *)
(***************************************************************************)
EXTENDS ObjectGraph

CONSTANT MaxRef   \* INT_MAX: the largest value of the refcount field

ASSUME MaxRefAssumption == MaxRef \in Nat \ {0}

VARIABLES
  status,    \* per address: "free" memory, "live" object, or "dying"
  refcount,  \* the refcount field of each object
  ptr,       \* the reference each slot holds, or NULL
  stack,     \* the objects whose destroy method runs, innermost first
  objbal,    \* global_births - global_deaths
  refbal,    \* global_retaincount - global_releasecount
  fault      \* the panic that stopped the program, or "none"

vars == <<status, refcount, ptr, stack, objbal, refbal, fault>>

Refs(o)        == {s \in Slots : ptr[s] = o}
With(st)       == {o \in Objects : status[o] = st}
ClientRuns     == fault = "none" /\ stack = <<>>

Init ==
  /\ status   = [o \in Objects |-> "free"]
  /\ refcount = [o \in Objects |-> 0]
  /\ ptr      = [s \in Slots |-> NULL]
  /\ stack    = <<>>
  /\ objbal   = 0
  /\ refbal   = 0
  /\ fault    = "none"

(* Mutant: the counter retaincount misses the first reference.             *)
NewUncounted(o, h, g) ==
  /\ ClientRuns
  /\ status[o] = "free"
  /\ ptr[h] = NULL \/ h \in Given(g)
  /\ status'   = [status EXCEPT ![o] = "live"]
  /\ refcount' = [refcount EXCEPT ![o] = 1]
  /\ ptr'      = Built(ptr, o, h, g)
  /\ objbal'   = objbal + 1
  /\ UNCHANGED <<stack, refbal, fault>>

(***************************************************************************)
(* A constructor: pfds_object_new, then the fields are assigned from the   *)
(* arguments it takes; the result is given to handle h, which is empty or  *)
(* was emptied by the call.                                                *)
(***************************************************************************)
New(o, h, g) ==
  /\ ClientRuns
  /\ status[o] = "free"
  /\ ptr[h] = NULL \/ h \in Given(g)
  /\ status'   = [status EXCEPT ![o] = "live"]
  /\ refcount' = [refcount EXCEPT ![o] = 1]
  /\ ptr'      = Built(ptr, o, h, g)
  /\ objbal'   = objbal + 1
  /\ refbal'   = refbal + 1
  /\ UNCHANGED <<stack, fault>>

(* Mutant: the reference is copied and not counted.                        *)
RetainForgotten(s, h) ==
  /\ ClientRuns
  /\ Readable(ptr, s)
  /\ ptr[h] = NULL
  /\ ptr'    = [ptr EXCEPT ![h] = ptr[s]]
  /\ refbal' = refbal + 1
  /\ UNCHANGED <<status, refcount, stack, objbal, fault>>

(***************************************************************************)
(* pfds_retain on a reference the client may read: one of its handles or a *)
(* field of an object it holds (the unpacking code reads a field, retains  *)
(* it and then releases the object).  The new reference goes to handle h.  *)
(***************************************************************************)
Retain(s, h) ==
  /\ ClientRuns
  /\ Readable(ptr, s)
  /\ ptr[h] = NULL
  /\ refbal' = refbal + 1
  /\ IF refcount[ptr[s]] = MaxRef
     THEN /\ fault' = "pfds_object_retain overflow"
          /\ UNCHANGED <<refcount, ptr>>
     ELSE /\ refcount' = [refcount EXCEPT ![ptr[s]] = @ + 1]
          /\ ptr' = [ptr EXCEPT ![h] = ptr[s]]
          /\ UNCHANGED fault
  /\ UNCHANGED <<status, stack, objbal>>

(* Mutant: the object is destroyed one reference too early.                *)
EnterReleaseEarly(s) ==
  LET o == ptr[s] IN
  /\ ptr' = [ptr EXCEPT ![s] = NULL]
  /\ refbal' = refbal - 1
  /\ IF refcount[o] = 0
     THEN /\ fault' = "double release"
          /\ UNCHANGED <<status, refcount, stack, objbal>>
     ELSE /\ refcount' = [refcount EXCEPT ![o] = @ - 1]
          /\ IF refcount[o] - 1 <= 1
             THEN /\ objbal' = objbal - 1
                  /\ status' = [status EXCEPT ![o] = "dying"]
                  /\ stack' = <<o>> \o stack
             ELSE UNCHANGED <<status, stack, objbal>>
          /\ UNCHANGED fault

(***************************************************************************)
(* Entry of pfds_object_release on the reference of slot s, up to the call *)
(* of destroy.                                                             *)
(***************************************************************************)
EnterRelease(s) ==
  LET o == ptr[s] IN
  /\ ptr' = [ptr EXCEPT ![s] = NULL]
  /\ refbal' = refbal - 1
  /\ IF refcount[o] = 0
     THEN /\ fault' = "double release"
          /\ UNCHANGED <<status, refcount, stack, objbal>>
     ELSE /\ refcount' = [refcount EXCEPT ![o] = @ - 1]
          /\ IF refcount[o] - 1 <= 0
             THEN /\ objbal' = objbal - 1
                  /\ status' = [status EXCEPT ![o] = "dying"]
                  /\ stack' = <<o>> \o stack
             ELSE UNCHANGED <<status, stack, objbal>>
          /\ UNCHANGED fault

(* The client drops a reference it owns. *)
Drop(h) ==
  /\ ClientRuns
  /\ ptr[h] # NULL
  /\ EnterRelease(h)

(***************************************************************************)
(* One release in the destroy method of the innermost dying object.  The   *)
(* methods of the library differ in the order they release their fields:   *)
(* any order is allowed.                                                   *)
(***************************************************************************)
DestroyField(f) ==
  /\ fault = "none"
  /\ stack # <<>>
  /\ ptr[<<Head(stack), f>>] # NULL
  /\ EnterRelease(<<Head(stack), f>>)

(* Mutant: the memory is freed before the fields are released.             *)
FreeHastily ==
  /\ fault = "none"
  /\ stack # <<>>
  /\ status' = [status EXCEPT ![Head(stack)] = "free"]
  /\ stack'  = Tail(stack)
  /\ UNCHANGED <<refcount, ptr, objbal, refbal, fault>>

(* Mutant: only the outermost object of a cascade is freed; the call for   *)
(* one inside it does not return.                                          *)
FreeOuterOnly ==
  /\ fault = "none"
  /\ Len(stack) = 1
  /\ \A f \in Fields : ptr[<<Head(stack), f>>] = NULL
  /\ status' = [status EXCEPT ![Head(stack)] = "free"]
  /\ stack'  = Tail(stack)
  /\ UNCHANGED <<refcount, ptr, objbal, refbal, fault>>

(* destroy returns and the memory is freed. *)
Free ==
  /\ fault = "none"
  /\ stack # <<>>
  /\ \A f \in Fields : ptr[<<Head(stack), f>>] = NULL
  /\ status' = [status EXCEPT ![Head(stack)] = "free"]
  /\ stack'  = Tail(stack)
  /\ UNCHANGED <<refcount, ptr, objbal, refbal, fault>>

Construct  == \E o \in Objects, h \in Handles : \E g \in Givable(ptr) : New(o, h, g)
DupRef     == \E s \in Slots, h \in Handles : Retain(s, h)
DropRef    == \E h \in Handles : Drop(h)
ReleaseRun == Free \/ \E f \in Fields : DestroyField(f)

Next == Construct \/ DupRef \/ DropRef \/ ReleaseRun

(* A call of pfds_object_release in progress runs to its end. *)
Spec == Init /\ [][Next]_vars /\ WF_vars(ReleaseRun)
-----------------------------------------------------------------------------
HeapTypeOK ==
  /\ status \in [Objects -> {"free", "live", "dying"}]
  /\ refcount \in [Objects -> 0..MaxRef]
  /\ ptr \in [Slots -> Objects \cup {NULL}]

ControlTypeOK ==
  /\ stack \in Seq(Objects)
  /\ fault \in {"none", "double release", "pfds_object_retain overflow"}

CounterTypeOK == objbal \in Int /\ refbal \in Int

TypeOK == HeapTypeOK /\ ControlTypeOK /\ CounterTypeOK

(***************************************************************************)
(* The refcount of every object is the number of slots that refer to it,   *)
(* at every step of a cascade of releases: no reference is unaccounted     *)
(* for (a leak) and none is counted twice (an early free).                 *)
(***************************************************************************)
ExactCount == \A o \in Objects : refcount[o] = Cardinality(Refs(o))

(* No slot refers to freed memory or to an object already being destroyed. *)
NoDangling == \A s \in Slots : ptr[s] # NULL => status[ptr[s]] = "live"

(***************************************************************************)
(* A client that drops only references it owns never meets the panic       *)
(* "double release", whatever it shares and in whatever order it drops.    *)
(***************************************************************************)
NoDoubleRelease == fault # "double release"

(***************************************************************************)
(* The counters of pfds_getgcinfo mean what the tests use them for         *)
(* (ASSERT_GC_COUNTS): births - deaths is the number of live objects and   *)
(* retains - releases the number of references that exist.                 *)
(***************************************************************************)
GCInfoExact ==
  fault = "none" => /\ objbal = Cardinality(With("live"))
                    /\ refbal = Cardinality({s \in Slots : ptr[s] # NULL})

(***************************************************************************)
(* Fields are assigned at construction only, from objects that exist: in   *)
(* every set of objects some object is referred to by no other of the set  *)
(* (the object graph has no cycle, which reference counting could not      *)
(* collect).                                                               *)
(***************************************************************************)
Acyclic ==
  \A D \in SUBSET Objects :
    D # {} => \E o \in D : \A s \in D \X Fields : ptr[s] # o

(***************************************************************************)
(* Between two calls of the library exactly the objects that the client    *)
(* can reach are allocated: nothing reachable was freed, nothing           *)
(* unreachable is left behind.                                             *)
(***************************************************************************)
NoLeak == ClientRuns => With("live") = Reach(ptr) /\ With("dying") = {}

(***************************************************************************)
(* Why the counts are exact, as an inductive invariant: an object is live  *)
(* exactly when it is counted, freed memory owns nothing, and the objects  *)
(* being destroyed are those on the call stack.                            *)
(***************************************************************************)
LiveIffCounted == \A o \in Objects : status[o] = "live" <=> refcount[o] # 0
FreeOwnsNothing ==
  \A o \in Objects, f \in Fields : status[o] = "free" => ptr[<<o, f>>] = NULL
DyingOnStack ==
  /\ \A i \in 1..Len(stack) : status[stack[i]] # "live"
  /\ \A o \in Objects :
       status[o] = "dying" => \E i \in 1..Len(stack) : stack[i] = o

IInv ==
  /\ TypeOK
  /\ ExactCount
  /\ LiveIffCounted
  /\ FreeOwnsNothing
  /\ DyingOnStack
  /\ Acyclic
  /\ NoDoubleRelease
  /\ GCInfoExact

(***************************************************************************)
(* What is left to do of a cascade of pfds_object_release goes down with   *)
(* each of its steps and no step panics: a field is released once and adds *)
(* at most one call of destroy, which returns once.                        *)
(***************************************************************************)
OwnedFields == {s \in FieldSlots : ptr[s] # NULL}
Work        == 2 * Cardinality(OwnedFields) + Len(stack)
WorkShrinks == [][ReleaseRun => Work' \in 0..Work-1 /\ fault' = "none"]_vars

(***************************************************************************)
(* destroy never runs for an object for which it runs already, and the     *)
(* memory of an object stays its own until it returned: the call stack     *)
(* holds each object that is dying, once.                                  *)
(***************************************************************************)
OneCallEach ==
  /\ \A i, j \in 1..Len(stack) : stack[i] = stack[j] => i = j
  /\ \A o \in Objects : status[o] = "dying" <=> \E i \in 1..Len(stack) : stack[i] = o

(* A call of pfds_object_release returns, however deep the cascade.        *)
ReleaseReturns == stack # <<>> ~> stack = <<>>

(***************************************************************************)
(* The collector implements the store of immutable objects: a cascade of   *)
(* releases never changes what the client can see, and an address is       *)
(* reused only when no reference can reach the object that was there.      *)
(***************************************************************************)
Ideal == INSTANCE Store WITH view <- Visible(ptr)
ImplementsStore == Ideal!Spec
=============================================================================
