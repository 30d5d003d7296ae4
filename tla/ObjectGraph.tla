----------------------------- MODULE ObjectGraph -----------------------------
(***************************************************************************)
(* References between the objects of libpfds and the variables of a        *)
(* client.  A reference lives in a slot: a variable of the client (a       *)
(* handle) or a field of an object.  p, below, gives the reference each    *)
(* slot holds, or NULL.                                                    *)
(***************************************************************************)
EXTENDS Integers, FiniteSets, Sequences

CONSTANTS
  Objects,    \* the addresses malloc can return
  Fields,     \* the fields of an object that own a reference
  Handles,    \* the variables of the client
  NULL

FieldSlots == Objects \X Fields
Slots      == FieldSlots \cup Handles

ASSUME FiniteAssumption ==
  /\ IsFiniteSet(Objects) /\ IsFiniteSet(Fields) /\ IsFiniteSet(Handles)
ASSUME NullAssumption   == NULL \notin Objects \cup Handles
ASSUME HandleAssumption == Handles \cap FieldSlots = {}

(***************************************************************************)
(* The objects reachable from the handles: those in every set of objects   *)
(* that holds what the handles refer to and is closed under the fields.    *)
(***************************************************************************)
Closed(p, C) ==
  /\ \A h \in Handles : p[h] # NULL => p[h] \in C
  /\ \A s \in C \X Fields : p[s] # NULL => p[s] \in C

Reach(p) == {o \in Objects : \A C \in SUBSET Objects : Closed(p, C) => o \in C}

(* The slots as the client sees them.                                      *)
Visible(p) ==
  [s \in Slots |-> IF s \in Handles \/ s[1] \in Reach(p) THEN p[s] ELSE NULL]

(* A reference the client may read: a handle, or a field of an object that *)
(* a handle holds.                                                         *)
Readable(p, s) ==
  /\ p[s] # NULL
  /\ s \in Handles \/ \E h \in Handles : p[h] # NULL /\ s \in {p[h]} \X Fields

(***************************************************************************)
(* The arguments a constructor takes: g[f] is the handle whose reference   *)
(* moves to field f of the new object (NULL: that field owns nothing).     *)
(***************************************************************************)
Givable(p) ==
  {g \in [Fields -> Handles \cup {NULL}] :
     /\ \A f \in Fields : g[f] # NULL => p[g[f]] # NULL
     /\ \A e, f \in Fields : g[e] = g[f] /\ e # f => g[e] = NULL}

Given(g) == {g[f] : f \in Fields} \ {NULL}

(* The slots after object o is made from g and given to handle h.          *)
Built(p, o, h, g) ==
  [s \in Slots |->
     IF s = h THEN o
     ELSE IF s \in Given(g) THEN NULL
     ELSE IF s \in {o} \X Fields
          THEN IF g[s[2]] = NULL THEN NULL ELSE p[g[s[2]]]
     ELSE p[s]]
=============================================================================
