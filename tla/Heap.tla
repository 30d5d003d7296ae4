-------------------------------- MODULE Heap --------------------------------
(***************************************************************************)
(* The objects of libpfds in memory, for the modules that follow a whole   *)
(* library call: each operator takes the heap before a call and returns    *)
(* the heap after it, and ret is what the call returns.  RefCount models   *)
(* the same collector one step at a time.                                  *)
(***************************************************************************)
EXTENDS Integers, Sequences, FiniteSets, SequencesExt, TLC

NULL == 0    \* addresses are positive integers

(* kids are the references an object owns, in the order its destroy method *)
(* releases them; val is the data it holds besides.                        *)
Object(kind, kids, val) == [kind |-> kind, rc |-> 1, kids |-> kids, val |-> val]

Kids(h, a) == h.obj[a].kids
Kind(h, a) == h.obj[a].kind

Panic(h, msg) == IF h.fault = "none" THEN [h EXCEPT !.fault = msg] ELSE h
Return(h, r)  == [h EXCEPT !.ret = r]

(* pfds_object_new and the assignment of the fields; the references in     *)
(* kids are taken.                                                         *)
New(h, kind, kids, val) ==
  LET a == CHOOSE a \in 1..Cardinality(DOMAIN h.obj)+1 : a \notin DOMAIN h.obj
  IN  [h EXCEPT !.obj = (a :> Object(kind, kids, val)) @@ @, !.ret = a]

Retain(h, a) ==
  IF a = NULL THEN h
  ELSE IF a \notin DOMAIN h.obj THEN Panic(h, "use after free")
  ELSE [h EXCEPT !.obj[a].rc = @ + 1]

RECURSIVE Release(_, _), ReleaseAll(_, _)
Release(h, a) ==
  IF a = NULL THEN h
  ELSE IF a \notin DOMAIN h.obj THEN Panic(h, "use after free")
  ELSE IF h.obj[a].rc > 1 THEN [h EXCEPT !.obj[a].rc = @ - 1]
  ELSE LET freed == [b \in DOMAIN h.obj \ {a} |-> h.obj[b]]
       IN  ReleaseAll([h EXCEPT !.obj = freed], Kids(h, a))

ReleaseAll(h, as) ==
  IF as = <<>> THEN h ELSE ReleaseAll(Release(h, Head(as)), Tail(as))

RECURSIVE RetainAll(_, _)
RetainAll(h, as) ==
  IF as = <<>> THEN h ELSE RetainAll(Retain(h, Head(as)), Tail(as))

(* pfds_cmp of two boxed numbers.                                          *)
ElementCmp(h, a, b) ==
  LET x == h.obj[a].val
      y == h.obj[b].val
  IN  CASE x < y -> "LT" [] x = y -> "EQ" [] x > y -> "GT"

(* The usual unpacking of an object that is taken: its fields are retained *)
(* and the object is released.                                             *)
Unpack(h, a, fields) == Release(RetainAll(h, fields), a)
-----------------------------------------------------------------------------
(* The numbers the addresses get when they are counted in the order in     *)
(* which they are first reached from todo; at numbers the ones before.     *)
RECURSIVE Trace(_, _, _)
Trace(obj, todo, at) ==
  IF todo = <<>> THEN at
  ELSE IF Head(todo) = NULL \/ Head(todo) \in DOMAIN at
       THEN Trace(obj, Tail(todo), at)
  ELSE Trace(obj, obj[Head(todo)].kids \o Tail(todo),
             at @@ (Head(todo) :> Cardinality(DOMAIN at) + 1))

(* The objects of obj under the numbers at.                                *)
Renumber(obj, at) ==
  LET from == AntiFunction(at)
      move(ks) == [i \in DOMAIN ks |-> IF ks[i] = NULL THEN NULL ELSE at[ks[i]]]
  IN  [n \in DOMAIN from |-> [obj[from[n]] EXCEPT !.kids = move(@)]]

(* The fields of the objects of the heap, and how many of them hold a.     *)
OwnedFields(h) == UNION {{b} \X DOMAIN Kids(h, b) : b \in DOMAIN h.obj}
OwnedRefs(h, a) == Cardinality({s \in OwnedFields(h) : Kids(h, s[1])[s[2]] = a})
=============================================================================
