-------------------------- MODULE PersistentLists --------------------------
(***************************************************************************)
(* What the sequences of libpfds do for a client: variables that hold      *)
(* immutable sequences.  A call takes the sequence of a variable and gives *)
(* a new one back to it; no call on one variable changes what another one  *)
(* holds.                                                                  *)
(*                                                                         *)
(* A split, popFront or popBack that finds no element takes the sequence   *)
(* as well.  That is what the code and the gc tests do; the comments of    *)
(* pfds-sequence.h leave it to the caller then.                            *)
(***************************************************************************)
EXTENDS Integers, Sequences, SequencesExt

CONSTANTS Vars, Elems, None

VARIABLES
  val,      \* the sequence each variable holds, or None
  call,     \* the call in progress, <<operation, arguments>>, or <<>>
  stopped   \* an index out of bounds stopped the program

Init == val = [v \in Vars |-> None] /\ call = <<>> /\ stopped = FALSE

Request == call = <<>> /\ call' # <<>> /\ UNCHANGED <<val, stopped>>

(* The call c returns; variable v then holds s.                            *)
Returns(c)    == call = c /\ call' = <<>> /\ UNCHANGED stopped
Becomes(v, s) == val' = [val EXCEPT ![v] = s]

(* fromArray; mempty and singleton are fromArray of 0 and 1 elements.      *)
Make(v) ==
  /\ call # <<>> /\ call[1] = "fromArray" /\ call[2] = v
  /\ Returns(call) /\ val[v] = None /\ Becomes(v, call[3])

Dup(v, w) == Returns(<<"dup", v, w>>)  /\ val[w] = None /\ Becomes(w, val[v])
Drop(v)   == Returns(<<"drop", v>>)    /\ Becomes(v, None)

PushFront(v, x) == Returns(<<"pushFront", v, x>>) /\ Becomes(v, <<x>> \o val[v])
PushBack(v, x)  == Returns(<<"pushBack", v, x>>)  /\ Becomes(v, Append(val[v], x))
ReverseOf(v)    == Returns(<<"reverse", v>>)      /\ Becomes(v, Reverse(val[v]))

(* mappend, or concat of two sequences.                                    *)
Mappend(v, w) ==
  /\ \E op \in {"mappend", "concat"} : Returns(<<op, v, w>>)
  /\ v # w
  /\ val' = [val EXCEPT ![v] = @ \o val[w], ![w] = None]

(* Positions count from 0.  Without an element at n, split consumes the    *)
(* sequence; deleteAt does as well and gives NULL, or stops the program:   *)
(* the implementations differ.                                             *)
Split(v, w, n) ==
  /\ Returns(<<"split", v, w, n>>) /\ val[w] = None
  /\ val' = IF n < Len(val[v])
            THEN [val EXCEPT ![v] = SubSeq(@, 1, n),
                             ![w] = SubSeq(val[v], n+2, Len(val[v]))]
            ELSE [val EXCEPT ![v] = None]

DeleteAt(v, n) ==
  /\ Returns(<<"deleteAt", v, n>>)
  /\ Becomes(v, IF n < Len(val[v]) THEN RemoveAt(val[v], n+1) ELSE None)

PopFront(v) ==
  /\ Returns(<<"popFront", v>>)
  /\ Becomes(v, IF val[v] = <<>> THEN None ELSE Tail(val[v]))
PopBack(v) ==
  /\ Returns(<<"popBack", v>>)
  /\ Becomes(v, IF val[v] = <<>> THEN None ELSE Front(val[v]))

InsertBefore(v, n, x) ==
  /\ Returns(<<"insertBefore", v, n, x>>) /\ n <= Len(val[v])
  /\ Becomes(v, InsertAt(val[v], n+1, x))
(* After the element in position n, which there must be.                   *)
InsertAfter(v, n, x) ==
  /\ Returns(<<"insertAfter", v, n, x>>) /\ n < Len(val[v])
  /\ Becomes(v, InsertAt(val[v], n+2, x))
UpdateAt(v, n, x) ==
  /\ Returns(<<"updateAt", v, n, x>>) /\ n < Len(val[v])
  /\ Becomes(v, [val[v] EXCEPT ![n+1] = x])

(* Only an index out of bounds stops the program.                          *)
OutOfBounds ==
  /\ call # <<>> /\ call[2] \in Vars /\ val[call[2]] # None
  /\ LET len == Len(val[call[2]]) IN
       \/ call[1] = "insertBefore" /\ call[3] > len
       \/ call[1] \in {"insertAfter", "updateAt", "deleteAt"} /\ call[3] >= len
  /\ stopped' = TRUE /\ UNCHANGED <<val, call>>

Next ==
  /\ ~ stopped
  /\ \/ Request \/ OutOfBounds
     \/ \E v \in Vars : Make(v) \/ Drop(v) \/ ReverseOf(v) \/ PopFront(v) \/ PopBack(v)
     \/ \E v, w \in Vars : Dup(v, w) \/ Mappend(v, w)
     \/ \E v \in Vars, x \in Elems : PushFront(v, x) \/ PushBack(v, x)
     \/ \E v, w \in Vars : call # <<>> /\ Split(v, w, call[Len(call)])
     \/ \E v \in Vars : call # <<>> /\ DeleteAt(v, call[Len(call)])
     \/ \E v \in Vars, x \in Elems :
          /\ Len(call) = 4
          /\ \/ InsertBefore(v, call[3], x) \/ InsertAfter(v, call[3], x)
             \/ UpdateAt(v, call[3], x)

Spec == Init /\ [][Next]_<<val, call, stopped>>
=============================================================================
