-------------------------------- MODULE Store --------------------------------
(***************************************************************************)
(* What the collector of libpfds promises its client, without reference    *)
(* counts: a store of immutable objects.  The client makes objects out of  *)
(* references it gives up, copies references it can read and forgets       *)
(* references.  Nothing else ever changes what it can see: this is what    *)
(* makes a data structure persistent.                                      *)
(***************************************************************************)
EXTENDS ObjectGraph

VARIABLE view   \* the slots the client can see: Visible(view) = view

Init == view = [s \in Slots |-> NULL]

Make(o, h, g) ==
  /\ o \notin Reach(view)
  /\ view[h] = NULL \/ h \in Given(g)
  /\ view' = Built(view, o, h, g)

Copy(s, h) ==
  /\ Readable(view, s)
  /\ view[h] = NULL
  /\ view' = [view EXCEPT ![h] = view[s]]

Forget(h) ==
  /\ view[h] # NULL
  /\ view' = Visible([view EXCEPT ![h] = NULL])

(* Every step is about one handle, and gives it something else to hold.    *)
Next ==
  \E h \in Handles :
    /\ view'[h] # view[h]
    /\ \/ \E o \in Objects \ {view[h]} : \E g \in Givable(view) : view'[h] = o /\ Make(o, h, g)
       \/ \E s \in Slots : Copy(s, h)
       \/ Forget(h)

Spec == Init /\ [][Next]_view
=============================================================================
