---------------------------- MODULE AtLeastOnce -----------------------------
(***************************************************************************)
(* What the dispatchers promise about the events of outbox_events, without *)
(* claims, batches, clocks or processes.                                   *)
(*                                                                         *)
(* An event is sent only once it is committed, any number of times, and    *)
(* counts as published only once it has been sent.  It stays committed and *)
(* published; every committed event is published in the end.               *)
(***************************************************************************)
EXTENDS Naturals

CONSTANT Events

VARIABLES
    committed,  \* events some transaction has inserted
    copies,     \* messages of each event in the Stream: none, one, more (2)
    published   \* events marked as published

vars == <<committed, copies, published>>

Init ==
    /\ committed = {}
    /\ copies = [e \in Events |-> 0]
    /\ published = {}

Commit(e) ==
    /\ e \notin committed
    /\ committed' = committed \cup {e}
    /\ UNCHANGED <<copies, published>>

Send(e) ==
    /\ e \in committed
    /\ copies' = [copies EXCEPT ![e] = IF @ < 2 THEN @ + 1 ELSE @]
    /\ UNCHANGED <<committed, published>>

Finish(e) ==
    /\ e \in committed /\ copies[e] > 0
    /\ e \notin published
    /\ published' = published \cup {e}
    /\ UNCHANGED <<committed, copies>>

Next == \E e \in Events : Commit(e) \/ Send(e) \/ Finish(e)

Fairness ==
    \A e \in Events : WF_vars(copies[e] = 0 /\ Send(e)) /\ WF_vars(Finish(e))

\* What never goes wrong, without what is done in the end.
Safety == Init /\ [][Next]_vars

Spec == Safety /\ Fairness
=============================================================================
