----------------------------- MODULE AtLeastOnce -----------------------------
(***************************************************************************)
(* What the outbox promises of every publication, and the bus over SQL of  *)
(* every message, whoever delivers it: it is offered to its listener until *)
(* one delivery has succeeded, it is never settled without one, and once   *)
(* settled it stays settled.  A listener may be run again after a success, *)
(* so it must be idempotent.                                               *)
(***************************************************************************)
CONSTANT Items  \* one item per event and listener

VARIABLES
    state,    \* "absent", "pending" or "done"
    accepted  \* the items whose listener has returned without an error

Init ==
    /\ state = [i \in Items |-> "absent"]
    /\ accepted = {}

\* The transaction of the business change commits with its items.
Publish(new) ==
    /\ \A i \in new : state[i] = "absent"
    /\ state' = [i \in Items |-> IF i \in new THEN "pending" ELSE state[i]]
    /\ UNCHANGED accepted

\* A delivery of a published item succeeds, possibly not the first one.
Accept(i) ==
    /\ state[i] # "absent"
    /\ accepted' = accepted \cup {i}
    /\ UNCHANGED state

\* The item is settled.
Settle(i) ==
    /\ state[i] = "pending"
    /\ i \in accepted
    /\ state' = [state EXCEPT ![i] = "done"]
    /\ UNCHANGED accepted

Next ==
    \/ \E new \in SUBSET Items : Publish(new)
    \/ \E i \in Items : Accept(i) \/ Settle(i)

Spec == Init /\ [][Next]_<<state, accepted>>
=============================================================================
