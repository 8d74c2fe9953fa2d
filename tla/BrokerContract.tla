--------------------------- MODULE BrokerContract ---------------------------
(***************************************************************************)
(* The Broker interface of package eventbus, seen from one consumer of an  *)
(* engine within one process: every published event is handled exactly     *)
(* once, with a bounded budget of attempts, after which it is parked until *)
(* an operator grants it a fresh one.  Only a stopped engine gives up      *)
(* events, and never one that its handler is working on.                   *)
(***************************************************************************)
EXTENDS Naturals

CONSTANTS
    Events,   \* the events the consumer matches
    Attempts  \* MaximumAttempts

VARIABLES
    ordering, \* of the consumer, "none" before it subscribes
    place,    \* where an event is
    spent,    \* the attempts of its current budget
    stopped   \* the engine is stopped

Init ==
    /\ ordering = "none"
    /\ place = [e \in Events |-> "unpublished"]
    /\ spent = [e \in Events |-> 0]
    /\ stopped = FALSE

Move(e, from, to) == place[e] = from /\ place' = [place EXCEPT ![e] = to]

\* Subscribe registers the consumer.
Subscribe(o) == ordering = "none" /\ ordering' = o /\ UNCHANGED <<place, spent, stopped>>

\* Publish hands the event to the consumer's queue.
Publish(e) == ordering # "none" /\ Move(e, "unpublished", "pending") /\ UNCHANGED <<ordering, spent, stopped>>

\* The event is being handled, or has failed and waits for its next attempt.
Retrying(e) == place[e] = "handling" \/ (place[e] = "pending" /\ spent[e] > 0)

\* Handle is called.  Under FIFO an event blocks the others while it retries.
Attempt(e) ==
    /\ spent[e] < Attempts
    /\ ordering = "FIFO" => \A x \in Events \ {e} : ~Retrying(x)
    /\ Move(e, "pending", "handling")
    /\ spent' = [spent EXCEPT ![e] = @ + 1]
    /\ UNCHANGED <<ordering, stopped>>

\* Handle returns nil.
Succeed(e) ==
    /\ Move(e, "handling", "handled")
    /\ spent' = [spent EXCEPT ![e] = 0]
    /\ UNCHANGED <<ordering, stopped>>

\* Handle fails, and a retry is left.
Fail(e) ==
    /\ spent[e] < Attempts
    /\ Move(e, "handling", "pending")
    /\ UNCHANGED <<ordering, spent, stopped>>

\* Handle fails for the last time: a dead letter.
Park(e) ==
    /\ spent[e] = Attempts
    /\ Move(e, "handling", "parked")
    /\ UNCHANGED <<ordering, spent, stopped>>

\* Resubmit gives a dead letter a fresh attempt budget.
Resubmit(e) ==
    /\ Move(e, "parked", "pending")
    /\ spent' = [spent EXCEPT ![e] = 0]
    /\ UNCHANGED <<ordering, stopped>>

Stop == ~stopped /\ stopped' = TRUE /\ UNCHANGED <<ordering, place, spent>>

\* The lifetime of the process ends for an event that is waiting.
GiveUp(e) ==
    /\ stopped
    /\ Move(e, "pending", "given up")
    /\ spent' = [spent EXCEPT ![e] = 0]
    /\ UNCHANGED <<ordering, stopped>>

Next ==
    \/ Stop
    \/ \E o \in {"FIFO", "UNORDERED"} : Subscribe(o)
    \/ \E e \in Events :
         /\ place'[e] # place[e]
         /\ \/ Publish(e) \/ Attempt(e) \/ Succeed(e) \/ Fail(e) \/ Park(e)
            \/ Resubmit(e) \/ GiveUp(e)

Spec == Init /\ [][Next]_<<ordering, place, spent, stopped>>
=============================================================================
