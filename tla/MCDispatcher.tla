---------------------------- MODULE MCDispatcher ----------------------------
(* Instances of Dispatcher for TLC.                                        *)
EXTENDS Dispatcher

CONSTANTS n1, n2, l1

OneListener == <<l1>>

\* A queue of two messages, or one message and more trouble.
MCDeployments ==
    {[ordering |-> [l \in {l1} |-> "FIFO"], published |-> 2, faults |-> 1],
     [ordering |-> [l \in {l1} |-> "UNORDERED"], published |-> 1, faults |-> 2]}
=============================================================================
