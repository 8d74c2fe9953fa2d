--------------------------- MODULE MCRegistration ---------------------------
(* Instances of Registration for TLC.                                      *)
EXTENDS Registration

CONSTANTS n1, n2, m1

Competing == [mode |-> "COMPETING", ordering |-> "UNORDERED"]

Ordered == [mode |-> "COMPETING", ordering |-> "FIFO"]

Broadcast == [mode |-> "BROADCAST", ordering |-> "UNORDERED"]

\* Two nodes that are not configured alike; no upkeep, no time.
Conflicting(detaches, disturbances) ==
    [hosts |-> {n1, n2}, wants |-> {Competing, Ordered, Broadcast}, maintainers |-> {},
     messages |-> {}, maxDetach |-> detaches, maxFaults |-> disturbances, maxTime |-> 0]

\* One host of a listener whose messages another node looks after.
Maintained(want, disturbances, time) ==
    [hosts |-> {n1}, wants |-> {want}, maintainers |-> {n2}, messages |-> {m1},
     maxDetach |-> 0, maxFaults |-> disturbances, maxTime |-> time]

MCClusters == {Conflicting(2, 3), Maintained(Broadcast, 0, 4),
               Maintained(Broadcast, 1, 3), Maintained(Competing, 0, 3)}

DetachClusters == {Conflicting(1, 0)}

LongClusters == {Maintained(Broadcast, 0, 5)}
=============================================================================
