------------------------------ MODULE MCSqlBus ------------------------------
(* Instances of SqlBus for TLC: two nodes whose clocks differ.             *)
EXTENDS SqlBus

CONSTANTS n1, n2

\* The first node publishes every message.
FirstPublishes == [m \in Messages |-> n1]

\* The nodes take turns.
TakeTurns == [m \in Messages |-> IF m % 2 = 1 THEN n1 ELSE n2]

\* The second node's clock runs one unit ahead.
Ahead == [n \in Nodes |-> IF n = n2 THEN 1 ELSE 0]

\* Both clocks agree.
Level == [n \in Nodes |-> 0]
=============================================================================
