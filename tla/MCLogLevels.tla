---------------------------- MODULE MCLogLevels ----------------------------
(* Instances of LogLevels for TLC.  Text order: "/event " < "ROOT" <       *)
(* "event" < "event.Bus" < "eventbus/" < "sql".                            *)
EXTENDS LogLevels

Padded == <<"/", "event", " ">>
RootSpelling == <<"ROOT">>
Event == <<"event">>
Bus == <<"event", ".", "Bus">>
Sibling == <<"event", "bus", "/">>
Sql == <<"sql">>

MCSpelled == <<Padded, RootSpelling, Event, Bus, Sibling, Sql>>

MCTokens == {"debug", "warn"}

MCMemberships == {{}, {Event, RootSpelling}, {Bus, Sibling}}

\* A group and a direct level that meet; a group declared empty, and two spellings of
\* one name; two groups that meet; an unknown token; a group of the root.
MCDocuments == {
    [levels |-> [s \in {Sql, Event} |-> IF s = Sql THEN "fatal" ELSE "debug"],
     groups |-> [g \in {Sql} |-> {Event, Bus}]],
    [levels |-> [s \in {Padded, Event, RootSpelling} |->
                    IF s = Padded THEN "warn" ELSE IF s = Event THEN "off" ELSE "debug"],
     groups |-> [g \in {Sql} |-> {}]],
    [levels |-> [s \in {Sibling, Sql} |-> IF s = Sql THEN "warning" ELSE "debug"],
     groups |-> [g \in {Sibling, Sql} |-> IF g = Sql THEN {Bus, Event} ELSE {Bus}]],
    [levels |-> [s \in {Event} |-> "loud"], groups |-> << >>],
    [levels |-> << >>, groups |-> [g \in {RootSpelling} |-> {Event}]] }

\* A group whose member is the name of another group.
NestedDocuments == {
    [levels |-> << >>,
     groups |-> [g \in {Sibling, Sql} |-> IF g = Sql THEN {Sibling} ELSE {Event}]] }
=============================================================================
