------------------------------- MODULE MCConf -------------------------------
(* Instances of Conf for TLC: one scenario per stage of Load.              *)
EXTENDS Placeholders

\* A document by its leaves: every node above them is an object or a list.
Document(leaves) ==
    LET paths == {<<>>} \cup UNION {{SubSeq(p, 1, n) : n \in 0..Len(p)} : p \in DOMAIN leaves}
        Holds(path, steps) == \E p \in DOMAIN leaves :
            Len(p) > Len(path) /\ SubSeq(p, 1, Len(path)) = path /\ p[Len(path) + 1] \in steps
    IN [path \in paths |->
           IF path \in DOMAIN leaves THEN leaves[path]
           ELSE IF Holds(path, {"#0", "#1"}) THEN [list |-> TRUE] ELSE [object |-> TRUE]]

p ++ node == [path \in {p} |-> node]

And(some, other) ==
    [path \in DOMAIN some \cup DOMAIN other |->
        IF path \in DOMAIN some THEN some[path] ELSE other[path]]

EmptyList == [list |-> TRUE]
Number(atom) == [number |-> atom]
Null == [null |-> TRUE]
Text(text) == [text |-> text]
Word1(atom) == Text(Literal(atom))

Reference(name) == <<[key |-> [i \in DOMAIN name |-> [literal |-> name[i]]], default |-> <<>>]>>
OrElse(name, text) == <<[key |-> Reference(name)[1].key, default |-> <<text>>]>>

File(leaves) == [value |-> Document(leaves), rest |-> "none"]
Absent == [absent |-> TRUE]

Source(file, optional) == [file |-> file, optional |-> optional]
Root == [path |-> <<>>, name |-> "", index |-> <<>>, tagged |-> FALSE, embedded |-> FALSE,
         exported |-> TRUE, kind |-> <<"struct">>, cell |-> <<>>]

\* A field under its own name; its cell is the way to it through the structs.
Field(path, cell, kind) ==
    [path |-> path, name |-> path[Len(path)], index |-> <<cell[Len(cell)]>>, tagged |-> FALSE,
     embedded |-> FALSE, exported |-> TRUE, kind |-> kind, cell |-> cell]

NoVariables == [name \in {} |-> 0]

Scenario(sources, contents, environments, type, filled, loads, edits) ==
    [sources |-> sources, contents |-> contents, environments |-> environments,
     type |-> type \cup {Root}, loads |-> loads, edits |-> edits,
     defaults |-> [c \in {f.cell : f \in type \cup {Root}} |->
                     Alone(IF c \in DOMAIN filled THEN filled[c] ELSE [nil |-> TRUE])]]

\* Built-in defaults, an optional file and a required one, loaded twice while the
\* files change.
Server == {Field(<<"server">>, <<0>>, <<"struct">>), Field(<<"server", "host">>, <<0, 0>>, <<"string">>),
           Field(<<"server", "port">>, <<0, 1>>, <<"int">>), Field(<<"tags">>, <<1>>, <<"slice", "string">>)}

Host == <<"server", "host">>
Port == <<"server", "port">>
Tag(index) == <<"tags", index>>

Layers ==
    Scenario(<<Source("embedded", FALSE), Source("local", TRUE), Source("main", FALSE)>>,
        [file \in {"embedded", "local", "main"} |->
            CASE file = "embedded" ->
                   {File(And(And(Host ++ Word1("h1"), Port ++ Number("7")),
                             And(Tag("#0") ++ Word1("a"), Tag("#1") ++ Word1("b"))))}
              [] file = "local" ->
                   {Absent, File(Port ++ Null), File(<<"server">> ++ Word1("flat")),
                    File(<<"tags", "x">> ++ Null),
                    [value |-> Document(<<"tags">> ++ Null), rest |-> "value"]}
              [] OTHER ->
                   {Absent, File(<<>> ++ EmptyList),
                    File(And(<<"$schema">> ++ Word1("s"), Port ++ Number("300"))),
                    [value |-> Document(And(Host ++ Word1("h2"), Tag("#0") ++ Null)),
                     rest |-> "bracket"]}],
        {NoVariables}, Server,
        And(<<0, 1>> ++ [int |-> 1], <<0, 0>> ++ [string |-> <<"h">>]), 2, 1)

\* Three texts that refer to each other, to themselves and to variables.
Texts ==
    {Literal("x"), Reference(<<"b">>), Reference(<<"none">>), Reference(<<"c">>) \o Reference(<<"c">>),
     OrElse(<<"a">>, Literal("y")), OrElse(<<"none">>, Reference(<<"b">>)),
     <<[key |-> Reference(<<"b">>), default |-> <<Literal("z")>>]>>}

References ==
    Scenario(<<Source("main", FALSE)>>,
        [file \in {"main"} |->
            {File(And(<<"a">> ++ Text(ta), And(<<"b">> ++ Text(tb), <<"c">> ++ Text(tc))))
             : ta \in Texts, tb \in Texts, tc \in Texts}],
        {NoVariables, <<"B">> ++ Reference(<<"a">>), <<"x">> ++ Reference(<<"a">>),
         And(<<"b">> ++ Literal("v"), <<"B">> ++ Literal("w"))},
        {Field(<<"a">>, <<0>>, <<"string">>), Field(<<"b">>, <<1>>, <<"string">>),
         Field(<<"c">>, <<2>>, <<"string">>)}, NoVariables, 1, 0)

\* Fields of every kind, with competing names; lists with texts that fail.
Tagged(name, tag, index) ==
    [path |-> <<tag>>, name |-> name, index |-> index, tagged |-> TRUE, embedded |-> FALSE,
     exported |-> TRUE, kind |-> <<"string">>, cell |-> index]

Plain(name, index) == [Tagged(name, name, index) EXCEPT !.tagged = FALSE]

\* An embedded struct with a tag, and one without.
Embedded(name, tag, index) ==
    [Tagged(name, tag, index) EXCEPT !.embedded = TRUE, !.kind = <<"struct">>]

Promoting(name, index) == [Embedded(name, name, index) EXCEPT !.tagged = FALSE]

Pool(name) == <<"pool", name>>
Pair(index) == <<"pair", index>>

Bindings(fields) ==
    Scenario(<<Source("main", FALSE)>>,
        [file \in {"main"} |->
            {File(And(And(<<"Name">> ++ n, pool),
                      And(Pair("#0") ++ e, Pair("#1") ++ Number("7"))))
             : n \in {Word1("x"), Null},
               pool \in {<<"pool">> ++ Null, <<"pool">> ++ Word1("x"),
                         Pool("size") ++ Number("300"), Pool("other") ++ Null,
                         And(Pool("size") ++ Word1("7"),
                             And(<<"pool", "limits", "k">> ++ Number("-8"),
                                 <<"pool", "limits", "l">> ++ Null))},
               e \in {Null, Number("7"), Number("8")}}
            \cup {File(And(Pair("#0") ++ Text(Reference(<<"Name">>)),
                           And(Pair("#1") ++ Text(Reference(<<"pair">>)), <<"Name">> ++ n)))
                  : n \in {Word1("7"), Null, Text(Reference(<<"Name">>))}}
            \cup {File(<<"size">> ++ Number("7"))}],
        {NoVariables},
        fields \cup
        {Field(<<"pair">>, <<8>>, <<"array", "int">>), Field(Pair("#0"), <<8, 0>>, <<"int">>),
         Field(Pair("#1"), <<8, 1>>, <<"int">>)},
        NoVariables, 2, 1)

Pointer ==
    {Field(<<"pool">>, <<9>>, <<"pointer">>), Field(Pool("size"), <<9, 0>>, <<"int">>),
     Field(Pool("limits"), <<9, 1>>, <<"map", "int">>)}

ByDepth == {Plain("Name", <<1>>), Promoting("A", <<2>>), Tagged("Deep", "Name", <<2, 0>>)}

ByTag == {Promoting("A", <<1>>), Promoting("B", <<2>>), Tagged("Other", "Name", <<1, 0>>),
          Plain("Name", <<2, 0>>)}

Ambiguous == {Tagged("One", "Name", <<1>>), Tagged("Two", "Name", <<2>>), Promoting("A", <<3>>),
              Tagged("Three", "Name", <<3, 0>>)}

\* Two promoted fields of one Go name, of which one has a tag; one is excluded and one
\* unexported.
SameGoName ==
    {Promoting("A", <<1>>), Promoting("B", <<2>>), Tagged("Name", "Name", <<1, 0>>),
     Plain("Name", <<2, 0>>), Embedded("C", "-", <<3>>), Tagged("Third", "Name", <<3, 0>>),
     [Tagged("fourth", "Name", <<4>>) EXCEPT !.exported = FALSE]}

\* A struct embedded under a name has its fields beneath that name, and still hides what
\* another one promotes.
HiddenByContainer ==
    LET size == Field(Pool("size"), <<1, 0>>, <<"int">>)
        limits == Field(Pool("limits"), <<1, 1>>, <<"map", "int">>)
    IN  {Plain("Name", <<0>>), Embedded("A", "pool", <<1>>), size, limits,
         [size EXCEPT !.path = <<"size">>, !.index = <<1, 0>>],
         [limits EXCEPT !.path = <<"limits">>, !.index = <<1, 1>>],
         Promoting("B", <<2>>), Plain("size", <<2, 0>>)}

\* Go names that two fields share.
FieldScenarios == {Bindings(SameGoName \cup Pointer), Bindings(HiddenByContainer)}

MCScenarios ==
    {Layers, References} \cup FieldScenarios
    \cup {Bindings(fields \cup Pointer) : fields \in {ByDepth, ByTag, Ambiguous}}

MCIndices == <<"#0", "#1">>

MCRelaxed == <<"b">> ++ <<"B">>

MCNumerals == [atom \in {"7", "8", "-8", "300"} |->
                 CASE atom = "7" -> 7 [] atom = "8" -> 8 [] atom = "-8" -> -8 [] OTHER -> 300]

MCTruths == [token \in {"true"} |-> TRUE]
=============================================================================
