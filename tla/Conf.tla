-------------------------------- MODULE Conf --------------------------------
(***************************************************************************)
(* Loader.Load of package conf: the sources are read and merged one by     *)
(* one, while somebody may edit the files; the placeholders of the result  *)
(* are resolved against the environment and the result itself; and the     *)
(* tree is bound onto a struct, in the iteration order of Go maps, which   *)
(* is arbitrary, so a Load that fails leaves an arbitrary part bound.      *)
(*                                                                         *)
(* A document tree is the function from the paths of its nodes to what the *)
(* nodes are.  A step of a path is a key of an object or the index of an   *)
(* element of a list, so what the code does by recursion on a tree is said *)
(* here of the paths above and below a path.  How one text is resolved is  *)
(* a parameter; module Placeholders gives it its value.                    *)
(***************************************************************************)
EXTENDS Integers, Sequences, FiniteSets

LOCAL INSTANCE SequencesExt
LOCAL INSTANCE FiniteSetsExt

CONSTANTS
    Scenarios, \* what the process works with, see ScenariosAssumption
    Indices,   \* the steps that stand for the elements of a list, in their order
    Numerals,  \* the integer an atom denotes, for the atoms that denote one
    Truths,    \* the truth value a token denotes, for the tokens that denote one
    Width,     \* the bits of an integer field
    Resolution(_, _, _) \* what a text comes to in an environment and a document

-----------------------------------------------------------------------------
(* Documents.  A node is [object |-> TRUE], [list |-> TRUE],               *)
(* [text |-> text], after the resolution [word |-> word],                  *)
(* [number |-> atom], [truth |-> BOOLEAN] or [null |-> TRUE].              *)

IsA(node, sort) == sort \in DOMAIN node

Sorts == {"object", "list", "text", "word", "number", "truth", "null"}

\* Every node but the root is a key of an object or an element of a list; a list has
\* no gaps.
WellFormed(document) ==
    /\ DOMAIN document \subseteq Seq(STRING) /\ IsFiniteSet(DOMAIN document)
    /\ <<>> \in DOMAIN document
    /\ \A path \in DOMAIN document :
         /\ \E sort \in Sorts : DOMAIN document[path] = {sort}
         /\ \A n \in 0..(Len(path) - 1) :
              /\ SubSeq(path, 1, n) \in DOMAIN document
              /\ IsA(document[SubSeq(path, 1, n)],
                     IF path[n + 1] \in ToSet(Indices) THEN "list" ELSE "object")
              /\ \A i \in 2..Len(Indices) :
                   path[n + 1] = Indices[i] =>
                       Append(SubSeq(path, 1, n), Indices[i - 1]) \in DOMAIN document

Containers == {"struct", "pointer", "array"}

\* len(field.Index).
Depth(f) == Len(f.index)

\* The fields reflection finds in the struct that the last step of a path is a name in:
\* its own and, at any depth, those of the structs it embeds.
SameStruct(type, path) ==
    {f \in type : Len(f.path) = Len(path) /\ \A n \in 1..(Len(path) - 1) : f.path[n] = path[n]}

\* reflect.VisibleFields: a field goes when another one has its Go name and lies as deep
\* or less deep, whatever their tags are and whether or not that one can be bound.
Visible(fields) ==
    {f \in fields : \A g \in fields \ {f} : g.name = f.name => Depth(f) < Depth(g)}

\* A name in the document can be bound to the field itself: it is not excluded, not
\* unexported, and not an embedded struct that only promotes its fields.
Nameable(f) == "-" \notin ToSet(f.path) /\ f.exported /\ (f.embedded => f.tagged)

\* The walk of structFields: no field lies inside an embedded struct whose tag names or
\* excludes it, unless that struct is itself not visible.
Collected(fields) ==
    {f \in Visible(fields) :
        /\ Nameable(f)
        /\ \A container \in Visible(fields) :
             container.embedded /\ container.tagged => ~IsStrictPrefix(container.index, f.index)}

Candidates(type, path) == {f \in Collected(SameStruct(type, path)) : f.path = path}

\* Variant: an explicit name wins before the embedding depth is looked at.
DominantFieldByTag(candidates) ==
    LET tagged == {f \in candidates : f.tagged}
        competing == IF tagged = {} THEN candidates ELSE tagged
        depths == {Depth(f) : f \in competing} IN
    {f \in competing : Depth(f) = Min(depths)
                       /\ \A g \in competing \ {f} : Depth(g) # Depth(f)}

\* dominantField, as a set of at most one field.
DominantField(candidates) ==
    LET atDepth == {f \in candidates : Depth(f) = Min({Depth(g) : g \in candidates})}
        tagged == {f \in atDepth : f.tagged} IN
    IF Cardinality(atDepth) = 1 THEN atDepth
    ELSE IF Cardinality(tagged) = 1 THEN tagged
    ELSE {}

\* structFields: the field a path is bound to.  The root is the struct itself.
FieldOf(type, path) ==
    IF Candidates(type, path) = {} THEN {} ELSE DominantField(Candidates(type, path))

\* The fields of a struct type, [path, name, index, tagged, embedded, exported, kind, cell],
\* are those that reflection can come to look at: the fields of the structs that names
\* above them are bound to.  The path ends with the document name (jsonName), which is
\* the Go name unless a tag gives another or "-"; the index leads through the embedded
\* structs.  The kind is a sequence: a container kind is followed by the kind of its
\* elements.  The cell is the place in memory: a struct that is embedded under a name has
\* its fields twice, promoted and beneath that name, but only the latter are collected.
TypeAssumption(type) ==
    /\ IsFiniteSet(type)
    /\ \A f \in type :
         /\ f.path \in Seq(STRING) /\ f.index \in Seq(Nat)
         /\ f.tagged \in BOOLEAN /\ f.embedded \in BOOLEAN /\ f.exported \in BOOLEAN
         /\ f.path = <<>> \/ f.tagged \/ Last(f.path) = f.name
         /\ \A g \in SameStruct(type, f.path) : g.index = f.index => g = f
         /\ Len(f.index) > 1 =>
              \E g \in SameStruct(type, f.path) : g.embedded /\ g.index = Front(f.index)
         /\ \A g \in type :
              f.cell = g.cell /\ f \in Candidates(type, f.path) /\ g \in Candidates(type, g.path)
              => f = g
         /\ \A n \in 0..(Len(f.path) - 1) :
              \E g \in FieldOf(type, SubSeq(f.path, 1, n)) : Head(g.kind) \in Containers
    /\ \E f \in FieldOf(type, <<>>) : f.kind = <<"struct">>

\* sources: [file, optional]; contents: what every file may hold; environments: what
\* the variables may be; type: the fields of the target struct; defaults:
\* what the caller filled in; loads, edits: bounds.
ASSUME ScenariosAssumption ==
    /\ \A s \in Scenarios :
         /\ s.sources \in Seq([file : DOMAIN s.contents, optional : BOOLEAN])
         /\ \A file \in DOMAIN s.contents : \A content \in s.contents[file] :
              IsA(content, "absent") \/ WellFormed(content.value)
         /\ TypeAssumption(s.type)
         /\ DOMAIN s.defaults = {f.cell : f \in s.type}
         /\ s.loads \in Nat /\ s.edits \in Nat
    /\ Indices \in Seq(STRING \ {"$schema"})
    /\ Width \in Nat \ {0}

VARIABLES
    scenario,    \* never changes
    environment, \* what the lookup function of the Loader finds
    files,       \* what the files hold
    phase,       \* where Load is
    next,        \* the source to read next
    documents,   \* the documents read by this Load, in order
    merged,      \* the local of Load
    tree,        \* what resolveTree returned
    work,        \* the paths of what bind still has to do, innermost first
    target,      \* the struct behind the pointer, by cell
    before,      \* history: the target when Load was called
    error,       \* what Load returned, "none" for nil
    budget       \* calls of Load and edits still to come

vars == <<scenario, environment, files, phase, next, documents, merged, tree, work,
          target, before, error, budget>>

\* The type invariant.
TypeOK ==
    /\ scenario \in Scenarios
    /\ environment \in scenario.environments
    /\ DOMAIN files = DOMAIN scenario.contents
    /\ \A f \in DOMAIN files : files[f] \in scenario.contents[f]
    /\ phase \in {"idle", "read", "resolve", "bind"}
    /\ next \in Nat \ {0}
    /\ WellFormed(merged) /\ (tree = <<>> \/ WellFormed(tree))
    /\ work \in Seq(DOMAIN tree)
    /\ DOMAIN target = DOMAIN scenario.defaults /\ DOMAIN before = DOMAIN target
    /\ error \in {"none", "read", "decode", "circular", "unresolved", "unknown", "mismatch"}
    /\ budget \in [loads : Nat, edits : Nat]

-----------------------------------------------------------------------------
(* The merge.                                                              *)

Empty == [path \in {<<>>} |-> [object |-> TRUE]]

\* The overlay's nodes, and those of the base that are kept.
Overlay(base, overlay, kept) ==
    [path \in DOMAIN overlay \cup kept |->
        IF path \in DOMAIN overlay THEN overlay[path] ELSE base[path]]

\* Variant: a later object replaces the earlier one.
MergeTreeShallow(base, overlay) ==
    Overlay(base, overlay,
            {p \in DOMAIN base : p # <<>> /\ <<Head(p)>> \notin DOMAIN overlay})

\* mergeTree: what lies beneath a value of the overlay is replaced, unless both are
\* objects.
MergeTree(base, overlay) ==
    LET BothObjects(path) == IsA(base[path], "object") /\ IsA(overlay[path], "object")
    IN  Overlay(base, overlay,
            {p \in DOMAIN base : \A n \in 0..Len(p) :
                SubSeq(p, 1, n) \in DOMAIN overlay => BothObjects(SubSeq(p, 1, n))})

\* decodeDocument: one object and nothing after it that Decoder.More takes for a value
\* (it does not take a closing bracket for one).
Decodes(content) == IsA(content.value[<<>>], "object") /\ content.rest # "value"

WithoutSchemaKey(document) ==
    [path \in {p \in DOMAIN document : p = <<>> \/ Head(p) # "$schema"} |-> document[path]]

-----------------------------------------------------------------------------
(* The resolution.                                                         *)

\* What a text of the merged document comes to: [error, word].
Resolved(path) == Resolution(environment, merged, merged[path].text)

Reasons == {"circular", "unresolved"}

Failing == {p \in DOMAIN merged : IsA(merged[p], "text") /\ Resolved(p).error \in Reasons}

\* One path goes through an earlier element of a list that the other goes through too.
Earlier(path, other) ==
    \E n \in DOMAIN path \cap DOMAIN other, i, j \in DOMAIN Indices :
        /\ SubSeq(path, 1, n - 1) = SubSeq(other, 1, n - 1)
        /\ path[n] = Indices[i] /\ other[n] = Indices[j] /\ i < j

\* The errors resolveTree may return: any of an object's children may come first, while
\* the elements of a list come in order.
Reports == {Resolved(p).error : p \in {q \in Failing : \A o \in Failing : ~Earlier(o, q)}}

\* resolveTree without an error.
ResolveTree ==
    [path \in DOMAIN merged |->
        IF IsA(merged[path], "text") THEN [word |-> Resolved(path).word] ELSE merged[path]]

-----------------------------------------------------------------------------
(* The binding.  The value of a cell is a function: a slice, a map and     *)
(* what they hold, or a scalar alone, by the path from the field.          *)

FieldAt(path) == FieldOf(scenario.type, path)

Children(path) == {p \in DOMAIN tree : p # <<>> /\ Front(p) = path}

Elements(path) == {f \in scenario.type : f.path # <<>> /\ Front(f.path) = path}

Fits(integer) == -(2 ^ (Width - 1)) <= integer /\ integer < 2 ^ (Width - 1)

\* numericText, for a text the parser accepts.
Numeric(node) ==
    {Numerals[a] : a \in {b \in DOMAIN Numerals :
        \/ IsA(node, "number") /\ node.number = b
        \/ IsA(node, "word") /\ node.word = <<b>>}}

Zero(kind) ==
    CASE kind = "int" -> [int |-> 0]
      [] kind = "string" -> [string |-> <<>>]
      [] kind = "bool" -> [bool |-> FALSE]
      [] OTHER -> [nil |-> TRUE]

\* bindInteger, bindBool, bindString, and the containers bindSlice and bindMap make, as
\* a set of at most one value.
Scalar(kind, node) ==
    CASE kind = "int" -> {[int |-> i] : i \in {j \in Numeric(node) : Fits(j)}}
      [] kind = "string" ->
           IF IsA(node, "word") THEN {[string |-> node.word]}
           ELSE IF IsA(node, "number") THEN {[string |-> <<node.number>>]}
           ELSE IF IsA(node, "truth")
           THEN {[string |-> <<IF node.truth THEN "true" ELSE "false">>]} ELSE {}
      [] kind = "bool" ->
           IF IsA(node, "truth") THEN {[bool |-> node.truth]}
           ELSE {[bool |-> Truths[t]] : t \in {u \in DOMAIN Truths :
                                                 IsA(node, "word") /\ node.word = <<u>>}}
      [] kind = "slice" -> IF IsA(node, "list") THEN {[slice |-> TRUE]} ELSE {}
      [] kind = "map" -> IF IsA(node, "object") THEN {[map |-> TRUE]} ELSE {}

Alone(value) == [suffix \in {<<>>} |-> value]

Allocated == Alone([allocated |-> TRUE])

\* What binding the node at a path and all it holds comes to, for a kind that is set as
\* one: a set of at most one value.  An element that is null stays zero.
Converted(kind, path) ==
    LET Below == {SubSeq(p, Len(path) + 1, Len(p)) : p \in {q \in DOMAIN tree : IsPrefix(path, q)}}
        Value(suffix) ==
            LET node == tree[path \o suffix]
                own == kind[Len(suffix) + 1] IN
            IF Len(suffix) >= Len(kind) THEN {}
            ELSE IF IsA(node, "null") THEN {Zero(own)} ELSE Scalar(own, node)
    IN  IF \E suffix \in Below : Value(suffix) = {} THEN {}
        ELSE {[suffix \in Below |-> CHOOSE v \in Value(suffix) : TRUE]}

\* A value that is not null does not fit the field its path is bound to.
Mismatched(field, path) ==
    CASE Head(field.kind) \in {"struct", "pointer"} -> ~IsA(tree[path], "object")
      [] Head(field.kind) = "array" -> ~(/\ IsA(tree[path], "list")
                                         /\ Cardinality(Children(path)) = Cardinality(Elements(path)))
      [] OTHER -> Converted(field.kind, path) = {}

\* The orders in which the children are bound: any for an object's, their own for a
\* list's.
Orders(path) ==
    {order \in [1..Cardinality(Children(path)) -> Children(path)] :
        /\ \A child \in Children(path) : \E i \in DOMAIN order : order[i] = child
        /\ \A i, j \in DOMAIN order : i # j => order[i] # order[j]
        /\ IsA(tree[path], "list") => \A i \in DOMAIN order : order[i] = Append(path, Indices[i])}

-----------------------------------------------------------------------------
(* Load.                                                                   *)

Finish(reason) ==
    /\ error' = reason /\ phase' = "idle" /\ work' = <<>>
    /\ UNCHANGED <<scenario, environment, files, next, documents, merged, before, budget>>

\* Load is called, possibly with the target of an earlier call.
Load ==
    /\ phase = "idle" /\ budget.loads > 0
    /\ phase' = "read" /\ next' = 1 /\ documents' = <<>> /\ merged' = Empty
    /\ tree' = <<>> /\ error' = "none" /\ before' = target
    /\ budget' = [budget EXCEPT !.loads = @ - 1]
    /\ UNCHANGED <<scenario, environment, files, work, target>>

\* The next source is read and merged.
ReadSource ==
    /\ phase = "read" /\ next <= Len(scenario.sources)
    /\ LET source == scenario.sources[next]
           content == files[source.file] IN
       IF IsA(content, "absent") /\ source.optional
       THEN /\ next' = next + 1
            /\ UNCHANGED <<scenario, environment, files, phase, documents, merged, work,
                           before, error, budget>>
       ELSE IF IsA(content, "absent") THEN Finish("read")
       ELSE IF ~Decodes(content) THEN Finish("decode")
       ELSE /\ next' = next + 1
            /\ merged' = MergeTree(merged, content.value)
            /\ documents' = Append(documents, content.value)
            /\ UNCHANGED <<scenario, environment, files, phase, work, before, error, budget>>
    /\ UNCHANGED <<tree, target>>

\* The key of the schema is dropped.
EndSources ==
    /\ phase = "read" /\ next > Len(scenario.sources)
    /\ merged' = WithoutSchemaKey(merged) /\ phase' = "resolve"
    /\ UNCHANGED <<scenario, environment, files, next, documents, tree, work, target, before,
                   error, budget>>

\* resolveTree, then bind takes over.
Resolve ==
    /\ phase = "resolve"
    /\ IF Reports # {}
       THEN (\E reason \in Reports : Finish(reason)) /\ UNCHANGED tree
       ELSE /\ tree' = ResolveTree
            /\ work' = << <<>> >>
            /\ phase' = "bind"
            /\ UNCHANGED <<scenario, environment, files, next, documents, merged, before, error,
                           budget>>
    /\ UNCHANGED target

\* bindValue of the innermost pending value.
BindValue ==
    /\ phase = "bind" /\ work # <<>>
    /\ LET path == Head(work) IN
       \/ FieldAt(path) = {} /\ Finish("unknown") /\ UNCHANGED target
       \/ \E field \in FieldAt(path) :
            \/ /\ IsA(tree[path], "null")
               /\ work' = Tail(work)
               /\ UNCHANGED <<scenario, environment, files, phase, next, documents, merged,
                              target, before, error, budget>>
            \/ /\ ~IsA(tree[path], "null") /\ Mismatched(field, path)
               /\ target' = IF Head(field.kind) = "pointer"
                            THEN [target EXCEPT ![field.cell] = Allocated]
                            ELSE target
               /\ Finish("mismatch")
            \/ /\ ~IsA(tree[path], "null") /\ ~Mismatched(field, path)
               /\ target' = CASE Head(field.kind) = "pointer" ->
                                   [target EXCEPT ![field.cell] = Allocated]
                              [] Head(field.kind) \in Containers \ {"pointer"} -> target
                              [] OTHER -> [target EXCEPT ![field.cell] =
                                             CHOOSE v \in Converted(field.kind, path) : TRUE]
               /\ IF Head(field.kind) \in Containers
                  THEN \E order \in Orders(path) : work' = order \o Tail(work)
                  ELSE work' = Tail(work)
               /\ UNCHANGED <<scenario, environment, files, phase, next, documents, merged,
                              before, error, budget>>
    /\ UNCHANGED tree

\* Load returns nil.
Return == phase = "bind" /\ work = <<>> /\ Finish("none") /\ UNCHANGED <<tree, target>>

\* Somebody writes, creates or removes a file.
Edit(file) ==
    /\ budget.edits > 0
    /\ budget' = [budget EXCEPT !.edits = @ - 1]
    /\ \E content \in scenario.contents[file] \ {files[file]} :
         files' = [files EXCEPT ![file] = content]
    /\ UNCHANGED <<scenario, environment, phase, next, documents, merged, tree, work, target,
                   before, error>>

Init ==
    /\ scenario \in Scenarios
    /\ environment \in scenario.environments
    /\ files \in [DOMAIN scenario.contents -> UNION {scenario.contents[f] : f \in DOMAIN scenario.contents}]
    /\ \A f \in DOMAIN files : files[f] \in scenario.contents[f]
    /\ phase = "idle" /\ next = 1 /\ documents = <<>> /\ merged = Empty /\ tree = <<>>
    /\ work = <<>> /\ target = scenario.defaults /\ before = target /\ error = "none"
    /\ budget = [loads |-> scenario.loads, edits |-> scenario.edits]

Next ==
    \/ Load \/ ReadSource \/ EndSources \/ Resolve \/ BindValue \/ Return
    \/ \E file \in DOMAIN files : Edit(file)

Spec == Init /\ [][Next]_vars

-----------------------------------------------------------------------------
(* Properties.                                                             *)

\* The document has a say at path: it names it, or has something above it that a
\* merge does not look into for it.
Speaks(document, path) ==
    \/ path \in DOMAIN document
    \/ \E n \in 0..(Len(path) - 1) :
         /\ SubSeq(path, 1, n) \in DOMAIN document
         /\ path[n + 1] \in ToSet(Indices) \/ ~IsA(document[SubSeq(path, 1, n)], "object")

\* Two documents hold the same at a path, be it nothing.
Alike(document, other, path) ==
    /\ path \in DOMAIN document <=> path \in DOMAIN other
    /\ path \in DOMAIN document => document[path] = other[path]

\* At every path the merged tree holds what the last document that has a say there
\* holds, and nothing where that document replaced it, whichever sources were missing
\* and however often the files changed before they were read.  Objects merge deeply;
\* a null, a list, a scalar or an object in place of a scalar replaces what was there.
LastWordWins ==
    phase = "resolve" =>
        \A path \in (UNION {DOMAIN documents[i] : i \in DOMAIN documents}) \cup DOMAIN merged :
            path = <<>> \/ Head(path) = "$schema"
            \/ LET speaking == {i \in DOMAIN documents : Speaks(documents[i], path)} IN
               speaking # {} /\ Alike(merged, documents[Max(speaking)], path)

\* The fields some name may be bound to.
Fields == {f \in scenario.type : f \in Candidates(scenario.type, f.path)}

\* The document name is bound to this field: it is among the fields that structFields has
\* collected, and every other one of them with the name is deeper, or as deep and without
\* the explicit tag that this one has.
Bindable(field) ==
    /\ field \in Candidates(scenario.type, field.path)
    /\ \A other \in Candidates(scenario.type, field.path) \ {field} :
         \/ Depth(field) < Depth(other)
         \/ Depth(field) = Depth(other) /\ field.tagged /\ ~other.tagged

\* The values a field's cell may have after a successful Load.
Bound(field) ==
    IF ~(/\ Bindable(field) /\ field.path \in DOMAIN tree
         /\ ~IsA(tree[field.path], "null") /\ Head(field.kind) \notin {"struct", "array"})
    THEN {before[field.cell]}
    ELSE IF Head(field.kind) = "pointer" THEN {Allocated}
    ELSE Converted(field.kind, field.path)

\* A key of the tree that cannot be bound: no field has its name, or its value does not
\* fit.
Misfit(path) ==
    /\ \A n \in 0..(Len(path) - 1) : \E f \in scenario.type :
         f.path = SubSeq(path, 1, n) /\ Bindable(f) /\ Head(f.kind) \in Containers
    /\ \A f \in scenario.type : f.path = path /\ Bindable(f) =>
         ~IsA(tree[path], "null") /\ Mismatched(f, path)

\* A key that no field has for its name.
Unknown(path) == Misfit(path) /\ \A f \in scenario.type : f.path = path => ~Bindable(f)

\* Whatever the iteration order, a Load that reaches the struct succeeds exactly when
\* every key fits, and reports a kind of misfit that there is.  After a success every
\* field has the value its name was given, or, when it was given none or null, what it
\* held before the call; after a failure every field has one of the two.  A Load that
\* fails earlier leaves the struct alone, and no Load touches what it has no name for.
BoundByName ==
    phase = "idle" =>
        IF tree = <<>> THEN target = before /\ error \notin {"unknown", "mismatch"}
        ELSE /\ error = "none" <=> \A path \in DOMAIN tree : ~Misfit(path)
             /\ error = "unknown" => \E path \in DOMAIN tree : Unknown(path)
             /\ error = "mismatch" => \E path \in DOMAIN tree : Misfit(path) /\ ~Unknown(path)
             /\ \A f \in Fields :
                  IF error = "none" THEN Bound(f) = {target[f.cell]}
                  ELSE target[f.cell] \in Bound(f) \cup {before[f.cell]}
             /\ \A cell \in DOMAIN target \ {f.cell : f \in Fields} : target[cell] = before[cell]

\* The fields encoding/json has for a name: it knows nothing of Go names, and looks into no
\* embedded struct that a tag names or excludes.
JsonCandidates(path) ==
    {f \in SameStruct(scenario.type, path) :
        /\ f.path = path /\ Nameable(f)
        /\ \A container \in SameStruct(scenario.type, path) :
             container.embedded /\ container.tagged => ~IsStrictPrefix(container.index, f.index)}

\* The field encoding/json would bind a name to.
JsonBindable(field) ==
    /\ field \in JsonCandidates(field.path)
    /\ \A other \in JsonCandidates(field.path) \ {field} :
         \/ Depth(field) < Depth(other)
         \/ Depth(field) = Depth(other) /\ field.tagged /\ ~other.tagged

\* The comment of structFields: embedded structs are promoted and name conflicts decided
\* by the rules of encoding/json, so that a key is refused as unknown only when these
\* rules leave it no field.  A Go name that two fields of one struct share breaks it.
RefusedAsByJson ==
    phase = "idle" /\ error = "unknown" =>
        \E path \in DOMAIN tree :
            /\ \A n \in 0..(Len(path) - 1) : \E f \in scenario.type :
                 f.path = SubSeq(path, 1, n) /\ JsonBindable(f) /\ Head(f.kind) \in Containers
            /\ \A f \in scenario.type : f.path = path => ~JsonBindable(f)

\* No two fields of one struct share a Go name.
GoNamesApart ==
    \A f \in scenario.type : \A g \in SameStruct(scenario.type, f.path) : f.name = g.name => f = g

\* Without a shared Go name the comment is right.
RefusedAsByJsonWhenApart == GoNamesApart => RefusedAsByJson
=============================================================================
