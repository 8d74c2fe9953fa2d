----------------------------- MODULE LogLevels -----------------------------
(***************************************************************************)
(* The level tree of package logging: its construction by options, the     *)
(* runtime assignments SetLevel and ResetLevel, the overlay of an external *)
(* Configuration by Apply, logger groups, and the handlers handed out.     *)
(*                                                                         *)
(* A spelling of a name is a sequence of tokens: pieces of text,           *)
(* separators and blanks.  Two pieces with no separator between them are   *)
(* one segment, so <<"event", "bus">> is a sibling of <<"event">> and not  *)
(* its child.  Writers hold the mutex from beginning to end and a reader   *)
(* loads the tree once, so an operation is one step.                       *)
(***************************************************************************)
EXTENDS Integers, Sequences, FiniteSets

LOCAL INSTANCE SequencesExt
LOCAL INSTANCE FiniteSetsExt

CONSTANTS
    Spelled,      \* the spellings callers use, in the lexicographic order of their text
    Tokens,       \* the levels callers assign, by their tokens
    Memberships,  \* the member lists callers declare groups with, each a set of spellings
    Documents,    \* the configurations that Apply receives
    MaxOperations \* bound on the length of a behaviour

VARIABLES
    built,       \* NewManager has returned
    initialRoot, \* Manager.initialRootLevel
    tree,        \* Manager.state: the current snapshot
    groups,      \* Manager.groups
    known,       \* Manager.known
    handlers,    \* the chains of the handlers handed out
    last         \* the last operation, and how many there have been

vars == <<built, initialRoot, tree, groups, known, handlers, last>>

----------------------------------------------------------------------------
\* Names and levels.

Spellings == ToSet(Spelled)

Separators == {"/", "."}
Blanks == {" "}
RootNames == {<<"root">>, <<"ROOT">>}

\* The canonical name of the root logger.
Root == <<>>

\* strings.Trim: the tokens of cut removed at both ends.
Trim(name, cut) ==
    LET kept == {i \in DOMAIN name : name[i] \notin cut}
    IN  IF kept = {} THEN <<>> ELSE SubSeq(name, Min(kept), Max(kept))

\* canonicalName: the fixed point of the two trims is one trim by both.
CanonicalName(name) ==
    LET trimmed == Trim(name, Separators \cup Blanks)
    IN  IF trimmed \in RootNames THEN Root ELSE trimmed

Names == {CanonicalName(s) : s \in Spellings}

\* The ends of the segments of a name.
SegmentEnds(name) ==
    {i \in 1..Len(name) : /\ name[i] \notin Separators
                          /\ i = Len(name) \/ name[i + 1] \in Separators}

\* ancestry: the name and what is left of it when it is cut at the separator behind a
\* segment, from the right, each by how many tokens are cut off.
Ancestry(name) ==
    LET c == CanonicalName(name)
    IN  [cut \in {Len(c) - i : i \in SegmentEnds(c)} |-> SubSeq(c, 1, Len(c) - cut)]

\* ParseLevel, without slog's offset notation: the tokens it knows and their
\* levels; LevelOff is the 32-bit maximum.
ParseLevel ==
    [token \in {"trace", "debug", "info", "warn", "warning", "error", "fatal", "off", "false"} |->
        CASE token = "trace" -> -8
          [] token = "debug" -> -4
          [] token = "info" -> 0
          [] token \in {"warn", "warning"} -> 4
          [] token \in {"error", "fatal"} -> 8
          [] token \in {"off", "false"} -> 2147483647]

Levels == {ParseLevel[t] : t \in DOMAIN ParseLevel}

ASSUME SpellingsAssumption == Spelled \in Seq(Seq(STRING))

\* What callers pass: a document maps spellings to tokens and to lists of members.
ASSUME CallsAssumption ==
    /\ Tokens \subseteq DOMAIN ParseLevel
    /\ Memberships \subseteq SUBSET Spellings
    /\ \A d \in Documents :
         /\ DOMAIN d.levels \subseteq Spellings /\ DOMAIN d.groups \subseteq Spellings
         /\ \A g \in DOMAIN d.groups : d.groups[g] \subseteq Spellings
    /\ MaxOperations \in Nat

\* Mutant: the walk ends on the farthest assigned ancestor.
EffectiveFarthest(t, chain) ==
    LET found == {i \in DOMAIN chain : chain[i] \in DOMAIN t.assigned}
    IN  IF found = {} THEN t.root ELSE t.assigned[chain[Max(found)]]

\* levelTree.effective: the first assigned level along the chain.
Effective(t, chain) ==
    LET found == {i \in DOMAIN chain : chain[i] \in DOMAIN t.assigned}
    IN  IF found = {} THEN t.root ELSE t.assigned[chain[Min(found)]]

\* The entries of a map written into another.
Written(entries, map) ==
    [k \in DOMAIN entries \cup DOMAIN map |-> IF k \in DOMAIN entries THEN entries[k] ELSE map[k]]

\* rebuild, with one level for several names; the root has a level of its own.
AssignAll(t, names, level) ==
    [root |-> IF Root \in names THEN level ELSE t.root,
     assigned |-> Written([n \in names \ {Root} |-> level], t.assigned)]

\* rebuild, with several names cleared.
ClearAll(t, names) ==
    [root |-> IF Root \in names THEN initialRoot ELSE t.root,
     assigned |-> [n \in DOMAIN t.assigned \ names |-> t.assigned[n]]]

\* A group with members shadows a logger of its name.
IsGroup(declared, name) == name \in DOMAIN declared /\ declared[name] # {}

\* expand.
Expand(name) ==
    LET canonical == CanonicalName(name)
    IN  IF IsGroup(groups, canonical) THEN groups[canonical] ELSE {canonical}

----------------------------------------------------------------------------
\* Documents.

\* Configuration.Validate.
Valid(document) ==
    /\ \A s \in DOMAIN document.levels : document.levels[s] \in DOMAIN ParseLevel
    /\ \A g \in DOMAIN document.groups :
        /\ CanonicalName(g) # Root
        /\ \A m \in document.groups[g] : CanonicalName(m) # Root

\* One step of each loop of Apply: a group registered over those declared, a level
\* received through a group or directly.
AddGroup(document, declared, s) ==
    Written([g \in {CanonicalName(s)} |-> {CanonicalName(m) : m \in document.groups[s]}],
            declared)

AddLevel(document, declared, sofar, s) ==
    LET name == CanonicalName(s)
        level == ParseLevel[document.levels[s]]
    IN  IF IsGroup(declared, name)
        THEN [sofar EXCEPT !.fanned = Written([m \in declared[name] |-> level], @)]
        ELSE [sofar EXCEPT !.direct = Written([n \in {name} |-> level], @)]

\* The first loop, over the sorted keys.
WithGroups(document) ==
    LET after[i \in 0..Len(Spelled)] ==
            IF i = 0 THEN groups
            ELSE IF Spelled[i] \in DOMAIN document.groups
                 THEN AddGroup(document, after[i - 1], Spelled[i])
                 ELSE after[i - 1]
    IN  after[Len(Spelled)]

\* The second loop.
Assignments(document) ==
    LET declared == WithGroups(document)
        after[i \in 0..Len(Spelled)] ==
            IF i = 0 THEN [fanned |-> << >>, direct |-> << >>]
            ELSE IF Spelled[i] \in DOMAIN document.levels
                 THEN AddLevel(document, declared, after[i - 1], Spelled[i])
                 ELSE after[i - 1]
    IN  after[Len(Spelled)]

\* Mutant: the fanned levels are written over the direct ones.
OverlaidByGroups(document) ==
    LET a == Assignments(document)
        all == Written(a.fanned, a.direct)
    IN  [root |-> IF Root \in DOMAIN all THEN all[Root] ELSE tree.root,
         assigned |-> Written([n \in DOMAIN all \ {Root} |-> all[n]], tree.assigned)]

\* The rebuild of Apply: the fanned levels, then the direct ones over them.
Overlaid(document) ==
    LET a == Assignments(document)
        all == Written(a.direct, a.fanned)
    IN  [root |-> IF Root \in DOMAIN all THEN all[Root] ELSE tree.root,
         assigned |-> Written([n \in DOMAIN all \ {Root} |-> all[n]], tree.assigned)]

----------------------------------------------------------------------------
\* The specification.

NoDocument == [levels |-> << >>, groups |-> << >>]

\* NewManager before its options.
Init ==
    /\ built = FALSE
    /\ initialRoot = 0
    /\ tree = [root |-> 0, assigned |-> << >>]
    /\ groups = << >>
    /\ known = {}
    /\ handlers = {}
    /\ last = [op |-> "new", document |-> NoDocument, count |-> 0]

Did(op, document) ==
    /\ last.count < MaxOperations
    /\ last' = [op |-> op, document |-> document, count |-> last.count + 1]

\* WithGroup: an option, so only while the manager is built.
WithGroup(name, members) ==
    /\ ~built
    /\ CanonicalName(name) # Root
    /\ groups' = Written([g \in {CanonicalName(name)} |->
                            {CanonicalName(m) : m \in members} \ {Root}], groups)
    /\ Did("group", NoDocument)
    /\ UNCHANGED <<built, initialRoot, tree, known, handlers>>

\* NewManager returns, after the last option.
NewManager ==
    /\ ~built
    /\ built' = TRUE
    /\ initialRoot' = tree.root
    /\ UNCHANGED <<tree, groups, known, handlers, last>>

\* SetLevel; during construction, WithLevel and WithRootLevel.
SetLevel(name, level) ==
    /\ tree' = AssignAll(tree, Expand(name), level)
    /\ Did("set", NoDocument)
    /\ UNCHANGED <<built, initialRoot, groups, known, handlers>>

\* ResetLevel.
ResetLevel(name) ==
    /\ built
    /\ tree' = ClearAll(tree, Expand(name))
    /\ Did("reset", NoDocument)
    /\ UNCHANGED <<built, initialRoot, groups, known, handlers>>

\* Apply.
Apply(document) ==
    /\ built
    /\ Valid(document)
    /\ groups' = WithGroups(document)
    /\ tree' = Overlaid(document)
    /\ Did("apply", document)
    /\ UNCHANGED <<built, initialRoot, known, handlers>>

\* Apply returns the error of Validate and leaves the manager untouched.
ApplyRefused(document) ==
    /\ built
    /\ ~Valid(document)
    /\ Did("refused", document)
    /\ UNCHANGED <<built, initialRoot, tree, groups, known, handlers>>

\* Handler, which Logger and StandardLogger call: the chain is computed once.
Handler(name) ==
    /\ built
    /\ known' = known \cup ({CanonicalName(name)} \ {Root})
    /\ handlers' = handlers \cup {[name |-> name, chain |-> Ancestry(name)]}
    /\ Did("handler", NoDocument)
    /\ UNCHANGED <<built, initialRoot, tree, groups>>

Next ==
    \/ NewManager
    \/ \E s \in Spellings :
        \/ \E members \in Memberships : WithGroup(s, members)
        \/ \E t \in Tokens : SetLevel(s, ParseLevel[t])
        \/ ResetLevel(s)
        \/ Handler(s)
    \/ \E d \in Documents : Apply(d) \/ ApplyRefused(d)

Spec == Init /\ [][Next]_vars

----------------------------------------------------------------------------
\* Properties.

\* The type invariant.  No group is named after the root logger or has it as a
\* member, every stored name is canonical, and the root always has a level.
TypeOK ==
    /\ built \in BOOLEAN
    /\ initialRoot \in Levels
    /\ tree.root \in Levels
    /\ DOMAIN tree.assigned \subseteq Names \ {Root}
    /\ \A n \in DOMAIN tree.assigned : tree.assigned[n] \in Levels
    /\ DOMAIN groups \subseteq Names \ {Root}
    /\ \A g \in DOMAIN groups : groups[g] \subseteq Names \ {Root}
    /\ known = {CanonicalName(h.name) : h \in handlers} \ {Root}

\* The whole-segment prefixes of a name that have a level.
Governing(t, name) ==
    LET c == CanonicalName(name)
    IN  {a \in DOMAIN t.assigned :
            IsPrefix(a, c) /\ (a = c \/ c[Len(a) + 1] \in Separators)}

\* The level of the longest of them, or the level of the root.
NearestLevel(t, name) ==
    LET governing == Governing(t, name)
        nearest == CHOOSE a \in governing : \A b \in governing : Len(b) <= Len(a)
    IN  IF governing = {} THEN t.root ELSE t.assigned[nearest]

\* A handler handed out at any time decides by the level of the longest configured
\* whole-segment prefix of its name in the tree as it is now, although it walks a
\* chain computed when it was created.
HandlersFollowTree ==
    \A h \in handlers : Effective(tree, h.chain) = NearestLevel(tree, h.name)

\* What is configured for the name itself; the empty set when nothing is.
Configured(t, name) ==
    IF name = Root THEN {t.root}
    ELSE IF name \in DOMAIN t.assigned THEN {t.assigned[name]} ELSE {}

\* The level of the entry of S that is spelled last.
LastLevel(document, S) ==
    {ParseLevel[document.levels[Spelled[Max({i \in DOMAIN Spelled : Spelled[i] \in S})]]]}

\* Apply gives every name the level the document assigns to it directly, or else the
\* level it receives through a group, the entry spelled last deciding in both cases,
\* and leaves every name the document does not reach as it was.
DocumentOverlaid ==
    [][ last' # last /\ last'.op = "apply" =>
        LET document == last'.document
            Shadowed(s) == IsGroup(groups', CanonicalName(s))
        IN  \A n \in Names :
              LET entries == DOMAIN document.levels
                  direct == {s \in entries : ~Shadowed(s) /\ CanonicalName(s) = n}
                  fanned == {s \in entries : Shadowed(s) /\ n \in groups'[CanonicalName(s)]}
              IN  Configured(tree', n) =
                    IF direct # {} THEN LastLevel(document, direct)
                    ELSE IF fanned # {} THEN LastLevel(document, fanned)
                    ELSE Configured(tree, n) ]_vars

\* The documentation of logger groups: the name of a group with members never
\* receives a level.
GroupNameReceivesNone ==
    [][ \A g \in Names : IsGroup(groups', g) =>
            Configured(tree', g) \subseteq Configured(tree, g) ]_vars
=============================================================================
