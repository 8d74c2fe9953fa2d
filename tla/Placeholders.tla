---------------------------- MODULE Placeholders ----------------------------
(***************************************************************************)
(* The placeholders of package conf: how Load resolves one text.           *)
(*                                                                         *)
(* A text is a sequence of parts, as the scanner of resolveText cuts it    *)
(* (escapes already taken as literals): [literal |-> atom], or             *)
(* [key |-> text, default |-> sequence of at most one text].  A word is a  *)
(* resolved text, a sequence of atoms, and as a name its atoms are the     *)
(* dotted segments; no atom is an index.                                   *)
(***************************************************************************)
EXTENDS Conf

CONSTANT Relaxed \* for names another variable than their own is read for: that variable

EnvironmentName(name) == IF name \in DOMAIN Relaxed THEN Relaxed[name] ELSE name

Literal(atom) == <<[literal |-> atom]>>

\* documentValue, as a set of at most one text.
DocumentValue(document, name) ==
    {CASE IsA(node, "text") -> node.text
       [] IsA(node, "number") -> Literal(node.number)
       [] OTHER -> Literal(IF node.truth THEN "true" ELSE "false")
     : node \in {document[path] : path \in {p \in DOMAIN document \cap {name} :
           IsA(document[p], "text") \/ IsA(document[p], "number") \/ IsA(document[p], "truth")}}}

\* Loader.chain, as a set of at most one text.
Lookup(variables, document, name) ==
    IF name \in DOMAIN variables THEN {variables[name]}
    ELSE IF EnvironmentName(name) \in DOMAIN variables
    THEN {variables[EnvironmentName(name)]}
    ELSE DocumentValue(document, name)

Word(word) == [error |-> "none", word |-> word]

Unresolvable(reason) == [error |-> reason, word |-> <<>>]

RECURSIVE ResolveText(_, _, _, _)

\* Variant: a circular reference falls back to its default.
ResolvePlaceholderLenient(variables, document, part, visited) ==
    LET key == ResolveText(variables, document, part.key, visited)
        found == Lookup(variables, document, key.word) IN
    IF key.error # "none" THEN key
    ELSE IF found # {} /\ key.word \notin visited
    THEN ResolveText(variables, document, CHOOSE text \in found : TRUE, visited \cup {key.word})
    ELSE IF part.default # <<>>
    THEN ResolveText(variables, document, part.default[1], visited)
    ELSE Unresolvable(IF found = {} THEN "unresolved" ELSE "circular")

\* resolvePlaceholder.
ResolvePlaceholder(variables, document, part, visited) ==
    LET key == ResolveText(variables, document, part.key, visited)
        found == Lookup(variables, document, key.word) IN
    IF key.error # "none" THEN key
    ELSE IF found # {}
    THEN IF key.word \in visited THEN Unresolvable("circular")
         ELSE ResolveText(variables, document, CHOOSE text \in found : TRUE,
                          visited \cup {key.word})
    ELSE IF part.default # <<>>
    THEN ResolveText(variables, document, part.default[1], visited)
    ELSE Unresolvable("unresolved")

\* resolveText: the first failing placeholder decides.
ResolveText(variables, document, text, visited) ==
    IF text = <<>> THEN Word(<<>>)
    ELSE LET first == IF IsA(Head(text), "literal") THEN Word(<<Head(text).literal>>)
                      ELSE ResolvePlaceholder(variables, document, Head(text), visited)
             rest == ResolveText(variables, document, Tail(text), visited) IN
         IF first.error # "none" THEN first
         ELSE IF rest.error # "none" THEN rest
         ELSE Word(first.word \o rest.word)

\* The parameter of Conf.
ResolveAlone(variables, document, text) == ResolveText(variables, document, text, {})

-----------------------------------------------------------------------------
(* Properties.                                                             *)

\* What a text comes to when every reference is followed, `fuel' references deep; no
\* bookkeeping of what is being resolved.
RECURSIVE Unfolded(_, _)
Unfolded(text, fuel) ==
    IF text = <<>> THEN Word(<<>>)
    ELSE LET part == Head(text)
             name == IF IsA(part, "literal") THEN Word(<<part.literal>>)
                     ELSE Unfolded(part.key, fuel)
             found == Lookup(environment, merged, name.word)
             first == IF IsA(part, "literal") \/ name.error # "none" THEN name
                      ELSE IF found = {}
                      THEN IF part.default = <<>> THEN Unresolvable("unresolved")
                           ELSE Unfolded(part.default[1], fuel)
                      ELSE IF fuel = 0 THEN Unresolvable("circular")
                      ELSE Unfolded(CHOOSE t \in found : TRUE, fuel - 1)
             rest == Unfolded(Tail(text), fuel) IN
         IF first.error # "none" THEN first
         ELSE IF rest.error # "none" THEN rest
         ELSE Word(first.word \o rest.word)

\* More references than there are names cannot follow each other without a repetition.
Endless == Cardinality(DOMAIN environment) + Cardinality(DOMAIN Relaxed)
           + Cardinality(DOMAIN merged)

\* Resolution is what following every reference comes to: a reference is reported
\* circular exactly when it could be followed for ever, never because two texts share
\* a name or a name is met again after it was resolved; and a Load goes on to bind
\* exactly when every text of the document has a value.
ResolvedAsUnfolded ==
    LET Texts == {path \in DOMAIN merged : IsA(merged[path], "text")} IN
    /\ phase = "resolve" =>
         \A path \in Texts : Resolved(path) = Unfolded(merged[path].text, Endless)
    /\ phase = "bind" =>
         \A path \in Texts :
            Unfolded(merged[path].text, Endless) = [error |-> "none", word |-> tree[path].word]
    /\ phase = "idle" /\ error \in Reasons =>
         \E path \in Texts : Unfolded(merged[path].text, Endless).error = error
=============================================================================
