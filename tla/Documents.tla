------------------------------ MODULE Documents ------------------------------
(***************************************************************************)
(* JSON documents that are read and edited in place: the parser and        *)
(* `replace' of pr-json/src/dom.rs, and the paths of pr-json/src/path.rs.  *)
(*                                                                         *)
(* The source is a sequence of tokens: brackets, commas, colons and spaces *)
(* one by one, a string or a number whole.  Two strings may be spellings   *)
(* of one text, and one may have none (a lone surrogate).  A path is a     *)
(* sequence of characters.  Beside the source stands the document the user *)
(* means, a tree, which each edit changes at the place the user means.     *)
(***************************************************************************)
EXTENDS Integers, Sequences, SequencesExt, FiniteSets

CONSTANTS
    Decoded,        \* from the strings that are texts to the text: a sequence of characters
    Loose,          \* the strings that are no text
    Numbers,        \* numbers and literals
    MaxDepth,       \* Limits::max_depth
    Originals,      \* documents to begin with: trees
    Values,         \* what is put in: trees
    MaxEdits        \* bound: edits

VARIABLES
    source,         \* the document's bytes
    tree,           \* what it should hold
    edits           \* edits so far

vars == <<source, tree, edits>>

Strings == DOMAIN Decoded \cup Loose

-----------------------------------------------------------------------------
(* The parser.  What it finds at a position: a node and the position behind it. *)

Found(node, pos) == [ok |-> TRUE, node |-> node, pos |-> pos]
Fail == [ok |-> FALSE, node |-> <<>>, pos |-> 0]

Node(kind, from, to, parts) == [kind |-> kind, from |-> from, to |-> to, parts |-> parts]

At(b, i) == IF i <= Len(b) THEN b[i] ELSE "end"

RECURSIVE Ws(_, _)
Ws(b, i) == IF At(b, i) = " " THEN Ws(b, i + 1) ELSE i

\* How many of the first n members have the name of member n.
Occurrence(members, n) ==
    Cardinality({i \in 1..n : members[i].key = members[n].key})
OccurrenceTotal(members, n) ==
    Cardinality({i \in DOMAIN members : members[i].key = members[n].key})

Numbered(members) ==
    [n \in DOMAIN members |->
        [key |-> members[n].key, value |-> members[n].value,
         occurrence |-> Occurrence(members, n), total |-> OccurrenceTotal(members, n)]]

RECURSIVE Value(_, _, _), Items(_, _, _, _), Members(_, _, _, _)

\* The rest of an array, `items' being behind.
Items(b, i, depth, items) ==
    LET item == Value(b, i, depth)
        all == Append(items, item.node)
        next == Ws(b, item.pos)
    IN  IF ~item.ok THEN Fail
        ELSE CASE At(b, next) = "," -> Items(b, next + 1, depth, all)
               [] At(b, next) = "]" -> Found(all, next + 1)
               [] OTHER -> Fail

Members(b, i, depth, members) ==
    LET k == Ws(b, i)
        colon == Ws(b, k + 1)
        value == Value(b, colon + 1, depth)
        all == Append(members, [key |-> Decoded[At(b, k)], value |-> value.node])
        next == Ws(b, value.pos)
    IN  IF At(b, k) \notin DOMAIN Decoded \/ At(b, colon) # ":" \/ ~value.ok THEN Fail
        ELSE CASE At(b, next) = "," -> Members(b, next + 1, depth, all)
               [] At(b, next) = "}" -> Found(Numbered(all), next + 1)
               [] OTHER -> Fail

Value(b, i, depth) ==
    LET start == Ws(b, i)
        t == At(b, start)
        inner == Ws(b, start + 1)
        scalar(kind) == Found(Node(kind, start, start + 1, <<>>), start + 1)
        closed(kind, parts) ==
            IF parts.ok THEN Found(Node(kind, start, parts.pos, parts.node), parts.pos) ELSE Fail
    IN  IF depth >= MaxDepth THEN Fail
        ELSE CASE t \in Numbers -> scalar("number")
               [] t \in Strings -> scalar("string")
               [] t = "[" -> closed("array", IF At(b, inner) = "]" THEN Found(<<>>, inner + 1)
                                             ELSE Items(b, inner, depth + 1, <<>>))
               [] t = "{" -> closed("object", IF At(b, inner) = "}" THEN Found(<<>>, inner + 1)
                                              ELSE Members(b, inner, depth + 1, <<>>))
               [] OTHER -> Fail

\* Document::parse: one value and nothing behind it.
Parse(b) ==
    LET root == Value(b, 1, 0)
    IN  IF root.ok /\ Ws(b, root.pos) = Len(b) + 1 THEN root ELSE Fail

Raw(b, node) == SubSeq(b, node.from, node.to - 1)

RECURSIVE DuplicateMembers(_)
DuplicateMembers(node) ==
    FlattenSeq([i \in DOMAIN node.parts |->
        IF node.kind = "object"
        THEN LET m == node.parts[i]
             IN  (IF m.occurrence = 1 /\ m.total > 1 THEN <<<<m.key, m.total>>>> ELSE <<>>)
                 \o DuplicateMembers(m.value)
        ELSE DuplicateMembers(node.parts[i])])

-----------------------------------------------------------------------------
(* Paths.  A step is <<"member", name, occurrence>>, 0 for none, or <<"index", n>>. *)

Digits == <<"0", "1", "2", "3", "4", "5", "6", "7", "8", "9">>
NumberOf(text) == FoldLeft(LAMBDA n, c : 10 * n + (CHOOSE d \in 0..9 : Digits[d + 1] = c), 0, text)

\* The first position from i whose character is outside, or inside, a set.
RECURSIVE Past(_, _, _), UpTo(_, _, _)
Past(p, i, chars) == IF i <= Len(p) /\ p[i] \in chars THEN Past(p, i + 1, chars) ELSE i
UpTo(p, i, chars) == IF i <= Len(p) /\ p[i] \notin chars THEN UpTo(p, i + 1, chars) ELSE i

\* parse_occurrence at i.
ParseOccurrence(p, i) ==
    IF At(p, i) # "#" THEN Found(0, i)
    ELSE LET end == Past(p, i + 1, Range(Digits))
             n == NumberOf(SubSeq(p, i + 1, end - 1))
         IN  IF end = i + 1 \/ n = 0 THEN Fail ELSE Found(n, end)

Named(p, name, i) ==
    LET occurrence == ParseOccurrence(p, i)
    IN  IF occurrence.ok THEN Found(<<"member", name, occurrence.node>>, occurrence.pos) ELSE Fail

\* One step of a path: `.name', `["name"]' or `[n]'.
ParseStep(p, i) ==
    LET dotted == UpTo(p, i + 1, {".", "[", "#"})
        quoted == UpTo(p, i + 2, {"\""})
        index == Past(p, i + 1, Range(Digits))
    IN  CASE p[i] = "." ->
                IF dotted = i + 1 THEN Fail ELSE Named(p, SubSeq(p, i + 1, dotted - 1), dotted)
          [] p[i] = "[" /\ At(p, i + 1) = "\"" ->
                IF At(p, quoted) # "\"" \/ At(p, quoted + 1) # "]" THEN Fail
                ELSE Named(p, SubSeq(p, i + 2, quoted - 1), quoted + 2)
          [] p[i] = "[" /\ At(p, i + 1) # "\"" ->
                IF index = i + 1 \/ At(p, index) # "]" THEN Fail
                ELSE Found(<<"index", NumberOf(SubSeq(p, i + 1, index - 1))>>, index + 1)
          [] OTHER -> Fail

RECURSIVE ParseSteps(_, _, _)
ParseSteps(p, i, steps) ==
    IF i > Len(p) THEN Found(steps, i)
    ELSE LET one == ParseStep(p, i)
         IN  IF one.ok THEN ParseSteps(p, one.pos, Append(steps, one.node)) ELSE Fail

ParsePath(p) == ParseSteps(p, IF At(p, 1) = "$" THEN 2 ELSE 1, <<>>)

\* Bug: a name that several members have is the first of them.
StepFirst(node, step) ==
    LET named == SelectSeq(node.parts, LAMBDA m : m.key = step[2])
        nth == SelectSeq(named, LAMBDA m : m.occurrence = step[3])
    IN  CASE node.kind = "object" /\ step[1] = "member" ->
                IF step[3] = 0 THEN IF named # <<>> THEN Found(named[1].value, 0) ELSE Fail
                ELSE IF nth # <<>> THEN Found(nth[1].value, 0) ELSE Fail
          [] node.kind = "array" /\ step[1] = "index" ->
                IF step[2] < Len(node.parts) THEN Found(node.parts[step[2] + 1], 0) ELSE Fail
          [] OTHER -> Fail

\* step: a name that several members have needs its occurrence.
Step(node, step) ==
    LET named == SelectSeq(node.parts, LAMBDA m : m.key = step[2])
        nth == SelectSeq(named, LAMBDA m : m.occurrence = step[3])
    IN  CASE node.kind = "object" /\ step[1] = "member" ->
                IF step[3] = 0 THEN IF Len(named) = 1 THEN Found(named[1].value, 0) ELSE Fail
                ELSE IF nth # <<>> THEN Found(nth[1].value, 0) ELSE Fail
          [] node.kind = "array" /\ step[1] = "index" ->
                IF step[2] < Len(node.parts) THEN Found(node.parts[step[2] + 1], 0) ELSE Fail
          [] OTHER -> Fail

RECURSIVE Follow(_, _)
Follow(node, steps) ==
    IF steps = <<>> THEN Found(node, 0)
    ELSE LET one == Step(node, Head(steps))
         IN  IF one.ok THEN Follow(one.node, Tail(steps)) ELSE Fail

\* Document::get, of the document in b.
Get(b, path) ==
    LET doc == Parse(b)
        steps == ParsePath(path)
    IN  IF doc.ok /\ steps.ok THEN Follow(doc.node, steps.node) ELSE Fail

\* Document::replace: the bytes of the node give way, and no others.
Replace(b, path, new) ==
    LET node == Get(b, path).node
    IN  SubSeq(b, 1, node.from - 1) \o new \o SubSeq(b, node.to, Len(b))

-----------------------------------------------------------------------------
(* What the user means: trees, <<"scalar", token>>, <<"list", items, pad>> or                   *)
(* <<"object", <<<<key, value>>, ...>>, pad>>, pad being spaces around everything inside.       *)

Pad(spaced) == IF spaced THEN <<" ">> ELSE <<>>

\* Items between commas, with a pad before and behind each, or a pad where there are none.
Separated(parts, pad) ==
    IF parts = <<>> THEN pad
    ELSE FlattenSeq([i \in DOMAIN parts |->
        (IF i = 1 THEN <<>> ELSE <<",">>) \o pad \o parts[i] \o pad])

RECURSIVE Spell(_)
Spell(t) ==
    CASE t[1] = "scalar" -> <<t[2]>>
      [] t[1] = "list" ->
            <<"[">> \o Separated([i \in DOMAIN t[2] |-> Spell(t[2][i])], Pad(t[3])) \o <<"]">>
      [] t[1] = "object" ->
            LET member(m) == <<m[1]>> \o Pad(t[3]) \o <<":">> \o Pad(t[3]) \o Spell(m[2])
            IN  <<"{">> \o Separated([i \in DOMAIN t[2] |-> member(t[2][i])], Pad(t[3])) \o <<"}">>

Child(t, i) == IF t[1] = "object" THEN t[2][i][2] ELSE t[2][i]
Children(t) == IF t[1] = "scalar" THEN {} ELSE DOMAIN t[2]

\* The places in a tree: which child, which child of that.
RECURSIVE Places(_)
Places(t) ==
    {<<>>} \cup UNION {{<<i>> \o place : place \in Places(Child(t, i))} : i \in Children(t)}

RECURSIVE Subtree(_, _), Put(_, _, _), Depth(_)
Subtree(t, place) == IF place = <<>> THEN t ELSE Subtree(Child(t, Head(place)), Tail(place))

Put(t, place, new) ==
    IF place = <<>> THEN new
    ELSE LET i == Head(place)
             child == Put(Child(t, i), Tail(place), new)
         IN  IF t[1] = "object" THEN [t EXCEPT ![2][i][2] = child] ELSE [t EXCEPT ![2][i] = child]

Depth(t) == 1 + Max({0} \cup {Depth(Child(t, i)) : i \in Children(t)})

\* Members of an object with the name of member i.
Namesakes(t, i) == {j \in DOMAIN t[2] : Decoded[t[2][j][1]] = Decoded[t[2][i][1]]}

\* How a user spells a place: quoted or not, with every occurrence or with none.  A name goes
\* without quotes if no character in it would end it, and into quotes if it has none itself.
Spellable(name, quotes) ==
    IF quotes THEN "\"" \notin Range(name)
    ELSE name # <<>> /\ Range(name) \cap {".", "[", "#"} = {}

RECURSIVE SpellPlace(_, _, _, _)
SpellPlace(t, place, quotes, occurrences) ==
    IF place = <<>> THEN <<>>
    ELSE LET i == Head(place)
             name == Decoded[t[2][i][1]]
             written == IF quotes THEN <<"[", "\"">> \o name \o <<"\"", "]">> ELSE <<".">> \o name
             nth == Cardinality({j \in Namesakes(t, i) : j <= i})
             this == IF t[1] = "list" THEN <<"[", Digits[i], "]">>
                     ELSE written \o IF occurrences THEN <<"#", Digits[nth + 1]>> ELSE <<>>
         IN  this \o SpellPlace(Child(t, i), Tail(place), quotes, occurrences)

\* The objects along the way to a place, each with the member taken.
RECURSIVE Along(_, _)
Along(t, place) ==
    IF place = <<>> THEN {}
    ELSE Along(Child(t, Head(place)), Tail(place))
         \cup IF t[1] = "object" THEN {<<t, Head(place)>>} ELSE {}

Sayable(t, place, quotes) ==
    \A x \in Along(t, place) : Spellable(Decoded[x[1][2][x[2]][1]], quotes)
Ambiguous(t, place) == \E x \in Along(t, place) : Cardinality(Namesakes(x[1], x[2])) > 1

-----------------------------------------------------------------------------

Init == tree \in Originals /\ source = Spell(tree) /\ edits = 0

\* The user asks for a new value at a place, and the document is what comes back, unless the
\* path is refused.  A path without occurrences of a place that needs one means nothing.
Edit(place, quotes, occurrences, new) ==
    LET path == <<"$">> \o SpellPlace(tree, place, quotes, occurrences)
    IN  /\ edits < MaxEdits
        /\ Depth(tree) <= MaxDepth /\ Sayable(tree, place, quotes)
        /\ edits' = edits + 1
        /\ source' = IF Get(source, path).ok THEN Replace(source, path, Spell(new)) ELSE source
        /\ tree' = IF Ambiguous(tree, place) /\ ~occurrences THEN tree ELSE Put(tree, place, new)

Next ==
    \E place \in Places(tree), quotes, occurrences \in BOOLEAN, new \in Values :
        Edit(place, quotes, occurrences, new)

Spec == Init /\ [][Next]_vars

-----------------------------------------------------------------------------

\* The tree of a node, without its spaces.
RECURSIVE Plain(_), Erased(_, _)
Plain(t) ==
    CASE t[1] = "scalar" -> t
      [] t[1] = "list" -> <<"list", [i \in DOMAIN t[2] |-> Plain(t[2][i])]>>
      [] t[1] = "object" ->
            <<"object", [i \in DOMAIN t[2] |-> <<Decoded[t[2][i][1]], Plain(t[2][i][2])>>]>>
Erased(b, node) ==
    CASE node.kind \in {"number", "string"} -> <<"scalar", b[node.from]>>
      [] node.kind = "array" -> <<"list", [i \in DOMAIN node.parts |-> Erased(b, node.parts[i])]>>
      [] node.kind = "object" ->
            <<"object", [i \in DOMAIN node.parts |->
                            <<node.parts[i].key, Erased(b, node.parts[i].value)>>]>>

\* "leaving every other byte untouched", and never "a silent pick": after any edits the bytes are
\* those of the document the user means, spaces and spellings included; they parse to it, unless
\* it is too deep; the path of every place leads to the bytes of that place, in every spelling,
\* except that without occurrences it leads nowhere if a name along it is not the only one; and
\* the names that are not are listed with their number.
EditIsExact ==
    LET doc == Parse(source)
        names(t, place) ==
            {<<Decoded[m[1]], Cardinality(Namesakes(t, CHOOSE i \in DOMAIN t[2] : t[2][i] = m))>> :
                m \in Range(t[2])}
        all == {Subtree(tree, place) : place \in Places(tree)}
        repeated == UNION {{n \in names(t, <<>>) : n[2] > 1} : t \in {t \in all : t[1] = "object"}}
    IN  /\ source = Spell(tree)
        /\ doc.ok <=> Depth(tree) <= MaxDepth
        /\ doc.ok =>
             /\ Erased(source, doc.node) = Plain(tree)
             /\ Range(DuplicateMembers(doc.node)) = repeated
             /\ \A place \in Places(tree), quotes, occurrences \in BOOLEAN :
                   Sayable(tree, place, quotes) =>
                   LET got == Get(source, <<"$">> \o SpellPlace(tree, place, quotes, occurrences))
                   IN  IF Ambiguous(tree, place) /\ ~occurrences THEN ~got.ok
                       ELSE got.ok /\ Raw(source, got.node) = Spell(Subtree(tree, place))
=============================================================================
