------------------------------- MODULE Grammar -------------------------------
(***************************************************************************)
(* What each argument of a command means: a snapshot's description of its  *)
(* arguments is compiled into a grammar (pr-catalog/src/compile.rs), and   *)
(* the grammar is walked along the words typed so far (pr-catalog/src/     *)
(* spec.rs).                                                               *)
(*                                                                         *)
(* A word is all upper case, as keywords are compared.  A role that is not *)
(* a name, a keyword or a count of keys is "integer", "score", "pattern",  *)
(* "cursor" or "value"; units are left out.                                *)
(***************************************************************************)
EXTENDS Integers, Sequences, SequencesExt, FiniteSets

CONSTANTS
    Commands,       \* from names to descriptions: [group, args]
    Number,         \* from the words that are numbers to their values
    MaxArgs         \* bound: words typed

VARIABLES
    cmd,            \* the command being typed
    words           \* its arguments so far

vars == <<cmd, words>>

-----------------------------------------------------------------------------
(* compile.rs. *)

\* leaf_role: by type, then by name, one spelling of a name for all it has.
LeafRole(arg, group) ==
    IF arg.kind \in {"key", "pattern"} THEN arg.kind
    ELSE IF arg.kind = "unix-time" THEN "integer"
    ELSE
    CASE arg.name \in {"numkeys", "field", "member", "group", "channel", "consumer", "cursor"} ->
            arg.name
      [] arg.name = "score" /\ arg.kind = "double" -> "score"
      [] arg.name = "id" /\ group = "stream" -> "id"
      [] arg.name \in {"seconds", "milliseconds", "timeout"} -> "integer"
      [] OTHER -> IF arg.kind = "integer" THEN "integer" ELSE "value"

Keyword(text) == <<"token", text>>

\* Two repeated leaves side by side, neither with a keyword.
IsPaired(kids) ==
    /\ Len(kids) = 2
    /\ \A i \in 1..2 : /\ kids[i].multiple /\ ~kids[i].optional
                       /\ kids[i].token = "" /\ kids[i].kids = <<>>

\* wrap: the keyword in front, of all or of each, the repetition, the option.
Wrap(arg, inner) ==
    LET led == arg.kind # "pure-token" /\ arg.token # ""
        lead(n) == IF led THEN <<"seq", <<Keyword(arg.token), n>>>> ELSE n
        repeat(n) == IF arg.multiple THEN <<"repeat", n>> ELSE n
        body == IF arg.multiple_token THEN repeat(lead(inner)) ELSE lead(repeat(inner))
    IN  IF arg.optional THEN <<"optional", body>> ELSE body

RECURSIVE NodeFrom(_, _)
NodeFrom(arg, group) ==
    LET kids == [i \in DOMAIN arg.kids |-> NodeFrom(arg.kids[i], group)]
    IN  Wrap(arg,
          CASE arg.kind = "pure-token" -> Keyword(arg.token)
            [] arg.kind = "oneof" -> <<"choice", kids>>
            [] arg.kind = "block" ->
                  IF IsPaired(arg.kids)
                  THEN <<"paired", <<LeafRole(arg.kids[1], group), LeafRole(arg.kids[2], group)>>>>
                  ELSE <<"seq", kids>>
            [] OTHER -> <<"arg", LeafRole(arg, group)>>)

CompileCommand(c) == <<"seq", [i \in DOMAIN c.args |-> NodeFrom(c.args[i], c.group)]>>

-----------------------------------------------------------------------------
(* The walker of spec.rs: w = [args, out, numkeys]; its place is behind `out'. *)

Unseen == -2
Unparsed == -1

Here(w) == Len(w.out) + 1
More(w) == Here(w) <= Len(w.args)
Matches(w, text) == More(w) /\ w.args[Here(w)] = text
Take(w, role) == IF More(w) THEN [w EXCEPT !.out = Append(@, role)] ELSE w

\* The keywords a node may begin with, or {} if it begins with an argument.
RECURSIVE LeadingTokens(_)
LeadingTokens(node) ==
    CASE node[1] = "token" -> {node[2]}
      [] node[1] \in {"optional", "repeat"} -> LeadingTokens(node[2])
      [] node[1] = "seq" -> IF node[2] = <<>> THEN {} ELSE LeadingTokens(node[2][1])
      [] node[1] = "choice" ->
            LET each == {LeadingTokens(node[2][i]) : i \in DOMAIN node[2]}
            IN  IF {} \in each THEN {} ELSE UNION each
      [] OTHER -> {}

StartsWithMatchingToken(w, node) == \E t \in LeadingTokens(node) : Matches(w, t)
MayStart(w, node) == LeadingTokens(node) = {} \/ StartsWithMatchingToken(w, node)

\* The alternative whose keyword is there, or else the first one without a keyword; 0 if neither.
Chosen(w, alts) ==
    LET led == {i \in DOMAIN alts : StartsWithMatchingToken(w, alts[i])}
        plain == {i \in DOMAIN alts : LeadingTokens(alts[i]) = {}}
    IN  CASE led # {} -> Min(led) [] led = {} /\ plain # {} -> Min(plain) [] OTHER -> 0

\* Bug: a count that is no number is no count.
NumKeysLoose(word) == IF word \in DOMAIN Number THEN Number[word] ELSE Unseen

NumKeys(word) == IF word \in DOMAIN Number THEN Number[word] ELSE Unparsed

WalkPaired(w, roles) ==
    LET rest == Len(w.args) - Len(w.out)
        firsts == (rest + 1) \div 2
    IN  [w EXCEPT !.out = @ \o [n \in 1..rest |-> roles[IF n <= firsts THEN 1 ELSE 2]]]

\* At most n keys.
TakeKeys(w, n) ==
    LET rest == Len(w.args) - Len(w.out)
    IN  [w EXCEPT !.out = @ \o [i \in 1..(IF n < rest THEN n ELSE rest) |-> "key"],
                  !.numkeys = Unseen]

RECURSIVE Walk(_, _), WalkSeq(_, _), WalkRepeat(_, _)

WalkSeq(w, items) == IF items = <<>> THEN w ELSE WalkSeq(Walk(w, Head(items)), Tail(items))

\* A repetition of keys behind a count takes just so many; any other all it can.
WalkRepeat(w, inner) ==
    IF w.numkeys # Unseen /\ inner = <<"arg", "key">>
    THEN TakeKeys(w, IF w.numkeys = Unparsed THEN 0 ELSE w.numkeys)
    ELSE IF ~More(w) \/ ~MayStart(w, inner) THEN w
    ELSE LET next == Walk(w, inner)
         IN  IF next.out = w.out THEN next ELSE WalkRepeat(next, inner)

Walk(w, node) ==
    IF ~More(w) THEN w
    ELSE CASE node[1] = "token" -> IF Matches(w, node[2]) THEN Take(w, "keyword") ELSE w
           [] node[1] = "arg" ->
                 Take([w EXCEPT !.numkeys = IF node[2] = "numkeys" THEN NumKeys(w.args[Here(w)])
                                            ELSE @], node[2])
           [] node[1] = "seq" -> WalkSeq(w, node[2])
           [] node[1] = "optional" -> IF MayStart(w, node[2]) THEN Walk(w, node[2]) ELSE w
           [] node[1] = "choice" ->
                 LET i == Chosen(w, node[2]) IN IF i = 0 THEN w ELSE Walk(w, node[2][i])
           [] node[1] = "repeat" -> WalkRepeat(w, node[2])
           [] node[1] = "paired" -> WalkPaired(w, node[2])

\* resolve_roles: what the grammar does not reach is a value.
ResolveRoles(grammar, args) ==
    LET w == Walk([args |-> args, out |-> <<>>, numkeys |-> Unseen], grammar)
    IN  w.out \o [i \in 1..(Len(args) - Len(w.out)) |-> "value"]

-----------------------------------------------------------------------------

Init == cmd \in DOMAIN Commands /\ words = <<>>

\* The words a user types for a command: its keywords, numbers and a name.
RECURSIVE Tokens(_)
Tokens(arg) == ({arg.token} \ {""}) \cup UNION {Tokens(arg.kids[i]) : i \in DOMAIN arg.kids}

Vocabulary(c) == UNION {Tokens(c.args[i]) : i \in DOMAIN c.args} \cup DOMAIN Number \cup {"NAME"}

Type(word) == Len(words) < MaxArgs /\ words' = Append(words, word) /\ cmd' = cmd

Next == \E word \in Vocabulary(Commands[cmd]) : Type(word)

Spec == Init /\ [][Next]_vars

-----------------------------------------------------------------------------
(* The readings of a command: every way its description allows. *)

\* The words a leaf of this role may be.
IsA(role, word) == role \in {"numkeys", "integer", "score", "id"} => word \in DOMAIN Number

\* From the readings `from' of a beginning (roles so far, and how many keys were announced), those
\* that end behind the argument.
RECURSIVE Readings(_, _, _, _), ReadAll(_, _, _, _), ReadMany(_, _, _, _)

ReadAll(from, kids, group, args) ==
    IF kids = <<>> THEN from
    ELSE ReadAll(Readings(from, Head(kids), group, args), Tail(kids), group, args)

\* One or more.
ReadMany(from, arg, group, args) ==
    LET once == Readings(from, [arg EXCEPT !.multiple = FALSE, !.optional = FALSE], group, args)
    IN  IF once \subseteq from THEN from \cap once
        ELSE once \cup ReadMany(once, arg, group, args)

Readings(from, arg, group, args) ==
    LET place(r) == Len(r.roles) + 1
        there(r) == place(r) <= Len(args)
        led == IF arg.token = "" THEN from
               ELSE {[r EXCEPT !.roles = Append(@, "keyword")] :
                        r \in {r \in from : there(r) /\ args[place(r)] = arg.token}}
        \* Keys that were announced are all there.
        counted == {r \in from : arg.multiple /\ arg.kind = "key" /\ r.keys # Unseen}
        bare == [arg EXCEPT !.token = "", !.optional = FALSE]
        leaf == LeafRole(arg, group)
        pairs(r) ==
            {[r EXCEPT !.roles = @ \o [i \in 1..n |-> LeafRole(arg.kids[1], group)]
                                   \o [i \in 1..n |-> LeafRole(arg.kids[2], group)]] :
                n \in {n \in 1..Len(args) : Len(r.roles) + 2 * n = Len(args)}}
        keys(r) == LET n == IF r.keys = Unseen THEN 0 ELSE r.keys
                   IN  IF Len(r.roles) + n > Len(args) THEN {}
                       ELSE {[r EXCEPT !.roles = @ \o [i \in 1..n |-> "key"]]}
    IN  IF arg.optional
        THEN (from \ counted) \cup Readings(from, [arg EXCEPT !.optional = FALSE], group, args)
        ELSE IF arg.kind = "pure-token" THEN led
        ELSE IF arg.token # "" /\ ~(arg.multiple /\ arg.multiple_token)
        THEN Readings(led, bare, group, args)
        ELSE IF arg.multiple
        THEN UNION {keys(r) : r \in counted} \cup ReadMany(from \ counted, arg, group, args)
        ELSE CASE arg.kind = "oneof" ->
                     UNION {Readings(from, arg.kids[i], group, args) : i \in DOMAIN arg.kids}
               [] arg.kind = "block" ->
                     IF IsPaired(arg.kids) THEN UNION {pairs(r) : r \in from}
                     ELSE ReadAll(from, arg.kids, group, args)
               [] OTHER ->
                     {[roles |-> Append(r.roles, leaf),
                       keys |-> IF leaf = "numkeys" THEN Number[args[place(r)]] ELSE r.keys] :
                          r \in {r \in from : there(r) /\ IsA(leaf, args[place(r)])}}

\* The roles of every reading of all the words.
Meanings(c, args) ==
    LET all == ReadAll({[roles |-> <<>>, keys |-> Unseen]}, c.args, c.group, args)
    IN  {r.roles : r \in {r \in all : Len(r.roles) = Len(args)}}

\* "a literal is decided by position, not by matching the word", "ZADD must not swap score and
\* member", "guessing turns into a routing decision": a command that can be read as its
\* description has it is given the roles of such a reading; and whatever is typed, no word behind
\* a count of keys is promoted to a key beyond that count, a count that is no number being none.
RolesAreTheGrammars ==
    LET c == Commands[cmd]
        roles == ResolveRoles(CompileCommand(c), words)
        meanings == Meanings(c, words)
        count == SelectSeq([i \in DOMAIN words |-> i], LAMBDA i : roles[i] = "numkeys")
        announced == IF count = <<>> THEN Len(words)
                     ELSE IF words[count[1]] \in DOMAIN Number THEN Number[words[count[1]]] ELSE 0
    IN  /\ Len(roles) = Len(words)
        /\ meanings # {} => roles \in meanings
        /\ count # <<>> =>
             Cardinality({i \in DOMAIN roles : i > count[1] /\ roles[i] = "key"}) <= announced
=============================================================================
