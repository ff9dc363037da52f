------------------------------ MODULE Projection ------------------------------
(***************************************************************************)
(* `--json': replies as JSON documents in the shape of the official client *)
(* (pr-application/src/json_projection.rs), which loses information and    *)
(* has to say so on standard error.                                        *)
(*                                                                         *)
(* A reply is <<kind, contents>>.  A text is a model of bytes: those in    *)
(* NotUtf8 have no JSON string.  A document is a term, not a spelling.     *)
(* What was projected, [json, notices, refused], is threaded through the   *)
(* render of a reply's parts, as the two &mut arguments are.               *)
(***************************************************************************)
EXTENDS Integers, Sequences, SequencesExt

CONSTANTS
    Replies,        \* replies that arrive
    NotUtf8,        \* the texts that are not UTF-8
    NotFinite,      \* the lexemes of doubles that are inf or nan
    MaxBatch        \* bound: replies of one command line

VARIABLES
    batch,          \* the replies, in order
    strict          \* --json-strict

vars == <<batch, strict>>

Nothing == <<"nothing", 0>>
Blank == [json |-> <<"none", 0>>, notices |-> <<>>, refused |-> Nothing]

Notice(p, what) == [p EXCEPT !.notices = Append(@, what)]
Gives(p, json) == [p EXCEPT !.json = json]

-----------------------------------------------------------------------------

Str(text) == <<"string", text>>
Object(pairs) == <<"object", pairs>>

StringOrBytes(p, text, isStrict) ==
    IF text \notin NotUtf8 THEN Gives(p, Str(text))
    ELSE IF isStrict
    THEN [Gives(p, <<"null", 0>>) EXCEPT
            !.refused = IF @ = Nothing THEN <<"not utf-8", text>> ELSE @]
    ELSE Gives(Notice(p, <<"not utf-8", text>>), Object(<<<<"$bytes", <<"base64", text>>>>>>))

Double(p, lexeme) ==
    IF lexeme \in NotFinite THEN Gives(Notice(p, <<"not finite", lexeme>>), Str(lexeme))
    ELSE Gives(p, <<"number", lexeme>>)

\* from_utf8_lossy.
Lossily(text) == IF text \in NotUtf8 THEN "replaced" ELSE text

\* The keys of a map, if each is a text JSON can have for a key.
IsKey(v) == v[1] \in {"simple", "bulk"} /\ v[2] \notin NotUtf8

\* Bug: keys that were there before are not looked for.
RepeatedNever(keys) == FALSE

Repeated(keys) == Cardinality(Range(keys)) # Len(keys)

RECURSIVE Render(_, _, _), RenderAll(_, _, _, _)

\* The parts, left to right; `done' are the documents of those before.
RenderAll(p, parts, isStrict, done) ==
    IF parts = <<>> THEN Gives(p, <<"list", done>>)
    ELSE LET one == Render(p, Head(parts), isStrict)
         IN  RenderAll(one, Tail(parts), isStrict, Append(done, one.json))

\* A map is an object if it can be one, and pairs otherwise.
RenderMap(p, entries, isStrict) ==
    LET keys == [i \in DOMAIN entries |-> entries[i][1][2]]
        entry(i) == <<"array", entries[i]>>
        pairs(q) == RenderAll(q, [i \in DOMAIN entries |-> entry(i)], isStrict, <<>>)
        values == RenderAll(p, [i \in DOMAIN entries |-> entries[i][2]], isStrict, <<>>)
    IN  IF \E i \in DOMAIN entries : ~IsKey(entries[i][1])
        THEN pairs(Notice(p, <<"key is no string", 0>>))
        ELSE IF Repeated(keys) THEN pairs(Notice(p, <<"repeated keys", 0>>))
        ELSE Gives(values, Object([i \in DOMAIN entries |-> <<keys[i], values.json[2][i]>>]))

Render(p, v, isStrict) ==
    CASE v[1] \in {"simple", "bulk"} -> StringOrBytes(p, v[2], isStrict)
      [] v[1] = "integer" -> Gives(p, <<"number", v[2]>>)
      [] v[1] = "double" -> Double(p, v[2])
      [] v[1] = "big" -> Gives(p, Str(Lossily(v[2])))
      [] v[1] = "bool" -> Gives(p, v)
      [] v[1] = "null" -> Gives(p, <<"null", 0>>)
      [] v[1] \in {"array", "set", "push"} -> RenderAll(p, v[2], isStrict, <<>>)
      [] v[1] = "map" -> RenderMap(p, v[2], isStrict)
      [] v[1] = "verbatim" -> StringOrBytes(Notice(p, <<"format", v[2][1]>>), v[2][2], isStrict)
      [] v[1] = "error" -> Gives(p, Object(<<<<"error", Str(Lossily(v[2]))>>>>))
      [] v[1] = "attribute" -> Render(Notice(p, <<"attribute", 0>>), v[2][2], isStrict)

\* project, and project_many, whose documents are lines.
Project(v, isStrict) == Render(Blank, v, isStrict)
ProjectMany(vs, isStrict) ==
    IF Len(vs) = 1 THEN Project(vs[1], isStrict) ELSE RenderAll(Blank, vs, isStrict, <<>>)

RECURSIVE IsError(_)
IsError(v) == v[1] = "error" \/ (v[1] = "attribute" /\ IsError(v[2][2]))

-----------------------------------------------------------------------------

Init == batch = <<>> /\ strict \in BOOLEAN

Arrive(v) == Len(batch) < MaxBatch /\ batch' = Append(batch, v) /\ strict' = strict

Next == \E v \in Replies : Arrive(v)

Spec == Init /\ [][Next]_vars

-----------------------------------------------------------------------------
(* What a reader is entitled to know. *)

\* The reply with the distinctions the table of section 18.3 gives up on purpose: which string,
\* number, list and null it was, and whether an error was one.
RECURSIVE Familiar(_)
Familiar(v) ==
    LET each(items) == [i \in DOMAIN items |-> Familiar(items[i])]
    IN  CASE v[1] \in {"simple", "bulk", "big"} -> <<"string", v[2]>>
          [] v[1] \in {"integer", "double"} -> <<"number", v[2]>>
          [] v[1] \in {"array", "set", "push"} -> <<"list", each(v[2])>>
          [] v[1] = "map" -> <<"map", [i \in DOMAIN v[2] |-> each(v[2][i])]>>
          [] v[1] = "error" -> <<"map", <<<<<<"string", "error">>, <<"string", v[2]>>>>>>>>
          [] v[1] = "null" -> <<"null", 0>>
          [] OTHER -> v

\* What the table has no row without a loss for.
RECURSIVE Lossy(_)
Lossy(v) ==
    CASE v[1] \in {"simple", "bulk", "error", "big"} -> v[2] \in NotUtf8
      [] v[1] = "double" -> v[2] \in NotFinite
      [] v[1] \in {"verbatim", "attribute"} -> TRUE
      [] v[1] \in {"array", "set", "push"} -> \E i \in DOMAIN v[2] : Lossy(v[2][i])
      [] v[1] = "map" ->
            \/ \E i \in DOMAIN v[2] : Lossy(v[2][i][1]) \/ Lossy(v[2][i][2])
            \/ \E i \in DOMAIN v[2] : v[2][i][1][1] \notin {"simple", "bulk"}
            \/ \E i, j \in DOMAIN v[2] : i # j /\ v[2][i][1][2] = v[2][j][1][2]
      [] OTHER -> FALSE

Quiet(p) == p.notices = <<>> /\ p.refused = Nothing

\* The replies that are projected to the document json without a word, and with the exit code.
SilentlyAs(json, isError) ==
    {w \in Replies : LET p == Project(w, strict)
                     IN  Quiet(p) /\ p.json = json /\ IsError(w) = isError}

\* "Every place this projection throws information away, it says so on stderr": two replies that
\* come out as one document and one exit code without a word differ only in what the table gives
\* up on purpose, an error of the whole command not being that; a batch is quiet exactly if
\* nothing in it loses anything, however deep; it has a document per reply, the one the reply has
\* alone; and --json-strict refuses it exactly if a text of it has no JSON form.
LossIsTold ==
    batch # <<>> =>
    LET p == ProjectMany(batch, strict)
        alone == [i \in DOMAIN batch |-> Project(batch[i], strict).json]
        lenient == ProjectMany(batch, FALSE)
        first == batch[1]
    IN  /\ Quiet(p) <=> \A i \in DOMAIN batch : ~Lossy(batch[i])
        /\ p.json = IF Len(batch) = 1 THEN alone[1] ELSE <<"list", alone>>
        /\ Len(batch) = 1 /\ Quiet(p) =>
             \A w \in SilentlyAs(p.json, IsError(first)) :
                 Familiar(w) = Familiar(first) /\ (w[1] = "error") = (first[1] = "error")
        /\ p.refused # Nothing <=>
             strict /\ \E i \in DOMAIN lenient.notices : lenient.notices[i][1] = "not utf-8"
=============================================================================
