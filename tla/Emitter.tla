------------------------------- MODULE Emitter -------------------------------
(***************************************************************************)
(* Where the frames of one command go: the flags, the emitter and the      *)
(* texts of pr-application/src/output.rs.                                  *)
(*                                                                         *)
(* A frame is a value of Resp; its texts are sequences of characters, of   *)
(* which the comma, the quote and the newline matter.  JSON is kept as a   *)
(* term: what it nests is told apart, its spelling is not.  Standard       *)
(* output and standard error are sequences of what was written, except     *)
(* that RESP is the wire's tokens and CSV its characters.  The wire trace, *)
(* a copy of each frame as it came, is `arrived'.                          *)
(***************************************************************************)
EXTENDS Resp

CONSTANTS
    Frames,         \* what a RESP3 server sends: values
    FlagLists,      \* command lines: sequences of flags, which `select' is given
    MaxArrivals     \* bound: frames

VARIABLES
    mode,           \* the output mode; "none" before the flags are read, "conflict" or "unknown" after
    protocol,       \* the RESP version negotiated
    route,          \* where pushes go
    stdout, stderr,
    pushes, replies,
    arrived,        \* the frames that came, in order
    finished

vars == <<mode, protocol, route, stdout, stderr, pushes, replies, arrived, finished>>

Comma == Token(",", 0)
QuoteMark == Token("\"", 0)
NewLine == Token("nl", 0)

-----------------------------------------------------------------------------
(* The flags: `--raw' and its like select a mode, `--output' (or `--output=...') names one. *)

Modes == {"pretty", "raw", "json", "csv", "typed-json", "ndjson", "resp", "bytes"}
Selectors == {"raw", "json", "csv", "bytes"}

Named(name) == IF name \in Modes THEN name ELSE "unknown"

\* What the flags choose, left to right; the word behind `--output' is its name.
Chosen(flags) ==
    LET name(i) == IF i < Len(flags) THEN Named(flags[i + 1]) ELSE "unknown"
        one(i) == CASE flags[i] \in Selectors -> <<flags[i]>>
                    [] flags[i] = "--output" -> <<name(i)>>
                    [] OTHER -> <<>>
        isName(i) == i > 1 /\ flags[i - 1] = "--output"
    IN  FlattenSeq([i \in DOMAIN flags |-> IF isName(i) THEN <<>> ELSE one(i)])

Select(flags) ==
    LET chosen == Chosen(flags)
    IN  CASE "unknown" \in Range(chosen) -> "unknown"
          [] chosen = <<>> -> "pretty"
          [] Len(chosen) = 1 -> chosen[1]
          [] OTHER -> "conflict"

IsEventStream(m) == m \in {"ndjson", "typed-json"}

ResolveProtocol(m, explicit) ==
    CASE explicit # 0 -> explicit
      [] explicit = 0 /\ m \in {"json", "typed-json", "resp"} -> 3
      [] OTHER -> 2

PushRoute(m, show) ==
    CASE IsEventStream(m) -> "stdout"
      [] ~IsEventStream(m) /\ show -> "stderr"
      [] OTHER -> "counted"

-----------------------------------------------------------------------------
(* The texts. *)

\* raw_text: the leaves of a value on lines of their own, without attributes.
RECURSIVE RawText(_)
RawText(v) ==
    LET lines(items) ==
            FlattenSeq([i \in DOMAIN items |->
                (IF i = 1 THEN <<>> ELSE <<NewLine>>) \o RawText(items[i])])
    IN  CASE v[1] = ":" -> <<Token(":", v[2])>>
          [] v[1] = "null" -> <<>>
          [] v[1] \in Text -> v[2]
          [] v[1] = "%" -> lines(FlattenSeq(v[2]))
          [] v[1] = "|" -> RawText(v[2][2])
          [] OTHER -> lines(v[2])

CsvCell(v) ==
    LET text == RawText(v)
        doubled == FlattenSeq([i \in DOMAIN text |->
                       IF text[i] = QuoteMark THEN <<QuoteMark, QuoteMark>> ELSE <<text[i]>>])
    IN  IF Range(text) \cap {Comma, QuoteMark, NewLine} # {}
        THEN <<QuoteMark>> \o doubled \o <<QuoteMark>>
        ELSE text

\* The values that get a cell each: the leaves of arrays and sets, the entries of a map.
RECURSIVE CsvLeaves(_)
CsvLeaves(v) ==
    CASE v[1] \in {"*", "~"} -> FlattenSeq([i \in DOMAIN v[2] |-> CsvLeaves(v[2][i])])
      [] v[1] = "%" -> FlattenSeq(v[2])
      [] OTHER -> <<v>>

Csv(v) ==
    LET leaves == CsvLeaves(v)
    IN  FlattenSeq([i \in DOMAIN leaves |->
            (IF i = 1 THEN <<>> ELSE <<Comma>>) \o CsvCell(leaves[i])]) \o <<NewLine>>

\* json_value: pairs, not an object, for a map.
RECURSIVE Json(_)
Json(v) ==
    LET all(items) == [i \in DOMAIN items |-> Json(items[i])]
        pairs(ps) == <<"list", [i \in DOMAIN ps |-> <<"list", all(ps[i])>>]>>
    IN  CASE v[1] = ":" -> <<"number", v[2]>>
          [] v[1] = "null" -> <<"null", 0>>
          [] v[1] = "=" -> <<"verbatim", v[2]>>
          [] v[1] \in {"$", "!"} -> <<"string", v[2]>>
          [] v[1] = "%" -> pairs(v[2])
          [] v[1] = "|" -> <<"attributed", <<pairs(v[2][1]), Json(v[2][2])>>>>
          [] OTHER -> <<"list", all(v[2])>>

Event(kind, seq, v) == <<"event", [kind |-> kind, seq |-> seq, type |-> v[1], value |-> Json(v)]>>

-----------------------------------------------------------------------------
(* The emitter. *)

Init ==
    /\ mode = "none" /\ protocol = 0 /\ route = "none"
    /\ stdout = <<>> /\ stderr = <<>>
    /\ pushes = 0 /\ replies = 0
    /\ arrived = <<>>
    /\ finished = FALSE

Start(flags, show, explicit) ==
    /\ mode = "none"
    /\ mode' = Select(flags)
    /\ IF mode' \in Modes
       THEN protocol' = ResolveProtocol(mode', explicit) /\ route' = PushRoute(mode', show)
       ELSE UNCHANGED <<protocol, route>>
    /\ UNCHANGED <<stdout, stderr, pushes, replies, arrived, finished>>

\* Bug: an attribute hides the push it decorates.
IsPushBare(v) == v[1] = ">"

\* is_push of output.rs.  Attributes do not decorate attributes.
IsPush(v) == v[1] = ">" \/ (v[1] = "|" /\ v[2][2][1] = ">")

\* What a server of RESP2 may send.
PlainFrame(v) == v[1] \in {":", "$", "null"} \/ (v[1] = "*" /\ \A i \in DOMAIN v[2] : v[2][i][1] \in {":", "$"})

\* The reply v, written as the mode has it.
Written(v, seq) ==
    CASE IsEventStream(mode) -> <<Event("reply", seq, v)>>
      [] mode = "resp" -> EncodeResp3(v)
      [] mode = "bytes" -> IF v[1] = "$" THEN v[2] ELSE <<>>
      [] mode = "json" -> <<<<"json", Json(v)>>>>
      [] mode = "csv" -> Csv(v)
      [] OTHER -> RawText(v) \o <<NewLine>>

\* accept: one frame.
Accept(v) ==
    LET seq == Len(arrived) + 1
        event == Event("push", seq, v)
    IN  /\ mode \in Modes /\ ~finished
        /\ Len(arrived) < MaxArrivals
        /\ protocol = 2 => PlainFrame(v)
        /\ arrived' = Append(arrived, v)
        /\ IF IsPush(v)
           THEN /\ pushes' = pushes + 1
                /\ stdout' = IF route = "stdout" THEN Append(stdout, event) ELSE stdout
                /\ stderr' = IF route = "stderr" THEN Append(stderr, event) ELSE stderr
                /\ replies' = replies
           ELSE /\ replies' = replies + 1
                /\ stdout' = stdout \o Written(v, seq)
                /\ stderr' = IF mode = "bytes" /\ v[1] # "$"
                             THEN Append(stderr, <<"not a blob", 0>>) ELSE stderr
                /\ pushes' = pushes
        /\ UNCHANGED <<mode, protocol, route, finished>>

Finish ==
    /\ mode \in Modes /\ ~finished
    /\ finished' = TRUE
    /\ stderr' = IF route = "counted" /\ pushes > 0
                 THEN Append(stderr, <<"suppressed", pushes>>) ELSE stderr
    /\ UNCHANGED <<mode, protocol, route, stdout, pushes, replies, arrived>>

Next ==
    \/ \E flags \in FlagLists, show \in BOOLEAN, explicit \in {0, 2, 3} : Start(flags, show, explicit)
    \/ \E v \in Frames : Accept(v)
    \/ Finish

Spec == Init /\ [][Next]_vars

-----------------------------------------------------------------------------
(* How a consumer reads what was written. *)

\* All the values on a wire.
RECURSIVE Values(_)
Values(wire) ==
    LET first == ParseValue(wire, 1, 0)
    IN  IF first.is # "ok" THEN (IF wire = <<>> THEN <<>> ELSE <<first>>)
        ELSE <<first.v>> \o Values(SubSeq(wire, first.pos, Len(wire)))

\* The CSV records of a text, each a sequence of cells: `cell' is the one in progress, `row' the
\* cells before it, `out' the records before those.
RECURSIVE CsvRead(_, _, _, _, _)
CsvRead(text, quoted, cell, row, out) ==
    IF text = <<>> THEN out
    ELSE LET c == Head(text)
             rest == Tail(text)
             again == rest # <<>> /\ Head(rest) = QuoteMark
         IN  CASE quoted /\ c = QuoteMark /\ again ->
                     CsvRead(Tail(rest), TRUE, Append(cell, c), row, out)
               [] c = QuoteMark /\ ~(quoted /\ again) -> CsvRead(rest, ~quoted, cell, row, out)
               [] ~quoted /\ c = Comma -> CsvRead(rest, FALSE, <<>>, Append(row, cell), out)
               [] ~quoted /\ c = NewLine ->
                     CsvRead(rest, FALSE, <<>>, <<>>, Append(out, Append(row, cell)))
               [] OTHER -> CsvRead(rest, quoted, Append(cell, c), row, out)

\* The cells a reply should have; a record is never without one.
CellsOf(v) ==
    LET leaves == CsvLeaves(v)
    IN  IF leaves = <<>> THEN <<<<>>>> ELSE [i \in DOMAIN leaves |-> RawText(leaves[i])]

Truly(v) == v[1] = ">" \/ (v[1] = "|" /\ v[2][2][1] = ">")

\* "a reply always produces exactly one record and a push never produces any" on a one-reply
\* output, and every push is told once: standard output read back is the replies alone, in
\* order, as RESP3 values, as CSV records with the cells they have, or one JSON term each; on an
\* event stream it is every frame with its place and its kind; and of each push there is one
\* event, or it is counted in the one line the end of the command writes.
OutputIsTheReplies ==
    LET own == SelectSeq(arrived, LAMBDA v : ~Truly(v))
        n == Len(arrived) - Len(own)
        eventsOf(out) == Cardinality({i \in DOMAIN out : out[i][1] = "event"})
    IN  /\ mode = "resp" =>
             Values(stdout) = [i \in DOMAIN own |-> Normal(own[i])]
        /\ mode = "csv" =>
             CsvRead(stdout, FALSE, <<>>, <<>>, <<>>) = [i \in DOMAIN own |-> CellsOf(own[i])]
        /\ mode = "json" => stdout = [i \in DOMAIN own |-> <<"json", Json(own[i])>>]
        /\ IsEventStream(mode) =>
             stdout = [i \in DOMAIN arrived |->
                          Event(IF Truly(arrived[i]) THEN "push" ELSE "reply", i, arrived[i])]
        /\ finished =>
             \/ IsEventStream(mode) /\ \A i \in DOMAIN stderr : stderr[i][1] # "suppressed"
             \/ eventsOf(stderr) = n
             \/ n > 0 /\ Last(stderr) = <<"suppressed", n>> /\ eventsOf(stderr) = 0
=============================================================================
