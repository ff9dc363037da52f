------------------------------- MODULE Quoting -------------------------------
(***************************************************************************)
(* A line and the arguments it stands for: `split_args' and `quote' of     *)
(* pr-repl/src/quoting.rs, which decide what is sent, beside `analyse' of  *)
(* pr-intelligence/src/analyser.rs, which decides what a completion        *)
(* replaces.                                                               *)
(*                                                                         *)
(* Eight characters stand for all: two letters, of which "a" is a hex      *)
(* digit and the escape of a bell, the space, both quotes, the backslash;  *)
(* and two bytes no key types, the bell and 0xaa.  The quoting mode that   *)
(* `analyse' also reports is left out.                                     *)
(***************************************************************************)
EXTENDS Integers, Sequences, SequencesExt

CONSTANTS
    Offers,         \* what completions offer: arguments
    MaxTyped        \* bound: length of a line that is typed

VARIABLES
    line,           \* the text of the editor
    cursor          \* an offset in it

vars == <<line, cursor>>

Typed == {"a", "x", "space", "quote", "'", "\\"}
Chars == Typed \cup {"bell", "aa"}

\* Character i of the line l, or "end".
At(l, i) == IF i <= Len(l) THEN l[i] ELSE "end"

\* What follows a closing quote of a token that ends there.
Ends == {"space", "end"}

\* `\xHH' at i, with its digits before the end of the line.
IsHex(l, i) == /\ At(l, i) = "\\" /\ At(l, i + 1) = "x"
               /\ At(l, i + 2) = "a" /\ At(l, i + 3) = "a"

Escaped(e) == IF e = "a" THEN "bell" ELSE e

-----------------------------------------------------------------------------
(* Reading a line. *)

Modes == {"none", "double", "single"}

\* A turn of the loop that reads a token: it goes on at j in mode m with some bytes more, or
\* the token ends at j; `is' says how.
On(j, m, b) == [is |-> "on", next |-> j, mode |-> m, bytes |-> b]
Stop(is, j) == [is |-> is, next |-> j, mode |-> "none", bytes |-> <<>>]

\* What is read from position i on in each mode, for the turns taken at each position: how the
\* token ends, its bytes and the offset behind it.
Token(turns) ==
    LET f[i \in DOMAIN turns] ==
          [m \in Modes |->
             LET turn == turns[i][m]
                 more == f[turn.next][turn.mode]
             IN  IF turn.is = "on"
                 THEN [is |-> more.is, bytes |-> turn.bytes \o more.bytes, to |-> more.to]
                 ELSE [is |-> turn.is, bytes |-> <<>>, to |-> turn.next - 1]]
    IN  f

\* The tokens of l from position i on, up to one that fails.
Tokens(l, turns) ==
    LET token == Token(turns)
        f[i \in DOMAIN turns] ==
          LET t == token[i]["none"]
              more == f[IF At(l, i) = "space" THEN i + 1 ELSE t.to + 1]
          IN  IF At(l, i) = "end" THEN [is |-> "ok", args |-> <<>>]
              ELSE IF l[i] = "space" THEN more
              ELSE IF t.is \notin {"ok", "open"} THEN [is |-> t.is, args |-> <<>>]
              ELSE IF more.is # "ok" THEN more
              ELSE [is |-> "ok",
                    args |-> <<[bytes |-> t.bytes, from |-> i - 1, to |-> t.to,
                                open |-> t.is = "open"]>> \o more.args]
    IN  f

-----------------------------------------------------------------------------
(* split_args. *)

SplitTurn(l, i, mode) ==
    LET c == At(l, i)
        next == At(l, i + 1)
    IN  IF mode = "none"
        THEN CASE c \in Ends -> Stop("ok", i)
               [] c = "quote" -> On(i + 1, "double", <<>>)
               [] c = "'" -> On(i + 1, "single", <<>>)
               [] OTHER -> On(i + 1, mode, <<c>>)
        ELSE CASE c = "end" -> Stop("unbalanced", i)
               [] mode = "double" /\ IsHex(l, i) -> On(i + 4, mode, <<"aa">>)
               [] mode = "double" /\ c = "\\" /\ ~IsHex(l, i) ->
                     IF next = "end" THEN Stop("unbalanced", i)
                     ELSE On(i + 2, mode, <<Escaped(next)>>)
               [] mode = "single" /\ c = "\\" /\ next = "'" -> On(i + 2, mode, <<"'">>)
               [] c = (IF mode = "double" THEN "quote" ELSE "'") ->
                     IF next \in Ends THEN Stop("ok", i + 1) ELSE Stop("unspaced", i)
               [] OTHER -> On(i + 1, mode, <<c>>)

SplitTurns(l) == [i \in 1..(Len(l) + 1) |-> [m \in Modes |-> SplitTurn(l, i, m)]]

SplitArgs(l) == Tokens(l, SplitTurns(l))[1]

IsIncomplete(l) == SplitArgs(l).is = "unbalanced"

-----------------------------------------------------------------------------
(* quote. *)

QuotedChar(c) ==
    CASE c \in {"\\", "quote"} -> <<"\\", c>>
      [] c = "bell" -> <<"\\", "a">>
      [] c = "aa" -> <<"\\", "x", "a", "a">>
      [] OTHER -> <<c>>

\* What the characters from each one on are written as.
Quoted(arg) ==
    LET f[i \in 1..(Len(arg) + 1)] ==
          IF i > Len(arg) THEN <<>> ELSE QuotedChar(arg[i]) \o f[i + 1]
    IN  f

Quote(arg) ==
    IF arg # <<>> /\ Range(arg) \subseteq {"a", "x"} THEN arg
    ELSE <<"quote">> \o Quoted(arg)[1] \o <<"quote">>

-----------------------------------------------------------------------------
(* analyse. *)

\* No line stops it: quotes may be left open, and text may follow a quote.
SpanTurn(l, i, mode) ==
    LET c == At(l, i)
        next == At(l, i + 1)
    IN  IF c = "end" THEN Stop(IF mode = "none" THEN "ok" ELSE "open", i)
        ELSE IF mode = "none"
        THEN CASE c = "space" -> Stop("ok", i)
               [] c = "quote" -> On(i + 1, "double", <<>>)
               [] c = "'" -> On(i + 1, "single", <<>>)
               [] OTHER -> On(i + 1, mode, <<c>>)
        ELSE CASE mode = "double" /\ IsHex(l, i) -> On(i + 4, mode, <<"aa">>)
               [] mode = "double" /\ c = "\\" /\ ~IsHex(l, i) ->
                     IF next = "end" THEN On(i + 1, mode, <<>>)
                     ELSE On(i + 2, mode, <<Escaped(next)>>)
               [] mode = "single" /\ c = "\\" /\ next = "'" -> On(i + 2, mode, <<"'">>)
               [] c = (IF mode = "double" THEN "quote" ELSE "'") ->
                     IF next \in Ends THEN Stop("ok", i + 1) ELSE On(i + 1, "none", <<>>)
               [] OTHER -> On(i + 1, mode, <<c>>)

SpanTurns(l) == [i \in 1..(Len(l) + 1) |-> [m \in Modes |-> SpanTurn(l, i, m)]]

Spans(l) == Tokens(l, SpanTurns(l))[1].args

\* The spans, the one the cursor is in (the last of two it is between), and whether a new
\* argument is begun.
Analysis(spans, at) ==
    LET new == spans = <<>> \/ at > Last(spans).to
        under == {i \in DOMAIN spans : spans[i].from <= at /\ at <= spans[i].to}
    IN  [spans |-> spans,
         incomplete |-> \E i \in DOMAIN spans : spans[i].open,
         active |-> IF new \/ under = {} THEN 0 ELSE Max(under)]

Analyse(l, at) == Analysis(Spans(l), at)

\* Bug: a completion replaces only what is before the cursor.
ReplacementSpanToCursor(a, at) ==
    IF a.active = 0 THEN <<at, at>> ELSE <<a.spans[a.active].from, at>>

\* replacement_span, an insertion at the cursor being an empty span.
ReplacementSpan(a, at) ==
    IF a.active = 0 THEN <<at, at>>
    ELSE <<a.spans[a.active].from, a.spans[a.active].to>>

-----------------------------------------------------------------------------
(* The editor. *)

\* The line with an offer accepted in place of a span of it.
CompletedIn(l, span, arg) ==
    SubSeq(l, 1, span[1]) \o Quote(arg) \o SubSeq(l, span[2] + 1, Len(l))

Completed(l, at, arg) == CompletedIn(l, ReplacementSpan(Analyse(l, at), at), arg)

Init == line = <<>> /\ cursor = 0

Type(c) ==
    /\ Len(line) < MaxTyped
    /\ line' = SubSeq(line, 1, cursor) \o <<c>> \o SubSeq(line, cursor + 1, Len(line))
    /\ cursor' = cursor + 1

MoveLeft == cursor > 0 /\ cursor' = cursor - 1 /\ line' = line

\* A completion is accepted; the cursor goes behind it.
Complete(arg) ==
    /\ Len(line) <= MaxTyped
    /\ line' = Completed(line, cursor, arg)
    /\ cursor' = ReplacementSpan(Analyse(line, cursor), cursor)[1] + Len(Quote(arg))

Next == (\E c \in Typed : Type(c)) \/ MoveLeft \/ (\E arg \in Offers : Complete(arg))

Spec == Init /\ [][Next]_vars

-----------------------------------------------------------------------------

\* The arguments of a line the tokenizer takes.
Argv(l) == [i \in DOMAIN SplitArgs(l).args |-> SplitArgs(l).args[i].bytes]

\* "if the authoritative tokenizer would have split the line differently, the user sees one
\* command and a different one is sent" (analyser.rs): on every line the tokenizer accepts, the
\* analyser found the same arguments at the same places; it calls a line unfinished just when
\* typing more may finish it; and accepting an offer gives a line with the argument offered in
\* the place of the one under the cursor, or between its neighbours, and every other argument
\* as it was, whatever is to be quoted in it.
ShownIsSent ==
    LET split == SplitArgs(line)
        a == Analyse(line, cursor)
        n == Cardinality({i \in DOMAIN a.spans : a.spans[i].to < cursor})
        args == Argv(line)
    IN  /\ split.is = "ok" =>
             /\ ~a.incomplete
             /\ split.args = a.spans
        /\ split.is = "unbalanced" => a.incomplete
        /\ split.is = "ok" => \A arg \in Offers :
             LET l == Completed(line, cursor, arg)
             IN  /\ SplitArgs(l).is = "ok"
                 /\ Argv(l) = IF a.active # 0 THEN [args EXCEPT ![a.active] = arg]
                              ELSE SubSeq(args, 1, n) \o <<arg>> \o SubSeq(args, n + 1, Len(args))
=============================================================================
