------------------------------ MODULE MCReplies ------------------------------
(***************************************************************************)
(* What becomes of a command and its replies: admitted from a pipe;        *)
(* decoded whole or streamed and put together again; printed as the answer *)
(* to one command, in the mode the flags choose, as JSON or as a table;    *)
(* retained in the result store, edited as a JSON document, or recorded as *)
(* the message of a subscription.  The nine share no state: `subject' is   *)
(* the one a behaviour is about, and the others stay as they began.        *)
(***************************************************************************)
EXTENDS Replies, TLC

VARIABLE subject

CONSTANTS MaxDepth, MaxElements, MaxBulk, MaxFrame, StreamAbove, MaxStreamed, MaxWire
VARIABLES sent, decoder, streamer, reassembler

CONSTANT MaxArrivals
VARIABLES mode, protocol, route, stdout, stderr, told, replies, frames, finished

CONSTANT MaxBatch
VARIABLES batch, strict

CONSTANT MaxEdits
VARIABLES source, tree, edits

-----------------------------------------------------------------------------
(* Inputs. *)

Header(tag, n) == [tag |-> tag, n |-> n]

\* What the peer sends: aggregates, streamed ones and attributes; texts, long, short and in
\* chunks; attributes of nothing, errors and verbatim strings.
Alphabets ==
    {{Header("*", 2), Header("*", 0), Header("*", -2), Header("%", -2), Header("|", 1),
      Header(".", 0), Header(":", 1)},
     {Header(">", 1), Header("$", 1), Header("$", 2), Header("$", -2), Header(";", 1),
      Header(";", 0), Header("crlf", 0)},
     {Header("|", 0), Header("%", 1), Header("$", -1), Header("!", 0), Header("=", 1),
      Header("=", 3), Header("xxx:", 0), Header("crlf", 0)}}

\* Replies and pushes, bare and with an attribute; texts of every character CSV minds.
Number(n) == <<":", n>>
Bulk(text) == <<"$", text>>
Annotated(v) == <<"|", <<<<<<Bulk(<<Header("a", 0)>>), Number(1)>>>>, v>>>>
Frames ==
    {Bulk(<<Header(",", 0), Header("\"", 0)>>), Bulk(<<>>), <<"null", "*">>,
     <<"*", <<Bulk(<<Header("nl", 0)>>), Number(1)>>>>, <<"*", <<>>>>,
     <<"%", <<<<Bulk(<<Header("*", 1)>>), <<"~", <<Number(1), Number(2)>>>>>>>>>>,
     <<">", <<Bulk(<<Header("a", 0)>>)>>>>,
     Annotated(<<">", <<Number(1)>>>>),
     Annotated(<<"*", <<Number(1), <<"=", <<Header("a", 0)>>>>>>>>)}

\* Command lines: a mode of its own, one by name, none, two, and a name that is missing.
FlagLists ==
    {<<>>, <<"raw">>, <<"csv">>, <<"bytes">>, <<"json">>, <<"--output", "ndjson">>,
     <<"--output", "resp">>, <<"--output", "typed-json">>, <<"--output">>,
     <<"--output", "csv", "csv">>, <<"other", "--output", "--output">>}

\* Commands of one word and what else inputs are made of: a command whose argument looks like a
\* header, headers without what they announce, an open array and its end, other values, odd ends.
Word(name) == <<Header("$", 1), Header(name, 0), Header("crlf", 0)>>
Command(name) == <<Header("*", 1)>> \o Word(name)
Piped ==
    {Command(name) : name \in {"get", "set", "xreadgroup", "config", "flushall", "odd"}}
    \cup {<<Header("*", 2)>> \o Word("get")
             \o <<Header("$", 2), Header("*", 1), Header("$", 1), Header("crlf", 0)>>}
    \cup {Word("get"), <<Header("$", 1), Header("$", 1)>>, <<Header("get", 0), Header("crlf", 0)>>}
    \cup {<<Header(h[1], h[2])>> :
             h \in {<<"*", 2>>, <<"*", -2>>, <<".", 0>>, <<"*", 0>>, <<":", 1>>, <<"%", 1>>,
                    <<"crlf", 0>>, <<"$", 1>>}}
Known ==
    [get |-> {"reads"}, set |-> {"writes"}, xreadgroup |-> {"reads", "consumes"},
     config |-> {"admin"}, flushall |-> {"writes", "destructive", "admin"}]

\* Lines of n characters one column wide.
Ones(n) == [i \in 1..n |-> 1]
ColumnTitles == <<Ones(4), Ones(5)>>
NoCell == Ones(9)
TableCells == {<<Ones(6)>>, <<Ones(1), <<2, 2, 2, 1>>>>, <<>>}

\* Replies to project: texts and numbers with and without a JSON form, errors, and maps whose
\* keys repeat, are no text, or spell what an error comes out as; in a list, alone, annotated.
\* No error that is not UTF-8: its bytes are replaced without a notice.
Leaves ==
    {<<"simple", "a">>, <<"bulk", "a">>, <<"bulk", "raw">>, <<"integer", "1">>, <<"double", "1">>,
     <<"double", "inf">>, <<"big", "1">>, <<"bool", "true">>, <<"null", 0>>,
     <<"verbatim", <<"txt", "a">>>>, <<"error", "a">>}
Keys == {<<"bulk", "a">>, <<"simple", "a">>, <<"bulk", "error">>, <<"bulk", "raw">>,
         <<"integer", "1">>}
Maps ==
    {<<"map", <<>>>>} \cup {<<"map", <<<<k, v>>>>>> : k \in Keys, v \in {<<"bulk", "a">>, <<"double", "inf">>}}
    \cup {<<"map", <<<<k, <<"bulk", "a">>>>, <<<<"bulk", "a">>, <<"integer", "1">>>>>>>> : k \in Keys}
Projected ==
    Leaves \cup Maps
    \cup {<<kind, <<v, <<"big", "1">>>>>> : kind \in {"array", "push"}, v \in Leaves}
    \cup {<<"set", <<v>>>> : v \in Maps}
    \cup {<<"attribute", <<<<>>, v>>>> : v \in Leaves \cup {<<"attribute", <<<<>>, <<"error", "a">>>>>>}}

\* Documents to edit: two spellings of one name, a name that looks like a path, none at all, and
\* a string that is no text.
Scalar(token) == <<"scalar", token>>
Texts == "'a'" :> <<"a">> @@ "'\\u0061'" :> <<"a">> @@ "'a#1'" :> <<"a", "#", "1">> @@ "''" :> <<>>
Documents ==
    {<<"object", <<<<"'a'", Scalar("1")>>, <<"'\\u0061'", Scalar("1.0")>>>>, TRUE>>,
     <<"object", <<<<"'a#1'", <<"list", <<Scalar("1"), Scalar("'a'")>>, FALSE>>>>,
                   <<"'a'", Scalar("1")>>>>, FALSE>>,
     <<"list", <<>>, TRUE>>}
NewValues ==
    {Scalar("1.0"), Scalar("'\\ud800'"), <<"list", <<<<"list", <<Scalar("1")>>, TRUE>>>>, FALSE>>,
     <<"object", <<<<"''", Scalar("1")>>, <<"'a'", Scalar("1")>>, <<"'a'", Scalar("1")>>>>, TRUE>>}

-----------------------------------------------------------------------------

D == INSTANCE Streamer
O == INSTANCE Emitter WITH MaxBulk <- 9, pushes <- told, arrived <- frames
W == INSTANCE Resp WITH MaxBulk <- 9
PipedFrame(b, i) == W!ParseValue(b, i, 0)
J == INSTANCE Projection WITH
        Replies <- Projected, NotUtf8 <- {"raw"}, NotFinite <- {"inf"}
E == INSTANCE Documents WITH
        Decoded <- Texts, Loose <- {"'\\ud800'"}, Numbers <- {"1", "1.0"},
        MaxDepth <- 3, Originals <- Documents, Values <- NewValues

subscriptionVars == <<entries, bytes, received, dropped, arrived>>
streamerVars == <<sent, decoder, streamer, reassembler>>
passthroughVars == <<asked, todo, call, toServer, toClient, closed, exit, reply, db, pushes,
                     executed>>
emitterVars == <<mode, protocol, route, stdout, stderr, told, replies, frames, finished>>
pipeVars == <<input, policy, offset, accepted, stopped>>
tableVars == <<rows, frozen, shown>>
projectionVars == <<batch, strict>>
documentVars == <<source, tree, edits>>

all == <<subject, vars, subscriptionVars, streamerVars, passthroughVars, emitterVars, pipeVars,
         tableVars, projectionVars, documentVars>>

\* A step of the subject s: nothing else changes.
Of(s, Step) ==
    /\ subject = s
    /\ Step
    /\ subject' = subject
    /\ IF s = "store" THEN TRUE ELSE UNCHANGED vars
    /\ IF s = "subscription" THEN TRUE ELSE UNCHANGED subscriptionVars
    /\ IF s = "streamer" THEN TRUE ELSE UNCHANGED streamerVars
    /\ IF s = "command" THEN TRUE ELSE UNCHANGED passthroughVars
    /\ IF s = "output" THEN TRUE ELSE UNCHANGED emitterVars
    /\ IF s = "pipe" THEN TRUE ELSE UNCHANGED pipeVars
    /\ IF s = "table" THEN TRUE ELSE UNCHANGED tableVars
    /\ IF s = "projection" THEN TRUE ELSE UNCHANGED projectionVars
    /\ IF s = "document" THEN TRUE ELSE UNCHANGED documentVars

RepliesNext ==
    \/ Of("store", Next)
    \/ Of("subscription", S!Next)
    \/ Of("streamer", D!Next)
    \/ Of("command", P!Next)
    \/ Of("output", O!Next)
    \/ Of("pipe", Adm!Next)
    \/ Of("table", T!Next)
    \/ Of("projection", J!Next)
    \/ Of("document", E!Next)

RepliesInit ==
    /\ subject \in {"store", "subscription", "streamer", "command", "output", "pipe", "table",
                   "projection", "document"}
    /\ Adm!Init /\ (subject # "pipe" => input = <<>> /\ policy = {})
    /\ P!Init /\ (subject # "command" => todo = <<"COMMAND">>)
    /\ J!Init /\ (subject # "projection" => ~strict)
    /\ E!Init /\ (subject # "document" => tree = <<"list", <<>>, TRUE>>)
    /\ Init /\ S!Init /\ D!Init /\ O!Init /\ T!Init

RepliesSpec ==
    /\ RepliesInit
    /\ [][RepliesNext]_all

-----------------------------------------------------------------------------

\* Streaming a reply gives the values decoding it gives, and what is written as RESP3 reads as
\* the same value: see Streamer.
SameValues == subject = "streamer" => D!SameValues /\ D!ReencodedIsTheSame

\* Standard output is the replies, and every push is told once: see Emitter.
OutputIsTheReplies == O!OutputIsTheReplies

\* What JSON cannot say of a reply is told on standard error: see Projection.
LossIsTold == subject = "projection" => J!LossIsTold

\* An edit changes the bytes of the place that is meant and no others: see Documents.
EditIsExact == subject = "document" => E!EditIsExact
=============================================================================
