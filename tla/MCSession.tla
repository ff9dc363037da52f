------------------------------ MODULE MCSession ------------------------------
(***************************************************************************)
(* What is sent and on whose word: the session alone, the session with     *)
(* approvals, the patterns of a policy, the line typed and its arguments,  *)
(* what each argument means, and the history a line is recalled from.      *)
(* `subject' is the one a behaviour is about, and the others stay as they  *)
(* began.                                                                  *)
(***************************************************************************)
EXTENDS Approval, Lookups, SequencesExt, TLC

CONSTANTS
    Subjects,           \* what behaviours are about
    MaxApproved         \* bound: commands and disconnections beside approvals

\* A read of a key the rule lists, a read that consumes it, and a command the catalog leaves
\* unclassified.
AskedFor ==
    LET ask(argv, effects, keys, origin) ==
            [argv |-> argv, effects |-> effects, keys |-> keys, bytes |-> 1, origin |-> origin]
    IN  {ask("get", {"reads"}, {"k"}, "agent"), ask("getdel", {"writes", "consumes"}, {"k"}, "agent"),
         ask("eval", {"unknown"}, {"k"}, "human")}

\* The rule a profile holds.
ReadOneKey == [keys |-> {"k"}, max_bytes |-> 1, max_calls |-> 1]

\* Patterns of up to three pieces: characters, stars and classes that the code and the server
\* read alike; and keys that hold what closes a class.
Pieces ==
    {<<"a">>, <<"b">>, <<"-">>, <<"]">>, <<"^">>, <<"*">>, <<"?">>, <<"[", "a", "]">>,
     <<"[", "^", "a", "]">>, <<"[", "b", "^", "]">>, <<"[", "-", "b", "]">>,
     <<"[", "a", "-", "b", "]">>}
PlainPatterns == {FlattenSeq(s) : s \in BoundedSeq(Pieces, 3)}
PlainKeys == BoundedSeq({"a", "b", "]"}, 3)

\* Patterns and keys with a backslash.
EscapedPatterns == BoundedSeq({"a", "*", "\\"}, 3)
EscapedKeys == BoundedSeq({"a", "\\"}, 2)
NoPatterns == {<<>>}

globVars == <<pattern, key, pi, ki, star, starK, verdict>>

-----------------------------------------------------------------------------
(* Lines. *)

CONSTANT MaxArgs
VARIABLES cmd, words

\* Completions: nothing, a word, what must be quoted, what must be escaped.
Completions == {<<>>, <<"a">>, <<"quote", "space">>, <<"\\", "x">>, <<"aa", "bell">>}

\* Commands as they are typed: a keyword, a name like one, a secret.
PlainLines == {<<"set", "k", "NX">>, <<"auth", "k">>}
NameLikeKeyword == {<<"get", "count">>}

UpperOf == ("set" :> "SET") @@ ("SET" :> "SET") @@ ("auth" :> "AUTH") @@ ("AUTH" :> "AUTH")
           @@ ("get" :> "GET") @@ ("GET" :> "GET") @@ ("count" :> "COUNT") @@ ("COUNT" :> "COUNT")
           @@ ("NX" :> "NX") @@ ("k" :> "K") @@ ("K" :> "K")

ProfileOfPlace == ("dev/0" :> "dev") @@ ("prod/0" :> "prod")

\* Descriptions in the form of a snapshot, with fewer options.
Arg(kind, name, token, flags, kids) ==
    [kind |-> kind, name |-> name, token |-> token, optional |-> "optional" \in flags,
     multiple |-> "multiple" \in flags, multiple_token |-> "multiple_token" \in flags,
     kids |-> kids]
Leaf(kind, name, flags) == Arg(kind, name, "", flags, <<>>)
Flag(token, flags) == Arg("pure-token", token, token, flags, <<>>)
Condition == Arg("oneof", "condition", "", {"optional"}, <<Flag("NX", {}), Flag("XX", {})>>)
KeyArg == Leaf("key", "key", {})

\* The shapes the documentation lists.  In each of them a repetition that is not counted comes
\* last; see the README on those where it does not.
Described == [
    SET |-> [group |-> "string", args |->
        <<KeyArg, Leaf("string", "value", {}), Condition, Flag("GET", {"optional"}),
          Arg("oneof", "expiration", "", {"optional"},
              <<Arg("integer", "seconds", "EX", {}, <<>>), Flag("KEEPTTL", {})>>)>>],
    ZADD |-> [group |-> "sorted-set", args |->
        <<KeyArg, Condition, Flag("INCR", {"optional"}),
          Arg("block", "data", "", {"multiple"},
              <<Leaf("double", "score", {}), Leaf("string", "member", {})>>)>>],
    SORT_RO |-> [group |-> "generic", args |->
        <<KeyArg, Arg("pattern", "get-pattern", "GET", {"multiple", "multiple_token", "optional"}, <<>>),
          Flag("ALPHA", {"optional"})>>],
    EVAL |-> [group |-> "scripting", args |->
        <<Leaf("string", "script", {}), Leaf("integer", "numkeys", {}),
          Leaf("key", "key", {"multiple", "optional"}),
          Leaf("string", "arg", {"multiple", "optional"})>>],
    XREAD |-> [group |-> "stream", args |->
        <<Arg("integer", "count", "COUNT", {"optional"}, <<>>),
          Arg("block", "streams", "STREAMS", {},
              <<Leaf("key", "key", {"multiple"}), Leaf("string", "id", {"multiple"})>>)>>],
    XADD |-> [group |-> "stream", args |->
        <<KeyArg, Flag("NOMKSTREAM", {"optional"}),
          Arg("oneof", "id-selector", "", {}, <<Flag("*", {}), Leaf("string", "id", {})>>),
          Arg("block", "data", "", {"multiple"},
              <<Leaf("string", "field", {}), Leaf("string", "value", {})>>)>>]]

C == INSTANCE Grammar WITH Commands <- Described, Number <- ("0" :> 0) @@ ("1" :> 1) @@ ("2" :> 2)

-----------------------------------------------------------------------------

lineVars == <<line, cursor>>
historyVars == <<rows, pruning, recalled, records, day>>
grammarVars == <<cmd, words>>

\* A step of each.
OfSession(A) ==
    subject = "session" /\ A
      /\ UNCHANGED <<subject, approvalVars, globVars, lineVars, historyVars, grammarVars>>
OfApproval(A) ==
    subject = "approval" /\ A /\ sent' <= MaxApproved
      /\ UNCHANGED <<subject, globVars, lineVars, historyVars, grammarVars>>
OfGlob(A) ==
    subject = "glob" /\ A
      /\ UNCHANGED <<subject, vars, approvalVars, lineVars, historyVars, grammarVars>>
OfLine(A) ==
    subject = "line" /\ A
      /\ UNCHANGED <<subject, vars, approvalVars, globVars, historyVars, grammarVars>>
OfHistory(A) ==
    subject = "history" /\ A
      /\ UNCHANGED <<subject, vars, approvalVars, globVars, lineVars, grammarVars>>
OfGrammar(A) ==
    subject = "grammar" /\ A
      /\ UNCHANGED <<subject, vars, approvalVars, globVars, lineVars, historyVars>>

SessionNext ==
    \/ OfSession(Next) \/ OfApproval(ApprovalNext) \/ OfGlob(G!Next)
    \/ OfLine(Q!Next) \/ OfHistory(R!Next) \/ OfGrammar(C!Next)

SessionInit ==
    /\ subject \in Subjects
    /\ ApprovalInit /\ (subject # "approval" => target = CHOOSE t \in Targets : TRUE)
    /\ C!Init /\ (subject # "grammar" => cmd = "SET")
    /\ Q!Init /\ R!Init
    /\ G!Init /\ (subject # "glob" => pattern = <<>> /\ key = <<>>)

SessionSpec ==
    /\ SessionInit
    /\ [][SessionNext]_<<subject, vars, approvalVars, globVars, lineVars, historyVars, grammarVars>>

-----------------------------------------------------------------------------

\* An argument is what the command's description says it is: see Grammar.
RolesAreTheGrammars == C!RolesAreTheGrammars
=============================================================================
