-------------------------------- MODULE Pipe --------------------------------
(***************************************************************************)
(* A piped batch: `admit' of pr-application/src/pipe.rs decodes the whole  *)
(* input frame by frame, classifies each command and asks the policy,      *)
(* and stops at the first frame that is not admitted.  Each turn of its    *)
(* loop is a step.                                                         *)
(*                                                                         *)
(* The decoder is the constant NextFrame: the frame of an input from a     *)
(* position on, [is, v, pos], where `is' is "ok", "incomplete" or "error", *)
(* v a value of Resp and pos the position behind it.  The catalog is the   *)
(* constant Catalog; the name of a command is the first token of its first *)
(* argument, in upper case.  The input fits Budget::max_frame_bytes.       *)
(***************************************************************************)
EXTENDS Integers, Sequences, SequencesExt

CONSTANTS
    NextFrame(_, _),
    Pieces,         \* what inputs are put together from: sequences of tokens
    Catalog,        \* from names to sets of effects
    MaxPieces       \* bound: pieces of an input

VARIABLES
    input,
    policy,
    offset,         \* what the decoder has consumed
    accepted,       \* the frames admitted: the arguments and effects of each
    stopped         \* "no", "clean", or the kind of PipeError: the frame's index, its offset if any

vars == <<input, policy, offset, accepted, stopped>>

Effects == {"reads", "writes", "consumes", "blocks", "admin", "destructive", "unknown"}

\* PipePolicy: what each profile may do.
Policies == [
    development |-> {"pipe", "writes", "unclassified"},
    production |-> {"pipe"},
    agent |-> {}]

\* A frame is a command if it is an array of bulk strings, and not empty.
IsCommand(v) ==
    /\ v[1] = "*" /\ v[2] # <<>>
    /\ \A i \in DOMAIN v[2] : v[2][i][1] = "$"

\* A name that is empty, or not in the catalog, is one the catalog does not know.
Classify(v) ==
    LET name == v[2][1][2]
    IN  IF name # <<>> /\ name[1].tag \in DOMAIN Catalog THEN Catalog[name[1].tag] ELSE {"unknown"}

\* Bug: only what writes is a write.
RefusedWritesOnly(effects, allow) ==
    \/ "unknown" \in effects /\ "unclassified" \notin allow
    \/ "destructive" \in effects /\ "destructive" \notin allow
    \/ "writes" \in effects /\ "writes" \notin allow

\* refuse_reason.
Refused(effects, allow) ==
    \/ "unknown" \in effects /\ "unclassified" \notin allow
    \/ "destructive" \in effects /\ "destructive" \notin allow
    \/ effects \cap {"writes", "consumes", "admin"} # {} /\ "writes" \notin allow

Running == [is |-> "no", index |-> 0, at |-> {}]

\* A refusal names its frame by index alone; the other errors also say where it begins.
Stop(why) ==
    [is |-> why, index |-> Len(accepted),
     at |-> IF why \in {"not_a_command", "malformed", "truncated"} THEN {offset} ELSE {}]

-----------------------------------------------------------------------------

\* The sequences of up to n pieces, one after the other.
Inputs(n) == {FlattenSeq(s) : s \in SeqOf(Pieces, n)}

Init ==
    /\ input \in Inputs(MaxPieces)
    /\ policy \in {Policies[p] : p \in DOMAIN Policies}
    /\ offset = 0
    /\ accepted = <<>>
    /\ stopped = Running

\* The origin may not pipe: nothing is read.
Deny ==
    /\ stopped = Running /\ "pipe" \notin policy
    /\ stopped' = Stop("refused")
    /\ UNCHANGED <<input, policy, offset, accepted>>

\* The next frame, all of it there.
Frame ==
    LET step == NextFrame(input, offset + 1)
        v == step.v
        effects == Classify(v)
    IN  /\ stopped = Running /\ "pipe" \in policy
        /\ step.is = "ok"
        /\ offset' = step.pos - 1
        /\ IF ~IsCommand(v)
           THEN stopped' = Stop("not_a_command") /\ accepted' = accepted
           ELSE IF Refused(effects, policy)
           THEN stopped' = Stop("refused") /\ accepted' = accepted
           ELSE /\ accepted' = Append(accepted, [argv |-> v[2], effects |-> effects])
                /\ stopped' = stopped
        /\ UNCHANGED <<input, policy>>

\* The end of the input, or of what can be read of it.
End ==
    LET step == NextFrame(input, offset + 1)
    IN  /\ stopped = Running /\ "pipe" \in policy
        /\ step.is # "ok"
        /\ stopped' = Stop(IF step.is = "error" THEN "malformed"
                           ELSE IF offset = Len(input) THEN "clean" ELSE "truncated")
        /\ UNCHANGED <<input, policy, offset, accepted>>

Next == Deny \/ Frame \/ End

Spec == Init /\ [][Next]_vars

ExitCode ==
    CASE stopped.is = "clean" -> "success"
      [] stopped.is = "refused" -> "policy_denied"
      [] OTHER -> "usage"

-----------------------------------------------------------------------------

Mutates(effects) == effects \cap {"writes", "consumes", "admin", "destructive", "unknown"} # {}

\* The first n frames of the input, read one after the other: the values, and the position
\* behind them.
Ok(v, pos) == [is |-> "ok", v |-> v, pos |-> pos]

Reading(n) ==
    LET f[i \in 0..n] ==
          IF i = 0 THEN Ok(<<>>, 1)
          ELSE IF f[i - 1].is # "ok" THEN f[i - 1]
          ELSE LET step == NextFrame(input, f[i - 1].pos)
               IN  IF step.is = "ok" THEN Ok(Append(f[i - 1].v, step.v), step.pos) ELSE step
    IN  f[n]

\* "every production guard is bypassable by piping" is what must not be: whatever the bytes, on
\* a production profile no accepted frame may change the server in any way, and no policy
\* accepts one that destroys; what was accepted is all of the input up to the frame that is
\* blamed, the one with the index told; that frame alone is why, and an offset that is told is
\* where it begins; success means the whole input was accepted.
AdmissionIsExact ==
    /\ \A i \in DOMAIN accepted :
         /\ policy = Policies.production => ~Mutates(accepted[i].effects)
         /\ "destructive" \notin accepted[i].effects
    /\ accepted # <<>> => "pipe" \in policy
    /\ stopped # Running =>
         LET read == Reading(stopped.index)
             blamed == NextFrame(input, read.pos)
         IN  /\ read = Ok([i \in DOMAIN accepted |-> <<"*", accepted[i].argv>>], read.pos)
             /\ stopped.at = IF ExitCode = "usage" THEN {read.pos - 1} ELSE {}
             /\ ExitCode = "success" <=> read.pos = Len(input) + 1 /\ "pipe" \in policy
             /\ stopped.is \in {"malformed", "truncated"} => blamed.is # "ok"
             /\ stopped.is = "not_a_command" => blamed.is = "ok" /\ ~IsCommand(blamed.v)
             /\ ExitCode = "policy_denied" /\ "pipe" \in policy =>
                  blamed.is = "ok" /\ IsCommand(blamed.v) /\ Mutates(Classify(blamed.v))
=============================================================================
