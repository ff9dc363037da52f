---------------------------- MODULE Passthrough ----------------------------
(***************************************************************************)
(* One command sent and its reply printed: `run' of                        *)
(* prc/src/passthrough.rs over the connection of                           *)
(* pr-transport/src/oneshot.rs.  HELLO and SELECT go first where they are  *)
(* asked for, each waiting for its reply.  The server (not in the          *)
(* repository) answers in order, sends pushes whenever it likes, is slow   *)
(* or goes away; a frame may carry an attribute where Attributes has TRUE. *)
(***************************************************************************)
EXTENDS Integers, Sequences

CONSTANTS
    Attributes,     \* whether frames carry an attribute: a subset of BOOLEAN
    MaxPushes       \* bound: push frames the server sends

VARIABLES
    asked,          \* the database the user asked for
    todo,           \* the calls still to make, the user's command the last
    call,           \* the call waiting for its reply, or "none"
    toServer,       \* commands on their way
    toClient,       \* frames on their way
    closed,         \* whether the server closed the connection
    exit,           \* the exit code, or "none"
    reply,          \* the frame taken for the reply to the user's command
    db,             \* the server's view: the database selected
    pushes,         \* pushes sent
    executed        \* the databases the user's command was executed on

vars == <<asked, todo, call, toServer, toClient, closed, exit, reply, db, pushes, executed>>

Frame(is, of, attributed) == [is |-> is, of |-> of, attributed |-> attributed]
NoFrame == Frame("none", "none", FALSE)

\* The flags -3 and -n decide which calls are made.
Init ==
    /\ asked \in {0, 1}
    /\ todo \in IF asked = 1 THEN {<<"SELECT", "COMMAND">>, <<"HELLO", "SELECT", "COMMAND">>}
                             ELSE {<<"COMMAND">>, <<"HELLO", "COMMAND">>}
    /\ call = "none" /\ toServer = <<>> /\ toClient = <<>> /\ closed = FALSE
    /\ exit = "none" /\ reply = NoFrame
    /\ db = 0 /\ pushes = 0 /\ executed = {}

-----------------------------------------------------------------------------
(* The client. *)

\* Bug: every frame is taken for a reply.
IsPushNever(f) == FALSE

\* Value::is_push, and below the match on Value::Error: neither looks inside an attribute.
IsPush(f) == f.is = "push" /\ ~f.attributed

IsError(f) == f.is = "error" /\ ~f.attributed

\* The exit code of a failure: only the user's command may have taken effect.
Failure(c) == IF c = "COMMAND" THEN "ResultUnknown" ELSE "Connection"

\* Oneshot::call writes the command; a connection gone by then fails the write.
Call ==
    /\ exit = "none" /\ call = "none"
    /\ todo' = Tail(todo) /\ call' = Head(todo)
    /\ \/ toServer' = Append(toServer, Head(todo)) /\ exit' = exit
       \/ closed /\ toServer' = toServer /\ exit' = Failure(Head(todo))
    /\ UNCHANGED <<asked, toClient, closed, reply, db, pushes, executed>>

Waiting == exit = "none" /\ call # "none"

\* read_reply passes over a push.
SkipPush ==
    /\ Waiting /\ toClient # <<>> /\ IsPush(Head(toClient))
    /\ toClient' = Tail(toClient)
    /\ UNCHANGED <<asked, todo, call, toServer, closed, exit, reply, db, pushes, executed>>

\* Any other value is the reply.  An error to HELLO or SELECT ends the run.
TakeReply ==
    /\ Waiting /\ toClient # <<>> /\ ~IsPush(Head(toClient))
    /\ LET f == Head(toClient)
       IN  /\ toClient' = Tail(toClient)
           /\ exit' = IF call = "COMMAND" THEN IF IsError(f) THEN "CommandError" ELSE "Success"
                      ELSE IF IsError(f) THEN "Connection" ELSE "none"
           /\ reply' = IF call = "COMMAND" THEN f ELSE reply
    /\ call' = "none"
    /\ UNCHANGED <<asked, todo, toServer, closed, db, pushes, executed>>

\* No whole reply: the read times out, or the server has closed the connection.
Fail ==
    /\ Waiting
    /\ exit' = Failure(call)
    /\ UNCHANGED <<asked, todo, call, toServer, toClient, closed, reply, db, pushes, executed>>

-----------------------------------------------------------------------------
(* The server. *)

\* It executes the next command, or refuses it, and answers; SELECT asks for database 1.
Serve ==
    /\ ~closed /\ toServer # <<>>
    /\ LET c == Head(toServer)
       IN  \E is \in {"ok", "error"}, attributed \in Attributes :
               /\ toClient' = Append(toClient, Frame(is, c, attributed))
               /\ db' = IF c = "SELECT" /\ is = "ok" THEN 1 ELSE db
               /\ executed' = IF c = "COMMAND" THEN executed \cup {db} ELSE executed
    /\ toServer' = Tail(toServer)
    /\ UNCHANGED <<asked, todo, call, closed, exit, reply, pushes>>

ServerPush ==
    /\ ~closed /\ pushes < MaxPushes
    /\ pushes' = pushes + 1
    /\ \E attributed \in Attributes :
           toClient' = Append(toClient, Frame("push", "none", attributed))
    /\ UNCHANGED <<asked, todo, call, toServer, closed, exit, reply, db, executed>>

ServerClose ==
    /\ ~closed /\ closed' = TRUE
    /\ UNCHANGED <<asked, todo, call, toServer, toClient, exit, reply, db, pushes, executed>>

-----------------------------------------------------------------------------

Next == Call \/ SkipPush \/ TakeReply \/ Fail \/ Serve \/ ServerPush \/ ServerClose

Spec == Init /\ [][Next]_vars

-----------------------------------------------------------------------------
(* Properties. *)

\* What the exit code says is true, whatever the server did and sent in between: a success or
\* an error is the server's answer to the user's command ("a push never occupies a command's
\* reply slot", oneshot.rs); a failure to connect means the command took no effect then and
\* takes none later; and a command meant for a database is executed on no other, for a SELECT
\* that failed, or whose answer never came, stops it.
ExitIsHonest ==
    /\ exit \in {"Success", "CommandError"} => reply.of = "COMMAND"
    /\ exit = "Connection" => executed = {} /\ "COMMAND" \notin {toServer[i] : i \in DOMAIN toServer}
    /\ executed \subseteq {asked}
=============================================================================
