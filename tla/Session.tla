------------------------------- MODULE Session --------------------------------
(***************************************************************************)
(* pr-core/src/session.rs: what the client believes of its connection,     *)
(* beside the connection itself as that file's comments describe it.       *)
(*                                                                         *)
(* `client' is SessionState; a command is observed when it is sent, after  *)
(* expect_reply_for_next.  `server' is the external side.  Names are seen  *)
(* in the replies of GET and kept under (db, identity_epoch), the part of  *)
(* an ObservationScope that a session decides.                             *)
(***************************************************************************)
EXTENDS Integers, Sequences

CONSTANTS
    Dbs,            \* databases SELECT names
    Channels,       \* channels SUBSCRIBE names
    InMulti,        \* names of the commands the user puts into a transaction
    Refusable,      \* names of the commands the server may refuse
    SkipsWhileOff,  \* whether the user sends CLIENT REPLY SKIP while replies are off
    MaxCommands     \* bound: commands and disconnections

VARIABLES
    client,     \* SessionState
    server,     \* the connection
    sent,       \* commands and disconnections so far
    losses,     \* ReconnectLosses of the last disconnection
    lost,       \* the connection that went down
    seen        \* names observed: the scope they are kept under, and where they live

vars == <<client, server, sent, losses, lost, seen>>

NoTx == [is |-> "none", queued |-> 0, error |-> FALSE]
Fresh(identity, scope) ==
    [resp |-> 2, db |-> 0, reply |-> "on", tx |-> NoTx, subscribed |-> FALSE,
     identity |-> identity, scope |-> scope]

\* A connection; `login' tells apart the identities it was authenticated with.
Clean(login) ==
    [db |-> 0, reply |-> "on", multi |-> FALSE, queue |-> <<>>, channels |-> {},
     login |-> login]

Command(name, arg) == [name |-> name, arg |-> arg]
Commands ==
    [name : {"SELECT"}, arg : Dbs]
      \cup [name : {"REPLY"}, arg : {"on", "off", "skip"}]
      \cup [name : {"SUBSCRIBE", "UNSUBSCRIBE"}, arg : Channels]
      \cup [name : {"HELLO 2", "HELLO 3", "HELLO 3 AUTH", "AUTH", "RESET", "MULTI", "EXEC",
                    "DISCARD", "WATCH", "UNWATCH", "GET"}, arg : {""}]

\* ReconnectLosses.
Losses(c) ==
    [had_transaction |-> c.tx.is # "none", had_subscription |-> c.subscribed,
     reply_mode_was |-> c.reply, db_was |-> c.db, protocol_was |-> c.resp]

Init ==
    /\ client = Fresh(0, 0)
    /\ server = Clean(0)
    /\ sent = 0
    /\ losses = Losses(client)
    /\ lost = server
    /\ seen = {}

-----------------------------------------------------------------------------
(* The client. *)

\* Bug: the reply mode is not looked at.
MayProbeSuppressed(c) == c.tx.is # "queuing"

\* may_probe.
MayProbe(c) == c.tx.is # "queuing" /\ c.reply = "on"

\* expect_reply_for_next: SKIP covers exactly one command.
ExpectReplyForNext(c) == [c EXCEPT !.reply = IF @ = "skip" THEN "on" ELSE @]

BumpIdentity(c) == [c EXCEPT !.identity = @ + 1, !.scope = @ + 1]

\* Bug: a clean connection starts its epochs again.
ResetFromZero(c) == Fresh(0, 0)

\* reset, and what on_disconnect leaves: clean, under new epochs.
Reset(c) == Fresh(c.identity + 1, c.scope + 1)

\* observe_command.
Observe(c, cmd) ==
    CASE cmd.name = "HELLO 2" -> [c EXCEPT !.resp = 2]
      [] cmd.name = "HELLO 3" -> [c EXCEPT !.resp = 3]
      [] cmd.name = "HELLO 3 AUTH" -> BumpIdentity([c EXCEPT !.resp = 3])
      [] cmd.name = "AUTH" -> BumpIdentity(c)
      [] cmd.name = "RESET" -> Reset(c)
      [] cmd.name = "SELECT" -> [c EXCEPT !.db = cmd.arg, !.scope = @ + 1]
      [] cmd.name = "MULTI" -> [c EXCEPT !.tx = [NoTx EXCEPT !.is = "queuing"]]
      [] cmd.name \in {"EXEC", "DISCARD"} -> [c EXCEPT !.tx = NoTx]
      [] cmd.name = "WATCH" -> [c EXCEPT !.tx.is = IF @ = "none" THEN "watching" ELSE @]
      [] cmd.name = "UNWATCH" -> [c EXCEPT !.tx.is = IF @ = "watching" THEN "none" ELSE @]
      [] cmd.name = "SUBSCRIBE" -> [c EXCEPT !.subscribed = TRUE]
      [] cmd.name = "UNSUBSCRIBE" -> [c EXCEPT !.subscribed = FALSE]
      [] cmd.name = "REPLY" -> [c EXCEPT !.reply = cmd.arg]
      [] OTHER -> [c EXCEPT !.tx.queued = IF c.tx.is = "queuing" THEN @ + 1 ELSE @]

\* note_queue_error.
NoteQueueError(c) == [c EXCEPT !.tx.error = c.tx.is = "queuing"]

-----------------------------------------------------------------------------
(* The connection. *)

\* A command takes effect.  SKIP is ignored while replies are off.
Applied(s, cmd) ==
    CASE cmd.name \in {"AUTH", "HELLO 3 AUTH"} -> [s EXCEPT !.login = sent + 1]
      [] cmd.name = "SELECT" -> [s EXCEPT !.db = cmd.arg]
      [] cmd.name = "REPLY" ->
           [s EXCEPT !.reply = IF @ = "off" /\ cmd.arg = "skip" THEN "off" ELSE cmd.arg]
      [] cmd.name = "SUBSCRIBE" -> [s EXCEPT !.channels = @ \cup {cmd.arg}]
      [] cmd.name = "UNSUBSCRIBE" -> [s EXCEPT !.channels = @ \ {cmd.arg}]
      [] OTHER -> s

\* EXEC: the queue takes effect, in its order.
Executed(s, queue) ==
    LET after[i \in 0..Len(queue)] == IF i = 0 THEN s ELSE Applied(after[i - 1], queue[i])
    IN  after[Len(queue)]

\* SKIP has covered its command, and the transaction is over.
Resumed(s) == [s EXCEPT !.reply = IF @ = "skip" THEN "on" ELSE @]
Over(s) == [s EXCEPT !.multi = FALSE, !.queue = <<>>]

\* A command arrives: inside MULTI it is queued, not applied.
Served(s, cmd) ==
    LET t == Resumed(s)
    IN  CASE cmd.name = "RESET" -> Clean(sent + 1)
          [] cmd.name = "MULTI" -> [t EXCEPT !.multi = TRUE]
          [] cmd.name = "EXEC" -> Executed(Over(t), t.queue)
          [] cmd.name = "DISCARD" -> Over(t)
          [] s.multi /\ cmd.name \notin {"WATCH", "RESET", "MULTI", "EXEC", "DISCARD"} ->
               [t EXCEPT !.queue = Append(@, cmd)]
          [] OTHER -> Applied(t, cmd)

\* A command is answered with an error and has no effect; a refused EXEC drops the queue.
Refused(s, cmd) == IF cmd.name = "EXEC" THEN Over(Resumed(s)) ELSE Resumed(s)

-----------------------------------------------------------------------------

\* The user sends a command, which the client observes whatever becomes of it; a name in the
\* reply to a GET is kept under the client's scope.
Send(cmd) ==
    /\ sent < MaxCommands
    /\ server.multi /\ cmd.name \notin {"MULTI", "EXEC", "DISCARD", "RESET", "WATCH"}
         => cmd.name \in InMulti
    /\ server.reply = "off" /\ cmd = Command("REPLY", "skip") => SkipsWhileOff
    /\ sent' = sent + 1
    /\ client' = Observe(ExpectReplyForNext(client), cmd)
    /\ \/ server' = Served(server, cmd)
       \/ cmd.name \in Refusable /\ server' = Refused(server, cmd)
    /\ seen' = IF cmd.name = "GET" /\ ~server.multi /\ server.reply = "on"
                 THEN seen \cup {[scope |-> <<client.db, client.identity>>,
                                  place |-> <<server.db, server.login>>]}
                 ELSE seen
    /\ UNCHANGED <<losses, lost>>

\* The server refuses to queue a command.
QueueRefused ==
    /\ sent < MaxCommands
    /\ server.multi /\ server.reply = "on"
    /\ sent' = sent + 1
    /\ client' = NoteQueueError(Observe(client, Command("GET", "")))
    /\ UNCHANGED <<server, losses, lost, seen>>

\* on_disconnect, and a new connection.
Disconnect ==
    /\ sent < MaxCommands
    /\ sent' = sent + 1
    /\ losses' = Losses(client)
    /\ lost' = server
    /\ client' = Reset(client)
    /\ server' = Clean(sent')
    /\ UNCHANGED seen

Next == (\E cmd \in Commands : Send(cmd)) \/ QueueRefused \/ Disconnect

Spec == Init /\ [][Next]_vars

-----------------------------------------------------------------------------

TypeOK ==
    /\ client.resp \in {2, 3} /\ client.db \in Dbs
    /\ client.reply \in {"on", "off", "skip"}
    /\ client.tx.is \in {"none", "watching", "queuing"}
    /\ client.tx.is # "queuing" => client.tx = [NoTx EXCEPT !.is = client.tx.is]
    /\ client.identity <= client.scope /\ client.scope <= sent

\* ASSIST-060/061: "never inside a transaction (it would be queued into the user's MULTI),
\* and never while replies are suppressed": where may_probe agrees, the connection itself
\* would run the probe and answer it.
ProbeIsSafe == MayProbe(client) => ~server.multi /\ server.reply = "on"

\* "Observed names are per-DB": names kept under one scope were seen in one place, under one
\* login and in the scope's own database, across RESET, AUTH and reconnections.
ScopeIsHonest ==
    \A x, y \in seen : /\ x.scope[1] = x.place[1]
                       /\ x.scope = y.scope => x.place = y.place

\* STATE-06/08: a transaction or a subscription that a disconnection destroyed is reported
\* as lost, whatever came before it.
GapIsDisclosed ==
    /\ lost.multi => losses.had_transaction
    /\ lost.channels # {} => losses.had_subscription
    /\ lost.reply # "on" => losses.reply_mode_was # "on"

\* What a connection's end takes with it is neither kept nor passed over in silence.
ReconnectIsHonest == ScopeIsHonest /\ GapIsDisclosed
=============================================================================
