----------------------------- MODULE SessionProofs -----------------------------
(***************************************************************************)
(* The session, the approvals over it, the patterns of a policy and the    *)
(* history, for any databases, channels, requests, tools, targets, rule,   *)
(* patterns, keys, lines and processes.                                    *)
(*                                                                         *)
(* The client follows a command when it is sent, the server when it runs,  *)
(* for SELECT, AUTH and CLIENT REPLY inside a transaction when EXEC runs   *)
(* it, and not at all where it refuses it: the theorems say which commands *)
(* are kept out of MULTI, and which ones the server does not refuse.       *)
(***************************************************************************)
EXTENDS Approval, Lookups, WellFoundedInduction, TLAPS

-----------------------------------------------------------------------------
(* EXEC, by induction over the queue. *)

LEMMA Least ==
    ASSUME NEW T, T \subseteq Nat, T # {}
    PROVE  \E n \in T : \A m \in T : n <= m
<1> DEFINE Less == OpToRel(<, Nat)
<1>1. IsWellFoundedOn(Less, Nat)
  BY NatLessThanWellFounded
<1>2. \E x \in T : \A y \in T : ~ (<<y, x>> \in Less)
  <2> HIDE DEF Less
  <2> QED
    BY <1>1, WFMin, Zenon
<1>3. \A x, y \in Nat : <<y, x>> \in Less <=> y < x
  BY DEF OpToRel
<1> HIDE DEF Less
<1>4. PICK x \in T : \A y \in T : ~ (<<y, x>> \in Less)
  BY <1>2
<1>5. \A y \in T : ~ (y < x)
  BY <1>3, <1>4
<1> QED
  BY <1>4, <1>5

\* The states of a connection after 0, 1, ..., n commands of a queue.
Stages(g, s, queue, n) ==
    g = [i \in 0..n |-> IF i = 0 THEN s ELSE Applied(g[i - 1], queue[i])]

\* There are such states, however long the queue is.
LEMMA StagesExist ==
    ASSUME NEW s, NEW queue, NEW n \in Nat
    PROVE  \E g : Stages(g, s, queue, n)
<1> DEFINE T == {m \in Nat : ~ \E g : Stages(g, s, queue, m)}
<1> SUFFICES ASSUME T # {} PROVE FALSE
  OBVIOUS
<1>1. PICK m \in T : \A k \in T : m <= k
  BY Least
<1>2. m # 0
  <2> DEFINE g == [i \in 0..0 |-> s]
  <2>1. Stages(g, s, queue, 0)
    BY DEF Stages
  <2> QED
    BY <2>1
<1>3. m - 1 \in Nat /\ m - 1 \notin T
  BY <1>1, <1>2
<1>4. PICK g : Stages(g, s, queue, m - 1)
  BY <1>3
<1> DEFINE h == [i \in 0..m |-> IF i <= m - 1 THEN g[i] ELSE Applied(g[m - 1], queue[m])]
<1>5. \A i \in 0..m : h[i] = IF i = 0 THEN s ELSE Applied(h[i - 1], queue[i])
  <2> TAKE i \in 0..m
  <2>1. CASE i = 0
    BY <1>3, <1>4, <2>1 DEF Stages
  <2>2. CASE i \in 1..(m - 1)
    BY <1>3, <1>4, <2>2 DEF Stages
  <2>3. CASE i = m
    BY <1>2, <1>3, <2>3
  <2> QED
    BY <2>1, <2>2, <2>3
<1>6. Stages(h, s, queue, m)
  BY <1>5 DEF Stages
<1> QED
  BY <1>6

LEMMA ExecutedStages ==
    ASSUME NEW s, NEW queue, Len(queue) \in Nat
    PROVE  \E g : Stages(g, s, queue, Len(queue)) /\ Executed(s, queue) = g[Len(queue)]
<1> DEFINE n == Len(queue)
           g == CHOOSE g : Stages(g, s, queue, n)
<1>1. Executed(s, queue) = g[n]
  BY DEF Executed, Stages
<1>2. Stages(g, s, queue, n)
  BY StagesExist
<1> HIDE DEF g
<1> QED
  BY <1>1, <1>2

ServerFields == {"db", "reply", "multi", "queue", "channels", "login"}
IsServer(s) == s = [f \in ServerFields |-> s[f]]

\* A command that leaves a field of the connection alone.
Spares(cmd, f) ==
    \A x : IsServer(x) => IsServer(Applied(x, cmd)) /\ Applied(x, cmd)[f] = x[f]

\* What no command of the queue changes, EXEC does not change.
LEMMA ExecutedSpares ==
    ASSUME NEW s, IsServer(s), NEW queue, Len(queue) \in Nat, NEW f,
           \A i \in 1..Len(queue) : Spares(queue[i], f)
    PROVE  IsServer(Executed(s, queue)) /\ Executed(s, queue)[f] = s[f]
<1>1. PICK g : Stages(g, s, queue, Len(queue)) /\ Executed(s, queue) = g[Len(queue)]
  BY ExecutedStages
<1> DEFINE Good(i) == IsServer(g[i]) /\ g[i][f] = s[f]
           T == {i \in 0..Len(queue) : ~Good(i)}
<1>2. ASSUME T # {} PROVE FALSE
  <2>1. PICK m \in T : \A k \in T : m <= k
    <3>1. T \subseteq Nat
      OBVIOUS
    <3> HIDE DEF T
    <3> QED
      BY <1>2, <3>1, Least
  <2>2. g[0] = s /\ Good(0)
    BY <1>1 DEF Stages
  <2>3. m \in 1..Len(queue) /\ Good(m - 1)
    BY <2>1, <2>2
  <2>4. g[m] = Applied(g[m - 1], queue[m])
    BY <1>1, <2>3 DEF Stages
  <2>5. Good(m)
    BY <2>3, <2>4 DEF Spares
  <2> QED
    BY <2>1, <2>5
<1>3. Good(Len(queue))
  BY <1>2
<1> QED
  BY <1>1, <1>3

LEMMA AppliedSpares ==
    ASSUME NEW cmd
    PROVE  /\ Spares(cmd, "multi") /\ Spares(cmd, "queue")
           /\ cmd.name # "REPLY" => Spares(cmd, "reply")
           /\ cmd.name # "SELECT" => Spares(cmd, "db")
           /\ cmd.name \notin {"AUTH", "HELLO 3 AUTH"} => Spares(cmd, "login")
           /\ cmd.name \notin {"SUBSCRIBE", "UNSUBSCRIBE"} => Spares(cmd, "channels")
<1> SUFFICES ASSUME NEW x, IsServer(x)
             PROVE  LET y == Applied(x, cmd) IN
                    /\ IsServer(y) /\ y.multi = x.multi /\ y.queue = x.queue
                    /\ cmd.name # "REPLY" => y.reply = x.reply
                    /\ cmd.name # "SELECT" => y.db = x.db
                    /\ cmd.name \notin {"AUTH", "HELLO 3 AUTH"} => y.login = x.login
                    /\ cmd.name \notin {"SUBSCRIBE", "UNSUBSCRIBE"} => y.channels = x.channels
  BY DEF Spares
<1> QED
  BY DEF Applied, IsServer, ServerFields

-----------------------------------------------------------------------------
(* One command, on both sides. *)

Control == {"MULTI", "EXEC", "DISCARD", "RESET", "WATCH"}

\* The queue holds what the user puts into a transaction.
QueueOK(queue) ==
    queue \in Seq(Commands) /\ \A i \in 1..Len(queue) : queue[i].name \in InMulti

Unskipped(mode) == IF mode = "skip" THEN "on" ELSE mode

\* What ends a transaction or a silence ends it: the server does not refuse it.
EndsAreObeyed == Refusable \cap {"RESET", "DISCARD", "REPLY"} = {}

\* What CLIENT REPLY leaves: SKIP is ignored while replies are off.
Replying(mode, arg) == IF Unskipped(mode) = "off" /\ arg = "skip" THEN "off" ELSE arg

\* The mode and the database a command leaves, unless transactions or refusals interfere.
ModeAs(s, cmd, t) ==
    t.reply = IF cmd.name = "RESET" THEN "on"
              ELSE IF cmd.name = "REPLY" THEN Replying(s.reply, cmd.arg) ELSE Unskipped(s.reply)
DbAs(s, cmd, t) ==
    t.db = IF cmd.name = "RESET" THEN 0 ELSE IF cmd.name = "SELECT" THEN cmd.arg ELSE s.db

\* The channels a command may leave.
ChannelsAs(s, cmd, t) ==
    t.channels \subseteq IF cmd.name = "RESET" THEN {}
                         ELSE IF cmd.name = "SUBSCRIBE" THEN s.channels \cup {cmd.arg}
                         ELSE IF cmd.name = "UNSUBSCRIBE" THEN s.channels \ {cmd.arg}
                         ELSE s.channels

\* What a command makes of the connection, as far as transactions and refusals allow to say.
ServedAs(s, cmd, t) ==
    /\ t.multi => \/ cmd.name = "MULTI"
                  \/ s.multi /\ cmd.name \notin {"RESET", "EXEC", "DISCARD"}
    /\ "REPLY" \notin InMulti => ModeAs(s, cmd, t)
    /\ "SELECT" \notin InMulti \cup Refusable => DbAs(s, cmd, t)
    /\ InMulti \cap {"AUTH", "HELLO 3 AUTH"} = {} =>
         (cmd.name \notin {"RESET", "AUTH", "HELLO 3 AUTH"} => t.login = s.login)
    /\ InMulti \cap {"SUBSCRIBE", "UNSUBSCRIBE"} = {} /\ "UNSUBSCRIBE" \notin Refusable =>
         ChannelsAs(s, cmd, t)

LEMMA ResumedEffect ==
    ASSUME NEW s, IsServer(s)
    PROVE  LET r == Resumed(s) IN
           /\ IsServer(r) /\ r.reply = Unskipped(s.reply)
           /\ \A f \in ServerFields \ {"reply"} : r[f] = s[f]
BY DEF Resumed, IsServer, ServerFields, Unskipped

LEMMA OverEffect ==
    ASSUME NEW s, IsServer(s)
    PROVE  LET r == Over(s) IN
           /\ IsServer(r) /\ ~r.multi /\ r.queue = <<>>
           /\ r.reply = s.reply /\ r.db = s.db /\ r.login = s.login /\ r.channels = s.channels
BY DEF Over, IsServer, ServerFields

LEMMA RefusedAs ==
    ASSUME NEW s, NEW cmd \in Commands, IsServer(s), QueueOK(s.queue), EndsAreObeyed,
           cmd.name \in Refusable
    PROVE  LET t == Refused(s, cmd) IN
           IsServer(t) /\ QueueOK(t.queue) /\ ServedAs(s, cmd, t)
<1> DEFINE r == Resumed(s)
           t == Refused(s, cmd)
<1>1. /\ IsServer(r) /\ r.reply = Unskipped(s.reply)
      /\ \A f \in ServerFields \ {"reply"} : r[f] = s[f]
  BY ResumedEffect
<1>2. t = IF cmd.name = "EXEC" THEN Over(r) ELSE r
  BY DEF Refused
<1> HIDE DEF r, t
<1>3. cmd.name \notin {"RESET", "DISCARD", "REPLY"}
  BY DEF EndsAreObeyed
<1>4. /\ IsServer(t) /\ t.reply = Unskipped(s.reply) /\ t.db = s.db /\ t.login = s.login
      /\ t.channels = s.channels
      /\ IF cmd.name = "EXEC" THEN ~t.multi /\ t.queue = <<>>
         ELSE t.multi = s.multi /\ t.queue = s.queue
  BY <1>1, <1>2, OverEffect DEF ServerFields
<1>5. QueueOK(<<>>)
  BY DEF QueueOK
<1>6. QueueOK(t.queue)
  BY <1>4, <1>5
<1>7. ServedAs(s, cmd, t)
  BY <1>3, <1>4 DEF ServedAs, ModeAs, DbAs, ChannelsAs
<1> QED
  BY <1>4, <1>6, <1>7 DEF t

LEMMA ServedEffect ==
    ASSUME NEW s, NEW cmd \in Commands, IsServer(s), QueueOK(s.queue),
           s.multi /\ cmd.name \notin Control => cmd.name \in InMulti
    PROVE  LET t == Served(s, cmd) IN
           IsServer(t) /\ QueueOK(t.queue) /\ ServedAs(s, cmd, t)
<1> USE DEF ServedAs, ModeAs, DbAs, ChannelsAs
<1> DEFINE r == Resumed(s)
           over == Over(r)
           t == Served(s, cmd)
<1>1. /\ IsServer(r) /\ r.reply = Unskipped(s.reply)
      /\ \A f \in ServerFields \ {"reply"} : r[f] = s[f]
  BY ResumedEffect
<1>2. t = CASE cmd.name = "RESET" -> Clean(sent + 1)
            [] cmd.name = "MULTI" -> [r EXCEPT !.multi = TRUE]
            [] cmd.name = "EXEC" -> Executed(over, r.queue)
            [] cmd.name = "DISCARD" -> over
            [] s.multi /\ cmd.name \notin {"WATCH", "RESET", "MULTI", "EXEC", "DISCARD"} ->
                 [r EXCEPT !.queue = Append(@, cmd)]
            [] OTHER -> Applied(r, cmd)
  BY DEF Served
<1> HIDE DEF r, t
<1>0. QueueOK(<<>>)
  BY DEF QueueOK
<1>3. /\ IsServer(over) /\ ~over.multi /\ over.queue = <<>>
      /\ over.reply = r.reply /\ over.db = s.db /\ over.login = s.login
      /\ over.channels = s.channels
  <2> HIDE DEF r
  <2> QED
    BY <1>1, OverEffect DEF ServerFields
<1> HIDE DEF over
<1>4. CASE cmd.name = "RESET"
  <2>1. t = [db |-> 0, reply |-> "on", multi |-> FALSE, queue |-> <<>>, channels |-> {},
             login |-> sent + 1]
    BY <1>2, <1>4 DEF Clean
  <2>2. IsServer(t)
    BY <2>1 DEF IsServer, ServerFields
  <2> QED
    BY <1>0, <1>4, <2>1, <2>2 DEF t
<1>5. CASE cmd.name = "MULTI"
  <2>1. t = [r EXCEPT !.multi = TRUE]
    BY <1>2, <1>5
  <2>2. IsServer(t) /\ t.multi /\ \A f \in ServerFields \ {"multi"} : t[f] = r[f]
    BY <1>1, <2>1 DEF IsServer, ServerFields
  <2> QED
    BY <1>1, <1>5, <2>2 DEF ServerFields, t
<1>6. CASE cmd.name = "EXEC"
  <2>1. t = Executed(over, s.queue)
    BY <1>1, <1>2, <1>6 DEF ServerFields
  <2>2. Len(s.queue) \in Nat /\ \A i \in 1..Len(s.queue) : s.queue[i].name \in InMulti
    BY DEF QueueOK
  <2>3. ASSUME NEW f, \A i \in 1..Len(s.queue) : Spares(s.queue[i], f)
        PROVE  IsServer(t) /\ t[f] = over[f]
    BY <1>3, <2>1, <2>2, <2>3, ExecutedSpares, ZenonT(60)
  <2>4. IsServer(t) /\ t.multi = over.multi /\ t.queue = over.queue
    BY <2>3, AppliedSpares
  <2>5. "REPLY" \notin InMulti => t.reply = over.reply
    BY <2>2, <2>3, AppliedSpares
  <2>6. "SELECT" \notin InMulti => t.db = over.db
    BY <2>2, <2>3, AppliedSpares
  <2>7. InMulti \cap {"AUTH", "HELLO 3 AUTH"} = {} => t.login = over.login
    BY <2>2, <2>3, AppliedSpares
  <2>8. InMulti \cap {"SUBSCRIBE", "UNSUBSCRIBE"} = {} => t.channels = over.channels
    BY <2>2, <2>3, AppliedSpares
  <2> QED
    BY <1>0, <1>1, <1>3, <1>6, <2>4, <2>5, <2>6, <2>7, <2>8 DEF t
<1>7. CASE cmd.name = "DISCARD"
  <2>1. t = over
    BY <1>2, <1>7
  <2> QED
    BY <1>0, <1>1, <1>3, <1>7, <2>1 DEF t
<1>8. CASE s.multi /\ cmd.name \notin Control
  <2>1. t = [r EXCEPT !.queue = Append(@, cmd)] /\ cmd.name \in InMulti
    BY <1>2, <1>8 DEF Control
  <2>2. /\ IsServer(t) /\ t.queue = Append(s.queue, cmd)
        /\ \A f \in ServerFields \ {"queue"} : t[f] = r[f]
    BY <1>1, <2>1 DEF IsServer, ServerFields
  <2>3. Append(s.queue, cmd) \in Seq(Commands)
    BY DEF QueueOK
  <2>5. \A i \in 1..Len(Append(s.queue, cmd)) : Append(s.queue, cmd)[i].name \in InMulti
    BY <2>1 DEF QueueOK
  <2>4. QueueOK(t.queue)
    BY <2>2, <2>3, <2>5 DEF QueueOK
  <2> QED
    BY <1>1, <1>8, <2>1, <2>2, <2>4 DEF ServerFields, Control, t
<1>9. CASE (cmd.name \notin Control /\ ~s.multi) \/ cmd.name = "WATCH"
  <2>1. t = Applied(r, cmd)
    BY <1>2, <1>9 DEF Control
  <2>2. IsServer(t) /\ t.multi = s.multi /\ t.queue = s.queue
    BY <1>1, <2>1, AppliedSpares DEF Spares, ServerFields
  <2>3. t.reply = IF cmd.name = "REPLY" THEN Replying(s.reply, cmd.arg) ELSE r.reply
    BY <1>1, <2>1 DEF Applied, IsServer, ServerFields, Replying
  <2>4. t.db = IF cmd.name = "SELECT" THEN cmd.arg ELSE s.db
    BY <1>1, <2>1 DEF Applied, IsServer, ServerFields
  <2>5. t.login = IF cmd.name \in {"AUTH", "HELLO 3 AUTH"} THEN sent + 1 ELSE s.login
    BY <1>1, <2>1 DEF Applied, IsServer, ServerFields
  <2>6. t.channels = IF cmd.name = "SUBSCRIBE" THEN s.channels \cup {cmd.arg}
                     ELSE IF cmd.name = "UNSUBSCRIBE" THEN s.channels \ {cmd.arg}
                     ELSE s.channels
    BY <1>1, <2>1 DEF Applied, IsServer, ServerFields
  <2> QED
    BY <1>1, <1>9, <2>2, <2>3, <2>4, <2>5, <2>6 DEF Control, t
<1> QED
  BY <1>4, <1>5, <1>6, <1>7, <1>8, <1>9 DEF Control

ClientFields == {"resp", "db", "reply", "tx", "subscribed", "identity", "scope"}
IsTx(tx) == tx = [is |-> tx.is, queued |-> tx.queued, error |-> tx.error]
IsClient(c) == c = [f \in ClientFields |-> c[f]] /\ IsTx(c.tx) /\ c.identity \in Int

LEMMA FreshEffect ==
    ASSUME NEW identity \in Int, NEW scope
    PROVE  LET t == Fresh(identity, scope) IN
           /\ IsClient(t) /\ t.tx.is = "none" /\ t.reply = "on" /\ t.db = 0
           /\ t.identity = identity /\ ~t.subscribed
BY DEF Fresh, IsClient, IsTx, ClientFields, NoTx

\* What a command makes of the session state.
ObservedAs(c, cmd, t) ==
    /\ t.tx.is = "queuing" <=> cmd.name = "MULTI"
           \/ (c.tx.is = "queuing" /\ cmd.name \notin {"RESET", "EXEC", "DISCARD"})
    /\ t.reply = IF cmd.name = "RESET" THEN "on"
                 ELSE IF cmd.name = "REPLY" THEN cmd.arg ELSE Unskipped(c.reply)
    /\ t.db = IF cmd.name = "RESET" THEN 0
              ELSE IF cmd.name = "SELECT" THEN cmd.arg ELSE c.db
    /\ t.identity = IF cmd.name \in {"RESET", "AUTH", "HELLO 3 AUTH"} THEN c.identity + 1
                    ELSE c.identity
    /\ t.subscribed <=> cmd.name = "SUBSCRIBE"
                         \/ (c.subscribed /\ cmd.name \notin {"RESET", "UNSUBSCRIBE"})

LEMMA ObserveEffect ==
    ASSUME NEW c, NEW cmd \in Commands, IsClient(c)
    PROVE  LET t == Observe(ExpectReplyForNext(c), cmd) IN
           IsClient(t) /\ ObservedAs(c, cmd, t)
<1> USE DEF ObservedAs
<1> DEFINE r == ExpectReplyForNext(c)
           t == Observe(r, cmd)
<1>1. /\ IsClient(r) /\ r.reply = Unskipped(c.reply)
      /\ \A f \in ClientFields \ {"reply"} : r[f] = c[f]
  BY DEF ExpectReplyForNext, IsClient, ClientFields, Unskipped
<1> HIDE DEF r
<1>2. CASE cmd.name = "RESET"
  <2> DEFINE i == r.identity + 1
             j == r.scope + 1
  <2>1. t = Fresh(i, j) /\ i \in Int /\ i = c.identity + 1
    BY <1>1, <1>2 DEF Observe, Reset, IsClient, ClientFields
  <2> HIDE DEF i, j, t
  <2>2. /\ IsClient(t) /\ t.tx.is = "none" /\ t.reply = "on" /\ t.db = 0
        /\ t.identity = i /\ ~t.subscribed
    BY <2>1, FreshEffect
  <2> QED
    BY <1>2, <2>1, <2>2 DEF r, t
<1>3. CASE cmd.name \in {"AUTH", "HELLO 3 AUTH"}
  <2> DEFINE u == IF cmd.name = "AUTH" THEN r ELSE [r EXCEPT !.resp = 3]
  <2>1. t = BumpIdentity(u)
    BY <1>3 DEF Observe
  <2>2. IsClient(u) /\ \A f \in ClientFields \ {"resp"} : u[f] = r[f]
    BY <1>1 DEF IsClient, ClientFields
  <2> HIDE DEF u
  <2> DEFINE i == u.identity + 1
             j == u.scope + 1
  <2>3. t = [u EXCEPT !.identity = i, !.scope = j]
    BY <2>1 DEF BumpIdentity
  <2>4. i \in Int /\ i = c.identity + 1
    BY <1>1, <2>2 DEF IsClient, ClientFields
  <2> HIDE DEF i, j, t
  <2>5. /\ IsClient(t) /\ t.identity = i
        /\ \A f \in ClientFields \ {"identity", "scope"} : t[f] = u[f]
    BY <2>2, <2>3, <2>4, ZenonT(60) DEF IsClient, ClientFields
  <2> QED
    BY <1>1, <1>3, <2>2, <2>4, <2>5 DEF ClientFields, t, r
<1>4. CASE cmd.name \in {"MULTI", "EXEC", "DISCARD", "WATCH", "UNWATCH"}
  BY <1>1, <1>4, ZenonT(60) DEF Observe, IsClient, IsTx, ClientFields, NoTx, r
<1>5. CASE cmd.name \in {"SELECT", "REPLY", "SUBSCRIBE", "UNSUBSCRIBE", "HELLO 2", "HELLO 3"}
  BY <1>1, <1>5, ZenonT(60) DEF Observe, IsClient, ClientFields, r
<1>6. CASE cmd.name \notin {"RESET", "AUTH", "HELLO 3 AUTH", "MULTI", "EXEC", "DISCARD", "WATCH",
                           "UNWATCH", "SELECT", "REPLY", "SUBSCRIBE", "UNSUBSCRIBE", "HELLO 2",
                           "HELLO 3"}
  <2>1. t = [r EXCEPT !.tx.queued = IF r.tx.is = "queuing" THEN @ + 1 ELSE @]
    BY <1>6 DEF Observe
  <2> QED
    BY <1>1, <1>6, <2>1, ZenonT(60) DEF IsClient, IsTx, ClientFields, r
<1> QED
  BY <1>2, <1>3, <1>4, <1>5, <1>6

-----------------------------------------------------------------------------
(* Both sides together. *)

\* What the theorems ask of the user's transactions.
NoReplyInMulti == "REPLY" \notin InMulti
NoSwitchInMulti == "SELECT" \notin InMulti /\ InMulti \cap {"AUTH", "HELLO 3 AUTH"} = {}
NoChannelInMulti == InMulti \cap {"SUBSCRIBE", "UNSUBSCRIBE"} = {}

\* What the theorems ask of the server, beside EndsAreObeyed.
SelectIsObeyed == "SELECT" \notin Refusable
UnsubscribeIsObeyed == "UNSUBSCRIBE" \notin Refusable

\* UNSUBSCRIBE of any channel is taken for the end of the subscription.
OneChannel == \A c, d \in Channels : c = d

\* The client is in a transaction whenever the server is.
Agreed ==
    /\ IsServer(server) /\ QueueOK(server.queue)
    /\ IsClient(client)
    /\ server.multi => client.tx.is = "queuing"

\* How a step other than a command changes what the theorems are about.
RefusedOrSame ==
    /\ server' = server /\ seen' = seen /\ losses' = losses /\ lost' = lost
    /\ client'.reply = client.reply /\ client'.db = client.db
    /\ client'.identity = client.identity
    /\ client'.subscribed <=> client.subscribed

Renewed ==
    /\ server'.reply = "on" /\ server'.db = 0 /\ server'.channels = {} /\ ~server'.multi
    /\ client'.reply = "on" /\ client'.db = 0 /\ client'.identity = client.identity + 1
    /\ seen' = seen /\ losses' = Losses(client) /\ lost' = server

LEMMA InitAgreed == Init => Agreed
<1> SUFFICES ASSUME Init PROVE Agreed
  OBVIOUS
<1>1. IsServer(server) /\ server.queue = <<>> /\ ~server.multi
  BY DEF Init, Clean, IsServer, ServerFields
<1>2. IsClient(client) /\ client.tx.is = "none"
  BY FreshEffect DEF Init
<1>3. QueueOK(<<>>)
  BY DEF QueueOK
<1> QED
  BY <1>1, <1>2, <1>3 DEF Agreed

LEMMA SendEffect ==
    ASSUME EndsAreObeyed, Agreed, NEW cmd \in Commands, Send(cmd)
    PROVE  Agreed' /\ ServedAs(server, cmd, server') /\ ObservedAs(client, cmd, client')
<1>1. server.multi /\ cmd.name \notin Control => cmd.name \in InMulti
  BY DEF Send, Control
<1>2. IsServer(server') /\ QueueOK(server'.queue) /\ ServedAs(server, cmd, server')
  <2>1. CASE server' = Served(server, cmd)
    BY <1>1, <2>1, ServedEffect DEF Agreed
  <2>2. CASE cmd.name \in Refusable /\ server' = Refused(server, cmd)
    BY <2>2, RefusedAs DEF Agreed
  <2> QED
    BY <2>1, <2>2 DEF Send
<1>3. IsClient(client') /\ ObservedAs(client, cmd, client')
  BY ObserveEffect DEF Agreed, Send
<1>4. server'.multi => client'.tx.is = "queuing"
  BY <1>2, <1>3 DEF Agreed, ServedAs, ObservedAs
<1> QED
  BY <1>2, <1>3, <1>4 DEF Agreed

LEMMA RefusedEffect ==
    ASSUME Agreed, QueueRefused
    PROVE  Agreed' /\ RefusedOrSame
<1> DEFINE cmd == Command("GET", "")
           u == Observe(client, cmd)
           tx == [client.tx EXCEPT !.queued = IF client.tx.is = "queuing" THEN @ + 1 ELSE @]
<1>1. u = [client EXCEPT !.tx.queued = IF client.tx.is = "queuing" THEN @ + 1 ELSE @]
  BY DEF Observe, Command
<1>2. IsTx(tx) /\ tx.is = client.tx.is
  BY DEF Agreed, IsClient, IsTx
<1>3. u.tx = tx /\ u = [client EXCEPT !.tx = tx]
  BY <1>1 DEF Agreed, IsClient, ClientFields
<1> HIDE DEF u, tx
<1>4. IsClient(u) /\ \A f \in ClientFields \ {"tx"} : u[f] = client[f]
  BY <1>2, <1>3 DEF Agreed, IsClient, ClientFields
<1>5. client' = [u EXCEPT !.tx.error = u.tx.is = "queuing"]
  BY DEF QueueRefused, NoteQueueError, u
<1>6. /\ IsClient(client') /\ client'.tx.is = client.tx.is
      /\ \A f \in ClientFields \ {"tx"} : client'[f] = u[f]
  BY <1>2, <1>3, <1>4, <1>5 DEF IsClient, IsTx, ClientFields
<1> QED
  BY <1>4, <1>6 DEF QueueRefused, Agreed, RefusedOrSame, ClientFields

LEMMA DisconnectEffect ==
    ASSUME Agreed, Disconnect
    PROVE  Agreed' /\ Renewed
<1> DEFINE i == client.identity + 1
           j == client.scope + 1
<1>1. client' = Fresh(i, j) /\ i \in Int /\ i = client.identity + 1
  BY DEF Disconnect, Reset, Agreed, IsClient
<1> HIDE DEF i, j
<1>2. /\ IsClient(client') /\ client'.tx.is = "none" /\ client'.reply = "on"
      /\ client'.db = 0 /\ client'.identity = i
  BY <1>1, FreshEffect
<1>3. server' = [db |-> 0, reply |-> "on", multi |-> FALSE, queue |-> <<>>, channels |-> {},
                 login |-> sent + 1]
  BY DEF Disconnect, Clean
<1>4. IsServer(server') /\ QueueOK(server'.queue)
  <2>1. IsServer(server')
    BY <1>3 DEF IsServer, ServerFields
  <2>2. QueueOK(<<>>)
    BY DEF QueueOK
  <2> QED
    BY <1>3, <2>1, <2>2
<1> QED
  BY <1>1, <1>2, <1>3, <1>4 DEF Disconnect, Agreed, Renewed

\* A step is a command, a refusal or a stutter, or a new connection.
LEMMA SessionStep ==
    ASSUME EndsAreObeyed, Agreed, [Next]_vars
    PROVE  /\ Agreed'
           /\ \/ \E cmd \in Commands : Send(cmd)
              \/ RefusedOrSame
              \/ Disconnect /\ Renewed
<1>1. CASE UNCHANGED vars
  BY <1>1 DEF vars, Agreed, RefusedOrSame
<1> QED
  BY <1>1, SendEffect, RefusedEffect, DisconnectEffect DEF Next

-----------------------------------------------------------------------------
(* Probes. *)

ReplyInv == Agreed /\ client.reply = server.reply

\* SKIP is not sent while replies are off: the client would take the next command for the last
\* silent one.
NoSkipWhileOff == SkipsWhileOff = FALSE

LEMMA ReplyStep ==
    ASSUME EndsAreObeyed, NoSkipWhileOff, NoReplyInMulti, ReplyInv, [Next]_vars
    PROVE  ReplyInv'
<1>1. Agreed'
  BY SessionStep DEF ReplyInv
<1>2. ASSUME NEW cmd \in Commands, Send(cmd) PROVE client'.reply = server'.reply
  <2>1. ServedAs(server, cmd, server') /\ ObservedAs(client, cmd, client')
    BY <1>2, SendEffect DEF ReplyInv
  <2>2. cmd.name = "REPLY" /\ cmd.arg = "skip" => server.reply # "off"
    <3>1. cmd.name = "REPLY" /\ cmd.arg = "skip" => cmd = Command("REPLY", "skip")
      BY DEF Commands, Command
    <3> QED
      BY <1>2, <3>1 DEF Send, NoSkipWhileOff
  <2>3. cmd.name = "REPLY" => Replying(server.reply, cmd.arg) = cmd.arg
    BY <2>2 DEF Replying, Unskipped
  <2> QED
    BY <2>1, <2>3 DEF ReplyInv, ServedAs, ModeAs, ObservedAs, NoReplyInMulti
<1> QED
  BY <1>1, <1>2, SessionStep DEF ReplyInv, RefusedOrSame, Renewed

\* ProbeIsSafe: a probe that may_probe allows is run and answered, whatever else the server
\* refuses, unless CLIENT REPLY goes into a transaction (SessionProbe.cfg shows what it does
\* there), SKIP is sent while replies are off, or the server refuses RESET, DISCARD or CLIENT
\* REPLY.
THEOREM ProbesAreSafe ==
    EndsAreObeyed /\ NoSkipWhileOff /\ NoReplyInMulti => (Spec => []ProbeIsSafe)
<1> SUFFICES ASSUME EndsAreObeyed, NoSkipWhileOff, NoReplyInMulti PROVE Spec => []ProbeIsSafe
  OBVIOUS
<1>1. Init => ReplyInv
  BY InitAgreed DEF Init, ReplyInv, Fresh, Clean
<1>2. ReplyInv /\ [Next]_vars => ReplyInv'
  BY ReplyStep
<1>3. ReplyInv => ProbeIsSafe
  BY DEF ReplyInv, Agreed, ProbeIsSafe, MayProbe
<1> QED
  BY <1>1, <1>2, <1>3, PTL DEF Spec

-----------------------------------------------------------------------------
(* Names, and what a disconnection takes with it. *)

\* A name is kept under the database it was seen in and under an identity that was the client's;
\* the login of an identity never changes.
SeenOK(x) ==
    /\ x.scope = <<x.scope[1], x.scope[2]>> /\ x.place = <<x.place[1], x.place[2]>>
    /\ x.scope[1] = x.place[1]
    /\ x.scope[2] \in Int /\ x.scope[2] <= client.identity
    /\ x.scope[2] = client.identity => x.place[2] = server.login

ScopeInv ==
    /\ Agreed /\ client.db = server.db
    /\ \A x \in seen : SeenOK(x)
    /\ \A x, y \in seen : x.scope[2] = y.scope[2] => x.place[2] = y.place[2]

\* The login changes only with the identity, and the identity only grows.
NewOrSameIdentity ==
    /\ client.identity \in Int /\ client'.identity \in Int
    /\ \/ client'.identity = client.identity /\ server'.login = server.login
       \/ client'.identity = client.identity + 1

LEMMA IdentityStep ==
    ASSUME EndsAreObeyed, SelectIsObeyed, NoSwitchInMulti, Agreed, client.db = server.db,
           [Next]_vars
    PROVE  NewOrSameIdentity /\ client'.db = server'.db
<1>1. client.identity \in Int /\ client'.identity \in Int
  BY SessionStep DEF Agreed, IsClient
<1>2. ASSUME NEW cmd \in Commands, Send(cmd)
      PROVE  NewOrSameIdentity /\ client'.db = server'.db
  <2>1. ServedAs(server, cmd, server') /\ ObservedAs(client, cmd, client')
    BY <1>2, SendEffect
  <2>2. client'.db = server'.db
    BY <2>1 DEF ServedAs, DbAs, ObservedAs, NoSwitchInMulti, SelectIsObeyed
  <2>3. CASE cmd.name \in {"RESET", "AUTH", "HELLO 3 AUTH"}
    BY <1>1, <2>1, <2>2, <2>3 DEF ObservedAs, NewOrSameIdentity
  <2>4. CASE cmd.name \notin {"RESET", "AUTH", "HELLO 3 AUTH"}
    BY <1>1, <2>1, <2>2, <2>4 DEF ServedAs, ObservedAs, NewOrSameIdentity, NoSwitchInMulti
  <2> QED
    BY <2>3, <2>4
<1> QED
  BY <1>1, <1>2, SessionStep DEF NewOrSameIdentity, RefusedOrSame, Renewed

LEMMA ScopeStep ==
    ASSUME EndsAreObeyed, SelectIsObeyed, NoSwitchInMulti, ScopeInv, [Next]_vars
    PROVE  ScopeInv'
<1>1. Agreed' /\ NewOrSameIdentity /\ client'.db = server'.db
  BY SessionStep, IdentityStep DEF ScopeInv
<1>2. ASSUME NEW x, SeenOK(x) PROVE SeenOK(x)'
  BY <1>1, <1>2 DEF SeenOK, NewOrSameIdentity
<1>3. CASE seen' = seen
  <2>1. \A x \in seen' : SeenOK(x)'
    BY <1>2, <1>3 DEF ScopeInv
  <2> QED
    BY <1>1, <1>3, <2>1 DEF ScopeInv
<1>4. CASE \E cmd \in Commands : Send(cmd) /\ seen' # seen
  <2>1. PICK cmd \in Commands : Send(cmd) /\ seen' # seen
    BY <1>4
  <2> DEFINE n == [scope |-> <<client.db, client.identity>>,
                   place |-> <<server.db, server.login>>]
  <2>2. cmd.name = "GET" /\ seen' = seen \cup {n}
    BY <2>1 DEF Send
  <2>3. client.identity \in Int /\ client.db = server.db
    BY DEF ScopeInv, Agreed, IsClient
  <2>4. SeenOK(n) /\ n.scope[2] = client.identity /\ n.place[2] = server.login
    BY <2>3 DEF SeenOK
  <2> HIDE DEF n
  <2>5. \A x \in seen' : SeenOK(x) /\ SeenOK(x)'
    BY <1>2, <2>2, <2>4 DEF ScopeInv
  <2>6. \A x, y \in seen' : x.scope[2] = y.scope[2] => x.place[2] = y.place[2]
    BY <2>2, <2>4 DEF ScopeInv, SeenOK
  <2> QED
    BY <1>1, <2>5, <2>6 DEF ScopeInv
<1> QED
  BY <1>3, <1>4, SessionStep DEF ScopeInv, RefusedOrSame, Renewed

LEMMA ScopeHonest == ScopeInv => ScopeIsHonest
<1> SUFFICES ASSUME ScopeInv, NEW x \in seen, NEW y \in seen
             PROVE  /\ x.scope[1] = x.place[1]
                    /\ x.scope = y.scope => x.place = y.place
  BY DEF ScopeIsHonest
<1>1. SeenOK(x) /\ SeenOK(y)
  BY DEF ScopeInv
<1>2. x.scope[2] = y.scope[2] => x.place[2] = y.place[2]
  BY DEF ScopeInv
<1> QED
  BY <1>1, <1>2 DEF SeenOK

GapInv ==
    /\ ReplyInv
    /\ server.channels \subseteq Channels
    /\ server.channels # {} => client.subscribed
    /\ GapIsDisclosed

LEMMA GapStep ==
    ASSUME EndsAreObeyed, NoSkipWhileOff, NoReplyInMulti, NoChannelInMulti, UnsubscribeIsObeyed,
           OneChannel, GapInv, [Next]_vars
    PROVE  GapInv'
<1>1. ReplyInv'
  BY ReplyStep DEF GapInv
<1>2. ASSUME NEW cmd \in Commands, Send(cmd) PROVE GapInv'
  <2>1. ServedAs(server, cmd, server') /\ ObservedAs(client, cmd, client')
    BY <1>2, SendEffect DEF GapInv, ReplyInv
  <2>2. cmd.name \in {"SUBSCRIBE", "UNSUBSCRIBE"} => cmd.arg \in Channels
    BY DEF Commands
  <2>3. server'.channels \subseteq Channels
    BY <2>1, <2>2 DEF ServedAs, ChannelsAs, NoChannelInMulti, UnsubscribeIsObeyed, GapInv
  <2>4. server'.channels # {} => client'.subscribed
    BY <2>1, <2>2 DEF ServedAs, ChannelsAs, ObservedAs, NoChannelInMulti, UnsubscribeIsObeyed,
                      GapInv, OneChannel
  <2>5. GapIsDisclosed'
    BY <1>2 DEF Send, GapInv, GapIsDisclosed
  <2> QED
    BY <1>1, <2>3, <2>4, <2>5 DEF GapInv
<1>3. CASE RefusedOrSame
  BY <1>1, <1>3 DEF RefusedOrSame, GapInv, GapIsDisclosed
<1>4. CASE Renewed
  <2>1. GapIsDisclosed'
    BY <1>4 DEF Renewed, Losses, GapInv, ReplyInv, Agreed, GapIsDisclosed
  <2> QED
    BY <1>1, <1>4, <2>1 DEF Renewed, GapInv
<1> QED
  BY <1>2, <1>3, <1>4, SessionStep DEF GapInv, ReplyInv

\* What ReconnectIsHonest rests on: the database, the login, the reply mode and the channels are
\* not changed inside a transaction, SKIP is not sent while replies are off, there is one channel,
\* and the server does not refuse to change the database or to end a subscription.
Followed ==
    /\ NoReplyInMulti /\ NoSwitchInMulti /\ NoChannelInMulti
    /\ NoSkipWhileOff /\ OneChannel
    /\ EndsAreObeyed /\ SelectIsObeyed /\ UnsubscribeIsObeyed

\* ReconnectIsHonest: where the session can be followed, names of two logins or databases never
\* share a scope, and a lost transaction, subscription or reply mode is reported, also when AUTH,
\* MULTI, EXEC or SUBSCRIBE are refused.
THEOREM ReconnectsAreHonest == Followed => (Spec => []ReconnectIsHonest)
<1> SUFFICES ASSUME Followed PROVE Spec => []ReconnectIsHonest
  OBVIOUS
<1> USE DEF Followed
<1>1. Init => ScopeInv /\ GapInv
  <2> SUFFICES ASSUME Init PROVE ScopeInv /\ GapInv
    OBVIOUS
  <2>1. ScopeInv
    BY InitAgreed DEF Init, ScopeInv, Fresh, Clean
  <2>2. GapInv
    BY InitAgreed DEF Init, GapInv, ReplyInv, GapIsDisclosed, Fresh, Clean
  <2> QED
    BY <2>1, <2>2
<1>2. ScopeInv /\ GapInv /\ [Next]_vars => (ScopeInv /\ GapInv)'
  BY ScopeStep, GapStep
<1>3. ScopeInv /\ GapInv => ReconnectIsHonest
  BY ScopeHonest DEF GapInv, ReconnectIsHonest
<1> QED
  BY <1>1, <1>2, <1>3, PTL DEF Spec

-----------------------------------------------------------------------------
(* Approvals. *)

\* OnlyAPersonApproves: no tool, token or rule lets a request that changes anything, or a plan,
\* run without a person's token, whatever the requests, the tools and the rule are.
THEOREM OnlyPeopleApprove == ApprovalSpec => []OnlyAPersonApproves
<1>1. ApprovalInit => OnlyAPersonApproves
  BY DEF ApprovalInit, OnlyAPersonApproves
<1>2. ASSUME OnlyAPersonApproves, [ApprovalNext]_<<vars, approvalVars>>
      PROVE  OnlyAPersonApproves'
  <2>1. CASE ran' = ran
    BY <1>2, <2>1 DEF OnlyAPersonApproves
  <2>2. ASSUME NEW tool \in Tools, NEW r \in Requests, NEW i \in 0..Len(tokens),
               CallTool(tool, r, i)
        PROVE  OnlyAPersonApproves'
    <3> DEFINE x == [tool |-> tool, request |-> r, by |-> By(tool, r, i), place |-> Place,
                     approved |-> IF i = 0 THEN Place ELSE tokens[i].place]
    <3>1. ran' = ran \cup {x} /\ By(tool, r, i) # "nobody"
      BY <2>2 DEF CallTool
    <3>2. x.tool = tool /\ x.request = r /\ x.by = By(tool, r, i)
      OBVIOUS
    <3>3. Mutates(r.effects) => ~MayAuthorise(r)
      BY DEF Mutates, MayAuthorise, BeyondReadOnly
    <3>4. Mutates(r.effects) \/ tool = "execute_approved_plan" => By(tool, r, i) = "human"
      BY <3>1, <3>3 DEF By
    <3> HIDE DEF x
    <3> QED
      BY <1>2, <3>1, <3>2, <3>4 DEF OnlyAPersonApproves
  <2> QED
    BY <1>2, <2>1, <2>2 DEF ApprovalNext, approvalVars, Issue, Tick, EditPolicy, Retarget
<1> QED
  BY <1>1, <1>2, PTL DEF ApprovalSpec

\* A token's place is the target and the database it binds, under the login its identity had.
TokenOK(t) ==
    /\ t.place = [target |-> t.target, db |-> t.db, login |-> t.place.login]
    /\ t.identity \in Int /\ t.identity <= client.identity
    /\ t.identity = client.identity => t.place.login = server.login

TokenInv ==
    /\ Agreed /\ client.db = server.db
    /\ \E S : tokens \in Seq(S)
    /\ \A i \in 1..Len(tokens) : TokenOK(tokens[i])
    /\ RunsWhereApproved

LEMMA TokenSessionStep ==
    ASSUME EndsAreObeyed, SelectIsObeyed, NoSwitchInMulti, TokenInv, [Next]_vars
    PROVE  /\ Agreed' /\ client'.db = server'.db
           /\ \A t : TokenOK(t) => TokenOK(t)'
<1>1. Agreed' /\ NewOrSameIdentity /\ client'.db = server'.db
  BY SessionStep, IdentityStep DEF TokenInv
<1>2. ASSUME NEW t, TokenOK(t) PROVE TokenOK(t)'
  BY <1>1, <1>2 DEF TokenOK, NewOrSameIdentity
<1> QED
  BY <1>1, <1>2

LEMMA TokenStep ==
    ASSUME EndsAreObeyed, SelectIsObeyed, NoSwitchInMulti, TokenInv,
           [ApprovalNext]_<<vars, approvalVars>>
    PROVE  TokenInv'
<1>1. CASE [Next]_vars /\ tokens' = tokens /\ ran' = ran
  <2>1. (\A i \in 1..Len(tokens) : TokenOK(tokens[i]))'
    BY <1>1, TokenSessionStep DEF TokenInv
  <2> QED
    BY <1>1, <2>1, TokenSessionStep DEF TokenInv, RunsWhereApproved
<1>2. ASSUME NEW r \in Requests, NEW expires, NEW issuer, Issue(r, expires, issuer)
      PROVE  TokenInv'
  <2> DEFINE new == ForRequest(r, expires, issuer)
  <2>1. tokens' = Append(tokens, new) /\ UNCHANGED vars /\ ran' = ran
    BY <1>2 DEF Issue
  <2>2. TokenOK(new)
    BY DEF TokenInv, TokenOK, ForRequest, Place, Agreed, IsClient
  <2> HIDE DEF new
  <2>3. PICK S : tokens \in Seq(S)
    BY DEF TokenInv
  <2> DEFINE S2 == S \cup {new}
  <2>4. tokens \in Seq(S2) /\ new \in S2
    BY <2>3
  <2> HIDE DEF S2
  <2>5. Append(tokens, new) \in Seq(S2)
    BY <2>4
  <2>6. \A i \in 1..Len(Append(tokens, new)) : TokenOK(Append(tokens, new)[i])
    BY <2>2, <2>4 DEF TokenInv
  <2>7. \A t : TokenOK(t) => TokenOK(t)'
    BY <2>1 DEF vars, TokenOK
  <2>8. (\A i \in 1..Len(tokens) : TokenOK(tokens[i]))'
    BY <2>1, <2>6, <2>7
  <2>9. Agreed' /\ client'.db = server'.db /\ RunsWhereApproved'
    BY <2>1 DEF vars, TokenInv, Agreed, RunsWhereApproved
  <2> QED
    BY <2>1, <2>5, <2>8, <2>9 DEF TokenInv
<1>3. ASSUME NEW tool \in Tools, NEW r \in Requests, NEW i \in 0..Len(tokens),
             CallTool(tool, r, i)
      PROVE  TokenInv'
  <2> DEFINE approved == IF i = 0 THEN Place ELSE tokens[i].place
             by == By(tool, r, i)
             x == [tool |-> tool, request |-> r, by |-> by, place |-> Place,
                   approved |-> approved]
  <2>1. ran' = ran \cup {x} /\ UNCHANGED <<client, server, tokens>>
    BY <1>3 DEF CallTool, vars
  <2>2. by = "human" => i # 0 /\ Authorise(i, r)
    BY DEF By
  <2>3. ASSUME by = "human" PROVE approved = Place
    <3>1. TokenOK(tokens[i]) /\ i # 0
      BY <2>2, <2>3 DEF TokenInv
    <3>2. /\ tokens[i].target = target /\ tokens[i].db = client.db
          /\ tokens[i].identity = client.identity
      BY <2>2, <2>3 DEF Authorise
    <3> QED
      BY <3>1, <3>2 DEF TokenInv, TokenOK, Place
  <2>4. x.by = by /\ x.place = Place /\ x.approved = approved
    OBVIOUS
  <2> HIDE DEF x, by, approved
  <2>5. RunsWhereApproved'
    BY <2>1, <2>3, <2>4 DEF TokenInv, RunsWhereApproved
  <2> QED
    BY <2>1, <2>5 DEF TokenInv, Agreed, TokenOK
<1>4. CASE Retarget
  BY <1>1, <1>4 DEF Retarget, Next
<1>5. CASE Tick \/ EditPolicy
  BY <1>1, <1>5 DEF Tick, EditPolicy
<1>6. CASE UNCHANGED <<vars, approvalVars>>
  BY <1>1, <1>6 DEF approvalVars
<1>7. CASE Next /\ UNCHANGED approvalVars
  BY <1>1, <1>7 DEF approvalVars
<1> QED
  BY <1>2, <1>3, <1>4, <1>5, <1>6, <1>7 DEF ApprovalNext

\* RunsWhereApproved: unless the database or the login is changed inside a transaction, or the
\* server refuses SELECT or what ends a transaction, what a person approved runs on the target, in
\* the database and under the login they saw.
THEOREM ApprovedRunsInPlace ==
    EndsAreObeyed /\ SelectIsObeyed /\ NoSwitchInMulti => (ApprovalSpec => []RunsWhereApproved)
<1> SUFFICES ASSUME EndsAreObeyed, SelectIsObeyed, NoSwitchInMulti
             PROVE  ApprovalSpec => []RunsWhereApproved
  OBVIOUS
<1>1. ApprovalInit => TokenInv
  <2> SUFFICES ASSUME ApprovalInit PROVE TokenInv
    OBVIOUS
  <2>1. Agreed /\ client.db = server.db
    BY InitAgreed DEF ApprovalInit, Init, Fresh, Clean
  <2>2. tokens = <<>> /\ <<>> \in Seq({}) /\ ran = {}
    BY DEF ApprovalInit
  <2> QED
    BY <2>1, <2>2 DEF TokenInv, RunsWhereApproved
<1>2. TokenInv /\ [ApprovalNext]_<<vars, approvalVars>> => TokenInv'
  BY TokenStep
<1>3. TokenInv => RunsWhereApproved
  BY DEF TokenInv
<1> QED
  BY <1>1, <1>2, <1>3, PTL DEF ApprovalSpec

-----------------------------------------------------------------------------
(* Patterns: a class is read to its end, and where the code and the server read it alike. *)

ReadFrom(g, p, closes, length, i) ==
    IF i > Len(p) THEN [end |-> 0, members |-> {}]
    ELSE IF closes[i] THEN [end |-> i, members |-> {}]
    ELSE [end |-> g[i + length[i]].end, members |-> {i} \cup g[i + length[i]].members]

Reading(g, p, closes, length, m) ==
    g = [i \in m..(Len(p) + 3) |-> ReadFrom(g, p, closes, length, i)]

\* What a class is read with: a member takes up one to three characters.
LengthsOK(p, length) == \A i \in 1..Len(p) : length[i] \in 1..3

LEMMA ReadingExists ==
    ASSUME NEW p, NEW closes, NEW length, Len(p) \in Nat, LengthsOK(p, length)
    PROVE  \E g : Reading(g, p, closes, length, 1)
<1> DEFINE N == Len(p) + 3
           T == {d \in 0..(N - 1) : ~ \E g : Reading(g, p, closes, length, N - d)}
<1>1. ASSUME T # {} PROVE FALSE
  <2>1. PICK d \in T : \A e \in T : d <= e
    <3>1. T \subseteq Nat
      OBVIOUS
    <3> HIDE DEF T
    <3> QED
      BY <1>1, <3>1, Least
  <2> DEFINE m == N - d
             nothing == [end |-> 0, members |-> {}]
  <2>2. d # 0
    <3> DEFINE g == [i \in N..N |-> nothing]
    <3>1. \A i \in N..N : ReadFrom(g, p, closes, length, i) = nothing
      BY DEF ReadFrom
    <3> HIDE DEF nothing
    <3>2. Reading(g, p, closes, length, N)
      BY <3>1 DEF Reading
    <3>3. N - 0 = N
      OBVIOUS
    <3> QED
      BY <2>1, <3>2, <3>3
  <2>3. d - 1 \in 0..(N - 1) /\ d - 1 \notin T /\ m \in 1..(N - 1) /\ N - (d - 1) = m + 1
    BY <2>1, <2>2
  <2>4. PICK g : Reading(g, p, closes, length, m + 1)
    BY <2>3
  <2> HIDE DEF m
  <2> DEFINE h == [i \in m..N |-> IF i >= m + 1 THEN g[i] ELSE ReadFrom(g, p, closes, length, m)]
  <2>5. \A i \in (m + 1)..N : h[i] = g[i] /\ g[i] = ReadFrom(g, p, closes, length, i)
    <3>1. \A i \in (m + 1)..N : g[i] = ReadFrom(g, p, closes, length, i)
      BY <2>4, Zenon DEF Reading
    <3>2. \A i \in (m + 1)..N : h[i] = g[i]
      BY <2>3
    <3> QED
      BY <3>1, <3>2
  <2>6. h[m] = ReadFrom(g, p, closes, length, m) /\ h = [i \in m..N |-> h[i]]
    BY <2>3
  <2> HIDE DEF h
  <2>7. \A i \in m..N : ReadFrom(h, p, closes, length, i) = ReadFrom(g, p, closes, length, i)
    <3> TAKE i \in m..N
    <3>1. CASE i > Len(p)
      BY <3>1 DEF ReadFrom
    <3>2. CASE i <= Len(p)
      <4>1. i + length[i] \in (m + 1)..N
        BY <2>3, <3>2 DEF LengthsOK
      <4>2. h[i + length[i]] = g[i + length[i]]
        BY <2>5, <4>1
      <4> QED
        BY <4>2 DEF ReadFrom
    <3> QED
      BY <2>3, <3>1, <3>2
  <2>8. \A i \in m..N : h[i] = ReadFrom(h, p, closes, length, i)
    <3> TAKE i \in m..N
    <3>1. i = m \/ i \in (m + 1)..N
      BY <2>3
    <3> QED
      BY <2>5, <2>6, <2>7, <3>1
  <2>9. Reading(h, p, closes, length, m)
    BY <2>6, <2>8, Zenon DEF Reading
  <2> QED
    BY <2>1, <2>9 DEF m
<1>2. N - 1 \in 0..(N - 1) /\ N - (N - 1) = 1
  OBVIOUS
<1> QED
  BY <1>1, <1>2

\* The reading of a class, at every place.
TheReading(p, closes, length) == CHOOSE g : Reading(g, p, closes, length, 1)

LEMMA ReadIsReading ==
    ASSUME NEW p, NEW start, NEW closes, NEW length, Len(p) \in Nat, LengthsOK(p, length)
    PROVE  LET g == TheReading(p, closes, length) IN
           /\ G!Read(p, start, closes, length) = g[start]
           /\ \A i \in 1..(Len(p) + 3) : g[i] = ReadFrom(g, p, closes, length, i)
<1> DEFINE g == TheReading(p, closes, length)
<1>1. G!Read(p, start, closes, length) = g[start]
  BY DEF G!Read, TheReading, Reading, ReadFrom
<1>2. Reading(g, p, closes, length, 1)
  BY ReadingExists DEF TheReading
<1> HIDE DEF g
<1>3. \A i \in 1..(Len(p) + 3) : g[i] = ReadFrom(g, p, closes, length, i)
  BY <1>2, Zenon DEF Reading
<1> QED
  BY <1>1, <1>3 DEF g

LEMMA MemberLengths ==
    ASSUME NEW p
    PROVE  LengthsOK(p, G!Lengths(p)) /\ LengthsOK(p, G!ServerLengths(p))
BY DEF LengthsOK, G!Lengths, G!ServerLengths, G!MemberLength, G!ServerMemberLength

\* Where a reading g of p is the code's: where it ends and what its members are.
Inside(g, p, i) ==
    \/ g[i].end = 0
    \/ g[i].end \in i..Len(p) /\ g[i].members \subseteq i..(g[i].end - 1)

LEMMA ReadIsInside ==
    ASSUME NEW p, NEW closes, NEW length, Len(p) \in Nat, LengthsOK(p, length),
           NEW g, \A i \in 1..(Len(p) + 3) : g[i] = ReadFrom(g, p, closes, length, i)
    PROVE  \A i \in 1..(Len(p) + 3) : Inside(g, p, i)
<1> DEFINE N == Len(p) + 3
           T == {d \in 0..(N - 1) : ~Inside(g, p, N - d)}
<1>1. ASSUME T # {} PROVE FALSE
  <2>1. PICK d \in T : \A e \in T : d <= e
    <3>1. T \subseteq Nat
      OBVIOUS
    <3> HIDE DEF T
    <3> QED
      BY <1>1, <3>1, Least
  <2> DEFINE i == N - d
  <2>2. i \in 1..N /\ ~Inside(g, p, i) /\ g[i] = ReadFrom(g, p, closes, length, i)
    BY <2>1
  <2>3. i <= Len(p) /\ ~closes[i]
    BY <2>2 DEF ReadFrom, Inside
  <2> DEFINE n == i + length[i]
  <2>4. n \in (i + 1)..N
    BY <2>2, <2>3 DEF LengthsOK
  <2>5. g[i].end = g[n].end /\ g[i].members = {i} \cup g[n].members
    BY <2>2, <2>3 DEF ReadFrom
  <2>6. N - n \in 0..(N - 1) /\ N - n < d /\ N - (N - n) = n
    BY <2>1, <2>2, <2>4
  <2>7. Inside(g, p, n)
    <3>1. N - n \notin T
      BY <2>1, <2>6
    <3> QED
      BY <2>6, <3>1
  <2> HIDE DEF n, i
  <2> QED
    BY <2>2, <2>4, <2>5, <2>7 DEF Inside
<1>2. ASSUME NEW i \in 1..N PROVE Inside(g, p, i)
  <2>1. N - i \in 0..(N - 1) /\ N - (N - i) = i
    OBVIOUS
  <2> QED
    BY <1>1, <2>1
<1> QED
  BY <1>2

\* Two readings with members of the same lengths, up to where the first ends, are one.
LEMMA ReadAlike ==
    ASSUME NEW p, NEW start \in 1..Len(p), Len(p) \in Nat, NEW closes, NEW length1, NEW length2,
           LengthsOK(p, length1), LengthsOK(p, length2),
           NEW end, end = G!Read(p, start, closes, length1).end, end # 0,
           \A i \in start..(end - 1) : length1[i] = length2[i]
    PROVE  /\ G!Read(p, start, closes, length2) = G!Read(p, start, closes, length1)
           /\ end \in start..Len(p)
           /\ G!Read(p, start, closes, length1).members \subseteq start..(end - 1)
<1> DEFINE N == Len(p) + 3
           g == TheReading(p, closes, length1)
           h == TheReading(p, closes, length2)
           T == {d \in 0..(N - 1) : N - d >= start /\ g[N - d].end = end /\ h[N - d] # g[N - d]}
<1>1. /\ G!Read(p, start, closes, length1) = g[start]
      /\ G!Read(p, start, closes, length2) = h[start]
      /\ \A i \in 1..N : g[i] = ReadFrom(g, p, closes, length1, i)
      /\ \A i \in 1..N : h[i] = ReadFrom(h, p, closes, length2, i)
  BY ReadIsReading
<1> HIDE DEF g, h
<1>2. \A i \in 1..N : Inside(g, p, i)
  BY <1>1, ReadIsInside
<1>3. g[start].end = end /\ end \in start..Len(p) /\ g[start].members \subseteq start..(end - 1)
  BY <1>1, <1>2 DEF Inside
<1>4. ASSUME T # {} PROVE FALSE
  <2>1. PICK d \in T : \A e \in T : d <= e
    <3>1. T \subseteq Nat
      OBVIOUS
    <3> HIDE DEF T
    <3> QED
      BY <1>4, <3>1, Least
  <2> DEFINE i == N - d
  <2>2. i \in 1..N /\ i >= start /\ g[i].end = end /\ h[i] # g[i]
    BY <2>1
  <2>3. N - i = d
    BY <2>1
  <2> HIDE DEF i
  <2>4. /\ g[i] = ReadFrom(g, p, closes, length1, i)
        /\ h[i] = ReadFrom(h, p, closes, length2, i)
    BY <1>1, <2>2
  <2>5. i <= Len(p) /\ ~closes[i]
    BY <1>3, <2>2, <2>4 DEF ReadFrom
  <2> DEFINE n == i + length1[i]
  <2>6. n \in (i + 1)..N
    BY SMTT(30), <2>2, <2>5 DEF LengthsOK
  <2>7. g[i] = [end |-> g[n].end, members |-> {i} \cup g[n].members]
    <3>1. ReadFrom(g, p, closes, length1, i)
            = [end |-> g[n].end, members |-> {i} \cup g[n].members]
      BY <2>2, <2>5 DEF ReadFrom
    <3> QED
      BY <2>4, <3>1
  <2>8. g[n].end = end /\ n <= end
    <3>1. g[n].end = end
      BY <2>2, <2>7
    <3>2. Inside(g, p, n)
      BY <1>2, <2>2, <2>6
    <3> HIDE DEF n
    <3> QED
      BY <1>3, <2>2, <2>6, <3>1, <3>2 DEF Inside
  <2>9. i \in start..(end - 1)
    BY <1>3, <2>2, <2>6, <2>8
  <2>10. h[i] = [end |-> h[n].end, members |-> {i} \cup h[n].members]
    <3>1. n = i + length2[i]
      BY <2>9
    <3> HIDE DEF n
    <3>2. ReadFrom(h, p, closes, length2, i)
            = [end |-> h[n].end, members |-> {i} \cup h[n].members]
      BY <2>2, <2>5, <3>1 DEF ReadFrom
    <3> QED
      BY <2>4, <3>2
  <2> HIDE DEF n
  <2>11. N - n \in 0..(N - 1) /\ N - n < d /\ N - (N - n) = n /\ n >= start
    BY <2>1, <2>2, <2>3, <2>6
  <2>12. h[n] = g[n]
    <3>1. N - n \notin T
      <4> HIDE DEF T
      <4>1. N - n \in T => d <= N - n
        BY <2>1
      <4>2. d \in Nat /\ N - n \in Nat
        BY <2>3, <2>2, <2>11
      <4> QED
        BY <2>11, <4>1, <4>2
    <3> QED
      BY <2>8, <2>11, <3>1
  <2> QED
    BY <2>2, <2>7, <2>10, <2>12
<1>5. N - start \in 0..(N - 1) /\ N - (N - start) = start
  OBVIOUS
<1>6. h[start] = g[start]
  <2>1. N - start \notin T
    BY <1>4
  <2> DEFINE d == N - start
  <2>2. d \in 0..(N - 1) /\ N - d = start
    BY <1>5
  <2> HIDE DEF d
  <2>3. d \notin T
    BY <2>1 DEF d
  <2>4. start >= start
    OBVIOUS
  <2> QED
    BY <1>3, <2>2, <2>3, <2>4
<1> QED
  BY <1>1, <1>3, <1>6

\* Where the class that opens at i closes.
ClassEnd(p, i) == G!Members(p, G!Start(p, i)).end

\* A plain class is the same to both.
LEMMA ClassAgrees ==
    ASSUME NEW p, NEW at \in 1..Len(p), NEW c, Len(p) \in Nat, G!PlainClass(p, G!Start(p, at))
    PROVE  /\ ClassEnd(p, at) \in (at + 1)..Len(p)
           /\ G!Class(p, at, c) # G!Unterminated
           /\ G!Class(p, at, c) = G!ServerClass(p, at, c)
           /\ G!Class(p, at, c).next = ClassEnd(p, at) + 1
<1> DEFINE start == G!Start(p, at)
           code == G!Members(p, start)
           other == G!ServerMembers(p, start)
           end == ClassEnd(p, at)
<1>1. start \in 1..Len(p) /\ at + 1 <= start
  BY DEF G!PlainClass, G!Start
<1>2. end = code.end /\ end # 0 /\ p[start] # "]"
  BY DEF ClassEnd, G!PlainClass
<1>3. \A i \in start..(end - 1) :
        G!IsServerRange(p, i) => G!IsRange(p, i) /\ G!Byte(p[i]) <= G!Byte(p[i + 2])
  BY DEF ClassEnd, G!PlainClass
<1>4. /\ code = G!Read(p, start, G!Closes(p, start), G!Lengths(p))
      /\ other = G!Read(p, start, G!ServerCloses(p), G!ServerLengths(p))
  BY DEF G!Members, G!ServerMembers
<1>5. /\ G!Class(p, at, c)
           = IF code.end = 0 THEN G!Unterminated
             ELSE [next |-> code.end + 1,
                   hit |-> (\E i \in code.members : G!MemberIs(p, i, c)) # G!Negates(p, at)]
      /\ G!ServerClass(p, at, c)
           = [next |-> (IF other.end = 0 THEN Len(p) ELSE other.end) + 1,
              hit |-> (\E i \in other.members : G!ServerMemberIs(p, i, c)) # G!Negates(p, at)]
  BY DEF G!Class, G!ServerClass
<1> HIDE DEF start, code, other, end
<1>6. G!Closes(p, start) = G!ServerCloses(p)
  BY <1>1, <1>2 DEF G!Closes, G!ServerCloses
<1>7. \A i \in start..(end - 1) : G!IsServerRange(p, i) <=> G!IsRange(p, i)
  BY <1>3 DEF G!IsServerRange, G!IsRange
<1>8. \A i \in start..(end - 1) : G!Lengths(p)[i] = G!ServerLengths(p)[i]
  <2>1. \A i \in start..(end - 1) : G!MemberLength(p, i) = G!ServerMemberLength(p, i)
    BY <1>7 DEF G!MemberLength, G!ServerMemberLength
  <2>2. end \in Nat /\ end - 1 <= Len(p)
    <3> DEFINE closes == G!Closes(p, start)
               length == G!Lengths(p)
               g == TheReading(p, closes, length)
    <3>1. LengthsOK(p, length)
      BY MemberLengths
    <3>2. code = G!Read(p, start, closes, length)
      BY <1>4
    <3> HIDE DEF closes, length
    <3>3. code = g[start] /\ \A i \in 1..(Len(p) + 3) : g[i] = ReadFrom(g, p, closes, length, i)
      BY <3>1, <3>2, ReadIsReading
    <3> HIDE DEF g
    <3>4. \A i \in 1..(Len(p) + 3) : Inside(g, p, i)
      BY <3>1, <3>3, ReadIsInside
    <3>5. start \in 1..(Len(p) + 3)
      BY <1>1
    <3> QED
      BY <1>1, <1>2, <3>3, <3>4, <3>5 DEF Inside
  <2> QED
    <3> TAKE i \in start..(end - 1)
    <3>1. i \in 1..Len(p)
      BY <1>1, <2>2
    <3>2. /\ G!Lengths(p)[i] = G!MemberLength(p, i)
          /\ G!ServerLengths(p)[i] = G!ServerMemberLength(p, i)
      BY <3>1 DEF G!Lengths, G!ServerLengths
    <3> QED
      BY <2>1, <3>2
<1>9. other = code /\ end \in start..Len(p) /\ code.members \subseteq start..(end - 1)
  <2> DEFINE closes == G!Closes(p, start)
             length1 == G!Lengths(p)
             length2 == G!ServerLengths(p)
  <2>1. LengthsOK(p, length1) /\ LengthsOK(p, length2)
    BY MemberLengths
  <2>2. /\ code = G!Read(p, start, closes, length1)
        /\ other = G!Read(p, start, closes, length2)
    BY <1>4, <1>6
  <2>3. \A i \in start..(end - 1) : length1[i] = length2[i]
    BY <1>8
  <2> HIDE DEF closes, length1, length2
  <2>4. end = G!Read(p, start, closes, length1).end
    BY <1>2, <2>2
  <2>5. /\ G!Read(p, start, closes, length2) = G!Read(p, start, closes, length1)
        /\ end \in start..Len(p)
        /\ G!Read(p, start, closes, length1).members \subseteq start..(end - 1)
    BY <1>1, <1>2, <2>1, <2>3, <2>4, ReadAlike
  <2> QED
    BY <2>2, <2>5
<1>10. \A i \in start..(end - 1) : G!MemberIs(p, i, c) <=> G!ServerMemberIs(p, i, c)
  BY <1>3, <1>7 DEF G!MemberIs, G!ServerMemberIs, G!Within
<1>11. (\E i \in code.members : G!MemberIs(p, i, c))
         <=> (\E i \in other.members : G!ServerMemberIs(p, i, c))
  BY <1>9, <1>10
<1>12. end \in (at + 1)..Len(p)
  BY <1>1, <1>9
<1> DEFINE hit == (\E i \in code.members : G!MemberIs(p, i, c)) # G!Negates(p, at)
<1>13. G!Class(p, at, c) = [next |-> end + 1, hit |-> hit]
  BY <1>2, <1>5
<1>14. G!ServerClass(p, at, c) = [next |-> end + 1, hit |-> hit]
  BY <1>2, <1>5, <1>9, <1>11
<1> HIDE DEF hit
<1>15. [next |-> end + 1, hit |-> hit] # G!Unterminated
  BY <1>12 DEF G!Unterminated
<1> QED
  BY <1>12, <1>13, <1>14, <1>15 DEF end

-----------------------------------------------------------------------------
(* Patterns: what is not a star takes one character, and the same part of the pattern whatever *)
(* the character.                                                                               *)

After(p, i) ==
    CASE p[i] = "[" -> ClassEnd(p, i) + 1
      [] p[i] = "\\" /\ i < Len(p) -> i + 2
      [] OTHER -> i + 1

Takes(p, i, c) ==
    CASE p[i] = "?" -> TRUE
      [] p[i] = "[" -> G!Class(p, i, c).hit
      [] p[i] = "\\" /\ i < Len(p) -> p[i + 1] = c
      [] OTHER -> p[i] = c

\* The class a plain pattern opens at i is the same to both.
LEMMA PlainAgrees ==
    ASSUME NEW p, NEW i \in Nat, NEW c, Len(p) \in Nat, G!PlainClasses(p), 1 <= i, i <= Len(p),
           p[i] = "["
    PROVE  /\ ClassEnd(p, i) \in (i + 1)..Len(p)
           /\ G!Class(p, i, c) # G!Unterminated
           /\ G!Class(p, i, c) = G!ServerClass(p, i, c)
           /\ G!Class(p, i, c).next = ClassEnd(p, i) + 1
<1>1. G!PlainClass(p, G!Start(p, i))
  BY DEF G!PlainClasses
<1> QED
  BY <1>1, ClassAgrees

LEMMA AfterInside ==
    ASSUME NEW p, NEW i \in Nat, Len(p) \in Nat, G!PlainClasses(p), 1 <= i, i <= Len(p)
    PROVE  After(p, i) \in (i + 1)..(Len(p) + 1)
<1>1. CASE p[i] = "["
  <2>1. ClassEnd(p, i) \in (i + 1)..Len(p)
    BY <1>1, PlainAgrees
  <2> QED
    BY <1>1, <2>1 DEF After
<1>2. CASE p[i] # "[" /\ p[i] = "\\" /\ i < Len(p)
  BY <1>2 DEF After
<1>3. CASE p[i] # "[" /\ ~(p[i] = "\\" /\ i < Len(p))
  BY <1>3 DEF After
<1> QED
  BY <1>1, <1>2, <1>3

LEMMA OneTakes ==
    ASSUME NEW p, NEW k, NEW g, NEW i \in Nat, NEW j, Len(p) \in Nat, G!PlainClasses(p),
           1 <= i, i <= Len(p)
    PROVE  G!OneMeans(p, k, g, i, j) <=> Takes(p, i, k[j]) /\ j + 1 \in g[After(p, i)]
<1>1. CASE p[i] = "?"
  BY <1>1 DEF G!OneMeans, Takes, After
<1>2. CASE p[i] = "["
  <2>1. /\ G!Class(p, i, k[j]) = G!ServerClass(p, i, k[j])
        /\ G!Class(p, i, k[j]).next = ClassEnd(p, i) + 1
    BY <1>2, PlainAgrees
  <2>2. G!OneMeans(p, k, g, i, j) <=> /\ G!ServerClass(p, i, k[j]).hit
                                      /\ j + 1 \in g[G!ServerClass(p, i, k[j]).next]
    BY <1>2 DEF G!OneMeans
  <2> QED
    BY <1>2, <2>1, <2>2 DEF Takes, After
<1>3. CASE p[i] = "\\"
  BY <1>3 DEF G!OneMeans, Takes, After
<1>4. CASE p[i] \notin {"?", "[", "\\"}
  BY <1>4 DEF G!OneMeans, Takes, After
<1> QED
  BY <1>1, <1>2, <1>3, <1>4

-----------------------------------------------------------------------------
(* Patterns: what a pattern means exists, and how it follows the pattern. *)

WaysFrom(g, p, k, i) ==
    IF i > Len(p) THEN {Len(k) + 1}
    ELSE IF p[i] = "*" THEN {j \in 1..(Len(k) + 1) : \E n \in j..(Len(k) + 1) : n \in g[i + 1]}
    ELSE {j \in 1..Len(k) : G!OneMeans(p, k, g, i, j)}

Wayed(g, p, k, m) == g = [i \in m..(Len(p) + 1) |-> WaysFrom(g, p, k, i)]

Ways(p, k) == CHOOSE g : Wayed(g, p, k, 1)

LEMMA WaysAreLocal ==
    ASSUME NEW p, NEW k, NEW g, NEW h, NEW i \in Nat, Len(p) \in Nat, G!PlainClasses(p), 1 <= i,
           i <= Len(p),
           \A n \in (i + 1)..(Len(p) + 1) : h[n] = g[n]
    PROVE  WaysFrom(h, p, k, i) = WaysFrom(g, p, k, i)
<1>1. i + 1 \in (i + 1)..(Len(p) + 1) /\ After(p, i) \in (i + 1)..(Len(p) + 1)
  BY AfterInside
<1>2. h[i + 1] = g[i + 1] /\ h[After(p, i)] = g[After(p, i)]
  BY <1>1
<1>3. \A j : G!OneMeans(p, k, h, i, j) <=> G!OneMeans(p, k, g, i, j)
  <2> TAKE j
  <2>1. G!OneMeans(p, k, h, i, j) <=> Takes(p, i, k[j]) /\ j + 1 \in h[After(p, i)]
    BY OneTakes
  <2>2. G!OneMeans(p, k, g, i, j) <=> Takes(p, i, k[j]) /\ j + 1 \in g[After(p, i)]
    BY OneTakes
  <2> QED
    BY <1>2, <2>1, <2>2
<1> QED
  BY <1>2, <1>3 DEF WaysFrom

LEMMA WaysExist ==
    ASSUME NEW p, NEW k, Len(p) \in Nat, G!PlainClasses(p)
    PROVE  \E g : Wayed(g, p, k, 1)
<1> DEFINE N == Len(p) + 1
           T == {d \in 0..(N - 1) : ~ \E g : Wayed(g, p, k, N - d)}
<1>1. ASSUME T # {} PROVE FALSE
  <2>1. PICK d \in T : \A e \in T : d <= e
    <3>1. T \subseteq Nat
      OBVIOUS
    <3> HIDE DEF T
    <3> QED
      BY <1>1, <3>1, Least
  <2> DEFINE m == N - d
  <2>2. d # 0
    <3> DEFINE g == [i \in N..N |-> {Len(k) + 1}]
    <3>1. \A i \in N..N : WaysFrom(g, p, k, i) = {Len(k) + 1}
      BY DEF WaysFrom
    <3>2. Wayed(g, p, k, N)
      BY <3>1 DEF Wayed
    <3>3. N - 0 = N
      OBVIOUS
    <3> QED
      BY <2>1, <3>2, <3>3
  <2>3. d - 1 \in 0..(N - 1) /\ d - 1 \notin T /\ m \in 1..(N - 1) /\ N - (d - 1) = m + 1
    BY <2>1, <2>2
  <2>4. PICK g : Wayed(g, p, k, m + 1)
    BY <2>3
  <2> HIDE DEF m
  <2> DEFINE h == [i \in m..N |-> IF i >= m + 1 THEN g[i] ELSE WaysFrom(g, p, k, m)]
  <2>5. \A i \in (m + 1)..N : h[i] = g[i] /\ g[i] = WaysFrom(g, p, k, i)
    <3>1. \A i \in (m + 1)..N : g[i] = WaysFrom(g, p, k, i)
      BY <2>4, Zenon DEF Wayed
    <3>2. \A i \in (m + 1)..N : h[i] = g[i]
      BY <2>3
    <3> QED
      BY <3>1, <3>2
  <2>6. h[m] = WaysFrom(g, p, k, m) /\ h = [i \in m..N |-> h[i]]
    BY <2>3
  <2> HIDE DEF h
  <2>7. \A i \in m..N : WaysFrom(h, p, k, i) = WaysFrom(g, p, k, i)
    <3> TAKE i \in m..N
    <3>1. CASE i > Len(p)
      BY <3>1 DEF WaysFrom
    <3>2. CASE i <= Len(p)
      <4>1. i \in Nat /\ 1 <= i
        BY <2>3
      <4>2. \A n \in (i + 1)..(Len(p) + 1) : h[n] = g[n]
        BY <2>3, <2>5
      <4> QED
        BY <3>2, <4>1, <4>2, WaysAreLocal
    <3> QED
      BY <2>3, <3>1, <3>2
  <2>8. \A i \in m..N : h[i] = WaysFrom(h, p, k, i)
    <3> TAKE i \in m..N
    <3>1. i = m \/ i \in (m + 1)..N
      BY <2>3
    <3> QED
      BY <2>5, <2>6, <2>7, <3>1
  <2>9. Wayed(h, p, k, m)
    BY <2>6, <2>8, Zenon DEF Wayed
  <2> QED
    BY <2>1, <2>9 DEF m
<1>2. N - 1 \in 0..(N - 1) /\ N - (N - 1) = 1
  OBVIOUS
<1> QED
  BY <1>1, <1>2

LEMMA MeansWays ==
    ASSUME NEW p, NEW k, Len(p) \in Nat, G!PlainClasses(p)
    PROVE  /\ G!Means(p, k) <=> 1 \in Ways(p, k)[1]
           /\ \A i \in 1..(Len(p) + 1) : Ways(p, k)[i] = WaysFrom(Ways(p, k), p, k, i)
<1>1. Wayed(Ways(p, k), p, k, 1)
  BY WaysExist DEF Ways
<1>2. \A i \in 1..(Len(p) + 1) : Ways(p, k)[i] = WaysFrom(Ways(p, k), p, k, i)
  <2> DEFINE w == Ways(p, k)
  <2>1. Wayed(w, p, k, 1)
    BY <1>1
  <2> HIDE DEF w
  <2>2. \A i \in 1..(Len(p) + 1) : w[i] = WaysFrom(w, p, k, i)
    BY <2>1, Zenon DEF Wayed
  <2> QED
    BY <2>2 DEF w
<1>3. G!Means(p, k) <=> 1 \in Ways(p, k)[1]
  BY DEF G!Means, Ways, Wayed, WaysFrom
<1> QED
  BY <1>2, <1>3

LEMMA WaysAtEnd ==
    ASSUME NEW p, NEW k, Len(p) \in Nat, G!PlainClasses(p)
    PROVE  Ways(p, k)[Len(p) + 1] = {Len(k) + 1}
<1>1. Len(p) + 1 \in 1..(Len(p) + 1) /\ Len(p) + 1 > Len(p)
  OBVIOUS
<1>2. Ways(p, k)[Len(p) + 1] = WaysFrom(Ways(p, k), p, k, Len(p) + 1)
  BY <1>1, MeansWays
<1> QED
  BY <1>1, <1>2 DEF WaysFrom

LEMMA WaysOfStar ==
    ASSUME NEW p, NEW k, NEW i \in Nat, Len(p) \in Nat, G!PlainClasses(p), 1 <= i, i <= Len(p),
           p[i] = "*", NEW j
    PROVE  j \in Ways(p, k)[i] <=> /\ j \in 1..(Len(k) + 1)
                                   /\ \E n \in j..(Len(k) + 1) : n \in Ways(p, k)[i + 1]
<1>1. Ways(p, k)[i] = WaysFrom(Ways(p, k), p, k, i)
  BY MeansWays
<1> QED
  BY <1>1 DEF WaysFrom

LEMMA WaysOfOne ==
    ASSUME NEW p, NEW k, NEW i \in Nat, Len(p) \in Nat, G!PlainClasses(p), 1 <= i, i <= Len(p),
           p[i] # "*", NEW j
    PROVE  j \in Ways(p, k)[i] <=> /\ j \in 1..Len(k) /\ Takes(p, i, k[j])
                                   /\ j + 1 \in Ways(p, k)[After(p, i)]
<1>1. Ways(p, k)[i] = WaysFrom(Ways(p, k), p, k, i)
  BY MeansWays
<1>2. G!OneMeans(p, k, Ways(p, k), i, j)
        <=> Takes(p, i, k[j]) /\ j + 1 \in Ways(p, k)[After(p, i)]
  BY OneTakes
<1> QED
  BY <1>1, <1>2 DEF WaysFrom

\* At the end of the key only stars are matched.
LEMMA WaysAtTheEndOfTheKey ==
    ASSUME NEW p, NEW k, NEW i \in Nat, Len(p) \in Nat, G!PlainClasses(p), Len(k) \in Nat,
           1 <= i, i <= Len(p) + 1
    PROVE  Len(k) + 1 \in Ways(p, k)[i] <=> \A n \in i..Len(p) : p[n] = "*"
<1> DEFINE N == Len(p) + 1
           L == Len(k) + 1
           W == Ways(p, k)
           OK(n) == L \in W[n] <=> \A m \in n..Len(p) : p[m] = "*"
           T == {d \in 0..(N - 1) : ~OK(N - d)}
<1>1. ASSUME T # {} PROVE FALSE
  <2>1. PICK d \in T : \A e \in T : d <= e
    <3>1. T \subseteq Nat
      OBVIOUS
    <3> HIDE DEF T
    <3> QED
      BY <1>1, <3>1, Least
  <2> DEFINE n == N - d
  <2>2. n \in 1..N /\ ~OK(n)
    BY <2>1
  <2>3. n # N
    <3>1. W[N] = {L}
      BY WaysAtEnd
    <3>2. \A m \in N..Len(p) : p[m] = "*"
      OBVIOUS
    <3> QED
      BY <2>2, <3>1, <3>2
  <2>4. n \in Nat /\ 1 <= n /\ n <= Len(p)
    BY <2>2, <2>3
  <2>5. d - 1 \in 0..(N - 1) /\ d - 1 < d /\ N - (d - 1) = n + 1
    BY <2>1, <2>3
  <2>6. OK(n + 1)
    <3> HIDE DEF OK
    <3>1. d - 1 \notin T
      BY <2>1, <2>5
    <3>2. OK(N - (d - 1))
      BY <2>5, <3>1
    <3> QED
      BY <2>5, <3>2
  <2> HIDE DEF n, N
  <2>7. CASE p[n] = "*"
    <3>1. L \in W[n] <=> /\ L \in 1..(Len(k) + 1)
                         /\ \E m \in L..(Len(k) + 1) : m \in W[n + 1]
      BY <2>4, <2>7, WaysOfStar
    <3>2. L \in W[n] <=> L \in W[n + 1]
      BY <3>1
    <3>3. (\A m \in n..Len(p) : p[m] = "*") <=> (\A m \in (n + 1)..Len(p) : p[m] = "*")
      BY <2>4, <2>7
    <3> QED
      BY <2>2, <2>6, <3>2, <3>3
  <2>8. CASE p[n] # "*"
    <3>1. L \notin W[n]
      <4>1. L \in W[n] => L \in 1..Len(k)
        BY <2>4, <2>8, WaysOfOne
      <4> QED
        BY <4>1
    <3>2. n \in n..Len(p)
      BY <2>4
    <3> QED
      BY <2>2, <2>8, <3>1, <3>2
  <2> QED
    BY <2>7, <2>8
<1>2. N - i \in 0..(N - 1) /\ N - (N - i) = i
  OBVIOUS
<1>3. OK(i)
  BY <1>1, <1>2
<1> QED
  BY <1>3

LEMMA WaysAreInside ==
    ASSUME NEW p, NEW k, NEW i \in Nat, Len(p) \in Nat, G!PlainClasses(p), Len(k) \in Nat,
           1 <= i, i <= Len(p) + 1,
           NEW j, j \in Ways(p, k)[i]
    PROVE  j \in 1..(Len(k) + 1)
<1>1. CASE i = Len(p) + 1
  BY <1>1, WaysAtEnd
<1>2. CASE i <= Len(p) /\ p[i] = "*"
  BY <1>2, WaysOfStar
<1>3. CASE i <= Len(p) /\ p[i] # "*"
  <2>1. j \in 1..Len(k)
    BY <1>3, WaysOfOne
  <2> QED
    BY <2>1
<1> QED
  BY <1>1, <1>2, <1>3

-----------------------------------------------------------------------------
(* Patterns: the walk. *)

\* No key holds a backslash that patterns use, on which the walk and the meaning of a pattern part
\* (PolicyGlob.cfg), nor an opening bracket, and every class is plain.
Plain ==
    /\ \A p \in Patterns : G!PlainClasses(p)
    /\ \A p \in Patterns, k \in Keys :
         \A n \in 1..Len(p), i \in 1..Len(k) : p[n] = k[i] => k[i] \notin {"\\", "["}

GlobTypes ==
    /\ pattern \in Patterns /\ Len(pattern) \in Nat /\ G!PlainClasses(pattern)
    /\ key \in Keys /\ Len(key) \in Nat
    /\ pi \in 1..(Len(pattern) + 1) /\ ki \in 1..(Len(key) + 1)
    /\ star \in 0..Len(pattern) /\ starK \in 0..(Len(key) + 1)

\* A turn of the loop is a star, a character taken by the pattern as it means, or a mismatch.
LEMMA WalkCases ==
    ASSUME Plain, GlobTypes, ki <= Len(key), G!Star \/ G!AnyOne \/ G!OneOf \/ G!Other
    PROVE  \/ pi <= Len(pattern) /\ pattern[pi] = "*" /\ G!Star
           \/ /\ pi <= Len(pattern) /\ pattern[pi] # "*" /\ Takes(pattern, pi, key[ki])
              /\ pi' = After(pattern, pi) /\ ki' = ki + 1 /\ UNCHANGED <<star, starK, verdict>>
           \/ /\ pi > Len(pattern) \/ (pattern[pi] # "*" /\ ~Takes(pattern, pi, key[ki]))
              /\ G!Retry
<1>1. /\ Len(pattern) \in Nat /\ Len(key) \in Nat /\ pi \in Nat /\ 1 <= pi
      /\ G!PlainClasses(pattern)
      /\ pi <= Len(pattern) /\ pattern[pi] = key[ki] => key[ki] \notin {"\\", "["}
  BY DEF GlobTypes, Plain
<1>2. CASE G!Star
  BY <1>2 DEF G!Star, G!Sees
<1>3. CASE G!AnyOne
  BY <1>3 DEF G!AnyOne, G!Sees, G!Advance, Takes, After
<1>4. CASE G!OneOf
  <2> DEFINE m == G!Class(pattern, pi, key[ki])
  <2>1. pi <= Len(pattern) /\ pattern[pi] = "["
    BY <1>4 DEF G!OneOf, G!Sees
  <2>3. IF m # G!Unterminated /\ m.hit
        THEN pi' = m.next /\ ki' = ki + 1 /\ UNCHANGED <<star, starK, verdict>>
        ELSE G!Retry
    BY <1>4 DEF G!OneOf
  <2>4. m # G!Unterminated /\ m.next = ClassEnd(pattern, pi) + 1
    BY <1>1, <2>1, PlainAgrees
  <2>5. Takes(pattern, pi, key[ki]) <=> m.hit
    BY <2>1 DEF Takes
  <2>6. After(pattern, pi) = m.next
    BY <2>1, <2>4 DEF After
  <2> HIDE DEF m
  <2> QED
    BY <2>1, <2>3, <2>4, <2>5, <2>6
<1>5. CASE G!Other
  <2>1. pi <= Len(pattern) => pattern[pi] \notin {"*", "?", "["}
    BY <1>5 DEF G!Other, G!Sees
  <2>2. pi <= Len(pattern) /\ pattern[pi] = "\\" => key[ki] # "\\"
    BY <1>1
  <2>3. CASE G!Escaped
    BY <1>5, <2>1, <2>3 DEF G!Other, G!Escaped, G!Sees, G!Advance, Takes, After
  <2>4. CASE ~G!Escaped /\ G!Sees(key[ki])
    BY <1>5, <2>1, <2>2, <2>4 DEF G!Other, G!Sees, G!Advance, Takes, After
  <2>5. CASE ~G!Escaped /\ ~G!Sees(key[ki])
    <3>1. G!Retry
      BY <1>5, <2>5 DEF G!Other
    <3>2. pi <= Len(pattern) => ~Takes(pattern, pi, key[ki])
      BY <1>1, <2>1, <2>5 DEF G!Escaped, G!Sees, Takes
    <3> QED
      BY <1>1, <2>1, <3>1, <3>2
  <2> QED
    BY <2>3, <2>4, <2>5
<1> QED
  BY <1>2, <1>3, <1>4, <1>5

\* The key matches from where the pattern begins if and only if it matches from where the walk
\* is, or, after a star, from where the star was last tried or later; and every later try, led
\* as far as this one, still matches from where the walk is.
WalkMeans ==
    star = 0 => (G!Means(pattern, key) <=> ki \in Ways(pattern, key)[pi])

StarMeans ==
    star # 0 =>
      /\ starK \in 1..ki /\ pattern[star] = "*"
      /\ G!Means(pattern, key)
           <=> \E n \in starK..(Len(key) + 1) : n \in Ways(pattern, key)[star + 1]
      /\ starK \in Ways(pattern, key)[star + 1] <=> ki \in Ways(pattern, key)[pi]
      /\ \A n \in starK..(Len(key) + 1) :
           n \in Ways(pattern, key)[star + 1] => n + (ki - starK) \in Ways(pattern, key)[pi]

GlobInv ==
    /\ GlobTypes
    /\ GlobIsExact
    /\ verdict = "open" => WalkMeans /\ StarMeans

\* When the pattern from pi on can only match here, the walk's position decides.
LEMMA FinishExact ==
    ASSUME GlobTypes, WalkMeans, StarMeans, ki = Len(key) + 1
    PROVE  G!Means(pattern, key) <=> ki \in Ways(pattern, key)[pi]
<1>1. CASE star = 0
  BY <1>1 DEF WalkMeans
<1>2. CASE star # 0
  <2> DEFINE W == Ways(pattern, key)
             L == Len(key) + 1
  <2>1. /\ starK \in 1..ki /\ L \in Nat
        /\ G!Means(pattern, key) <=> \E n \in starK..L : n \in W[star + 1]
        /\ starK \in W[star + 1] <=> ki \in W[pi]
        /\ \A n \in starK..L : n \in W[star + 1] => n + (ki - starK) \in W[pi]
    BY <1>2 DEF StarMeans, GlobTypes
  <2>2. \A j \in W[pi] : j \in 1..L
    BY WaysAreInside DEF GlobTypes
  <2> HIDE DEF W, L
  <2>3. ASSUME NEW n \in starK..L, n \in W[star + 1] PROVE n = starK
    <3>1. n + (ki - starK) \in 1..L
      BY <2>1, <2>2, <2>3
    <3>2. ki = L
      BY DEF L
    <3> QED
      BY <2>1, <3>1, <3>2
  <2>4. starK \in starK..L
    BY <2>1 DEF L
  <2> QED
    BY <2>1, <2>3, <2>4 DEF W
<1> QED
  BY <1>1, <1>2

LEMMA StarStep ==
    ASSUME GlobTypes, WalkMeans, StarMeans, ki <= Len(key), pi <= Len(pattern),
           pattern[pi] = "*", G!Star, UNCHANGED <<pattern, key>>
    PROVE  GlobTypes' /\ WalkMeans' /\ StarMeans'
<1> DEFINE W == Ways(pattern, key)
           L == Len(key) + 1
<1>1. star' = pi /\ starK' = ki /\ pi' = pi + 1 /\ ki' = ki
  BY DEF G!Star
<1>2. GlobTypes'
  BY <1>1 DEF GlobTypes
<1>3. /\ G!PlainClasses(pattern)
      /\ pi \in Nat /\ 1 <= pi /\ ki \in Nat /\ 1 <= ki /\ Len(pattern) \in Nat
      /\ Len(key) \in Nat /\ L \in Nat /\ ki \in 1..L /\ star \in Nat
  BY DEF GlobTypes
<1>4. ki \in W[pi] <=> \E n \in ki..L : n \in W[pi + 1]
  BY <1>3, WaysOfStar
<1>5. G!Means(pattern, key) <=> \E n \in ki..L : n \in W[pi + 1]
  <2>1. CASE star = 0
    BY <1>4, <2>1 DEF WalkMeans
  <2>2. CASE star # 0
    <3>1. /\ starK \in 1..ki
          /\ G!Means(pattern, key) <=> \E n \in starK..L : n \in W[star + 1]
          /\ starK \in W[star + 1] <=> ki \in W[pi]
          /\ \A n \in starK..L : n \in W[star + 1] => n + (ki - starK) \in W[pi]
      BY <2>2 DEF StarMeans
    <3>2. \A j \in W[pi] : j \in 1..L /\ \E n \in j..L : n \in W[pi + 1]
      BY <1>3, WaysOfStar
    <3> HIDE DEF W, L
    <3>3. starK \in starK..L
      BY <1>3, <3>1
    <3>4. ASSUME NEW n \in starK..L, n \in W[star + 1]
          PROVE  \E m \in ki..L : m \in W[pi + 1]
      <4>1. n + (ki - starK) \in W[pi]
        BY <3>1, <3>4
      <4>2. PICK m \in (n + (ki - starK))..L : m \in W[pi + 1]
        BY <3>2, <4>1
      <4>3. m \in ki..L
        BY <1>3, <3>1, <4>2
      <4> QED
        BY <4>2, <4>3
    <3> QED
      BY <1>4, <3>1, <3>3, <3>4
  <2> QED
    BY <2>1, <2>2
<1>6. \A n \in ki..L : n + (ki - ki) = n
  BY <1>3
<1>7. StarMeans'
  <2> HIDE DEF W
  <2>1. ki \in 1..ki
    BY <1>3
  <2>2. pattern' = pattern /\ key' = key
    OBVIOUS
  <2>3. /\ ki \in 1..ki /\ pattern[pi] = "*"
        /\ G!Means(pattern, key) <=> \E n \in ki..L : n \in W[pi + 1]
        /\ \A n \in ki..L : n \in W[pi + 1] => n + (ki - ki) \in W[pi + 1]
    BY <1>5, <1>6, <2>1
  <2> QED
    BY <1>1, <2>2, <2>3 DEF StarMeans, W
<1>8. WalkMeans'
  BY <1>1, <1>3 DEF WalkMeans
<1> QED
  BY <1>2, <1>7, <1>8

LEMMA TakeStep ==
    ASSUME GlobTypes, WalkMeans, StarMeans, ki <= Len(key), pi <= Len(pattern),
           pattern[pi] # "*", Takes(pattern, pi, key[ki]),
           pi' = After(pattern, pi), ki' = ki + 1, UNCHANGED <<star, starK, pattern, key>>
    PROVE  GlobTypes' /\ WalkMeans' /\ StarMeans'
<1> DEFINE W == Ways(pattern, key)
           L == Len(key) + 1
           a == After(pattern, pi)
<1>1. /\ G!PlainClasses(pattern)
      /\ pi \in Nat /\ 1 <= pi /\ ki \in Nat /\ 1 <= ki /\ Len(pattern) \in Nat
      /\ Len(key) \in Nat /\ L \in Nat /\ ki \in 1..Len(key)
  BY DEF GlobTypes
<1>2. a \in 1..(Len(pattern) + 1)
  BY <1>1, AfterInside
<1>3. GlobTypes'
  BY <1>1, <1>2 DEF GlobTypes
<1>4. \A j : j \in W[pi] <=> j \in 1..Len(key) /\ Takes(pattern, pi, key[j]) /\ j + 1 \in W[a]
  BY <1>1, WaysOfOne
<1>5. ki \in W[pi] <=> ki + 1 \in W[a]
  BY <1>1, <1>4
<1>6. WalkMeans'
  BY <1>5 DEF WalkMeans
<1>7. ASSUME star # 0 PROVE StarMeans'
  <2>1. /\ starK \in 1..ki /\ pattern[star] = "*"
        /\ G!Means(pattern, key) <=> \E n \in starK..L : n \in W[star + 1]
        /\ starK \in W[star + 1] <=> ki \in W[pi]
        /\ \A n \in starK..L : n \in W[star + 1] => n + (ki - starK) \in W[pi]
    BY <1>7 DEF StarMeans
  <2>2. starK \in 1..(ki + 1)
    BY <1>1, <2>1
  <2>3. ASSUME NEW n \in starK..L, n \in W[star + 1]
        PROVE  n + ((ki + 1) - starK) \in W[a]
    <3>1. n + (ki - starK) \in W[pi]
      BY <2>1, <2>3
    <3>2. (n + (ki - starK)) + 1 \in W[a]
      BY <1>4, <3>1
    <3>3. n + ((ki + 1) - starK) = (n + (ki - starK)) + 1
      BY <1>1, <2>1
    <3> QED
      BY <3>2, <3>3
  <2> HIDE DEF W, a
  <2>4. /\ starK \in 1..(ki + 1) /\ pattern[star] = "*"
        /\ G!Means(pattern, key) <=> \E n \in starK..L : n \in W[star + 1]
        /\ starK \in W[star + 1] <=> ki + 1 \in W[a]
        /\ \A n \in starK..L : n \in W[star + 1] => n + ((ki + 1) - starK) \in W[a]
    BY <1>5, <2>1, <2>2, <2>3
  <2>5. pi' = a /\ ki' = ki + 1 /\ star' = star /\ starK' = starK /\ pattern' = pattern
        /\ key' = key
    BY DEF a
  <2> QED
    BY <2>4, <2>5 DEF StarMeans, W
<1>8. star = 0 => StarMeans'
  BY DEF StarMeans
<1> QED
  BY <1>3, <1>6, <1>7, <1>8

LEMMA MismatchStep ==
    ASSUME GlobTypes, WalkMeans, StarMeans, ki <= Len(key),
           pi > Len(pattern) \/ (pattern[pi] # "*" /\ ~Takes(pattern, pi, key[ki])),
           G!Retry, UNCHANGED <<pattern, key>>, verdict = "open"
    PROVE  GlobInv'
<1> DEFINE W == Ways(pattern, key)
           L == Len(key) + 1
<1>1. /\ G!PlainClasses(pattern)
      /\ pi \in Nat /\ 1 <= pi /\ ki \in Nat /\ 1 <= ki /\ Len(pattern) \in Nat
      /\ Len(key) \in Nat /\ L \in Nat /\ ki \in 1..Len(key) /\ star \in 0..Len(pattern)
  BY DEF GlobTypes
<1>2. ki \notin W[pi]
  <2>1. CASE pi > Len(pattern)
    <3>1. pi = Len(pattern) + 1
      BY <2>1 DEF GlobTypes
    <3>2. W[pi] = {L}
      BY <1>1, <3>1, WaysAtEnd
    <3> QED
      BY <1>1, <3>2
  <2>2. CASE pi <= Len(pattern) /\ pattern[pi] # "*" /\ ~Takes(pattern, pi, key[ki])
    BY <1>1, <2>2, WaysOfOne
  <2> QED
    BY <1>1, <2>1, <2>2
<1>3. CASE star = 0
  <2>1. ~G!Means(pattern, key)
    BY <1>2, <1>3 DEF WalkMeans
  <2>2. verdict' = "no" /\ UNCHANGED <<pi, ki, star, starK, pattern, key>>
    BY <1>3 DEF G!Retry, G!None
  <2>3. GlobTypes'
    BY <2>2 DEF GlobTypes
  <2>4. GlobIsExact'
    BY <2>1, <2>2 DEF GlobIsExact, G!GlobIsExact, G!Means
  <2> QED
    BY <2>2, <2>3, <2>4 DEF GlobInv
<1>4. CASE star # 0
  <2>1. /\ starK' = starK + 1 /\ ki' = starK + 1 /\ pi' = star + 1
        /\ UNCHANGED <<star, verdict, pattern, key>>
    BY <1>4 DEF G!Retry, G!None
  <2>2. /\ starK \in 1..ki /\ pattern[star] = "*"
        /\ G!Means(pattern, key) <=> \E n \in starK..L : n \in W[star + 1]
        /\ starK \in W[star + 1] <=> ki \in W[pi]
    BY <1>4 DEF StarMeans
  <2>3. GlobTypes'
    BY <1>1, <1>4, <2>1, <2>2 DEF GlobTypes
  <2> HIDE DEF W
  <2>4. starK + 1 \in 1..(starK + 1) /\ \A n \in (starK + 1)..L : n + ((starK + 1) - (starK + 1)) = n
    BY <1>1, <2>2
  <2>5. \A n \in starK..L : n \in W[star + 1] => n \in (starK + 1)..L
    BY <1>1, <1>2, <2>2
  <2>6. \A n \in (starK + 1)..L : n \in starK..L
    BY <1>1, <2>2
  <2>7. G!Means(pattern, key) <=> \E n \in (starK + 1)..L : n \in W[star + 1]
    BY <2>2, <2>5, <2>6
  <2>8. StarMeans'
    BY <1>4, <2>1, <2>2, <2>4, <2>7 DEF StarMeans, W
  <2>9. WalkMeans' /\ GlobIsExact'
    BY <1>4, <2>1 DEF WalkMeans, GlobIsExact, G!GlobIsExact
  <2> QED
    BY <2>3, <2>8, <2>9 DEF GlobInv
<1> QED
  BY <1>3, <1>4

LEMMA GlobStep ==
    ASSUME Plain, GlobInv, [G!Next]_(G!vars)
    PROVE  GlobInv'
<1>1. CASE UNCHANGED G!vars
  BY <1>1 DEF G!vars, GlobInv, GlobTypes, GlobIsExact, G!GlobIsExact, WalkMeans, StarMeans
<1>2. CASE G!Next
  <2>1. verdict = "open" /\ UNCHANGED <<pattern, key>> /\ GlobTypes /\ WalkMeans /\ StarMeans
    BY <1>2 DEF G!Next, GlobInv
  <2>2. /\ ki \in Nat /\ Len(key) \in Nat /\ Len(pattern) \in Nat /\ ki <= Len(key) + 1
        /\ G!PlainClasses(pattern)
    BY <2>1 DEF GlobTypes
  <2>3. CASE ki > Len(key)
    <3>1. /\ verdict' = IF \A i \in pi..Len(pattern) : pattern[i] = "*" THEN "yes" ELSE "no"
          /\ UNCHANGED <<pi, ki, star, starK>>
      BY <1>2, <2>3 DEF G!Next, G!AtEnd, G!Finish
    <3>2. ki = Len(key) + 1
      BY <2>2, <2>3
    <3>3. G!Means(pattern, key) <=> ki \in Ways(pattern, key)[pi]
      BY <2>1, <3>2, FinishExact
    <3>4. pi \in Nat /\ 1 <= pi /\ pi <= Len(pattern) + 1
      BY <2>1 DEF GlobTypes
    <3>5. ki \in Ways(pattern, key)[pi] <=> \A i \in pi..Len(pattern) : pattern[i] = "*"
      BY <2>2, <3>2, <3>4, WaysAtTheEndOfTheKey
    <3>6. GlobIsExact'
      BY <2>1, <3>1, <3>3, <3>5 DEF GlobIsExact, G!GlobIsExact, G!Means
    <3>7. GlobTypes'
      BY <2>1, <3>1 DEF GlobTypes
    <3> QED
      BY <3>1, <3>6, <3>7 DEF GlobInv
  <2>4. CASE ki <= Len(key)
    <3>1. G!Star \/ G!AnyOne \/ G!OneOf \/ G!Other
      BY <1>2, <2>2, <2>4 DEF G!Next, G!AtEnd
    <3>2. CASE pi <= Len(pattern) /\ pattern[pi] = "*" /\ G!Star
      <4>1. GlobTypes' /\ WalkMeans' /\ StarMeans'
        BY <2>1, <2>4, <3>2, StarStep
      <4>2. verdict' = verdict
        BY <3>2 DEF G!Star
      <4> QED
        BY <2>1, <4>1, <4>2 DEF GlobInv, GlobIsExact, G!GlobIsExact
    <3>3. CASE /\ pi <= Len(pattern) /\ pattern[pi] # "*" /\ Takes(pattern, pi, key[ki])
               /\ pi' = After(pattern, pi) /\ ki' = ki + 1 /\ UNCHANGED <<star, starK, verdict>>
      <4>1. GlobTypes' /\ WalkMeans' /\ StarMeans'
        BY <2>1, <2>4, <3>3, TakeStep
      <4> QED
        BY <2>1, <3>3, <4>1 DEF GlobInv, GlobIsExact, G!GlobIsExact
    <3>4. CASE /\ pi > Len(pattern) \/ (pattern[pi] # "*" /\ ~Takes(pattern, pi, key[ki]))
               /\ G!Retry
      BY <2>1, <2>4, <3>4, MismatchStep
    <3> QED
      BY <2>1, <2>4, <3>1, <3>2, <3>3, <3>4, WalkCases
  <2> QED
    BY <2>2, <2>3, <2>4
<1> QED
  BY <1>1, <1>2

\* GlobIsExact: whatever the patterns and the keys, of any length, the walk, which remembers one
\* star only, answers as the server would, unless keys hold a backslash or an opening bracket that
\* patterns hold too, or a class begins with `]', has a range that ends in `]' or goes downwards,
\* or does not end.
THEOREM PatternsMeanWhatTheySay == Plain => (G!Spec => []GlobIsExact)
<1> SUFFICES ASSUME Plain PROVE G!Spec => []GlobIsExact
  OBVIOUS
<1>1. G!Init => GlobInv
  <2> SUFFICES ASSUME G!Init PROVE GlobInv
    OBVIOUS
  <2>1. /\ pattern \in Patterns /\ Len(pattern) \in Nat /\ G!PlainClasses(pattern)
        /\ key \in Keys /\ Len(key) \in Nat
    BY LookupsAssumption DEF G!Init, Plain
  <2>2. pi = 1 /\ ki = 1 /\ star = 0 /\ starK = 0 /\ verdict = "open"
    BY DEF G!Init, G!None
  <2>3. GlobTypes
    BY <2>1, <2>2 DEF GlobTypes
  <2>4. G!Means(pattern, key) <=> 1 \in Ways(pattern, key)[1]
    BY <2>1, MeansWays
  <2> QED
    BY <2>2, <2>3, <2>4 DEF GlobInv, GlobIsExact, G!GlobIsExact, WalkMeans, StarMeans
<1>2. GlobInv /\ [G!Next]_(G!vars) => GlobInv'
  BY GlobStep
<1>3. GlobInv => GlobIsExact
  BY DEF GlobInv
<1> QED
  BY <1>1, <1>2, <1>3, PTL DEF G!Spec

-----------------------------------------------------------------------------
(* History: the rows a statement selects keep their order. *)

SelectFrom(f, r, at, i) ==
    IF i = 0 THEN <<>> ELSE IF i \in at THEN Append(f[i - 1], r[i]) ELSE f[i - 1]

Selecting(f, r, at, m) == f = [i \in 0..m |-> SelectFrom(f, r, at, i)]

LEMMA SelectionExists ==
    ASSUME NEW r, NEW at, NEW N \in Nat
    PROVE  \E f : Selecting(f, r, at, N)
<1> DEFINE T == {d \in Nat : ~ \E f : Selecting(f, r, at, d)}
<1>1. ASSUME T # {} PROVE FALSE
  <2>1. PICK d \in T : \A e \in T : d <= e
    <3>1. T \subseteq Nat
      OBVIOUS
    <3> HIDE DEF T
    <3> QED
      BY <1>1, <3>1, Least
  <2>2. d # 0
    <3> DEFINE f == [i \in 0..0 |-> <<>>]
    <3>1. \A i \in 0..0 : SelectFrom(f, r, at, i) = <<>>
      BY DEF SelectFrom
    <3>2. Selecting(f, r, at, 0)
      BY <3>1 DEF Selecting
    <3> QED
      BY <2>1, <3>2
  <2>3. d - 1 \in Nat /\ d - 1 \notin T /\ d \in Nat
    BY <2>1, <2>2
  <2>4. PICK f : Selecting(f, r, at, d - 1)
    BY <2>3
  <2> DEFINE h == [i \in 0..d |-> IF i <= d - 1 THEN f[i] ELSE SelectFrom(f, r, at, d)]
  <2>5. \A i \in 0..(d - 1) : h[i] = f[i] /\ f[i] = SelectFrom(f, r, at, i)
    <3>1. \A i \in 0..(d - 1) : f[i] = SelectFrom(f, r, at, i)
      BY <2>4, Zenon DEF Selecting
    <3>2. \A i \in 0..(d - 1) : h[i] = f[i]
      BY <2>3
    <3> QED
      BY <3>1, <3>2
  <2>6. h[d] = SelectFrom(f, r, at, d) /\ h = [i \in 0..d |-> h[i]]
    BY <2>3
  <2> HIDE DEF h
  <2>7. \A i \in 0..d : SelectFrom(h, r, at, i) = SelectFrom(f, r, at, i)
    <3> TAKE i \in 0..d
    <3>1. CASE i = 0
      BY <3>1 DEF SelectFrom
    <3>2. CASE i # 0
      <4>1. i - 1 \in 0..(d - 1)
        BY <2>3, <3>2
      <4> QED
        BY <2>5, <4>1 DEF SelectFrom
    <3> QED
      BY <3>1, <3>2
  <2>8. \A i \in 0..d : h[i] = SelectFrom(h, r, at, i)
    <3> TAKE i \in 0..d
    <3>1. i = d \/ i \in 0..(d - 1)
      BY <2>3
    <3> QED
      BY <2>5, <2>6, <2>7, <3>1
  <2>9. Selecting(h, r, at, d)
    BY <2>6, <2>8, Zenon DEF Selecting
  <2> QED
    BY <2>1, <2>9
<1> QED
  BY <1>1

\* s is a part of r: its rows are rows of r at positions in `at', in the same order.
PartOf(s, r, at, n) ==
    \E h \in [1..Len(s) -> Nat] :
        /\ \A i \in 1..Len(s) : h[i] \in at /\ h[i] \in 1..n /\ s[i] = r[h[i]]
        /\ \A i, j \in 1..Len(s) : i < j => h[i] < h[j]

LEMMA OneMoreRow ==
    ASSUME NEW S, NEW s \in Seq(S), NEW r, NEW at, NEW n \in Nat, n # 0, r[n] \in S,
           PartOf(s, r, at, n - 1), n \in at
    PROVE  PartOf(Append(s, r[n]), r, at, n)
<1>1. PICK h \in [1..Len(s) -> Nat] :
          /\ \A i \in 1..Len(s) : h[i] \in at /\ h[i] \in 1..(n - 1) /\ s[i] = r[h[i]]
          /\ \A i, j \in 1..Len(s) : i < j => h[i] < h[j]
  BY DEF PartOf
<1> DEFINE L == Len(s)
           t == Append(s, r[n])
           g == [i \in 1..(L + 1) |-> IF i <= L THEN h[i] ELSE n]
<1>2. L \in Nat /\ Len(t) = L + 1 /\ t[L + 1] = r[n] /\ \A i \in 1..L : t[i] = s[i]
  OBVIOUS
<1>3. g \in [1..(L + 1) -> Nat] /\ g[L + 1] = n /\ \A i \in 1..L : g[i] = h[i]
  BY <1>2
<1> HIDE DEF L, t, g
<1>4. ASSUME NEW i \in 1..(L + 1)
      PROVE  g[i] \in at /\ g[i] \in 1..n /\ t[i] = r[g[i]]
  <2>1. CASE i \in 1..L
    BY <1>1, <1>2, <1>3, <2>1 DEF L
  <2>2. CASE i = L + 1
    BY <1>2, <1>3, <2>2
  <2> QED
    BY <1>2, <2>1, <2>2
<1>5. ASSUME NEW i \in 1..(L + 1), NEW j \in 1..(L + 1), i < j
      PROVE  g[i] < g[j]
  <2>1. i \in 1..L
    BY <1>2, <1>5
  <2>2. CASE j \in 1..L
    BY <1>1, <1>3, <1>5, <2>1, <2>2 DEF L
  <2>3. CASE j = L + 1
    <3>1. h[i] \in 1..(n - 1)
      BY <1>1, <2>1 DEF L
    <3> QED
      BY <1>3, <2>1, <2>3, <3>1
  <2> QED
    BY <1>2, <2>2, <2>3
<1>6. PartOf(t, r, at, n)
  BY <1>2, <1>3, <1>4, <1>5 DEF PartOf
<1> QED
  BY <1>6 DEF t

LEMMA LessOfMore ==
    ASSUME NEW s, NEW r, NEW at, NEW n \in Nat, n # 0, PartOf(s, r, at, n - 1)
    PROVE  PartOf(s, r, at, n)
<1>1. \A x \in 1..(n - 1) : x \in 1..n
  OBVIOUS
<1> QED
  BY <1>1 DEF PartOf

LEMMA SelectedIsPart ==
    ASSUME NEW S, rows \in Seq(S), NEW at
    PROVE  R!Selected(at) \in Seq(S) /\ PartOf(R!Selected(at), rows, at, Len(rows))
<1> DEFINE N == Len(rows)
           f == CHOOSE f : Selecting(f, rows, at, N)
           OK(n) == f[n] \in Seq(S) /\ PartOf(f[n], rows, at, n)
           T == {n \in 0..N : ~OK(n)}
<1>1. R!Selected(at) = f[N]
  BY DEF R!Selected, Selecting, SelectFrom
<1>2. N \in Nat
  OBVIOUS
<1>3. Selecting(f, rows, at, N)
  BY <1>2, SelectionExists
<1> HIDE DEF f
<1>4. \A n \in 0..N : f[n] = SelectFrom(f, rows, at, n)
  BY <1>3, Zenon DEF Selecting
<1>5. ASSUME T # {} PROVE FALSE
  <2>1. PICK n \in T : \A e \in T : n <= e
    <3>1. T \subseteq Nat
      OBVIOUS
    <3> HIDE DEF T
    <3> QED
      BY <1>5, <3>1, Least
  <2>2. n \in 0..N /\ ~OK(n) /\ f[n] = SelectFrom(f, rows, at, n)
    BY <1>4, <2>1
  <2>3. n # 0
    <3> SUFFICES ASSUME n = 0 PROVE FALSE
      OBVIOUS
    <3>1. f[0] = <<>>
      BY <2>2 DEF SelectFrom
    <3>2. PartOf(<<>>, rows, at, 0)
      <4>1. Len(<<>>) = 0 /\ 1..0 = {}
        OBVIOUS
      <4>2. [i \in 1..0 |-> 0] \in [1..0 -> Nat]
        OBVIOUS
      <4> QED
        BY <4>1, <4>2 DEF PartOf
    <3>3. <<>> \in Seq(S)
      OBVIOUS
    <3> QED
      BY <2>2, <3>1, <3>2, <3>3
  <2>4. n \in Nat /\ n - 1 \in 0..N /\ n - 1 \notin T
    BY <1>2, <2>1, <2>2, <2>3
  <2>5. f[n - 1] \in Seq(S) /\ PartOf(f[n - 1], rows, at, n - 1)
    BY <2>4
  <2>6. rows[n] \in S
    BY <2>2, <2>3
  <2>7. CASE n \in at
    <3>1. f[n] = Append(f[n - 1], rows[n])
      BY <2>2, <2>3, <2>7 DEF SelectFrom
    <3>2. PartOf(Append(f[n - 1], rows[n]), rows, at, n)
      BY <2>3, <2>4, <2>5, <2>6, <2>7, OneMoreRow
    <3>3. Append(f[n - 1], rows[n]) \in Seq(S)
      BY <2>5, <2>6
    <3> QED
      BY <2>2, <3>1, <3>2, <3>3
  <2>8. CASE n \notin at
    <3>1. f[n] = f[n - 1]
      BY <2>2, <2>3, <2>8 DEF SelectFrom
    <3>2. PartOf(f[n - 1], rows, at, n)
      BY <2>3, <2>4, <2>5, LessOfMore
    <3> QED
      BY <2>2, <2>5, <3>1, <3>2
  <2> QED
    BY <2>7, <2>8
<1>6. N \in 0..N
  BY <1>2
<1>7. OK(N)
  BY <1>5, <1>6
<1> QED
  BY <1>1, <1>7

-----------------------------------------------------------------------------
(* History: what is recalled is what was typed. *)

\* An argument is_keyword takes for syntax was typed in upper case: `redact' changes the others
\* (HistoryCase.cfg).
UpperKeywords ==
    \A argv \in Lines : \A i \in 2..Len(argv) :
        Upper[argv[i]] \in Keywords => Upper[argv[i]] = argv[i]

Honest(e) ==
    R!IsSubmittable(e) => e.parts[1] = Upper[e.typed[1]] /\ Tail(e.parts) = Tail(e.typed)

LEMMA RedactIsHonest ==
    ASSUME UpperKeywords, NEW argv \in Lines, NEW level, ~R!HasPlaceholder(R!Redact(argv, level))
    PROVE  /\ R!Redact(argv, level)[1] = Upper[argv[1]]
           /\ Tail(R!Redact(argv, level)) = Tail(argv)
<1> DEFINE name == Upper[argv[1]]
           effective == IF name \in Secret THEN "AllArguments" ELSE level
           part(w) == CASE Upper[w] \in Keywords -> Upper[w]
                        [] Upper[w] \notin Keywords /\ effective = "None" -> w
                        [] Upper[w] \notin Keywords /\ effective = "HashNames" -> R!Hashed(w)
                        [] OTHER -> R!Redacted
           n == Len(argv) - 1
           tail == [i \in 1..n |-> part(argv[i + 1])]
           all == R!Redact(argv, level)
<1>1. all = <<name>> \o tail
  BY DEF R!Redact
<1>2. argv \in Seq(DOMAIN Upper) /\ argv # <<>>
  BY LookupsAssumption
<1>3. n \in Nat /\ Len(argv) = n + 1
  BY <1>2
<1>4. tail \in Seq({part(argv[i + 1]) : i \in 1..n}) /\ Len(tail) = n
  BY <1>3
<1>5. \A i \in 1..n : tail[i] = part(argv[i + 1])
  BY <1>3
<1> HIDE DEF tail, n, name, all
<1>6. all[1] = name /\ Len(all) = n + 1 /\ \A i \in 1..n : all[i + 1] = tail[i]
  BY <1>1, <1>3, <1>4
<1>7. DOMAIN all = 1..(n + 1)
  BY <1>1, <1>3, <1>4
<1>8. ASSUME NEW i \in 1..n PROVE tail[i] = argv[i + 1]
  <2> DEFINE w == argv[i + 1]
  <2>1. w \in DOMAIN Upper /\ i + 1 \in 2..Len(argv) /\ i + 1 \in 1..(n + 1)
    BY <1>2, <1>3
  <2>2. tail[i] = part(w) /\ all[i + 1] = part(w)
    BY <1>5, <1>6
  <2>3. part(w) # R!Redacted /\ part(w) \in DOMAIN Upper
    BY <1>7, <2>1, <2>2 DEF R!HasPlaceholder, all
  <2>4. R!Hashed(w) \notin DOMAIN Upper
    BY <2>1, LookupsAssumption
  <2>5. Upper[w] \in Keywords => Upper[w] = w
    BY <2>1 DEF UpperKeywords
  <2> HIDE DEF w, effective
  <2>6. part(w) = w
    BY <2>3, <2>4, <2>5
  <2> QED
    BY <2>2, <2>6 DEF w
<1>9. Tail(argv) = [i \in 1..n |-> argv[i + 1]]
  <2> DEFINE t == Tail(argv)
  <2>1. t \in Seq(DOMAIN Upper) /\ Len(t) = n /\ \A i \in 1..n : t[i] = argv[i + 1]
    BY <1>2, <1>3
  <2> HIDE DEF t
  <2>2. t = [i \in 1..n |-> t[i]]
    BY <1>3, <2>1
  <2>3. t = [i \in 1..n |-> argv[i + 1]]
    BY <2>1, <2>2, Zenon
  <2> QED
    BY <2>3 DEF t
<1>10. Tail(all) = tail
  <2>1. Tail(<<name>> \o tail) = tail
    BY <1>4
  <2> QED
    BY <1>1, <2>1
<1>11. tail = [i \in 1..n |-> tail[i]]
  BY DEF tail
<1>12. tail = [i \in 1..n |-> argv[i + 1]]
  BY <1>8, <1>11, Zenon
<1> QED
  BY <1>6, <1>9, <1>10, <1>12 DEF name, all

RowOK(e) == e.id \in Nat /\ e.id <= records /\ Honest(e)

RowsInv ==
    /\ records \in Nat
    /\ \E S : rows \in Seq(S)
    /\ \A i \in 1..Len(rows) : RowOK(rows[i])
    /\ \A i, j \in 1..Len(rows) : i < j => rows[i].id < rows[j].id

\* What a process was given about a place.
GivenOK(place, entries) ==
    /\ \E S : entries \in Seq(S)
    /\ \A i \in 1..Len(entries) : entries[i].place = place /\ Honest(entries[i])
    /\ \A i, j \in 1..Len(entries) : i < j => entries[i].id > entries[j].id

HistoryInv ==
    /\ RowsInv
    /\ \E S : recalled \in [Users -> S]
    /\ \A u \in Users : GivenOK(recalled[u].place, recalled[u].entries)

LEMMA GivenIsTyped == HistoryInv => RecalledIsTyped
<1> SUFFICES ASSUME HistoryInv, NEW u \in Users
             PROVE  LET entries == recalled[u].entries
                    IN  /\ \A i, j \in DOMAIN entries : i < j => entries[i].id > entries[j].id
                        /\ \A i \in DOMAIN entries :
                             /\ entries[i].place = recalled[u].place
                             /\ R!IsSubmittable(entries[i]) =>
                                  /\ entries[i].parts[1] = Upper[entries[i].typed[1]]
                                  /\ Tail(entries[i].parts) = Tail(entries[i].typed)
  BY DEF RecalledIsTyped, R!RecalledIsTyped
<1> DEFINE e == recalled[u].entries
<1>1. GivenOK(recalled[u].place, e)
  BY DEF HistoryInv
<1>2. DOMAIN e = 1..Len(e)
  BY <1>1 DEF GivenOK
<1> QED
  BY <1>1, <1>2 DEF GivenOK, Honest

\* A part of the table is a table.
LEMMA PartOK ==
    ASSUME RowsInv, NEW at, NEW s, \E S : s \in Seq(S), PartOf(s, rows, at, Len(rows)),
           rows' = s, records' = records
    PROVE  RowsInv'
<1>1. PICK h \in [1..Len(s) -> Nat] :
          /\ \A i \in 1..Len(s) : h[i] \in at /\ h[i] \in 1..Len(rows) /\ s[i] = rows[h[i]]
          /\ \A i, j \in 1..Len(s) : i < j => h[i] < h[j]
  BY DEF PartOf
<1>2. ASSUME NEW i \in 1..Len(s) PROVE RowOK(s[i])'
  BY <1>1 DEF RowsInv, RowOK, Honest, R!IsSubmittable, R!HasPlaceholder
<1>3. ASSUME NEW i \in 1..Len(s), NEW j \in 1..Len(s), i < j PROVE s[i].id < s[j].id
  BY <1>1, <1>3 DEF RowsInv
<1> QED
  BY <1>2, <1>3 DEF RowsInv

\* The newest of a part, newest first, may be given.
LEMMA NewestOK ==
    ASSUME RowsInv, NEW place, NEW at, NEW s, NEW S, s \in Seq(S), NEW m \in Nat, m <= Len(s),
           PartOf(s, rows, at, Len(rows)), \A i \in at : i \in 1..Len(rows) => rows[i].place = place
    PROVE  GivenOK(place, SubSeq(R!Reverse(s), 1, m))
<1> DEFINE L == Len(s)
           r == R!Reverse(s)
           e == SubSeq(r, 1, m)
<1>1. PICK h \in [1..L -> Nat] :
          /\ \A i \in 1..L : h[i] \in at /\ h[i] \in 1..Len(rows) /\ s[i] = rows[h[i]]
          /\ \A i, j \in 1..L : i < j => h[i] < h[j]
  BY DEF PartOf
<1>2. L \in Nat /\ r \in Seq(S) /\ Len(r) = L /\ \A i \in 1..L : r[i] = s[(L - i) + 1]
  BY DEF R!Reverse
<1> HIDE DEF r
<1>3. e \in Seq(S) /\ Len(e) = m /\ \A i \in 1..m : e[i] = r[i]
  BY <1>2
<1>4. \A i \in 1..m : (L - i) + 1 \in 1..L /\ e[i] = s[(L - i) + 1]
  BY <1>2, <1>3
<1> HIDE DEF e
<1>5. ASSUME NEW i \in 1..m PROVE e[i].place = place /\ Honest(e[i])
  <2>1. PICK x \in 1..L : e[i] = s[x]
    BY <1>4
  <2>2. h[x] \in at /\ h[x] \in 1..Len(rows) /\ s[x] = rows[h[x]]
    BY <1>1
  <2> QED
    BY <2>1, <2>2 DEF RowsInv, RowOK
<1>6. ASSUME NEW i \in 1..m, NEW j \in 1..m, i < j PROVE e[i].id > e[j].id
  <2>1. PICK x \in 1..L : e[i] = s[x] /\ x = (L - i) + 1
    BY <1>4
  <2>2. PICK y \in 1..L : e[j] = s[y] /\ y = (L - j) + 1
    BY <1>4
  <2>3. y < x
    BY <1>2, <1>6, <2>1, <2>2
  <2>4. /\ h[x] \in 1..Len(rows) /\ h[y] \in 1..Len(rows) /\ h[y] < h[x]
        /\ e[i] = rows[h[x]] /\ e[j] = rows[h[y]]
    BY <1>1, <2>1, <2>2, <2>3
  <2>5. rows[h[y]].id < rows[h[x]].id /\ rows[h[y]].id \in Nat /\ rows[h[x]].id \in Nat
    BY <2>4 DEF RowsInv, RowOK
  <2> QED
    BY <2>4, <2>5
<1>7. GivenOK(place, e)
  BY <1>3, <1>5, <1>6 DEF GivenOK
<1> QED
  BY <1>7 DEF e, r

\* A command recorded is the newest row.
LEMMA RecordOK ==
    ASSUME RowsInv, NEW new, RowOK(new)', new.id = records + 1, records' = records + 1,
           rows' = Append(rows, new)
    PROVE  RowsInv'
<1>1. PICK S : rows \in Seq(S)
  BY DEF RowsInv
<1> DEFINE S2 == S \cup {new}
           L == Len(rows)
           t == Append(rows, new)
<1>2. rows \in Seq(S2) /\ new \in S2
  BY <1>1
<1> HIDE DEF S2
<1>3. /\ t \in Seq(S2) /\ L \in Nat /\ Len(t) = L + 1 /\ t[L + 1] = new
      /\ \A i \in 1..L : t[i] = rows[i]
  BY <1>2
<1> HIDE DEF L, t
<1>4. \A i \in 1..L : rows[i].id \in Nat /\ rows[i].id <= records /\ Honest(rows[i])
  BY DEF RowsInv, RowOK, L
<1>5. records \in Nat
  BY DEF RowsInv
<1>6. ASSUME NEW i \in 1..(L + 1)
      PROVE  t[i].id \in Nat /\ t[i].id <= records' /\ Honest(t[i])
  <2>1. CASE i = L + 1
    BY <1>3, <2>1 DEF RowOK, Honest, R!IsSubmittable, R!HasPlaceholder
  <2>2. CASE i \in 1..L
    BY <1>3, <1>4, <1>5, <2>2
  <2> QED
    BY <1>3, <2>1, <2>2
<1>7. ASSUME NEW i \in 1..(L + 1), NEW j \in 1..(L + 1), i < j PROVE t[i].id < t[j].id
  <2>1. i \in 1..L
    BY <1>3, <1>7
  <2>2. CASE j \in 1..L
    BY <1>3, <1>7, <2>1, <2>2 DEF RowsInv, L
  <2>3. CASE j = L + 1
    BY <1>3, <1>4, <1>5, <2>1, <2>3
  <2> QED
    BY <1>3, <2>2, <2>3
<1>8. rows' = t
  BY DEF t
<1>9. (\A i \in 1..Len(rows) : RowOK(rows[i]))'
  BY <1>3, <1>6, <1>8 DEF RowOK, Honest, R!IsSubmittable, R!HasPlaceholder
<1>10. (\A i, j \in 1..Len(rows) : i < j => rows[i].id < rows[j].id)'
  BY <1>3, <1>7, <1>8
<1> QED
  BY <1>3, <1>5, <1>8, <1>9, <1>10 DEF RowsInv

\* One process is told something: the others keep what they had.
LEMMA RecallOK ==
    ASSUME HistoryInv, NEW u \in Users, NEW place, NEW entries, GivenOK(place, entries),
           recalled' = [recalled EXCEPT ![u] = [place |-> place, entries |-> entries]],
           UNCHANGED <<rows, records>>
    PROVE  HistoryInv'
<1> DEFINE x == [place |-> place, entries |-> entries]
<1>1. PICK S : recalled \in [Users -> S]
  BY DEF HistoryInv
<1> DEFINE S2 == S \cup {x}
<1>2. recalled' \in [Users -> S2]
  BY <1>1
<1>3. x.place = place /\ x.entries = entries
  OBVIOUS
<1> HIDE DEF x, S2
<1>4. recalled'[u] = x /\ \A v \in Users : v # u => recalled'[v] = recalled[v]
  BY <1>1 DEF x
<1>5. ASSUME NEW v \in Users
      PROVE  GivenOK(recalled'[v].place, recalled'[v].entries)
  <2>1. CASE v = u
    BY <1>3, <1>4, <2>1
  <2>2. CASE v # u
    BY <1>4, <2>2 DEF HistoryInv
  <2> QED
    BY <2>1, <2>2
<1>6. (\A v \in Users : GivenOK(recalled[v].place, recalled[v].entries))'
  BY <1>5 DEF GivenOK, Honest, R!IsSubmittable, R!HasPlaceholder
<1>7. RowsInv'
  BY DEF HistoryInv, RowsInv, RowOK, Honest, R!IsSubmittable, R!HasPlaceholder
<1> QED
  BY <1>2, <1>6, <1>7 DEF HistoryInv

\* The table changes, and nobody is told anything.
LEMMA NotTold ==
    ASSUME HistoryInv, RowsInv', recalled' = recalled
    PROVE  HistoryInv'
BY DEF HistoryInv, GivenOK, Honest, R!IsSubmittable, R!HasPlaceholder

LEMMA HistoryStep ==
    ASSUME UpperKeywords, HistoryInv, [R!Next]_(R!vars)
    PROVE  HistoryInv'
<1>1. PICK S : rows \in Seq(S)
  BY DEF HistoryInv, RowsInv
<1>2. RowsInv
  BY DEF HistoryInv
<1>3. CASE rows' = rows /\ records' = records /\ recalled' = recalled
  <2>1. RowsInv'
    BY <1>2, <1>3 DEF RowsInv, RowOK, Honest, R!IsSubmittable, R!HasPlaceholder
  <2> QED
    BY <1>3, <2>1, NotTold
<1>4. ASSUME NEW place \in Places, NEW argv \in Lines, NEW level \in Levels,
             R!Record(place, argv, level)
      PROVE  HistoryInv'
  <2>1. PICK new : new = [id |-> records + 1, place |-> place, parts |-> R!Redact(argv, level),
                          at |-> day, typed |-> argv]
    OBVIOUS
  <2>2. records' = records + 1 /\ rows' = Append(rows, new) /\ recalled' = recalled
    BY <1>4, <2>1 DEF R!Record
  <2>3. new.id = records + 1 /\ new.parts = R!Redact(argv, level) /\ new.typed = argv
    BY <2>1
  <2>4. Honest(new)
    <3>1. ~R!HasPlaceholder(R!Redact(argv, level))
            => /\ R!Redact(argv, level)[1] = Upper[argv[1]]
               /\ Tail(R!Redact(argv, level)) = Tail(argv)
      BY RedactIsHonest
    <3> QED
      BY <2>3, <3>1 DEF Honest, R!IsSubmittable
  <2>5. records \in Nat
    BY <1>2 DEF RowsInv
  <2>6. new.id \in Nat /\ new.id <= records'
    BY <2>2, <2>3, <2>5
  <2>7. RowOK(new)'
    BY <2>4, <2>6 DEF RowOK, Honest, R!IsSubmittable, R!HasPlaceholder
  <2>8. RowsInv'
    BY <1>2, <2>2, <2>3, <2>7, RecordOK
  <2> QED
    BY <2>2, <2>8, NotTold
<1>5. ASSUME NEW u \in Users, NEW place \in Places, NEW limit \in 1..MaxRecords,
             R!Recent(u, place, limit)
      PROVE  HistoryInv'
  <2>1. PICK at : at = {i \in DOMAIN rows : rows[i].place = place}
    OBVIOUS
  <2>2. PICK s : s = R!Selected(at)
    OBVIOUS
  <2>3. s \in Seq(S) /\ PartOf(s, rows, at, Len(rows))
    BY <1>1, <2>2, SelectedIsPart
  <2> DEFINE own == R!Reverse(s)
             m == IF limit < Len(own) THEN limit ELSE Len(own)
  <2>4. Len(own) = Len(s) /\ Len(s) \in Nat
    BY <2>3 DEF R!Reverse
  <2>5. m \in Nat /\ m <= Len(s)
    <3> HIDE DEF own
    <3> QED
      BY <2>4
  <2>6. \A i \in at : i \in 1..Len(rows) => rows[i].place = place
    BY <2>1
  <2>7. /\ recalled' = [recalled EXCEPT ![u] = [place |-> place, entries |-> SubSeq(own, 1, m)]]
        /\ UNCHANGED <<rows, records>>
    BY <1>5, <2>1, <2>2, Zenon DEF R!Recent
  <2> HIDE DEF m
  <2>8. GivenOK(place, SubSeq(own, 1, m))
    BY <1>2, <2>3, <2>5, <2>6, NewestOK
  <2>9. PICK entries : entries = SubSeq(own, 1, m)
    OBVIOUS
  <2> HIDE DEF own
  <2>10. /\ GivenOK(place, entries) /\ UNCHANGED <<rows, records>>
         /\ recalled' = [recalled EXCEPT ![u] = [place |-> place, entries |-> entries]]
    BY <2>7, <2>8, <2>9
  <2> QED
    BY <2>10, RecallOK
<1>6. ASSUME NEW u \in Users, NEW place \in Places, NEW word \in DOMAIN Upper,
             R!Search(u, place, word)
      PROVE  HistoryInv'
  <2>1. PICK at : at = {i \in DOMAIN rows :
                          LET parts == rows[i].parts
                          IN  /\ rows[i].place = place
                              /\ \E j \in DOMAIN parts :
                                   parts[j] \in DOMAIN Upper /\ Upper[parts[j]] = Upper[word]}
    OBVIOUS
  <2>2. PICK s : s = R!Selected(at)
    OBVIOUS
  <2>3. s \in Seq(S) /\ PartOf(s, rows, at, Len(rows))
    BY <1>1, <2>2, SelectedIsPart
  <2>4. R!Reverse(s) \in Seq(S) /\ Len(R!Reverse(s)) = Len(s) /\ Len(s) \in Nat
    BY <2>3 DEF R!Reverse
  <2>5. SubSeq(R!Reverse(s), 1, Len(s)) = R!Reverse(s)
    <3> DEFINE r == R!Reverse(s)
    <3>1. r \in Seq(S) /\ Len(r) = Len(s)
      BY <2>4
    <3> HIDE DEF r
    <3>2. SubSeq(r, 1, Len(s)) = r
      BY <2>4, <3>1
    <3> QED
      BY <3>2 DEF r
  <2>6. \A i \in at : i \in 1..Len(rows) => rows[i].place = place
    BY <2>1
  <2>7. /\ recalled' = [recalled EXCEPT ![u] = [place |-> place, entries |-> R!Reverse(s)]]
        /\ UNCHANGED <<rows, records>>
    BY <1>6, <2>1, <2>2, Zenon DEF R!Search
  <2>8. GivenOK(place, SubSeq(R!Reverse(s), 1, Len(s)))
    <3>1. Len(s) \in Nat /\ Len(s) <= Len(s)
      BY <2>4
    <3> QED
      BY <1>2, <2>3, <2>6, <3>1, NewestOK
  <2>9. PICK entries : entries = R!Reverse(s)
    OBVIOUS
  <2>10. /\ GivenOK(place, entries) /\ UNCHANGED <<rows, records>>
         /\ recalled' = [recalled EXCEPT ![u] = [place |-> place, entries |-> entries]]
    BY <2>5, <2>7, <2>8, <2>9
  <2> QED
    BY <2>10, RecallOK
<1>7. ASSUME NEW at, rows' = R!Selected(at), records' = records, recalled' = recalled
      PROVE  HistoryInv'
  <2>1. PICK s : s = R!Selected(at)
    OBVIOUS
  <2>2. s \in Seq(S) /\ PartOf(s, rows, at, Len(rows)) /\ rows' = s
    BY <1>1, <1>7, <2>1, SelectedIsPart
  <2>3. RowsInv'
    BY <1>2, <1>7, <2>2, PartOK
  <2> QED
    BY <1>7, <2>3, NotTold
<1>8. ASSUME NEW profiles, R!Clear(profiles)
      PROVE  HistoryInv'
  <2>1. PICK at : at = {i \in DOMAIN rows : ProfileOf[rows[i].place] \notin profiles}
    OBVIOUS
  <2>2. rows' = R!Selected(at) /\ records' = records /\ recalled' = recalled
    BY <1>8, <2>1 DEF R!Clear
  <2> QED
    BY <1>7, <2>2
<1>9. ASSUME NEW u \in Users, R!PruneByAge(u)
      PROVE  HistoryInv'
  <2>1. PICK at : at = {i \in DOMAIN rows : rows[i].at >= day}
    OBVIOUS
  <2>2. rows' = R!Selected(at) /\ records' = records /\ recalled' = recalled
    BY <1>9, <2>1 DEF R!PruneByAge
  <2> QED
    BY <1>7, <2>2
<1>10. ASSUME NEW u \in Users, R!PruneByCount(u)
       PROVE  HistoryInv'
  <2> DEFINE L == Len(rows)
             from == IF L > KeepMax THEN (L - KeepMax) + 1 ELSE 1
  <2>1. L \in Nat /\ from \in 1..(L + 1)
    BY <1>1, LookupsAssumption
  <2>2. PICK s : s = SubSeq(rows, from, L)
    OBVIOUS
  <2>3. rows' = s /\ records' = records /\ recalled' = recalled
    BY <1>10, <2>2 DEF R!PruneByCount
  <2> HIDE DEF from
  <2>4. s \in Seq(S) /\ Len(s) = (L - from) + 1 /\ \A i \in 1..Len(s) : s[i] = rows[(from + i) - 1]
    BY <1>1, <2>1, <2>2
  <2> HIDE DEF L
  <2>5. PartOf(s, rows, Nat, L)
    <3> DEFINE h == [i \in 1..Len(s) |-> (from + i) - 1]
    <3>1. h \in [1..Len(s) -> Nat]
      BY <2>1, <2>4
    <3>2. \A i \in 1..Len(s) : h[i] = (from + i) - 1
      OBVIOUS
    <3> HIDE DEF h
    <3>3. \A i \in 1..Len(s) : h[i] \in Nat /\ h[i] \in 1..L /\ s[i] = rows[h[i]]
      BY <2>1, <2>4, <3>2
    <3>4. \A i, j \in 1..Len(s) : i < j => h[i] < h[j]
      BY <2>1, <2>4, <3>2
    <3> QED
      BY <3>1, <3>3, <3>4 DEF PartOf
  <2>6. RowsInv'
    BY <1>2, <2>3, <2>4, <2>5, PartOK DEF L
  <2> QED
    BY <2>3, <2>6, NotTold
<1>11. CASE R!TimePasses
  BY <1>3, <1>11 DEF R!TimePasses
<1>12. CASE UNCHANGED R!vars
  BY <1>3, <1>12 DEF R!vars
<1> QED
  BY <1>4, <1>5, <1>6, <1>8, <1>9, <1>10, <1>11, <1>12 DEF R!Next

\* RecalledIsTyped: whatever processes record, clear and prune meanwhile, what is recalled was
\* recorded in the scope asked about, newest first; and what may be submitted unchanged is what
\* was typed, unless an argument that is a keyword was not typed in upper case.
THEOREM RecallSendsWhatWasTyped == UpperKeywords => (R!Spec => []RecalledIsTyped)
<1> SUFFICES ASSUME UpperKeywords PROVE R!Spec => []RecalledIsTyped
  OBVIOUS
<1>1. R!Init => HistoryInv
  <2> SUFFICES ASSUME R!Init PROVE HistoryInv
    OBVIOUS
  <2>1. rows = <<>> /\ records = 0 /\ recalled = [u \in Users |-> R!Nothing]
    BY DEF R!Init
  <2>2. recalled \in [Users -> {R!Nothing}] /\ \A u \in Users : recalled[u].entries = <<>>
    BY <2>1 DEF R!Nothing
  <2>3. <<>> \in Seq({}) /\ Len(<<>>) = 0
    OBVIOUS
  <2>4. \A u \in Users : GivenOK(recalled[u].place, recalled[u].entries)
    <3>1. \A place : GivenOK(place, <<>>)
      BY <2>3 DEF GivenOK
    <3> QED
      BY <2>2, <3>1
  <2>5. RowsInv
    BY <2>1, <2>3 DEF RowsInv
  <2> QED
    BY <2>2, <2>4, <2>5 DEF HistoryInv
<1>2. HistoryInv /\ [R!Next]_(R!vars) => HistoryInv'
  BY HistoryStep
<1>3. HistoryInv => RecalledIsTyped
  BY GivenIsTyped
<1> QED
  BY <1>1, <1>2, <1>3, PTL DEF R!Spec
=============================================================================
