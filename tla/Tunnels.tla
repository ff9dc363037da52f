------------------------------- MODULE Tunnels -------------------------------
(***************************************************************************)
(* pr-transport/src/ssh.rs: the pool of per-node tunnels.                  *)
(*                                                                         *)
(* ssh processes and the other programs of the machine are the             *)
(* environment: an ssh binds its port or exits (ExitOnForwardFailure), and *)
(* may die at any time; another program may listen on any free port.  The  *)
(* pool is a set: a tunnel is found by its node, and its place in the      *)
(* vector shows nowhere.  The `?' of a failed bind starts nothing and is   *)
(* left out, and so is the SOCKS5 mode, which no pool keeps.  `unwaited'   *)
(* is history.                                                             *)
(***************************************************************************)
EXTENDS Integers, FiniteSets

CONSTANTS
    Nodes,      \* internal addresses
    Ports,      \* loopback ports
    Pids,       \* ssh processes that are ever started
    Limit       \* max_tunnels

VARIABLES
    tunnels,    \* the pool: tunnels, [node, pid]
    ssh,        \* each process: "unborn", "starting", "forwarding", "gone"
    port,       \* the port each process was given
    node,       \* the node each process forwards to
    others,     \* ports other programs listen on
    call,       \* the call of port_for in progress: [node, pid, step]
    answer,     \* the port the last call returned, and for which node
    unwaited    \* processes a call gave up because asking for their state failed

vars == <<tunnels, ssh, port, node, others, call, answer, unwaited>>

NoCall == [node |-> "none", pid |-> "none", step |-> "idle"]
NoAnswer == [node |-> "none", port |-> "none"]

Init ==
    /\ tunnels = {}
    /\ ssh = [p \in Pids |-> "unborn"]
    /\ port = [p \in Pids |-> "none"]
    /\ node = [p \in Pids |-> "none"]
    /\ others = {}
    /\ call = NoCall
    /\ answer = NoAnswer
    /\ unwaited = {}

Listening == others \cup {port[p] : p \in {q \in Pids : ssh[q] = "forwarding"}}
Alive(p) == ssh[p] \in {"starting", "forwarding"}

\* kill, and wait.
Killed(s, dead) == [p \in Pids |-> IF p \in dead THEN "gone" ELSE s[p]]

\* port_for: a known node is answered from the pool, its tunnel alive or not.
Known(n) ==
    /\ call = NoCall
    /\ \E t \in tunnels :
         /\ t.node = n
         /\ answer' = [node |-> n, port |-> port[t.pid]]
    /\ UNCHANGED <<tunnels, ssh, port, node, others, call, unwaited>>

\* port_for: over the budget.
Refuse(n) ==
    /\ call = NoCall
    /\ \A t \in tunnels : t.node # n
    /\ Cardinality(tunnels) >= Limit
    /\ answer' = NoAnswer
    /\ UNCHANGED <<tunnels, ssh, port, node, others, call, unwaited>>

\* start, as far as spawn: a port that is free now, released again before ssh has it.
Start(n) ==
    /\ call = NoCall
    /\ \A t \in tunnels : t.node # n
    /\ Cardinality(tunnels) < Limit
    /\ \E p \in Pids, free \in Ports \ Listening :
         /\ ssh[p] = "unborn"
         /\ ssh' = [ssh EXCEPT ![p] = "starting"]
         /\ port' = [port EXCEPT ![p] = free]
         /\ node' = [node EXCEPT ![p] = n]
         /\ call' = [node |-> n, pid |-> p, step |-> "wait"]
    /\ answer' = NoAnswer
    /\ UNCHANGED <<tunnels, others, unwaited>>

\* The loop of start: the process has exited.
Exited ==
    /\ call.step = "wait" /\ ssh[call.pid] = "gone"
    /\ call' = NoCall
    /\ UNCHANGED <<tunnels, ssh, port, node, others, answer, unwaited>>

\* It has not; the port is tried next.
StillRunning ==
    /\ call.step = "wait" /\ Alive(call.pid)
    /\ call' = [call EXCEPT !.step = "connect"]
    /\ UNCHANGED <<tunnels, ssh, port, node, others, answer, unwaited>>

\* try_wait fails: its `?' returns, and a Child that is dropped is not killed.
WaitFails ==
    /\ call.step = "wait"
    /\ unwaited' = unwaited \cup {call.pid}
    /\ call' = NoCall
    /\ UNCHANGED <<tunnels, ssh, port, node, others, answer>>

\* Something accepts the connection: the tunnel joins the pool.
Connected ==
    /\ call.step = "connect" /\ port[call.pid] \in Listening
    /\ tunnels' = tunnels \cup {[node |-> call.node, pid |-> call.pid]}
    /\ answer' = [node |-> call.node, port |-> port[call.pid]]
    /\ call' = NoCall
    /\ UNCHANGED <<ssh, port, node, others, unwaited>>

\* Nothing does: once more.
Again ==
    /\ call.step = "connect" /\ port[call.pid] \notin Listening
    /\ call' = [call EXCEPT !.step = "wait"]
    /\ UNCHANGED <<tunnels, ssh, port, node, others, answer, unwaited>>

\* Bug: the deadline leaves the process behind.
TimedOutLeaking ==
    /\ call.step = "connect" /\ port[call.pid] \notin Listening
    /\ call' = NoCall
    /\ UNCHANGED <<tunnels, ssh, port, node, others, answer, unwaited>>

\* The deadline.
TimedOut ==
    /\ call.step = "connect" /\ port[call.pid] \notin Listening
    /\ ssh' = Killed(ssh, {call.pid})
    /\ call' = NoCall
    /\ UNCHANGED <<tunnels, port, node, others, answer, unwaited>>

\* retain_nodes: Drop kills the tunnels of nodes that left the topology.
RetainNodes(live) ==
    /\ call = NoCall
    /\ tunnels' = {t \in tunnels : t.node \in live}
    /\ ssh' = Killed(ssh, {t.pid : t \in {u \in tunnels : u.node \notin live}})
    /\ answer' = NoAnswer
    /\ UNCHANGED <<port, node, others, call, unwaited>>

\* ssh binds its port and forwards, or exits because it cannot.
SshBinds(p) ==
    /\ ssh[p] = "starting"
    /\ ssh' = [ssh EXCEPT ![p] = IF port[p] \in Listening THEN "gone" ELSE "forwarding"]
    /\ UNCHANGED <<tunnels, port, node, others, call, answer, unwaited>>

SshDies(p) ==
    /\ Alive(p)
    /\ ssh' = [ssh EXCEPT ![p] = "gone"]
    /\ UNCHANGED <<tunnels, port, node, others, call, answer, unwaited>>

OtherListens(q) ==
    /\ \/ q \notin Listening /\ others' = others \cup {q}
       \/ q \in others /\ others' = others \ {q}
    /\ UNCHANGED <<tunnels, ssh, port, node, call, answer, unwaited>>

PortFor(n) == Known(n) \/ Refuse(n) \/ Start(n)

Next ==
    \/ \E n \in Nodes : PortFor(n)
    \/ Exited \/ StillRunning \/ WaitFails \/ Connected \/ Again \/ TimedOut
    \/ \E live \in SUBSET Nodes : RetainNodes(live)
    \/ \E p \in Pids : SshBinds(p) \/ SshDies(p)
    \/ \E q \in Ports : OtherListens(q)

Spec == Init /\ [][Next]_vars

-----------------------------------------------------------------------------

\* LIFE-01, "Only our child": an ssh that lives belongs to the pool or to the call in
\* progress, once, whatever exits, deadlines and topology changes came before.  Only one
\* whose state could not be asked for is left behind.
EverySshIsOwned ==
    /\ \A p \in Pids \ unwaited : Alive(p) => call.pid = p \/ \E t \in tunnels : t.pid = p
    /\ \A t, u \in tunnels : t.pid # call.pid /\ (t.pid = u.pid => t = u)

\* As above without the exception: no run checks this.
NoSshIsLeftBehind ==
    \A p \in Pids : Alive(p) => call.pid = p \/ \E t \in tunnels : t.pid = p

\* "The loopback port for an internal address": what a call answers with is no port that
\* leads to another node.
PortIsForTheNode ==
    \A p \in Pids :
      answer.port # "none" /\ ssh[p] = "forwarding" /\ port[p] = answer.port
        => node[p] = answer.node
=============================================================================
