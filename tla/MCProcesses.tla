----------------------------- MODULE MCProcesses -----------------------------
(***************************************************************************)
(* What the session supervises: its tasks, the ssh processes of its        *)
(* tunnels, a rendering plugin, and the interrupts that reach it.  The     *)
(* four share no state, so every state of theirs together is made of       *)
(* states each reaches alone: `subject' is the one a behaviour is about,   *)
(* and the others stay as they began.                                      *)
(***************************************************************************)
EXTENDS TaskScope

VARIABLE subject

CONSTANTS Nodes, Ports, Pids, Limit
ASSUME PidsAssumption == "none" \notin Pids
VARIABLES tunnels, ssh, port, node, others, call, answer, unwaited

CONSTANTS Input, MaxOutput, PipeSize, MaxWritten
VARIABLES child, exit, toWrite, inPipe, outPipe, written, holders, writer, buf, reader, channel,
          broken, late, host, outcome, result

CONSTANTS BreakCalls, MaxPresses
VARIABLES activity, consecutive_idle, response, pending, taken, presses, carried, applied,
          abandoned

T == INSTANCE Tunnels
H == INSTANCE PluginHost WITH status <- exit
I == INSTANCE Interrupts

tunnelVars == <<tunnels, ssh, port, node, others, call, answer, unwaited>>
hostVars == <<child, exit, toWrite, inPipe, outPipe, written, holders, writer, buf, reader,
              channel, broken, late, host, outcome, result>>
interruptVars == <<activity, consecutive_idle, response, pending, taken, presses, carried,
                   applied, abandoned>>
all == <<subject, vars, tunnelVars, hostVars, interruptVars>>

\* A step of each.
OfScope(A) ==
    subject = "scope" /\ A /\ UNCHANGED <<subject, tunnelVars, hostVars, interruptVars>>
OfTunnels(A) == subject = "tunnels" /\ A /\ UNCHANGED <<subject, vars, hostVars, interruptVars>>
OfHost(A) == subject = "host" /\ A /\ UNCHANGED <<subject, vars, tunnelVars, interruptVars>>
OfInterrupts(A) == subject = "interrupts" /\ A /\ UNCHANGED <<subject, vars, tunnelVars, hostVars>>

ProcessesNext ==
    OfScope(Next) \/ OfTunnels(T!Next) \/ OfHost(H!Next) \/ OfInterrupts(I!Next)

ProcessesInit ==
    /\ subject \in {"scope", "tunnels", "host", "interrupts"}
    /\ Init /\ T!Init /\ H!Init /\ I!Init

ProcessesSpec ==
    /\ ProcessesInit
    /\ [][ProcessesNext]_all
    /\ \A t \in Tasks : WF_all(OfScope(Reap(t)))
    /\ WF_all(OfScope(ShutdownDrained \/ ShutdownForced))
    /\ WF_all(OfHost(H!Host)) /\ WF_all(OfHost(H!Clock))
    /\ WF_all(OfHost(H!ReaderStep)) /\ WF_all(OfHost(H!WriterStep))

-----------------------------------------------------------------------------

\* Every ssh that lives has one owner: see Tunnels.
EverySshIsOwned == T!EverySshIsOwned

\* A port answered for a node leads to no other: see Tunnels.
PortIsForTheNode == T!PortIsForTheNode

\* A rendering shown is whole unless a read failed: see PluginHost.
NeverPartial == H!NeverPartial

\* A call of a plugin returns, whatever the plugin does: see PluginHost.
CallReturns == subject = "host" => H!CallReturns

\* Every signal counts once, and what it leaves open is said: see Interrupts.
InterruptsAreHonest == I!InterruptsAreHonest
=============================================================================
