---------------------------- MODULE ProcessesProofs ----------------------------
(***************************************************************************)
(* What the session supervises, for any tasks, nodes, ports, processes and *)
(* bounds: the scope never loses the handle of a task that runs and its    *)
(* shutdown reports a clean end only when there is one, no ssh is left     *)
(* behind, no rendering is shown in part, no interrupt is lost.  Each      *)
(* component has an inductive invariant of its own; a step of the others   *)
(* leaves it alone.                                                        *)
(***************************************************************************)
EXTENDS MCProcesses, FiniteSetTheorems, TLAPS

-----------------------------------------------------------------------------
(* Tasks: the scope alone, for any finite set of them. *)

\* A task that was spawned and does not run has come to an end.
EndsAreKnown == \A t \in Tasks : status[t] \in {"left", "finished"} => how[t] # "?"

ScopeInv == TypeOK /\ LiveIsExact /\ NoOrphan /\ EndsAreKnown

(* The tasks that run, before and after a step. *)

LEMMA RunningFinite == TypeOK => IsFiniteSet(Running)
BY TaskScopeAssumption, FS_Subset DEF Running, With

\* A step that leaves every task in its state, or moves one that does not run, keeps Running.
LEMMA RunningAfterSpawn ==
    ASSUME TypeOK, LiveIsExact, NEW t \in Tasks, Spawn(t)
    PROVE  LiveIsExact'
<1>1. Running' = Running \cup {t} /\ t \notin Running
  BY DEF Running, With, Spawn, TypeOK
<1>2. Cardinality(Running') = Cardinality(Running) + 1
  BY <1>1, RunningFinite, FS_AddElement
<1> QED
  BY <1>2 DEF LiveIsExact, Spawn

LEMMA RunningAfterLeave ==
    ASSUME TypeOK, LiveIsExact, NEW t \in Tasks, NEW why, Leave(t, why)
    PROVE  LiveIsExact' /\ live' \in Nat
<1>1. Running' = Running \ {t} /\ t \in Running
  BY DEF Running, With, Leave, TypeOK
<1>2. Cardinality(Running') = Cardinality(Running) - 1 /\ IsFiniteSet(Running')
  BY <1>1, RunningFinite, FS_RemoveElement
<1>3. Cardinality(Running') \in Nat
  BY <1>2, FS_CardinalityType
<1> QED
  BY <1>2, <1>3 DEF LiveIsExact, Leave

(* ScopeInv is inductive. *)

LEMMA ScopeInit == Init => ScopeInv
<1> SUFFICES ASSUME Init PROVE ScopeInv
  OBVIOUS
<1>1. Running = {}
  BY DEF Init, Running, With
<1>2. LiveIsExact
  BY <1>1, FS_EmptySet DEF Init, LiveIsExact
<1> QED
  BY <1>2 DEF Init, ScopeInv, TypeOK, NoOrphan, EndsAreKnown

LEMMA SpawnOK ==
    ASSUME ScopeInv, NEW t \in Tasks, Spawn(t)
    PROVE  ScopeInv'
<1> USE DEF ScopeInv
<1>1. TypeOK'
  BY DEF TypeOK, Spawn, Prune
<1>2. LiveIsExact'
  BY RunningAfterSpawn
<1>3. NoOrphan'
  BY DEF NoOrphan, TypeOK, Spawn, Prune, With
<1>4. EndsAreKnown'
  BY DEF EndsAreKnown, TypeOK, Spawn
<1> QED
  BY <1>1, <1>2, <1>3, <1>4

LEMMA LeaveOK ==
    ASSUME ScopeInv, NEW t \in Tasks, NEW why \in {"itself", "panic", "abort"}, Leave(t, why)
    PROVE  ScopeInv'
<1> USE DEF ScopeInv
<1>1. LiveIsExact' /\ live' \in Nat
  BY RunningAfterLeave
<1>2. TypeOK'
  BY <1>1 DEF TypeOK, Leave
<1>3. NoOrphan' /\ EndsAreKnown'
  BY DEF NoOrphan, EndsAreKnown, TypeOK, Leave
<1> QED
  BY <1>1, <1>2, <1>3

LEMMA SettleOK ==
    ASSUME ScopeInv, NEW t \in Tasks, Settle(t)
    PROVE  ScopeInv'
<1> USE DEF ScopeInv
<1>1. Running' = Running
  BY DEF Running, With, Settle, TypeOK
<1>2. LiveIsExact'
  BY <1>1 DEF LiveIsExact, Settle
<1>3. TypeOK' /\ NoOrphan' /\ EndsAreKnown'
  BY DEF TypeOK, NoOrphan, EndsAreKnown, Settle
<1> QED
  BY <1>2, <1>3

\* The scope's own steps change no task.
LEMMA ScopeOK ==
    ASSUME ScopeInv, ShutdownBegins \/ ShutdownDrained \/ ShutdownForced \/ Drop \/ UNCHANGED vars
    PROVE  ScopeInv'
<1> USE DEF ScopeInv
<1>1. UNCHANGED <<status, how, live>>
  BY DEF ShutdownBegins, ShutdownDrained, ShutdownForced, Drop, vars
<1>2. Running' = Running
  BY <1>1 DEF Running, With
<1>3. LiveIsExact'
  BY <1>1, <1>2 DEF LiveIsExact
<1>4. TypeOK' /\ EndsAreKnown'
  BY <1>1 DEF TypeOK, EndsAreKnown, ShutdownBegins, ShutdownDrained, ShutdownForced, Drop, vars
<1>5. NoOrphan'
  <2>1. CASE ShutdownDrained
    <3>1. Running = {}
      BY <2>1, RunningFinite, FS_EmptySet DEF ShutdownDrained, LiveIsExact
    <3> QED
      BY <1>1, <3>1 DEF NoOrphan, Running, With
  <2>2. CASE ShutdownBegins \/ ShutdownForced \/ Drop \/ UNCHANGED vars
    BY <1>1, <2>2 DEF NoOrphan, ShutdownBegins, ShutdownForced, Drop, vars
  <2> QED
    BY <2>1, <2>2
<1> QED
  BY <1>3, <1>4, <1>5

LEMMA ScopeStepOK == ScopeInv /\ [Next]_vars => ScopeInv'
<1> SUFFICES ASSUME ScopeInv, [Next]_vars PROVE ScopeInv'
  OBVIOUS
<1>1. ASSUME NEW t \in Tasks, Spawn(t) PROVE ScopeInv'
  BY <1>1, SpawnOK
<1>2. ASSUME NEW t \in Tasks, TaskStep(t) PROVE ScopeInv'
  BY <1>2, LeaveOK, SettleOK DEF TaskStep, Return, Unwind, Reap
<1>3. ASSUME ShutdownBegins \/ ShutdownDrained \/ ShutdownForced \/ Drop \/ UNCHANGED vars
      PROVE ScopeInv'
  BY <1>3, ScopeOK
<1> QED
  BY <1>1, <1>2, <1>3 DEF Next

LEMMA ScopeInductive == Spec => []ScopeInv
BY ScopeInit, ScopeStepOK, PTL DEF Spec

\* TaskScope::prune_finished and shutdown: however many tasks there are and in whatever order
\* they start, end and are pruned, one that runs can be stopped.
THEOREM HandlesAreKept == Spec => []NoOrphan
<1>1. ScopeInv => NoOrphan
  BY DEF ScopeInv
<1> QED
  BY <1>1, ScopeInductive, PTL

\* TaskScope::handle, the leak detector: the counter is the number of running tasks.
THEOREM CounterIsExact == Spec => []LiveIsExact
<1>1. ScopeInv => LiveIsExact
  BY DEF ScopeInv
<1> QED
  BY <1>1, ScopeInductive, PTL

\* TaskScope::shutdown: `true' is returned only when every task spawned has ended.
THEOREM CleanIsHonest == Spec => CleanMeansDrained
<1>1. ASSUME ScopeInv, [Next]_vars
      PROVE  verdict' = "clean" /\ phase = "draining" /\ phase' = "open"
               => \A t \in Tasks : status[t] # "unborn" => how[t] # "?"
  <2> SUFFICES ASSUME verdict' = "clean", phase = "draining", phase' = "open",
                      NEW t \in Tasks, status[t] # "unborn"
               PROVE  how[t] # "?"
    OBVIOUS
  <2>1. ShutdownDrained
    BY <1>1 DEF Next, Spawn, TaskStep, Return, Unwind, Reap, Leave, Settle, ShutdownBegins,
                ShutdownForced, Drop, vars
  <2>2. Running = {}
    BY <1>1, <2>1, RunningFinite, FS_EmptySet DEF ShutdownDrained, LiveIsExact, ScopeInv
  <2>3. status[t] \in {"left", "finished"}
    BY <1>1, <2>2 DEF ScopeInv, TypeOK, Running, With
  <2> QED
    BY <1>1, <2>3 DEF ScopeInv, EndsAreKnown
<1>2. ScopeInv /\ [Next]_vars =>
        [verdict' = "clean" /\ phase = "draining" /\ phase' = "open"
           => \A t \in Tasks : status[t] # "unborn" => how[t] # "?"]_vars
  BY <1>1
<1> QED
  BY <1>2, ScopeInductive, PTL DEF Spec, CleanMeansDrained

-----------------------------------------------------------------------------
(* Tunnels. *)

SshStates == {"unborn", "starting", "forwarding", "gone"}

TunnelTypes ==
    /\ ssh \in [Pids -> SshStates]
    /\ \A t \in tunnels : t.pid \in Pids
    /\ call = T!NoCall \/ call \in [node : Nodes, pid : Pids, step : {"wait", "connect"}]

\* What has an owner was started: a process that is still unborn may be given to a new call.
OwnedWereStarted ==
    /\ \A t \in tunnels : ssh[t.pid] # "unborn"
    /\ call # T!NoCall => ssh[call.pid] # "unborn"

TunnelInv == TunnelTypes /\ OwnedWereStarted /\ T!EverySshIsOwned

LEMMA TunnelInit == T!Init => TunnelInv
BY PidsAssumption
   DEF T!Init, TunnelInv, TunnelTypes, OwnedWereStarted, T!EverySshIsOwned, T!Alive, SshStates

LEMMA TunnelStart ==
    ASSUME TunnelInv, NEW n \in Nodes, T!Start(n)
    PROVE  TunnelInv'
<1> USE DEF TunnelInv, TunnelTypes
<1>1. PICK p \in Pids, free \in Ports \ T!Listening :
         /\ ssh[p] = "unborn"
         /\ ssh' = [ssh EXCEPT ![p] = "starting"]
         /\ call' = [node |-> n, pid |-> p, step |-> "wait"]
  BY DEF T!Start
<1>2. call = T!NoCall /\ tunnels' = tunnels /\ unwaited' = unwaited
  BY DEF T!Start
<1>3. TunnelTypes'
  BY <1>1, <1>2 DEF SshStates
<1>4. OwnedWereStarted'
  BY <1>1, <1>2 DEF OwnedWereStarted
<1>5. T!EverySshIsOwned'
  BY <1>1, <1>2, PidsAssumption
     DEF T!EverySshIsOwned, OwnedWereStarted, T!Alive, T!NoCall
<1> QED
  BY <1>3, <1>4, <1>5

LEMMA TunnelStep ==
    ASSUME TunnelInv, [T!Next]_tunnelVars
    PROVE  TunnelInv'
<1> USE PidsAssumption
    DEF TunnelInv, TunnelTypes, SshStates, OwnedWereStarted, T!EverySshIsOwned, T!Alive, T!NoCall
<1>1. ASSUME NEW n \in Nodes, T!Known(n) \/ T!Refuse(n) PROVE TunnelInv'
  BY <1>1 DEF T!Known, T!Refuse
<1>2. ASSUME NEW n \in Nodes, T!Start(n) PROVE TunnelInv'
  BY <1>2, TunnelStart
<1>3. CASE T!Exited
  BY <1>3 DEF T!Exited
<1>4. CASE T!StillRunning \/ T!Again \/ T!WaitFails
  BY <1>4 DEF T!StillRunning, T!Again, T!WaitFails
<1>5. CASE T!Connected
  <2>1. call \in [node : Nodes, pid : Pids, step : {"wait", "connect"}] /\ call # T!NoCall
    BY <1>5 DEF T!Connected
  <2> DEFINE new == [node |-> call.node, pid |-> call.pid]
  <2>2. tunnels' = tunnels \cup {new} /\ call' = T!NoCall /\ UNCHANGED <<ssh, unwaited>>
    BY <1>5 DEF T!Connected
  <2>3. new.pid = call.pid /\ new.pid \in Pids /\ ssh[new.pid] # "unborn"
    BY <2>1
  <2> HIDE DEF new
  <2>4. TunnelTypes' /\ OwnedWereStarted'
    BY <2>2, <2>3
  <2>5. T!EverySshIsOwned'
    BY <2>2, <2>3
  <2> QED
    BY <2>4, <2>5
<1>6. CASE T!TimedOut
  BY <1>6 DEF T!TimedOut, T!Killed
<1>7. ASSUME NEW kept \in SUBSET Nodes, T!RetainNodes(kept) PROVE TunnelInv'
  BY <1>7 DEF T!RetainNodes, T!Killed
<1>8. ASSUME NEW p \in Pids, T!SshBinds(p) \/ T!SshDies(p) PROVE TunnelInv'
  BY <1>8 DEF T!SshBinds, T!SshDies
<1>9. ASSUME NEW q \in Ports, T!OtherListens(q) PROVE TunnelInv'
  BY <1>9 DEF T!OtherListens
<1>10. CASE UNCHANGED tunnelVars
  BY <1>10 DEF tunnelVars
<1> QED
  BY <1>1, <1>2, <1>3, <1>4, <1>5, <1>6, <1>7, <1>8, <1>9, <1>10 DEF T!Next, T!PortFor

-----------------------------------------------------------------------------
(* The plugin host. *)

HostTypes ==
    /\ written \in Nat /\ outPipe \in Nat /\ buf \in Nat
    /\ holders \subseteq {"plugin", "heir"}
    /\ channel \in {"none", "whole", "large"}
    /\ outcome \in {"none", "whole", "empty", "large", "timeout", "failed"}

\* Until the reader is done, what was written is with it or in the pipe.
NothingIsDropped == reader = "reading" => written = buf + outPipe /\ channel = "none"

\* The reader calls its rendering whole when nobody is left to add to it, or a read failed.
WholeIsAll ==
    channel = "whole" =>
      reader = "done" /\ (broken = TRUE \/ (holders = {} /\ buf = written))

\* The host takes what the reader sent, and judges a child that cannot change any more.
VerdictIsOfTheChannel ==
    /\ outcome = "whole" => channel = "whole"
    /\ result # "none" => host = "done" /\ child = "reaped"
    /\ result = "ok" => outcome = "whole" /\ exit = "ok"

HostInv == HostTypes /\ NothingIsDropped /\ WholeIsAll /\ VerdictIsOfTheChannel

LEMMA HostInit == H!Init => HostInv
BY DEF H!Init, HostInv, HostTypes, NothingIsDropped, WholeIsAll, VerdictIsOfTheChannel

LEMMA HostStepOK ==
    ASSUME HostInv, [H!Next]_hostVars
    PROVE  HostInv'
<1> USE DEF HostInv, HostTypes, NothingIsDropped, WholeIsAll, VerdictIsOfTheChannel,
            H!plugin, H!threads
<1>1. CASE H!PluginReads
  BY <1>1 DEF H!PluginReads
<1>2. CASE H!PluginWrites
  BY <1>2 DEF H!PluginWrites
<1>3. CASE H!PluginCloses \/ H!PluginForks \/ H!HeirEnds
  BY <1>3 DEF H!PluginCloses, H!PluginForks, H!HeirEnds
<1>4. CASE H!PluginExits
  BY <1>4 DEF H!PluginExits
<1>5. CASE H!WriterStep
  BY <1>5 DEF H!WriterStep
<1>6. CASE H!ReaderStep
  BY <1>6 DEF H!ReaderStep, H!ReaderEnds, H!ReaderReads
<1>11. CASE H!ReaderFails
  BY <1>11 DEF H!ReaderFails
<1>7. CASE H!TryRecv \/ H!TryWait \/ H!Grace \/ H!Elapsed
  BY <1>7 DEF H!TryRecv, H!TryWait, H!Grace, H!Elapsed, H!HostStep, H!Break, H!Go
<1>8. CASE H!Kill
  <2>1. /\ UNCHANGED <<outPipe, written, buf, reader, channel, broken, outcome>>
        /\ holders' \subseteq holders
    BY <1>8 DEF H!Kill, H!HostStep
  <2>2. HostTypes' /\ NothingIsDropped' /\ WholeIsAll'
    BY <2>1
  <2>3. host' = "done" /\ child' = "reaped"
    BY <1>8 DEF H!Kill
  <2>4. result' = "ok" => outcome = "whole" /\ exit' = "ok"
    BY <1>8 DEF H!Kill
  <2> QED
    BY <2>1, <2>2, <2>3, <2>4
<1>9. CASE H!Clock
  BY <1>9 DEF H!Clock
<1>10. CASE UNCHANGED hostVars
  BY <1>10 DEF hostVars
<1> QED
  BY <1>1, <1>2, <1>3, <1>4, <1>5, <1>6, <1>7, <1>8, <1>9, <1>10, <1>11 DEF H!Next, H!Host

-----------------------------------------------------------------------------
(* Interrupts. *)

InterruptTypes ==
    /\ activity \in I!Activities
    /\ consecutive_idle \in Nat /\ pending \in Nat /\ taken \in Nat
    /\ presses \in Nat /\ carried \in Nat /\ applied \in Nat

\* No signal is counted towards the end of the session that the user did not give.
IdleIsApplied == consecutive_idle <= applied

InterruptInv == InterruptTypes /\ IdleIsApplied /\ I!ExitTakesTwo /\ I!NoSignalIsLost

LEMMA InterruptInit == I!Init => InterruptInv
BY DEF I!Init, InterruptInv, InterruptTypes, IdleIsApplied, I!ExitTakesTwo, I!NoSignalIsLost,
       I!Activities

LEMMA UncertaintyInit == I!Init => I!UncertaintyIsReported
BY DEF I!Init, I!UncertaintyIsReported

\* What one answer of `on' does to the count and what it says.
LEMMA AnswerOfOn ==
    ASSUME NEW count \in Nat, NEW act \in I!Activities, NEW signal
    PROVE  LET on == I!On(signal, count, act) IN
           /\ on.count \in Nat /\ on.count <= count + I!Weight(signal)
           /\ on.response = "Exit" => on.count >= 2
           /\ signal # "Break" /\ act \in {"AwaitingReply", "Blocked", "Batch"}
                => I!LeavesEffectsUnknown(on.response)
BY DEF I!On, I!OnInterrupt, I!Weight, I!Activities, I!Means, I!LeavesEffectsUnknown

LEMMA InterruptStep ==
    ASSUME InterruptInv, [I!Next]_interruptVars
    PROVE  InterruptInv'
<1> USE DEF InterruptInv, InterruptTypes, IdleIsApplied, I!ExitTakesTwo, I!NoSignalIsLost
<1>1. ASSUME NEW s \in {"Interrupt", "Break"}, I!Press(s) PROVE InterruptInv'
  <2> DEFINE on == I!On(s, consecutive_idle, activity)
  <2>1. on.count \in Nat /\ on.count <= consecutive_idle + I!Weight(s)
        /\ (on.response = "Exit" => on.count >= 2)
    BY AnswerOfOn
  <2>2. consecutive_idle' = on.count /\ response' = on.response /\ activity' = "Idle"
        /\ applied' = applied + I!Weight(s) /\ presses' = presses + I!Weight(s)
        /\ UNCHANGED <<pending, taken, carried>>
    BY <1>1 DEF I!Press, I!Obey, I!Counted
  <2>3. I!Weight(s) \in Nat
    BY DEF I!Weight
  <2> HIDE DEF on
  <2> QED
    BY <2>1, <2>2, <2>3 DEF I!Activities
<1>2. ASSUME NEW s \in {"Interrupt", "Break"}, I!Deliver(s) PROVE InterruptInv'
  BY <1>2 DEF I!Deliver, I!Weight, I!Counted
<1>3. CASE I!TakePending
  BY <1>3 DEF I!TakePending
<1>4. CASE I!ApplyTaken
  <2> DEFINE on == I!On("Interrupt", consecutive_idle, activity)
  <2>1. on.count \in Nat /\ on.count <= consecutive_idle + 1
        /\ (on.response = "Exit" => on.count >= 2)
    BY AnswerOfOn DEF I!Weight
  <2>2. consecutive_idle' = on.count /\ response' = on.response /\ activity' = "Idle"
        /\ taken > 0 /\ taken' = taken - 1 /\ applied' = applied + 1
        /\ UNCHANGED <<pending, presses, carried>>
    BY <1>4 DEF I!ApplyTaken, I!Obey
  <2> HIDE DEF on
  <2> QED
    BY <2>1, <2>2 DEF I!Activities
<1>5. CASE I!Activity
  BY <1>5 DEF I!Activity
<1>6. CASE I!Proceed
  BY <1>6 DEF I!Proceed, I!Activities
<1>7. CASE UNCHANGED interruptVars
  BY <1>7 DEF interruptVars
<1> QED
  BY <1>1, <1>2, <1>3, <1>4, <1>5, <1>6, <1>7 DEF I!Next

LEMMA UncertaintyStep ==
    ASSUME InterruptInv, I!UncertaintyIsReported, [I!Next]_interruptVars, BreakCalls = FALSE
    PROVE  I!UncertaintyIsReported'
<1> USE DEF InterruptInv, InterruptTypes, I!UncertaintyIsReported
<1>1. ASSUME NEW s \in {"Interrupt", "Break"}, I!Press(s) PROVE I!UncertaintyIsReported'
  <2>1. s # "Break"
    BY <1>1 DEF I!Press
  <2> QED
    BY <1>1, <2>1, AnswerOfOn DEF I!Press, I!Obey
<1>2. ASSUME NEW s \in {"Interrupt", "Break"}, I!Deliver(s) PROVE I!UncertaintyIsReported'
  BY <1>2 DEF I!Deliver
<1>3. CASE I!TakePending
  BY <1>3 DEF I!TakePending
<1>4. CASE I!ApplyTaken
  BY <1>4, AnswerOfOn DEF I!ApplyTaken, I!Obey
<1>5. CASE I!Activity \/ I!Proceed
  BY <1>5 DEF I!Activity, I!Proceed
<1>6. CASE UNCHANGED interruptVars
  BY <1>6 DEF interruptVars
<1> QED
  BY <1>1, <1>2, <1>3, <1>4, <1>5, <1>6 DEF I!Next

-----------------------------------------------------------------------------
(* Together. *)

LEMMA StepOfEach ==
    ASSUME [ProcessesNext]_all
    PROVE  /\ [T!Next]_tunnelVars
           /\ [H!Next]_hostVars
           /\ [I!Next]_interruptVars
BY DEF ProcessesNext, OfScope, OfTunnels, OfHost, OfInterrupts, all, tunnelVars, hostVars,
       interruptVars

\* No ssh process outlives the pool's knowledge of it: one that is alive belongs to a tunnel or to
\* the call that started it, and no two tunnels share one (ssh.rs, start, port_for,
\* retain_nodes), for any number of nodes, ports and processes.
THEOREM SshIsOwned == ProcessesSpec => []EverySshIsOwned
<1>1. ProcessesInit => TunnelInv
  BY TunnelInit DEF ProcessesInit
<1>2. TunnelInv /\ [ProcessesNext]_all => TunnelInv'
  BY TunnelStep, StepOfEach
<1>3. TunnelInv => EverySshIsOwned
  BY DEF TunnelInv, EverySshIsOwned
<1> QED
  BY <1>1, <1>2, <1>3, PTL DEF ProcessesSpec

\* A rendering the plugin host returns is of a plugin that ended well and, unless a read of its
\* output failed, is all that plugin wrote (plugin.rs, run), however the two threads, the child and the clock interleave.
THEOREM RenderingIsWhole == ProcessesSpec => []NeverPartial
<1>1. ProcessesInit => HostInv
  BY HostInit DEF ProcessesInit
<1>2. HostInv /\ [ProcessesNext]_all => HostInv'
  BY HostStepOK, StepOfEach
<1>3. HostInv => NeverPartial
  BY DEF HostInv, WholeIsAll, VerdictIsOfTheChannel, NeverPartial, H!NeverPartial
<1> QED
  BY <1>1, <1>2, <1>3, PTL DEF ProcessesSpec

\* While `on' is only called for Ctrl+C and the console's signals come through the counter, every
\* press counts once, whenever the user does something else; the session ends only when the rule
\* was applied twice since; and an abandoned request is reported (signal.rs, on, activity,
\* deliver, take_pending).
THEOREM SignalsAreHonest == BreakCalls = FALSE => (ProcessesSpec => []InterruptsAreHonest)
<1> SUFFICES ASSUME BreakCalls = FALSE PROVE ProcessesSpec => []InterruptsAreHonest
  OBVIOUS
<1> DEFINE Honest == InterruptInv /\ I!UncertaintyIsReported
<1>1. ProcessesInit => Honest
  BY InterruptInit, UncertaintyInit DEF ProcessesInit
<1>2. Honest /\ [ProcessesNext]_all => Honest'
  BY InterruptStep, UncertaintyStep, StepOfEach
<1>3. Honest => InterruptsAreHonest
  BY DEF InterruptInv, InterruptsAreHonest, I!InterruptsAreHonest
<1> QED
  BY <1>1, <1>2, <1>3, PTL DEF ProcessesSpec

\* Calls with Signal::Break included, no press is lost or counted twice and the session ends only
\* when the rule was applied twice since the last activity (signal.rs, on, activity, deliver,
\* take_pending).
THEOREM PressesAreCounted == ProcessesSpec => [](I!ExitTakesTwo /\ I!NoSignalIsLost)
<1>1. ProcessesInit => InterruptInv
  BY InterruptInit DEF ProcessesInit
<1>2. InterruptInv /\ [ProcessesNext]_all => InterruptInv'
  BY InterruptStep, StepOfEach
<1>3. InterruptInv => I!ExitTakesTwo /\ I!NoSignalIsLost
  BY DEF InterruptInv
<1> QED
  BY <1>1, <1>2, <1>3, PTL DEF ProcessesSpec
=============================================================================
