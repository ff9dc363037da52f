------------------------------- MODULE TaskScope -------------------------------
(***************************************************************************)
(* pr-core/src/scope.rs: the supervision of asynchronous tasks.            *)
(*                                                                         *)
(* A task is "running" until its LiveGuard is dropped, "left" until the    *)
(* runtime knows it finished, and then "finished".  The tasks themselves,  *)
(* and the runtime that drops an aborted one at its next suspension, are   *)
(* the environment.  `how' says how a task came to an end.                 *)
(***************************************************************************)
EXTENDS Integers, FiniteSets

CONSTANTS
    Tasks,      \* the tasks that are ever spawned
    Floor       \* FLOOR: handles kept without pruning

ASSUME TaskScopeAssumption == IsFiniteSet(Tasks) /\ Floor \in Nat

VARIABLES
    status,     \* of each task
    how,        \* "?", or how it ended: "itself", "panic", "abort"
    told,       \* tasks that abort() was called on
    aborts,     \* tasks whose AbortHandle the scope holds
    live,       \* the counter the guards keep
    cancelled,  \* the token
    phase,      \* "open", "draining" (inside shutdown), "dropped"
    verdict     \* what the last shutdown returned: "none", "clean", "forced"

vars == <<status, how, told, aborts, live, cancelled, phase, verdict>>

Init ==
    /\ status = [t \in Tasks |-> "unborn"]
    /\ how = [t \in Tasks |-> "?"]
    /\ told = {}
    /\ aborts = {}
    /\ live = 0
    /\ cancelled = FALSE
    /\ phase = "open"
    /\ verdict = "none"

With(s) == {t \in Tasks : status[t] = s}
Running == With("running")

\* prune_finished, for `held' handles, `alive' tasks counted and `over' finished ones.
Prune(held, alive, over) ==
    IF Cardinality(held) >= Floor /\ Cardinality(held) > 2 * alive THEN held \ over ELSE held

\* spawn: the guard is counted before the task starts.
Spawn(t) ==
    /\ phase = "open"
    /\ status[t] = "unborn"
    /\ status' = [status EXCEPT ![t] = "running"]
    /\ live' = live + 1
    /\ aborts' = Prune(aborts \cup {t}, live + 1, With("finished"))
    /\ UNCHANGED <<how, told, cancelled, phase, verdict>>

\* LiveGuard::drop, wherever the task's future is dropped.
Leave(t, why) ==
    /\ status[t] = "running"
    /\ status' = [status EXCEPT ![t] = "left"]
    /\ how' = [how EXCEPT ![t] = why]
    /\ live' = live - 1
    /\ UNCHANGED <<told, aborts, cancelled, phase, verdict>>

\* A task returns, or panics.
Return(t) == Leave(t, "itself")
Unwind(t) == Leave(t, "panic")

\* The runtime drops a task it was told to abort.
Reap(t) == t \in told /\ Leave(t, "abort")

\* is_finished becomes true, after the guard is gone.
Settle(t) ==
    /\ status[t] = "left"
    /\ status' = [status EXCEPT ![t] = "finished"]
    /\ UNCHANGED <<how, told, aborts, live, cancelled, phase, verdict>>

\* shutdown: cancel, and wait.
ShutdownBegins ==
    /\ phase = "open"
    /\ cancelled' = TRUE
    /\ phase' = "draining"
    /\ UNCHANGED <<status, how, told, aborts, live, verdict>>

\* Bug: off by one, the last task is not waited for.
ShutdownDrainedEarly ==
    /\ phase = "draining"
    /\ live <= 1
    /\ verdict' = "clean"
    /\ phase' = "open"
    /\ UNCHANGED <<status, how, told, aborts, live, cancelled>>

\* The counter is seen at zero before the deadline.
ShutdownDrained ==
    /\ phase = "draining"
    /\ live = 0
    /\ aborts' = {}
    /\ verdict' = "clean"
    /\ phase' = "open"
    /\ UNCHANGED <<status, how, told, live, cancelled>>

\* The deadline: whatever is held is aborted.
ShutdownForced ==
    /\ phase = "draining"
    /\ told' = told \cup aborts
    /\ aborts' = {}
    /\ verdict' = "forced"
    /\ phase' = "open"
    /\ UNCHANGED <<status, how, live, cancelled>>

\* Bug: the token is cancelled, and that is all.
DropPolite ==
    /\ phase # "dropped"
    /\ cancelled' = TRUE
    /\ phase' = "dropped"
    /\ UNCHANGED <<status, how, told, aborts, live, verdict>>

\* Drop, also of a scope whose shutdown was itself dropped while it waited.
Drop ==
    /\ phase # "dropped"
    /\ cancelled' = TRUE
    /\ told' = told \cup aborts
    /\ phase' = "dropped"
    /\ UNCHANGED <<status, how, aborts, live, verdict>>

TaskStep(t) == Return(t) \/ Unwind(t) \/ Reap(t) \/ Settle(t)

Next ==
    \/ \E t \in Tasks : Spawn(t) \/ TaskStep(t)
    \/ ShutdownBegins \/ ShutdownDrained \/ ShutdownForced \/ Drop

Spec == Init /\ [][Next]_vars

\* The runtime gets to every task it was told to abort, and shutdown's wait is bounded.
Fairness ==
    /\ \A t \in Tasks : WF_vars(Reap(t))
    /\ WF_vars(ShutdownDrained \/ ShutdownForced)

FairSpec == Spec /\ Fairness

-----------------------------------------------------------------------------

TypeOK ==
    /\ status \in [Tasks -> {"unborn", "running", "left", "finished"}]
    /\ how \in [Tasks -> {"?", "itself", "panic", "abort"}]
    /\ told \subseteq Tasks
    /\ aborts \subseteq Tasks
    /\ live \in Nat
    /\ cancelled \in BOOLEAN
    /\ phase \in {"open", "draining", "dropped"}
    /\ verdict \in {"none", "clean", "forced"}

\* "the only way to make the count trustworthy": the counter is the number of tasks that
\* still have their guard, however they end.
LiveIsExact == live = Cardinality(Running)

\* A running task can always still be stopped: pruning and shutdown never let go of its
\* handle unless it was told to abort.
NoOrphan == \A t \in Tasks : status[t] = "running" => t \in aborts \cup told

\* "`true` only if every task left on its own": when shutdown says so, every task
\* that was ever spawned has come to an end.
CleanMeansDrained ==
    [][verdict' = "clean" /\ phase = "draining" /\ phase' = "open"
         => \A t \in Tasks : status[t] # "unborn" => how[t] # "?"]_vars

\* "Nothing outlives its scope": once it is dropped every task comes to an end.
NothingOutlives == [](phase = "dropped" => <>(Running = {}))
=============================================================================
