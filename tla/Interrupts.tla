------------------------------ MODULE Interrupts ------------------------------
(***************************************************************************)
(* pr-core/src/signal.rs: what Ctrl+C and Ctrl+Break mean, by what the     *)
(* session is doing when they arrive, and the counter by which a console   *)
(* hands them from its own thread to the main one.                         *)
(*                                                                         *)
(* The session is the environment: it starts work, finishes it and obeys   *)
(* the responses.  A Ctrl+C keystroke is a call of `on'; a console's       *)
(* signals come through the counter as Ctrl+C equivalents, which the       *)
(* caller applies one by one.  `on' also takes a Break: BreakCalls.  The   *)
(* last four variables are history.                                        *)
(***************************************************************************)
EXTENDS Integers

CONSTANTS
    BreakCalls,     \* `on' is called with Signal::Break as well
    MaxPresses      \* bound: Ctrl+C, or halves of a Ctrl+Break, in a row or left from before

VARIABLES
    activity,           \* what the session is doing
    consecutive_idle,   \* the field of Interrupts
    response,           \* the last answer of `on'
    pending,            \* PENDING
    taken,              \* equivalents taken from it and not yet applied
    presses,            \* Ctrl+C equivalents since the user did anything else
    carried,            \* those from before it that `on' had not seen then
    applied,            \* the ones that `on' has seen since then
    abandoned           \* the last call took a request whose bytes had left

vars == <<activity, consecutive_idle, response, pending, taken, presses, carried, applied,
          abandoned>>

Activities == {"Editing", "Idle", "Unsent", "AwaitingReply", "Blocked", "Streaming", "Batch"}

\* The response for each activity but Idle.
Means == [Editing |-> "ClearInput", Unsent |-> "CancelUnsent", AwaitingReply |-> "StopWaiting",
          Blocked |-> "CloseRequestSession", Streaming |-> "EndStream", Batch |-> "StopIssuing"]

LeavesEffectsUnknown(r) == r \in {"StopWaiting", "CloseRequestSession", "StopIssuing"}

Init ==
    /\ activity = "Idle"
    /\ consecutive_idle = 0
    /\ response = "none"
    /\ pending = 0
    /\ taken = 0
    /\ presses = 0
    /\ carried = 0
    /\ applied = 0
    /\ abandoned = FALSE

\* Interrupts::on for a Ctrl+C.
OnInterrupt(count, act) ==
    IF act = "Idle"
      THEN [count |-> count + 1, response |-> IF count + 1 >= 2 THEN "Exit" ELSE "ClearInput"]
      ELSE [count |-> 0, response |-> Means[act]]

\* Interrupts::on: Ctrl+Break applies the rule twice and answers with the second.
On(signal, count, act) ==
    LET first == OnInterrupt(count, act) IN
    IF signal = "Break" /\ first.response # "Exit" THEN OnInterrupt(first.count, "Idle")
    ELSE first

\* What the caller does with an answer: every one of them ends at an empty prompt.
Obey(on) ==
    /\ consecutive_idle' = on.count
    /\ response' = on.response
    /\ abandoned' = (activity \in {"AwaitingReply", "Blocked", "Batch"})
    /\ activity' = "Idle"

Weight(signal) == IF signal = "Break" THEN 2 ELSE 1

\* One more signal within the bound.
Counted(signal) ==
    /\ presses + carried + Weight(signal) <= MaxPresses
    /\ presses' = presses + Weight(signal)
    /\ UNCHANGED carried

\* A keystroke.
Press(signal) ==
    /\ response # "Exit"
    /\ signal = "Break" => BreakCalls
    /\ Counted(signal)
    /\ Obey(On(signal, consecutive_idle, activity))
    /\ applied' = applied + Weight(signal)
    /\ UNCHANGED <<pending, taken>>

\* Bug: the handler sets a flag.
DeliverFlag(signal) ==
    /\ Counted(signal)
    /\ pending' = Weight(signal)
    /\ UNCHANGED <<activity, consecutive_idle, response, taken, applied, abandoned>>

\* delivery::deliver, on the console's thread.
Deliver(signal) ==
    /\ Counted(signal)
    /\ pending' = pending + Weight(signal)
    /\ UNCHANGED <<activity, consecutive_idle, response, taken, applied, abandoned>>

\* delivery::take_pending.
TakePending ==
    /\ taken = 0 /\ pending > 0 /\ response # "Exit"
    /\ taken' = pending
    /\ pending' = 0
    /\ UNCHANGED <<activity, consecutive_idle, response, presses, carried, applied, abandoned>>

\* The caller applies the rule to one of them.
ApplyTaken ==
    /\ taken > 0 /\ response # "Exit"
    /\ taken' = taken - 1
    /\ applied' = applied + 1
    /\ Obey(On("Interrupt", consecutive_idle, activity))
    /\ UNCHANGED <<pending, presses, carried>>

\* The user does something else: the run is cleared, and what the console has delivered and
\* nobody has applied yet stays for the next.
Activity ==
    /\ response # "Exit"
    /\ consecutive_idle' = 0
    /\ presses' = 0
    /\ carried' = pending + taken
    /\ applied' = 0
    /\ response' = "none"
    /\ abandoned' = FALSE
    /\ activity' \in Activities
    /\ UNCHANGED <<pending, taken>>

\* The session goes on by itself: a request leaves, or its reply arrives.
Proceed ==
    /\ response # "Exit"
    /\ \/ activity = "Unsent" /\ activity' \in {"AwaitingReply", "Blocked", "Streaming", "Batch"}
       \/ activity \in {"AwaitingReply", "Blocked", "Streaming", "Batch"} /\ activity' = "Idle"
    /\ response' = "none"
    /\ abandoned' = FALSE
    /\ UNCHANGED <<consecutive_idle, pending, taken, presses, carried, applied>>

Next ==
    \/ \E s \in {"Interrupt", "Break"} : Press(s) \/ Deliver(s)
    \/ TakePending \/ ApplyTaken \/ Activity \/ Proceed

Spec == Init /\ [][Next]_vars

-----------------------------------------------------------------------------

\* Nobody is thrown out before the rule was applied twice since they last did anything.
ExitTakesTwo == response = "Exit" => applied >= 2

\* Nothing that the console's thread adds while the main thread takes is lost or counted
\* twice, whatever the user does in between.
NoSignalIsLost == presses + carried = applied + pending + taken

\* "A Ctrl+C now and another one ten minutes later would quit": what `activity' is there to
\* prevent.  It clears the count and not the console's counter, so a signal delivered before
\* it and taken after it still counts: no run checks this.
TwiceInARow == response = "Exit" => presses >= 2

\* "130 may only be used when nothing is uncertain, so a caller must be able to ask": when a
\* signal abandons a request whose bytes had left, the answer says the effects are unknown.
UncertaintyIsReported == abandoned => LeavesEffectsUnknown(response)

\* Every press counts once, none too soon, and what it leaves open is said.
InterruptsAreHonest == ExitTakesTwo /\ NoSignalIsLost /\ UncertaintyIsReported
=============================================================================
