------------------------------ MODULE Discovery ------------------------------
(***************************************************************************)
(* pr-intelligence/src/discovery.rs: a walk of the keyspace with SCAN      *)
(* under a budget, and the cooldown after a refusal.                       *)
(*                                                                         *)
(* Names and patterns are sequences of bytes.  The server is the           *)
(* environment: page c holds Pages[c + 1], any page may also return names  *)
(* of Fickle (keys that come and go, or that it repeats), and it may       *)
(* refuse.  The caller may have MaxFlying requests on the way and learns   *)
(* their replies in order.  A reply costs a byte a name.  One scope of the *)
(* cooldown, (profile, database), is followed; runs started elsewhere are  *)
(* runs of another scope.                                                  *)
(***************************************************************************)
EXTENDS Integers, Sequences, SequencesExt, FiniteSets

CONSTANTS
    Pages,          \* the names that stay, page by page
    Fickle,         \* names that any page may return
    Inputs,         \* what the user types
    MaxScans, MaxDuration, MinGap, MaxBytes,     \* the Budget; MinGap is a second / rate
    Cooldown,       \* COOLDOWN
    MaxFlying,      \* bound: requests on the way
    MaxRuns,        \* bound: runs
    MaxTime         \* bound: the clock

VARIABLES
    run,        \* the Discovery, or NoRun
    flying,     \* cursors of the requests on the way
    until,      \* Cooldown.until of the scope, 0 for none
    now,        \* the clock
    runs,       \* runs so far
    refusedAt   \* history: the last refusal the user has not overridden, or Never

vars == <<run, flying, until, now, runs, refusedAt>>

Never == -100
Modes == {"prefix", "glob"}
NoRun == [finished |-> "no run"]

-----------------------------------------------------------------------------
(* Patterns. *)

Special == {"*", "?", "[", "]", "\\"}

Escaped(byte) == IF byte \in Special THEN <<"\\", byte>> ELSE <<byte>>

\* scan_pattern: a literal prefix is escaped, a glob is sent as typed.
ScanPattern(mode, input) ==
    LET out[n \in 0..Len(input)] == IF n = 0 THEN <<>> ELSE out[n - 1] \o Escaped(input[n])
    IN  IF mode = "glob" THEN input ELSE Append(out[Len(input)], "*")

\* The server's MATCH, without character classes: where in the name the rest of the pattern,
\* from its byte i on, may begin.
Glob(pattern, name) ==
    LET inside == 1..Len(name)
        from[i \in 1..(Len(pattern) + 1)] ==
          IF i > Len(pattern) THEN {Len(name) + 1}
          ELSE IF pattern[i] = "*"
            THEN {j \in 1..(Len(name) + 1) : \E k \in from[i + 1] : j <= k}
          ELSE IF pattern[i] = "?" THEN {j \in inside : j + 1 \in from[i + 1]}
          ELSE IF pattern[i] = "\\" /\ i < Len(pattern)
            THEN {j \in inside : name[j] = pattern[i + 1] /\ j + 1 \in from[i + 2]}
          ELSE {j \in inside : name[j] = pattern[i] /\ j + 1 \in from[i + 1]}
    IN  1 \in from[1]

-----------------------------------------------------------------------------
(* The run. *)

Fresh(mode, input) ==
    [mode |-> mode, input |-> input, pattern |-> ScanPattern(mode, input), cursor |-> 0,
     scans |-> 0, bytes |-> 0, matches |-> {}, started |-> Never, last |-> Never,
     finished |-> "none"]

Init ==
    /\ run = NoRun
    /\ flying = <<>>
    /\ until = 0
    /\ now = 0
    /\ runs = 0
    /\ refusedAt = Never

Walking == run.finished = "none"

\* Cooldown::check.
Check == until <= now

Start(mode, input) ==
    /\ ~Walking
    /\ runs < MaxRuns
    /\ runs' = runs + 1
    /\ run' = Fresh(mode, input)
    /\ flying' = <<>>
    /\ UNCHANGED now

\* A run of the session's own accord asks the cooldown; the user's clears it.
StartAutomatic ==
    /\ Check
    /\ \E input \in Inputs : Start("prefix", input)
    /\ UNCHANGED <<until, refusedAt>>

StartByUser ==
    /\ \E mode \in Modes, input \in Inputs : Start(mode, input)
    /\ until' = 0
    /\ refusedAt' = Never

\* The limit reached, if any, in the order next_step looks at them.
LimitReached(r) ==
    IF now - r.started >= MaxDuration THEN "time"
    ELSE IF r.scans >= MaxScans THEN "scans"
    ELSE IF r.bytes >= MaxBytes THEN "bytes"
    ELSE "none"

\* next_step: the run ends, or waits for its rate, or sends a SCAN.
NextStep ==
    /\ Walking
    /\ Len(flying) < MaxFlying
    /\ LET r == [run EXCEPT !.started = IF @ = Never THEN now ELSE @] IN
       \/ /\ LimitReached(r) # "none"
          /\ run' = [r EXCEPT !.finished = LimitReached(r)]
          /\ UNCHANGED flying
       \/ /\ LimitReached(r) = "none"
          /\ r.last # Never /\ now - r.last < MinGap
          /\ run' = r
          /\ UNCHANGED flying
       \/ /\ LimitReached(r) = "none"
          /\ r.last = Never \/ now - r.last >= MinGap
          /\ run' = [r EXCEPT !.last = now, !.scans = @ + 1]
          /\ flying' = Append(flying, r.cursor)
    /\ UNCHANGED <<until, now, runs, refusedAt>>

\* Bug: a page without a match ends the walk.
FeedStopsOnEmpty(r, cursor, keys) ==
    [r EXCEPT !.bytes = @ + Cardinality(keys), !.matches = @ \cup keys, !.cursor = cursor,
              !.finished = IF cursor = 0 \/ keys = {} THEN "exhausted" ELSE @]

\* feed: cursor 0 ends the run, whatever had ended it before.
Feed(r, cursor, keys) ==
    [r EXCEPT !.bytes = @ + Cardinality(keys), !.matches = @ \cup keys, !.cursor = cursor,
              !.finished = IF cursor = 0 THEN "exhausted" ELSE @]

\* A reply arrives and is fed, a cancelled run's too.
Reply ==
    /\ flying # <<>>
    /\ flying' = Tail(flying)
    /\ LET page == Head(flying) + 1
           next == IF page = Len(Pages) THEN 0 ELSE page
       IN  \E repeated \in SUBSET Fickle :
             run' = Feed(run, next, {k \in Pages[page] \cup repeated : Glob(run.pattern, k)})
    /\ UNCHANGED <<until, now, runs, refusedAt>>

\* Cooldown::refused.
Refused == until' = now + Cooldown

\* NOPERM, or any other error in place of a reply: deny, and the cooldown starts.
Deny ==
    /\ flying # <<>>
    /\ flying' = Tail(flying)
    /\ run' = [run EXCEPT !.finished = "denied"]
    /\ Refused
    /\ refusedAt' = now
    /\ UNCHANGED <<now, runs>>

Cancel ==
    /\ Walking
    /\ run' = [run EXCEPT !.finished = "cancelled"]
    /\ UNCHANGED <<flying, until, now, runs, refusedAt>>

Clock ==
    /\ now < MaxTime
    /\ now' = now + 1
    /\ UNCHANGED <<run, flying, until, runs, refusedAt>>

Next ==
    \/ StartAutomatic \/ StartByUser \/ NextStep \/ Reply \/ Deny \/ Cancel \/ Clock

Spec == Init /\ [][Next]_vars

-----------------------------------------------------------------------------

Wanted(k) == IF run.mode = "prefix" THEN IsPrefix(run.input, k) ELSE Glob(run.input, k)

\* "Never claims a key does not exist unless the keyspace was actually walked", and no input
\* is silently taken for another condition: what is listed is what the user asked for, and a
\* run reported as exhausted lists all of it that stayed, whatever pages were empty, repeated,
\* asked for twice or fed after a cancellation.
ConclusiveMeansWalked ==
    run # NoRun =>
      /\ \A k \in run.matches : Wanted(k)
      /\ run.finished = "exhausted" =>
           \A i \in DOMAIN Pages : \A k \in Pages[i] : Wanted(k) => k \in run.matches

\* "discovery backs off rather than retrying into an ACL wall": after a refusal no run starts
\* by itself for the length of the cooldown, unless the user tried in between.
RefusalIsRespected ==
    [][runs' # runs /\ refusedAt # Never /\ refusedAt' # Never => now - refusedAt >= Cooldown]_vars
=============================================================================
