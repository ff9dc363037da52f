-------------------------------- MODULE Broker --------------------------------
(***************************************************************************)
(* pr-intelligence/src/broker.rs: completion results that arrive while the *)
(* user keeps typing and switching database.                               *)
(*                                                                         *)
(* The editor, which calls set_state and issue, and the lookups, which     *)
(* answer in any order, more than once or not at all, are the environment. *)
(* A candidate is its id; `origin' is a history variable.                  *)
(***************************************************************************)
EXTENDS Integers, Sequences, FiniteSets

CONSTANTS
    Scopes,         \* observation scopes the user switches between
    Results,        \* answers of a lookup: lists of candidate ids
    MaxChanges,     \* bound: keystrokes and switches
    MaxIssued       \* bound: requests issued beyond the one a change calls for

ASSUME BrokerAssumption ==
    /\ Scopes # {} /\ MaxChanges \in Nat /\ MaxIssued \in Nat
    /\ \A r \in Results : Cardinality({r[i] : i \in DOMAIN r}) = Len(r)

VARIABLES
    current,    \* the stamp of the editor as last told, or NoStamp
    issued,     \* sequence number of the last request
    shown,      \* candidates displayed
    focused,    \* index of the focused one, 0 for none
    discarded,  \* results discarded
    flying,     \* requests that may still be answered
    asked,      \* stamp of the last request, if it was made after the last change
    changes,    \* changes so far
    origin      \* the request whose answer is shown

vars == <<current, issued, shown, focused, discarded, flying, asked, changes, origin>>

NoStamp == [revision |-> -1, scope |-> "none"]
NoOrigin == [seq |-> 0, stamp |-> NoStamp]
Stamps == [revision : 0..MaxChanges, scope : Scopes]

Init ==
    /\ current = NoStamp
    /\ issued = 0
    /\ shown = <<>>
    /\ focused = 0
    /\ discarded = 0
    /\ flying = {}
    /\ asked = NoStamp
    /\ changes = 0
    /\ origin = NoOrigin

\* set_state: the user typed, or went to another scope.
SetState ==
    /\ changes < MaxChanges
    /\ changes' = changes + 1
    /\ \/ current' = [revision |-> current.revision + 1,
                      scope |-> IF current = NoStamp THEN CHOOSE s \in Scopes : TRUE
                                                     ELSE current.scope]
       \/ /\ current # NoStamp
          /\ \E s \in Scopes \ {current.scope} : current' = [current EXCEPT !.scope = s]
    /\ asked' = NoStamp
    /\ UNCHANGED <<issued, shown, focused, discarded, flying, origin>>

\* issue: a lookup starts for the state as it is.
Issue ==
    /\ current # NoStamp
    /\ asked # current \/ issued < MaxIssued
    /\ issued' = issued + 1
    /\ flying' = flying \cup {[seq |-> issued', stamp |-> current]}
    /\ asked' = current
    /\ UNCHANGED <<current, shown, focused, discarded, changes, origin>>

\* Bug: the focus keeps its index.
MergedByIndex(list) ==
    /\ shown' = list
    /\ focused' = IF focused <= Len(list) THEN focused ELSE 0

\* merge: the focus follows the candidate's id.
Merged(list) ==
    LET same == {i \in DOMAIN list : focused # 0 /\ list[i] = shown[focused]} IN
    /\ shown' = list
    /\ focused' = IF same = {} THEN 0 ELSE CHOOSE i \in same : TRUE

\* Bug: off by one, the latest request is superseded too.
ApplicableNever(r) == r.stamp = current /\ r.seq > issued

\* The checks of deliver: known state, scope, revision, and nothing newer issued.
Applicable(r) ==
    /\ current # NoStamp
    /\ r.stamp.scope = current.scope
    /\ r.stamp.revision = current.revision
    /\ r.seq >= issued

\* deliver.
Deliver(r, list) ==
    /\ \/ /\ Applicable(r)
          /\ Merged(list)
          /\ origin' = r
          /\ UNCHANGED discarded
       \/ /\ ~Applicable(r)
          /\ discarded < MaxChanges + MaxIssued
          /\ discarded' = discarded + 1
          /\ UNCHANGED <<shown, focused, origin>>
    /\ UNCHANGED <<current, issued, asked, changes>>

\* A lookup answers; the answer may come again.
Answer(r) ==
    /\ r \in flying
    /\ \E list \in Results : Deliver(r, list)
    /\ flying' \in {flying, flying \ {r}}

\* focus and unfocus.
Focus ==
    /\ focused' \in (0..Len(shown)) \ {focused}
    /\ UNCHANGED <<current, issued, shown, discarded, flying, asked, changes, origin>>

Next ==
    \/ SetState \/ Issue \/ Focus
    \/ \E r \in flying : Answer(r)

Spec == Init /\ [][Next]_vars

\* The editor asks after a change, and the newest lookup is answered in the end.
FairSpec ==
    /\ Spec
    /\ WF_vars(asked # current /\ Issue)
    /\ WF_vars(\E r \in flying : r.seq = issued /\ Answer(r))

-----------------------------------------------------------------------------

TypeOK ==
    /\ current \in Stamps \cup {NoStamp}
    /\ asked \in Stamps \cup {NoStamp}
    /\ issued \in 0..(MaxChanges + MaxIssued)
    /\ shown \in Results \cup {<<>>}
    /\ focused \in 0..Len(shown)
    /\ discarded \in 0..(MaxChanges + MaxIssued)
    /\ flying \subseteq [seq : 1..issued, stamp : Stamps]
    /\ origin \in [seq : 0..issued, stamp : Stamps \cup {NoStamp}]

\* Superseded and ASSIST-028: whatever the order of the answers, what is shown never goes back
\* to an earlier request, was asked for the state in which it was put up, and may take the focus
\* away, but never puts it on another candidate than the one the user is about to accept.
LateAnswersAreHarmless ==
    [][origin' # origin =>
         /\ origin'.seq >= origin.seq /\ origin'.stamp = current
         /\ focused # 0 /\ focused' # 0 => shown'[focused'] = shown[focused]]_vars

\* Discarding stale results does not starve the user: once they stop typing, what is shown
\* is an answer for the state they are in.
SettledIsShown ==
    <>[](current = NoStamp \/ origin.stamp = current)

\* "The failure it prevents is precise: a stale candidate landing on text the user has since
\* retyped, or a dev name appearing after a switch to prod": the focused candidate, the one
\* an accept inserts, was computed for the present text and scope.
FocusIsCurrent == focused # 0 => origin.stamp = current
=============================================================================
