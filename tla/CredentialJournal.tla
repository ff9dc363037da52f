-------------------------- MODULE CredentialJournal --------------------------
(***************************************************************************)
(* pr-profiles/src/journal.rs: binding a profile to a secret touches the   *)
(* operating system's credential store and profiles.toml, which share no   *)
(* transaction.  A journal, reconciled at startup, makes a crash between   *)
(* the two discoverable.                                                   *)
(*                                                                         *)
(* One profile; references are numbered in the order they are minted and   *)
(* never reused.  The binding steps are the six of the module's header,    *)
(* whose caller is not in the repository.  Reconciliation runs in the same *)
(* process between bindings or, unless OneProcess, in another one at any   *)
(* moment.  The user may put an older profiles.toml back, at any moment    *)
(* too: `wentBack' is history.                                             *)
(***************************************************************************)
EXTENDS Integers, Sequences, FiniteSets

CONSTANTS
    OneProcess,     \* bindings and reconciliations do not overlap
    MaxRefs,        \* bound: references minted
    CrashPoints,    \* the points of a binding at which it may die
    MaxCrashes,     \* bound: bindings and cleanups that die
    MaxTorn,        \* bound: appends cut short by a crash
    MaxRollbacks    \* bound: older configurations put back

ASSUME BoundsAssumption ==
    /\ MaxRefs \in Nat /\ MaxCrashes \in Nat /\ MaxTorn \in Nat /\ MaxRollbacks \in Nat
    /\ OneProcess \in BOOLEAN
    /\ CrashPoints \subseteq {"pending", "secret", "profile"}

Refs == 1..MaxRefs
None == 0

VARIABLES
    journal,    \* the lines of the journal
    unended,    \* its last line has no line end
    store,      \* the references the credential store has a secret for
    profile,    \* the reference profiles.toml names, or None
    bind,       \* where the binding stands: the last step it finished
    minted,     \* references minted so far; the last is the one being bound
    supersedes, \* the reference the binding replaces, or None
    cleaning,   \* where a reconciliation stands
    referenced, \* what it read from profiles.toml
    cleanups,   \* the superseded secrets it has still to delete
    crashes, torn, rollbacks,
    wentBack    \* profiles.toml was put back since it was last bound or read

binding == <<bind, minted, supersedes>>
cleaner == <<cleaning, referenced, cleanups>>
faults == <<crashes, torn, rollbacks, wentBack>>
vars == <<journal, unended, store, profile, binding, cleaner, faults>>

Entry == [ref : Refs, supersedes : Refs \cup {None},
          state : {"pending", "committed", "cleaned"}]

\* A line that `read' answers Malformed for.
Malformed == [ref |-> None, supersedes |-> None, state |-> "malformed"]

-----------------------------------------------------------------------------
(* The journal file. *)

\* Journal::append to a file whose last line is whole, or runs on into the new one.
Appended(e) ==
    IF unended THEN [journal EXCEPT ![Len(journal)] = Malformed]
               ELSE Append(journal, e)

AppendEntry(e) == journal' = Appended(e) /\ unended' = FALSE

\* The process dies inside write_all: part of the line, or all but its line end, is there.
AppendTorn(e) ==
    /\ torn < MaxTorn
    /\ torn' = torn + 1
    /\ \E l \in {e, Malformed} :
         journal' = IF unended THEN [journal EXCEPT ![Len(journal)] = Malformed]
                               ELSE Append(journal, l)
    /\ unended' = TRUE

\* Journal::read succeeds: one malformed line fails it for all.
Readable == \A i \in DOMAIN journal : journal[i] # Malformed

Recorded == {journal[i].ref : i \in DOMAIN journal}

\* Journal::latest: the last record of a reference wins.
Latest(r) ==
    journal[CHOOSE i \in DOMAIN journal :
              /\ journal[i].ref = r
              /\ \A j \in DOMAIN journal : journal[j].ref = r => j <= i]

\* Journal::reconcile: secrets nothing points at.
OrphanedSecrets(named) ==
    {r \in Recorded : Latest(r).state = "pending" /\ r \in store /\ r # named}

\* Journal::reconcile: does the profile name a secret that never landed?
Dangling(named) ==
    \E r \in Recorded :
        Latest(r).state \in {"pending", "committed"} /\ r \notin store /\ r = named

\* Bug: what profiles.toml names is not looked at.
RetryableCleanupsUnchecked(named) ==
    {Latest(r).supersedes : r \in {q \in Recorded :
        Latest(q).state = "committed" /\ Latest(q).supersedes \in store}}

\* Bug: only records still pending are retried.
RetryableCleanupsOfPending(named) ==
    {Latest(r).supersedes : r \in {q \in Recorded :
        /\ Latest(q).state = "pending"
        /\ Latest(q).supersedes \in store \ {named}}}

\* Journal::reconcile: superseded secrets whose cleanup did not run.  An entry reported as
\* dangling does not come this far.
RetryableCleanups(named) ==
    {Latest(r).supersedes : r \in {q \in Recorded :
        /\ Latest(q).state = "committed"
        /\ q \in store \/ q # named
        /\ Latest(q).supersedes \in store \ {named}}}

-----------------------------------------------------------------------------
(* Binding: the six steps of the module's header. *)

Init ==
    /\ journal = <<>>
    /\ unended = FALSE
    /\ store = {}
    /\ profile = None
    /\ bind = "idle"
    /\ minted = 0
    /\ supersedes = None
    /\ cleaning = "idle"
    /\ referenced = None
    /\ cleanups = {}
    /\ crashes = 0 /\ torn = 0 /\ rollbacks = 0 /\ wentBack = FALSE

Record(r, old, s) == [ref |-> r, supersedes |-> old, state |-> s]

\* Steps 1 and 2: mint a reference and journal it as pending.
BindPending ==
    /\ bind = "idle"
    /\ OneProcess => cleaning = "idle"
    /\ minted < MaxRefs
    /\ minted' = minted + 1
    /\ supersedes' = profile
    /\ \/ AppendEntry(Record(minted', profile, "pending")) /\ bind' = "pending" /\ UNCHANGED torn
       \/ AppendTorn(Record(minted', profile, "pending")) /\ bind' = "idle"
    /\ UNCHANGED <<store, profile, cleaner, crashes, rollbacks, wentBack>>

\* Step 3: the secret goes to the store.
BindSecret ==
    /\ bind = "pending"
    /\ store' = store \cup {minted}
    /\ bind' = "secret"
    /\ UNCHANGED <<journal, unended, profile, minted, supersedes, cleaner, faults>>

\* Step 4: profiles.toml names the new reference.
BindProfile ==
    /\ bind = "secret"
    /\ profile' = minted
    /\ wentBack' = FALSE
    /\ bind' = "profile"
    /\ UNCHANGED <<journal, unended, store, minted, supersedes, cleaner, crashes, torn, rollbacks>>

\* Step 5: committed.  Step 6 is a reconciliation.
BindCommitted ==
    /\ bind = "profile"
    /\ \/ AppendEntry(Record(minted, supersedes, "committed")) /\ UNCHANGED torn
       \/ AppendTorn(Record(minted, supersedes, "committed"))
    /\ bind' = "idle"
    /\ UNCHANGED <<store, profile, minted, supersedes, cleaner, crashes, rollbacks, wentBack>>

\* The binding stops: it died, or a step failed.
BindDies ==
    /\ bind \in CrashPoints
    /\ crashes < MaxCrashes
    /\ crashes' = crashes + 1
    /\ bind' = "idle"
    /\ UNCHANGED <<journal, unended, store, profile, minted, supersedes, cleaner, torn,
                   rollbacks, wentBack>>

-----------------------------------------------------------------------------
(* Reconciliation, in any process and at any moment. *)

\* The caller reads what profiles.toml names.
ReadReferenced ==
    /\ cleaning = "idle"
    /\ OneProcess => bind = "idle"
    /\ cleaning' = "read"
    /\ referenced' = profile
    /\ wentBack' = FALSE
    /\ UNCHANGED <<journal, unended, store, profile, binding, cleanups, crashes, torn, rollbacks>>

\* Bug: only what the profile's present reference replaced is cleaned up.
ReconcileLastOnly ==
    /\ cleaning = "read"
    /\ IF Readable
         THEN /\ cleaning' = "cleaning"
              /\ cleanups' = {r \in RetryableCleanups(referenced) :
                                referenced \in Recorded /\ r = Latest(referenced).supersedes}
         ELSE cleaning' = "idle" /\ UNCHANGED cleanups
    /\ UNCHANGED <<journal, unended, store, profile, binding, referenced, faults>>

\* Journal::reconcile.  A journal it cannot read ends the reconciliation.
Reconcile ==
    /\ cleaning = "read"
    /\ IF Readable
         THEN cleaning' = "cleaning" /\ cleanups' = RetryableCleanups(referenced)
         ELSE cleaning' = "idle" /\ UNCHANGED cleanups
    /\ UNCHANGED <<journal, unended, store, profile, binding, referenced, faults>>

\* finish_cleanups goes through the cleanups in journal order, the order of minting.
NextCleanup == CHOOSE r \in cleanups : \A q \in cleanups : r <= q

\* Journal::finish_cleanups: delete one superseded secret; deleting none is success.
DeleteSuperseded ==
    /\ cleaning = "cleaning"
    /\ cleanups # {}
    /\ store' = store \ {NextCleanup}
    /\ cleaning' = "deleted"
    /\ UNCHANGED <<journal, unended, profile, binding, referenced, cleanups, faults>>

\* Journal::finish_cleanups: and record it, without a `supersedes' of its own.
RecordCleaned ==
    /\ cleaning = "deleted"
    /\ \/ /\ AppendEntry(Record(NextCleanup, None, "cleaned"))
          /\ cleanups' = cleanups \ {NextCleanup}
          /\ cleaning' = "cleaning"
          /\ UNCHANGED torn
       \/ /\ AppendTorn(Record(NextCleanup, None, "cleaned"))
          /\ cleanups' = {}
          /\ cleaning' = "idle"
    /\ UNCHANGED <<store, profile, binding, referenced, crashes, rollbacks, wentBack>>

\* Every cleanup is done, or the process dies between two of its steps.
CleanupEnds ==
    /\ \/ cleaning = "cleaning" /\ cleanups = {} /\ UNCHANGED crashes
       \/ cleaning # "idle" /\ crashes < MaxCrashes /\ crashes' = crashes + 1
    /\ cleaning' = "idle"
    /\ cleanups' = {}
    /\ UNCHANGED <<journal, unended, store, profile, binding, referenced, torn, rollbacks,
                   wentBack>>

\* Journal::truncate "once everything is reconciled": its caller has just reconciled, found
\* nothing to report or to clean up, and no binding is under way.
Truncate ==
    /\ cleaning = "idle" /\ bind = "idle"
    /\ journal # <<>>
    /\ Readable
    /\ OrphanedSecrets(profile) = {} /\ ~Dangling(profile) /\ RetryableCleanups(profile) = {}
    /\ journal' = <<>>
    /\ unended' = FALSE
    /\ UNCHANGED <<store, profile, binding, cleaner, faults>>

\* The user puts an older profiles.toml back, whatever is going on.
RollBack ==
    /\ rollbacks < MaxRollbacks
    /\ \E r \in 1..minted : r < profile /\ profile' = r
    /\ rollbacks' = rollbacks + 1
    /\ wentBack' = TRUE
    /\ UNCHANGED <<journal, unended, store, binding, cleaner, crashes, torn>>

Next ==
    \/ BindPending \/ BindSecret \/ BindProfile \/ BindCommitted \/ BindDies
    \/ ReadReferenced \/ Reconcile \/ DeleteSuperseded \/ RecordCleaned \/ CleanupEnds
    \/ Truncate \/ RollBack

Spec == Init /\ [][Next]_vars

\* A binding goes on or dies; reconciliation runs at every start and goes on or dies.
FairSpec ==
    /\ Spec
    /\ WF_vars(BindSecret \/ BindProfile \/ BindCommitted)
    /\ WF_vars(ReadReferenced \/ Reconcile \/ DeleteSuperseded \/ RecordCleaned \/ CleanupEnds)

-----------------------------------------------------------------------------

TypeOK ==
    /\ journal \in Seq(Entry \cup {Malformed})
    /\ unended \in BOOLEAN
    /\ unended => journal # <<>>
    /\ store \subseteq Refs
    /\ profile \in Refs \cup {None}
    /\ bind \in {"idle", "pending", "secret", "profile"}
    /\ minted \in 0..MaxRefs
    /\ bind # "idle" => minted \in Refs
    /\ supersedes \in Refs \cup {None}
    /\ cleaning \in {"idle", "read", "cleaning", "deleted"}
    /\ referenced \in Refs \cup {None}
    /\ cleanups \subseteq Refs
    /\ crashes \in 0..MaxCrashes /\ torn \in 0..MaxTorn /\ rollbacks \in 0..MaxRollbacks
    /\ wentBack \in BOOLEAN

\* "The profile no longer names it": a cleanup never deletes the secret the profile names,
\* whatever was bound, abandoned or cleaned up since the reconciliation read the profile, and
\* whatever older configuration was put back before it did.
LiveSecretIsKept ==
    [][profile' \in store /\ ~wentBack => profile' \in store']_vars

\* As above, with older configurations put back while the cleanup works through its list.  The
\* list is not checked again, and the secret in use may be on it: no run checks this.
LiveSecretAlwaysKept ==
    [][profile' \in store => profile' \in store']_vars

\* A secret that no profile names and no binding is installing is found by the next
\* reconciliation, as an orphan or as a cleanup to retry: nothing is left undiscovered.
StrayDiscovered ==
    bind = "idle" /\ Readable =>
        store \ {profile} \subseteq OrphanedSecrets(profile) \cup RetryableCleanups(profile)

\* "Profiles referencing a secret that does not exist ... must be shown as credential
\* missing": reconciliation reports a profile whose secret is not in the store.
MissingIsReported ==
    bind = "idle" /\ Readable /\ profile # None /\ profile \notin store => Dangling(profile)

\* "Every step is idempotent, so replay after a crash is safe": no crash leaves a journal
\* that reconciliation cannot read.
AlwaysReplayable == Readable

\* A superseded secret is deleted in the end, through crashes between its deletion and the
\* record of it, unless the profile names it again.
SupersededIsDeleted ==
    \A r \in Refs :
        r \in RetryableCleanups(profile) ~> r \notin store \/ r = profile \/ ~Readable
=============================================================================
