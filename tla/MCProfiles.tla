----------------------------- MODULE MCProfiles -----------------------------
(***************************************************************************)
(* The files of a profile when things go wrong: the journal of its         *)
(* credential, with the process that binds alone or beside another that    *)
(* reconciles, and the shared file under crashes, power cuts and a writer  *)
(* that ignores its lock.  They share no state: `subject' is the one a     *)
(* behaviour is about.                                                     *)
(***************************************************************************)
EXTENDS CredentialJournal, TLC

VARIABLE subject

\* The journal with a second process, torn appends and older configurations.
Beside == INSTANCE CredentialJournal WITH
    OneProcess <- FALSE, MaxRefs <- 3, CrashPoints <- {"pending", "secret", "profile"},
    MaxTorn <- 1, MaxRollbacks <- 2

CONSTANTS w1, w2, proc1, NoOne, MaxEdits, MaxFileCrashes, MaxCuts, MaxForeign
VARIABLES file, durable, lock, tmp, conflicts, pc, snap, found, edit, nextEdit, outcome,
          fileCrashes, cuts, foreign

\* Two writers in one process, on a file system that does not sync directories.
Writers == {w1, w2}
F == INSTANCE SharedFile WITH
    Pids <- {proc1}, PidOf <- (w1 :> proc1) @@ (w2 :> proc1), DirSyncWorks <- FALSE,
    MaxCrashes <- MaxFileCrashes, crashes <- fileCrashes

fileVars == <<file, durable, lock, tmp, conflicts, pc, snap, found, edit, nextEdit, outcome,
              fileCrashes, cuts, foreign>>
all == <<subject, vars, fileVars>>

\* A step of each.
OfJournal(A) == subject = "journal" /\ A /\ UNCHANGED <<subject, fileVars>>
OfShared(A) == subject = "journal beside another" /\ A /\ UNCHANGED <<subject, fileVars>>
OfFile(A) == subject = "file" /\ A /\ UNCHANGED <<subject, vars>>

ProfilesNext == OfJournal(Next) \/ OfShared(Beside!Next) \/ OfFile(F!Next)

ProfilesInit ==
    /\ subject \in {"journal", "journal beside another", "file"}
    /\ Init /\ F!Init

ProfilesSpec ==
    /\ ProfilesInit
    /\ [][ProfilesNext]_all
    /\ WF_all(OfJournal(BindSecret \/ BindProfile \/ BindCommitted))
    /\ WF_all(OfJournal(ReadReferenced \/ Reconcile \/ DeleteSuperseded \/ RecordCleaned
                        \/ CleanupEnds))
    /\ \A w \in Writers : WF_all(OfFile(F!Progress(w)))

-----------------------------------------------------------------------------

\* No secret is stranded by a binding that died: see CredentialJournal.  (Of the process alone:
\* another one may be between its steps.)
NoStraySecret == subject = "journal" => StrayDiscovered

\* A superseded secret is deleted in the end: see CredentialJournal.
CleanupCompletes == subject = "journal" => SupersededIsDeleted

\* A call returns, whatever the others do: see SharedFile.
EveryCallReturns == subject = "file" => F!EveryCallReturns
=============================================================================
