----------------------------- MODULE SharedFile -----------------------------
(***************************************************************************)
(* pr-profiles/src/shared.rs: a versioned file that several processes edit *)
(* through an advisory lock, a version check and an atomic replace.        *)
(*                                                                         *)
(* A writer is one caller of the library; the writers of one process share *)
(* its pid, and with it the names of its temporary and conflict files.  A  *)
(* body is the set of the edits that made it, an edit a number given out   *)
(* by the call that makes it.  `durable' is what the disk may hold after a *)
(* power cut; `file' is what a read sees.                                  *)
(***************************************************************************)
EXTENDS Naturals

CONSTANTS
    Writers,        \* callers of SharedFile
    Pids,           \* operating-system processes
    PidOf,          \* the process each writer runs in
    NoOne,          \* the lock file is not locked
    DirSyncWorks,   \* opening and syncing a directory works on this platform
    MaxEdits,       \* bound: calls that write
    MaxCrashes,     \* bound: processes killed
    MaxCuts,        \* bound: power cuts
    MaxForeign      \* bound: writes by a program that ignores the lock

ASSUME ConstantsAssumption ==
    /\ PidOf \in [Writers -> Pids]
    /\ NoOne \notin Writers
    /\ DirSyncWorks \in BOOLEAN
    /\ MaxEdits \in Nat /\ MaxCrashes \in Nat /\ MaxCuts \in Nat /\ MaxForeign \in Nat

VARIABLES
    file,       \* what the path holds now
    durable,    \* the contents a power cut may leave there
    lock,       \* the writer that holds the lock file, or NoOne
    tmp,        \* per process: its temporary file and whether it is synced
    conflicts,  \* the files of conflicts/
    pc,         \* per writer: where its call stands
    snap,       \* per writer: the version and body its next write is based on
    found,      \* per writer: the version its check met
    edit,       \* per writer: the edit its call is making
    nextEdit,   \* the number of the next edit
    outcome,    \* per edit: what its caller was told
    crashes, cuts, foreign

disk == <<file, durable, tmp, conflicts>>
calls == <<pc, snap, found, edit>>
faults == <<crashes, cuts, foreign>>
vars == <<disk, lock, calls, nextEdit, outcome, faults>>

Edits == 1..MaxEdits

Content == [hdr : BOOLEAN, ver : Nat, body : SUBSET Edits]

\* A file that does not exist reads as version 0 with an empty body.
Missing == [hdr |-> TRUE, ver |-> 0, body |-> {}]

\* A file without a version line: what `parse' answers None for.
Torn == [hdr |-> FALSE, ver |-> 0, body |-> {}]

\* What writer w's edit makes of the body it is based on, one version up.
Edited(w) ==
    [hdr |-> TRUE, ver |-> snap[w].ver + 1, body |-> snap[w].body \cup {edit[w]}]

Locking == {"lock_update", "lock_write"}
Critical == {"read_before", "read_after", "check", "conflict",
             "create", "sync", "rename", "dirsync"}

-----------------------------------------------------------------------------

Init ==
    /\ file = Missing
    /\ durable = {Missing}
    /\ lock = NoOne
    /\ tmp = [i \in Pids |-> [c |-> Torn, synced |-> FALSE]]
    /\ conflicts = {}
    /\ pc = [w \in Writers |-> "idle"]
    /\ snap = [w \in Writers |-> Torn]
    /\ found = [w \in Writers |-> 0]
    /\ edit = [w \in Writers |-> 0]
    /\ nextEdit = 1
    /\ outcome = [e \in Edits |-> "open"]
    /\ crashes = 0 /\ cuts = 0 /\ foreign = 0

Goto(w, l) == pc' = [pc EXCEPT ![w] = l]

\* A call starts: it is about to ask for the lock.
StartCall(w, l) ==
    /\ pc[w] = "idle"
    /\ nextEdit <= MaxEdits
    /\ Goto(w, l)
    /\ edit' = [edit EXCEPT ![w] = nextEdit]
    /\ nextEdit' = nextEdit + 1
    /\ UNCHANGED <<disk, lock, snap, found, outcome, faults>>

\* Bug: only the successful path drops the lock.
ReturnKeepingLock(w, told) ==
    /\ Goto(w, "idle")
    /\ lock' = IF lock = w /\ told = "ok" THEN NoOne ELSE lock
    /\ outcome' = [outcome EXCEPT ![edit[w]] = told]
    /\ UNCHANGED <<found, edit, nextEdit, faults>>

\* A call returns: the lock file is closed, which releases it.
Return(w, told) ==
    /\ Goto(w, "idle")
    /\ lock' = IF lock = w THEN NoOne ELSE lock
    /\ outcome' = [outcome EXCEPT ![edit[w]] = told]
    /\ UNCHANGED <<found, edit, nextEdit, faults>>

\* SharedFile::read on its own, without the lock: the caller keeps what it read.
Read(w) ==
    /\ pc[w] = "idle"
    /\ file.hdr
    /\ snap' = [snap EXCEPT ![w] = file]
    /\ UNCHANGED <<disk, lock, pc, found, edit, nextEdit, outcome, faults>>

\* SharedFile::update is called with an edit.
UpdateCall(w) == StartCall(w, "lock_update")

\* SharedFile::write_if_unchanged is called with the version read earlier.
WriteCall(w) == snap[w].hdr /\ StartCall(w, "lock_write")

\* Bug: the lock is on the data file, an inode the last rename replaced.
LockOnDataFile(w) ==
    /\ pc[w] \in Locking
    /\ lock' = w
    /\ Goto(w, IF pc[w] = "lock_update" THEN "read_before" ELSE "check")
    /\ UNCHANGED <<disk, snap, found, edit, nextEdit, outcome, faults>>

\* lock.lock(): blocks until the lock file is free.
Lock(w) ==
    /\ pc[w] \in Locking
    /\ lock = NoOne
    /\ lock' = w
    /\ Goto(w, IF pc[w] = "lock_update" THEN "read_before" ELSE "check")
    /\ UNCHANGED <<disk, snap, found, edit, nextEdit, outcome, faults>>

\* update: the first read, which the edit is applied to.
ReadBefore(w) ==
    /\ pc[w] = "read_before"
    /\ file.hdr
    /\ snap' = [snap EXCEPT ![w] = file]
    /\ Goto(w, "read_after")
    /\ UNCHANGED <<disk, lock, found, edit, nextEdit, outcome, faults>>

\* Bug: the version is read and not compared.
VersionCheckDropped(w) ==
    /\ pc[w] \in {"read_after", "check"}
    /\ file.hdr
    /\ found' = [found EXCEPT ![w] = file.ver]
    /\ Goto(w, "create")
    /\ UNCHANGED <<disk, lock, snap, edit, nextEdit, outcome, faults>>

\* update's second read and write_if_unchanged's only one: has the version moved?
VersionCheck(w) ==
    /\ pc[w] \in {"read_after", "check"}
    /\ file.hdr
    /\ found' = [found EXCEPT ![w] = file.ver]
    /\ Goto(w, IF file.ver = snap[w].ver THEN "create" ELSE "conflict")
    /\ UNCHANGED <<disk, lock, snap, edit, nextEdit, outcome, faults>>

\* A read under the lock that finds no version line: the call fails.
NoVersion(w) ==
    /\ pc[w] \in {"read_before", "read_after", "check"}
    /\ ~file.hdr
    /\ Return(w, "error")
    /\ UNCHANGED <<disk, snap>>

\* The name of a conflict file: both versions and the process id.
ConflictName(w) == <<snap[w].ver, found[w], PidOf[w]>>

\* write_conflict, then Err(Conflict): File::create truncates a file of that name.
WriteConflict(w) ==
    /\ pc[w] = "conflict"
    /\ conflicts' = {c \in conflicts : c.name # ConflictName(w)}
                      \cup {[name |-> ConflictName(w), edit |-> edit[w]]}
    /\ Return(w, "conflict")
    /\ UNCHANGED <<file, durable, tmp, snap>>

\* write_atomically: create and fill the process's temporary file.
CreateTmp(w) ==
    /\ pc[w] = "create"
    /\ tmp' = [tmp EXCEPT ![PidOf[w]] = [c |-> Edited(w), synced |-> FALSE]]
    /\ Goto(w, "sync")
    /\ UNCHANGED <<file, durable, conflicts, lock, snap, found, edit, nextEdit,
                   outcome, faults>>

\* write_atomically: f.sync_all().
SyncTmp(w) ==
    /\ pc[w] = "sync"
    /\ tmp' = [tmp EXCEPT ![PidOf[w]].synced = TRUE]
    /\ Goto(w, "rename")
    /\ UNCHANGED <<file, durable, conflicts, lock, snap, found, edit, nextEdit,
                   outcome, faults>>

\* write_atomically: the rename.  An unsynced file may lose its bytes in a power cut.
Rename(w) ==
    LET t == tmp[PidOf[w]] IN
    /\ pc[w] = "rename"
    /\ file' = t.c
    /\ durable' = durable \cup {t.c} \cup (IF t.synced THEN {} ELSE {Torn})
    /\ snap' = [snap EXCEPT ![w] = Edited(w)]
    /\ Goto(w, "dirsync")
    /\ UNCHANGED <<tmp, conflicts, lock, found, edit, nextEdit, outcome, faults>>

\* write_atomically syncs the directory, ignoring any failure; the lock drops; Ok(next).
DirSync(w) ==
    /\ pc[w] = "dirsync"
    /\ \/ durable' = {file}
       \/ ~DirSyncWorks /\ UNCHANGED durable
    /\ Return(w, "ok")
    /\ UNCHANGED <<file, tmp, conflicts, snap>>

\* Any other file-system call of the protocol fails, and `?' leaves the call.
IoFail(w) ==
    /\ pc[w] \in (Locking \cup Critical) \ {"dirsync"}
    /\ Return(w, "error")
    /\ snap' = [snap EXCEPT ![w] = Torn]
    /\ UNCHANGED disk

-----------------------------------------------------------------------------

\* Writers of a set W stop where they are, without an answer.
Stop(W) ==
    /\ pc' = [w \in Writers |-> IF w \in W THEN "idle" ELSE pc[w]]
    /\ snap' = [w \in Writers |-> IF w \in W THEN Torn ELSE snap[w]]
    /\ outcome' = [e \in Edits |->
                     IF \E w \in W : pc[w] # "idle" /\ edit[w] = e
                       THEN "unknown" ELSE outcome[e]]
    /\ lock' = IF lock \in W THEN NoOne ELSE lock
    /\ UNCHANGED <<found, edit, nextEdit, foreign>>

\* A process dies: the operating system closes its lock file; the disk is as it was.
Crash(i) ==
    /\ crashes < MaxCrashes
    /\ crashes' = crashes + 1
    /\ Stop({w \in Writers : PidOf[w] = i})
    /\ UNCHANGED <<disk, cuts>>

\* The machine stops and comes back with one of the contents the disk may hold.
\* Nothing syncs conflicts/ itself, so any of the names in it may be gone.
PowerCut ==
    /\ cuts < MaxCuts
    /\ cuts' = cuts + 1
    /\ Stop(Writers)
    /\ file' \in durable
    /\ durable' = {file'}
    /\ conflicts' \in SUBSET conflicts
    /\ UNCHANGED <<tmp, crashes>>

\* `cat > file': a program that does not take the lock writes in place, with the
\* version line kept, moved or lost.
ForeignWrite ==
    /\ foreign < MaxForeign
    /\ foreign' = foreign + 1
    /\ file' \in {Torn} \cup {[hdr |-> TRUE, ver |-> v, body |-> {}] :
                                 v \in {file.ver, file.ver + 1}}
    /\ durable' = durable \cup {file', Torn}
    /\ UNCHANGED <<tmp, conflicts, lock, calls, nextEdit, outcome, crashes, cuts>>

-----------------------------------------------------------------------------

\* What a call does once it is made, until it returns.
Progress(w) ==
    \/ Lock(w) \/ ReadBefore(w) \/ VersionCheck(w) \/ NoVersion(w) \/ WriteConflict(w)
    \/ CreateTmp(w) \/ SyncTmp(w) \/ Rename(w) \/ DirSync(w)

Step(w) == Progress(w) \/ IoFail(w)

Next ==
    \/ \E w \in Writers : Read(w) \/ UpdateCall(w) \/ WriteCall(w) \/ Step(w)
    \/ \E i \in Pids : Crash(i)
    \/ PowerCut
    \/ ForeignWrite

Spec == Init /\ [][Next]_vars

\* Every call that has been made is executed; nobody has to make one, and no file-system
\* call has to fail.
FairSpec == Spec /\ \A w \in Writers : WF_vars(Progress(w))

-----------------------------------------------------------------------------

TypeOK ==
    /\ file \in Content
    /\ durable \in SUBSET Content
    /\ lock \in Writers \cup {NoOne}
    /\ tmp \in [Pids -> [c : Content, synced : BOOLEAN]]
    /\ conflicts \in SUBSET [name : Nat \X Nat \X Pids, edit : Edits]
    /\ pc \in [Writers -> {"idle"} \cup Locking \cup Critical]
    /\ snap \in [Writers -> Content]
    /\ found \in [Writers -> Nat]
    /\ edit \in [Writers -> Edits \cup {0}]
    /\ \A w \in Writers : pc[w] # "idle" => edit[w] \in Edits
    /\ nextEdit \in 1..(MaxEdits + 1)
    /\ outcome \in [Edits -> {"open", "ok", "conflict", "error", "unknown"}]
    /\ crashes \in Nat /\ cuts \in Nat /\ foreign \in Nat

Acked == {e \in Edits : outcome[e] = "ok"}
Refused == {e \in Edits : outcome[e] \in {"conflict", "error"}}

\* LIFE-03, "no lost update": every edit whose caller was told Ok is in the file, however
\* the writers, the stale snapshots, the crashes and (where directories can be synced) the
\* power cuts interleave, as long as nobody writes past the lock.
NoLostUpdate ==
    foreign = 0 /\ (DirSyncWorks \/ cuts = 0) => Acked \subseteq file.body

\* "A crash leaves either the old file or the new one, never half of either": neither the
\* file nor anything a power cut may leave in its place lacks its version line.
NeverHalf ==
    foreign = 0 => file.hdr /\ \A d \in durable : d.hdr

\* An edit whose caller was told Ok survives a power cut at any later moment.
AckedIsDurable ==
    foreign = 0 /\ DirSyncWorks => \A d \in durable : Acked \subseteq d.body

\* Err means not written: an edit refused with a conflict or an error is not in the file
\* and no power cut can bring it there, so a caller may safely make it again.
ErrMeansUnwritten ==
    /\ Refused \cap file.body = {}
    /\ \A d \in durable : Refused \cap d.body = {}

\* No ABA: a snapshot that carries the file's version carries the file's body too, which is
\* why comparing versions is enough to notice that the file moved.
VersionNamesBody ==
    foreign = 0 =>
        \A w \in Writers : snap[w].hdr /\ snap[w].ver = file.ver => snap[w] = file

\* "The edit was not discarded: it is in {conflict}": every edit refused with a conflict is
\* in a file of conflicts/ (while no power cut has emptied the directory).
RejectedEditIsKept ==
    cuts = 0 =>
        \A e \in Edits : outcome[e] = "conflict" => \E c \in conflicts : c.edit = e

\* The file is an atomic register: each call that writes takes effect at its rename.
Register == INSTANCE VersionedRegister
              WITH ver <- file.ver, body <- file.body, acked <- Acked
ImplementsRegister == Register!Spec

\* No call waits for ever: a crashed writer's lock is released, and no path keeps the lock.
EveryCallReturns ==
    \A w \in Writers : pc[w] # "idle" ~> pc[w] = "idle"
=============================================================================
