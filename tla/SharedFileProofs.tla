-------------------------- MODULE SharedFileProofs --------------------------
(***************************************************************************)
(* Proofs about SharedFile, for every set of writers and processes and     *)
(* every bound.                                                            *)
(***************************************************************************)
EXTENDS SharedFile, TLAPS

\* A writer is in the protected part of its call exactly while it holds the lock.
Mutex ==
    \A w \in Writers : pc[w] \in Critical <=> lock = w

\* The process's temporary file is that of its writer that holds the lock.
TmpIsOurs ==
    \A w \in Writers :
        /\ pc[w] \in {"sync", "rename"} => tmp[PidOf[w]].c = Edited(w)
        /\ pc[w] = "rename" => tmp[PidOf[w]].synced

\* Snapshots are never newer than the file; the lock holder's is current once checked.
SnapshotsAreOld ==
    \A w \in Writers :
        /\ pc[w] \in {"lock_write", "check"} => snap[w].hdr
        /\ foreign = 0 /\ snap[w].hdr =>
             /\ snap[w].ver <= file.ver
             /\ snap[w].ver = file.ver => snap[w] = file
        /\ foreign = 0 /\ pc[w] \in {"read_after", "create", "sync", "rename", "dirsync"}
             => snap[w] = file
        /\ pc[w] = "dirsync" => edit[w] \in snap[w].body

\* Where an edit can be read from.
Nowhere(e) ==
    /\ e \notin file.body
    /\ \A d \in durable : e \notin d.body
    /\ \A w \in Writers : e \notin snap[w].body

\* An edit not written yet is nowhere, belongs to one call and is unanswered; a refused
\* edit stays nowhere.
EditsAreFresh ==
    /\ \A e \in Edits : e >= nextEdit => outcome[e] = "open" /\ Nowhere(e)
    /\ \A w \in Writers :
         /\ edit[w] < nextEdit
         /\ pc[w] # "idle" => outcome[edit[w]] = "open"
         /\ pc[w] \notin {"idle", "dirsync"} => Nowhere(edit[w])
    /\ \A w, u \in Writers :
         pc[w] # "idle" /\ pc[u] # "idle" /\ edit[w] = edit[u] => w = u
    /\ \A e \in Refused : Nowhere(e)

\* Everything the disk may come back with is whole and an ancestor of the file.
DiskIsWhole ==
    foreign = 0 =>
        /\ file \in durable
        /\ \A d \in durable : d.hdr /\ d.ver <= file.ver /\ d.body \subseteq file.body

\* Acknowledged edits are in everything they have to be in.
AckedIsKept ==
    foreign = 0 =>
        /\ DirSyncWorks => \A d \in durable : Acked \subseteq d.body
        /\ cuts = 0 => Acked \subseteq file.body

IInv ==
    /\ Mutex /\ TmpIsOurs /\ SnapshotsAreOld
    /\ EditsAreFresh /\ DiskIsWhole /\ AckedIsKept

-----------------------------------------------------------------------------

\* A missing and a headerless file are contents.
LEMMA ContentFacts ==
    /\ Missing \in Content
    /\ Torn \in Content
BY DEF Missing, Torn, Content

\* An edit of a snapshot is a content.
LEMMA EditedType ==
    ASSUME TypeOK, NEW w \in Writers, pc[w] # "idle"
    PROVE  Edited(w) \in Content
BY DEF TypeOK, Edited, Content, Edits

\* Types hold initially.
LEMMA TypeInit == Init => TypeOK
<1> SUFFICES ASSUME Init PROVE TypeOK
  OBVIOUS
<1>1. 1 \in 1..(MaxEdits + 1)
  BY ConstantsAssumption
<1> QED
  BY <1>1, ConstantsAssumption, ContentFacts DEF Init, TypeOK, Edits

\* Every step keeps the types.
LEMMA TypeStep == TypeOK /\ [Next]_vars => TypeOK'
<1> SUFFICES ASSUME TypeOK, [Next]_vars PROVE TypeOK'
  OBVIOUS
<1> USE ConstantsAssumption
<1>1. ASSUME NEW w \in Writers, Read(w) PROVE TypeOK'
  BY <1>1 DEF TypeOK, Read, disk, faults
<1>2. ASSUME NEW w \in Writers, NEW l \in Locking, StartCall(w, l) PROVE TypeOK'
  <2>1. nextEdit \in Edits /\ nextEdit' \in 1..(MaxEdits + 1)
    BY <1>2 DEF StartCall, TypeOK, Edits
  <2>2. pc' \in [Writers -> {"idle"} \cup Locking \cup Critical]
    BY <1>2 DEF TypeOK, StartCall, Goto
  <2>3. \A u \in Writers : pc'[u] # "idle" => edit'[u] \in Edits
    BY <1>2, <2>1 DEF TypeOK, StartCall, Goto
  <2> QED
    BY <1>2, <2>1, <2>2, <2>3 DEF TypeOK, StartCall, disk, faults
<1>3. ASSUME NEW w \in Writers, Step(w) PROVE TypeOK'
  <2>1. CASE Lock(w)
    BY <2>1 DEF TypeOK, Lock, Goto, disk, faults, Locking, Critical
  <2>2. CASE ReadBefore(w)
    BY <2>2 DEF TypeOK, ReadBefore, Goto, disk, faults, Critical
  <2>3. CASE VersionCheck(w)
    <3>1. file.ver \in Nat
      BY DEF TypeOK, Content
    <3> QED
      BY <2>3, <3>1 DEF TypeOK, VersionCheck, Goto, disk, faults, Critical
  <2>4. CASE NoVersion(w)
    BY <2>4 DEF TypeOK, NoVersion, Return, Goto, disk, faults, Critical
  <2>5. CASE WriteConflict(w)
    <3>1. [name |-> ConflictName(w), edit |-> edit[w]] \in [name : Nat \X Nat \X Pids, edit : Edits]
      BY <2>5 DEF TypeOK, WriteConflict, ConflictName, Content
    <3> QED
      BY <2>5, <3>1 DEF TypeOK, WriteConflict, Return, Goto, faults, Critical
  <2>6. CASE CreateTmp(w)
    <3>1. Edited(w) \in Content
      BY <2>6, EditedType DEF CreateTmp
    <3> QED
      BY <2>6, <3>1 DEF TypeOK, CreateTmp, Goto, faults, Critical
  <2>7. CASE SyncTmp(w)
    BY <2>7 DEF TypeOK, SyncTmp, Goto, faults, Critical
  <2>8. CASE Rename(w)
    <3>1. Edited(w) \in Content
      BY <2>8, EditedType DEF Rename
    <3>2. tmp[PidOf[w]].c \in Content
      BY DEF TypeOK
    <3> QED
      BY <2>8, <3>1, <3>2, ContentFacts DEF TypeOK, Rename, Goto, faults, Critical
  <2>9. CASE DirSync(w)
    BY <2>9 DEF TypeOK, DirSync, Return, Goto, faults, Critical
  <2>10. CASE IoFail(w)
    BY <2>10, ContentFacts DEF TypeOK, IoFail, Return, Goto, disk, faults
  <2> QED
    BY <1>3, <2>1, <2>2, <2>3, <2>4, <2>5, <2>6, <2>7, <2>8, <2>9, <2>10 DEF Step, Progress
<1>4. ASSUME NEW i \in Pids, Crash(i) PROVE TypeOK'
  BY <1>4, ContentFacts DEF TypeOK, Crash, Stop, disk
<1>5. ASSUME PowerCut PROVE TypeOK'
  BY <1>5, ContentFacts DEF TypeOK, PowerCut, Stop
<1>6. ASSUME ForeignWrite PROVE TypeOK'
  <2>1. file.ver \in Nat
    BY DEF TypeOK, Content
  <2>2. \A v \in Nat : [hdr |-> TRUE, ver |-> v, body |-> {}] \in Content
    BY DEF Content
  <2>3. file' \in Content
    BY <1>6, <2>1, <2>2, ContentFacts DEF ForeignWrite
  <2> QED
    BY <1>6, <2>3, ContentFacts DEF TypeOK, ForeignWrite, calls
<1>7. CASE UNCHANGED vars
  BY <1>7 DEF TypeOK, vars, disk, calls, faults
<1> QED
  BY <1>1, <1>2, <1>3, <1>4, <1>5, <1>6, <1>7 DEF Next, UpdateCall, WriteCall, Locking

\* Every variable of the shared-file protocol keeps its type, for any writers, processes
\* and bounds.
THEOREM TypeCorrect == Spec => []TypeOK
BY TypeInit, TypeStep, PTL DEF Spec

\* What the rename does, given that the temporary file is the renaming writer's.
LEMMA RenameFacts ==
    ASSUME TypeOK, TmpIsOurs, NEW w \in Writers, Rename(w)
    PROVE  /\ file' = Edited(w)
           /\ durable' = durable \cup {Edited(w)}
           /\ Edited(w).hdr
           /\ Edited(w).ver = snap[w].ver + 1
           /\ Edited(w).body = snap[w].body \cup {edit[w]}
BY DEF Rename, TmpIsOurs, Edited

\* Only the lock holder is in the protected part, after any step.
LEMMA MutexStep ==
    ASSUME TypeOK, TypeOK', IInv, [Next]_vars
    PROVE  Mutex'
<1> USE ConstantsAssumption
<1>1. ASSUME NEW w \in Writers, Read(w) PROVE Mutex'
  BY <1>1 DEF TypeOK, IInv, Read, disk, faults, Mutex, Locking, Critical
<1>2. ASSUME NEW w \in Writers, NEW l \in Locking,
             (l = "lock_write" => snap[w].hdr), StartCall(w, l)
      PROVE Mutex'
  BY <1>2 DEF TypeOK, IInv, StartCall, Goto, disk, faults, Mutex, Locking, Critical
<1>3. ASSUME NEW w \in Writers, Lock(w) PROVE Mutex'
  BY <1>3 DEF TypeOK, IInv, Lock, Goto, disk, faults, Mutex, Locking, Critical
<1>4. ASSUME NEW w \in Writers, ReadBefore(w) PROVE Mutex'
  BY <1>4 DEF TypeOK, IInv, ReadBefore, Goto, disk, faults, Mutex, Locking, Critical
<1>5. ASSUME NEW w \in Writers, VersionCheck(w) PROVE Mutex'
  BY <1>5 DEF TypeOK, IInv, VersionCheck, Goto, disk, faults, Mutex, Locking, Critical
<1>6. ASSUME NEW w \in Writers, NoVersion(w) PROVE Mutex'
  BY <1>6 DEF TypeOK, IInv, NoVersion, Goto, Return, disk, faults, Mutex, Locking, Critical
<1>7. ASSUME NEW w \in Writers, WriteConflict(w) PROVE Mutex'
  BY <1>7 DEF TypeOK, IInv, WriteConflict, Goto, Return, disk, faults, Mutex, Locking, Critical
<1>8. ASSUME NEW w \in Writers, CreateTmp(w) PROVE Mutex'
  BY <1>8 DEF TypeOK, IInv, CreateTmp, Goto, disk, faults, Mutex, Locking, Critical
<1>9. ASSUME NEW w \in Writers, SyncTmp(w) PROVE Mutex'
  BY <1>9 DEF TypeOK, IInv, SyncTmp, Goto, disk, faults, Mutex, Locking, Critical
<1>10. ASSUME NEW w \in Writers, Rename(w) PROVE Mutex'
  BY <1>10 DEF TypeOK, IInv, Rename, Goto, disk, faults, Mutex, Locking, Critical
<1>11. ASSUME NEW w \in Writers, DirSync(w) PROVE Mutex'
  BY <1>11 DEF TypeOK, IInv, DirSync, Goto, Return, disk, faults, Mutex, Locking, Critical
<1>12. ASSUME NEW w \in Writers, IoFail(w) PROVE Mutex'
  BY <1>12 DEF TypeOK, IInv, IoFail, Goto, Return, disk, faults, Mutex, Locking, Critical
<1>13. ASSUME NEW i \in Pids, Crash(i) PROVE Mutex'
  BY <1>13 DEF TypeOK, IInv, Crash, Stop, disk, Mutex, Locking, Critical
<1>14. ASSUME PowerCut PROVE Mutex'
  BY <1>14 DEF TypeOK, IInv, PowerCut, Stop, Mutex, Locking, Critical
<1>15. ASSUME ForeignWrite PROVE Mutex'
  BY <1>15 DEF TypeOK, IInv, ForeignWrite, calls, Mutex, Locking, Critical
<1>16. CASE UNCHANGED vars
  BY <1>16 DEF IInv, vars, disk, calls, faults, Mutex, Locking, Critical
<1> QED
  BY <1>1, <1>2, <1>3, <1>4, <1>5, <1>6, <1>7, <1>8, <1>9, <1>10, <1>11, <1>12, <1>13,
     <1>14, <1>15, <1>16
     DEF Next, Step, Progress, UpdateCall, WriteCall, Locking

\* Nobody else writes the temporary file of the writer that holds the lock.
LEMMA TmpStep ==
    ASSUME TypeOK, TypeOK', IInv, [Next]_vars
    PROVE  TmpIsOurs'
<1> USE ConstantsAssumption
<1>1. ASSUME NEW w \in Writers, Read(w) PROVE TmpIsOurs'
  BY <1>1, ZenonT(60) DEF TypeOK, IInv, Read, disk, faults, Mutex, TmpIsOurs, Edited, Critical,
     Locking, Content
<1>2. ASSUME NEW w \in Writers, NEW l \in Locking,
             (l = "lock_write" => snap[w].hdr), StartCall(w, l)
      PROVE TmpIsOurs'
  BY <1>2, ZenonT(60) DEF TypeOK, IInv, StartCall, Goto, disk, faults, Mutex, TmpIsOurs, Edited,
     Critical, Locking, Content
<1>3. ASSUME NEW w \in Writers, Lock(w) PROVE TmpIsOurs'
  BY <1>3 DEF TypeOK, IInv, Lock, Goto, disk, faults, Mutex, TmpIsOurs, Edited, Critical,
     Locking, Content
<1>4. ASSUME NEW w \in Writers, ReadBefore(w) PROVE TmpIsOurs'
  BY <1>4 DEF TypeOK, IInv, ReadBefore, Goto, disk, faults, Mutex, TmpIsOurs, Edited,
     Critical, Locking, Content
<1>5. ASSUME NEW w \in Writers, VersionCheck(w) PROVE TmpIsOurs'
  BY <1>5 DEF TypeOK, IInv, VersionCheck, Goto, disk, faults, Mutex, TmpIsOurs, Edited,
     Critical, Locking, Content
<1>6. ASSUME NEW w \in Writers, NoVersion(w) PROVE TmpIsOurs'
  BY <1>6 DEF TypeOK, IInv, NoVersion, Goto, Return, disk, faults, Mutex, TmpIsOurs, Edited,
     Critical, Locking, Content
<1>7. ASSUME NEW w \in Writers, WriteConflict(w) PROVE TmpIsOurs'
  BY <1>7 DEF TypeOK, IInv, WriteConflict, Goto, Return, disk, faults, Mutex, TmpIsOurs,
     Edited, Critical, Locking, Content
<1>8. ASSUME NEW w \in Writers, CreateTmp(w) PROVE TmpIsOurs'
  <2>1. \A u \in Writers : pc'[u] \in Critical => u = w
    BY <1>8 DEF IInv, Mutex, TypeOK, CreateTmp, Goto, Critical
  <2>2. tmp'[PidOf[w]].c = Edited(w) /\ pc'[w] = "sync"
    BY <1>8 DEF TypeOK, CreateTmp, Goto
  <2>3. Edited(w)' = Edited(w)
    BY <1>8 DEF CreateTmp, Edited
  <2> QED
    BY <2>1, <2>2, <2>3 DEF TmpIsOurs, Critical
<1>9. ASSUME NEW w \in Writers, SyncTmp(w) PROVE TmpIsOurs'
  BY <1>9 DEF TypeOK, IInv, SyncTmp, Goto, disk, faults, Mutex, TmpIsOurs, Edited, Critical,
     Locking, Content
<1>10. ASSUME NEW w \in Writers, Rename(w) PROVE TmpIsOurs'
  BY <1>10 DEF TypeOK, IInv, Rename, Goto, disk, faults, Mutex, TmpIsOurs, Edited, Critical,
     Locking, Content
<1>11. ASSUME NEW w \in Writers, DirSync(w) PROVE TmpIsOurs'
  BY <1>11 DEF TypeOK, IInv, DirSync, Goto, Return, disk, faults, Mutex, TmpIsOurs, Edited,
     Critical, Locking, Content
<1>12. ASSUME NEW w \in Writers, IoFail(w) PROVE TmpIsOurs'
  BY <1>12 DEF TypeOK, IInv, IoFail, Goto, Return, disk, faults, Mutex, TmpIsOurs, Edited,
     Critical, Locking, Content
<1>13. ASSUME NEW i \in Pids, Crash(i) PROVE TmpIsOurs'
  BY <1>13 DEF TypeOK, IInv, Crash, Stop, disk, Mutex, TmpIsOurs, Edited, Critical, Locking,
     Content
<1>14. ASSUME PowerCut PROVE TmpIsOurs'
  BY <1>14 DEF TypeOK, IInv, PowerCut, Stop, Mutex, TmpIsOurs, Edited, Critical, Locking, Content
<1>15. ASSUME ForeignWrite PROVE TmpIsOurs'
  BY <1>15 DEF TypeOK, IInv, ForeignWrite, calls, Mutex, TmpIsOurs, Edited, Critical,
     Locking, Content
<1>16. CASE UNCHANGED vars
  BY <1>16 DEF IInv, vars, disk, calls, faults, Mutex, TmpIsOurs, Edited, Critical, Locking,
     Content
<1> QED
  BY <1>1, <1>2, <1>3, <1>4, <1>5, <1>6, <1>7, <1>8, <1>9, <1>10, <1>11, <1>12, <1>13,
     <1>14, <1>15, <1>16
     DEF Next, Step, Progress, UpdateCall, WriteCall, Locking

\* A write raises the version past every snapshot, so no stale one can pass for current.
LEMMA SnapStep ==
    ASSUME TypeOK, TypeOK', IInv, [Next]_vars
    PROVE  SnapshotsAreOld'
<1> USE ConstantsAssumption
<1>1. ASSUME NEW w \in Writers, Read(w) PROVE SnapshotsAreOld'
  BY <1>1 DEF TypeOK, IInv, Read, disk, faults, Mutex, TmpIsOurs, SnapshotsAreOld,
     DiskIsWhole, Edited, Critical, Locking, Content, Torn
<1>2. ASSUME NEW w \in Writers, NEW l \in Locking,
             (l = "lock_write" => snap[w].hdr), StartCall(w, l)
      PROVE SnapshotsAreOld'
  BY <1>2 DEF TypeOK, IInv, StartCall, Goto, disk, faults, Mutex, TmpIsOurs,
     SnapshotsAreOld, DiskIsWhole, Edited, Critical, Locking, Content, Torn
<1>3. ASSUME NEW w \in Writers, Lock(w) PROVE SnapshotsAreOld'
  BY <1>3 DEF TypeOK, IInv, Lock, Goto, disk, faults, Mutex, TmpIsOurs, SnapshotsAreOld,
     DiskIsWhole, Edited, Critical, Locking, Content, Torn
<1>4. ASSUME NEW w \in Writers, ReadBefore(w) PROVE SnapshotsAreOld'
  BY <1>4 DEF TypeOK, IInv, ReadBefore, Goto, disk, faults, Mutex, TmpIsOurs,
     SnapshotsAreOld, DiskIsWhole, Edited, Critical, Locking, Content, Torn
<1>5. ASSUME NEW w \in Writers, VersionCheck(w) PROVE SnapshotsAreOld'
  BY <1>5 DEF TypeOK, IInv, VersionCheck, Goto, disk, faults, Mutex, TmpIsOurs,
     SnapshotsAreOld, DiskIsWhole, Edited, Critical, Locking, Content, Torn
<1>6. ASSUME NEW w \in Writers, NoVersion(w) PROVE SnapshotsAreOld'
  BY <1>6 DEF TypeOK, IInv, NoVersion, Goto, Return, disk, faults, Mutex, TmpIsOurs,
     SnapshotsAreOld, DiskIsWhole, Edited, Critical, Locking, Content, Torn
<1>7. ASSUME NEW w \in Writers, WriteConflict(w) PROVE SnapshotsAreOld'
  BY <1>7 DEF TypeOK, IInv, WriteConflict, Goto, Return, disk, faults, Mutex, TmpIsOurs,
     SnapshotsAreOld, DiskIsWhole, Edited, Critical, Locking, Content, Torn
<1>8. ASSUME NEW w \in Writers, CreateTmp(w) PROVE SnapshotsAreOld'
  BY <1>8 DEF TypeOK, IInv, CreateTmp, Goto, disk, faults, Mutex, TmpIsOurs,
     SnapshotsAreOld, DiskIsWhole, Edited, Critical, Locking, Content, Torn
<1>9. ASSUME NEW w \in Writers, SyncTmp(w) PROVE SnapshotsAreOld'
  BY <1>9 DEF TypeOK, IInv, SyncTmp, Goto, disk, faults, Mutex, TmpIsOurs, SnapshotsAreOld,
     DiskIsWhole, Edited, Critical, Locking, Content, Torn
<1>10. ASSUME NEW w \in Writers, Rename(w) PROVE SnapshotsAreOld'
  BY <1>10 DEF TypeOK, IInv, Rename, Goto, disk, faults, Mutex, TmpIsOurs, SnapshotsAreOld,
     DiskIsWhole, Edited, Critical, Locking, Content, Torn
<1>11. ASSUME NEW w \in Writers, DirSync(w) PROVE SnapshotsAreOld'
  BY <1>11 DEF TypeOK, IInv, DirSync, Goto, Return, disk, faults, Mutex, TmpIsOurs,
     SnapshotsAreOld, DiskIsWhole, Edited, Critical, Locking, Content, Torn
<1>12. ASSUME NEW w \in Writers, IoFail(w) PROVE SnapshotsAreOld'
  BY <1>12, SMTT(30)
  DEF TypeOK, IInv, IoFail, Goto, Return, disk, faults, Mutex, TmpIsOurs,
     SnapshotsAreOld, DiskIsWhole, Edited, Critical, Locking, Content, Torn
<1>13. ASSUME NEW i \in Pids, Crash(i) PROVE SnapshotsAreOld'
  BY <1>13 DEF TypeOK, IInv, Crash, Stop, disk, Mutex, TmpIsOurs, SnapshotsAreOld,
     DiskIsWhole, Edited, Critical, Locking, Content, Torn
<1>14. ASSUME PowerCut PROVE SnapshotsAreOld'
  BY <1>14 DEF TypeOK, IInv, PowerCut, Stop, Mutex, TmpIsOurs, SnapshotsAreOld, DiskIsWhole,
     Edited, Critical, Locking, Content, Torn
<1>15. ASSUME ForeignWrite PROVE SnapshotsAreOld'
  BY <1>15 DEF TypeOK, IInv, ForeignWrite, calls, Mutex, TmpIsOurs, SnapshotsAreOld,
     DiskIsWhole, Edited, Critical, Locking, Content, Torn
<1>16. CASE UNCHANGED vars
  BY <1>16 DEF IInv, vars, disk, calls, faults, Mutex, TmpIsOurs, SnapshotsAreOld,
     DiskIsWhole, Edited, Critical, Locking, Content, Torn
<1> QED
  BY <1>1, <1>2, <1>3, <1>4, <1>5, <1>6, <1>7, <1>8, <1>9, <1>10, <1>11, <1>12, <1>13,
     <1>14, <1>15, <1>16
     DEF Next, Step, Progress, UpdateCall, WriteCall, Locking

\* A step that only moves a call on, before its edit is written.
LEMMA EditsMoveOn ==
    ASSUME TypeOK, EditsAreFresh, NEW w \in Writers, NEW l,
           pc[w] \notin {"idle", "dirsync"}, l # "idle", Goto(w, l),
           UNCHANGED <<edit, nextEdit, outcome>>,
           \A e \in Edits : Nowhere(e) => Nowhere(e)'
    PROVE  EditsAreFresh'
<1>1. \A u \in Writers : pc'[u] = IF u = w THEN l ELSE pc[u]
  BY DEF TypeOK, Goto
<1>2. \A u \in Writers : pc[u] # "idle" => edit[u] \in Edits
  BY DEF TypeOK
<1>3. Refused' = Refused /\ Refused \subseteq Edits
  BY DEF Refused
<1> QED
  BY <1>1, <1>2, <1>3 DEF EditsAreFresh

\* An edit gets into a body only through its own rename.
LEMMA EditsStep ==
    ASSUME TypeOK, TypeOK', IInv, [Next]_vars
    PROVE  EditsAreFresh'
<1> USE ConstantsAssumption
<1>1. ASSUME NEW w \in Writers, Read(w) PROVE EditsAreFresh'
  BY <1>1, SMTT(30)
  DEF TypeOK, IInv, Read, disk, faults, Mutex, TmpIsOurs, EditsAreFresh, Nowhere,
     Refused, Edited, Critical, Locking, Content, Torn, Edits
<1>2. ASSUME NEW w \in Writers, NEW l \in Locking,
             (l = "lock_write" => snap[w].hdr), StartCall(w, l)
      PROVE EditsAreFresh'
  <2>1. \A e \in Edits : Nowhere(e) => Nowhere(e)'
    BY <1>2 DEF TypeOK, StartCall, disk, Nowhere
  <2> QED
    BY <1>2, <2>1 DEF TypeOK, IInv, StartCall, Goto, EditsAreFresh, Refused, Edits, Locking
<1>3. ASSUME NEW w \in Writers, Lock(w) PROVE EditsAreFresh'
  <2>1. \A e \in Edits : Nowhere(e) => Nowhere(e)'
    BY <1>3 DEF TypeOK, Lock, disk, Nowhere
  <2> QED
    BY <1>3, <2>1, EditsMoveOn DEF IInv, Lock, Locking
<1>4. ASSUME NEW w \in Writers, ReadBefore(w) PROVE EditsAreFresh'
  <2>1. \A e \in Edits : Nowhere(e) => Nowhere(e)'
    BY <1>4 DEF TypeOK, ReadBefore, disk, Nowhere
  <2> QED
    BY <1>4, <2>1, EditsMoveOn DEF IInv, ReadBefore
<1>5. ASSUME NEW w \in Writers, VersionCheck(w) PROVE EditsAreFresh'
  <2>1. \A e \in Edits : Nowhere(e) => Nowhere(e)'
    BY <1>5 DEF TypeOK, VersionCheck, disk, Nowhere
  <2> QED
    BY <1>5, <2>1, EditsMoveOn DEF IInv, VersionCheck
<1>6. ASSUME NEW w \in Writers, NoVersion(w) PROVE EditsAreFresh'
  <2>1. \A e \in Edits : Nowhere(e) => Nowhere(e)'
    BY <1>6 DEF TypeOK, NoVersion, disk, Nowhere
  <2> QED
    BY <1>6, <2>1 DEF TypeOK, IInv, NoVersion, Goto, Return, EditsAreFresh, Refused,
       Edits, Locking
<1>7. ASSUME NEW w \in Writers, WriteConflict(w) PROVE EditsAreFresh'
  <2>1. \A e \in Edits : Nowhere(e) => Nowhere(e)'
    BY <1>7 DEF TypeOK, WriteConflict, Nowhere
  <2> QED
    BY <1>7, <2>1 DEF TypeOK, IInv, WriteConflict, Goto, Return, EditsAreFresh, Refused,
       Edits, Locking
<1>8. ASSUME NEW w \in Writers, CreateTmp(w) PROVE EditsAreFresh'
  <2>1. \A e \in Edits : Nowhere(e) => Nowhere(e)'
    BY <1>8 DEF TypeOK, CreateTmp, Nowhere
  <2> QED
    BY <1>8, <2>1, EditsMoveOn DEF IInv, CreateTmp
<1>9. ASSUME NEW w \in Writers, SyncTmp(w) PROVE EditsAreFresh'
  <2>1. \A e \in Edits : Nowhere(e) => Nowhere(e)'
    BY <1>9 DEF TypeOK, SyncTmp, Nowhere
  <2> QED
    BY <1>9, <2>1, EditsMoveOn DEF IInv, SyncTmp
<1>10. ASSUME NEW w \in Writers, Rename(w) PROVE EditsAreFresh'
  <2>1. \A e \in Edits : Nowhere(e) /\ e # edit[w] => Nowhere(e)'
    <3>1. /\ file' = Edited(w)
          /\ durable' = durable \cup {Edited(w)}
          /\ Edited(w).body = snap[w].body \cup {edit[w]}
      BY <1>10, RenameFacts DEF IInv
    <3>2. \A u \in Writers : snap'[u] = IF u = w THEN Edited(w) ELSE snap[u]
      BY <1>10 DEF TypeOK, Rename
    <3> QED
      BY <3>1, <3>2 DEF Nowhere
  <2>2. \A u \in Writers \ {w} : pc[u] # "idle" => edit[u] # edit[w]
    BY <1>10 DEF IInv, EditsAreFresh, Rename
  <2>3. edit[w] < nextEdit /\ outcome[edit[w]] = "open" /\ edit[w] \in Edits
    BY <1>10 DEF IInv, EditsAreFresh, Rename, TypeOK
  <2>4. \A e \in Edits : e >= nextEdit => e # edit[w]
    BY <2>3 DEF TypeOK, Edits
  <2> QED
    BY <1>10, <2>1, <2>2, <2>3, <2>4 DEF TypeOK, IInv, Rename, Goto, EditsAreFresh, Refused
<1>11. ASSUME NEW w \in Writers, DirSync(w) PROVE EditsAreFresh'
  BY <1>11 DEF TypeOK, IInv, DirSync, Goto, Return, disk, faults, Mutex, TmpIsOurs,
     EditsAreFresh, Nowhere, Refused, Edited, Critical, Locking, Content, Torn, Edits
<1>12. ASSUME NEW w \in Writers, IoFail(w) PROVE EditsAreFresh'
  BY <1>12, SMTT(30)
  DEF TypeOK, IInv, IoFail, Goto, Return, disk, faults, Mutex, TmpIsOurs,
     EditsAreFresh, Nowhere, Refused, Edited, Critical, Locking, Content, Torn, Edits
<1>13. ASSUME NEW i \in Pids, Crash(i) PROVE EditsAreFresh'
  BY <1>13 DEF TypeOK, IInv, Crash, Stop, disk, Mutex, TmpIsOurs, EditsAreFresh, Nowhere,
     Refused, Edited, Critical, Locking, Content, Torn, Edits
<1>14. ASSUME PowerCut PROVE EditsAreFresh'
  BY <1>14 DEF TypeOK, IInv, PowerCut, Stop, Mutex, TmpIsOurs, EditsAreFresh, Nowhere,
     Refused, Edited, Critical, Locking, Content, Torn, Edits
<1>15. ASSUME ForeignWrite PROVE EditsAreFresh'
  BY <1>15 DEF TypeOK, IInv, ForeignWrite, calls, Mutex, TmpIsOurs, EditsAreFresh, Nowhere,
     Refused, Edited, Critical, Locking, Content, Torn, Edits
<1>16. CASE UNCHANGED vars
  BY <1>16 DEF IInv, vars, disk, calls, faults, Mutex, TmpIsOurs, EditsAreFresh, Nowhere,
     Refused, Edited, Critical, Locking, Content, Torn, Edits
<1> QED
  BY <1>1, <1>2, <1>3, <1>4, <1>5, <1>6, <1>7, <1>8, <1>9, <1>10, <1>11, <1>12, <1>13,
     <1>14, <1>15, <1>16
     DEF Next, Step, Progress, UpdateCall, WriteCall, Locking

\* Only synced contents that extend the current file reach the disk.
LEMMA DiskStep ==
    ASSUME TypeOK, TypeOK', IInv, [Next]_vars
    PROVE  DiskIsWhole'
<1> USE ConstantsAssumption
<1>1. ASSUME NEW w \in Writers, Read(w) PROVE DiskIsWhole'
  BY <1>1 DEF TypeOK, IInv, Read, disk, faults, Mutex, TmpIsOurs, SnapshotsAreOld,
     DiskIsWhole, Edited, Critical, Locking, Content
<1>2. ASSUME NEW w \in Writers, NEW l \in Locking,
             (l = "lock_write" => snap[w].hdr), StartCall(w, l)
      PROVE DiskIsWhole'
  BY <1>2 DEF TypeOK, IInv, StartCall, Goto, disk, faults, Mutex, TmpIsOurs,
     SnapshotsAreOld, DiskIsWhole, Edited, Critical, Locking, Content
<1>3. ASSUME NEW w \in Writers, Lock(w) PROVE DiskIsWhole'
  BY <1>3 DEF TypeOK, IInv, Lock, Goto, disk, faults, Mutex, TmpIsOurs, SnapshotsAreOld,
     DiskIsWhole, Edited, Critical, Locking, Content
<1>4. ASSUME NEW w \in Writers, ReadBefore(w) PROVE DiskIsWhole'
  BY <1>4 DEF TypeOK, IInv, ReadBefore, Goto, disk, faults, Mutex, TmpIsOurs,
     SnapshotsAreOld, DiskIsWhole, Edited, Critical, Locking, Content
<1>5. ASSUME NEW w \in Writers, VersionCheck(w) PROVE DiskIsWhole'
  BY <1>5 DEF TypeOK, IInv, VersionCheck, Goto, disk, faults, Mutex, TmpIsOurs,
     SnapshotsAreOld, DiskIsWhole, Edited, Critical, Locking, Content
<1>6. ASSUME NEW w \in Writers, NoVersion(w) PROVE DiskIsWhole'
  BY <1>6 DEF TypeOK, IInv, NoVersion, Goto, Return, disk, faults, Mutex, TmpIsOurs,
     SnapshotsAreOld, DiskIsWhole, Edited, Critical, Locking, Content
<1>7. ASSUME NEW w \in Writers, WriteConflict(w) PROVE DiskIsWhole'
  BY <1>7 DEF TypeOK, IInv, WriteConflict, Goto, Return, disk, faults, Mutex, TmpIsOurs,
     SnapshotsAreOld, DiskIsWhole, Edited, Critical, Locking, Content
<1>8. ASSUME NEW w \in Writers, CreateTmp(w) PROVE DiskIsWhole'
  BY <1>8 DEF TypeOK, IInv, CreateTmp, Goto, disk, faults, Mutex, TmpIsOurs,
     SnapshotsAreOld, DiskIsWhole, Edited, Critical, Locking, Content
<1>9. ASSUME NEW w \in Writers, SyncTmp(w) PROVE DiskIsWhole'
  BY <1>9 DEF TypeOK, IInv, SyncTmp, Goto, disk, faults, Mutex, TmpIsOurs, SnapshotsAreOld,
     DiskIsWhole, Edited, Critical, Locking, Content
<1>10. ASSUME NEW w \in Writers, Rename(w) PROVE DiskIsWhole'
  <2>1. foreign = 0 => snap[w] = file
    BY <1>10 DEF IInv, SnapshotsAreOld, Rename
  <2>2. file.ver \in Nat /\ foreign' = foreign /\ cuts' = cuts /\ outcome' = outcome
    BY <1>10 DEF TypeOK, Content, Rename, faults
  <2>3. /\ file' = Edited(w)
        /\ durable' = durable \cup {Edited(w)}
        /\ Edited(w).hdr
        /\ Edited(w).ver = snap[w].ver + 1
        /\ Edited(w).body = snap[w].body \cup {edit[w]}
    BY <1>10, RenameFacts DEF IInv
  <2>4. \A d \in durable : d.ver \in Nat
    BY DEF TypeOK, Content
  <2> QED
    BY <2>1, <2>2, <2>3, <2>4 DEF IInv, DiskIsWhole
<1>11. ASSUME NEW w \in Writers, DirSync(w) PROVE DiskIsWhole'
  BY <1>11 DEF TypeOK, IInv, DirSync, Goto, Return, disk, faults, Mutex, TmpIsOurs,
     SnapshotsAreOld, DiskIsWhole, Edited, Critical, Locking, Content
<1>12. ASSUME NEW w \in Writers, IoFail(w) PROVE DiskIsWhole'
  BY <1>12, SMTT(30)
  DEF TypeOK, IInv, IoFail, Goto, Return, disk, faults, Mutex, TmpIsOurs,
     SnapshotsAreOld, DiskIsWhole, Edited, Critical, Locking, Content
<1>13. ASSUME NEW i \in Pids, Crash(i) PROVE DiskIsWhole'
  BY <1>13 DEF TypeOK, IInv, Crash, Stop, disk, Mutex, TmpIsOurs, SnapshotsAreOld,
     DiskIsWhole, Edited, Critical, Locking, Content
<1>14. ASSUME PowerCut PROVE DiskIsWhole'
  BY <1>14 DEF TypeOK, IInv, PowerCut, Stop, Mutex, TmpIsOurs, SnapshotsAreOld, DiskIsWhole,
     Edited, Critical, Locking, Content
<1>15. ASSUME ForeignWrite PROVE DiskIsWhole'
  BY <1>15 DEF TypeOK, IInv, ForeignWrite, calls, Mutex, TmpIsOurs, SnapshotsAreOld,
     DiskIsWhole, Edited, Critical, Locking, Content
<1>16. CASE UNCHANGED vars
  BY <1>16 DEF IInv, vars, disk, calls, faults, Mutex, TmpIsOurs, SnapshotsAreOld,
     DiskIsWhole, Edited, Critical, Locking, Content
<1> QED
  BY <1>1, <1>2, <1>3, <1>4, <1>5, <1>6, <1>7, <1>8, <1>9, <1>10, <1>11, <1>12, <1>13,
     <1>14, <1>15, <1>16
     DEF Next, Step, Progress, UpdateCall, WriteCall, Locking

\* A write is based on the current file, so it keeps what was acknowledged.
LEMMA AckedStep ==
    ASSUME TypeOK, TypeOK', IInv, [Next]_vars
    PROVE  AckedIsKept'
<1> USE ConstantsAssumption
<1>1. ASSUME NEW w \in Writers, Read(w) PROVE AckedIsKept'
  BY <1>1 DEF TypeOK, IInv, Read, disk, faults, Mutex, TmpIsOurs, SnapshotsAreOld,
     DiskIsWhole, AckedIsKept, Acked, Edited, Critical, Locking, Content
<1>2. ASSUME NEW w \in Writers, NEW l \in Locking,
             (l = "lock_write" => snap[w].hdr), StartCall(w, l)
      PROVE AckedIsKept'
  BY <1>2 DEF TypeOK, IInv, StartCall, Goto, disk, faults, Mutex, TmpIsOurs,
     SnapshotsAreOld, DiskIsWhole, AckedIsKept, Acked, Edited, Critical, Locking, Content
<1>3. ASSUME NEW w \in Writers, Lock(w) PROVE AckedIsKept'
  BY <1>3 DEF TypeOK, IInv, Lock, Goto, disk, faults, Mutex, TmpIsOurs, SnapshotsAreOld,
     DiskIsWhole, AckedIsKept, Acked, Edited, Critical, Locking, Content
<1>4. ASSUME NEW w \in Writers, ReadBefore(w) PROVE AckedIsKept'
  BY <1>4 DEF TypeOK, IInv, ReadBefore, Goto, disk, faults, Mutex, TmpIsOurs,
     SnapshotsAreOld, DiskIsWhole, AckedIsKept, Acked, Edited, Critical, Locking, Content
<1>5. ASSUME NEW w \in Writers, VersionCheck(w) PROVE AckedIsKept'
  BY <1>5 DEF TypeOK, IInv, VersionCheck, Goto, disk, faults, Mutex, TmpIsOurs,
     SnapshotsAreOld, DiskIsWhole, AckedIsKept, Acked, Edited, Critical, Locking, Content
<1>6. ASSUME NEW w \in Writers, NoVersion(w) PROVE AckedIsKept'
  BY <1>6 DEF TypeOK, IInv, NoVersion, Goto, Return, disk, faults, Mutex, TmpIsOurs,
     SnapshotsAreOld, DiskIsWhole, AckedIsKept, Acked, Edited, Critical, Locking, Content
<1>7. ASSUME NEW w \in Writers, WriteConflict(w) PROVE AckedIsKept'
  BY <1>7 DEF TypeOK, IInv, WriteConflict, Goto, Return, disk, faults, Mutex, TmpIsOurs,
     SnapshotsAreOld, DiskIsWhole, AckedIsKept, Acked, Edited, Critical, Locking, Content
<1>8. ASSUME NEW w \in Writers, CreateTmp(w) PROVE AckedIsKept'
  BY <1>8 DEF TypeOK, IInv, CreateTmp, Goto, disk, faults, Mutex, TmpIsOurs,
     SnapshotsAreOld, DiskIsWhole, AckedIsKept, Acked, Edited, Critical, Locking, Content
<1>9. ASSUME NEW w \in Writers, SyncTmp(w) PROVE AckedIsKept'
  BY <1>9 DEF TypeOK, IInv, SyncTmp, Goto, disk, faults, Mutex, TmpIsOurs, SnapshotsAreOld,
     DiskIsWhole, AckedIsKept, Acked, Edited, Critical, Locking, Content
<1>10. ASSUME NEW w \in Writers, Rename(w) PROVE AckedIsKept'
  <2>1. foreign = 0 => snap[w] = file
    BY <1>10 DEF IInv, SnapshotsAreOld, Rename
  <2>2. file.ver \in Nat /\ foreign' = foreign /\ cuts' = cuts /\ outcome' = outcome
    BY <1>10 DEF TypeOK, Content, Rename, faults
  <2>3. /\ file' = Edited(w)
        /\ durable' = durable \cup {Edited(w)}
        /\ Edited(w).hdr
        /\ Edited(w).ver = snap[w].ver + 1
        /\ Edited(w).body = snap[w].body \cup {edit[w]}
    BY <1>10, RenameFacts DEF IInv
  <2>4. \A d \in durable : d.ver \in Nat
    BY DEF TypeOK, Content
  <2> QED
    BY <2>1, <2>2, <2>3, <2>4 DEF IInv, DiskIsWhole, AckedIsKept, Acked
<1>11. ASSUME NEW w \in Writers, DirSync(w) PROVE AckedIsKept'
  BY <1>11 DEF TypeOK, IInv, DirSync, Goto, Return, disk, faults, Mutex, TmpIsOurs,
     SnapshotsAreOld, DiskIsWhole, AckedIsKept, Acked, Edited, Critical, Locking, Content
<1>12. ASSUME NEW w \in Writers, IoFail(w) PROVE AckedIsKept'
  BY <1>12, SMTT(30)
  DEF TypeOK, IInv, IoFail, Goto, Return, disk, faults, Mutex, TmpIsOurs,
     SnapshotsAreOld, DiskIsWhole, AckedIsKept, Acked, Edited, Critical, Locking, Content
<1>13. ASSUME NEW i \in Pids, Crash(i) PROVE AckedIsKept'
  BY <1>13 DEF TypeOK, IInv, Crash, Stop, disk, Mutex, TmpIsOurs, SnapshotsAreOld,
     DiskIsWhole, AckedIsKept, Acked, Edited, Critical, Locking, Content
<1>14. ASSUME PowerCut PROVE AckedIsKept'
  BY <1>14 DEF TypeOK, IInv, PowerCut, Stop, Mutex, TmpIsOurs, SnapshotsAreOld, DiskIsWhole,
     AckedIsKept, Acked, Edited, Critical, Locking, Content
<1>15. ASSUME ForeignWrite PROVE AckedIsKept'
  BY <1>15 DEF TypeOK, IInv, ForeignWrite, calls, Mutex, TmpIsOurs, SnapshotsAreOld,
     DiskIsWhole, AckedIsKept, Acked, Edited, Critical, Locking, Content
<1>16. CASE UNCHANGED vars
  BY <1>16 DEF IInv, vars, disk, calls, faults, Mutex, TmpIsOurs, SnapshotsAreOld,
     DiskIsWhole, AckedIsKept, Acked, Edited, Critical, Locking, Content
<1> QED
  BY <1>1, <1>2, <1>3, <1>4, <1>5, <1>6, <1>7, <1>8, <1>9, <1>10, <1>11, <1>12, <1>13,
     <1>14, <1>15, <1>16
     DEF Next, Step, Progress, UpdateCall, WriteCall, Locking

\* The invariant holds initially.
LEMMA InvInit == Init => IInv
<1> SUFFICES ASSUME Init PROVE IInv
  OBVIOUS
<1>1. Mutex /\ TmpIsOurs
  BY ConstantsAssumption DEF Init, Mutex, TmpIsOurs, Critical
<1>2. SnapshotsAreOld
  BY DEF Init, SnapshotsAreOld, Torn
<1>3. EditsAreFresh
  BY DEF Init, EditsAreFresh, Nowhere, Refused, Torn, Missing, Edits
<1>4. DiskIsWhole /\ AckedIsKept
  BY DEF Init, DiskIsWhole, AckedIsKept, Acked, Missing
<1> QED
  BY <1>1, <1>2, <1>3, <1>4 DEF IInv

\* The inductive invariant: mutual exclusion, private temporary files, snapshots that are
\* current or outdated by their version, fresh edits, whole contents on the disk.
THEOREM Invariance == Spec => [](TypeOK /\ IInv)
<1>1. Init => TypeOK /\ IInv
  BY TypeInit, InvInit
<1>2. TypeOK /\ IInv /\ [Next]_vars => (TypeOK /\ IInv)'
  <2> SUFFICES ASSUME TypeOK, IInv, [Next]_vars PROVE TypeOK' /\ IInv'
    OBVIOUS
  <2>1. TypeOK'
    BY TypeStep
  <2> QED
    BY <2>1, MutexStep, TmpStep, SnapStep, EditsStep, DiskStep, AckedStep DEF IInv
<1> QED
  BY <1>1, <1>2, PTL DEF Spec

-----------------------------------------------------------------------------

\* LIFE-03: no update whose caller was told Ok is ever lost.
THEOREM NoUpdateIsLost == Spec => []NoLostUpdate
<1>1. TypeOK /\ IInv => NoLostUpdate
  BY DEF IInv, NoLostUpdate, DiskIsWhole, AckedIsKept
<1> QED
  BY <1>1, Invariance, PTL

\* The file, and whatever a power cut may put in its place, is a whole versioned file.
THEOREM FileIsNeverHalf == Spec => []NeverHalf
<1>1. TypeOK /\ IInv => NeverHalf
  BY DEF IInv, NeverHalf, DiskIsWhole
<1> QED
  BY <1>1, Invariance, PTL

\* An acknowledged edit is in everything a power cut may leave.
THEOREM AckedEditsSurvive == Spec => []AckedIsDurable
<1>1. TypeOK /\ IInv => AckedIsDurable
  BY DEF IInv, AckedIsDurable, AckedIsKept
<1> QED
  BY <1>1, Invariance, PTL

\* A refused edit is not in the file and no power cut brings it back, with or without
\* writers that ignore the lock.
THEOREM ErrIsUnwritten == Spec => []ErrMeansUnwritten
<1>1. TypeOK /\ IInv => ErrMeansUnwritten
  BY DEF IInv, ErrMeansUnwritten, EditsAreFresh, Nowhere
<1> QED
  BY <1>1, Invariance, PTL

\* Comparing versions is enough: equal versions mean equal bodies.
THEOREM NoAba == Spec => []VersionNamesBody
<1>1. TypeOK /\ IInv => VersionNamesBody
  BY DEF IInv, VersionNamesBody, SnapshotsAreOld
<1> QED
  BY <1>1, Invariance, PTL

-----------------------------------------------------------------------------

\* The bound on writers that ignore the lock.
LEMMA ForeignBound == Spec => [](foreign <= MaxForeign)
<1>1. Init => foreign <= MaxForeign
  BY ConstantsAssumption DEF Init
<1>2. TypeOK /\ foreign <= MaxForeign /\ [Next]_vars => (foreign <= MaxForeign)'
  <2> SUFFICES ASSUME TypeOK, foreign <= MaxForeign, [Next]_vars
               PROVE  (foreign <= MaxForeign)'
    OBVIOUS
  <2>1. ASSUME NEW w \in Writers, Read(w) \/ UpdateCall(w) \/ WriteCall(w)
        PROVE  foreign' = foreign
    BY <2>1 DEF Read, UpdateCall, WriteCall, StartCall, faults
  <2>2. ASSUME NEW w \in Writers, Step(w) PROVE foreign' = foreign
    BY <2>2 DEF Step, Progress, Lock, ReadBefore, VersionCheck, NoVersion, WriteConflict, CreateTmp,
                SyncTmp, Rename, DirSync, IoFail, Return, faults
  <2>3. (\E i \in Pids : Crash(i)) \/ PowerCut => foreign' = foreign
    BY DEF Crash, PowerCut, Stop
  <2>4. ForeignWrite => foreign' <= MaxForeign
    BY ConstantsAssumption DEF ForeignWrite, TypeOK
  <2>5. UNCHANGED vars => foreign' = foreign
    BY DEF vars, faults
  <2> QED
    BY <2>1, <2>2, <2>3, <2>4, <2>5 DEF Next
<1> QED
  BY <1>1, <1>2, TypeCorrect, PTL DEF Spec

\* An unanswered edit that is answered with anything but Ok leaves the acked edits alone.
LEMMA AckedUnchanged ==
    ASSUME TypeOK, IInv, NEW w \in Writers, pc[w] # "idle", NEW told,
           told # "ok", outcome' = [outcome EXCEPT ![edit[w]] = told]
    PROVE  Acked' = Acked
BY DEF TypeOK, IInv, EditsAreFresh, Acked

\* Every step of the protocol is a step of the register or leaves it alone.
LEMMA RegisterStep ==
    ASSUME TypeOK, IInv, foreign = 0, MaxForeign = 0, DirSyncWorks, [Next]_vars
    PROVE  [Register!Next]_(Register!vars)
<1> USE DEF Register!vars
<1>1. ASSUME NEW w \in Writers, Rename(w) PROVE Register!Next
  <2>1. snap[w] = file /\ edit[w] \in Edits /\ edit[w] \notin file.body
    BY <1>1 DEF IInv, SnapshotsAreOld, EditsAreFresh, Nowhere, TypeOK, Rename
  <2>2. file' = Edited(w) /\ Edited(w).ver = snap[w].ver + 1
          /\ Edited(w).body = snap[w].body \cup {edit[w]}
    BY <1>1, RenameFacts DEF IInv
  <2>3. Acked' = Acked
    BY <1>1 DEF Rename, Acked
  <2>4. Register!Apply(edit[w])
    BY <2>1, <2>2, <2>3 DEF Register!Apply
  <2> QED
    BY <2>1, <2>4 DEF Register!Next
<1>2. ASSUME NEW w \in Writers, DirSync(w) PROVE Register!Next
  <2>1. edit[w] \in Edits /\ edit[w] \in file.body
    BY <1>2 DEF IInv, SnapshotsAreOld, TypeOK, DirSync
  <2>2. Acked' = Acked \cup {edit[w]} /\ file' = file
    BY <1>2, <2>1 DEF DirSync, Return, Acked, TypeOK
  <2>3. Register!Ack(edit[w])
    BY <2>1, <2>2 DEF Register!Ack
  <2> QED
    BY <2>1, <2>3 DEF Register!Next
<1>3. ASSUME PowerCut PROVE Register!Next
  <2>1. Acked' = Acked
    BY <1>3 DEF PowerCut, Stop, Acked, IInv, EditsAreFresh, TypeOK
  <2>2. file' \in durable
    BY <1>3 DEF PowerCut
  <2>3. file'.ver <= file.ver /\ file'.body \subseteq file.body /\ Acked \subseteq file'.body
    BY <2>2 DEF IInv, DiskIsWhole, AckedIsKept
  <2>4. file.ver \in Nat /\ file'.ver \in Nat
    BY <2>2 DEF TypeOK, Content
  <2>5. file'.ver \in 0..file.ver
    BY <2>3, <2>4
  <2> QED
    BY <2>1, <2>3, <2>5 DEF Register!Next, Register!Revert
<1>4. ASSUME NEW i \in Pids, Crash(i) PROVE UNCHANGED Register!vars
  <2>1. Acked' = Acked
    BY <1>4 DEF Crash, Stop, Acked, IInv, EditsAreFresh, TypeOK
  <2> QED
    BY <1>4, <2>1 DEF Crash, disk
<1>5. ASSUME NEW w \in Writers, NoVersion(w) \/ WriteConflict(w) \/ IoFail(w)
      PROVE  UNCHANGED Register!vars
  <2>1. PICK told \in {"error", "conflict"} : outcome' = [outcome EXCEPT ![edit[w]] = told]
    BY <1>5 DEF NoVersion, WriteConflict, IoFail, Return
  <2>2. pc[w] # "idle" /\ file' = file
    BY <1>5 DEF NoVersion, WriteConflict, IoFail, Locking, Critical, disk
  <2>3. Acked' = Acked
    BY <2>1, <2>2, AckedUnchanged
  <2> QED
    BY <2>2, <2>3
<1>6. ASSUME NEW w \in Writers,
             \/ Read(w) \/ UpdateCall(w) \/ WriteCall(w) \/ Lock(w) \/ ReadBefore(w)
             \/ VersionCheck(w) \/ CreateTmp(w) \/ SyncTmp(w)
      PROVE  UNCHANGED Register!vars
  <2>1. file' = file /\ outcome' = outcome
    BY <1>6 DEF Read, UpdateCall, WriteCall, StartCall, Lock, ReadBefore, VersionCheck,
                CreateTmp, SyncTmp, disk
  <2> QED
    BY <2>1 DEF Acked
<1>7. ~ForeignWrite
  BY DEF ForeignWrite
<1>8. CASE UNCHANGED vars
  BY <1>8 DEF vars, disk, Acked
<1> QED
  BY <1>1, <1>2, <1>3, <1>4, <1>5, <1>6, <1>7, <1>8 DEF Next, Step, Progress

\* Lock, version check, temporary file and rename implement an atomic register whose
\* acknowledged edits survive power cuts: where directories can be synced and every writer
\* takes the lock.
THEOREM Refinement ==
    ASSUME MaxForeign = 0, DirSyncWorks
    PROVE  Spec => ImplementsRegister
<1>1. Init => Register!Init
  BY DEF Init, Register!Init, Missing, Acked
<1>2. TypeOK /\ IInv /\ foreign <= MaxForeign /\ [Next]_vars => [Register!Next]_(Register!vars)
  <2> SUFFICES ASSUME TypeOK, IInv, foreign <= MaxForeign, [Next]_vars
               PROVE  [Register!Next]_(Register!vars)
    OBVIOUS
  <2>1. foreign = 0
    BY DEF TypeOK
  <2> QED
    BY <2>1, RegisterStep
<1> QED
  BY <1>1, <1>2, Invariance, ForeignBound, PTL DEF Spec, ImplementsRegister, Register!Spec

=============================================================================
