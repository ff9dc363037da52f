---------------------------- MODULE MCSharedFile ----------------------------
(***************************************************************************)
(* SharedFile with three writers: two of them in one process, so that they *)
(* share its temporary file and its conflict names.                        *)
(***************************************************************************)
EXTENDS SharedFile, TLC

CONSTANTS w1, w2, w3, proc1, proc2

ThreeWriters == {w1, w2, w3}
TwoPids == {proc1, proc2}
TwoInOne == (w1 :> proc1) @@ (w2 :> proc1) @@ (w3 :> proc2)

\* w1 and w2 differ in nothing but their name.
SameProcess == Permutations({w1, w2})

\* Every program takes the lock: MaxForeign is zero, and as the file then never is without its
\* version line (FileIsNeverHalf of SharedFileProofs), NoVersion is never enabled either.
LockedNext ==
    \/ \E w \in Writers :
          \/ Read(w) \/ UpdateCall(w) \/ WriteCall(w) \/ Lock(w) \/ ReadBefore(w)
          \/ VersionCheck(w) \/ WriteConflict(w) \/ CreateTmp(w) \/ SyncTmp(w) \/ Rename(w)
          \/ DirSync(w) \/ IoFail(w)
    \/ \E i \in Pids : Crash(i)
    \/ PowerCut

LockedSpec == Init /\ [][LockedNext]_vars
=============================================================================
