------------------------- MODULE VersionedRegister -------------------------
(***************************************************************************)
(* What pr-profiles promises of a shared file, with no lock, temporary     *)
(* file or directory in it: one register that holds a version and a body,  *)
(* edited one whole read-modify-write at a time.  A body is the set of the *)
(* edits that made it.  A power cut may take back edits, but only ones     *)
(* whose caller has not been told that they are written.                   *)
(***************************************************************************)
EXTENDS Naturals

CONSTANT Edits

VARIABLES ver, body, acked

vars == <<ver, body, acked>>

Init == ver = 0 /\ body = {} /\ acked = {}

\* One edit, applied to the latest body and to nothing older.
Apply(e) ==
    /\ e \notin body
    /\ ver' = ver + 1
    /\ body' = body \cup {e}
    /\ UNCHANGED acked

\* The caller learns that its edit is written.
Ack(e) ==
    /\ e \in body
    /\ acked' = acked \cup {e}
    /\ UNCHANGED <<ver, body>>

\* A power cut: the file falls back to an earlier one that has every acked edit.
Revert ==
    /\ ver' \in 0..ver
    /\ body' \in SUBSET body
    /\ acked \subseteq body'
    /\ UNCHANGED acked

Next == (\E e \in Edits : Apply(e) \/ Ack(e)) \/ Revert

Spec == Init /\ [][Next]_vars
=============================================================================
