---------------------------- MODULE SnapshotEditor ----------------------------
(***************************************************************************)
(* What pr-repl/src/buffer.rs promises of undo: the editor behaves as if   *)
(* it kept a copy of the whole text before every change, whatever edits    *)
(* the change was made of.                                                 *)
(***************************************************************************)
EXTENDS Sequences, SequencesExt

VARIABLES
    text,       \* the text, as of the last change that is complete
    past,       \* the texts undo goes back to, the nearest last
    future      \* the texts redo goes forward to, the nearest last

vars == <<text, past, future>>

Init == text = <<>> /\ past = <<>> /\ future = <<>>

\* Any edit, or group of edits, whatever text it leaves.
Change ==
    /\ past' = Append(past, text)
    /\ future' = <<>>

Undo ==
    /\ past # <<>>
    /\ text' = Last(past)
    /\ past' = Front(past)
    /\ future' = Append(future, text)

Redo ==
    /\ future # <<>>
    /\ text' = Last(future)
    /\ future' = Front(future)
    /\ past' = Append(past, text)

Spec == Init /\ [][Change \/ Undo \/ Redo]_vars
=============================================================================
