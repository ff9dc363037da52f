---------------------------- MODULE MCCoordinator ----------------------------
(***************************************************************************)
(* Coordinator with the pastes TLC tries.                                  *)
(***************************************************************************)
EXTENDS Coordinator

\* Unbracketed: a line and its Enter, and the same with more behind it; an Enter the user
\* presses at once makes it two lines.
BurstPastes == {<<"char", "enter">>, <<"char", "enter", "char">>}

\* Bracketed: one line, a long one, and two.
BracketedPastes ==
    {<<"pasted">>, <<"pasted", "pasted", "pasted">>, <<"pasted", "nl", "pasted">>}
=============================================================================
