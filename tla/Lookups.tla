------------------------------- MODULE Lookups -------------------------------
(***************************************************************************)
(* The patterns a policy looks keys up with, the history lines are looked  *)
(* up in and the line that is typed: they share no state with the session  *)
(* they stand beside, nor with one another.                                *)
(***************************************************************************)
EXTENDS Naturals, Sequences

VARIABLE subject        \* what a behaviour is about

CONSTANTS Patterns, Keys
VARIABLES pattern, key, pi, ki, star, starK, verdict

CONSTANTS Lines, Users, Places, ProfileOf, Upper, Keywords, Secret, Levels, KeepMax, MaxRecords,
          MaxDay
VARIABLES rows, pruning, recalled, records, day

CONSTANTS Offers, MaxTyped
VARIABLES line, cursor

G == INSTANCE Glob
R == INSTANCE History
Q == INSTANCE Quoting

\* Patterns and keys are strings of characters; a command has a name, its words have an upper case, and a
\* hash is none of them; an offer is an argument.
ASSUME LookupsAssumption ==
    /\ Patterns \subseteq Seq(STRING) /\ Keys \subseteq Seq(STRING)
    /\ Lines \subseteq Seq(DOMAIN Upper) \ {<<>>}
    /\ \A w \in DOMAIN Upper : R!Hashed(w) \notin DOMAIN Upper
    /\ KeepMax \in Nat
    /\ Offers \subseteq Seq(Q!Chars)

-----------------------------------------------------------------------------

\* A pattern of a policy matches the keys it means: see Glob.
GlobIsExact == G!GlobIsExact

\* What is recalled may be sent only if it is what was typed: see History.
RecalledIsTyped == R!RecalledIsTyped

\* What the editor shows of a line is what is sent: see Quoting.
ShownIsSent == subject = "line" => Q!ShownIsSent
=============================================================================
