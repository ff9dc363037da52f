------------------------------- MODULE Replies -------------------------------
(***************************************************************************)
(* The result store, the record of a subscription, one command over its    *)
(* connection, a table, and the admission of what is piped in, whatever    *)
(* decodes it: the parts around replies that need no parser.  They share   *)
(* no state.                                                               *)
(***************************************************************************)
EXTENDS ResultStore

CONSTANTS MaxEntries, MaxBytes, Weights, MaxMessages
VARIABLES entries, bytes, received, dropped, arrived

CONSTANTS Attributes, MaxPushes
VARIABLES asked, todo, call, toServer, toClient, closed, exit, reply, db, pushes, executed

CONSTANTS Titles, Missing, Cells, Totals, MinContent, SampleRows, MaxRows, MaxRenders
VARIABLES rows, frozen, shown

CONSTANTS NextFrame(_, _), Pieces, Catalog, MaxPieces
VARIABLES input, policy, offset, accepted, stopped

S == INSTANCE Subscription
P == INSTANCE Passthrough
T == INSTANCE Table
Adm == INSTANCE Pipe

\* An input is a sequence; a frame is read from within it, and none from its end.
ASSUME NextFrameAssumption ==
    \A b \in Adm!Inputs(MaxPieces) :
        /\ Len(b) \in Nat
        /\ NextFrame(b, Len(b) + 1).is = "incomplete"
        /\ \A i \in 1..(Len(b) + 1) :
             LET step == NextFrame(b, i)
             IN  step.is = "ok" => /\ step.pos \in 1..(Len(b) + 1)
                                   /\ step.v = <<step.v[1], step.v[2]>>

-----------------------------------------------------------------------------

\* A record of a subscription has no hole and counts what it dropped: see Subscription.
RecordHasNoHole == S!RecordHasNoHole

\* The exit code of a command tells what became of it: see Passthrough.
ExitIsHonest == P!ExitIsHonest

\* A table drawn again is the table that was drawn, and it says what it cut: see Table.
TableIsStable == T!TableIsStable

\* What is accepted of a pipe is all of it that may be, up to the frame blamed: see Pipe.
AdmissionIsExact == Adm!AdmissionIsExact
=============================================================================
