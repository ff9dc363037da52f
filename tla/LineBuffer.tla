------------------------------ MODULE LineBuffer ------------------------------
(***************************************************************************)
(* pr-repl/src/buffer.rs: the line being edited, its undo and redo stacks, *)
(* and edits computed for an earlier state of it.                          *)
(*                                                                         *)
(* Text is a sequence of bytes: "a" a character of one byte, "h" and "t"   *)
(* the two bytes of a longer one, "m" a combining mark, "z" a zero-width   *)
(* joiner.  Offsets count from 0, as in the code.  An operation that would *)
(* panic (a slice off a character boundary, an offset below zero) sets     *)
(* `panicked'.  Labels of transactions are left out.  No caller starts a   *)
(* group, undoes, or accepts inside an open group.                         *)
(***************************************************************************)
EXTENDS Integers, Sequences, SequencesExt, FiniteSetsExt

CONSTANTS
    Inserts,        \* texts that callers insert or recall
    Offers,         \* texts that lookups propose
    MaxLen,         \* bound: bytes in the line
    MaxRevision     \* bound: mutations

VARIABLES
    buf,        \* the LineBuffer
    offer       \* an edit some lookup computed, not yet accepted

vars == <<buf, offer>>

NoOffer == [check |-> "gone"]

Init ==
    /\ buf = [text |-> <<>>, cursor |-> 0, revision |-> 0, undo |-> <<>>, redo |-> <<>>,
              open |-> FALSE, group |-> <<>>, panicked |-> FALSE]
    /\ offer = NoOffer

-----------------------------------------------------------------------------
(* Boundaries. *)

IsBoundary(s, i) == i = Len(s) \/ (i \in 0..(Len(s) - 1) /\ s[i + 1] # "t")

IsExtending(c) == c \in {"m", "z"}

PrevCharStart(s, i) == IF i = 0 THEN 0 ELSE Max({j \in 0..(i - 1) : IsBoundary(s, j)})

\* Below zero: `at -= 1' at offset 0.
Underflow == -1

\* prev_grapheme: over the marks to their base, and over a joiner to what it joins.
PrevGrapheme(s, from) ==
    LET Back[at \in 0..Len(s)] ==
          LET c == PrevCharStart(s, at)
              before == PrevCharStart(s, c)
          IN  IF at = 0 THEN Underflow
              ELSE IF IsExtending(s[c + 1]) THEN IF c = 0 THEN 0 ELSE Back[c]
              ELSE IF before < c /\ s[before + 1] = "z" THEN Back[before]
              ELSE c
    IN  IF from = 0 THEN 0 ELSE Back[from]

\* next_grapheme: a joiner is extending, so the branch for it is never taken.
NextGrapheme(s, i) ==
    IF i >= Len(s) THEN Len(s)
    ELSE Min({j \in (i + 1)..Len(s) : IsBoundary(s, j) /\ (j = Len(s) \/ ~IsExtending(s[j + 1]))})

-----------------------------------------------------------------------------
(* Edits. *)

Replace(s, from, to, new) == SubSeq(s, 1, from) \o new \o SubSeq(s, to + 1, Len(s))

\* String::replace_range and insert_str panic unless both ends are boundaries.
Fits(s, from, to) == from <= to /\ IsBoundary(s, from) /\ IsBoundary(s, to)

Panic(b) == [b EXCEPT !.panicked = TRUE]

Begin(b) == [b EXCEPT !.open = TRUE, !.group = <<>>]

\* Bug: the texts undone before the group can still be redone.
CommitKeepsRedo(b) ==
    IF b.open /\ b.group # <<>>
      THEN [b EXCEPT !.undo = Append(@, b.group), !.open = FALSE, !.group = <<>>]
      ELSE [b EXCEPT !.open = FALSE, !.group = <<>>]

Commit(b) ==
    IF b.open /\ b.group # <<>>
      THEN [b EXCEPT !.undo = Append(@, b.group), !.redo = <<>>, !.open = FALSE, !.group = <<>>]
      ELSE [b EXCEPT !.open = FALSE, !.group = <<>>]

Record(b, e) ==
    IF b.open THEN [b EXCEPT !.group = Append(@, e)]
              ELSE [b EXCEPT !.undo = Append(@, <<e>>), !.redo = <<>>]

\* What insert, backspace, apply and set_text share: the replacement, its record, the
\* cursor after it and a new revision.
Edited(b, from, to, new) ==
    IF ~Fits(b.text, from, to) THEN Panic(b)
    ELSE Record([b EXCEPT !.text = Replace(@, from, to, new),
                          !.cursor = from + Len(new),
                          !.revision = @ + 1],
                [at |-> from, removed |-> SubSeq(b.text, from + 1, to), inserted |-> new,
                 before |-> b.cursor])

Insert(b, s) == Edited(b, b.cursor, b.cursor, s)

Backspace(b) ==
    IF b.cursor = 0 THEN b ELSE Edited(b, PrevGrapheme(b.text, b.cursor), b.cursor, <<>>)

SetText(b, s) == Commit(Edited(Begin(b), 0, Len(b.text), s))

Moved(b, at) == IF at = Underflow THEN Panic(b) ELSE [b EXCEPT !.cursor = at]

\* Bug: the offset is only compared with the length.
SetCursorInside(b, at) == IF at > Len(b.text) THEN b ELSE [b EXCEPT !.cursor = at]

SetCursor(b, at) == IF IsBoundary(b.text, at) THEN [b EXCEPT !.cursor = at] ELSE b

\* apply refuses an edit computed for another revision or another text, or out of place.
Refused(b, e) ==
    \/ e.check = "revision" /\ e.revision # b.revision
    \/ ~Fits(b.text, e.from, e.to)
    \/ e.check = "text" /\ e.expected # SubSeq(b.text, e.from + 1, e.to)

Apply(b, e) == IF Refused(b, e) THEN b ELSE Edited(b, e.from, e.to, e.text)

AcceptCompletion(b, e) ==
    IF Refused(b, e) THEN [b EXCEPT !.open = FALSE, !.group = <<>>]
                     ELSE Commit(Apply(Begin(b), e))

\* One replacement of reverse or forward.
Redrawn(b, r) ==
    IF ~Fits(b.text, r.at, r.at + Len(r.old)) THEN Panic(b)
    ELSE [b EXCEPT !.text = Replace(@, r.at, r.at + Len(r.old), r.new), !.cursor = r.cursor]

\* The loop of reverse and of forward.
Replayed(b, replacements) ==
    LET f[i \in 0..Len(replacements)] ==
          IF i = 0 THEN b ELSE Redrawn(f[i - 1], replacements[i])
    IN  f[Len(replacements)]

\* The edits of a transaction taken back, the last one first, or made again.
TakenBack(t) ==
    [i \in 1..Len(t) |->
       LET e == t[Len(t) + 1 - i]
       IN  [at |-> e.at, old |-> e.inserted, new |-> e.removed, cursor |-> e.before]]

MadeAgain(t) ==
    [i \in 1..Len(t) |->
       LET e == t[i]
       IN  [at |-> e.at, old |-> e.removed, new |-> e.inserted,
            cursor |-> e.at + Len(e.inserted)]]

\* Bug: undo is not a mutation.
ReverseSameRevision(b, t) == Replayed(b, TakenBack(t))

ReverseEdits(b, t) == [Replayed(b, TakenBack(t)) EXCEPT !.revision = @ + 1]

Forward(b, t) == [Replayed(b, MadeAgain(t)) EXCEPT !.revision = @ + 1]

Undo(b) ==
    IF b.undo = <<>> THEN b
    ELSE [ReverseEdits(b, Last(b.undo)) EXCEPT !.undo = Front(@), !.redo = Append(@, Last(b.undo))]

Redo(b) ==
    IF b.redo = <<>> THEN b
    ELSE [Forward(b, Last(b.redo)) EXCEPT !.redo = Front(@), !.undo = Append(@, Last(b.redo))]

-----------------------------------------------------------------------------

Step(b) == buf' = b /\ UNCHANGED offer

\* Keys: a character, a deletion, a move.
Key ==
    \/ \E s \in Inserts : Len(buf.text) + Len(s) <= MaxLen /\ Step(Insert(buf, s))
    \/ Step(Backspace(buf))
    \/ Step(Moved(buf, PrevGrapheme(buf.text, buf.cursor)))
    \/ Step(Moved(buf, NextGrapheme(buf.text, buf.cursor)))
    \/ \E at \in 0..MaxLen : Step(SetCursor(buf, at))

\* What callers do between groups: recall a line, undo, redo, start a group.
Whole ==
    /\ ~buf.open
    /\ \/ \E s \in Inserts : Step(SetText(buf, s))
       \/ Step(Undo(buf))
       \/ Step(Redo(buf))
       \/ Step(Begin(buf))

Close == buf.open /\ Step(Commit(buf))

\* A lookup proposes a replacement of a span of the text as it is, tied to the revision, to
\* the words in the span, or to nothing.
Compute ==
    /\ offer = NoOffer
    /\ \E from, to \in 0..Len(buf.text), s \in Offers, check \in {"none", "revision", "text"} :
         /\ Fits(buf.text, from, to)
         /\ Len(buf.text) - (to - from) + Len(s) <= MaxLen
         /\ offer' = [check |-> check, from |-> from, to |-> to, text |-> s,
                      revision |-> buf.revision, expected |-> SubSeq(buf.text, from + 1, to),
                      seen |-> buf.text]
    /\ UNCHANGED buf

\* The offer is taken up, however much later: as a completion, or inside a group.
Accept ==
    /\ offer # NoOffer
    /\ offer' = NoOffer
    /\ Len(buf.text) + Len(offer.text) <= MaxLen + offer.to - offer.from
    /\ buf' = IF buf.open THEN Apply(buf, offer) ELSE AcceptCompletion(buf, offer)

Next ==
    /\ ~buf.panicked
    /\ buf.revision < MaxRevision
    /\ Key \/ Whole \/ Close \/ Compute \/ Accept

Spec == Init /\ [][Next]_vars

-----------------------------------------------------------------------------

\* "every fallible operation here returns `Err` and nothing panics": no sequence of
\* operations slices the text off a character boundary or walks off its start.
NoPanic == ~buf.panicked

\* "an edit whose span no longer matches the buffer is refused": an offer tied to a revision
\* replaces something only in the very text it was computed for, undo and redo included.
StaleNeverLands ==
    [][offer' = NoOffer /\ offer.check = "revision" /\ buf'.revision # buf.revision
         => offer.seen = buf.text]_vars

\* "the cursor is always on a grapheme boundary": never before a mark, nor beside a joiner.
CursorOnGrapheme ==
    buf.cursor \in 1..(Len(buf.text) - 1)
      => /\ ~IsExtending(buf.text[buf.cursor + 1])
         /\ buf.text[buf.cursor] # "z"

\* The refinement mapping: an open group is not yet part of the text, and each transaction
\* stands for the text it leads back, or forward, to.
Undone(t, s) ==
    LET f[i \in 1..(Len(t) + 1)] ==
          IF i > Len(t) THEN s
          ELSE Replace(f[i + 1], t[i].at, t[i].at + Len(t[i].inserted), t[i].removed)
    IN  f[1]

Redone(t, s) ==
    LET f[i \in 0..Len(t)] ==
          IF i = 0 THEN s
          ELSE Replace(f[i - 1], t[i].at, t[i].at + Len(t[i].removed), t[i].inserted)
    IN  f[Len(t)]

Settled == IF buf.open THEN Undone(buf.group, buf.text) ELSE buf.text

Past ==
    LET f[i \in 1..(Len(buf.undo) + 1)] ==
          IF i > Len(buf.undo) THEN Settled ELSE Undone(buf.undo[i], f[i + 1])
    IN  [i \in 1..Len(buf.undo) |-> f[i]]

Future ==
    LET f[i \in 1..(Len(buf.redo) + 1)] ==
          IF i > Len(buf.redo) THEN Settled ELSE Redone(buf.redo[i], f[i + 1])
    IN  [i \in 1..Len(buf.redo) |-> f[i]]

Snapshots == INSTANCE SnapshotEditor WITH text <- Settled, past <- Past, future <- Future

\* ADR-016: undo and redo, kept as lists of small edits made at offsets, always lead to
\* exactly the texts that were there, a group or an accepted completion in one step.
UndoIsExact == Snapshots!Spec
=============================================================================
