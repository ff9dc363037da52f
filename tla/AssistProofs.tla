----------------------------- MODULE AssistProofs -----------------------------
(***************************************************************************)
(* Assistance.  The line being edited, for any texts, bounds and sequence  *)
(* of operations: edits computed for an earlier text are refused, undo and *)
(* redo lead to the very texts that were there, and nothing panics unless  *)
(* a joiner is typed.  And what is offered for it, for any scopes,         *)
(* answers, pages of keys, names and limits: answers that come late, walks *)
(* of the keyspace and the bounds of the caches.                           *)
(***************************************************************************)
EXTENDS MCAssist, WellFoundedInduction, TLAPS

-----------------------------------------------------------------------------
(* Induction. *)

LEMMA Least ==
    ASSUME NEW T, T \subseteq Nat, T # {}
    PROVE  \E n \in T : \A m \in T : n <= m
<1> DEFINE R == OpToRel(<, Nat)
<1>1. \A x, y \in Nat : <<y, x>> \in R <=> y < x
  BY DEF OpToRel
<1>2. IsWellFoundedOn(R, Nat)
  BY NatLessThanWellFounded
<1> HIDE DEF R
<1>3. PICK x \in T : \A y \in T : ~ (<<y, x>> \in R)
  BY <1>2, WFMin, Zenon
<1>4. \A y \in T : ~ (y < x)
  BY <1>1, <1>3
<1> QED
  BY <1>3, <1>4

-----------------------------------------------------------------------------
(* Edits computed for an earlier text. *)

List(s) == \E S : s \in Seq(S)
Nested(u) == List(u) /\ \A i \in 1..Len(u) : List(u[i])

LEMMA AppendLists ==
    ASSUME NEW u, NEW e, List(u)
    PROVE  /\ List(Append(u, e))
           /\ Nested(u) /\ List(e) => Nested(Append(u, e))
<1>1. PICK S : u \in Seq(S)
  BY DEF List
<1> DEFINE T == S \cup {e}
<1>2. u \in Seq(T) /\ e \in T
  BY <1>1
<1> HIDE DEF T
<1>3. Append(u, e) \in Seq(T)
  BY <1>2
<1>4. \A i \in 1..Len(Append(u, e)) :
        (i \in 1..Len(u) /\ Append(u, e)[i] = u[i]) \/ Append(u, e)[i] = e
  BY <1>2
<1> QED
  BY <1>3, <1>4 DEF List, Nested

LEMMA FrontLists ==
    ASSUME NEW u, Nested(u), u # <<>>
    PROVE  Nested(L!Front(u)) /\ List(L!Last(u))
<1>1. PICK S : u \in Seq(S)
  BY DEF Nested, List
<1>2. Len(u) \in Nat \ {0} /\ Len(u) \in 1..Len(u)
  BY <1>1
<1>3. List(u[Len(u)])
  BY <1>2 DEF Nested
<1>4. L!Front(u) = SubSeq(u, 1, Len(u) - 1)
  BY DEF L!Front
<1>5. SubSeq(u, 1, Len(u) - 1) \in Seq(S)
  BY <1>1, <1>2
<1>6. \A i \in 1..Len(SubSeq(u, 1, Len(u) - 1)) :
          i \in 1..Len(u) /\ SubSeq(u, 1, Len(u) - 1)[i] = u[i]
  BY <1>1, <1>2
<1> QED
  BY <1>3, <1>4, <1>5, <1>6 DEF L!Last, Nested, List

LEMMA EmptyLists == List(<<>>) /\ Nested(<<>>)
<1>1. <<>> \in Seq({}) /\ Len(<<>>) = 0
  OBVIOUS
<1> QED
  BY <1>1 DEF List, Nested

BufFields == {"text", "cursor", "revision", "undo", "redo", "open", "group", "panicked"}
IsBuf(b) ==
    /\ b = [f \in BufFields |-> b[f]]
    /\ b.revision \in Int
    /\ Nested(b.undo) /\ Nested(b.redo) /\ List(b.group)

\* Neither the text nor the revision changed.
Kept(b, c) == IsBuf(c) /\ c.revision = b.revision /\ c.text = b.text

\* The revision tells whether the text is the same.
Told(b, c) ==
    /\ IsBuf(c)
    /\ c.revision >= b.revision
    /\ c.revision = b.revision => c.text = b.text

LEMMA KeptIsTold == ASSUME NEW b, IsBuf(b), NEW c, Kept(b, c) PROVE Told(b, c)
BY DEF Kept, Told, IsBuf

LEMMA ToldOn ==
    ASSUME NEW b, IsBuf(b), NEW c, Told(b, c), NEW d, Told(c, d)
    PROVE  Told(b, d)
BY DEF Told, IsBuf

LEMMA PanicEffect == ASSUME NEW b, IsBuf(b) PROVE Kept(b, L!Panic(b))
BY DEF L!Panic, IsBuf, BufFields, Kept

LEMMA BeginEffect == ASSUME NEW b, IsBuf(b) PROVE Kept(b, L!Begin(b))
BY EmptyLists DEF L!Begin, IsBuf, BufFields, Kept

LEMMA CommitEffect == ASSUME NEW b, IsBuf(b) PROVE Kept(b, L!Commit(b))
<1>1. Nested(Append(b.undo, b.group))
  BY AppendLists DEF IsBuf, Nested
<1> QED
  BY <1>1, EmptyLists DEF L!Commit, IsBuf, BufFields, Kept

LEMMA RecordEffect == ASSUME NEW b, IsBuf(b), NEW e PROVE Kept(b, L!Record(b, e))
<1>1. List(Append(b.group, e))
  BY AppendLists DEF IsBuf
<1>2. List(<<e>>)
  <2>1. <<e>> \in Seq({e})
    OBVIOUS
  <2> QED
    BY <2>1 DEF List
<1>3. Nested(Append(b.undo, <<e>>))
  BY <1>2, AppendLists DEF IsBuf, Nested
<1> QED
  BY <1>1, <1>3, EmptyLists DEF L!Record, IsBuf, BufFields, Kept

LEMMA EditedEffect ==
    ASSUME NEW b, IsBuf(b), NEW from, NEW to, NEW new
    PROVE  Told(b, L!Edited(b, from, to, new))
<1>1. CASE ~L!Fits(b.text, from, to)
  BY <1>1, PanicEffect, KeptIsTold DEF L!Edited
<1>2. CASE L!Fits(b.text, from, to)
  <2> DEFINE text == L!Replace(b.text, from, to, new)
             cursor == from + Len(new)
             next == b.revision + 1
             c == [b EXCEPT !.text = text, !.cursor = cursor, !.revision = next]
             e == [at |-> from, removed |-> SubSeq(b.text, from + 1, to), inserted |-> new,
                   before |-> b.cursor]
  <2>1. L!Edited(b, from, to, new) = L!Record(c, e)
    BY <1>2 DEF L!Edited
  <2>2. next \in Int /\ next > b.revision
    BY DEF IsBuf
  <2> HIDE DEF text, cursor, e, next
  <2>3. IsBuf(c) /\ c.revision = next
    BY <2>2 DEF IsBuf, BufFields
  <2> HIDE DEF c
  <2>4. Kept(c, L!Record(c, e))
    BY <2>3, RecordEffect
  <2> QED
    BY <2>1, <2>2, <2>3, <2>4 DEF Kept, Told, IsBuf
<1> QED
  BY <1>1, <1>2

LEMMA RedrawnEffect ==
    ASSUME NEW b, IsBuf(b), NEW r
    PROVE  LET c == L!Redrawn(b, r) IN
           IsBuf(c) /\ c.revision = b.revision /\ c.undo = b.undo /\ c.redo = b.redo
<1>1. CASE ~L!Fits(b.text, r.at, r.at + Len(r.old))
  BY <1>1 DEF L!Redrawn, L!Panic, IsBuf, BufFields
<1>2. CASE L!Fits(b.text, r.at, r.at + Len(r.old))
  <2> DEFINE text == L!Replace(b.text, r.at, r.at + Len(r.old), r.new)
             cursor == r.cursor
  <2>1. L!Redrawn(b, r) = [b EXCEPT !.text = text, !.cursor = cursor]
    BY <1>2 DEF L!Redrawn
  <2> HIDE DEF text, cursor
  <2> QED
    BY <2>1 DEF IsBuf, BufFields
<1> QED
  BY <1>1, <1>2

\* The buffer after 0, 1, ..., n replacements.
Replay(g, b, rs, n) == g = [i \in 0..n |-> IF i = 0 THEN b ELSE L!Redrawn(g[i - 1], rs[i])]

LEMMA ReplayExists ==
    ASSUME NEW b, NEW rs, NEW n \in Nat
    PROVE  \E g : Replay(g, b, rs, n)
<1> DEFINE T == {m \in Nat : ~ \E g : Replay(g, b, rs, m)}
<1> SUFFICES ASSUME T # {} PROVE FALSE
  OBVIOUS
<1>1. PICK m \in T : \A k \in T : m <= k
  BY Least
<1>2. m # 0
  <2> DEFINE g == [i \in 0..0 |-> b]
  <2>1. Replay(g, b, rs, 0)
    BY DEF Replay
  <2> QED
    BY <2>1
<1>3. m - 1 \in Nat /\ m - 1 \notin T
  BY <1>1, <1>2
<1>4. PICK g : Replay(g, b, rs, m - 1)
  BY <1>3
<1> DEFINE h == [i \in 0..m |-> IF i <= m - 1 THEN g[i] ELSE L!Redrawn(g[m - 1], rs[m])]
<1>5. \A i \in 0..m : h[i] = IF i = 0 THEN b ELSE L!Redrawn(h[i - 1], rs[i])
  <2> TAKE i \in 0..m
  <2>1. CASE i = 0
    BY <1>3, <1>4, <2>1 DEF Replay
  <2>2. CASE i \in 1..(m - 1)
    BY <1>3, <1>4, <2>2 DEF Replay
  <2>3. CASE i = m
    BY <1>2, <1>3, <2>3
  <2> QED
    BY <2>1, <2>2, <2>3
<1>6. Replay(h, b, rs, m)
  BY <1>5 DEF Replay
<1> QED
  BY <1>6

LEMMA ReplayedEffect ==
    ASSUME NEW b, IsBuf(b), NEW rs, Len(rs) \in Nat
    PROVE  LET c == L!Replayed(b, rs) IN
           IsBuf(c) /\ c.revision = b.revision /\ c.undo = b.undo /\ c.redo = b.redo
<1> DEFINE n == Len(rs)
           g == CHOOSE g : Replay(g, b, rs, n)
           Same(c) == IsBuf(c) /\ c.revision = b.revision /\ c.undo = b.undo /\ c.redo = b.redo
           T == {i \in 0..n : ~Same(g[i])}
<1>1. L!Replayed(b, rs) = g[n]
  BY DEF L!Replayed, Replay
<1>2. Replay(g, b, rs, n)
  BY ReplayExists
<1> HIDE DEF g
<1>3. \A i \in 0..n : g[i] = IF i = 0 THEN b ELSE L!Redrawn(g[i - 1], rs[i])
  BY <1>2 DEF Replay
<1>4. ASSUME T # {} PROVE FALSE
  <2>1. PICK m \in T : \A k \in T : m <= k
    <3>1. T \subseteq Nat
      OBVIOUS
    <3> HIDE DEF T
    <3> QED
      BY <1>4, <3>1, Least
  <2>2. Same(g[0])
    BY <1>3
  <2>3. m \in 1..n /\ Same(g[m - 1]) /\ g[m] = L!Redrawn(g[m - 1], rs[m])
    BY <1>3, <2>1, <2>2
  <2>4. Same(g[m])
    BY <2>3, RedrawnEffect
  <2> QED
    BY <2>1, <2>4
<1> QED
  BY <1>1, <1>4

LEMMA ReplacementsOf ==
    ASSUME NEW t, List(t)
    PROVE  Len(L!TakenBack(t)) \in Nat /\ Len(L!MadeAgain(t)) \in Nat
<1>1. Len(t) \in Nat
  BY DEF List
<1> QED
  BY <1>1 DEF L!TakenBack, L!MadeAgain

LEMMA UndoEffect == ASSUME NEW b, IsBuf(b) PROVE Told(b, L!Undo(b))
<1>1. CASE b.undo = <<>>
  BY <1>1 DEF L!Undo, Told, IsBuf
<1>2. CASE b.undo # <<>>
  <2> DEFINE t == L!Last(b.undo)
             c == L!Replayed(b, L!TakenBack(t))
             next == b.revision + 1
             undo == L!Front(b.undo)
             redo == Append(b.redo, t)
             d == [c EXCEPT !.revision = next]
  <2>1. Nested(undo) /\ List(t) /\ Nested(redo)
    BY <1>2, FrontLists, AppendLists DEF IsBuf, Nested
  <2>2. next \in Int /\ next > b.revision
    BY DEF IsBuf
  <2>3. Len(L!TakenBack(t)) \in Nat
    BY <2>1, ReplacementsOf
  <2>4. IsBuf(c) /\ c.revision = b.revision /\ c.undo = b.undo /\ c.redo = b.redo
    BY <2>3, ReplayedEffect
  <2>5. L!Undo(b) = [L!ReverseEdits(b, t) EXCEPT !.undo = L!Front(@), !.redo = Append(@, t)]
    BY <1>2 DEF L!Undo
  <2>6. L!ReverseEdits(b, t) = d
    BY <2>4 DEF L!ReverseEdits
  <2> HIDE DEF t, c, next
  <2>7. IsBuf(d) /\ d.revision = next /\ d.undo = b.undo /\ d.redo = b.redo
    BY <2>2, <2>4 DEF IsBuf, BufFields
  <2> HIDE DEF d
  <2>8. L!Undo(b) = [d EXCEPT !.undo = undo, !.redo = redo]
    BY <2>5, <2>6, <2>7 DEF IsBuf, BufFields
  <2> HIDE DEF undo, redo
  <2>9. IsBuf(L!Undo(b)) /\ L!Undo(b).revision = next
    BY <2>1, <2>7, <2>8 DEF IsBuf, BufFields
  <2> QED
    BY <2>2, <2>9 DEF Told, IsBuf
<1> QED
  BY <1>1, <1>2

LEMMA RedoEffect == ASSUME NEW b, IsBuf(b) PROVE Told(b, L!Redo(b))
<1>1. CASE b.redo = <<>>
  BY <1>1 DEF L!Redo, Told, IsBuf
<1>2. CASE b.redo # <<>>
  <2> DEFINE t == L!Last(b.redo)
             c == L!Replayed(b, L!MadeAgain(t))
             next == b.revision + 1
             redo == L!Front(b.redo)
             undo == Append(b.undo, t)
             d == [c EXCEPT !.revision = next]
  <2>1. Nested(redo) /\ List(t) /\ Nested(undo)
    BY <1>2, FrontLists, AppendLists DEF IsBuf, Nested
  <2>2. next \in Int /\ next > b.revision
    BY DEF IsBuf
  <2>3. Len(L!MadeAgain(t)) \in Nat
    BY <2>1, ReplacementsOf
  <2>4. IsBuf(c) /\ c.revision = b.revision /\ c.undo = b.undo /\ c.redo = b.redo
    BY <2>3, ReplayedEffect
  <2>5. L!Redo(b) = [L!Forward(b, t) EXCEPT !.redo = L!Front(@), !.undo = Append(@, t)]
    BY <1>2 DEF L!Redo
  <2>6. L!Forward(b, t) = d
    BY <2>4 DEF L!Forward
  <2> HIDE DEF t, c, next
  <2>7. IsBuf(d) /\ d.revision = next /\ d.undo = b.undo /\ d.redo = b.redo
    BY <2>2, <2>4 DEF IsBuf, BufFields
  <2> HIDE DEF d
  <2>8. L!Redo(b) = [d EXCEPT !.redo = redo, !.undo = undo]
    BY <2>5, <2>6, <2>7 DEF IsBuf, BufFields
  <2> HIDE DEF undo, redo
  <2>9. IsBuf(L!Redo(b)) /\ L!Redo(b).revision = next
    BY <2>1, <2>7, <2>8 DEF IsBuf, BufFields
  <2> QED
    BY <2>2, <2>9 DEF Told, IsBuf
<1> QED
  BY <1>1, <1>2

LEMMA CursorEffect ==
    ASSUME NEW b, IsBuf(b), NEW at
    PROVE  Told(b, L!Moved(b, at)) /\ Told(b, L!SetCursor(b, at)) /\ Told(b, b)
<1>1. Kept(b, [b EXCEPT !.cursor = at]) /\ Kept(b, b)
  BY DEF IsBuf, BufFields, Kept
<1> QED
  BY <1>1, PanicEffect, KeptIsTold DEF L!Moved, L!SetCursor

\* A completion is refused, or changes the revision of the text its check was made on.
LEMMA AcceptEffect ==
    ASSUME NEW b, IsBuf(b), NEW e
    PROVE  LET c == IF b.open THEN L!Apply(b, e) ELSE L!AcceptCompletion(b, e) IN
           Told(b, c) /\ (L!Refused(b, e) => c.revision = b.revision)
<1>1. Told(b, L!Apply(b, e)) /\ (L!Refused(b, e) => L!Apply(b, e).revision = b.revision)
  BY EditedEffect, CursorEffect DEF L!Apply
<1>2. CASE L!Refused(b, e)
  <2>1. Kept(b, [b EXCEPT !.open = FALSE, !.group = <<>>])
    BY EmptyLists DEF IsBuf, BufFields, Kept
  <2> QED
    BY <1>1, <1>2, <2>1, KeptIsTold DEF L!AcceptCompletion, Kept
<1>3. CASE ~L!Refused(b, e)
  <2> DEFINE c == L!Begin(b)
             d == L!Apply(c, e)
  <2>1. Kept(b, c)
    BY BeginEffect
  <2>2. L!AcceptCompletion(b, e) = L!Commit(d)
    BY <1>3 DEF L!AcceptCompletion
  <2>3. IsBuf(c) /\ Told(b, c)
    BY <2>1, KeptIsTold DEF Kept
  <2> HIDE DEF c
  <2>4. Told(c, d)
    BY <2>3, EditedEffect, CursorEffect DEF L!Apply
  <2> HIDE DEF d
  <2>5. IsBuf(d) /\ Told(d, L!Commit(d))
    BY <2>4, CommitEffect, KeptIsTold DEF Told
  <2>6. Told(b, L!Commit(d))
    BY <2>3, <2>4, <2>5, ToldOn
  <2> QED
    BY <1>1, <1>3, <2>2, <2>6
<1> QED
  BY <1>2, <1>3

LEMMA SetTextEffect == ASSUME NEW b, IsBuf(b), NEW s PROVE Told(b, L!SetText(b, s))
<1> DEFINE c == L!Begin(b)
           d == L!Edited(c, 0, Len(b.text), s)
<1>1. IsBuf(c) /\ Told(b, c)
  BY BeginEffect, KeptIsTold DEF Kept
<1>2. L!SetText(b, s) = L!Commit(d)
  BY DEF L!SetText
<1> HIDE DEF c
<1>3. Told(c, d)
  BY <1>1, EditedEffect
<1> HIDE DEF d
<1>4. IsBuf(d) /\ Told(d, L!Commit(d))
  BY <1>3, CommitEffect, KeptIsTold DEF Told
<1> QED
  BY <1>1, <1>2, <1>3, <1>4, ToldOn

\* An offer was computed for a text the line had; it still has it while the revision is that one.
OfferInv ==
    /\ IsBuf(buf)
    /\ offer # L!NoOffer =>
         /\ offer.revision \in Int /\ offer.revision <= buf.revision
         /\ offer.revision = buf.revision => offer.seen = buf.text

StaleStep ==
    offer' = L!NoOffer /\ offer.check = "revision" /\ buf'.revision # buf.revision
        => offer.seen = buf.text

LEMMA OfferStep ==
    ASSUME OfferInv, [L!Next]_L!vars
    PROVE  OfferInv' /\ StaleStep
<1>1. IsBuf(buf)
  BY DEF OfferInv
<1>2. ASSUME NEW c, Told(buf, c), L!Step(c) PROVE OfferInv' /\ StaleStep
  <2>1. buf' = c /\ offer' = offer
    BY <1>2 DEF L!Step
  <2> QED
    BY <1>1, <1>2, <2>1 DEF OfferInv, StaleStep, Told, L!NoOffer, IsBuf
<1>3. CASE L!Key
  <2>1. Told(buf, L!Backspace(buf))
    BY <1>1, EditedEffect, CursorEffect DEF L!Backspace
  <2>2. \A s : Told(buf, L!Insert(buf, s))
    BY <1>1, EditedEffect DEF L!Insert
  <2> QED
    BY <1>1, <1>2, <1>3, <2>1, <2>2, CursorEffect DEF L!Key
<1>4. CASE L!Whole
  <2>1. Told(buf, L!Begin(buf))
    BY <1>1, BeginEffect, KeptIsTold
  <2> QED
    BY <1>1, <1>2, <1>4, <2>1, SetTextEffect, UndoEffect, RedoEffect DEF L!Whole
<1>5. CASE L!Close
  BY <1>1, <1>2, <1>5, CommitEffect, KeptIsTold DEF L!Close
<1>6. CASE L!Compute
  <2>1. buf' = buf /\ offer'.revision = buf.revision /\ offer'.seen = buf.text
    BY <1>6 DEF L!Compute
  <2> QED
    BY <1>1, <1>6, <2>1 DEF OfferInv, StaleStep, IsBuf
<1>7. CASE L!Accept
  <2>1. /\ offer # L!NoOffer /\ offer' = L!NoOffer
        /\ buf' = IF buf.open THEN L!Apply(buf, offer) ELSE L!AcceptCompletion(buf, offer)
    BY <1>7 DEF L!Accept
  <2>2. Told(buf, buf') /\ (L!Refused(buf, offer) => buf'.revision = buf.revision)
    BY <1>1, <2>1, AcceptEffect
  <2>3. offer.check = "revision" /\ offer.revision # buf.revision => L!Refused(buf, offer)
    BY DEF L!Refused
  <2> QED
    BY <2>1, <2>2, <2>3 DEF OfferInv, StaleStep, Told
<1>8. CASE UNCHANGED L!vars
  BY <1>8 DEF L!vars, OfferInv, StaleStep
<1> QED
  BY <1>3, <1>4, <1>5, <1>6, <1>7, <1>8 DEF L!Next

\* StaleNeverLands: whatever was typed, undone or redone since, an edit tied to a revision changes
\* only the text it was computed for.
THEOREM StaleEditsAreRefused == AssistSpec => StaleNeverLands
<1>1. AssistInit => OfferInv
  <2> SUFFICES ASSUME AssistInit PROVE OfferInv
    OBVIOUS
  <2>1. buf = [text |-> <<>>, cursor |-> 0, revision |-> 0, undo |-> <<>>, redo |-> <<>>,
               open |-> FALSE, group |-> <<>>, panicked |-> FALSE] /\ offer = L!NoOffer
    BY DEF AssistInit, L!Init
  <2> QED
    BY <2>1, EmptyLists DEF OfferInv, IsBuf, BufFields
<1>2. [AssistNext]_all => [L!Next]_L!vars
  BY DEF AssistNext, OfBroker, OfBuffer, OfDiscovery, OfCaches, all, bufferVars, L!vars
<1>3. OfferInv /\ [AssistNext]_all => OfferInv' /\ [StaleStep]_L!vars
  BY <1>2, OfferStep
<1> QED
  BY <1>1, <1>3, PTL DEF AssistSpec, StaleNeverLands, L!StaleNeverLands, StaleStep
-----------------------------------------------------------------------------
(* Texts and replacements. *)

\* The bytes of the texts that are inserted: no operation makes another one.
Bytes == {c \in STRING : \E s \in Inserts \cup Offers : \E i \in 1..Len(s) : s[i] = c}

\* A line, or what is put into one: it begins on a character boundary.
Text(s) == s \in Seq(Bytes) /\ (s # <<>> => s[1] # "t")

LEMMA InsertedTexts == \A s \in Inserts \cup Offers : Text(s)
<1> TAKE s \in Inserts \cup Offers
<1>1. s \in Seq(STRING)
  BY AssistAssumption
<1>2. \A i \in 1..Len(s) : s[i] \in Bytes
  BY <1>1 DEF Bytes
<1>3. s \in Seq(Bytes)
  BY <1>1, <1>2
<1> QED
  BY <1>3, TextsAssumption DEF Text

LEMMA EmptyText == Text(<<>>)
BY DEF Text

\* Sequences are equal when their elements are.
LEMMA SameElements ==
    ASSUME NEW S, NEW s \in Seq(S), NEW u \in Seq(S), Len(s) = Len(u),
           \A i \in 1..Len(s) : s[i] = u[i]
    PROVE  s = u
OBVIOUS

LEMMA Concatenated ==
    ASSUME NEW S, NEW a \in Seq(S), NEW b \in Seq(S)
    PROVE  /\ a \o b \in Seq(S) /\ Len(a \o b) = Len(a) + Len(b)
           /\ \A i \in 1..Len(a) : (a \o b)[i] = a[i]
           /\ \A i \in 1..Len(b) : (a \o b)[Len(a) + i] = b[i]
<1>1. a \o b \in Seq(S) /\ Len(a \o b) = Len(a) + Len(b)
  OBVIOUS
<1>2. \A i \in 1..Len(a) : (a \o b)[i] = a[i]
  OBVIOUS
<1>3. \A i \in 1..Len(b) : (a \o b)[Len(a) + i] = b[i]
  OBVIOUS
<1> QED
  BY <1>1, <1>2, <1>3

IsReplaced(u, S, s, from, to, new) ==
    /\ u \in Seq(S)
    /\ Len(u) = Len(s) - (to - from) + Len(new)
    /\ \A i \in 1..from : u[i] = s[i]
    /\ \A i \in 1..Len(new) : u[from + i] = new[i]
    /\ \A i \in (from + Len(new) + 1)..Len(u) : u[i] = s[i - Len(new) + (to - from)]

LEMMA Replaced ==
    ASSUME NEW S, NEW s \in Seq(S), NEW new \in Seq(S), NEW from \in Nat, NEW to \in Nat,
           from <= to, to <= Len(s)
    PROVE  IsReplaced(L!Replace(s, from, to, new), S, s, from, to, new)
<1> DEFINE a == SubSeq(s, 1, from)
           z == SubSeq(s, to + 1, Len(s))
           u == L!Replace(s, from, to, new)
<1>1. a \in Seq(S) /\ Len(a) = from /\ \A i \in 1..from : a[i] = s[i]
  OBVIOUS
<1>2. z \in Seq(S) /\ Len(z) = Len(s) - to /\ \A i \in 1..(Len(s) - to) : z[i] = s[to + i]
  OBVIOUS
<1>3. u = (a \o new) \o z
  BY DEF L!Replace
<1> HIDE DEF a, z, u
<1> DEFINE v == a \o new
<1>4. /\ v \in Seq(S) /\ Len(v) = from + Len(new)
      /\ \A i \in 1..from : v[i] = s[i]
      /\ \A i \in 1..Len(new) : v[from + i] = new[i]
  <2>1. /\ v \in Seq(S) /\ Len(v) = Len(a) + Len(new)
        /\ \A i \in 1..Len(a) : v[i] = a[i]
        /\ \A i \in 1..Len(new) : v[Len(a) + i] = new[i]
    BY <1>1, Concatenated
  <2> QED
    BY <1>1, <2>1
<1>5. u = v \o z
  BY <1>3
<1> HIDE DEF v
<1>6. /\ u \in Seq(S) /\ Len(u) = Len(v) + Len(z)
      /\ \A i \in 1..Len(v) : u[i] = v[i]
      /\ \A i \in 1..Len(z) : u[Len(v) + i] = z[i]
  <2>1. /\ v \o z \in Seq(S) /\ Len(v \o z) = Len(v) + Len(z)
        /\ \A i \in 1..Len(v) : (v \o z)[i] = v[i]
        /\ \A i \in 1..Len(z) : (v \o z)[Len(v) + i] = z[i]
    <3>1. v \in Seq(S) /\ z \in Seq(S)
      BY <1>2, <1>4
    <3> QED
      BY <3>1, Concatenated
  <2> QED
    BY <1>5, <2>1
<1>7. Len(new) \in Nat /\ Len(s) \in Nat /\ Len(u) = Len(s) - (to - from) + Len(new)
  BY <1>2, <1>4, <1>6
<1>8. /\ \A i \in 1..from : u[i] = s[i]
      /\ \A i \in 1..Len(new) : u[from + i] = new[i]
  <2>1. \A i \in 1..from : i \in 1..Len(v)
    BY <1>4, <1>7
  <2>2. \A i \in 1..Len(new) : from + i \in 1..Len(v)
    BY <1>4, <1>7
  <2> QED
    BY <1>4, <1>6, <2>1, <2>2
<1>9. \A i \in (from + Len(new) + 1)..Len(u) : u[i] = s[i - Len(new) + (to - from)]
  <2> TAKE i \in (from + Len(new) + 1)..Len(u)
  <2> DEFINE j == i - Len(v)
  <2>1. j \in 1..Len(z) /\ Len(v) + j = i /\ to + j = i - Len(new) + (to - from)
    BY <1>2, <1>4, <1>6, <1>7
  <2> HIDE DEF j
  <2>2. u[i] = z[j] /\ z[j] = s[to + j]
    BY <1>2, <1>6, <2>1
  <2> QED
    BY <2>1, <2>2
<1>10. /\ u \in Seq(S)
       /\ Len(u) = Len(s) - (to - from) + Len(new)
       /\ \A i \in 1..from : u[i] = s[i]
       /\ \A i \in 1..Len(new) : u[from + i] = new[i]
       /\ \A i \in (from + Len(new) + 1)..Len(u) : u[i] = s[i - Len(new) + (to - from)]
  BY <1>6, <1>7, <1>8, <1>9
<1>11. IsReplaced(u, S, s, from, to, new)
  BY <1>10 DEF IsReplaced
<1> QED
  BY <1>11 DEF u

-----------------------------------------------------------------------------
(* One edit leads from a text to a text, and back. *)

EditOK(e, s, u) ==
    /\ Text(s) /\ Text(u)
    /\ e.removed \in Seq(Bytes) /\ e.inserted \in Seq(Bytes)
    /\ L!Fits(s, e.at, e.at + Len(e.removed))
    /\ L!Fits(u, e.at, e.at + Len(e.inserted))
    /\ u = L!Replace(s, e.at, e.at + Len(e.removed), e.inserted)
    /\ s = L!Replace(u, e.at, e.at + Len(e.inserted), e.removed)
    /\ L!IsBoundary(s, e.before)

LEMMA FitsInside ==
    ASSUME NEW S, NEW s \in Seq(S), NEW from, NEW to, L!Fits(s, from, to)
    PROVE  from \in Nat /\ to \in Nat /\ from <= to /\ to <= Len(s)
BY DEF L!Fits, L!IsBoundary

LEMMA MadeEdit ==
    ASSUME NEW s, Text(s), NEW new, Text(new), NEW from, NEW to, NEW before,
           L!Fits(s, from, to), L!IsBoundary(s, before)
    PROVE  EditOK([at |-> from, removed |-> SubSeq(s, from + 1, to), inserted |-> new,
                   before |-> before],
                  s, L!Replace(s, from, to, new))
<1> DEFINE removed == SubSeq(s, from + 1, to)
           u == L!Replace(s, from, to, new)
           back == L!Replace(u, from, from + Len(new), removed)
<1>1. /\ s \in Seq(Bytes) /\ new \in Seq(Bytes) /\ Len(s) \in Nat /\ Len(new) \in Nat
      /\ from \in Nat /\ to \in Nat /\ from <= to /\ to <= Len(s)
  BY FitsInside DEF Text
<1>2. /\ removed \in Seq(Bytes) /\ Len(removed) = to - from
      /\ \A i \in 1..(to - from) : removed[i] = s[from + i]
  BY <1>1
<1>3. /\ u \in Seq(Bytes) /\ Len(u) = Len(s) - (to - from) + Len(new)
      /\ \A i \in 1..from : u[i] = s[i]
      /\ \A i \in 1..Len(new) : u[from + i] = new[i]
      /\ \A i \in (from + Len(new) + 1)..Len(u) : u[i] = s[i - Len(new) + (to - from)]
  <2>1. IsReplaced(u, Bytes, s, from, to, new)
    BY <1>1, Replaced
  <2> HIDE DEF u
  <2> QED
    BY <2>1 DEF IsReplaced
<1>4. from + Len(removed) = to
  BY <1>1, <1>2
<1> HIDE DEF removed, u
<1>5. from + Len(new) \in Nat /\ from <= from + Len(new) /\ from + Len(new) <= Len(u)
  BY <1>1, <1>3
<1>6. /\ back \in Seq(Bytes)
      /\ Len(back) = Len(u) - Len(new) + Len(removed)
      /\ \A i \in 1..from : back[i] = u[i]
      /\ \A i \in 1..Len(removed) : back[from + i] = removed[i]
      /\ \A i \in (from + Len(removed) + 1)..Len(back) :
            back[i] = u[i - Len(removed) + Len(new)]
  <2> DEFINE end == from + Len(new)
  <2>1. end - from = Len(new)
    BY <1>1
  <2>2. from \in Nat /\ end \in Nat /\ from <= end /\ end <= Len(u)
    BY <1>1, <1>5
  <2>3. u \in Seq(Bytes) /\ removed \in Seq(Bytes)
    BY <1>2, <1>3
  <2> HIDE DEF end
  <2>4. back = L!Replace(u, from, end, removed)
    BY DEF end
  <2>5. IsReplaced(back, Bytes, u, from, end, removed)
    BY <2>2, <2>3, <2>4, Replaced
  <2> HIDE DEF back
  <2>6. /\ back \in Seq(Bytes)
        /\ Len(back) = Len(u) - (end - from) + Len(removed)
        /\ \A i \in 1..from : back[i] = u[i]
        /\ \A i \in 1..Len(removed) : back[from + i] = removed[i]
        /\ \A i \in (from + Len(removed) + 1)..Len(back) :
              back[i] = u[i - Len(removed) + (end - from)]
    BY <2>5 DEF IsReplaced
  <2> QED
    BY <2>1, <2>6
<1> HIDE DEF back
<1>7. back = s
  <2>1. Len(back) = Len(s)
    BY SMTT(30), <1>1, <1>2, <1>3, <1>6
  <2>2. \A i \in 1..Len(back) : back[i] = s[i]
    <3> TAKE i \in 1..Len(back)
    <3>1. CASE i <= from
      BY <1>1, <1>3, <1>6, <3>1
    <3>2. CASE i > from /\ i <= to
      <4>1. i - from \in 1..(to - from) /\ from + (i - from) = i
        BY <1>1, <3>2
      <4> QED
        BY <1>2, <1>6, <4>1
    <3>3. CASE i > to
      <4> DEFINE j == i - Len(removed) + Len(new)
      <4>1. i \in (from + Len(removed) + 1)..Len(back)
        BY <1>1, <1>4, <2>1, <3>3
      <4>2. back[i] = u[j]
        BY <1>6, <4>1
      <4>3. j \in (from + Len(new) + 1)..Len(u) /\ j - Len(new) + (to - from) = i
        BY <1>1, <1>2, <1>3, <2>1, <3>3
      <4> QED
        BY <1>3, <4>2, <4>3
    <3> QED
      BY <1>1, <3>1, <3>2, <3>3
  <2> QED
    BY <1>1, <1>6, <2>1, <2>2, SameElements
<1>8. L!IsBoundary(u, from + Len(new))
  <2>1. CASE to = Len(s)
    BY <1>1, <1>3, <2>1 DEF L!IsBoundary
  <2>2. CASE to < Len(s)
    <3>1. s[to + 1] # "t"
      BY <1>1, <2>2 DEF L!Fits, L!IsBoundary
    <3>2. u[from + Len(new) + 1] = s[to + 1] /\ from + Len(new) \in 0..(Len(u) - 1)
      <4>1. from + Len(new) + 1 \in (from + Len(new) + 1)..Len(u)
        BY <1>1, <1>3, <2>2
      <4>2. (from + Len(new) + 1) - Len(new) + (to - from) = to + 1
        BY <1>1
      <4> QED
        BY <1>1, <1>3, <4>1, <4>2
    <3> QED
      BY <3>1, <3>2 DEF L!IsBoundary
  <2> QED
    BY <1>1, <2>1, <2>2
<1>9. L!IsBoundary(u, from)
  <2>1. CASE new = <<>>
    BY <1>1, <1>8, <2>1
  <2>2. CASE new # <<>>
    <3>1. 1 \in 1..Len(new) /\ new[1] # "t"
      BY <1>1, <2>2 DEF Text
    <3>2. u[from + 1] = new[1] /\ from \in 0..(Len(u) - 1)
      BY <1>1, <1>3, <3>1
    <3> QED
      BY <3>1, <3>2 DEF L!IsBoundary
  <2> QED
    BY <2>1, <2>2
<1>10. Text(u)
  <2>1. SUFFICES ASSUME u # <<>> PROVE u[1] # "t"
    BY <1>3 DEF Text
  <2>2. Len(u) > 0
    BY <1>3, <2>1
  <2>3. CASE from > 0
    BY <1>1, <1>3, <2>3 DEF Text
  <2>4. CASE from = 0
    BY <1>9, <2>2, <2>4 DEF L!IsBoundary
  <2> QED
    BY <1>1, <2>3, <2>4
<1>11. L!Fits(u, from, from + Len(new))
  BY <1>1, <1>8, <1>9 DEF L!Fits
<1> QED
  BY <1>1, <1>2, <1>4, <1>7, <1>10, <1>11 DEF EditOK, u, removed, back
-----------------------------------------------------------------------------
(* A transaction leads from a text to a text, edit by edit. *)

\* The texts on the way.
Chain(w, t, s, u) ==
    /\ w = [i \in 1..(Len(t) + 1) |-> w[i]]
    /\ w[1] = s /\ w[Len(t) + 1] = u
    /\ \A i \in 1..Len(t) : EditOK(t[i], w[i], w[i + 1])

Leads(t, s, u) == List(t) /\ Text(s) /\ Text(u) /\ \E w : Chain(w, t, s, u)

LEMMA LeadsNowhere ==
    /\ \A s : Text(s) => Leads(<<>>, s, s)
    /\ \A s, u : Leads(<<>>, s, u) => s = u
<1>1. ASSUME NEW s, Text(s) PROVE Leads(<<>>, s, s)
  <2> DEFINE w == [i \in 1..1 |-> s]
  <2>1. Chain(w, <<>>, s, s)
    BY DEF Chain
  <2> QED
    BY <1>1, <2>1, EmptyLists DEF Leads
<1>2. ASSUME NEW s, NEW u, Leads(<<>>, s, u) PROVE s = u
  <2>1. PICK w : Chain(w, <<>>, s, u)
    BY <1>2 DEF Leads
  <2> QED
    BY <2>1 DEF Chain
<1> QED
  BY <1>1, <1>2

LEMMA LeadsOn ==
    ASSUME NEW t, NEW s, NEW u, NEW v, NEW e, Leads(t, s, u), EditOK(e, u, v)
    PROVE  Leads(Append(t, e), s, v)
<1>1. PICK w : Chain(w, t, s, u)
  BY DEF Leads
<1>2. PICK S : t \in Seq(S)
  BY DEF Leads, List
<1> DEFINE n == Len(t)
           x == [i \in 1..(n + 2) |-> IF i <= n + 1 THEN w[i] ELSE v]
           a == Append(t, e)
<1>3. n \in Nat /\ Len(a) = n + 1 /\ a[n + 1] = e /\ \A i \in 1..n : a[i] = t[i]
  BY <1>2
<1>4. x[1] = s /\ x[n + 1] = u /\ x[n + 2] = v
  BY <1>1, <1>3 DEF Chain
<1>5. \A i \in 1..(n + 1) : EditOK(a[i], x[i], x[i + 1])
  <2> TAKE i \in 1..(n + 1)
  <2>1. CASE i <= n
    <3>1. i \in 1..n /\ x[i] = w[i] /\ x[i + 1] = w[i + 1]
      BY <1>3, <2>1
    <3> QED
      BY <1>1, <1>3, <3>1 DEF Chain
  <2>2. CASE i = n + 1
    BY <1>3, <1>4, <2>2
  <2> QED
    BY <1>3, <2>1, <2>2
<1>6. x = [i \in 1..(Len(a) + 1) |-> x[i]]
  BY <1>3
<1> HIDE DEF x, a
<1>7. Chain(x, a, s, v)
  <2>1. Len(a) = n + 1 /\ x[Len(a) + 1] = v
    BY <1>3, <1>4
  <2>2. \A i \in 1..Len(a) : EditOK(a[i], x[i], x[i + 1])
    BY <1>5, <2>1
  <2> QED
    BY <1>4, <1>6, <2>1, <2>2, Zenon DEF Chain
<1>8. List(a)
  BY AppendLists DEF Leads, a
<1> QED
  BY <1>7, <1>8 DEF Leads, EditOK, a

LEMMA LeadsOnce ==
    ASSUME NEW s, NEW u, NEW e, EditOK(e, s, u)
    PROVE  Leads(<<e>>, s, u)
<1>1. Leads(Append(<<>>, e), s, u)
  BY LeadsNowhere, LeadsOn DEF EditOK
<1>2. Append(<<>>, e) = <<e>>
  OBVIOUS
<1> QED
  BY <1>1, <1>2

\* Two functions that agree at one end and keep agreeing agree everywhere.
LEMMA Upwards ==
    ASSUME NEW g, NEW h, NEW n \in Nat, g[0] = h[0],
           \A i \in 1..n : g[i - 1] = h[i - 1] => g[i] = h[i]
    PROVE  \A i \in 0..n : g[i] = h[i]
<1> DEFINE T == {i \in 0..n : g[i] # h[i]}
<1> SUFFICES ASSUME T # {} PROVE FALSE
  OBVIOUS
<1>1. T \subseteq Nat
  OBVIOUS
<1>2. PICK m \in T : \A k \in T : m <= k
  <2> HIDE DEF T
  <2> QED
    BY <1>1, Least
<1>3. m \in 1..n /\ m - 1 \in 0..n /\ m - 1 \notin T
  BY <1>2
<1> QED
  BY <1>2, <1>3

LEMMA Downwards ==
    ASSUME NEW g, NEW h, NEW n \in Nat, g[n + 1] = h[n + 1],
           \A i \in 1..n : g[i + 1] = h[i + 1] => g[i] = h[i]
    PROVE  \A i \in 1..(n + 1) : g[i] = h[i]
<1> DEFINE x == [i \in 0..n |-> g[n + 1 - i]]
           y == [i \in 0..n |-> h[n + 1 - i]]
<1>1. x[0] = y[0]
  OBVIOUS
<1>2. \A i \in 1..n : x[i - 1] = y[i - 1] => x[i] = y[i]
  <2> TAKE i \in 1..n
  <2>1. n + 1 - i \in 1..n /\ (n + 1 - i) + 1 = n + 1 - (i - 1) /\ i \in 0..n /\ i - 1 \in 0..n
    OBVIOUS
  <2> QED
    BY <2>1
<1>3. \A i \in 0..n : x[i] = y[i]
  <2> HIDE DEF x, y
  <2> QED
    BY <1>1, <1>2, Upwards
<1> TAKE i \in 1..(n + 1)
<1>4. n + 1 - i \in 0..n /\ n + 1 - (n + 1 - i) = i
  OBVIOUS
<1> QED
  BY <1>3, <1>4

\* What the refinement mapping computes of a transaction.
LEMMA UndoneLeads ==
    ASSUME NEW t, NEW s, NEW u, Leads(t, s, u)
    PROVE  L!Undone(t, u) = s
<1> DEFINE n == Len(t)
           Is(g) == g = [i \in 1..(n + 1) |->
                          IF i > n THEN u
                          ELSE L!Replace(g[i + 1], t[i].at, t[i].at + Len(t[i].inserted),
                                         t[i].removed)]
           f == CHOOSE g : Is(g)
<1>1. L!Undone(t, u) = f[1]
  BY DEF L!Undone
<1>2. n \in Nat
  BY DEF Leads, List
<1>3. PICK w : Chain(w, t, s, u)
  BY DEF Leads
<1>4. \A i \in 1..(n + 1) :
        w[i] = IF i > n THEN u
               ELSE L!Replace(w[i + 1], t[i].at, t[i].at + Len(t[i].inserted), t[i].removed)
  <2>1. \A i \in 1..n :
          w[i] = L!Replace(w[i + 1], t[i].at, t[i].at + Len(t[i].inserted), t[i].removed)
    BY <1>3, Zenon DEF Chain, EditOK
  <2>2. w[n + 1] = u
    BY <1>3 DEF Chain
  <2> QED
    BY <1>2, <2>1, <2>2
<1>5. Is(w)
  BY <1>3, <1>4, Zenon DEF Chain
<1>6. Is(f)
  BY <1>5
<1> HIDE DEF f
<1>7. f[n + 1] = w[n + 1] /\ \A i \in 1..n : f[i + 1] = w[i + 1] => f[i] = w[i]
  <2>1. \A i \in 1..(n + 1) :
          f[i] = IF i > n THEN u
                 ELSE L!Replace(f[i + 1], t[i].at, t[i].at + Len(t[i].inserted), t[i].removed)
    BY <1>6
  <2> QED
    BY <1>2, <1>4, <2>1
<1>8. \A i \in 1..(n + 1) : f[i] = w[i]
  BY <1>2, <1>7, Downwards
<1>9. w[n + 1] = u /\ w[1] = s
  BY <1>3 DEF Chain
<1> QED
  BY <1>1, <1>2, <1>8, <1>9

LEMMA RedoneLeads ==
    ASSUME NEW t, NEW s, NEW u, Leads(t, s, u)
    PROVE  L!Redone(t, s) = u
<1> DEFINE n == Len(t)
           Is(g) == g = [i \in 0..n |->
                          IF i = 0 THEN s
                          ELSE L!Replace(g[i - 1], t[i].at, t[i].at + Len(t[i].removed),
                                         t[i].inserted)]
           f == CHOOSE g : Is(g)
<1>1. L!Redone(t, s) = f[n]
  BY DEF L!Redone
<1>2. n \in Nat
  BY DEF Leads, List
<1>3. PICK w : Chain(w, t, s, u)
  BY DEF Leads
<1> DEFINE x == [i \in 0..n |-> w[i + 1]]
<1>4. \A i \in 0..n :
        x[i] = IF i = 0 THEN s
               ELSE L!Replace(x[i - 1], t[i].at, t[i].at + Len(t[i].removed), t[i].inserted)
  <2> TAKE i \in 0..n
  <2>1. CASE i = 0
    BY <1>3, <2>1 DEF Chain
  <2>2. CASE i \in 1..n
    <3>1. x[i] = w[i + 1] /\ x[i - 1] = w[i]
      BY <1>2, <2>2
    <3> QED
      <4>1. w[i + 1] = L!Replace(w[i], t[i].at, t[i].at + Len(t[i].removed), t[i].inserted)
        BY <1>3, <2>2, Zenon DEF Chain, EditOK
      <4> HIDE DEF x
      <4> QED
        BY <2>2, <3>1, <4>1
  <2> QED
    BY <1>2, <2>1, <2>2
<1>5. Is(x)
  BY <1>4, Zenon
<1>6. Is(f)
  BY <1>5
<1> HIDE DEF f
<1>7. f[0] = x[0] /\ \A i \in 1..n : f[i - 1] = x[i - 1] => f[i] = x[i]
  <2>1. \A i \in 0..n :
          f[i] = IF i = 0 THEN s
                 ELSE L!Replace(f[i - 1], t[i].at, t[i].at + Len(t[i].removed), t[i].inserted)
    BY <1>6
  <2> HIDE DEF x
  <2> QED
    BY <1>2, <1>4, <2>1
<1>8. \A i \in 0..n : f[i] = x[i]
  <2> HIDE DEF x
  <2> QED
    BY <1>2, <1>7, Upwards
<1>9. w[n + 1] = u /\ w[1] = s
  BY <1>3 DEF Chain
<1> QED
  BY <1>1, <1>2, <1>8, <1>9
-----------------------------------------------------------------------------
(* The loops of reverse and forward walk along the transaction. *)

\* The same buffer with the text s and a cursor that fits it.
Carried(b, c, s) ==
    /\ IsBuf(c) /\ c.text = s /\ L!IsBoundary(s, c.cursor)
    /\ c.revision = b.revision /\ c.undo = b.undo /\ c.redo = b.redo
    /\ c.open = b.open /\ c.group = b.group /\ c.panicked = b.panicked

LEMMA CarriedOn ==
    ASSUME NEW b, IsBuf(b), NEW s, NEW cursor, L!IsBoundary(s, cursor)
    PROVE  Carried(b, [b EXCEPT !.text = s, !.cursor = cursor], s)
BY DEF IsBuf, BufFields, Carried

LEMMA RedrawnOn ==
    ASSUME NEW b, IsBuf(b), NEW e, NEW s, NEW u, EditOK(e, s, u)
    PROVE  /\ b.text = u =>
                Carried(b, L!Redrawn(b, [at |-> e.at, old |-> e.inserted, new |-> e.removed,
                                         cursor |-> e.before]), s)
           /\ b.text = s =>
                Carried(b, L!Redrawn(b, [at |-> e.at, old |-> e.removed, new |-> e.inserted,
                                         cursor |-> e.at + Len(e.inserted)]), u)
<1> DEFINE back == [at |-> e.at, old |-> e.inserted, new |-> e.removed, cursor |-> e.before]
           forth == [at |-> e.at, old |-> e.removed, new |-> e.inserted,
                     cursor |-> e.at + Len(e.inserted)]
<1>1. ASSUME b.text = u PROVE Carried(b, L!Redrawn(b, back), s)
  <2>1. L!Redrawn(b, back) = [b EXCEPT !.text = s, !.cursor = e.before]
    BY <1>1 DEF L!Redrawn, EditOK, IsBuf, BufFields
  <2>2. L!IsBoundary(s, e.before)
    BY DEF EditOK
  <2>3. Carried(b, [b EXCEPT !.text = s, !.cursor = e.before], s)
    BY <2>2, CarriedOn, Zenon
  <2> QED
    BY <2>1, <2>3, Zenon
<1>2. ASSUME b.text = s PROVE Carried(b, L!Redrawn(b, forth), u)
  <2>1. L!Redrawn(b, forth) = [b EXCEPT !.text = u, !.cursor = e.at + Len(e.inserted)]
    BY <1>2 DEF L!Redrawn, EditOK, IsBuf, BufFields
  <2>2. L!IsBoundary(u, e.at + Len(e.inserted))
    BY DEF EditOK, L!Fits
  <2>3. Carried(b, [b EXCEPT !.text = u, !.cursor = e.at + Len(e.inserted)], u)
    BY <2>2, CarriedOn, Zenon
  <2> QED
    BY <2>1, <2>3, Zenon
<1> QED
  BY <1>1, <1>2, Zenon

LEMMA CarriedAlong ==
    ASSUME NEW b, NEW c, NEW d, NEW s, NEW u, Carried(b, c, s), Carried(c, d, u)
    PROVE  Carried(b, d, u)
BY DEF Carried

\* A walk along n texts, one replacement from each to the next.
LEMMA Walked ==
    ASSUME NEW b, NEW rs, NEW x, NEW n \in Nat, Len(rs) = n, IsBuf(b), b.text = x[0],
           L!IsBoundary(b.text, b.cursor),
           \A i \in 1..n : \A c : IsBuf(c) /\ c.text = x[i - 1]
                                    => Carried(c, L!Redrawn(c, rs[i]), x[i])
    PROVE  Carried(b, L!Replayed(b, rs), x[n])
<1> DEFINE g == CHOOSE g : Replay(g, b, rs, n)
           T == {i \in 0..n : ~Carried(b, g[i], x[i])}
<1>1. L!Replayed(b, rs) = g[n]
  BY DEF L!Replayed, Replay
<1>2. Replay(g, b, rs, n)
  BY ReplayExists
<1> HIDE DEF g
<1>3. \A i \in 0..n : g[i] = IF i = 0 THEN b ELSE L!Redrawn(g[i - 1], rs[i])
  BY <1>2 DEF Replay
<1>4. Carried(b, g[0], x[0])
  BY <1>3 DEF Carried
<1>5. ASSUME T # {} PROVE FALSE
  <2>1. PICK m \in T : \A k \in T : m <= k
    <3>1. T \subseteq Nat
      OBVIOUS
    <3> HIDE DEF T
    <3> QED
      BY <1>5, <3>1, Least
  <2>2. m \in 1..n
    BY <1>4, <2>1
  <2>3. Carried(b, g[m - 1], x[m - 1]) /\ g[m] = L!Redrawn(g[m - 1], rs[m])
    BY <1>3, <2>1, <2>2
  <2>4. Carried(g[m - 1], g[m], x[m])
    BY <2>2, <2>3 DEF Carried
  <2>5. Carried(b, g[m], x[m])
    BY <2>3, <2>4, CarriedAlong
  <2> QED
    BY <2>1, <2>5
<1> QED
  BY <1>1, <1>5

LEMMA TakenBackLeads ==
    ASSUME NEW b, NEW t, NEW s, NEW u, IsBuf(b), Leads(t, s, u), b.text = u,
           L!IsBoundary(b.text, b.cursor)
    PROVE  Carried(b, L!Replayed(b, L!TakenBack(t)), s)
<1> DEFINE n == Len(t)
           rs == L!TakenBack(t)
<1>1. n \in Nat
  BY DEF Leads, List
<1>2. PICK w : Chain(w, t, s, u)
  BY DEF Leads
<1> DEFINE x == [i \in 0..n |-> w[n + 1 - i]]
<1>3. Len(rs) = n
  BY <1>1 DEF L!TakenBack
<1>4. x[0] = u /\ x[n] = s
  BY <1>1, <1>2 DEF Chain
<1>5. ASSUME NEW i \in 1..n, NEW c, IsBuf(c), c.text = x[i - 1]
      PROVE  Carried(c, L!Redrawn(c, rs[i]), x[i])
  <2> DEFINE j == n + 1 - i
             e == t[j]
  <2>1. j \in 1..n /\ x[i] = w[j] /\ x[i - 1] = w[j + 1]
    BY <1>1
  <2>2. EditOK(e, w[j], w[j + 1])
    BY <1>2, <2>1 DEF Chain
  <2>3. rs[i] = [at |-> e.at, old |-> e.inserted, new |-> e.removed, cursor |-> e.before]
    BY DEF L!TakenBack
  <2> HIDE DEF e, j, x, rs
  <2> QED
    BY <1>5, <2>1, <2>2, <2>3, RedrawnOn
<1> HIDE DEF x, rs, n
<1>6. \A i \in 1..n : \A c : IsBuf(c) /\ c.text = x[i - 1] => Carried(c, L!Redrawn(c, rs[i]), x[i])
  BY <1>5
<1>7. b.text = x[0]
  BY <1>4
<1>8. Carried(b, L!Replayed(b, rs), x[n])
  BY <1>1, <1>3, <1>6, <1>7, Walked, Zenon
<1> QED
  BY <1>4, <1>8 DEF rs

LEMMA MadeAgainLeads ==
    ASSUME NEW b, NEW t, NEW s, NEW u, IsBuf(b), Leads(t, s, u), b.text = s,
           L!IsBoundary(b.text, b.cursor)
    PROVE  Carried(b, L!Replayed(b, L!MadeAgain(t)), u)
<1> DEFINE n == Len(t)
           rs == L!MadeAgain(t)
<1>1. n \in Nat
  BY DEF Leads, List
<1>2. PICK w : Chain(w, t, s, u)
  BY DEF Leads
<1> DEFINE x == [i \in 0..n |-> w[i + 1]]
<1>3. Len(rs) = n
  BY <1>1 DEF L!MadeAgain
<1>4. x[0] = s /\ x[n] = u
  BY <1>1, <1>2 DEF Chain
<1>5. ASSUME NEW i \in 1..n, NEW c, IsBuf(c), c.text = x[i - 1]
      PROVE  Carried(c, L!Redrawn(c, rs[i]), x[i])
  <2> DEFINE e == t[i]
  <2>1. x[i] = w[i + 1] /\ x[i - 1] = w[i]
    BY <1>1
  <2>2. EditOK(e, w[i], w[i + 1])
    BY <1>2 DEF Chain
  <2>3. rs[i] = [at |-> e.at, old |-> e.removed, new |-> e.inserted,
                 cursor |-> e.at + Len(e.inserted)]
    BY DEF L!MadeAgain
  <2> HIDE DEF e, x, rs
  <2> QED
    BY <1>5, <2>1, <2>2, <2>3, RedrawnOn
<1> HIDE DEF x, rs, n
<1>6. \A i \in 1..n : \A c : IsBuf(c) /\ c.text = x[i - 1] => Carried(c, L!Redrawn(c, rs[i]), x[i])
  BY <1>5
<1>7. b.text = x[0]
  BY <1>4
<1>8. Carried(b, L!Replayed(b, rs), x[n])
  BY <1>1, <1>3, <1>6, <1>7, Walked, Zenon
<1> QED
  BY <1>4, <1>8 DEF rs

-----------------------------------------------------------------------------
(* Moving by a grapheme ends on a character boundary. *)

LEMMA Greatest ==
    ASSUME NEW T, NEW n \in Nat, T \subseteq 0..n, T # {}
    PROVE  L!Max(T) \in T /\ \A y \in T : y <= L!Max(T)
<1> DEFINE U == {n - x : x \in T}
<1>0. \A x \in T : x \in Nat /\ n - x \in Nat
  OBVIOUS
<1>1. U \subseteq Nat /\ U # {}
  BY <1>0
<1>2. PICK m \in U : \A k \in U : m <= k
  <2> HIDE DEF U
  <2> QED
    BY <1>1, Least
<1>3. PICK x \in T : m = n - x
  BY <1>2
<1>4. \A y \in T : x >= y
  <2> TAKE y \in T
  <2>1. m <= n - y
    BY <1>2
  <2> QED
    BY <1>0, <1>3, <2>1
<1>5. L!Max(T) \in T /\ \A y \in T : L!Max(T) >= y
  BY <1>3, <1>4 DEF L!Max
<1> QED
  BY <1>5

LEMMA Smallest ==
    ASSUME NEW T, T \subseteq Nat, T # {}
    PROVE  L!Min(T) \in T /\ \A y \in T : L!Min(T) <= y
BY Least DEF L!Min

LEMMA Ends ==
    ASSUME NEW s, Text(s)
    PROVE  L!IsBoundary(s, 0) /\ L!IsBoundary(s, Len(s))
BY DEF Text, L!IsBoundary

LEMMA BoundaryInside ==
    ASSUME NEW s, Text(s), NEW i, L!IsBoundary(s, i)
    PROVE  i \in 0..Len(s)
BY DEF Text, L!IsBoundary

LEMMA CharBefore ==
    ASSUME NEW s, Text(s), NEW at \in 1..Len(s)
    PROVE  L!PrevCharStart(s, at) \in 0..(at - 1) /\ L!IsBoundary(s, L!PrevCharStart(s, at))
<1> DEFINE T == {j \in 0..(at - 1) : L!IsBoundary(s, j)}
<1>1. T \subseteq 0..(at - 1) /\ 0 \in T /\ at - 1 \in Nat
  BY Ends DEF Text
<1>2. L!PrevCharStart(s, at) = L!Max(T)
  BY DEF L!PrevCharStart
<1>3. L!Max(T) \in T
  <2> HIDE DEF T
  <2> QED
    BY <1>1, Greatest
<1> QED
  BY <1>2, <1>3

LEMMA NextOnBoundary ==
    ASSUME NEW s, Text(s), NEW at, L!IsBoundary(s, at)
    PROVE  L!IsBoundary(s, L!NextGrapheme(s, at)) /\ L!NextGrapheme(s, at) # L!Underflow
<1> DEFINE T == {j \in (at + 1)..Len(s) :
                   L!IsBoundary(s, j) /\ (j = Len(s) \/ ~L!IsExtending(s[j + 1]))}
<1>1. at \in 0..Len(s) /\ Len(s) \in Nat
  BY BoundaryInside DEF Text
<1>2. CASE at >= Len(s)
  BY <1>1, <1>2, Ends DEF L!NextGrapheme, L!Underflow
<1>3. CASE at < Len(s)
  <2>1. T \subseteq Nat /\ Len(s) \in T
    BY <1>1, <1>3, Ends
  <2>2. L!NextGrapheme(s, at) = L!Min(T)
    BY <1>1, <1>3 DEF L!NextGrapheme
  <2>3. L!Min(T) \in T
    <3> HIDE DEF T
    <3> QED
      BY <2>1, Smallest
  <2> QED
    BY <1>1, <2>2, <2>3 DEF L!Underflow
<1> QED
  BY <1>1, <1>2, <1>3

\* One step of prev_grapheme at an offset, g being what it finds at lower ones.
BackFrom(g, s, at) ==
    LET c == L!PrevCharStart(s, at)
        before == L!PrevCharStart(s, c)
    IN  IF at = 0 THEN L!Underflow
        ELSE IF L!IsExtending(s[c + 1]) THEN IF c = 0 THEN 0 ELSE g[c]
        ELSE IF before < c /\ s[before + 1] = "z" THEN g[before]
        ELSE c

Backs(g, s, n) == g = [at \in 0..n |-> BackFrom(g, s, at)]

\* The offsets it looks at are lower ones.
LEMMA BackCases ==
    ASSUME NEW s, Text(s), NEW g, NEW at \in 1..Len(s)
    PROVE  \/ BackFrom(g, s, at) = 0
           \/ \E c \in 1..(at - 1) : BackFrom(g, s, at) = g[c]
           \/ /\ \E i \in 1..Len(s) : s[i] = "z"
              /\ \E c \in 0..(at - 1) : BackFrom(g, s, at) = g[c]
           \/ /\ BackFrom(g, s, at) \in 0..(at - 1) /\ L!IsBoundary(s, BackFrom(g, s, at))
<1> DEFINE c == L!PrevCharStart(s, at)
           before == L!PrevCharStart(s, c)
<1>1. c \in 0..(at - 1) /\ L!IsBoundary(s, c)
  BY CharBefore
<1>2. before < c => before \in 0..(c - 1)
  <2>1. CASE c = 0
    BY <2>1 DEF L!PrevCharStart
  <2>2. CASE c # 0
    <3>1. c \in 1..Len(s)
      BY <1>1, <2>2
    <3> QED
      BY <3>1, CharBefore
  <2> QED
    BY <2>1, <2>2
<1>3. BackFrom(g, s, at) =
        IF L!IsExtending(s[c + 1]) THEN IF c = 0 THEN 0 ELSE g[c]
        ELSE IF before < c /\ s[before + 1] = "z" THEN g[before]
        ELSE c
  BY DEF BackFrom
<1>4. CASE before < c /\ s[before + 1] = "z"
  <2>1. before + 1 \in 1..Len(s) /\ before \in 0..(at - 1)
    BY <1>1, <1>2, <1>4
  <2> HIDE DEF c, before
  <2> QED
    BY <1>1, <1>3, <1>4, <2>1
<1>5. CASE ~(before < c /\ s[before + 1] = "z")
  <2> HIDE DEF c, before
  <2> QED
    BY <1>1, <1>3, <1>5
<1> QED
  BY <1>4, <1>5

LEMMA BackLocal ==
    ASSUME NEW s, Text(s), NEW g, NEW h, NEW at \in 0..Len(s),
           \A j \in 0..(at - 1) : g[j] = h[j]
    PROVE  BackFrom(g, s, at) = BackFrom(h, s, at)
<1> DEFINE c == L!PrevCharStart(s, at)
           before == L!PrevCharStart(s, c)
<1>1. CASE at = 0
  BY <1>1 DEF BackFrom
<1>2. CASE at # 0
  <2>1. at \in 1..Len(s)
    BY <1>2
  <2>2. c \in 0..(at - 1)
    BY <2>1, CharBefore
  <2>3. before < c => before \in 0..(at - 1)
    <3>1. CASE c = 0
      BY <3>1 DEF L!PrevCharStart
    <3>2. CASE c # 0
      <4>1. c \in 1..Len(s)
        BY <2>2, <3>2
      <4> QED
        BY <2>2, <4>1, CharBefore
    <3> QED
      BY <3>1, <3>2
  <2>4. g[c] = h[c] /\ (before < c => g[before] = h[before])
    BY <2>2, <2>3
  <2> QED
    BY <2>4 DEF BackFrom
<1> QED
  BY <1>1, <1>2

LEMMA BackExists ==
    ASSUME NEW s, Text(s)
    PROVE  \E g : Backs(g, s, Len(s))
<1> DEFINE N == Len(s)
           T == {m \in 0..N : ~ \E g : Backs(g, s, m)}
<1>0. N \in Nat
  BY DEF Text
<1>1. ASSUME T # {} PROVE FALSE
  <2>1. PICK m \in T : \A k \in T : m <= k
    <3>1. T \subseteq Nat
      OBVIOUS
    <3> HIDE DEF T
    <3> QED
      BY <1>1, <3>1, Least
  <2>2. m # 0
    <3> DEFINE g == [i \in 0..0 |-> L!Underflow]
    <3>1. \A i \in 0..0 : BackFrom(g, s, i) = L!Underflow
      BY DEF BackFrom
    <3>2. Backs(g, s, 0)
      BY <3>1 DEF Backs
    <3> QED
      BY <2>1, <3>2
  <2>3. m - 1 \in 0..N /\ m - 1 \notin T /\ m \in 1..N
    BY <1>0, <2>1, <2>2
  <2>4. PICK g : Backs(g, s, m - 1)
    BY <2>3
  <2> DEFINE h == [i \in 0..m |-> IF i <= m - 1 THEN g[i] ELSE BackFrom(g, s, m)]
  <2>5. \A i \in 0..(m - 1) : h[i] = g[i] /\ g[i] = BackFrom(g, s, i)
    BY <2>3, <2>4 DEF Backs
  <2>6. h[m] = BackFrom(g, s, m) /\ h = [i \in 0..m |-> h[i]]
    BY <2>3
  <2> HIDE DEF h
  <2>7. \A i \in 0..m : BackFrom(h, s, i) = BackFrom(g, s, i)
    <3> TAKE i \in 0..m
    <3>1. i \in 0..Len(s) /\ \A j \in 0..(i - 1) : h[j] = g[j]
      BY <1>0, <2>3, <2>5
    <3> QED
      BY <3>1, BackLocal
  <2>8. \A i \in 0..m : h[i] = BackFrom(h, s, i)
    BY SMTT(30), <2>3, <2>5, <2>6, <2>7
  <2>9. Backs(h, s, m)
    BY <2>6, <2>8, Zenon DEF Backs
  <2> QED
    BY <2>1, <2>9
<1> QED
  BY <1>0, <1>1

\* No joiner was ever inserted.
Joinerless == \A s \in Inserts \cup Offers : \A i \in 1..Len(s) : s[i] # "z"

LEMMA PrevOnBoundary ==
    ASSUME NEW s, Text(s), NEW at, L!IsBoundary(s, at)
    PROVE  LET prev == L!PrevGrapheme(s, at) IN
           /\ prev = L!Underflow \/ (prev \in 0..Len(s) /\ prev <= at /\ L!IsBoundary(s, prev))
           /\ Joinerless => prev # L!Underflow
<1> DEFINE N == Len(s)
           g == CHOOSE g : Backs(g, s, N)
           OK(i, k) == /\ k = L!Underflow \/ (k \in 0..i /\ L!IsBoundary(s, k))
                       /\ Joinerless => k # L!Underflow
           T == {i \in 1..N : ~OK(i, g[i])}
<1>1. L!PrevGrapheme(s, at) = IF at = 0 THEN 0 ELSE g[at]
  BY DEF L!PrevGrapheme, Backs, BackFrom
<1>2. Backs(g, s, N)
  BY BackExists
<1> HIDE DEF g
<1>3. \A i \in 0..N : g[i] = BackFrom(g, s, i)
  BY <1>2 DEF Backs
<1>4. N \in Nat /\ at \in 0..N
  BY BoundaryInside DEF Text
<1>5. Joinerless => ~ \E i \in 1..Len(s) : s[i] = "z"
  BY DEF Joinerless, Text, Bytes
<1>6. L!IsBoundary(s, 0)
  BY Ends
<1>7. g[0] = L!Underflow
  BY <1>3, <1>4 DEF BackFrom
<1>8. ASSUME T # {} PROVE FALSE
  <2>1. PICK m \in T : \A k \in T : m <= k
    <3>1. T \subseteq Nat
      OBVIOUS
    <3> HIDE DEF T
    <3> QED
      BY <1>8, <3>1, Least
  <2>2. m \in 1..N /\ \A c \in 1..(m - 1) : OK(c, g[c])
    BY <1>4, <2>1
  <2>3. g[m] = BackFrom(g, s, m) /\ ~OK(m, g[m])
    BY <1>3, <2>1
  <2>4. CASE g[m] = 0
    BY <1>6, <2>2, <2>3, <2>4 DEF L!Underflow
  <2>5. ASSUME NEW c \in 1..(m - 1), g[m] = g[c] PROVE FALSE
    BY <2>2, <2>3, <2>5
  <2>6. ASSUME ~Joinerless, NEW c \in 0..(m - 1), g[m] = g[c] PROVE FALSE
    <3>1. CASE c = 0
      BY <1>7, <2>3, <2>6, <3>1
    <3>2. CASE c # 0
      BY <2>2, <2>5, <2>6, <3>2
    <3> QED
      BY <3>1, <3>2
  <2>7. CASE g[m] \in 0..(m - 1) /\ L!IsBoundary(s, g[m])
    BY <2>2, <2>3, <2>7 DEF L!Underflow
  <2> QED
    BY <1>5, <2>2, <2>3, <2>4, <2>5, <2>6, <2>7, BackCases
<1>9. CASE at = 0
  BY <1>1, <1>4, <1>6, <1>9 DEF L!Underflow
<1>10. CASE at # 0
  <2>1. OK(at, g[at])
    BY <1>4, <1>8, <1>10
  <2> QED
    BY <1>1, <1>4, <1>10, <2>1
<1> QED
  BY <1>9, <1>10

-----------------------------------------------------------------------------
(* The stacks stand for the texts they lead to. *)

\* A transaction of the undo stack leads from a text to the next, one of the redo stack from
\* the next text back to it.
Way(back, t, s, u) == IF back THEN Leads(t, s, u) ELSE Leads(t, u, s)

NextText(P, i, s) == IF i = Len(P) THEN s ELSE P[i + 1]

Trail(back, u, P, s) ==
    /\ P \in Seq(Seq(Bytes)) /\ Len(P) = Len(u)
    /\ \A i \in 1..Len(P) : Way(back, u[i], P[i], NextText(P, i, s))

LEMMA TrailNil == \A back, s : Trail(back, <<>>, <<>>, s)
BY DEF Trail

LEMMA TrailPush ==
    ASSUME NEW back, NEW u, NEW P, NEW s, NEW v, NEW t,
           List(u), Text(s), Trail(back, u, P, s), Way(back, t, s, v)
    PROVE  Trail(back, Append(u, t), Append(P, s), v)
<1> DEFINE n == Len(P)
           R == Append(P, s)
           a == Append(u, t)
<1>1. P \in Seq(Seq(Bytes)) /\ s \in Seq(Bytes) /\ n \in Nat /\ Len(u) = n
  BY DEF Trail, Text
<1>2. R \in Seq(Seq(Bytes)) /\ Len(R) = n + 1 /\ R[n + 1] = s /\ \A i \in 1..n : R[i] = P[i]
  BY <1>1
<1>3. Len(a) = n + 1 /\ a[n + 1] = t /\ \A i \in 1..n : a[i] = u[i]
  <2>1. PICK S : u \in Seq(S)
    BY DEF List
  <2> QED
    BY <1>1, <2>1
<1> HIDE DEF R, a
<1>4. \A i \in 1..(n + 1) : Way(back, a[i], R[i], NextText(R, i, v))
  <2> TAKE i \in 1..(n + 1)
  <2>1. CASE i = n + 1
    BY <1>2, <1>3, <2>1 DEF NextText
  <2>2. CASE i # n + 1
    <3>1. i \in 1..n /\ Way(back, u[i], P[i], NextText(P, i, s))
      BY <1>1, <2>2 DEF Trail
    <3>2. NextText(R, i, v) = NextText(P, i, s)
      BY SMTT(30), <1>1, <1>2, <3>1 DEF NextText
    <3> QED
      BY <1>2, <1>3, <3>1, <3>2
  <2> QED
    BY <2>1, <2>2
<1> QED
  BY <1>2, <1>3, <1>4 DEF Trail, R, a

LEMMA TrailPop ==
    ASSUME NEW back, NEW u, NEW P, NEW s, Nested(u), u # <<>>, Trail(back, u, P, s)
    PROVE  /\ P # <<>> /\ L!Last(P) = P[Len(P)] /\ L!Front(P) = SubSeq(P, 1, Len(P) - 1)
           /\ Way(back, L!Last(u), L!Last(P), s)
           /\ Trail(back, L!Front(u), L!Front(P), L!Last(P))
<1> DEFINE n == Len(P)
           R == SubSeq(P, 1, n - 1)
           a == SubSeq(u, 1, n - 1)
<1>1. P \in Seq(Seq(Bytes)) /\ n \in Nat /\ Len(u) = n
  BY DEF Trail
<1>2. PICK S : u \in Seq(S)
  BY DEF Nested, List
<1>3. n # 0 /\ P # <<>>
  BY <1>1, <1>2
<1>4. L!Last(P) = P[n] /\ L!Last(u) = u[n] /\ L!Front(P) = R /\ L!Front(u) = a
  BY <1>1 DEF L!Last, L!Front
<1>5. R \in Seq(Seq(Bytes)) /\ Len(R) = n - 1 /\ \A i \in 1..(n - 1) : R[i] = P[i]
  BY <1>1, <1>3
<1>6. Len(a) = n - 1 /\ \A i \in 1..(n - 1) : a[i] = u[i]
  BY <1>1, <1>2, <1>3
<1>7. Way(back, u[n], P[n], s)
  <2>1. n \in 1..n /\ NextText(P, n, s) = s
    BY <1>1, <1>3 DEF NextText
  <2> QED
    BY <2>1 DEF Trail
<1> HIDE DEF R, a
<1>8. \A i \in 1..(n - 1) : Way(back, a[i], R[i], NextText(R, i, P[n]))
  <2> TAKE i \in 1..(n - 1)
  <2>1. i \in 1..n /\ Way(back, u[i], P[i], NextText(P, i, s))
    BY <1>1, <1>3 DEF Trail
  <2>2. NextText(P, i, s) = P[i + 1]
    BY <1>1, <1>3 DEF NextText
  <2>3. NextText(R, i, P[n]) = P[i + 1]
    <3>1. CASE i = n - 1
      BY <1>1, <1>5, <3>1 DEF NextText
    <3>2. CASE i # n - 1
      <4>1. i + 1 \in 1..(n - 1)
        BY <1>1, <3>2
      <4> QED
        BY <1>1, <1>5, <3>2, <4>1 DEF NextText
    <3> QED
      BY <3>1, <3>2
  <2> QED
    BY <1>5, <1>6, <2>1, <2>2, <2>3
<1>9. Trail(back, a, R, P[n])
  BY <1>5, <1>6, <1>8 DEF Trail
<1> QED
  BY <1>3, <1>4, <1>7, <1>9 DEF R, a

\* The line: its text without the open group is s, undo leads to P and redo to Q.
Holds(b, s, P, Q) ==
    /\ IsBuf(b) /\ Text(b.text) /\ L!IsBoundary(b.text, b.cursor) /\ b.open \in BOOLEAN
    /\ Text(s) /\ Trail(TRUE, b.undo, P, s) /\ Trail(FALSE, b.redo, Q, s)
    /\ b.open => Leads(b.group, s, b.text)
    /\ ~b.open => b.group = <<>> /\ s = b.text
    /\ Joinerless => ~b.panicked

LEMMA Mapping ==
    ASSUME NEW s, NEW P, NEW Q, Holds(buf, s, P, Q)
    PROVE  L!Settled = s /\ L!Past = P /\ L!Future = Q
<1>1. L!Settled = s
  BY UndoneLeads DEF Holds, L!Settled
<1>2. L!Past = P
  <2> DEFINE n == Len(buf.undo)
             Is(g) == g = [i \in 1..(n + 1) |->
                             IF i > n THEN L!Settled ELSE L!Undone(buf.undo[i], g[i + 1])]
             f == CHOOSE g : Is(g)
             x == [i \in 1..(n + 1) |-> IF i = n + 1 THEN s ELSE P[i]]
  <2>1. L!Past = [i \in 1..n |-> f[i]]
    BY DEF L!Past
  <2>2. n \in Nat /\ Len(P) = n /\ P \in Seq(Seq(Bytes))
    BY DEF Holds, Trail
  <2>3. \A i \in 1..n : x[i] = L!Undone(buf.undo[i], x[i + 1])
    <3> TAKE i \in 1..n
    <3>1. Leads(buf.undo[i], P[i], NextText(P, i, s))
      BY <2>2 DEF Holds, Trail, Way
    <3>2. x[i] = P[i] /\ x[i + 1] = NextText(P, i, s)
      BY <2>2 DEF NextText
    <3> QED
      BY <3>1, <3>2, UndoneLeads
  <2>4. x = [i \in 1..(n + 1) |-> x[i]] /\ x[n + 1] = s
    BY <2>2
  <2> HIDE DEF x, n
  <2>5. \A i \in 1..(n + 1) : x[i] = IF i > n THEN L!Settled ELSE L!Undone(buf.undo[i], x[i + 1])
    <3> TAKE i \in 1..(n + 1)
    <3>1. CASE i = n + 1
      BY <1>1, <2>2, <2>4, <3>1
    <3>2. CASE i \in 1..n
      BY <2>2, <2>3, <3>2
    <3> QED
      BY <2>2, <3>1, <3>2
  <2>6. Is(x)
    BY <2>4, <2>5, Zenon
  <2>7. Is(f)
    BY <2>6
  <2> HIDE DEF f
  <2>8. \A i \in 1..(n + 1) : f[i] = IF i > n THEN L!Settled ELSE L!Undone(buf.undo[i], f[i + 1])
    BY <2>7
  <2>9. f[n + 1] = x[n + 1] /\ \A i \in 1..n : f[i + 1] = x[i + 1] => f[i] = x[i]
    <3>1. n + 1 \in 1..(n + 1) /\ n + 1 > n /\ \A i \in 1..n : i \in 1..(n + 1) /\ ~(i > n)
      BY <2>2
    <3> QED
      BY <2>5, <2>8, <3>1, Zenon
  <2>10. \A i \in 1..(n + 1) : f[i] = x[i]
    <3>1. n \in Nat
      BY <2>2
    <3> QED
      BY <2>9, <3>1, Downwards
  <2>11. \A i \in 1..n : f[i] = P[i]
    <3>1. \A i \in 1..n : i \in 1..(n + 1) /\ i # n + 1
      BY <2>2
    <3> QED
      BY <2>10, <3>1 DEF x
  <2> QED
    BY <2>1, <2>2, <2>11
<1>3. L!Future = Q
  <2> DEFINE n == Len(buf.redo)
             Is(g) == g = [i \in 1..(n + 1) |->
                             IF i > n THEN L!Settled ELSE L!Redone(buf.redo[i], g[i + 1])]
             f == CHOOSE g : Is(g)
             x == [i \in 1..(n + 1) |-> IF i = n + 1 THEN s ELSE Q[i]]
  <2>1. L!Future = [i \in 1..n |-> f[i]]
    BY DEF L!Future
  <2>2. n \in Nat /\ Len(Q) = n /\ Q \in Seq(Seq(Bytes))
    BY DEF Holds, Trail
  <2>3. \A i \in 1..n : x[i] = L!Redone(buf.redo[i], x[i + 1])
    <3> TAKE i \in 1..n
    <3>1. Leads(buf.redo[i], NextText(Q, i, s), Q[i])
      BY <2>2 DEF Holds, Trail, Way
    <3>2. x[i] = Q[i] /\ x[i + 1] = NextText(Q, i, s)
      BY <2>2 DEF NextText
    <3> QED
      BY <3>1, <3>2, RedoneLeads
  <2>4. x = [i \in 1..(n + 1) |-> x[i]] /\ x[n + 1] = s
    BY <2>2
  <2> HIDE DEF x, n
  <2>5. \A i \in 1..(n + 1) : x[i] = IF i > n THEN L!Settled ELSE L!Redone(buf.redo[i], x[i + 1])
    <3> TAKE i \in 1..(n + 1)
    <3>1. CASE i = n + 1
      BY <1>1, <2>2, <2>4, <3>1
    <3>2. CASE i \in 1..n
      BY <2>2, <2>3, <3>2
    <3> QED
      BY <2>2, <3>1, <3>2
  <2>6. Is(x)
    BY <2>4, <2>5, Zenon
  <2>7. Is(f)
    BY <2>6
  <2> HIDE DEF f
  <2>8. \A i \in 1..(n + 1) : f[i] = IF i > n THEN L!Settled ELSE L!Redone(buf.redo[i], f[i + 1])
    BY <2>7
  <2>9. f[n + 1] = x[n + 1] /\ \A i \in 1..n : f[i + 1] = x[i + 1] => f[i] = x[i]
    <3>1. n + 1 \in 1..(n + 1) /\ n + 1 > n /\ \A i \in 1..n : i \in 1..(n + 1) /\ ~(i > n)
      BY <2>2
    <3> QED
      BY <2>5, <2>8, <3>1, Zenon
  <2>10. \A i \in 1..(n + 1) : f[i] = x[i]
    <3>1. n \in Nat
      BY <2>2
    <3> QED
      BY <2>9, <3>1, Downwards
  <2>11. \A i \in 1..n : f[i] = Q[i]
    <3>1. \A i \in 1..n : i \in 1..(n + 1) /\ i # n + 1
      BY <2>2
    <3> QED
      BY <2>10, <3>1 DEF x
  <2> QED
    BY <2>1, <2>2, <2>11
<1> QED
  BY <1>1, <1>2, <1>3

-----------------------------------------------------------------------------
(* Every operation is a step of the editor with snapshots, or none. *)

Shown(s, P, Q, u, R, S) ==
    \/ u = s /\ R = P /\ S = Q
    \/ R = Append(P, s) /\ S = <<>>
    \/ P # <<>> /\ u = L!Last(P) /\ R = L!Front(P) /\ S = Append(Q, s)
    \/ Q # <<>> /\ u = L!Last(Q) /\ S = L!Front(Q) /\ R = Append(P, s)

ShownBy(s, P, Q, c) == \E u, R, S : Holds(c, u, R, S) /\ Shown(s, P, Q, u, R, S)

LEMMA HeldIsShown ==
    ASSUME NEW s, NEW P, NEW Q, NEW c, Holds(c, s, P, Q)
    PROVE  ShownBy(s, P, Q, c)
BY DEF ShownBy, Shown

LEMMA PanicHolds ==
    ASSUME NEW b, NEW s, NEW P, NEW Q, Holds(b, s, P, Q), ~Joinerless
    PROVE  Holds(L!Panic(b), s, P, Q) /\ L!Panic(b).open = b.open
<1> DEFINE c == L!Panic(b)
<1>1. IsBuf(c)
  BY PanicEffect DEF Kept, Holds
<1>2. /\ c.text = b.text /\ c.cursor = b.cursor /\ c.open = b.open /\ c.group = b.group
      /\ c.undo = b.undo /\ c.redo = b.redo
  BY DEF L!Panic, Holds, IsBuf, BufFields
<1> HIDE DEF c
<1> QED
  BY <1>1, <1>2 DEF Holds, c

LEMMA CursorHolds ==
    ASSUME NEW b, NEW s, NEW P, NEW Q, NEW at, Holds(b, s, P, Q), L!IsBoundary(b.text, at)
    PROVE  Holds([b EXCEPT !.cursor = at], s, P, Q)
<1> DEFINE c == [b EXCEPT !.cursor = at]
<1>1. /\ IsBuf(c)
      /\ c.text = b.text /\ c.cursor = at /\ c.open = b.open /\ c.group = b.group
      /\ c.undo = b.undo /\ c.redo = b.redo /\ c.panicked = b.panicked
  BY DEF Holds, IsBuf, BufFields
<1> HIDE DEF c
<1>2. Holds(c, s, P, Q)
  BY <1>1 DEF Holds
<1> QED
  BY <1>2 DEF c

LEMMA BeginHolds ==
    ASSUME NEW b, NEW s, NEW P, NEW Q, Holds(b, s, P, Q), ~b.open
    PROVE  /\ Holds(L!Begin(b), s, P, Q) /\ L!Begin(b).open
           /\ L!Begin(b).text = b.text /\ L!Begin(b).revision = b.revision
<1> DEFINE c == L!Begin(b)
<1>1. IsBuf(c)
  BY BeginEffect DEF Kept, Holds
<1>2. /\ c.text = b.text /\ c.cursor = b.cursor /\ c.open /\ c.open = TRUE /\ c.group = <<>>
      /\ c.undo = b.undo /\ c.redo = b.redo /\ c.panicked = b.panicked
      /\ c.revision = b.revision
  BY DEF L!Begin, Holds, IsBuf, BufFields
<1>3. Leads(<<>>, s, b.text)
  BY LeadsNowhere DEF Holds
<1> HIDE DEF c
<1>4. Holds(c, s, P, Q)
  BY <1>1, <1>2, <1>3 DEF Holds
<1> QED
  BY <1>2, <1>4 DEF c

LEMMA CommitHolds ==
    ASSUME NEW b, NEW s, NEW P, NEW Q, Holds(b, s, P, Q), b.open
    PROVE  ShownBy(s, P, Q, L!Commit(b))
<1> DEFINE c == L!Commit(b)
<1>1. IsBuf(c)
  BY CommitEffect DEF Kept, Holds
<1>2. /\ c.text = b.text /\ c.cursor = b.cursor /\ c.open = FALSE /\ c.group = <<>>
      /\ c.panicked = b.panicked
      /\ b.group # <<>> => c.undo = Append(b.undo, b.group) /\ c.redo = <<>>
      /\ b.group = <<>> => c.undo = b.undo /\ c.redo = b.redo
  BY DEF L!Commit, Holds, IsBuf, BufFields
<1>3. Leads(b.group, s, b.text) /\ Text(s) /\ Text(b.text)
  BY DEF Holds
<1> HIDE DEF c
<1>4. CASE b.group = <<>>
  <2>1. b.text = s
    BY <1>3, <1>4, LeadsNowhere
  <2>2. Holds(c, s, P, Q)
    BY <1>1, <1>2, <1>4, <2>1 DEF Holds
  <2> QED
    BY <2>2, HeldIsShown DEF c
<1>5. CASE b.group # <<>>
  <2>1. Trail(TRUE, c.undo, Append(P, s), b.text)
    <3>1. List(b.undo) /\ Trail(TRUE, b.undo, P, s) /\ Way(TRUE, b.group, s, b.text)
      BY <1>3 DEF Holds, IsBuf, Nested, Way
    <3> QED
      BY <1>2, <1>3, <1>5, <3>1, TrailPush
  <2>2. Trail(FALSE, c.redo, <<>>, b.text)
    BY <1>2, <1>5, TrailNil
  <2>3. Holds(c, b.text, Append(P, s), <<>>)
    BY <1>1, <1>2, <1>3, <2>1, <2>2 DEF Holds
  <2> QED
    BY <2>3 DEF ShownBy, Shown, c
<1> QED
  BY <1>4, <1>5

\* An edit of the line: part of the open group, or a change of its own.
LEMMA EditedHolds ==
    ASSUME NEW b, NEW s, NEW P, NEW Q, NEW from, NEW to, NEW new, Holds(b, s, P, Q), Text(new),
           Joinerless => L!Fits(b.text, from, to)
    PROVE  LET c == L!Edited(b, from, to, new) IN
           /\ ShownBy(s, P, Q, c)
           /\ b.open => Holds(c, s, P, Q) /\ c.open
<1>1. CASE ~L!Fits(b.text, from, to)
  BY <1>1, PanicHolds, HeldIsShown DEF L!Edited
<1>2. CASE L!Fits(b.text, from, to)
  <2> DEFINE text == L!Replace(b.text, from, to, new)
             cursor == from + Len(new)
             next == b.revision + 1
             d == [b EXCEPT !.text = text, !.cursor = cursor, !.revision = next]
             e == [at |-> from, removed |-> SubSeq(b.text, from + 1, to), inserted |-> new,
                   before |-> b.cursor]
             c == L!Edited(b, from, to, new)
  <2>1. c = L!Record(d, e)
    BY <1>2 DEF L!Edited
  <2>2. EditOK(e, b.text, text)
    BY <1>2, MadeEdit DEF Holds
  <2>3. L!IsBoundary(text, cursor) /\ Text(text)
    <3>1. e.at = from /\ e.inserted = new
      OBVIOUS
    <3> HIDE DEF e, text
    <3> QED
      BY <2>2, <3>1 DEF EditOK, L!Fits
  <2>4. next \in Int
    BY DEF Holds, IsBuf
  <2> HIDE DEF text, cursor, e, next
  <2>5. /\ IsBuf(d) /\ d.text = text /\ d.cursor = cursor /\ d.revision = next
        /\ d.undo = b.undo /\ d.redo = b.redo /\ d.open = b.open /\ d.group = b.group
        /\ d.panicked = b.panicked
    BY <2>4 DEF Holds, IsBuf, BufFields
  <2> HIDE DEF d
  <2>6. /\ c.text = text /\ c.cursor = cursor /\ c.open = b.open /\ c.panicked = b.panicked
        /\ b.open => c.undo = b.undo /\ c.redo = b.redo /\ c.group = Append(b.group, e)
        /\ ~b.open => c.undo = Append(b.undo, <<e>>) /\ c.redo = <<>> /\ c.group = b.group
    BY <2>1, <2>5 DEF L!Record, IsBuf, BufFields
  <2>7. IsBuf(c)
    BY <2>1, <2>5, RecordEffect DEF Kept
  <2> HIDE DEF c
  <2>8. CASE b.open
    <3>1. Leads(Append(b.group, e), s, text)
      BY <2>2, <2>8, LeadsOn DEF Holds
    <3>2. Holds(c, s, P, Q) /\ c.open
      BY <2>3, <2>6, <2>7, <2>8, <3>1 DEF Holds
    <3> QED
      BY <3>2, HeldIsShown DEF c
  <2>9. CASE ~b.open
    <3>1. s = b.text /\ b.group = <<>>
      BY <2>9 DEF Holds
    <3>2. Leads(<<e>>, s, text)
      BY <2>2, <3>1, LeadsOnce
    <3>3. Trail(TRUE, c.undo, Append(P, s), text)
      <4>1. List(b.undo) /\ Trail(TRUE, b.undo, P, s) /\ Way(TRUE, <<e>>, s, text) /\ Text(s)
        BY <3>2 DEF Holds, IsBuf, Nested, Way
      <4> QED
        BY <2>6, <2>9, <4>1, TrailPush
    <3>4. Trail(FALSE, c.redo, <<>>, text)
      BY <2>6, <2>9, TrailNil
    <3>5. Holds(c, text, Append(P, s), <<>>)
      BY <2>3, <2>6, <2>7, <2>9, <3>1, <3>3, <3>4 DEF Holds
    <3> QED
      BY <2>9, <3>5 DEF ShownBy, Shown, c
  <2> QED
    BY <2>8, <2>9
<1> QED
  BY <1>1, <1>2

LEMMA UndoHolds ==
    ASSUME NEW b, NEW s, NEW P, NEW Q, Holds(b, s, P, Q), ~b.open
    PROVE  ShownBy(s, P, Q, L!Undo(b))
<1>1. CASE b.undo = <<>>
  BY <1>1, HeldIsShown DEF L!Undo
<1>2. CASE b.undo # <<>>
  <2> DEFINE t == L!Last(b.undo)
             u == L!Last(P)
             x == L!Replayed(b, L!TakenBack(t))
             next == b.revision + 1
             c == L!Undo(b)
  <2>1. /\ P # <<>> /\ Way(TRUE, t, u, s) /\ Trail(TRUE, L!Front(b.undo), L!Front(P), u)
    BY <1>2, TrailPop DEF Holds, IsBuf
  <2>2. Leads(t, u, s) /\ s = b.text /\ b.group = <<>> /\ Text(u) /\ Text(s)
    BY <2>1 DEF Way, Holds, Leads
  <2>3. Carried(b, x, u)
    BY <2>2, TakenBackLeads DEF Holds
  <2>4. Trail(FALSE, Append(b.redo, t), Append(Q, s), u)
    <3>1. List(b.redo) /\ Trail(FALSE, b.redo, Q, s) /\ Way(FALSE, t, s, u)
      BY <2>2 DEF Holds, IsBuf, Nested, Way
    <3> QED
      BY <2>2, <3>1, TrailPush
  <2>5. c = [L!ReverseEdits(b, t) EXCEPT !.undo = L!Front(@), !.redo = Append(@, t)]
    BY <1>2 DEF L!Undo
  <2>6. L!ReverseEdits(b, t) = [x EXCEPT !.revision = next]
    BY <2>3 DEF L!ReverseEdits, Carried
  <2>7. IsBuf(c)
    BY UndoEffect DEF Told, Holds
  <2> HIDE DEF t, u, x, next
  <2>8. /\ c.text = u /\ c.cursor = x.cursor /\ c.open = b.open /\ c.group = b.group
        /\ c.panicked = b.panicked /\ c.undo = L!Front(b.undo) /\ c.redo = Append(b.redo, t)
    BY <2>3, <2>5, <2>6 DEF Carried, IsBuf, BufFields
  <2> HIDE DEF c
  <2>9. Holds(c, u, L!Front(P), Append(Q, s))
    BY <2>1, <2>2, <2>3, <2>4, <2>7, <2>8 DEF Holds, Carried
  <2> QED
    BY <2>1, <2>9 DEF ShownBy, Shown, c, u
<1> QED
  BY <1>1, <1>2

LEMMA RedoHolds ==
    ASSUME NEW b, NEW s, NEW P, NEW Q, Holds(b, s, P, Q), ~b.open
    PROVE  ShownBy(s, P, Q, L!Redo(b))
<1>1. CASE b.redo = <<>>
  BY <1>1, HeldIsShown DEF L!Redo
<1>2. CASE b.redo # <<>>
  <2> DEFINE t == L!Last(b.redo)
             u == L!Last(Q)
             x == L!Replayed(b, L!MadeAgain(t))
             next == b.revision + 1
             c == L!Redo(b)
  <2>1. /\ Q # <<>> /\ Way(FALSE, t, u, s) /\ Trail(FALSE, L!Front(b.redo), L!Front(Q), u)
    BY <1>2, TrailPop DEF Holds, IsBuf
  <2>2. Leads(t, s, u) /\ s = b.text /\ b.group = <<>> /\ Text(u) /\ Text(s)
    BY <2>1 DEF Way, Holds, Leads
  <2>3. Carried(b, x, u)
    BY <2>2, MadeAgainLeads DEF Holds
  <2>4. Trail(TRUE, Append(b.undo, t), Append(P, s), u)
    <3>1. List(b.undo) /\ Trail(TRUE, b.undo, P, s) /\ Way(TRUE, t, s, u)
      BY <2>2 DEF Holds, IsBuf, Nested, Way
    <3> QED
      BY <2>2, <3>1, TrailPush
  <2>5. c = [L!Forward(b, t) EXCEPT !.redo = L!Front(@), !.undo = Append(@, t)]
    BY <1>2 DEF L!Redo
  <2>6. L!Forward(b, t) = [x EXCEPT !.revision = next]
    BY <2>3 DEF L!Forward, Carried
  <2>7. IsBuf(c)
    BY RedoEffect DEF Told, Holds
  <2> HIDE DEF t, u, x, next
  <2>8. /\ c.text = u /\ c.cursor = x.cursor /\ c.open = b.open /\ c.group = b.group
        /\ c.panicked = b.panicked /\ c.redo = L!Front(b.redo) /\ c.undo = Append(b.undo, t)
    BY <2>3, <2>5, <2>6 DEF Carried, IsBuf, BufFields
  <2> HIDE DEF c
  <2>9. Holds(c, u, Append(P, s), L!Front(Q))
    BY <2>1, <2>2, <2>3, <2>4, <2>7, <2>8 DEF Holds, Carried
  <2> QED
    BY <2>1, <2>9 DEF ShownBy, Shown, c, u
<1> QED
  BY <1>1, <1>2

SnapInv ==
    /\ \E s, P, Q : Holds(buf, s, P, Q)
    /\ offer # L!NoOffer => Text(offer.text)

Mapped == \A s, P, Q : Holds(buf, s, P, Q) => L!Settled = s /\ L!Past = P /\ L!Future = Q

SnapStep == [L!Snapshots!Change \/ L!Snapshots!Undo \/ L!Snapshots!Redo]_L!Snapshots!vars

LEMMA MappedAlways == Mapped /\ Mapped'
<1>1. Mapped
  BY Mapping, Zenon DEF Mapped
<1> QED
  BY <1>1, PTL

LEMMA ShownStep ==
    ASSUME NEW s, NEW P, NEW Q, Holds(buf, s, P, Q), ShownBy(s, P, Q, buf')
    PROVE  SnapStep
<1>1. L!Settled = s /\ L!Past = P /\ L!Future = Q
  BY MappedAlways, Zenon DEF Mapped
<1>2. PICK u, R, S : Holds(buf', u, R, S) /\ Shown(s, P, Q, u, R, S)
  BY DEF ShownBy
<1>3. L!Settled' = u /\ L!Past' = R /\ L!Future' = S
  <2>1. \A x, y, z : Holds(buf', x, y, z) => L!Settled' = x /\ L!Past' = y /\ L!Future' = z
    BY MappedAlways DEF Mapped
  <2> QED
    BY <1>2, <2>1, Zenon
<1>4. L!Last(P) = L!Snapshots!Last(P) /\ L!Front(P) = L!Snapshots!Front(P)
      /\ L!Last(Q) = L!Snapshots!Last(Q) /\ L!Front(Q) = L!Snapshots!Front(Q)
  BY DEF L!Last, L!Snapshots!Last, L!Front, L!Snapshots!Front
<1> QED
  BY <1>1, <1>2, <1>3, <1>4
     DEF Shown, SnapStep, L!Snapshots!Change, L!Snapshots!Undo, L!Snapshots!Redo, L!Snapshots!vars

LEMMA BufferStep ==
    ASSUME SnapInv, [L!Next]_L!vars
    PROVE  SnapInv' /\ SnapStep
<1>1. PICK s, P, Q : Holds(buf, s, P, Q)
  BY DEF SnapInv
<1>2. ASSUME ShownBy(s, P, Q, buf'), offer' # L!NoOffer => Text(offer'.text)
      PROVE  SnapInv' /\ SnapStep
  BY <1>1, <1>2, ShownStep DEF SnapInv, ShownBy
<1>3. ASSUME NEW c, ShownBy(s, P, Q, c), L!Step(c) PROVE SnapInv' /\ SnapStep
  <2>1. buf' = c /\ offer' = offer
    BY <1>3 DEF L!Step
  <2> QED
    BY <1>2, <1>3, <2>1 DEF SnapInv
<1>4. ShownBy(s, P, Q, buf)
  BY <1>1, HeldIsShown
<1>5. Text(buf.text) /\ L!IsBoundary(buf.text, buf.cursor)
  BY <1>1 DEF Holds
<1>6. buf.cursor \in 0..Len(buf.text)
  BY <1>5, BoundaryInside
<1>7. ASSUME NEW at, L!IsBoundary(buf.text, at) PROVE ShownBy(s, P, Q, [buf EXCEPT !.cursor = at])
  BY <1>1, <1>7, CursorHolds, HeldIsShown
<1>8. CASE L!Key
  <2>1. ASSUME NEW new \in Inserts, L!Step(L!Insert(buf, new)) PROVE SnapInv' /\ SnapStep
    <3>1. Text(new) /\ L!Fits(buf.text, buf.cursor, buf.cursor)
      BY <1>5, <1>6, InsertedTexts DEF L!Fits
    <3>2. ShownBy(s, P, Q, L!Insert(buf, new))
      BY <1>1, <3>1, EditedHolds DEF L!Insert
    <3> QED
      BY <1>3, <2>1, <3>2
  <2> DEFINE prev == L!PrevGrapheme(buf.text, buf.cursor)
  <2>2. /\ prev = L!Underflow \/ (prev <= buf.cursor /\ L!IsBoundary(buf.text, prev))
        /\ Joinerless => prev # L!Underflow
    BY <1>5, PrevOnBoundary
  <2>3. ShownBy(s, P, Q, L!Backspace(buf))
    <3>1. CASE buf.cursor = 0
      BY <1>4, <3>1 DEF L!Backspace
    <3>2. CASE buf.cursor # 0
      <4>1. Joinerless => L!Fits(buf.text, prev, buf.cursor)
        BY <1>5, <2>2 DEF L!Fits
      <4>2. ShownBy(s, P, Q, L!Edited(buf, prev, buf.cursor, <<>>))
        BY <1>1, <4>1, EmptyText, EditedHolds
      <4> QED
        BY <3>2, <4>2 DEF L!Backspace
    <3> QED
      BY <3>1, <3>2
  <2>4. ShownBy(s, P, Q, L!Moved(buf, prev))
    <3>1. CASE prev = L!Underflow
      BY <1>1, <2>2, <3>1, PanicHolds, HeldIsShown DEF L!Moved
    <3>2. CASE prev # L!Underflow
      BY <1>7, <2>2, <3>2 DEF L!Moved
    <3> QED
      BY <3>1, <3>2
  <2>5. ShownBy(s, P, Q, L!Moved(buf, L!NextGrapheme(buf.text, buf.cursor)))
    BY <1>5, <1>7, NextOnBoundary DEF L!Moved
  <2>6. \A at : ShownBy(s, P, Q, L!SetCursor(buf, at))
    BY <1>4, <1>7 DEF L!SetCursor
  <2> QED
    BY <1>3, <1>8, <2>1, <2>3, <2>4, <2>5, <2>6 DEF L!Key
<1>9. ASSUME ~buf.open
      PROVE  Holds(L!Begin(buf), s, P, Q) /\ L!Begin(buf).open /\ L!Begin(buf).text = buf.text
  BY <1>1, <1>9, BeginHolds
<1>10. CASE L!Whole
  <2>1. ~buf.open
    BY <1>10 DEF L!Whole
  <2>2. ASSUME NEW new \in Inserts, L!Step(L!SetText(buf, new)) PROVE SnapInv' /\ SnapStep
    <3> DEFINE c == L!Begin(buf)
               d == L!Edited(c, 0, Len(buf.text), new)
    <3>1. Text(new) /\ L!Fits(c.text, 0, Len(buf.text))
      <4>1. Len(buf.text) \in Nat /\ c.text = buf.text
        BY <1>5, <1>9, <2>1 DEF Text
      <4> QED
        BY <1>5, <4>1, Ends, InsertedTexts DEF L!Fits
    <3>2. Holds(c, s, P, Q) /\ c.open
      BY <1>9, <2>1
    <3>3. L!SetText(buf, new) = L!Commit(d)
      BY DEF L!SetText
    <3> HIDE DEF c
    <3>4. Holds(d, s, P, Q) /\ d.open
      BY <3>1, <3>2, EditedHolds
    <3> HIDE DEF d
    <3>5. ShownBy(s, P, Q, L!Commit(d))
      BY <3>4, CommitHolds
    <3> QED
      BY <1>3, <2>2, <3>3, <3>5
  <2>3. ShownBy(s, P, Q, L!Undo(buf)) /\ ShownBy(s, P, Q, L!Redo(buf))
    BY <1>1, <2>1, UndoHolds, RedoHolds
  <2>4. ShownBy(s, P, Q, L!Begin(buf))
    BY <1>9, <2>1, HeldIsShown
  <2> QED
    BY <1>3, <1>10, <2>2, <2>3, <2>4 DEF L!Whole
<1>11. CASE L!Close
  BY <1>1, <1>3, <1>11, CommitHolds DEF L!Close
<1>12. CASE L!Compute
  <2>1. buf' = buf
    BY <1>12 DEF L!Compute
  <2>2. offer'.text \in Offers
    BY <1>12 DEF L!Compute
  <2> QED
    BY <1>2, <1>4, <2>1, <2>2, InsertedTexts
<1>13. CASE L!Accept
  <2>1. /\ offer # L!NoOffer /\ offer' = L!NoOffer
        /\ buf' = IF buf.open THEN L!Apply(buf, offer) ELSE L!AcceptCompletion(buf, offer)
    BY <1>13 DEF L!Accept
  <2>2. Text(offer.text)
    BY <2>1 DEF SnapInv
  <2>3. ASSUME NEW c, Holds(c, s, P, Q), c.open
        PROVE  Holds(L!Apply(c, offer), s, P, Q) /\ L!Apply(c, offer).open
    <3>1. CASE L!Refused(c, offer)
      BY <2>3, <3>1 DEF L!Apply
    <3>2. CASE ~L!Refused(c, offer)
      <4>1. L!Fits(c.text, offer.from, offer.to)
        BY <3>2 DEF L!Refused
      <4> QED
        BY <2>2, <2>3, <3>2, <4>1, EditedHolds DEF L!Apply
    <3> QED
      BY <3>1, <3>2
  <2>4. CASE buf.open
    <3>1. ShownBy(s, P, Q, buf')
      BY <1>1, <2>1, <2>3, <2>4, HeldIsShown
    <3> QED
      BY <1>2, <2>1, <3>1
  <2>5. CASE ~buf.open
    <3>1. CASE L!Refused(buf, offer)
      <4>1. [buf EXCEPT !.open = FALSE, !.group = <<>>] = buf
        BY <1>1, <2>5 DEF Holds, IsBuf, BufFields
      <4> QED
        BY <1>2, <1>4, <2>1, <2>5, <3>1, <4>1 DEF L!AcceptCompletion
    <3>2. CASE ~L!Refused(buf, offer)
      <4> DEFINE c == L!Begin(buf)
                 d == L!Apply(c, offer)
      <4>1. Holds(c, s, P, Q) /\ c.open
        BY <1>9, <2>5
      <4>2. buf' = L!Commit(d)
        BY <2>1, <2>5, <3>2 DEF L!AcceptCompletion
      <4> HIDE DEF c
      <4>3. Holds(d, s, P, Q) /\ d.open
        BY <2>3, <4>1
      <4> HIDE DEF d
      <4>4. ShownBy(s, P, Q, buf')
        BY <4>2, <4>3, CommitHolds
      <4> QED
        BY <1>2, <2>1, <4>4
    <3> QED
      BY <3>1, <3>2
  <2> QED
    BY <2>4, <2>5
<1>14. CASE UNCHANGED L!vars
  BY <1>2, <1>4, <1>14 DEF L!vars, SnapInv
<1> QED
  BY <1>8, <1>10, <1>11, <1>12, <1>13, <1>14 DEF L!Next

LEMMA SnapInit == AssistInit => SnapInv /\ L!Snapshots!Init
<1> SUFFICES ASSUME AssistInit PROVE SnapInv /\ L!Snapshots!Init
  OBVIOUS
<1>1. buf = [text |-> <<>>, cursor |-> 0, revision |-> 0, undo |-> <<>>, redo |-> <<>>,
             open |-> FALSE, group |-> <<>>, panicked |-> FALSE] /\ offer = L!NoOffer
  BY DEF AssistInit, L!Init
<1>2. IsBuf(buf)
  BY <1>1, EmptyLists DEF IsBuf, BufFields
<1>3. L!IsBoundary(<<>>, 0)
  BY DEF L!IsBoundary
<1>4. Holds(buf, <<>>, <<>>, <<>>)
  BY <1>1, <1>2, <1>3, EmptyText, TrailNil DEF Holds
<1>5. L!Settled = <<>> /\ L!Past = <<>> /\ L!Future = <<>>
  BY <1>4, MappedAlways, Zenon DEF Mapped
<1> QED
  BY <1>1, <1>4, <1>5 DEF SnapInv, L!Snapshots!Init

LEMMA SnapInvariant == SnapInv /\ [AssistNext]_all => SnapInv' /\ SnapStep
<1>1. [AssistNext]_all => [L!Next]_L!vars
  BY DEF AssistNext, OfBroker, OfBuffer, OfDiscovery, OfCaches, all, bufferVars, L!vars
<1> QED
  BY <1>1, BufferStep

\* UndoIsExact: the line buffer, which keeps lists of edits, implements the editor that keeps whole
\* texts, whatever is typed, deleted, grouped, recalled, completed, undone and redone.
THEOREM UndoLeadsBack == AssistSpec => UndoIsExact
BY SnapInit, SnapInvariant, PTL
   DEF AssistSpec, UndoIsExact, L!UndoIsExact, L!Snapshots!Spec, SnapStep

\* NoPanic: as long as no joiner is inserted, every operation slices the text on character
\* boundaries and none walks off its start.
THEOREM NothingPanics == ASSUME Joinerless PROVE AssistSpec => []NoPanic
<1>1. SnapInv => NoPanic
  BY DEF SnapInv, Holds, NoPanic, L!NoPanic
<1> QED
  BY <1>1, SnapInit, SnapInvariant, PTL DEF AssistSpec

-----------------------------------------------------------------------------
(* Answers that come late. *)

IsStamp(s) == s = [revision |-> s.revision, scope |-> s.scope]

\* Requests were issued, each for a state the editor was in.
BrokerInv ==
    /\ issued \in Nat /\ IsStamp(current)
    /\ \A r \in flying : r.seq \in Nat /\ r.seq <= issued /\ IsStamp(r.stamp)
    /\ origin.seq \in Nat /\ origin.seq <= issued

LEMMA BrokerStep ==
    ASSUME BrokerInv, [Next]_vars
    PROVE  BrokerInv'
<1>1. CASE SetState
  <2>1. IsStamp(current')
    BY <1>1 DEF SetState, BrokerInv, IsStamp
  <2> QED
    BY <1>1, <2>1 DEF SetState, BrokerInv, IsStamp
<1>2. CASE Issue
  <2> DEFINE new == [seq |-> issued', stamp |-> current]
  <2>1. /\ flying' = flying \cup {new} /\ issued' = issued + 1
        /\ UNCHANGED <<current, origin>>
    BY <1>2 DEF Issue
  <2>2. new.seq = issued' /\ new.stamp = current
    OBVIOUS
  <2> HIDE DEF new
  <2> QED
    BY <2>1, <2>2 DEF BrokerInv, IsStamp
<1>3. ASSUME NEW r \in flying, Answer(r) PROVE BrokerInv'
  BY <1>3 DEF Answer, Deliver, BrokerInv, IsStamp
<1>4. CASE Focus \/ UNCHANGED vars
  BY <1>4 DEF Focus, vars, BrokerInv, IsStamp
<1> QED
  BY <1>1, <1>2, <1>3, <1>4 DEF Next

HarmlessStep ==
    origin' # origin =>
         /\ origin'.seq >= origin.seq /\ origin'.stamp = current
         /\ focused # 0 /\ focused' # 0 => shown'[focused'] = shown[focused]

LEMMA AnswerStep ==
    ASSUME BrokerInv, [Next]_vars
    PROVE  HarmlessStep
<1>1. ASSUME NEW r \in flying, Answer(r), origin' # origin PROVE HarmlessStep
  <2>1. PICK list : Applicable(r) /\ Merged(list) /\ origin' = r
    BY <1>1 DEF Answer, Deliver
  <2>2. r.seq >= origin.seq /\ r.stamp = current
    BY <2>1 DEF Applicable, BrokerInv, IsStamp
  <2>3. ASSUME focused # 0, focused' # 0 PROVE shown'[focused'] = shown[focused]
    <3> DEFINE same == {i \in DOMAIN list : focused # 0 /\ list[i] = shown[focused]}
    <3>1. shown' = list /\ focused' = IF same = {} THEN 0 ELSE CHOOSE i \in same : TRUE
      BY <2>1 DEF Merged
    <3>2. focused' \in same
      BY <2>3, <3>1
    <3> QED
      BY <3>1, <3>2
  <2> QED
    BY <2>1, <2>2, <2>3 DEF HarmlessStep
<1>2. CASE SetState \/ Issue \/ Focus \/ UNCHANGED vars
  BY <1>2 DEF SetState, Issue, Focus, vars, HarmlessStep
<1> QED
  BY <1>1, <1>2 DEF Next, HarmlessStep

\* LateAnswersAreHarmless: in whatever order lookups answer, and however often, what is shown
\* never goes back to an earlier request, is for the state it is put up in, and never moves the
\* focus to another candidate.
THEOREM LateIsHarmless == AssistSpec => LateAnswersAreHarmless
<1>1. AssistInit => BrokerInv
  BY DEF AssistInit, Init, NoStamp, NoOrigin, BrokerInv, IsStamp
<1>2. [AssistNext]_all => [Next]_vars
  BY DEF AssistNext, OfBroker, OfBuffer, OfDiscovery, OfCaches, all
<1>3. BrokerInv /\ [AssistNext]_all => BrokerInv' /\ HarmlessStep
  BY <1>2, BrokerStep, AnswerStep
<1>4. BrokerInv /\ [AssistNext]_all => [HarmlessStep]_vars
  BY <1>3
<1> QED
  BY <1>1, <1>3, <1>4, PTL DEF AssistSpec, LateAnswersAreHarmless, HarmlessStep

-----------------------------------------------------------------------------
(* Patterns: what an escaped prefix matches. *)

\* One line of D!Glob: where in the name the pattern from byte i on may begin.
Rest(g, p, k, i) ==
    IF i > Len(p) THEN {Len(k) + 1}
    ELSE IF p[i] = "*" THEN {j \in 1..(Len(k) + 1) : \E l \in g[i + 1] : j <= l}
    ELSE IF p[i] = "?" THEN {j \in 1..Len(k) : j + 1 \in g[i + 1]}
    ELSE IF p[i] = "\\" /\ i < Len(p)
      THEN {j \in 1..Len(k) : k[j] = p[i + 1] /\ j + 1 \in g[i + 2]}
    ELSE {j \in 1..Len(k) : k[j] = p[i] /\ j + 1 \in g[i + 1]}

\* The lines from the m-th on.
Begins(g, p, k, m) == g = [i \in m..(Len(p) + 1) |-> Rest(g, p, k, i)]

LEMMA BeginsExists ==
    ASSUME NEW p, NEW k, Len(p) \in Nat
    PROVE  \E g : Begins(g, p, k, 1)
<1> DEFINE e == Len(p) + 1
           T == {n \in Nat : n < e /\ ~ \E g : Begins(g, p, k, e - n)}
<1>1. ASSUME T # {} PROVE FALSE
  <2>1. PICK n \in T : \A q \in T : n <= q
    <3>1. T \subseteq Nat
      OBVIOUS
    <3> HIDE DEF T
    <3> QED
      BY <1>1, <3>1, Least
  <2> DEFINE m == e - n
  <2>2. n # 0
    <3> DEFINE g == [i \in e..e |-> {Len(k) + 1}]
    <3>1. Begins(g, p, k, e)
      BY DEF Begins, Rest
    <3> QED
      BY <3>1
  <2>3. m \in 1..Len(p)
    BY <2>1, <2>2
  <2>4. n - 1 \notin T /\ n - 1 \in Nat /\ n - 1 < e /\ e - (n - 1) = m + 1
    BY <2>1, <2>2
  <2>5. PICK g : Begins(g, p, k, m + 1)
    BY <2>4
  <2> HIDE DEF m
  <2> DEFINE h == [i \in m..e |-> IF i = m THEN Rest(g, p, k, m) ELSE g[i]]
  <2>6. \A i \in (m + 1)..e : h[i] = g[i] /\ g[i] = Rest(g, p, k, i)
    BY <2>3, <2>5, SMTT(30) DEF Begins
  <2>7. \A i \in m..e : Rest(h, p, k, i) = Rest(g, p, k, i)
    <3> TAKE i \in m..e
    <3>1. CASE i > Len(p)
      BY <3>1 DEF Rest
    <3>2. CASE i <= Len(p)
      <4>1. h[i + 1] = g[i + 1] /\ (i < Len(p) => h[i + 2] = g[i + 2])
        BY <2>3, <2>6, <3>2
      <4> HIDE DEF h
      <4> QED
        BY <4>1 DEF Rest
    <3> QED
      BY <2>3, <3>1, <3>2
  <2>8. \A i \in m..e : h[i] = Rest(h, p, k, i)
    <3>1. m \in m..e /\ h[m] = Rest(g, p, k, m)
      BY <2>3
    <3>2. \A i \in m..e : i = m \/ i \in (m + 1)..e
      BY <2>3
    <3> HIDE DEF h
    <3> QED
      BY <2>6, <2>7, <3>1, <3>2
  <2>9. h = [i \in m..e |-> h[i]]
    OBVIOUS
  <2>10. Begins(h, p, k, m)
    <3> HIDE DEF h
    <3> QED
      BY <2>8, <2>9 DEF Begins
  <2> QED
    BY <2>1, <2>10 DEF m
<1>2. Len(p) \in Nat /\ Len(p) < e /\ e - Len(p) = 1
  OBVIOUS
<1> QED
  BY <1>1, <1>2

LEMMA GlobBegins ==
    ASSUME NEW p, NEW k, Len(p) \in Nat
    PROVE  \E g : /\ \A i \in 1..(Len(p) + 1) : g[i] = Rest(g, p, k, i)
                  /\ D!Glob(p, k) <=> 1 \in g[1]
<1> DEFINE g == CHOOSE g : Begins(g, p, k, 1)
<1>1. D!Glob(p, k) <=> 1 \in g[1]
  BY DEF D!Glob, Begins, Rest
<1>2. Begins(g, p, k, 1)
  BY BeginsExists
<1> HIDE DEF g
<1>3. \A i \in 1..(Len(p) + 1) : g[i] = Rest(g, p, k, i)
  BY <1>2 DEF Begins
<1> QED
  BY <1>1, <1>3

\* The pattern after 0, 1, ..., n bytes of the input.
Out(o, input, n) ==
    o = [i \in 0..n |-> IF i = 0 THEN <<>> ELSE o[i - 1] \o D!Escaped(input[i])]

LEMMA OutExists ==
    ASSUME NEW input, NEW n \in Nat
    PROVE  \E o : Out(o, input, n)
<1> DEFINE T == {m \in Nat : ~ \E o : Out(o, input, m)}
<1> SUFFICES ASSUME T # {} PROVE FALSE
  OBVIOUS
<1>1. PICK m \in T : \A k \in T : m <= k
  BY Least
<1>2. m # 0
  <2> DEFINE o == [i \in 0..0 |-> <<>>]
  <2>1. Out(o, input, 0)
    BY DEF Out
  <2> QED
    BY <2>1
<1>3. m - 1 \in Nat /\ m - 1 \notin T
  BY <1>1, <1>2
<1>4. PICK o : Out(o, input, m - 1)
  BY <1>3
<1> DEFINE h == [i \in 0..m |-> IF i <= m - 1 THEN o[i] ELSE o[m - 1] \o D!Escaped(input[m])]
<1>5. \A i \in 0..m : h[i] = IF i = 0 THEN <<>> ELSE h[i - 1] \o D!Escaped(input[i])
  <2> TAKE i \in 0..m
  <2>1. CASE i = 0
    BY <1>3, <1>4, <2>1 DEF Out
  <2>2. CASE i \in 1..(m - 1)
    BY <1>3, <1>4, <2>2 DEF Out
  <2>3. CASE i = m
    BY <1>2, <1>3, <2>3
  <2> QED
    BY <2>1, <2>2, <2>3
<1>6. Out(h, input, m)
  BY <1>5 DEF Out
<1> QED
  BY <1>6

\* t is s and what stands for the byte b in the pattern.
Extends(s, b, t) ==
    /\ \A i \in 1..Len(s) : t[i] = s[i]
    /\ \/ b \in D!Special /\ Len(t) = Len(s) + 2 /\ t[Len(s) + 1] = "\\" /\ t[Len(s) + 2] = b
       \/ b \notin D!Special /\ Len(t) = Len(s) + 1 /\ t[Len(s) + 1] = b

LEMMA EscapedByte ==
    ASSUME NEW S, NEW s \in Seq(S), NEW b, b \in S, "\\" \in S
    PROVE  s \o D!Escaped(b) \in Seq(S) /\ Extends(s, b, s \o D!Escaped(b))
<1> USE DEF Extends
<1>1. CASE b \in D!Special
  <2>1. D!Escaped(b) = <<"\\", b>> /\ <<"\\", b>> \in Seq(S)
    BY <1>1 DEF D!Escaped
  <2> QED
    BY <1>1, <2>1
<1>2. CASE b \notin D!Special
  <2>1. D!Escaped(b) = <<b>> /\ <<b>> \in Seq(S)
    BY <1>2 DEF D!Escaped
  <2> QED
    BY <1>2, <2>1
<1> QED
  BY <1>1, <1>2

\* `at[n]' is where, in the pattern p, the bytes of the input after the n-th begin.
Shape(at, p, input) ==
    /\ at[0] = 1 /\ at[Len(input)] = Len(p) /\ p[Len(p)] = "*"
    /\ \A n \in 0..Len(input) : at[n] \in 1..Len(p)
    /\ \A n \in 1..Len(input) :
         \/ /\ input[n] \in D!Special /\ at[n] = at[n - 1] + 2
            /\ p[at[n - 1]] = "\\" /\ p[at[n - 1] + 1] = input[n]
         \/ /\ input[n] \notin D!Special /\ at[n] = at[n - 1] + 1
            /\ p[at[n - 1]] = input[n]

LEMMA PatternShape ==
    ASSUME NEW input \in Seq(STRING)
    PROVE  LET p == D!ScanPattern("prefix", input)
           IN  Len(p) \in Nat /\ \E at : Shape(at, p, input)
<1> DEFINE N == Len(input)
           o == CHOOSE o : Out(o, input, N)
           p == D!ScanPattern("prefix", input)
           Strings == STRING \cup {"\\", "*"}
<1>0. N \in Nat /\ input \in Seq(Strings) /\ "\\" \in Strings /\ "*" \in Strings
  OBVIOUS
<1>1. p = Append(o[N], "*")
  BY DEF D!ScanPattern, Out
<1>2. Out(o, input, N)
  BY <1>0, OutExists
<1> HIDE DEF o, p, N, Strings
<1>3. o[0] = <<>> /\ \A n \in 1..N : o[n] = o[n - 1] \o D!Escaped(input[n])
  <2>1. o[0] = <<>>
    BY <1>0, <1>2 DEF Out
  <2>2. \A n \in 1..N : o[n] = o[n - 1] \o D!Escaped(input[n])
    BY <1>0, <1>2, SMTT(30) DEF Out
  <2> QED
    BY <2>1, <2>2
<1>4. \A n \in 0..N : o[n] \in Seq(Strings)
  <2> DEFINE T == {n \in 0..N : o[n] \notin Seq(Strings)}
  <2>1. ASSUME T # {} PROVE FALSE
    <3>1. T \subseteq Nat
      BY <1>0
    <3>2. PICK n \in T : \A m \in T : n <= m
      <4> HIDE DEF T
      <4> QED
        BY <2>1, <3>1, Least
    <3>3. n \in 1..N /\ o[n - 1] \in Seq(Strings)
      <4>1. <<>> \in Seq(Strings)
        OBVIOUS
      <4>2. n # 0 /\ n \in 0..N
        BY <1>3, <3>2, <4>1
      <4>3. n - 1 \in 0..N /\ ~ n <= n - 1
        BY <1>0, <4>2
      <4> QED
        BY <1>0, <3>2, <4>2, <4>3
    <3>4. input[n] \in Strings
      BY <1>0, <3>3 DEF N
    <3> DEFINE s == o[n - 1]
               b == input[n]
    <3>6. s \in Seq(Strings) /\ b \in Strings /\ o[n] = s \o D!Escaped(b)
      BY <1>3, <3>3, <3>4
    <3> HIDE DEF s, b
    <3>5. o[n] \in Seq(Strings)
      BY <1>0, <3>6, EscapedByte
    <3> QED
      BY <3>2, <3>5
  <2> QED
    BY <2>1
<1> DEFINE Grows(n) == Extends(o[n - 1], input[n], o[n])
<1>5. \A n \in 1..N : Grows(n)
  <2> TAKE n \in 1..N
  <2>1. input[n] \in Strings /\ n - 1 \in 0..N
    BY <1>0 DEF N
  <2> DEFINE s == o[n - 1]
             b == input[n]
  <2>2. s \in Seq(Strings) /\ b \in Strings /\ o[n] = s \o D!Escaped(b)
    BY <1>3, <1>4, <2>1
  <2> HIDE DEF s, b
  <2>3. Extends(s, b, o[n])
    BY <1>0, <2>2, EscapedByte
  <2> QED
    BY <2>3 DEF s, b
<1>6. \A n \in 0..N : Len(o[n]) \in Nat
  BY <1>4
<1> DEFINE Inside(n) == Len(o[n]) <= Len(o[N]) /\ \A i \in 1..Len(o[n]) : o[N][i] = o[n][i]
<1>7. \A n \in 0..N : Inside(n)
  <2> DEFINE T == {m \in Nat : m <= N /\ ~Inside(N - m)}
  <2>1. ASSUME T # {} PROVE FALSE
    <3>1. PICK m \in T : \A l \in T : m <= l
      <4>1. T \subseteq Nat
        OBVIOUS
      <4> HIDE DEF T
      <4> QED
        BY <2>1, <4>1, Least
    <3>2. N \in 0..N /\ Inside(N)
      BY <1>0, <1>6
    <3>3. m # 0
      BY <1>0, <3>1, <3>2
    <3>4. m - 1 \in Nat /\ m - 1 <= N /\ m - 1 \notin T
      <4>1. m \in Nat /\ m <= N
        BY <3>1
      <4>2. m - 1 \in Nat /\ m - 1 <= N /\ ~ m <= m - 1
        BY <1>0, <3>3, <4>1
      <4> HIDE DEF T
      <4> QED
        BY <3>1, <4>2
    <3> DEFINE n == N - m
    <3>5. n \in 0..N /\ n + 1 \in 1..N /\ N - (m - 1) = n + 1 /\ (n + 1) - 1 = n
      BY <1>0, <3>1, <3>3
    <3>6. Inside(n + 1) /\ Grows(n + 1)
      BY <1>5, <3>4, <3>5
    <3> HIDE DEF n
    <3>7. /\ Len(o[n]) \in Nat /\ Len(o[n + 1]) \in Nat /\ Len(o[N]) \in Nat
          /\ Len(o[n + 1]) > Len(o[n])
          /\ \A i \in 1..Len(o[n]) : o[n + 1][i] = o[n][i]
      <4>1. Len(o[n]) \in Nat /\ Len(o[n + 1]) \in Nat /\ Len(o[N]) \in Nat
        BY <1>0, <1>6, <3>5
      <4>2. \A i \in 1..Len(o[n]) : o[n + 1][i] = o[n][i]
        BY <3>5, <3>6 DEF Extends
      <4>3. Len(o[n + 1]) = Len(o[n]) + 1 \/ Len(o[n + 1]) = Len(o[n]) + 2
        BY <3>5, <3>6 DEF Extends
      <4> QED
        BY <4>1, <4>2, <4>3
    <3>8. Inside(n)
      BY <3>6, <3>7
    <3> QED
      BY <3>1, <3>8 DEF n
  <2>2. ASSUME NEW n \in 0..N PROVE Inside(n)
    <3>1. N - n \in Nat /\ N - n <= N /\ N - (N - n) = n
      BY <1>0
    <3>2. N - n \notin T
      BY <2>1
    <3> QED
      BY <3>1, <3>2
  <2> QED
    BY <2>2
<1>8. /\ p \in Seq(Strings) /\ Len(p) = Len(o[N]) + 1 /\ p[Len(p)] = "*"
      /\ \A i \in 1..Len(o[N]) : p[i] = o[N][i]
  <2>1. o[N] \in Seq(Strings)
    BY <1>0, <1>4
  <2> DEFINE s == o[N]
  <2> HIDE DEF s
  <2>2. s \in Seq(Strings) /\ p = Append(s, "*")
    BY <1>1, <2>1 DEF s
  <2>3. /\ p \in Seq(Strings) /\ Len(p) = Len(s) + 1 /\ p[Len(p)] = "*"
        /\ \A i \in 1..Len(s) : p[i] = s[i]
    BY <1>0, <2>2
  <2> QED
    BY <2>3 DEF s
<1> DEFINE at == [n \in 0..N |-> Len(o[n]) + 1]
<1>9. \A n \in 0..N : at[n] = Len(o[n]) + 1 /\ at[n] \in 1..Len(p)
  BY <1>0, <1>6, <1>7, <1>8
<1>10. at[0] = 1 /\ at[N] = Len(p)
  BY <1>0, <1>3, <1>8
<1>11. ASSUME NEW n \in 1..N
       PROVE  \/ /\ input[n] \in D!Special /\ at[n] = at[n - 1] + 2
                 /\ p[at[n - 1]] = "\\" /\ p[at[n - 1] + 1] = input[n]
              \/ /\ input[n] \notin D!Special /\ at[n] = at[n - 1] + 1
                 /\ p[at[n - 1]] = input[n]
  <2>1. n \in 0..N /\ n - 1 \in 0..N
    BY <1>0
  <2>2. at[n] = Len(o[n]) + 1 /\ at[n - 1] = Len(o[n - 1]) + 1
    BY <1>9, <2>1
  <2>3. Len(o[n]) \in Nat /\ Len(o[n - 1]) \in Nat /\ Len(o[N]) \in Nat
    BY <1>0, <1>6, <2>1
  <2>4. \A i \in 1..Len(o[n]) : p[i] = o[n][i]
    BY <1>7, <1>8, <2>1, <2>3
  <2> DEFINE l == Len(o[n - 1])
             q == o[n]
  <2>5. \/ input[n] \in D!Special /\ Len(q) = l + 2 /\ q[l + 1] = "\\" /\ q[l + 2] = input[n]
        \/ input[n] \notin D!Special /\ Len(q) = l + 1 /\ q[l + 1] = input[n]
    BY <1>5 DEF Extends
  <2>6. l \in Nat /\ Len(q) \in Nat /\ \A i \in 1..Len(q) : p[i] = q[i]
    BY <2>3, <2>4
  <2>7. at[n] = Len(q) + 1 /\ at[n - 1] = l + 1
    BY <2>2
  <2> HIDE DEF at, l, q
  <2>8. \/ input[n] \in D!Special /\ Len(q) = l + 2 /\ p[l + 1] = "\\" /\ p[l + 2] = input[n]
        \/ input[n] \notin D!Special /\ Len(q) = l + 1 /\ p[l + 1] = input[n]
    <3>1. l + 1 \in 1..Len(q) /\ (Len(q) = l + 2 => l + 2 \in 1..Len(q))
      BY <2>5, <2>6
    <3> QED
      BY <2>5, <2>6, <3>1
  <2>9. Len(q) = l + 2 => at[n] = at[n - 1] + 2 /\ at[n - 1] + 1 = l + 2
    BY <2>6, <2>7
  <2>10. Len(q) = l + 1 => at[n] = at[n - 1] + 1
    BY <2>6, <2>7
  <2> QED
    BY <2>7, <2>8, <2>9, <2>10
<1> HIDE DEF at
<1>12. Shape(at, p, input)
  BY <1>8, <1>9, <1>10, <1>11 DEF Shape, N
<1> QED
  BY <1>8, <1>12 DEF p

\* The name k has, from byte j on, the bytes of the input after the n-th.
Follows(k, j, input, n) ==
    /\ j + (Len(input) - n) <= Len(k) + 1
    /\ \A i \in (n + 1)..Len(input) : k[j + (i - n) - 1] = input[i]

LEMMA ShapeMatches ==
    ASSUME NEW input, Len(input) \in Nat, NEW k, Len(k) \in Nat, NEW p, Len(p) \in Nat,
           NEW at, Shape(at, p, input), NEW g,
           \A i \in 1..(Len(p) + 1) : g[i] = Rest(g, p, k, i)
    PROVE  \A n \in 0..Len(input) : \A j \in 1..(Len(k) + 1) :
               j \in g[at[n]] <=> Follows(k, j, input, n)
<1> DEFINE N == Len(input)
           Right(n) == \A j \in 1..(Len(k) + 1) : j \in g[at[n]] <=> Follows(k, j, input, n)
           T == {m \in Nat : m <= N /\ ~Right(N - m)}
<1>1. Right(N)
  <2>1. at[N] = Len(p) /\ p[Len(p)] = "*" /\ Len(p) \in 1..Len(p)
    BY DEF Shape
  <2>2. g[Len(p)] = {j \in 1..(Len(k) + 1) : \E l \in g[Len(p) + 1] : j <= l}
    <3>1. Len(p) \in 1..(Len(p) + 1) /\ ~(Len(p) > Len(p))
      BY <2>1
    <3>2. g[Len(p)] = Rest(g, p, k, Len(p))
      BY <3>1
    <3> QED
      BY <2>1, <3>1, <3>2 DEF Rest
  <2>3. g[Len(p) + 1] = {Len(k) + 1}
    <3>1. Len(p) + 1 \in 1..(Len(p) + 1) /\ Len(p) + 1 > Len(p)
      OBVIOUS
    <3>2. g[Len(p) + 1] = Rest(g, p, k, Len(p) + 1)
      BY <3>1
    <3> QED
      BY <3>1, <3>2 DEF Rest
  <2>4. \A j \in 1..(Len(k) + 1) : j \in g[at[N]]
    BY <2>1, <2>2, <2>3
  <2>5. \A j \in 1..(Len(k) + 1) : Follows(k, j, input, N)
    BY DEF Follows
  <2> QED
    BY <2>4, <2>5
<1>2. ASSUME NEW n \in 1..N, Right(n) PROVE Right(n - 1)
  <2> DEFINE a == at[n - 1]
             b == input[n]
  <2>1. n - 1 \in 0..N /\ n \in 0..N
    OBVIOUS
  <2>2. a \in 1..Len(p) /\ at[n] \in 1..Len(p)
    BY <2>1 DEF Shape
  <2>3. g[a] = {j \in 1..Len(k) : k[j] = b /\ j + 1 \in g[at[n]]}
    <3>1. CASE b \in D!Special
      <4>1. at[n] = a + 2 /\ p[a] = "\\" /\ p[a + 1] = b
        BY <3>1 DEF Shape
      <4>2. p[a] # "*" /\ p[a] # "?" /\ a < Len(p) /\ ~(a > Len(p)) /\ a \in 1..(Len(p) + 1)
        BY SMTT(30), <2>2, <4>1
      <4> HIDE DEF a, b
      <4> QED
        BY <4>1, <4>2 DEF Rest
    <3>2. CASE b \notin D!Special
      <4>1. at[n] = a + 1 /\ p[a] = b
        BY <3>2 DEF Shape
      <4>2. b # "*" /\ b # "?" /\ b # "\\" /\ ~(a > Len(p)) /\ a \in 1..(Len(p) + 1)
        BY <2>2, <3>2 DEF D!Special
      <4> HIDE DEF a, b
      <4> QED
        BY <4>1, <4>2 DEF Rest
    <3> QED
      BY <3>1, <3>2
  <2>4. ASSUME NEW j \in 1..(Len(k) + 1)
        PROVE  Follows(k, j, input, n - 1)
                 <=> j \in 1..Len(k) /\ k[j] = b /\ Follows(k, j + 1, input, n)
    <3>1. j + (N - (n - 1)) <= Len(k) + 1 <=> j + 1 + (N - n) <= Len(k) + 1
      OBVIOUS
    <3>2. j + 1 + (N - n) <= Len(k) + 1 => j \in 1..Len(k)
      OBVIOUS
    <3>3. \A i \in n..N : j + (i - (n - 1)) - 1 = j + (i - n)
      OBVIOUS
    <3>4. \A i \in (n + 1)..N : j + 1 + (i - n) - 1 = j + (i - n)
      OBVIOUS
    <3>5. Follows(k, j, input, n - 1) <=>
             /\ j + 1 + (N - n) <= Len(k) + 1
             /\ \A i \in n..N : k[j + (i - n)] = input[i]
      <4>1. (n - 1) + 1 = n
        OBVIOUS
      <4>2. Follows(k, j, input, n - 1) <=>
               /\ j + (N - (n - 1)) <= Len(k) + 1
               /\ \A i \in n..N : k[j + (i - (n - 1)) - 1] = input[i]
        BY <4>1 DEF Follows
      <4> QED
        BY <3>1, <3>3, <4>2
    <3>6. Follows(k, j + 1, input, n) <=>
             /\ j + 1 + (N - n) <= Len(k) + 1
             /\ \A i \in (n + 1)..N : k[j + (i - n)] = input[i]
      BY <3>4 DEF Follows
    <3>7. (\A i \in n..N : k[j + (i - n)] = input[i])
             <=> k[j] = b /\ \A i \in (n + 1)..N : k[j + (i - n)] = input[i]
      <4>1. n \in n..N /\ j + (n - n) = j
        OBVIOUS
      <4>2. \A i \in n..N : i = n \/ i \in (n + 1)..N
        OBVIOUS
      <4>3. \A i \in (n + 1)..N : i \in n..N
        OBVIOUS
      <4> QED
        BY <4>1, <4>2, <4>3
    <3> QED
      BY <3>2, <3>5, <3>6, <3>7
  <2>5. \A j \in 1..Len(k) : j + 1 \in g[at[n]] <=> Follows(k, j + 1, input, n)
    <3>1. \A j \in 1..Len(k) : j + 1 \in 1..(Len(k) + 1)
      OBVIOUS
    <3> QED
      BY <1>2, <3>1
  <2> HIDE DEF b
  <2> QED
    BY <2>3, <2>4, <2>5
<1>3. ASSUME T # {} PROVE FALSE
  <2>1. PICK m \in T : \A l \in T : m <= l
    <3>1. T \subseteq Nat
      OBVIOUS
    <3> HIDE DEF T
    <3> QED
      BY <1>3, <3>1, Least
  <2>2. m \in Nat /\ m <= N /\ ~Right(N - m)
    BY <2>1
  <2>3. m # 0
    BY <1>1, <2>2
  <2>4. m - 1 \in Nat /\ m - 1 <= N /\ ~ m <= m - 1
    BY <2>2, <2>3
  <2>5. m - 1 \notin T
    <3> HIDE DEF T
    <3> QED
      BY <2>1, <2>4
  <2> DEFINE n == N - (m - 1)
  <2>6. Right(n)
    BY <2>4, <2>5
  <2>7. n \in 1..N /\ n - 1 = N - m
    BY <2>2, <2>3
  <2> HIDE DEF n, T
  <2>8. Right(n - 1)
    <3> HIDE DEF Right
    <3> QED
      BY <1>2, <2>6, <2>7
  <2> QED
    BY <2>2, <2>7, <2>8
<1>4. ASSUME NEW n \in 0..N PROVE Right(n)
  <2>1. N - n \in Nat /\ N - n <= N /\ N - (N - n) = n
    OBVIOUS
  <2>2. N - n \notin T
    BY <1>3
  <2> QED
    BY <2>1, <2>2
<1> QED
  BY <1>4

\* scan_pattern and the server's MATCH together: the pattern made of a literal prefix matches
\* exactly the names that begin with it, whatever special bytes it has.
THEOREM PrefixIsLiteral ==
    ASSUME NEW input \in Seq(STRING), NEW k \in Seq(STRING)
    PROVE  D!Glob(D!ScanPattern("prefix", input), k) <=> D!IsPrefix(input, k)
<1> DEFINE p == D!ScanPattern("prefix", input)
<1>1. Len(input) \in Nat /\ Len(k) \in Nat
  OBVIOUS
<1>2. Len(p) \in Nat /\ \E at : Shape(at, p, input)
  BY PatternShape
<1> HIDE DEF p
<1>3. PICK at : Shape(at, p, input)
  BY <1>2
<1>4. PICK g : /\ \A i \in 1..(Len(p) + 1) : g[i] = Rest(g, p, k, i)
               /\ D!Glob(p, k) <=> 1 \in g[1]
  BY <1>2, GlobBegins
<1>5. \A n \in 0..Len(input) : \A j \in 1..(Len(k) + 1) :
          j \in g[at[n]] <=> Follows(k, j, input, n)
  BY <1>1, <1>2, <1>3, <1>4, ShapeMatches
<1>6. at[0] = 1 /\ 0 \in 0..Len(input) /\ 1 \in 1..(Len(k) + 1)
  BY <1>1, <1>3 DEF Shape
<1>7. D!Glob(p, k) <=> Follows(k, 1, input, 0)
  BY <1>4, <1>5, <1>6
<1>8. Follows(k, 1, input, 0) <=>
        Len(input) <= Len(k) /\ \A i \in 1..Len(input) : k[i] = input[i]
  BY <1>1 DEF Follows
<1>9. D!IsPrefix(input, k) <=>
        Len(input) <= Len(k) /\ \A i \in 1..Len(input) : k[i] = input[i]
  <2>1. ASSUME Len(input) <= Len(k)
        PROVE  SubSeq(input, 1, Len(input)) = SubSeq(k, 1, Len(input))
                 <=> \A i \in 1..Len(input) : k[i] = input[i]
    BY <1>1, <2>1
  <2> QED
    BY <2>1 DEF D!IsPrefix
<1> QED
  BY <1>7, <1>8, <1>9 DEF p

-----------------------------------------------------------------------------
(* Walks of the keyspace. *)

RunFields == {"mode", "input", "pattern", "cursor", "scans", "bytes", "matches", "started",
              "last", "finished"}

\* What the first c pages hold of the pattern of the run r is listed.
Covered(r, c) ==
    \A i \in 1..c : \A k \in Pages[i] : D!Glob(r.pattern, k) => k \in r.matches

Cursors == 0..(Len(Pages) - 1)

\* A run, and the requests on the way for it: each goes on from a cursor whose pages are listed.
RunOK ==
    /\ run = [f \in RunFields |-> run[f]]
    /\ run.mode \in D!Modes /\ run.input \in Seq(STRING)
    /\ run.pattern = D!ScanPattern(run.mode, run.input)
    /\ run.matches \subseteq Seq(STRING) /\ \A k \in run.matches : D!Glob(run.pattern, k)
    /\ run.cursor \in Cursors /\ Covered(run, run.cursor)
    /\ \A i \in 1..Len(fetching) : Covered(run, fetching[i])
    /\ run.finished = "exhausted" => Covered(run, Len(Pages))

WalkInv ==
    /\ fetching \in Seq(Cursors)
    /\ run = D!NoRun => fetching = <<>>
    /\ run # D!NoRun => RunOK

\* The run stays the same but for fields that tell nothing of its matches.
SameMatches ==
    /\ run' = [f \in RunFields |-> run'[f]]
    /\ \A f \in {"mode", "input", "pattern", "matches", "cursor"} : run'[f] = run[f]

LEMMA NoRunIsOver == D!NoRun.finished = "no run"
BY DEF D!NoRun

LEMMA SameMatchesStep ==
    ASSUME WalkInv, run # D!NoRun, SameMatches, run'.finished \in {"none", "exhausted", "time",
               "scans", "bytes", "denied", "cancelled"},
           run'.finished = "exhausted" => run.finished = "exhausted",
           fetching' \in Seq(Cursors),
           \A i \in 1..Len(fetching') :
               fetching'[i] = run.cursor \/ \E j \in 1..Len(fetching) : fetching'[i] = fetching[j]
    PROVE  WalkInv'
<1>1. RunOK
  BY DEF WalkInv
<1>2. \A c : Covered(run, c) => Covered(run', c)
  BY DEF Covered, SameMatches
<1>3. \A i \in 1..Len(fetching') : Covered(run, fetching'[i])
  BY <1>1 DEF RunOK
<1>4. \A i \in 1..Len(fetching') : Covered(run', fetching'[i])
  BY <1>2, <1>3
<1>5. RunOK'
  BY <1>1, <1>2, <1>4 DEF RunOK, SameMatches
<1>6. run' # D!NoRun
  BY NoRunIsOver
<1> QED
  BY <1>5, <1>6 DEF WalkInv

LEMMA WalkStep ==
    ASSUME WalkInv, [D!Next]_D!vars
    PROVE  WalkInv'
<1>0. Pages \in Seq(SUBSET Seq(STRING)) /\ Len(Pages) \in Nat \ {0}
  BY AssistAssumption
<1>1. ASSUME NEW mode \in D!Modes, NEW input \in Inputs, D!Start(mode, input) PROVE WalkInv'
  <2>1. run' = D!Fresh(mode, input) /\ fetching' = <<>> /\ input \in Seq(STRING)
    BY <1>1, AssistAssumption DEF D!Start
  <2> DEFINE pattern == D!ScanPattern(mode, input)
  <2>2. run' = [mode |-> mode, input |-> input, pattern |-> pattern, cursor |-> 0,
                scans |-> 0, bytes |-> 0, matches |-> {}, started |-> D!Never,
                last |-> D!Never, finished |-> "none"]
    BY <2>1 DEF D!Fresh
  <2> HIDE DEF pattern
  <2>3. /\ run' = [f \in RunFields |-> run'[f]] /\ run'.mode = mode /\ run'.input = input
        /\ run'.pattern = pattern /\ run'.matches = {} /\ run'.cursor = 0
        /\ run'.finished = "none"
    BY <2>2 DEF RunFields
  <2>4. fetching' \in Seq(Cursors) /\ Len(fetching') = 0
    BY <2>1
  <2>5. Covered(run', run'.cursor)
    BY <2>3 DEF Covered
  <2>6. RunOK'
    BY <1>0, <2>1, <2>3, <2>4, <2>5 DEF RunOK, Cursors, pattern
  <2> QED
    BY <2>1, <2>3, <2>4, <2>6 DEF WalkInv, D!NoRun
<1>2. CASE D!StartAutomatic \/ D!StartByUser
  BY <1>1, <1>2 DEF D!StartAutomatic, D!StartByUser, D!Modes
<1>3. CASE D!NextStep
  <2> DEFINE started == IF run.started = D!Never THEN now ELSE run.started
             r == [run EXCEPT !.started = started]
  <2>1. run.finished = "none" /\ run # D!NoRun
    BY <1>3, NoRunIsOver DEF D!NextStep, D!Walking
  <2>2. RunOK
    BY <2>1 DEF WalkInv
  <2>3. \/ /\ D!LimitReached(r) # "none" /\ fetching' = fetching
           /\ run' = [r EXCEPT !.finished = D!LimitReached(r)]
        \/ run' = r /\ fetching' = fetching
        \/ /\ run' = [r EXCEPT !.last = now, !.scans = @ + 1]
           /\ fetching' = Append(fetching, r.cursor)
    BY <1>3 DEF D!NextStep
  <2> HIDE DEF started
  <2>4. /\ r = [f \in RunFields |-> r[f]]
        /\ \A f \in RunFields \ {"started"} : r[f] = run[f]
    BY <2>2 DEF RunOK, RunFields
  <2>5. CASE run' = [r EXCEPT !.finished = D!LimitReached(r)] /\ fetching' = fetching
             /\ D!LimitReached(r) # "none"
    <3>1. D!LimitReached(r) \in {"time", "scans", "bytes"}
      BY <2>5 DEF D!LimitReached
    <3> DEFINE limit == D!LimitReached(r)
    <3> HIDE DEF limit, r
    <3>2. run' = [r EXCEPT !.finished = limit]
      BY <2>5 DEF limit
    <3>3. SameMatches /\ run'.finished = limit
      BY <2>4, <3>2 DEF SameMatches, RunFields
    <3> QED
      BY <2>1, <2>5, <3>1, <3>3, SameMatchesStep DEF limit, WalkInv
  <2>6. CASE run' = r /\ fetching' = fetching
    <3> HIDE DEF r
    <3>1. SameMatches /\ run'.finished = "none"
      BY <2>1, <2>4, <2>6 DEF SameMatches, RunFields
    <3> QED
      BY <2>1, <2>6, <3>1, SameMatchesStep DEF WalkInv
  <2>7. CASE run' = [r EXCEPT !.last = now, !.scans = @ + 1]
             /\ fetching' = Append(fetching, r.cursor)
    <3> HIDE DEF r
    <3> DEFINE scans == r.scans + 1
    <3>1. run' = [r EXCEPT !.last = now, !.scans = scans]
      BY <2>7
    <3> HIDE DEF scans
    <3>2. SameMatches /\ run'.finished = "none"
      BY <2>1, <2>4, <3>1 DEF SameMatches, RunFields
    <3>3. fetching' = Append(fetching, run.cursor) /\ run.cursor \in Cursors
          /\ fetching \in Seq(Cursors)
      BY <2>2, <2>4, <2>7 DEF RunOK, RunFields, WalkInv
    <3> HIDE DEF Cursors
    <3>4. /\ fetching' \in Seq(Cursors)
          /\ \A i \in 1..Len(fetching') : fetching'[i] = run.cursor
                \/ \E j \in 1..Len(fetching) : fetching'[i] = fetching[j]
      BY <3>3
    <3> QED
      BY <2>1, <3>2, <3>4, SameMatchesStep
  <2> QED
    BY <2>5, <2>6, <2>7, <2>3
<1>4. CASE D!Reply
  <2> DEFINE page == Head(fetching) + 1
             next == IF page = Len(Pages) THEN 0 ELSE page
  <2>1. PICK repeated \in SUBSET Fickle :
          /\ fetching # <<>> /\ fetching' = Tail(fetching)
          /\ run' = D!Feed(run, next, {k \in Pages[page] \cup repeated : D!Glob(run.pattern, k)})
    BY <1>4 DEF D!Reply
  <2>2. RunOK /\ fetching \in Seq(Cursors)
    BY <2>1 DEF WalkInv
  <2>3. /\ Head(fetching) \in Cursors /\ fetching' \in Seq(Cursors)
        /\ Head(fetching) = fetching[1] /\ 1 \in 1..Len(fetching)
        /\ \A i \in 1..Len(fetching') : \E j \in 1..Len(fetching) : fetching'[i] = fetching[j]
    <3> HIDE DEF Cursors
    <3>1. /\ Len(fetching) \in Nat \ {0} /\ Len(fetching') = Len(fetching) - 1
          /\ \A i \in 1..Len(fetching') : fetching'[i] = fetching[i + 1]
      BY <2>1, <2>2
    <3>2. \A i \in 1..Len(fetching') : i + 1 \in 1..Len(fetching)
      BY <3>1
    <3> QED
      BY <2>1, <2>2, <3>1, <3>2
  <2>4. page \in 1..Len(Pages) /\ next \in Cursors
    BY <1>0, <2>3 DEF Cursors
  <2>5. Covered(run, page - 1)
    <3>1. page - 1 = fetching[1]
      BY <1>0, <2>3 DEF Cursors
    <3> QED
      BY <2>2, <2>3, <3>1 DEF RunOK
  <2> DEFINE found == {k \in Pages[page] \cup repeated : D!Glob(run.pattern, k)}
             matches == run.matches \cup found
             bytes == run.bytes + D!Cardinality(found)
             finished == IF next = 0 THEN "exhausted" ELSE run.finished
  <2>6. found \subseteq Seq(STRING)
    BY <1>0, <2>1, <2>4, AssistAssumption
  <2>7. run' = [run EXCEPT !.bytes = bytes, !.matches = matches, !.cursor = next,
                           !.finished = finished]
    <3>1. run' = D!Feed(run, next, found)
      BY <2>1
    <3> HIDE DEF next, found
    <3> QED
      BY <3>1 DEF D!Feed
  <2> HIDE DEF bytes, next, matches, finished
  <2>8. /\ run' = [f \in RunFields |-> run'[f]] /\ run'.mode = run.mode /\ run'.input = run.input
        /\ run'.pattern = run.pattern /\ run'.matches = matches /\ run'.cursor = next
        /\ run'.finished = finished
    BY <2>2, <2>7 DEF RunOK, RunFields
  <2>9. \A c : Covered(run, c) => Covered(run', c)
    BY <2>8 DEF Covered, matches
  <2>10. Covered(run', page)
    <3>1. \A k \in Pages[page] : D!Glob(run.pattern, k) => k \in matches
      BY DEF matches
    <3>2. \A i \in 1..page : i = page \/ i \in 1..(page - 1)
      BY <2>4
    <3> HIDE DEF page
    <3> QED
      BY <2>5, <2>8, <3>1, <3>2 DEF Covered, matches
  <2>11. Covered(run', next) /\ (finished = "exhausted" => Covered(run', Len(Pages)))
    <3>1. next = 0 => page = Len(Pages) /\ Covered(run', 0)
      BY <2>4 DEF next, Covered
    <3>2. next # 0 => next = page /\ finished = run.finished
      BY DEF next, finished
    <3> HIDE DEF page
    <3> QED
      BY <2>2, <2>9, <2>10, <3>1, <3>2 DEF RunOK
  <2>12. \A i \in 1..Len(fetching') : Covered(run', fetching'[i])
    <3>1. \A i \in 1..Len(fetching') : Covered(run, fetching'[i])
      BY <2>2, <2>3 DEF RunOK
    <3> QED
      BY <2>9, <3>1
  <2>13. matches \subseteq Seq(STRING) /\ \A k \in matches : D!Glob(run.pattern, k)
    BY <2>2, <2>6 DEF RunOK, matches
  <2>14. RunOK'
    <3> HIDE DEF page
    <3> QED
      BY <2>2, <2>4, <2>8, <2>11, <2>12, <2>13 DEF RunOK
  <2>15. run' # D!NoRun
    <3>1. DOMAIN run' = RunFields /\ DOMAIN D!NoRun = {"finished"}
      BY <2>8 DEF D!NoRun
    <3> QED
      BY <3>1 DEF RunFields
  <2> QED
    BY <2>3, <2>14, <2>15 DEF WalkInv
<1>5. CASE D!Deny
  <2>1. /\ fetching # <<>> /\ fetching' = Tail(fetching)
        /\ run' = [run EXCEPT !.finished = "denied"]
    BY <1>5 DEF D!Deny
  <2>2. RunOK /\ run # D!NoRun /\ fetching \in Seq(Cursors)
    BY <2>1 DEF WalkInv
  <2>3. SameMatches /\ run'.finished = "denied"
    BY <2>1, <2>2 DEF RunOK, SameMatches, RunFields
  <2>4. /\ fetching' \in Seq(Cursors)
        /\ \A i \in 1..Len(fetching') : \E j \in 1..Len(fetching) : fetching'[i] = fetching[j]
    <3> HIDE DEF Cursors
    <3>1. /\ Len(fetching) \in Nat \ {0} /\ Len(fetching') = Len(fetching) - 1
          /\ \A i \in 1..Len(fetching') : fetching'[i] = fetching[i + 1]
      BY <2>1, <2>2
    <3>2. \A i \in 1..Len(fetching') : i + 1 \in 1..Len(fetching)
      BY <3>1
    <3> QED
      BY <2>1, <2>2, <3>1, <3>2
  <2> QED
    BY <2>2, <2>3, <2>4, SameMatchesStep
<1>6. CASE D!Cancel
  <2>1. /\ run.finished = "none" /\ run # D!NoRun /\ fetching' = fetching
        /\ run' = [run EXCEPT !.finished = "cancelled"]
    BY <1>6, NoRunIsOver DEF D!Cancel, D!Walking
  <2>2. SameMatches /\ run'.finished = "cancelled"
    BY <2>1 DEF WalkInv, RunOK, SameMatches, RunFields
  <2> QED
    BY <2>1, <2>2, SameMatchesStep DEF WalkInv
<1>7. CASE D!Clock \/ UNCHANGED D!vars
  BY <1>7 DEF D!Clock, D!vars, WalkInv, RunOK, Covered
<1> QED
  BY <1>2, <1>3, <1>4, <1>5, <1>6, <1>7 DEF D!Next

\* ConclusiveMeansWalked: a run lists only what the user asked for, and one reported as exhausted
\* lists all of it that stayed: for any pages, in any order of limits, waits, refusals, repeated
\* replies and replies to a run that had ended, and any bytes in what was typed.
THEOREM WalksAreConclusive == AssistSpec => []ConclusiveMeansWalked
<1>1. AssistInit => WalkInv
  <2>1. <<>> \in Seq(Cursors)
    OBVIOUS
  <2> QED
    BY <2>1 DEF AssistInit, D!Init, WalkInv
<1>2. [AssistNext]_all => [D!Next]_D!vars
  BY DEF AssistNext, OfBroker, OfBuffer, OfDiscovery, OfCaches, all, discoveryVars, D!vars
<1>3. WalkInv /\ [AssistNext]_all => WalkInv'
  BY <1>2, WalkStep
<1>4. WalkInv => ConclusiveMeansWalked
  <2> SUFFICES ASSUME WalkInv, run # D!NoRun
               PROVE  /\ \A k \in run.matches : D!Wanted(k)
                      /\ run.finished = "exhausted" =>
                           \A i \in DOMAIN Pages : \A k \in Pages[i] :
                               D!Wanted(k) => k \in run.matches
    BY DEF ConclusiveMeansWalked, D!ConclusiveMeansWalked
  <2>1. RunOK /\ Pages \in Seq(SUBSET Seq(STRING))
    BY AssistAssumption DEF WalkInv
  <2>2. ASSUME NEW k \in Seq(STRING) PROVE D!Wanted(k) <=> D!Glob(run.pattern, k)
    <3>1. CASE run.mode = "prefix"
      <4>1. run.input \in Seq(STRING) /\ run.pattern = D!ScanPattern("prefix", run.input)
        BY <2>1, <3>1 DEF RunOK
      <4> QED
        BY <2>2, <3>1, <4>1, PrefixIsLiteral DEF D!Wanted
    <3>2. CASE run.mode = "glob"
      <4>1. run.pattern = run.input
        BY <2>1, <3>2 DEF RunOK, D!ScanPattern
      <4> QED
        BY <3>2, <4>1 DEF D!Wanted
    <3> QED
      BY <2>1, <3>1, <3>2 DEF RunOK, D!Modes
  <2>3. \A k \in run.matches : D!Wanted(k)
    BY <2>1, <2>2 DEF RunOK
  <2>4. ASSUME run.finished = "exhausted", NEW i \in DOMAIN Pages, NEW k \in Pages[i], D!Wanted(k)
        PROVE  k \in run.matches
    <3>1. i \in 1..Len(Pages) /\ k \in Seq(STRING)
      BY <2>1
    <3> QED
      BY <2>1, <2>2, <2>4, <3>1 DEF RunOK, Covered
  <2> QED
    BY <2>3, <2>4
<1> QED
  BY <1>1, <1>3, <1>4, PTL DEF AssistSpec

-----------------------------------------------------------------------------
(* The weight of names. *)

\* The weight of the first 0, 1, ..., n names.
Sums(g, items, n) == g = [i \in 0..n |-> IF i = 0 THEN 0 ELSE g[i - 1] + items[i].cost]

LEMMA SumsExists ==
    ASSUME NEW items, NEW n \in Nat
    PROVE  \E g : Sums(g, items, n)
<1> DEFINE T == {m \in Nat : ~ \E g : Sums(g, items, m)}
<1> SUFFICES ASSUME T # {} PROVE FALSE
  OBVIOUS
<1>1. PICK m \in T : \A k \in T : m <= k
  BY Least
<1>2. m # 0
  <2> DEFINE g == [i \in 0..0 |-> 0]
  <2>1. Sums(g, items, 0)
    BY DEF Sums
  <2> QED
    BY <2>1
<1>3. m - 1 \in Nat /\ m - 1 \notin T
  BY <1>1, <1>2
<1>4. PICK g : Sums(g, items, m - 1)
  BY <1>3
<1> DEFINE h == [i \in 0..m |-> IF i <= m - 1 THEN g[i] ELSE g[m - 1] + items[m].cost]
<1>5. \A i \in 0..m : h[i] = IF i = 0 THEN 0 ELSE h[i - 1] + items[i].cost
  <2> TAKE i \in 0..m
  <2>1. CASE i = 0
    BY <1>3, <1>4, <2>1 DEF Sums
  <2>2. CASE i \in 1..(m - 1)
    BY <1>3, <1>4, <2>2 DEF Sums
  <2>3. CASE i = m
    BY <1>2, <1>3, <2>3
  <2> QED
    BY <2>1, <2>2, <2>3
<1>6. Sums(h, items, m)
  BY <1>5 DEF Sums
<1> QED
  BY <1>6

\* Names, each with what it costs.
Costs(items) == List(items) /\ \A i \in 1..Len(items) : items[i].cost \in Nat

LEMMA WeightSums ==
    ASSUME NEW items, Costs(items)
    PROVE  \E g : /\ O!Weight(items) = g[Len(items)]
                  /\ g[0] = 0 /\ \A i \in 1..Len(items) : g[i] = g[i - 1] + items[i].cost
                  /\ \A i \in 0..Len(items) : g[i] \in Nat
<1> DEFINE n == Len(items)
           g == CHOOSE g : Sums(g, items, n)
<1>1. n \in Nat
  BY DEF Costs, List
<1>2. O!Weight(items) = g[n]
  BY DEF O!Weight, Sums
<1>3. Sums(g, items, n)
  BY <1>1, SumsExists
<1> HIDE DEF g
<1>4. g[0] = 0
  BY <1>1, <1>3 DEF Sums
<1>5. \A i \in 1..n : g[i] = g[i - 1] + items[i].cost
  BY <1>1, <1>3 DEF Sums
<1> DEFINE T == {i \in 0..n : g[i] \notin Nat}
<1>6. ASSUME T # {} PROVE FALSE
  <2>1. PICK m \in T : \A k \in T : m <= k
    <3>1. T \subseteq Nat
      BY <1>1
    <3> HIDE DEF T
    <3> QED
      BY <1>6, <3>1, Least
  <2>2. m \in 1..n /\ g[m - 1] \in Nat
    BY <1>1, <1>4, <2>1
  <2>3. items[m].cost \in Nat
    BY <2>2 DEF Costs
  <2> QED
    BY <1>5, <2>1, <2>2, <2>3
<1> QED
  BY <1>2, <1>4, <1>5, <1>6

\* A stretch of names weighs the difference of two sums.
LEMMA StretchWeighs ==
    ASSUME NEW s, Costs(s), NEW g,
           g[0] = 0, \A i \in 1..Len(s) : g[i] = g[i - 1] + s[i].cost,
           \A i \in 0..Len(s) : g[i] \in Nat,
           NEW t, Costs(t), NEW d \in Nat, d + Len(t) <= Len(s),
           \A i \in 1..Len(t) : t[i].cost = s[d + i].cost
    PROVE  O!Weight(t) = g[d + Len(t)] - g[d]
<1>1. PICK h : /\ O!Weight(t) = h[Len(t)]
               /\ h[0] = 0 /\ \A i \in 1..Len(t) : h[i] = h[i - 1] + t[i].cost
               /\ \A i \in 0..Len(t) : h[i] \in Nat
  BY WeightSums
<1>2. Len(t) \in Nat /\ Len(s) \in Nat
  BY DEF Costs, List
<1> DEFINE n == Len(t)
           T == {i \in 0..n : h[i] # g[d + i] - g[d]}
<1>3. ASSUME T # {} PROVE FALSE
  <2>1. PICK m \in T : \A k \in T : m <= k
    <3>1. T \subseteq Nat
      BY <1>2
    <3> HIDE DEF T
    <3> QED
      BY <1>3, <3>1, Least
  <2>2. d + 0 = d /\ d \in 0..Len(s) /\ g[d] \in Nat
    BY <1>2
  <2>3. m # 0
    BY <1>1, <2>1, <2>2
  <2>4. m \in 1..n /\ m - 1 \in 0..n /\ ~ m <= m - 1
    BY <1>2, <2>1, <2>3
  <2>5. h[m - 1] = g[d + (m - 1)] - g[d]
    BY <2>1, <2>4
  <2>6. h[m] = h[m - 1] + t[m].cost /\ t[m].cost = s[d + m].cost /\ t[m].cost \in Nat
    BY <1>1, <2>4 DEF Costs
  <2>7. d + m \in 1..Len(s) /\ (d + m) - 1 = d + (m - 1) /\ d + (m - 1) \in 0..Len(s)
    BY <1>2, <2>4
  <2>8. g[d + m] = g[d + (m - 1)] + s[d + m].cost
    BY <2>7
  <2>9. g[d + (m - 1)] \in Nat
    BY <2>7
  <2>10. h[m] = g[d + m] - g[d]
    BY <2>2, <2>5, <2>6, <2>8, <2>9, SMTT(30)
  <2> QED
    BY <2>1, <2>10
<1>4. n \in 0..n
  BY <1>2
<1> QED
  BY <1>1, <1>3, <1>4

LEMMA SplitWeight ==
    ASSUME NEW s, Costs(s), NEW k \in 0..Len(s)
    PROVE  LET front == SubSeq(s, 1, k)
               back == SubSeq(s, k + 1, Len(s))
           IN  /\ Costs(back) /\ Len(back) = Len(s) - k
               /\ O!Weight(front) \in Nat /\ O!Weight(back) \in Nat
               /\ O!Weight(s) = O!Weight(front) + O!Weight(back)
<1> DEFINE front == SubSeq(s, 1, k)
           back == SubSeq(s, k + 1, Len(s))
<1>1. PICK S : s \in Seq(S)
  BY DEF Costs, List
<1>2. Len(s) \in Nat /\ k \in Nat /\ k <= Len(s)
  BY <1>1
<1>3. /\ front \in Seq(S) /\ Len(front) = k /\ \A i \in 1..k : front[i] = s[0 + i]
  BY <1>1, <1>2
<1>4. /\ back \in Seq(S) /\ Len(back) = Len(s) - k
      /\ \A i \in 1..(Len(s) - k) : back[i] = s[k + i]
  BY <1>1, <1>2
<1> HIDE DEF front, back
<1>5. Costs(front)
  <2>1. \A i \in 1..k : 0 + i \in 1..Len(s)
    BY <1>2
  <2> QED
    BY <1>3, <2>1 DEF Costs, List
<1>6. Costs(back)
  <2>1. \A i \in 1..(Len(s) - k) : k + i \in 1..Len(s)
    BY <1>2
  <2> QED
    BY <1>4, <2>1 DEF Costs, List
<1>7. PICK g : /\ O!Weight(s) = g[Len(s)]
               /\ g[0] = 0 /\ \A i \in 1..Len(s) : g[i] = g[i - 1] + s[i].cost
               /\ \A i \in 0..Len(s) : g[i] \in Nat
  BY WeightSums
<1>8. O!Weight(front) = g[0 + k] - g[0]
  <2>1. 0 \in Nat /\ 0 + Len(front) <= Len(s)
    BY <1>2, <1>3
  <2>2. \A i \in 1..Len(front) : front[i].cost = s[0 + i].cost
    BY <1>3
  <2>3. O!Weight(front) = g[0 + Len(front)] - g[0]
    BY <1>5, <1>7, <2>1, <2>2, StretchWeighs
  <2> QED
    BY <1>3, <2>3
<1>9. O!Weight(back) = g[k + (Len(s) - k)] - g[k]
  <2>1. k \in Nat /\ k + Len(back) <= Len(s)
    BY <1>2, <1>4
  <2>2. \A i \in 1..Len(back) : back[i].cost = s[k + i].cost
    BY <1>4
  <2>3. O!Weight(back) = g[k + Len(back)] - g[k]
    BY <1>6, <1>7, <2>1, <2>2, StretchWeighs
  <2> QED
    BY <1>4, <2>3
<1>10. 0 + k = k /\ k + (Len(s) - k) = Len(s) /\ k \in 0..Len(s) /\ Len(s) \in 0..Len(s)
  BY <1>2
<1>11. g[k] \in Nat /\ g[Len(s)] \in Nat /\ g[0] = 0
  BY <1>7, <1>10
<1>12. O!Weight(front) = g[k] /\ O!Weight(back) = g[Len(s)] - g[k]
  BY <1>8, <1>9, <1>10, <1>11
<1>13. O!Weight(back) \in Nat
  <2>1. PICK h : O!Weight(back) = h[Len(back)] /\ \A i \in 0..Len(back) : h[i] \in Nat
    BY <1>6, WeightSums
  <2>2. Len(back) \in 0..Len(back)
    BY <1>2, <1>4
  <2> QED
    BY <2>1, <2>2
<1> QED
  BY <1>4, <1>6, <1>7, <1>11, <1>12, <1>13 DEF front, back

LEMMA AppendWeight ==
    ASSUME NEW s, Costs(s), NEW o, o.cost \in Nat
    PROVE  /\ Costs(Append(s, o)) /\ Len(Append(s, o)) = Len(s) + 1
           /\ O!Weight(s) \in Nat
           /\ O!Weight(Append(s, o)) = O!Weight(s) + o.cost
<1> DEFINE t == Append(s, o)
<1>1. PICK S : s \in Seq(S)
  BY DEF Costs, List
<1> DEFINE S2 == S \cup {o}
<1>2. s \in Seq(S2) /\ o \in S2
  BY <1>1
<1> HIDE DEF S2
<1>3. /\ t \in Seq(S2) /\ Len(t) = Len(s) + 1 /\ t[Len(s) + 1] = o /\ Len(s) \in Nat
      /\ \A i \in 1..Len(s) : t[i] = s[i]
  BY <1>2
<1> HIDE DEF t
<1>4. Costs(t)
  <2>1. \A i \in 1..Len(t) : i \in 1..Len(s) \/ i = Len(s) + 1
    BY <1>3
  <2> QED
    BY <1>3, <2>1 DEF Costs, List
<1>5. PICK g : /\ O!Weight(t) = g[Len(t)]
               /\ g[0] = 0 /\ \A i \in 1..Len(t) : g[i] = g[i - 1] + t[i].cost
               /\ \A i \in 0..Len(t) : g[i] \in Nat
  BY <1>4, WeightSums
<1>6. O!Weight(s) = g[0 + Len(s)] - g[0]
  <2>1. 0 \in Nat /\ 0 + Len(s) <= Len(t)
    BY <1>3
  <2>2. \A i \in 1..Len(s) : s[i].cost = t[0 + i].cost
    BY <1>3
  <2> QED
    BY <1>4, <1>5, <2>1, <2>2, StretchWeighs
<1>7. /\ 0 + Len(s) = Len(s) /\ Len(s) \in 0..Len(t)
      /\ Len(t) \in 1..Len(t) /\ Len(t) - 1 = Len(s)
  BY <1>3
<1>8. g[Len(t)] = g[Len(s)] + o.cost /\ g[Len(s)] \in Nat
  BY <1>3, <1>5, <1>7
<1>9. O!Weight(s) = g[Len(s)]
  BY <1>5, <1>6, <1>7, <1>8
<1> QED
  BY <1>3, <1>4, <1>5, <1>8, <1>9 DEF t

LEMMA SameWeight ==
    ASSUME NEW s, Costs(s), NEW t, List(t), Len(t) = Len(s),
           \A i \in 1..Len(s) : t[i].cost = s[i].cost
    PROVE  Costs(t) /\ O!Weight(t) = O!Weight(s)
<1>1. Costs(t)
  BY DEF Costs
<1>2. PICK g : /\ O!Weight(s) = g[Len(s)]
               /\ g[0] = 0 /\ \A i \in 1..Len(s) : g[i] = g[i - 1] + s[i].cost
               /\ \A i \in 0..Len(s) : g[i] \in Nat
  BY WeightSums
<1>3. Len(s) \in Nat
  BY DEF Costs, List
<1>4. O!Weight(t) = g[0 + Len(t)] - g[0]
  <2>1. 0 \in Nat /\ 0 + Len(t) <= Len(s)
    BY <1>3
  <2>2. \A i \in 1..Len(t) : t[i].cost = s[0 + i].cost
    BY <1>3
  <2> QED
    BY <1>1, <1>2, <2>1, <2>2, StretchWeighs
<1>5. 0 + Len(t) = Len(s) /\ g[Len(s)] \in Nat
  BY <1>2, <1>3
<1> QED
  BY <1>1, <1>2, <1>4, <1>5

LEMMA EmptyWeight == Costs(<<>>) /\ O!Weight(<<>>) = 0 /\ Len(<<>>) = 0
<1>1. Costs(<<>>) /\ Len(<<>>) = 0
  BY EmptyLists DEF Costs
<1> QED
  BY <1>1, WeightSums

-----------------------------------------------------------------------------
(* The caches of names. *)

\* The names left after 0, 1, ..., n of them were looked at.
Look(o, keep, left) == IF o.scope = keep THEN Append(left, o) ELSE left
Looked(f, items, keep, n) ==
    f = [i \in 0..n |-> IF i = 0 THEN <<>> ELSE Look(items[i], keep, f[i - 1])]

LEMMA LookedExists ==
    ASSUME NEW items, NEW keep, NEW n \in Nat
    PROVE  \E f : Looked(f, items, keep, n)
<1> DEFINE T == {m \in Nat : ~ \E f : Looked(f, items, keep, m)}
<1> SUFFICES ASSUME T # {} PROVE FALSE
  OBVIOUS
<1>1. PICK m \in T : \A k \in T : m <= k
  BY Least
<1>2. m # 0
  <2> DEFINE f == [i \in 0..0 |-> <<>>]
  <2>1. Looked(f, items, keep, 0)
    BY DEF Looked
  <2> QED
    BY <2>1
<1>3. m - 1 \in Nat /\ m - 1 \notin T
  BY <1>1, <1>2
<1>4. PICK f : Looked(f, items, keep, m - 1)
  BY <1>3
<1> DEFINE h == [i \in 0..m |-> IF i <= m - 1 THEN f[i] ELSE Look(items[m], keep, f[m - 1])]
<1>5. \A i \in 0..m : h[i] = IF i = 0 THEN <<>> ELSE Look(items[i], keep, h[i - 1])
  <2> TAKE i \in 0..m
  <2>1. CASE i = 0
    BY <1>3, <1>4, <2>1 DEF Looked
  <2>2. CASE i \in 1..(m - 1)
    BY <1>3, <1>4, <2>2 DEF Looked
  <2>3. CASE i = m
    BY <1>2, <1>3, <2>3
  <2> QED
    BY <2>1, <2>2, <2>3
<1>6. Looked(h, items, keep, m)
  BY <1>5 DEF Looked
<1> QED
  BY <1>6

\* Retaining some names leaves no more of them and no more weight.
LEMMA RetainedWeight ==
    ASSUME NEW s, Costs(s), NEW keep
    PROVE  LET t == O!Retained(s, keep) IN
           Costs(t) /\ Len(t) <= Len(s) /\ O!Weight(t) <= O!Weight(s)
<1> DEFINE n == Len(s)
           f == CHOOSE f : Looked(f, s, keep, n)
<1>1. n \in Nat
  BY DEF Costs, List
<1>2. O!Retained(s, keep) = f[n]
  BY DEF O!Retained, Looked, Look
<1>3. Looked(f, s, keep, n)
  BY <1>1, LookedExists
<1> HIDE DEF f
<1>4. f[0] = <<>>
  BY <1>1, <1>3 DEF Looked
<1>5. \A i \in 1..n : f[i] = Append(f[i - 1], s[i]) \/ f[i] = f[i - 1]
  <2>1. \A i \in 1..n : f[i] = Look(s[i], keep, f[i - 1])
    BY <1>1, <1>3 DEF Looked
  <2> QED
    BY <2>1 DEF Look
<1>6. PICK g : /\ O!Weight(s) = g[n]
               /\ g[0] = 0 /\ \A i \in 1..n : g[i] = g[i - 1] + s[i].cost
               /\ \A i \in 0..n : g[i] \in Nat
  BY WeightSums
<1> DEFINE Good(i) == /\ Costs(f[i]) /\ Len(f[i]) \in Nat /\ Len(f[i]) <= i
                      /\ O!Weight(f[i]) \in Nat /\ O!Weight(f[i]) <= g[i]
           T == {i \in 0..n : ~Good(i)}
<1>7. ASSUME T # {} PROVE FALSE
  <2>1. PICK m \in T : \A k \in T : m <= k
    <3>1. T \subseteq Nat
      BY <1>1
    <3> HIDE DEF T
    <3> QED
      BY <1>7, <3>1, Least
  <2>2. Good(0)
    BY <1>4, <1>6, EmptyWeight
  <2>3. m \in 1..n /\ m - 1 \in 0..n /\ ~ m <= m - 1
    BY <1>1, <2>1, <2>2
  <2>4. Good(m - 1)
    BY <2>1, <2>3
  <2>5. g[m] = g[m - 1] + s[m].cost /\ g[m - 1] \in Nat /\ s[m].cost \in Nat
    BY <1>6, <2>3 DEF Costs
  <2>6. CASE f[m] = f[m - 1]
    BY <2>1, <2>3, <2>4, <2>5, <2>6
  <2>7. CASE f[m] = Append(f[m - 1], s[m])
    <3> DEFINE u == f[m - 1]
    <3> HIDE DEF u
    <3>1. Costs(u) /\ Len(u) \in Nat /\ Len(u) <= m - 1 /\ O!Weight(u) <= g[m - 1]
      BY <2>4 DEF u
    <3>2. /\ Costs(Append(u, s[m])) /\ Len(Append(u, s[m])) = Len(u) + 1
          /\ O!Weight(u) \in Nat /\ O!Weight(Append(u, s[m])) = O!Weight(u) + s[m].cost
      BY <2>5, <3>1, AppendWeight
    <3>3. Good(m)
      BY <2>3, <2>5, <2>7, <3>1, <3>2 DEF u
    <3> QED
      BY <2>1, <3>3
  <2> QED
    BY <1>5, <2>3, <2>6, <2>7
<1>8. Good(n)
  BY <1>1, <1>7
<1> QED
  BY <1>2, <1>6, <1>8

StoreFields == {"items", "bytes", "capacity", "evicted"}

\* The running count of a cache may exceed the weight of its names, never fall below it.
StoreOK(s) ==
    /\ s = [f \in StoreFields |-> s[f]]
    /\ Costs(s.items) /\ s.bytes \in Nat /\ s.capacity \in Nat
    /\ O!Weight(s.items) <= s.bytes
    /\ Len(s.items) <= MaxItems /\ O!Weight(s.items) <= CacheBytes
    /\ Len(s.items) <= s.capacity
    /\ O!Bytes(s) <= CacheBytes \/ O!Doubled(s) \/ Len(s.items) <= 1

LEMMA NatTimes == \A x, y \in Nat : x * y \in Nat
OBVIOUS

LEMMA HalfOfDouble ==
    ASSUME NEW c \in Nat
    PROVE  (2 * c) \div 2 = c /\ \A x \in Nat : (2 * c) * x = c * x + c * x
OBVIOUS

\* A name more, where one went or the limit was asked about: the slots are within it but for those
\* that come with the name.
OneMore(c, b, n, t) ==
    /\ n <= c /\ c # 0 /\ b + c * Slot <= CacheBytes
    /\ t.bytes = b /\ Len(t.items) = n + 1
    /\ t.capacity = IF n < c THEN c ELSE 2 * c

LEMMA SlotsHeld ==
    ASSUME NEW c \in Nat, NEW b \in Nat, NEW n \in Nat, NEW t, OneMore(c, b, n, t)
    PROVE  /\ O!Bytes(t) <= CacheBytes \/ O!Doubled(t)
           /\ n + 1 <= t.capacity
<1> DEFINE slot == Slot
           limit == CacheBytes
<1>0. /\ n <= c /\ c # 0 /\ b + c * slot <= limit
      /\ t.bytes = b /\ Len(t.items) = n + 1
      /\ t.capacity = IF n < c THEN c ELSE 2 * c
      /\ slot = Slot /\ limit = CacheBytes /\ slot \in Nat /\ limit \in Nat
  BY AssistAssumption DEF OneMore
<1> HIDE DEF slot, limit
<1> USE <1>0
<1>1. CASE n < c
  <2>1. t.capacity = c
    BY <1>1
  <2>2. O!Bytes(t) = b + c * slot
    BY <2>1 DEF O!Bytes
  <2> QED
    BY <1>1, <2>1, <2>2
<1>2. CASE ~(n < c)
  <2>1. t.capacity = 2 * c /\ n = c
    BY <1>2
  <2>2. (2 * c) \div 2 = c /\ (2 * c) * slot = c * slot + c * slot
    BY HalfOfDouble
  <2>3. PICK p : p = c * slot
    OBVIOUS
  <2>4. p \in Nat
    BY <2>3, NatTimes
  <2>5. O!Bytes(t) = b + (p + p)
    <3>1. t.capacity * Slot = p + p
      BY <2>1, <2>2, <2>3
    <3> QED
      BY <3>1 DEF O!Bytes
  <2>6. (b + (p + p)) - p <= limit
    BY <2>3, <2>4
  <2>7. O!Doubled(t)
    <3>1. t.capacity \div 2 = c
      BY <2>1, <2>2
    <3>2. Len(t.items) <= c + 1
      BY <2>1
    <3>3. O!Bytes(t) - c * Slot <= CacheBytes
      BY <2>3, <2>5, <2>6
    <3> QED
      BY <3>1, <3>2, <3>3 DEF O!Doubled
  <2>8. n + 1 <= 2 * c
    BY <2>1
  <2> QED
    BY <2>1, <2>7, <2>8
<1> QED
  BY <1>1, <1>2

LEMMA AdmittedOK ==
    ASSUME NEW s, StoreOK(s), NEW o, o.cost \in Nat, o.cost <= CacheBytes
    PROVE  StoreOK(O!Admitted(s, o))
<1> DEFINE k == O!Evictions(s, o.cost)
           items == s.items
           front == SubSeq(items, 1, k)
           back == SubSeq(items, k + 1, Len(items))
           t == O!Admitted(s, o)
           capacity == O!Grown([s EXCEPT !.items = SubSeq(@, k + 1, Len(@))])
<1>0. MaxItems \in Nat \ {0} /\ CacheBytes \in Nat /\ Slot \in Nat /\ Len(items) \in Nat
  BY AssistAssumption DEF StoreOK, Costs, List
<1>1. /\ k \in 0..Len(items)
      /\ \/ back = <<>>
         \/ /\ Len(items) - k + 1 <= MaxItems
            /\ O!Bytes(s) - O!Weight(front) + o.cost <= CacheBytes
  <2> DEFINE Left(i) == SubSeq(items, i + 1, Len(items))
             Enough(i) == /\ Len(items) - i + 1 <= MaxItems
                          /\ O!Bytes(s) - O!Weight(SubSeq(items, 1, i)) + o.cost <= CacheBytes
             K == {i \in 0..Len(items) : Left(i) = <<>> \/ Enough(i)}
  <2>1. k = O!Min(K)
    BY DEF O!Evictions
  <2>2. Len(items) \in K
    <3>1. PICK S : items \in Seq(S)
      BY DEF StoreOK, Costs, List
    <3>2. Left(Len(items)) = <<>>
      BY <3>1
    <3> QED
      BY <1>0, <3>2
  <2>3. K \subseteq Nat /\ K # {}
    BY <1>0, <2>2
  <2>4. \E i \in K : \A j \in K : i <= j
    <3> HIDE DEF K
    <3> QED
      BY <2>3, Least
  <2>5. O!Min(K) \in K
    <3> HIDE DEF K
    <3> QED
      BY <2>4 DEF O!Min
  <2>6. k \in K
    BY <2>1, <2>5
  <2> QED
    BY <2>6
<1>2. t = [items |-> Append(back, o), bytes |-> s.bytes - O!Weight(front) + o.cost,
           capacity |-> capacity, evicted |-> s.evicted + k]
  BY DEF O!Admitted
<1> HIDE DEF k
<1>3. /\ Costs(back) /\ Len(back) = Len(items) - k
      /\ O!Weight(front) \in Nat /\ O!Weight(back) \in Nat
      /\ O!Weight(items) = O!Weight(front) + O!Weight(back)
  BY <1>1, SplitWeight DEF StoreOK
<1>4. /\ capacity \in Nat /\ s.capacity \in Nat /\ FirstSlots \in Nat \ {0}
      /\ capacity = IF Len(back) < s.capacity THEN s.capacity
                    ELSE IF s.capacity = 0 THEN FirstSlots ELSE 2 * s.capacity
  <2> DEFINE r == [s EXCEPT !.items = SubSeq(@, k + 1, Len(@))]
  <2>1. r.capacity = s.capacity /\ s.capacity \in Nat /\ r.items = back
    BY DEF StoreOK, StoreFields
  <2>2. FirstSlots \in Nat \ {0}
    BY AssistAssumption
  <2> HIDE DEF r, back
  <2>3. /\ O!Grown(r) \in Nat
        /\ O!Grown(r) = IF Len(back) < s.capacity THEN s.capacity
                        ELSE IF s.capacity = 0 THEN FirstSlots ELSE 2 * s.capacity
    BY <2>1, <2>2 DEF O!Grown
  <2> QED
    BY <2>1, <2>2, <2>3 DEF r
<1>5. O!Bytes(s) >= s.bytes /\ O!Bytes(s) \in Nat
  <2>1. s.capacity * Slot \in Nat
    BY <1>0, NatTimes DEF StoreOK
  <2> QED
    BY <2>1 DEF O!Bytes, StoreOK
<1> HIDE DEF front, back, t, capacity
<1>6. /\ Costs(Append(back, o)) /\ Len(Append(back, o)) = Len(back) + 1
      /\ O!Weight(Append(back, o)) = O!Weight(back) + o.cost
  BY <1>3, AppendWeight
<1> DEFINE new == Append(back, o)
           bytes == s.bytes - O!Weight(front) + o.cost
           evicted == s.evicted + k
<1>7. bytes \in Nat /\ O!Weight(new) <= bytes
  <2> DEFINE gone == O!Weight(front)
             kept == O!Weight(back)
             cost == o.cost
             count == s.bytes
  <2>1. count \in Nat /\ O!Weight(items) <= count
    BY DEF StoreOK
  <2>2. gone \in Nat /\ kept \in Nat /\ O!Weight(items) = gone + kept
    BY <1>3
  <2>3. O!Weight(new) = kept + cost /\ cost \in Nat
    BY <1>6
  <2>4. bytes = count - gone + cost
    OBVIOUS
  <2> HIDE DEF gone, kept, cost, count, new, bytes
  <2> QED
    BY <2>1, <2>2, <2>3, <2>4
<1>8. Len(new) <= MaxItems /\ O!Weight(new) <= CacheBytes
  <2>1. CASE back = <<>>
    BY <1>0, <1>6, <2>1, EmptyWeight
  <2>2. CASE /\ Len(items) - k + 1 <= MaxItems
             /\ O!Bytes(s) - O!Weight(front) + o.cost <= CacheBytes
    <3>1. Len(new) <= MaxItems
      BY <1>0, <1>3, <1>6, <2>2
    <3>2. O!Weight(new) <= O!Bytes(s) - O!Weight(front) + o.cost
      BY <1>3, <1>5, <1>6 DEF StoreOK
    <3> QED
      BY <1>0, <1>3, <1>5, <1>6, <2>2, <3>1, <3>2
  <2> QED
    BY <1>1, <2>1, <2>2
<1> HIDE DEF new, bytes, evicted
<1>9. t = [items |-> new, bytes |-> bytes, capacity |-> capacity, evicted |-> evicted]
  BY <1>2 DEF new, bytes, evicted
<1>10. /\ t = [f \in StoreFields |-> t[f]] /\ t.items = new /\ t.bytes = bytes
       /\ t.capacity = capacity
  BY <1>9 DEF StoreFields
<1>11. Costs(new) /\ Len(new) = Len(back) + 1 /\ Len(back) \in Nat
  BY <1>3, <1>6 DEF new, Costs, List
<1>12. Len(back) <= s.capacity
  <2>1. Len(items) <= s.capacity /\ s.capacity \in Nat
    BY DEF StoreOK
  <2>2. Len(items) \in Nat /\ k \in Nat
    BY <1>0, <1>1
  <2>3. Len(back) = Len(items) - k
    BY <1>3
  <2> QED
    BY <2>1, <2>2, <2>3
<1>13. /\ Len(new) <= t.capacity
       /\ O!Bytes(t) <= CacheBytes \/ O!Doubled(t) \/ Len(new) <= 1
  <2>1. CASE back = <<>>
    <3>1. Len(new) = 1
      BY <1>11, <2>1, EmptyWeight
    <3>2. 1 <= capacity
      BY <1>4, <1>11, <2>1, EmptyWeight
    <3> QED
      BY <1>10, <3>1, <3>2
  <2>2. CASE back # <<>> /\ O!Bytes(s) - O!Weight(front) + o.cost <= CacheBytes
    <3>1. Len(back) # 0
      <4>1. PICK S : back \in Seq(S)
        BY <1>3 DEF Costs, List
      <4> QED
        BY <2>2, <4>1
    <3>2. s.capacity # 0
      BY <1>4, <1>11, <1>12, <3>1
    <3>3. bytes + s.capacity * Slot <= CacheBytes
      <4>1. PICK p : p = s.capacity * Slot
        OBVIOUS
      <4>2. p \in Nat /\ s.bytes \in Nat
        BY <1>0, <1>4, <4>1, NatTimes DEF StoreOK
      <4>3. O!Bytes(s) = s.bytes + p
        BY <4>1 DEF O!Bytes
      <4>4. PICK w : w = O!Weight(front)
        OBVIOUS
      <4>5. w \in Nat /\ O!Bytes(s) - w + o.cost <= CacheBytes
        BY <1>3, <2>2, <4>4
      <4>7. (s.bytes + p) - w + o.cost <= CacheBytes
        BY <4>3, <4>5
      <4>8. bytes = s.bytes - w + o.cost
        BY <4>4 DEF bytes
      <4>6. (s.bytes - w + o.cost) + p <= CacheBytes
        BY <1>0, <4>2, <4>5, <4>7
      <4> QED
        BY <4>1, <4>6, <4>8
    <3>4. t.capacity = IF Len(back) < s.capacity THEN s.capacity ELSE 2 * s.capacity
      BY <1>4, <1>10, <3>2
    <3>5. t.bytes = bytes /\ Len(t.items) = Len(back) + 1
      BY <1>10, <1>11
    <3>6. OneMore(s.capacity, bytes, Len(back), t)
      BY <1>12, <3>2, <3>3, <3>4, <3>5 DEF OneMore
    <3>7. /\ O!Bytes(t) <= CacheBytes \/ O!Doubled(t)
          /\ Len(back) + 1 <= t.capacity
      BY <1>4, <1>7, <1>11, <3>6, SlotsHeld
    <3> QED
      BY <1>11, <3>7
  <2> QED
    BY <1>1, <2>1, <2>2
<1> QED
  BY <1>4, <1>7, <1>8, <1>10, <1>11, <1>13 DEF StoreOK, t

\* A known name takes another origin: the weights stay.
LEMMA OriginOK ==
    ASSUME NEW s, StoreOK(s), NEW m \in 1..Len(s.items), NEW from
    PROVE  StoreOK([s EXCEPT !.items[m].origin = from])
<1> DEFINE items == s.items
           e == [items[m] EXCEPT !.origin = from]
           new == [items EXCEPT ![m] = e]
           t == [s EXCEPT !.items = new]
<1>1. [s EXCEPT !.items[m].origin = from] = t
  BY DEF StoreOK, StoreFields
<1>2. PICK S : items \in Seq(S)
  BY DEF StoreOK, Costs, List
<1>3. e.cost = items[m].cost
  <2>1. items[m].cost \in Nat
    BY DEF StoreOK, Costs
  <2> QED
    BY <2>1
<1> HIDE DEF e
<1> DEFINE S2 == S \cup {e}
<1>4. items \in Seq(S2) /\ e \in S2
  BY <1>2
<1> HIDE DEF S2
<1>5. /\ new \in Seq(S2) /\ Len(new) = Len(items)
      /\ \A i \in 1..Len(items) : new[i] = IF i = m THEN e ELSE items[i]
  BY <1>4
<1> HIDE DEF new
<1>6. List(new) /\ \A i \in 1..Len(items) : new[i].cost = items[i].cost
  BY <1>3, <1>5 DEF List
<1>7. Costs(new) /\ O!Weight(new) = O!Weight(items)
  BY <1>5, <1>6, SameWeight DEF StoreOK
<1>8. /\ t = [f \in StoreFields |-> t[f]] /\ t.items = new /\ t.bytes = s.bytes
      /\ t.capacity = s.capacity
  BY DEF StoreOK, StoreFields
<1>9. Len(t.items) = Len(items) /\ O!Bytes(t) = O!Bytes(s) /\ (O!Doubled(s) => O!Doubled(t))
  BY <1>5, <1>8 DEF O!Bytes, O!Doubled
<1> QED
  BY <1>1, <1>5, <1>7, <1>8, <1>9 DEF StoreOK

\* Fewer names, the count as it was.
LEMMA FewerOK ==
    ASSUME NEW s, StoreOK(s), NEW new, Costs(new), Len(new) <= Len(s.items),
           O!Weight(new) <= O!Weight(s.items)
    PROVE  StoreOK([s EXCEPT !.items = new])
<1> DEFINE t == [s EXCEPT !.items = new]
<1>1. /\ t = [f \in StoreFields |-> t[f]] /\ t.items = new /\ t.bytes = s.bytes
      /\ t.capacity = s.capacity
  BY DEF StoreOK, StoreFields
<1> HIDE DEF t
<1>2. Len(new) \in Nat /\ Len(s.items) \in Nat /\ MaxItems \in Nat /\ CacheBytes \in Nat
  BY AssistAssumption DEF StoreOK, Costs, List
<1>3. O!Weight(new) \in Nat /\ O!Weight(s.items) \in Nat
  <2>1. \A u : Costs(u) => O!Weight(u) \in Nat
    <3> SUFFICES ASSUME NEW u, Costs(u) PROVE O!Weight(u) \in Nat
      OBVIOUS
    <3>1. Len(u) \in Nat
      BY DEF Costs, List
    <3>2. PICK g : O!Weight(u) = g[Len(u)] /\ \A i \in 0..Len(u) : g[i] \in Nat
      BY WeightSums
    <3> QED
      BY <3>1, <3>2
  <2> QED
    BY <2>1 DEF StoreOK
<1>4. s.capacity \in Nat /\ s.capacity \div 2 \in Nat
  BY DEF StoreOK
<1>5. O!Bytes(t) = O!Bytes(s) /\ (O!Doubled(s) => O!Doubled(t))
  <2>1. O!Bytes(t) = O!Bytes(s)
    BY <1>1 DEF O!Bytes
  <2>2. \A h \in Nat : Len(s.items) <= h + 1 => Len(new) <= h + 1
    BY <1>2
  <2> QED
    BY <1>1, <1>4, <2>1, <2>2 DEF O!Doubled
<1> QED
  BY <1>1, <1>2, <1>3, <1>4, <1>5 DEF StoreOK, t

CacheInv == StoreOK(keys) /\ StoreOK(fields)

LEMMA CacheStep ==
    ASSUME CacheInv, [O!Next]_O!vars
    PROVE  CacheInv'
<1>0. \A name \in Names : Cost[name] \in Nat /\ Cost[name] + Slot \in Nat
  BY AssistAssumption
<1>1. ASSUME NEW name \in Names, NEW scope, NEW from, O!Record(name, scope, from)
      PROVE  CacheInv'
  <2> DEFINE o == [name |-> name, scope |-> scope, origin |-> from, cost |-> Cost[name]]
             known == {i \in DOMAIN keys.items :
                         keys.items[i].name = name /\ keys.items[i].scope = scope}
  <2>1. /\ fields' = fields
        /\ keys' = IF known # {} THEN [keys EXCEPT !.items[O!Min(known)].origin = from]
                   ELSE IF o.cost > CacheBytes THEN [keys EXCEPT !.evicted = @ + 1]
                   ELSE O!Admitted(keys, o)
    BY <1>1 DEF O!Record
  <2>2. CASE known # {}
    <3>1. known \subseteq 1..Len(keys.items) /\ known \subseteq Nat
      BY DEF CacheInv, StoreOK, Costs, List
    <3>2. \E i \in known : \A j \in known : i <= j
      <4> HIDE DEF known
      <4> QED
        BY <2>2, <3>1, Least
    <3>3. O!Min(known) \in 1..Len(keys.items)
      <4> HIDE DEF known
      <4> QED
        BY <3>1, <3>2 DEF O!Min
    <3> DEFINE m == O!Min(known)
    <3> HIDE DEF m
    <3>4. keys' = [keys EXCEPT !.items[m].origin = from] /\ m \in 1..Len(keys.items)
      BY <2>1, <2>2, <3>3 DEF m
    <3>5. StoreOK(keys) /\ StoreOK(fields)
      BY DEF CacheInv
    <3>6. StoreOK([keys EXCEPT !.items[m].origin = from])
      BY <3>4, <3>5, OriginOK
    <3>7. StoreOK(keys')
      BY <3>4, <3>6
    <3> QED
      BY <2>1, <3>5, <3>7 DEF CacheInv
  <2>3. CASE known = {} /\ o.cost > CacheBytes
    <3> DEFINE evicted == keys.evicted + 1
    <3>1. keys' = [keys EXCEPT !.evicted = evicted]
      BY <2>1, <2>3
    <3> HIDE DEF evicted
    <3>2. /\ keys' = [f \in StoreFields |-> keys'[f]] /\ keys'.items = keys.items
          /\ keys'.bytes = keys.bytes /\ keys'.capacity = keys.capacity
      BY <3>1 DEF CacheInv, StoreOK, StoreFields
    <3>3. O!Bytes(keys') = O!Bytes(keys) /\ (O!Doubled(keys') <=> O!Doubled(keys))
      BY <3>2 DEF O!Bytes, O!Doubled
    <3>4. StoreOK(keys) /\ StoreOK(fields)
      BY DEF CacheInv
    <3>5. StoreOK(keys')
      BY <3>2, <3>3, <3>4 DEF StoreOK
    <3> QED
      BY <2>1, <3>4, <3>5 DEF CacheInv
  <2>4. CASE known = {} /\ ~(o.cost > CacheBytes)
    <3>1. o.cost \in Nat /\ o.cost <= CacheBytes
      BY <1>0, <2>4, AssistAssumption
    <3> HIDE DEF o
    <3> QED
      BY <2>1, <2>4, <3>1, AdmittedOK DEF CacheInv
  <2> QED
    BY <2>2, <2>3, <2>4
<1>2. ASSUME NEW name \in Names, O!Insert(name) PROVE CacheInv'
  <2> DEFINE o == [name |-> name, cost |-> Cost[name] + Slot]
  <2>1. /\ keys' = keys
        /\ fields' = IF o.cost > CacheBytes THEN fields ELSE O!Admitted(fields, o)
    BY <1>2 DEF O!Insert
  <2>2. o.cost \in Nat /\ (~(o.cost > CacheBytes) => o.cost <= CacheBytes)
    BY <1>0, AssistAssumption
  <2> HIDE DEF o
  <2> QED
    BY <2>1, <2>2, AdmittedOK DEF CacheInv
<1>3. ASSUME NEW keep, O!InvalidateExcept(keep) PROVE CacheInv'
  <2> DEFINE new == O!Retained(keys.items, keep)
  <2>1. keys' = [keys EXCEPT !.items = new] /\ fields' = fields
    BY <1>3 DEF O!InvalidateExcept
  <2>2. Costs(new) /\ Len(new) <= Len(keys.items) /\ O!Weight(new) <= O!Weight(keys.items)
    BY RetainedWeight DEF CacheInv, StoreOK
  <2> HIDE DEF new
  <2> QED
    BY <2>1, <2>2, FewerOK DEF CacheInv
<1>4. CASE O!Clear
  <2>1. keys' = [keys EXCEPT !.items = <<>>] /\ fields' = fields
    BY <1>4 DEF O!Clear
  <2>2. Len(keys.items) \in Nat /\ Costs(keys.items)
    <3>1. Costs(keys.items)
      BY DEF CacheInv, StoreOK
    <3> QED
      BY <3>1 DEF Costs, List
  <2>3. 0 <= O!Weight(keys.items)
    <3>1. PICK g : O!Weight(keys.items) = g[Len(keys.items)]
                   /\ \A i \in 0..Len(keys.items) : g[i] \in Nat
      BY <2>2, WeightSums
    <3> QED
      BY <2>2, <3>1
  <2>4. /\ Costs(<<>>) /\ Len(<<>>) <= Len(keys.items)
        /\ O!Weight(<<>>) <= O!Weight(keys.items)
    BY <2>2, <2>3, EmptyWeight
  <2> QED
    BY <2>1, <2>4, FewerOK DEF CacheInv
<1>5. CASE UNCHANGED O!vars
  BY <1>5 DEF O!vars, CacheInv
<1> QED
  BY <1>1, <1>2, <1>3, <1>4, <1>5 DEF O!Next

\* NamesWithinBudget: whatever is recorded, invalidated and cleared, the names kept are within
\* both limits, although the running count is not their weight, and with the slots the bytes are
\* within the limit but for those of a vector that just doubled, or of one that holds one name.
THEOREM NamesAreBounded == AssistSpec => []NamesWithinBudget
<1>1. AssistInit => CacheInv
  <2> SUFFICES ASSUME AssistInit PROVE CacheInv
    OBVIOUS
  <2>1. keys = O!Empty /\ fields = O!Empty
    BY DEF AssistInit, O!Init
  <2>2. StoreOK(O!Empty)
    BY EmptyWeight, AssistAssumption DEF O!Empty, StoreOK, StoreFields, O!Bytes
  <2> QED
    BY <2>1, <2>2 DEF CacheInv
<1>2. [AssistNext]_all => [O!Next]_O!vars
  BY DEF AssistNext, OfBroker, OfBuffer, OfDiscovery, OfCaches, all, cacheVars, O!vars
<1>3. CacheInv /\ [AssistNext]_all => CacheInv'
  BY <1>2, CacheStep
<1>4. CacheInv => NamesWithinBudget
  BY DEF CacheInv, StoreOK, NamesWithinBudget, O!NamesWithinBudget
<1> QED
  BY <1>1, <1>3, <1>4, PTL DEF AssistSpec
=============================================================================
