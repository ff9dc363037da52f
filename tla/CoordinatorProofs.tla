--------------------------- MODULE CoordinatorProofs ---------------------------
(***************************************************************************)
(* The coordinator, for any pastes, any bounds and whether or not there is *)
(* a dropdown or an alternate screen.  Its handlers are operators from     *)
(* record to record: a lemma for each says which fields it leaves alone    *)
(* and what it leaves on the screen, and the invariants follow from those. *)
(***************************************************************************)
EXTENDS Coordinator, SequenceTheorems, TLAPS

Fields ==
    {"text", "menu", "staging", "focus", "surface", "box", "help", "pending", "printed",
     "recent", "held", "touched", "shown", "act", "over"}

\* A coordinator is a record of these fields.
IsCo(s) == s = [f \in Fields |-> s[f]]

\* t is s but for some fields.
SameBut(s, t, fs) == \A f \in Fields \ fs : t[f] = s[f]

\* ScreenIsCurrent of a record.
Current(s) ==
    IF s.surface = "repl"
      THEN s.shown = [text |-> s.text, menu |-> s.menu, staging |-> s.staging]
      ELSE s.shown = [box |-> s.box, help |-> s.help]

-----------------------------------------------------------------------------
(* The handlers. *)

LEMMA RepaintEffect ==
    ASSUME NEW s, IsCo(s)
    PROVE  /\ IsCo(Repaint(s)) /\ SameBut(s, Repaint(s), {"shown"})
           /\ s.surface = "repl" => Current(Repaint(s))
           /\ s.surface = "alternate" => Repaint(s) = s
BY DEF IsCo, SameBut, Repaint, Current, Fields

LEMMA PaintEffect ==
    ASSUME NEW s, IsCo(s)
    PROVE  /\ IsCo(PaintAlternate(s)) /\ SameBut(s, PaintAlternate(s), {"shown"})
           /\ s.surface = "alternate" => Current(PaintAlternate(s))
BY DEF IsCo, SameBut, PaintAlternate, Current, Fields

LEMMA LeaveEffect ==
    ASSUME NEW s, IsCo(s)
    PROVE  LET t == LeaveAlternate(s) IN
           /\ IsCo(t) /\ Current(t) /\ t.surface = "repl"
           /\ t.text = s.box /\ t.printed = s.printed \o s.pending /\ t.pending = <<>>
           /\ SameBut(s, t, {"surface", "text", "box", "help", "pending", "printed", "shown"})
<1> DEFINE v == [s EXCEPT !.surface = "repl", !.text = s.box, !.box = <<>>,
                          !.help = FALSE, !.pending = <<>>]
           u == PrintNotices(v, s.pending)
<1>1. /\ IsCo(v) /\ v.surface = "repl" /\ v.text = s.box /\ v.pending = <<>>
      /\ SameBut(s, v, {"surface", "text", "box", "help", "pending"})
  BY DEF IsCo, SameBut, Fields
<1> HIDE DEF v
<1>2. IsCo(u) /\ u.printed = v.printed \o s.pending /\ SameBut(v, u, {"printed"})
  BY <1>1 DEF IsCo, SameBut, PrintNotices, Fields
<1>3. LeaveAlternate(s) = Repaint(u)
  BY DEF LeaveAlternate, v
<1> HIDE DEF u
<1>4. /\ u.surface = "repl" /\ u.text = s.box /\ u.pending = <<>>
      /\ u.printed = s.printed \o s.pending
      /\ SameBut(s, u, {"surface", "text", "box", "help", "pending", "printed"})
  BY <1>1, <1>2 DEF SameBut, Fields
<1>5. IsCo(Repaint(u)) /\ SameBut(u, Repaint(u), {"shown"}) /\ Current(Repaint(u))
  BY <1>2, <1>4, RepaintEffect
<1> QED
  BY <1>3, <1>4, <1>5 DEF SameBut, Fields

LEMMA FlushEffect ==
    ASSUME NEW s, IsCo(s), Current(s), s.surface \in {"repl", "alternate"}
    PROVE  LET t == FlushBurst(s) IN
           /\ IsCo(t) /\ Current(t) /\ t.held = <<>>
           /\ SameBut(s, t, {"text", "held", "touched", "staging", "focus", "menu", "shown"})
<1> DEFINE content == s.held \o (IF s.touched THEN s.text ELSE <<>>)
           kept == IF Last(content) = "nl" THEN Front(content) ELSE content
           left == [s EXCEPT !.text = IF s.touched THEN <<>> ELSE @,
                             !.held = <<>>, !.touched = FALSE]
           u == ReviewOrInsert(left, kept)
<1>1. FlushBurst(s) = Repaint(u)
  BY DEF FlushBurst
<1> HIDE DEF kept
<1>2. IsCo(left) /\ SameBut(s, left, {"text", "held", "touched"}) /\ left.held = <<>>
  BY DEF IsCo, SameBut, Fields
<1> HIDE DEF left
<1>3. IsCo(u) /\ SameBut(left, u, {"text", "staging", "focus", "menu"})
  BY <1>2 DEF IsCo, SameBut, Fields, ReviewOrInsert
<1> HIDE DEF u
<1>4. SameBut(s, u, {"text", "held", "touched", "staging", "focus", "menu"}) /\ u.held = <<>>
  BY <1>2, <1>3 DEF SameBut, Fields
<1>5. /\ IsCo(Repaint(u)) /\ SameBut(u, Repaint(u), {"shown"})
      /\ u.surface = "repl" => Current(Repaint(u))
      /\ u.surface = "alternate" => Repaint(u) = u
  BY <1>3, RepaintEffect
<1> QED
  BY <1>1, <1>4, <1>5 DEF SameBut, Fields, Current

LEMMA ShutdownEffect ==
    ASSUME NEW s, IsCo(s), s.surface \in {"repl", "alternate"}, s.act = Idle
    PROVE  LET t == Shutdown(s) IN
           /\ IsCo(t) /\ t.over /\ t.surface = "repl" /\ t.act.kind = "quit"
           /\ t.recent = s.recent /\ t.staging = s.staging
           /\ s.surface = "repl" => t.printed = s.printed /\ t.pending = s.pending
           /\ s.surface = "alternate" =>
                t.text = s.box /\ t.printed = s.printed \o s.pending /\ t.pending = <<>>
<1> DEFINE u == IF s.surface = "alternate" THEN LeaveAlternate(s) ELSE s
<1>1. /\ IsCo(u) /\ u.surface = "repl" /\ u.act = s.act /\ u.recent = s.recent
      /\ u.staging = s.staging
      /\ s.surface = "repl" => u = s
      /\ s.surface = "alternate" =>
            u.text = s.box /\ u.printed = s.printed \o s.pending /\ u.pending = <<>>
  BY LeaveEffect, ZenonT(60) DEF SameBut, Fields
<1>2. Shutdown(s) = [u EXCEPT !.over = TRUE, !.act.kind = "quit"]
  BY DEF Shutdown
<1> HIDE DEF u
<1> DEFINE t == [u EXCEPT !.over = TRUE, !.act.kind = "quit"]
<1>3. IsCo(t) /\ SameBut(u, t, {"over", "act"}) /\ t.over
  BY <1>1 DEF IsCo, Fields, SameBut
<1>4. t.act.kind = "quit"
  BY <1>1 DEF IsCo, Fields, Idle
<1> HIDE DEF t
<1> QED
  BY <1>1, <1>2, <1>3, <1>4, ZenonT(60) DEF SameBut, Fields, t

\* What an edit of the prompt leaves behind.
PromptPainted(s, t) == IsCo(t) /\ Current(t) /\ SameBut(s, t, {"text", "menu", "shown"})

LEMMA EditPainted ==
    ASSUME NEW s, NEW u, IsCo(u), s.surface = "repl", SameBut(s, u, {"text", "menu"})
    PROVE  PromptPainted(s, Repaint(u))
<1>1. /\ IsCo(Repaint(u)) /\ SameBut(u, Repaint(u), {"shown"})
      /\ u.surface = "repl" => Current(Repaint(u))
  BY RepaintEffect
<1>2. u.surface = "repl"
  BY DEF SameBut, Fields
<1> QED
  BY <1>1, <1>2 DEF PromptPainted, SameBut, Fields

Painted(s) == s.over \/ Current(s)
Submitting(s) == s.act.kind \in {"submit", "many"}

LEMMA ReplKeyEffect ==
    ASSUME NEW s, NEW k \in Keys, NEW by, IsCo(s), s.surface = "repl", s.act = Idle
    PROVE  LET t == ReplKey(s, k, by) IN
           /\ IsCo(t) /\ Painted(t)
           /\ SameBut(s, t, {"text", "menu", "shown", "act", "over"})
           /\ Submitting(t) => k = "enter" /\ t.act.by = by
<1> DEFINE Good(t) == /\ IsCo(t) /\ Painted(t)
                      /\ SameBut(s, t, {"text", "menu", "shown", "act", "over"})
                      /\ Submitting(t) => k = "enter" /\ t.act.by = by
<1> SUFFICES Good(ReplKey(s, k, by))
  OBVIOUS
<1>0. ASSUME NEW u, IsCo(u), SameBut(s, u, {"text", "menu"}) PROVE Good(Repaint(u))
  BY <1>0, EditPainted DEF PromptPainted, SameBut, Fields, Painted, Submitting, Idle
<1> HIDE DEF Good
<1>1. CASE k \in Chars
  <2> DEFINE u == [s EXCEPT !.text = Append(@, Mark(by)), !.menu = NoMenu]
  <2>1. ReplKey(s, k, by) = Repaint(u)
    BY <1>1 DEF ReplKey, Chars
  <2>2. IsCo(u) /\ SameBut(s, u, {"text", "menu"})
    BY DEF IsCo, SameBut, Fields
  <2> HIDE DEF u
  <2> QED
    BY <2>1, <2>2, <1>0
<1>2. CASE k = "backspace"
  <2> DEFINE u == [s EXCEPT !.text = IF @ = <<>> THEN @ ELSE Front(@), !.menu = NoMenu]
  <2>1. ReplKey(s, k, by) = Repaint(u)
    BY <1>2 DEF ReplKey, Chars
  <2>2. IsCo(u) /\ SameBut(s, u, {"text", "menu"})
    BY DEF IsCo, SameBut, Fields
  <2> HIDE DEF u
  <2> QED
    BY <2>1, <2>2, <1>0
<1>3. CASE k \in {"up", "down"} /\ s.menu.open
  <2> DEFINE u == [s EXCEPT !.menu.focused = TRUE]
  <2>1. ReplKey(s, k, by) = Repaint(u)
    BY <1>3 DEF ReplKey, Chars
  <2>2. IsCo(u) /\ SameBut(s, u, {"text", "menu"})
    BY DEF IsCo, SameBut, Fields
  <2> HIDE DEF u
  <2> QED
    BY <2>1, <2>2, <1>0
<1>4. CASE k = "esc"
  <2> DEFINE u == [s EXCEPT !.menu = NoMenu]
  <2>1. ReplKey(s, k, by) = Repaint(u)
    BY <1>4 DEF ReplKey, Chars
  <2>2. IsCo(u) /\ SameBut(s, u, {"text", "menu"})
    BY DEF IsCo, SameBut, Fields
  <2> HIDE DEF u
  <2> QED
    BY <2>1, <2>2, <1>0
<1>5. CASE k \in {"tab", "enter"} /\ s.menu.focused
  <2> DEFINE u == AcceptSelection(s)
  <2>1. ReplKey(s, k, by) = Repaint(u)
    BY <1>5 DEF ReplKey, Chars
  <2>2. IsCo(u) /\ SameBut(s, u, {"text", "menu"})
    BY DEF IsCo, SameBut, Fields, AcceptSelection
  <2> HIDE DEF u
  <2> QED
    BY <2>1, <2>2, <1>0
<1>6. CASE k = "enter" /\ ~s.menu.focused
  <2> DEFINE u == [s EXCEPT !.text = <<>>, !.menu = NoMenu]
             v == Repaint(u)
  <2>1. ReplKey(s, k, by) = Submit(v, "submit", by)
    BY <1>6 DEF ReplKey, Chars
  <2>2. IsCo(u) /\ SameBut(s, u, {"text", "menu"})
    BY DEF IsCo, SameBut, Fields
  <2> HIDE DEF u
  <2>3. PromptPainted(s, v)
    BY <2>2, EditPainted
  <2> HIDE DEF v
  <2> QED
    BY <2>1, <2>3, <1>6
       DEF Good, Submit, PromptPainted, IsCo, SameBut, Fields, Painted, Submitting, Current
<1>7. CASE k = "ctrl_c"
  <2> DEFINE u == [s EXCEPT !.text = <<>>, !.menu = NoMenu]
  <2>1. ReplKey(s, k, by) = Repaint(u)
    BY <1>7 DEF ReplKey, Chars
  <2>2. IsCo(u) /\ SameBut(s, u, {"text", "menu"})
    BY DEF IsCo, SameBut, Fields
  <2> HIDE DEF u
  <2> QED
    BY <2>1, <2>2, <1>0
<1>8. CASE k = "ctrl_d" /\ s.text = <<>>
  <2> DEFINE t == [s EXCEPT !.over = TRUE, !.act.kind = "quit"]
  <2>1. ReplKey(s, k, by) = Shutdown(s)
    BY <1>8 DEF ReplKey, Chars
  <2>2. Shutdown(s) = t
    BY DEF Shutdown
  <2>3. IsCo(t) /\ t.over /\ SameBut(s, t, {"over", "act"})
    BY DEF IsCo, SameBut, Fields
  <2>4. t.act.kind = "quit"
    BY DEF IsCo, Fields, Idle
  <2> HIDE DEF t
  <2> QED
    BY <2>1, <2>2, <2>3, <2>4 DEF Good, SameBut, Fields, Painted, Submitting
<1>9. CASE /\ k \notin Chars \cup {"backspace", "esc", "ctrl_c"}
           /\ ~(k \in {"up", "down"} /\ s.menu.open) /\ ~(k \in {"tab", "enter"} /\ s.menu.focused)
           /\ ~(k = "enter" /\ ~s.menu.focused) /\ ~(k = "ctrl_d" /\ s.text = <<>>)
  <2>1. ReplKey(s, k, by) = Repaint(s)
    BY <1>9 DEF ReplKey
  <2> QED
    BY <2>1, <1>0 DEF SameBut
<1> QED
  BY <1>1, <1>2, <1>3, <1>4, <1>5, <1>6, <1>7, <1>8, <1>9

LEMMA ReplKeyAtEffect ==
    ASSUME NEW s, NEW k \in Keys, NEW by, IsCo(s), Current(s), s.surface = "repl", s.act = Idle
    PROVE  LET t == ReplKeyAt(s, k, by) IN
           /\ IsCo(t) /\ Painted(t) /\ t.recent
           /\ t.surface = "repl" /\ t.printed = s.printed /\ t.pending = s.pending
           /\ Submitting(t) => k = "enter" /\ ~s.recent /\ t.act.by = by
<1> DEFINE r == IF ~s.recent /\ s.held # <<>> THEN FlushBurst(s) ELSE s
           t == [r EXCEPT !.recent = TRUE]
           u == IF s.recent /\ k \in Chars \cup {"backspace"} THEN [t EXCEPT !.touched = TRUE] ELSE t
           v == [t EXCEPT !.held = @ \o t.text \o <<"nl">>, !.text = <<>>,
                          !.touched = FALSE, !.menu = NoMenu]
           kept == Fields \ {"text", "held", "touched", "staging", "focus", "menu", "shown"}
<1>1. ReplKeyAt(s, k, by) = IF s.recent /\ k = "enter" THEN Repaint(v) ELSE ReplKey(u, k, by)
  BY DEF ReplKeyAt
<1>2. IsCo(r) /\ \A f \in kept : r[f] = s[f]
  BY FlushEffect DEF SameBut, Fields
<1> HIDE DEF r
<1>3. IsCo(t) /\ t.recent /\ \A f \in kept \ {"recent"} : t[f] = s[f]
  BY <1>2 DEF IsCo, Fields
<1> HIDE DEF t
<1>4. IsCo(u) /\ u.recent /\ \A f \in kept \ {"recent"} : u[f] = s[f]
  BY <1>3 DEF IsCo, Fields
<1>5. IsCo(v) /\ v.recent /\ \A f \in kept \ {"recent"} : v[f] = s[f]
  BY <1>3 DEF IsCo, Fields
<1> HIDE DEF u, v
<1>6. CASE s.recent /\ k = "enter"
  <2>1. IsCo(Repaint(v)) /\ SameBut(v, Repaint(v), {"shown"}) /\ Current(Repaint(v))
    BY <1>5, RepaintEffect DEF Fields
  <2> QED
    BY <1>1, <1>5, <1>6, <2>1 DEF SameBut, Fields, Painted, Submitting, Idle
<1>7. CASE ~(s.recent /\ k = "enter")
  <2>1. u.surface = "repl" /\ u.act = Idle
    BY <1>4 DEF Fields
  <2> DEFINE w == ReplKey(u, k, by)
  <2>2. /\ IsCo(w) /\ Painted(w)
        /\ SameBut(u, w, {"text", "menu", "shown", "act", "over"})
        /\ Submitting(w) => k = "enter" /\ w.act.by = by
    BY <1>4, <2>1, ReplKeyEffect
  <2> HIDE DEF w
  <2>3. /\ w.recent = u.recent /\ w.surface = "repl" /\ w.printed = s.printed
        /\ w.pending = s.pending
    BY <1>4, <2>1, <2>2 DEF SameBut, Fields
  <2> QED
    BY <1>1, <1>4, <1>7, <2>2, <2>3 DEF w
<1> QED
  BY <1>6, <1>7

LEMMA StagingKeyEffect ==
    ASSUME NEW s, NEW k \in Keys, NEW by, IsCo(s), Current(s),
           s.surface \in {"repl", "alternate"}, s.act = Idle
    PROVE  LET t == StagingKey(s, k, by) IN
           /\ IsCo(t) /\ Current(t) /\ t.recent
           /\ t.surface = s.surface /\ t.printed = s.printed /\ t.pending = s.pending
           /\ t.text = s.text /\ t.held = s.held
           /\ Submitting(t) => k \in {"1", "2"} /\ t.act.by = by
<1> DEFINE t == [s EXCEPT !.recent = TRUE]
           u == CASE k = "down" -> [t EXCEPT !.focus = Min({@ + 1, Len(t.staging)})]
                  [] k = "up" -> [t EXCEPT !.focus = Max({@ - 1, 1})]
                  [] k = "backspace" -> Deleted(t)
                  [] k = "1" -> Submit(Closed(t), "many", by)
                  [] k = "2" -> IF NotBlank(t.staging) = <<>> THEN Closed(t)
                                ELSE Submit(Closed(t), "submit", by)
                  [] k \in {"esc", "ctrl_c"} -> Closed(t)
                  [] OTHER -> t
           kept == Fields \ {"staging", "focus", "recent", "act"}
<1>1. StagingKey(s, k, by) = Repaint(u)
  BY DEF StagingKey
<1>2. IsCo(t) /\ t.recent /\ t.act = Idle /\ \A f \in kept : t[f] = s[f]
  BY DEF IsCo, Fields
<1> HIDE DEF t
<1>3. /\ IsCo(u) /\ u.recent /\ \A f \in kept : u[f] = s[f]
      /\ u.act = Idle \/ (k \in {"1", "2"} /\ u.act.by = by)
  <2> DEFINE closed == Closed(t)
             many(kind) == Submit(closed, kind, by)
  <2>1. IsCo(closed) /\ SameBut(t, closed, {"staging", "focus"})
    BY <1>2 DEF IsCo, SameBut, Fields, Closed
  <2>2. IsCo(Deleted(t)) /\ SameBut(t, Deleted(t), {"staging", "focus"})
    <3> DEFINE left == RemoveAt(t.staging, t.focus)
               at == IF left = <<>> THEN 1 ELSE Min({t.focus, Len(left)})
    <3>1. Deleted(t) = [t EXCEPT !.staging = left, !.focus = at]
      BY DEF Deleted
    <3> HIDE DEF left, at
    <3> QED
      BY <1>2, <3>1 DEF IsCo, SameBut, Fields
  <2>3. ASSUME NEW x PROVE LET v == [t EXCEPT !.focus = x] IN
                           IsCo(v) /\ SameBut(t, v, {"staging", "focus"})
    BY <1>2 DEF IsCo, SameBut, Fields
  <2> HIDE DEF closed
  <2>4. ASSUME NEW kind
        PROVE  /\ IsCo(many(kind)) /\ SameBut(t, many(kind), {"staging", "focus", "act"})
               /\ many(kind).act.by = by
    BY <2>1 DEF IsCo, SameBut, Fields, Submit
  <2>5. ASSUME NEW v, IsCo(v), SameBut(t, v, {"staging", "focus"}), u = v PROVE <1>3!:
    BY <1>2, <2>5 DEF SameBut, Fields
  <2>6. ASSUME NEW kind, k \in {"1", "2"}, u = many(kind) PROVE <1>3!:
    BY <1>2, <2>4, <2>6 DEF SameBut, Fields
  <2> HIDE DEF many
  <2>7. CASE k \in {"down", "up"}
    BY <2>3, <2>5, <2>7
  <2>8. CASE k = "backspace"
    BY <2>2, <2>5, <2>8
  <2>9. CASE k \in {"1", "2"}
    <3>1. u = closed \/ u = many("many") \/ u = many("submit")
      BY <2>9 DEF many, closed
    <3> QED
      BY <2>1, <2>5, <2>6, <2>9, <3>1
  <2>10. CASE k \in {"esc", "ctrl_c"}
    <3>1. u = closed
      BY <2>10 DEF closed
    <3> QED
      BY <2>1, <2>5, <3>1
  <2>11. CASE k \notin {"down", "up", "backspace", "1", "2", "esc", "ctrl_c"}
    <3>1. u = t
      BY <2>11
    <3> QED
      BY <1>2, <2>5, <3>1 DEF SameBut
  <2> QED
    BY <2>7, <2>8, <2>9, <2>10, <2>11
<1> HIDE DEF u
<1>4. /\ IsCo(Repaint(u)) /\ SameBut(u, Repaint(u), {"shown"})
      /\ u.surface = "repl" => Current(Repaint(u))
      /\ u.surface = "alternate" => Repaint(u) = u
  BY <1>3, RepaintEffect
<1>5. u.surface = s.surface /\ u.box = s.box /\ u.help = s.help /\ u.shown = s.shown
      /\ u.printed = s.printed /\ u.pending = s.pending /\ u.text = s.text /\ u.held = s.held
  BY <1>3 DEF Fields
<1> QED
  BY <1>1, <1>3, <1>4, <1>5 DEF SameBut, Fields, Current, Submitting, Idle

LEMMA TuiKeyEffect ==
    ASSUME NEW s, NEW k \in Keys, NEW by, IsCo(s), s.surface = "alternate", s.act = Idle
    PROVE  LET t == TuiKey(s, k, by) IN
           /\ IsCo(t) /\ Current(t) /\ t.act = Idle
           /\ \/ /\ t.surface = "alternate"
                 /\ t.printed = s.printed /\ t.pending = s.pending
                 /\ t.text = s.text /\ t.held = s.held
              \/ k = "esc" /\ t = LeaveAlternate(s)
<1>0. ASSUME NEW u, IsCo(u), SameBut(s, u, {"box", "help"}), TuiKey(s, k, by) = PaintAlternate(u)
      PROVE  LET t == TuiKey(s, k, by) IN
             /\ IsCo(t) /\ Current(t) /\ t.act = Idle /\ t.surface = "alternate"
             /\ t.printed = s.printed /\ t.pending = s.pending
             /\ t.text = s.text /\ t.held = s.held
  <2>1. u.surface = "alternate"
    BY <1>0 DEF SameBut, Fields
  <2>2. /\ IsCo(PaintAlternate(u)) /\ SameBut(u, PaintAlternate(u), {"shown"})
        /\ Current(PaintAlternate(u))
    BY <1>0, <2>1, PaintEffect
  <2> QED
    BY <1>0, <2>2 DEF SameBut, Fields
<1>1. CASE k = "esc" /\ ~s.help
  <2>1. TuiKey(s, k, by) = LeaveAlternate(s)
    BY <1>1 DEF TuiKey, Chars
  <2> QED
    BY <1>1, <2>1, LeaveEffect, ZenonT(60) DEF SameBut, Fields
<1>2. CASE ~(k = "esc" /\ ~s.help)
  <2>1. \/ TuiKey(s, k, by) = PaintAlternate([s EXCEPT !.help = ~@])
        \/ TuiKey(s, k, by) = PaintAlternate([s EXCEPT !.help = FALSE])
        \/ TuiKey(s, k, by) = PaintAlternate([s EXCEPT !.box = Append(@, Mark(by))])
        \/ TuiKey(s, k, by) = PaintAlternate([s EXCEPT !.box = IF @ = <<>> THEN @ ELSE Front(@)])
        \/ TuiKey(s, k, by) = PaintAlternate(s)
    BY <1>2 DEF TuiKey
  <2>2. ASSUME NEW x PROVE /\ IsCo([s EXCEPT !.help = x]) /\ SameBut(s, [s EXCEPT !.help = x], {"box", "help"})
                          /\ IsCo([s EXCEPT !.box = x]) /\ SameBut(s, [s EXCEPT !.box = x], {"box", "help"})
    BY DEF IsCo, SameBut, Fields
  <2>3. SameBut(s, s, {"box", "help"})
    BY DEF SameBut
  <2> QED
    BY <1>0, <2>1, <2>2, <2>3
<1> QED
  BY <1>1, <1>2

\* What a step does to the surface and to the notices, one delivered by PollQuiet apart.
Trip(s, t) ==
    \/ t.surface = s.surface /\ t.printed = s.printed /\ t.pending = s.pending
    \/ /\ s.surface = "alternate" /\ t.surface = "repl"
       /\ t.printed = s.printed \o s.pending /\ t.pending = <<>>
       /\ t.text = s.box /\ t.act.kind # "submit"
    \/ /\ s.surface = "repl" /\ t.surface = "alternate"
       /\ t.printed = s.printed /\ t.pending = s.pending

\* Behind the alternate screen the line stays as it is, unless a held burst is released.
Untouched(s, t) ==
    t.surface = "alternate" => t.text = s.text \/ (s.surface = "alternate" /\ t.held # s.held)

\* A coordinator between two handlers.
Whole(s) == IsCo(s) /\ s.surface \in {"repl", "alternate"} /\ Painted(s)

LEMMA ClearEffect ==
    ASSUME NEW s, Whole(s)
    PROVE  LET t == [s EXCEPT !.act = Idle] IN
           Whole(t) /\ t.act = Idle /\ SameBut(s, t, {"act"})
<1> DEFINE t == [s EXCEPT !.act = Idle]
<1>1. IsCo(t) /\ t.act = Idle /\ SameBut(s, t, {"act"})
  BY DEF Whole, IsCo, SameBut, Fields
<1> HIDE DEF t
<1>2. Whole(t)
  BY <1>1 DEF Whole, SameBut, Fields, Painted, Current
<1> QED
  BY <1>1, <1>2 DEF t

LEMMA HandleKeyEffect ==
    ASSUME NEW s, NEW k \in Keys, NEW by, Whole(s), ~s.over
    PROVE  LET t == HandleKey(s, k, by) IN
           /\ Whole(t) /\ Trip(s, t) /\ Untouched(s, t)
           /\ Submitting(t) =>
                /\ t.act.by = by
                /\ \/ k = "enter" /\ ~s.recent /\ s.surface = "repl"
                   \/ k \in {"1", "2"} /\ s.staging # <<>>
           /\ k # "esc" => t.recent \/ t.surface = "alternate"
<1> DEFINE r == [s EXCEPT !.act = Idle]
           t == HandleKey(s, k, by)
<1>1. Whole(r) /\ r.act = Idle /\ SameBut(s, r, {"act"})
  BY ClearEffect
<1>2. t = IF r.staging # <<>> THEN StagingKey(r, k, by)
          ELSE IF r.surface = "repl" THEN ReplKeyAt(r, k, by) ELSE TuiKey(r, k, by)
  BY DEF HandleKey
<1> HIDE DEF r, t
<1>3. /\ IsCo(r) /\ Current(r) /\ r.surface = s.surface /\ r.printed = s.printed
      /\ r.pending = s.pending /\ r.box = s.box /\ r.recent = s.recent
      /\ r.staging = s.staging /\ r.surface \in {"repl", "alternate"}
      /\ r.text = s.text /\ r.held = s.held
  BY <1>1 DEF SameBut, Fields, Whole, Painted
<1>4. CASE r.staging # <<>>
  <2>1. /\ IsCo(t) /\ Current(t) /\ t.recent /\ t.text = r.text
        /\ t.surface = r.surface /\ t.printed = r.printed /\ t.pending = r.pending
        /\ Submitting(t) => k \in {"1", "2"} /\ t.act.by = by
    BY <1>1, <1>2, <1>3, <1>4, StagingKeyEffect
  <2> QED
    BY <1>3, <1>4, <2>1 DEF Whole, Trip, Painted, Untouched, t
<1>5. CASE r.staging = <<>> /\ r.surface = "repl"
  <2>1. /\ IsCo(t) /\ Painted(t) /\ t.recent
        /\ t.surface = "repl" /\ t.printed = r.printed /\ t.pending = r.pending
        /\ Submitting(t) => k = "enter" /\ ~r.recent /\ t.act.by = by
    BY <1>1, <1>2, <1>3, <1>5, ReplKeyAtEffect
  <2> QED
    BY <1>3, <1>5, <2>1 DEF Whole, Trip, Untouched, t
<1>6. CASE r.staging = <<>> /\ r.surface = "alternate"
  <2>1. /\ IsCo(t) /\ Current(t) /\ t.act = Idle
        /\ \/ /\ t.surface = "alternate" /\ t.printed = r.printed /\ t.pending = r.pending
              /\ t.text = r.text
           \/ k = "esc" /\ t = LeaveAlternate(r)
    BY <1>1, <1>2, <1>3, <1>6, TuiKeyEffect
  <2>2. t = LeaveAlternate(r) => /\ t.surface = "repl" /\ t.text = r.box
                                 /\ t.printed = r.printed \o r.pending /\ t.pending = <<>>
    BY <1>3, LeaveEffect
  <2>3. ~Submitting(t) /\ t.act.kind # "submit"
    BY <2>1 DEF Submitting, Idle
  <2>4. Whole(t) /\ Trip(s, t) /\ Untouched(s, t)
    BY <1>3, <1>6, <2>1, <2>2, <2>3 DEF Whole, Trip, Painted, Untouched
  <2>5. k # "esc" => t.surface = "alternate"
    BY <2>1
  <2> QED
    BY <2>3, <2>4, <2>5 DEF t
<1> QED
  BY <1>3, <1>4, <1>5, <1>6

-----------------------------------------------------------------------------
(* The screen, and the trips between the two. *)

\* A step of the coordinator, or the delivery of a notice.
Delivered(s, t, n) ==
    /\ t.surface = s.surface
    /\ \/ s.surface = "alternate" /\ t.pending = Append(s.pending, n) /\ t.printed = s.printed
       \/ s.surface = "repl" /\ t.printed = s.printed \o <<n>> /\ t.pending = s.pending

LEMMA TickEffect ==
    ASSUME NEW s, Whole(s), ~s.over
    PROVE  LET t == Tick([s EXCEPT !.act = Idle]) IN
           /\ Whole(t) /\ ~t.over /\ t.act = Idle /\ t.recent = s.recent /\ Trip(s, t)
           /\ t.surface = s.surface /\ Untouched(s, t)
<1> DEFINE r == [s EXCEPT !.act = Idle]
           t == Tick(r)
<1>1. Whole(r) /\ r.act = Idle /\ SameBut(s, r, {"act"})
  BY ClearEffect
<1>2. t = IF ~r.recent /\ r.held # <<>> THEN FlushBurst(r) ELSE r
  BY DEF Tick
<1> HIDE DEF r, t
<1>3. CASE t = r
  BY <1>1, <1>3 DEF SameBut, Fields, Whole, Trip, Untouched, t, r
<1>4. CASE t = FlushBurst(r) /\ r.held # <<>>
  <2>1. IsCo(r) /\ Current(r) /\ r.surface \in {"repl", "alternate"}
    BY <1>1 DEF Whole, Painted, SameBut, Fields
  <2>2. /\ IsCo(t) /\ Current(t) /\ t.held = <<>>
        /\ SameBut(r, t, {"text", "held", "touched", "staging", "focus", "menu", "shown"})
    BY <1>4, <2>1, FlushEffect
  <2>3. /\ ~t.over /\ t.act = Idle /\ t.recent = s.recent /\ t.surface = s.surface
        /\ t.printed = s.printed /\ t.pending = s.pending /\ r.held = s.held
    BY <1>1, <2>2 DEF SameBut, Fields
  <2>4. Whole(t) /\ Trip(s, t)
    BY <2>1, <2>2, <2>3 DEF Whole, Painted, Trip
  <2>5. Untouched(s, t)
    BY <1>4, <2>2, <2>3 DEF Untouched
  <2> QED
    BY <2>3, <2>4, <2>5 DEF t, r
<1> QED
  BY <1>2, <1>3, <1>4

LEMMA DeliverEffect ==
    ASSUME NEW s, NEW n, Whole(s), ~s.over, s.act = Idle
    PROVE  LET t == Deliver(s, n) IN
           /\ Whole(t) /\ t.act = Idle /\ t.recent = s.recent /\ Delivered(s, t, n)
           /\ t.text = s.text /\ t.held = s.held
<1> DEFINE t == Deliver(s, n)
<1>1. CASE s.surface = "alternate"
  <2>1. t = [s EXCEPT !.pending = Append(@, n)]
    BY <1>1 DEF Deliver
  <2>2. IsCo(t) /\ t.pending = Append(s.pending, n) /\ SameBut(s, t, {"pending"})
    BY <2>1 DEF IsCo, SameBut, Fields, Whole
  <2> HIDE DEF t
  <2> QED
    BY <1>1, <2>2 DEF SameBut, Fields, Whole, Painted, Current, Delivered, t
<1>2. CASE s.surface = "repl"
  <2> DEFINE u == PrintNotices(s, <<n>>)
  <2>1. t = Repaint(u)
    BY <1>2 DEF Deliver
  <2>2. IsCo(u) /\ u.printed = s.printed \o <<n>> /\ SameBut(s, u, {"printed"})
    BY DEF IsCo, SameBut, Fields, Whole, PrintNotices
  <2> HIDE DEF u, t
  <2>3. u.surface = "repl"
    BY <1>2, <2>2 DEF SameBut, Fields
  <2>4. IsCo(t) /\ SameBut(u, t, {"shown"}) /\ Current(t)
    BY <2>1, <2>2, <2>3, RepaintEffect
  <2> QED
    BY <1>2, <2>2, <2>4 DEF SameBut, Fields, Whole, Painted, Delivered, t
<1> QED
  BY <1>1, <1>2 DEF Whole

LEMMA EnterEffect ==
    ASSUME NEW s, Whole(s), s.surface = "repl"
    PROVE  LET t == PaintAlternate([s EXCEPT !.act = Idle, !.surface = "alternate",
                                             !.box = s.text, !.help = FALSE]) IN
           Whole(t) /\ t.act = Idle /\ Trip(s, t) /\ t.surface = "alternate" /\ t.text = s.text
<1> DEFINE u == [s EXCEPT !.act = Idle, !.surface = "alternate", !.box = s.text, !.help = FALSE]
           t == PaintAlternate(u)
<1>1. /\ IsCo(u) /\ u.surface = "alternate" /\ u.act = Idle
      /\ u.printed = s.printed /\ u.pending = s.pending /\ u.text = s.text
  BY DEF IsCo, Fields, Whole
<1> HIDE DEF u
<1>2. IsCo(t) /\ SameBut(u, t, {"shown"}) /\ Current(t)
  BY <1>1, PaintEffect
<1> HIDE DEF t
<1> QED
  BY <1>1, <1>2 DEF SameBut, Fields, Whole, Painted, Trip, t, u

\* What repaints and leaves the surface, the notices and the box alone.
LEMMA PromptEffect ==
    ASSUME NEW s, NEW u, Whole(s), ~s.over, IsCo(u), u.act = Idle,
           SameBut(s, u, {"act", "text", "menu", "staging", "focus"})
    PROVE  LET t == Repaint(u) IN
           /\ Whole(t) /\ t.act = Idle /\ Trip(s, t) /\ t.recent = s.recent
           /\ t.surface = s.surface /\ t.text = u.text
<1> DEFINE t == Repaint(u)
<1>1. /\ IsCo(t) /\ SameBut(u, t, {"shown"})
      /\ u.surface = "repl" => Current(t)
      /\ u.surface = "alternate" => t = u
  BY RepaintEffect
<1> HIDE DEF t
<1>2. /\ t.surface = s.surface /\ t.printed = s.printed /\ t.pending = s.pending
      /\ t.act = Idle /\ t.recent = s.recent /\ u.surface = s.surface
      /\ t.box = s.box /\ t.help = s.help /\ u.shown = s.shown /\ t.text = u.text
  BY <1>1 DEF SameBut, Fields
<1>3. Whole(t) /\ Trip(s, t)
  BY <1>1, <1>2 DEF Whole, Painted, Trip, Current
<1> QED
  BY <1>2, <1>3 DEF t

\* What all but a key does: it submits nothing and leaves the timer of a paste's keys alone.
Tame(s, t) ==
    /\ t.act = s.act \/ ~Submitting(t)
    /\ stream = <<>> \/ t.over \/ (t.recent = s.recent /\ t.surface = s.surface)

AnyKey == PastedKey \/ \E k \in Keys : UserKey(k)

LEMMA IdleSubmitsNothing == ASSUME NEW s, s.act = Idle PROVE ~Submitting(s)
BY DEF Submitting, Idle

\* What every step of the coordinator is, whatever it is about.
EveryStep ==
    /\ Whole(co') /\ (AnyKey \/ Tame(co, co')) /\ Untouched(co, co')
    /\ \/ Trip(co, co') /\ (mailbox' = mailbox \/ Post)
       \/ mailbox # <<>> /\ Delivered(co, co', Head(mailbox)) /\ mailbox' = Tail(mailbox)

LEMMA Step ==
    ASSUME Whole(co), [Next]_vars, stream \in Seq(Keys)
    PROVE  EveryStep
<1> USE DEF EveryStep
<1>0. ASSUME co' = co, mailbox' = mailbox PROVE EveryStep
  BY <1>0 DEF Trip, Tame, Untouched
<1>1. ASSUME NEW k \in Keys, UserKey(k) PROVE EveryStep
  BY <1>1, HandleKeyEffect DEF UserKey, Running, AnyKey
<1>2. CASE PasteUnbracketed
  BY <1>0, <1>2 DEF PasteUnbracketed
<1>3. CASE PastedKey
  BY <1>3, HandleKeyEffect DEF PastedKey, Running, AnyKey
<1>4. CASE PasteBracketed
  <2> DEFINE r == [co EXCEPT !.act = Idle]
  <2>0. Whole(r) /\ r.act = Idle /\ SameBut(co, r, {"act"})
    BY ClearEffect
  <2>1. PICK content \in Bracketed :
          co' = IF co.surface = "alternate" THEN r ELSE Repaint(ReviewOrInsert(r, content))
    BY <1>4 DEF PasteBracketed
  <2> DEFINE u == ReviewOrInsert(r, content)
  <2> HIDE DEF r
  <2>2. IsCo(u) /\ SameBut(r, u, {"text", "staging", "focus", "menu"})
    BY <2>0 DEF IsCo, SameBut, Fields, ReviewOrInsert, Whole
  <2> HIDE DEF u
  <2>3. u.act = Idle /\ SameBut(co, u, {"act", "text", "menu", "staging", "focus"})
    BY <2>0, <2>2 DEF SameBut, Fields
  <2>4. Trip(co, r) /\ Untouched(co, r)
    BY <2>0 DEF Trip, SameBut, Fields, Untouched
  <2>5. ~co.over /\ mailbox' = mailbox /\ stream = <<>>
    BY <1>4 DEF PasteBracketed, Running
  <2>6. /\ Whole(Repaint(u)) /\ Trip(co, Repaint(u)) /\ Repaint(u).act = Idle
        /\ co.surface # "alternate" => Untouched(co, Repaint(u))
    BY <2>2, <2>3, <2>5, PromptEffect DEF Untouched
  <2> QED
    BY <2>0, <2>1, <2>4, <2>5, <2>6, IdleSubmitsNothing DEF u, Tame
<1>5. CASE PollQuiet
  <2> DEFINE s == Tick([co EXCEPT !.act = Idle])
  <2>1. /\ Whole(s) /\ ~s.over /\ s.act = Idle /\ Trip(co, s) /\ s.surface = co.surface
        /\ s.recent = co.recent /\ Untouched(co, s)
    BY <1>5, TickEffect DEF PollQuiet, Running
  <2>2. IF mailbox = <<>> THEN co' = s /\ mailbox' = mailbox
        ELSE co' = Deliver(s, Head(mailbox)) /\ mailbox' = Tail(mailbox)
    BY <1>5 DEF PollQuiet
  <2> HIDE DEF s
  <2>3. CASE mailbox = <<>>
    BY <2>1, <2>2, <2>3, IdleSubmitsNothing DEF Tame
  <2>4. CASE mailbox # <<>>
    <3>1. /\ Whole(co') /\ Delivered(s, co', Head(mailbox)) /\ mailbox' = Tail(mailbox)
          /\ co'.act = Idle /\ co'.recent = s.recent /\ co'.text = s.text /\ co'.held = s.held
      BY <2>1, <2>2, <2>4, DeliverEffect
    <3>2. s.printed = co.printed /\ s.pending = co.pending
      BY <2>1 DEF Trip, Whole
    <3>3. Untouched(co, co')
      BY <2>1, <3>1 DEF Untouched, Delivered
    <3> QED
      BY <2>1, <2>4, <3>1, <3>2, <3>3, IdleSubmitsNothing DEF Delivered, Tame
  <2> QED
    BY <2>3, <2>4
<1>6. CASE TimePasses
  <2>1. IsCo(co') /\ SameBut(co, co', {"recent"}) /\ mailbox' = mailbox /\ stream = <<>>
    BY <1>6 DEF TimePasses, IsCo, SameBut, Fields, Whole
  <2> QED
    BY <2>1 DEF SameBut, Fields, Whole, Painted, Current, Trip, Tame, Untouched
<1>7. CASE Post
  BY <1>7 DEF Post, Trip, Tame, Untouched
<1>8. CASE OpenMenu
  <2> DEFINE u == [co EXCEPT !.act = Idle,
                             !.menu = [open |-> TRUE, focused |-> FALSE, for |-> co.text]]
  <2>1. co' = Repaint(u) /\ mailbox' = mailbox /\ ~co.over
    BY <1>8 DEF OpenMenu, Running
  <2>2. IsCo(u) /\ u.act = Idle /\ SameBut(co, u, {"act", "text", "menu", "staging", "focus"})
    BY DEF IsCo, SameBut, Fields, Whole
  <2>3. u.text = co.text
    BY DEF IsCo, Fields, Whole
  <2> HIDE DEF u
  <2> QED
    BY <2>1, <2>2, <2>3, PromptEffect, IdleSubmitsNothing DEF Tame, Untouched
<1>9. CASE EnterAlternate
  BY <1>9, EnterEffect, IdleSubmitsNothing DEF EnterAlternate, Tame, Untouched
<1>10. CASE Resize
  <2> DEFINE u == [co EXCEPT !.act = Idle]
  <2>1. co' = Repaint(u) /\ mailbox' = mailbox /\ ~co.over
    BY <1>10 DEF Resize, Running
  <2>2. IsCo(u) /\ u.act = Idle /\ SameBut(co, u, {"act", "text", "menu", "staging", "focus"})
    BY DEF IsCo, SameBut, Fields, Whole
  <2>3. u.text = co.text
    BY DEF IsCo, Fields, Whole
  <2> HIDE DEF u
  <2> QED
    BY <2>1, <2>2, <2>3, PromptEffect, IdleSubmitsNothing DEF Tame, Untouched
<1>11. CASE Interrupt
  <2> DEFINE r == [co EXCEPT !.act = Idle]
  <2>1. co' = Shutdown(r) /\ mailbox' = mailbox
    BY <1>11 DEF Interrupt
  <2>2. Whole(r) /\ r.act = Idle /\ SameBut(co, r, {"act"})
    BY ClearEffect
  <2> HIDE DEF r
  <2>3. /\ r.surface = co.surface /\ r.printed = co.printed /\ r.pending = co.pending
        /\ r.box = co.box /\ r.surface \in {"repl", "alternate"} /\ IsCo(r)
    BY <2>2 DEF SameBut, Fields, Whole
  <2>4. /\ IsCo(co') /\ co'.over /\ co'.surface = "repl" /\ co'.act.kind = "quit"
        /\ r.surface = "repl" => co'.printed = r.printed /\ co'.pending = r.pending
        /\ r.surface = "alternate" =>
              co'.text = r.box /\ co'.printed = r.printed \o r.pending /\ co'.pending = <<>>
    BY <2>1, <2>2, <2>3, ShutdownEffect
  <2> QED
    BY <2>1, <2>3, <2>4 DEF Whole, Painted, Trip, Tame, Submitting, Untouched
<1>12. CASE UNCHANGED vars
  BY <1>0, <1>12 DEF vars
<1> QED
  BY <1>1, <1>2, <1>3, <1>4, <1>5, <1>6, <1>7, <1>8, <1>9, <1>10, <1>11, <1>12 DEF Next

LEMMA InitWhole == Init => Whole(co) /\ stream \in Seq(Keys)
<1> SUFFICES ASSUME Init PROVE Whole(co) /\ stream \in Seq(Keys)
  OBVIOUS
<1>1. IsCo(co)
  BY DEF Init, IsCo, Fields
<1> QED
  BY <1>1 DEF Init, Whole, Painted, Current

LEMMA StreamSteps ==
    [Next]_vars =>
        \/ UNCHANGED stream
        \/ stream = <<>> /\ co' = co /\ stream' \in Pastes
        \/ stream # <<>> /\ PastedKey /\ stream' = Tail(stream)
BY DEF Next, vars, UserKey, PasteUnbracketed, PastedKey, PasteBracketed, PollQuiet, TimePasses,
       Post, OpenMenu, EnterAlternate, Resize, Interrupt

LEMMA StreamStep == stream \in Seq(Keys) /\ [Next]_vars => stream' \in Seq(Keys)
<1>1. stream \in Seq(Keys) /\ stream # <<>> => Tail(stream) \in Seq(Keys)
  BY HeadTailProperties
<1>2. \A p \in Pastes : p \in Seq(Keys)
  BY InputsAssumption
<1> QED
  BY <1>1, <1>2, StreamSteps

\* ScreenIsCurrent, whatever is pasted: after every handler, the screen shows the state it left.
THEOREM ScreenShowsTheState == Spec => []ScreenIsCurrent
<1> DEFINE Inv == Whole(co) /\ stream \in Seq(Keys)
<1>1. Init => Inv
  BY InitWhole
<1>2. Inv /\ [Next]_vars => Inv'
  BY Step, StreamStep DEF EveryStep
<1>3. Inv => ScreenIsCurrent
  BY DEF Whole, Painted, Current, ScreenIsCurrent
<1> QED
  BY <1>1, <1>2, <1>3, PTL DEF Spec

-----------------------------------------------------------------------------
(* Notices. *)

LEMMA Associative ==
    ASSUME NEW S, NEW a \in Seq(S), NEW b \in Seq(S), NEW c \in Seq(S)
    PROVE  a \o (b \o c) = (a \o b) \o c
OBVIOUS

\* The numbers of notices.
Ids == Nat

LEMMA NextNotice ==
    ASSUME NEW a \in Seq(Ids), NEW b \in Seq(Ids), NEW c \in Seq(Ids), c # <<>>
    PROVE  /\ a \o Append(b, Head(c)) \o Tail(c) = a \o b \o c
           /\ b = <<>> => (a \o <<Head(c)>>) \o b \o Tail(c) = a \o b \o c
<1> DEFINE h == <<Head(c)>>
           d == Tail(c)
           e == a \o b
<1>1. h \in Seq(Ids) /\ d \in Seq(Ids) /\ e \in Seq(Ids)
  OBVIOUS
<1>2. c = h \o d
  OBVIOUS
<1>3. Append(b, Head(c)) = b \o h
  OBVIOUS
<1> HIDE DEF h, d
<1>4. a \o (b \o h) = e \o h
  BY <1>1, Associative, SMTT(30)
<1> HIDE DEF e
<1>5. e \o (h \o d) = (e \o h) \o d
  BY SMTT(30), <1>1
<1>6. b = <<>> => e = a /\ (a \o h) \o b = a \o h
  BY <1>1 DEF e
<1> QED
  BY <1>2, <1>3, <1>4, <1>5, <1>6 DEF h, d, e

LEMMA LastNotice ==
    ASSUME NEW e \in Seq(Ids), NEW c \in Seq(Ids), NEW x \in Ids
    PROVE  e \o Append(c, x) = Append(e \o c, x)
OBVIOUS

LEMMA Numbered ==
    ASSUME NEW p \in Nat
    PROVE  Append([n \in 1..p |-> n], p + 1) = [n \in 1..(p + 1) |-> n]
OBVIOUS

NoticesInv ==
    /\ Whole(co) /\ stream \in Seq(Keys)
    /\ posted \in Nat /\ mailbox \in Seq(Ids)
    /\ co.printed \in Seq(Ids) /\ co.pending \in Seq(Ids)
    /\ NoticesInOrder

LEMMA NoticesStep == NoticesInv /\ [Next]_vars => NoticesInv'
<1> SUFFICES ASSUME NoticesInv, [Next]_vars PROVE NoticesInv'
  OBVIOUS
<1> DEFINE a == co.printed
           b == co.pending
           c == mailbox
           h == Head(c)
<1>1. Whole(co') /\ stream' \in Seq(Keys)
  BY Step, StreamStep DEF EveryStep, NoticesInv
<1>2. posted' = posted \/ Post
  BY DEF Next, vars, UserKey, PasteUnbracketed, PastedKey, PasteBracketed, PollQuiet, TimePasses,
         OpenMenu, EnterAlternate, Resize, Interrupt
<1>3. /\ a \in Seq(Ids) /\ b \in Seq(Ids) /\ c \in Seq(Ids) /\ posted \in Nat
      /\ (a \o b) \o c = [n \in 1..posted |-> n]
      /\ co.surface = "repl" => b = <<>>
  BY DEF NoticesInv, NoticesInOrder
<1>4. ASSUME /\ co'.printed \in Seq(Ids) /\ co'.pending \in Seq(Ids) /\ mailbox' \in Seq(Ids)
             /\ posted' \in Nat
             /\ (co'.printed \o co'.pending) \o mailbox' = [n \in 1..posted' |-> n]
             /\ co'.surface = "repl" => co'.pending = <<>>
      PROVE  NoticesInv'
  BY <1>1, <1>4 DEF NoticesInv, NoticesInOrder
<1>5. CASE Post
  <2>1. co' = co /\ posted' = posted + 1 /\ mailbox' = Append(c, posted + 1)
    BY <1>5 DEF Post
  <2> HIDE DEF a, b, c
  <2>2. posted' \in Nat /\ posted' \in Ids
    BY <1>3, <2>1 DEF Ids
  <2>5. mailbox' \in Seq(Ids)
    BY <1>3, <2>1, <2>2
  <2> DEFINE e == a \o b
             x == posted + 1
  <2>3. e \in Seq(Ids) /\ x \in Ids
    BY <1>3 DEF Ids
  <2> HIDE DEF e, x
  <2>4. e \o Append(c, x) = Append(e \o c, x)
    BY <1>3, <2>3, LastNotice
  <2>6. e \o Append(c, x) = [n \in 1..x |-> n]
    BY <1>3, <2>4, Numbered DEF e, x
  <2> QED
    BY <1>3, <1>4, <2>1, <2>2, <2>5, <2>6 DEF a, b, e, x
<1>6. CASE mailbox' = mailbox /\ posted' = posted /\ Trip(co, co')
  <2>1. CASE co'.printed = a /\ co'.pending = b /\ (co'.surface = "repl" => co.surface = "repl")
    BY <1>3, <1>4, <1>6, <2>1
  <2>2. CASE co'.printed = a \o b /\ co'.pending = <<>>
    <3> HIDE DEF a, b
    <3>1. (a \o b) \in Seq(Ids) /\ (a \o b) \o <<>> = a \o b
      BY <1>3
    <3> QED
      BY <1>3, <1>4, <1>6, <2>2, <3>1
  <2> QED
    BY <1>6, <2>1, <2>2 DEF Trip
<1>7. CASE /\ mailbox # <<>> /\ Delivered(co, co', h) /\ mailbox' = Tail(c)
           /\ posted' = posted
  <2>0. \/ /\ co.surface = "alternate" /\ co'.surface = "alternate"
           /\ co'.pending = Append(b, h) /\ co'.printed = a
        \/ /\ co.surface = "repl" /\ co'.surface = "repl"
           /\ co'.printed = a \o <<h>> /\ co'.pending = b
    BY <1>7 DEF Delivered
  <2>1. c # <<>> /\ mailbox' = Tail(c) /\ posted' = posted
    BY <1>7
  <2> HIDE DEF a, b, c
  <2>2. h \in Ids /\ Tail(c) \in Seq(Ids) /\ Append(b, h) \in Seq(Ids) /\ a \o <<h>> \in Seq(Ids)
    BY <1>3, <2>1
  <2>3. /\ (a \o Append(b, h)) \o Tail(c) = (a \o b) \o c
        /\ b = <<>> => ((a \o <<h>>) \o b) \o Tail(c) = (a \o b) \o c
    BY <1>3, <2>1, NextNotice
  <2> HIDE DEF h
  <2> QED
    BY <1>3, <1>4, <2>0, <2>1, <2>2, <2>3
<1> QED
  BY <1>2, <1>5, <1>6, <1>7, Step DEF EveryStep, NoticesInv, Post

\* The history of a trip.
LEMMA Remembers == [Next]_vars => Remember \/ UNCHANGED vars
BY DEF Next, UserKey, PasteUnbracketed, PastedKey, PasteBracketed, PollQuiet, TimePasses,
       Post, OpenMenu, EnterAlternate, Resize, Interrupt

\* Behind the alternate screen is the line it began with, or a burst was released there.
TripInv == co.surface = "alternate" => co.text = trip.line \/ trip.burst = TRUE

LEMMA TripStep ==
    ASSUME NoticesInv, TripInv, [Next]_vars
    PROVE  TripInv'
<1>1. CASE UNCHANGED vars
  BY <1>1 DEF TripInv, vars
<1>2. CASE Remember
  <2>1. Untouched(co, co') /\ co.surface \in {"repl", "alternate"}
    BY Step DEF EveryStep, NoticesInv, Whole
  <2>2. CASE co'.surface = "alternate" /\ co.surface = "repl"
    <3>1. trip' = [line |-> co.text, burst |-> FALSE]
      BY <1>2, <2>2 DEF Remember
    <3> QED
      BY <2>1, <2>2, <3>1 DEF TripInv, Untouched
  <2>3. CASE co'.surface = "alternate" /\ co.surface = "alternate"
    <3>1. trip' = [line |-> trip.line,
                   burst |-> IF co'.held # co.held THEN TRUE ELSE trip.burst]
      BY <1>2, <2>3 DEF Remember
    <3>2. trip'.line = trip.line /\ (co'.held # co.held => trip'.burst = TRUE)
          /\ (co'.held = co.held => trip'.burst = trip.burst)
      BY <3>1
    <3> QED
      BY <2>1, <2>3, <3>2 DEF TripInv, Untouched
  <2> QED
    BY <2>1, <2>2, <2>3 DEF TripInv
<1> QED
  BY <1>1, <1>2, Remembers

\* TripIsTransparent: notices come once each and in their order, none over the TUI; leaving it
\* carries the command box without running it, and nothing was behind it but the line it began
\* with, unless a held burst was released meanwhile.  For any number of trips.
THEOREM TripsAreTransparent == Spec => TripIsTransparent
<1>1. Init => NoticesInv
  <2> SUFFICES ASSUME Init PROVE NoticesInv
    OBVIOUS
  <2>1. co.printed = <<>> /\ co.pending = <<>> /\ mailbox = <<>> /\ posted = 0
    BY DEF Init
  <2> QED
    BY <2>1, InitWhole DEF NoticesInv, NoticesInOrder
<1>2. NoticesInv /\ [Next]_vars =>
        (co.surface = "alternate" /\ co'.surface = "alternate" => co'.printed = co.printed)
  BY Step DEF EveryStep, NoticesInv, Trip, Delivered
<1>3. NoticesInv /\ TripInv /\ [Next]_vars =>
        (Leaves => /\ co'.act.kind # "submit" /\ co'.text = co.box
                   /\ co.text = trip.line \/ trip.burst)
  <2> SUFFICES ASSUME NoticesInv, TripInv, [Next]_vars, Leaves
               PROVE  /\ co'.act.kind # "submit" /\ co'.text = co.box
                      /\ co.text = trip.line \/ trip.burst
    OBVIOUS
  <2>1. co'.act.kind # "submit" /\ co'.text = co.box
    BY Step DEF EveryStep, NoticesInv, Trip, Delivered, Leaves
  <2>2. co.text = trip.line \/ trip.burst = TRUE
    BY DEF TripInv, Leaves
  <2> QED
    BY <2>1, <2>2, Zenon
<1>4. NoticesInv => NoticesInOrder
  BY DEF NoticesInv
<1>5. Init => TripInv
  BY DEF Init, TripInv
<1>6. NoticesInv /\ TripInv /\ [Next]_vars => TripInv'
  BY TripStep
<1> QED
  BY <1>1, <1>2, <1>3, <1>4, <1>5, <1>6, NoticesStep, PTL
     DEF Spec, TripIsTransparent, NoPrintOverTui, TuiDraftIsCarried

-----------------------------------------------------------------------------
(* Pastes. *)

\* Pastes as a terminal without bracketed paste delivers them: text and line ends.  One that
\* begins with an Enter is an Enter to the coordinator; a digit answers an open review.
PlainPastes ==
    \A p \in Pastes : p \in Seq({"char", "tab", "enter"}) /\ p[1] # "enter"

\* Inside a paste the burst timer never runs out before an Enter.
PasteInv ==
    /\ Whole(co)
    /\ stream \in Seq({"char", "tab", "enter"})
    /\ stream # <<>> /\ stream[1] = "enter" => co.over \/ co.recent \/ co.surface = "alternate"
    /\ PasteNeverSubmits

LEMMA OverIsOver == co.over /\ [Next]_vars => UNCHANGED vars
BY DEF Next, Running, UserKey, PasteUnbracketed, PastedKey, PasteBracketed, PollQuiet, TimePasses,
       Post, OpenMenu, EnterAlternate, Resize, Interrupt

LEMMA PasteStep ==
    ASSUME PlainPastes, PasteInv, [Next]_vars
    PROVE  PasteInv'
<1> USE DEF PasteInv
<1>0. stream \in Seq(Keys)
  <2>1. {"char", "tab", "enter"} \subseteq Keys
    BY DEF Keys, Chars
  <2> QED
    BY <2>1, SeqMonotonic
<1>1. Whole(co')
  BY <1>0, Step DEF EveryStep
<1>2. CASE PastedKey
  <2> DEFINE k == stream[1]
  <2>1. stream # <<>> /\ k \in {"char", "tab", "enter"} /\ stream' = Tail(stream) /\ ~co.over
    BY <1>2 DEF PastedKey, Running
  <2>2. k \in Keys /\ co' = HandleKey(co, k, "paste")
    BY <1>2, <2>1 DEF PastedKey, Keys, Chars
  <2> HIDE DEF k
  <2>3. /\ Submitting(co') => \/ k = "enter" /\ ~co.recent /\ co.surface = "repl"
                              \/ k \in {"1", "2"}
        /\ co'.recent \/ co'.surface = "alternate"
    BY <2>1, <2>2, HandleKeyEffect
  <2>4. ~Submitting(co')
    BY <2>1, <2>3 DEF Whole, k
  <2>5. stream' \in Seq({"char", "tab", "enter"})
    BY <2>1, HeadTailProperties
  <2> QED
    BY <1>1, <2>3, <2>4, <2>5 DEF PasteNeverSubmits, Submits, Submitting
<1>3. CASE co' = co /\ stream = <<>> /\ stream' \in Pastes
  BY <1>1, <1>3 DEF PlainPastes, PasteNeverSubmits, Submits
<1>4. CASE UNCHANGED stream /\ ~PastedKey
  <2>1. ASSUME NEW k \in Keys, UserKey(k) PROVE PasteInv'
    <3>1. (Submitting(co') => co'.act.by = "user") /\ stream = <<>>
      BY <2>1, HandleKeyEffect DEF UserKey, Running
    <3> QED
      BY <1>1, <1>4, <3>1 DEF PasteNeverSubmits, Submits, Submitting
  <2>2. CASE Tame(co, co')
    <3>1. co.over => co' = co
      BY OverIsOver DEF vars
    <3> QED
      BY <1>1, <1>4, <2>2, <3>1 DEF Tame, PasteNeverSubmits, Submits, Submitting
  <2> QED
    BY <1>0, <1>4, <2>1, <2>2, Step DEF EveryStep, AnyKey
<1> QED
  BY <1>2, <1>3, <1>4, StreamSteps DEF PastedKey

\* PasteNeverSubmits, for any pastes of text and line ends: no key of a paste submits anything,
\* whatever was typed, held back, under review or on the screen before it.
THEOREM PastesNeverSubmit == PlainPastes => (Spec => []PasteNeverSubmits)
<1> SUFFICES ASSUME PlainPastes PROVE Spec => []PasteNeverSubmits
  OBVIOUS
<1>1. Init => PasteInv
  <2> SUFFICES ASSUME Init PROVE PasteInv
    OBVIOUS
  <2>1. co.act = Idle /\ stream = <<>>
    BY DEF Init
  <2> QED
    BY <2>1, InitWhole DEF PasteInv, PasteNeverSubmits, Submits, Idle
<1>2. PasteInv /\ [Next]_vars => PasteInv'
  BY PasteStep
<1>3. PasteInv => PasteNeverSubmits
  BY DEF PasteInv
<1> QED
  BY <1>1, <1>2, <1>3, PTL DEF Spec
=============================================================================
