----------------------------- MODULE Coordinator -----------------------------
(***************************************************************************)
(* pr-terminal/src/coordinator.rs with the paste review of paste.rs and    *)
(* the mailbox of event.rs, driven by the event loop of bin/demo.rs.       *)
(*                                                                         *)
(* The coordinator is one object, so it is one record, `co'; its handlers  *)
(* are operators from record to record.  Text is a sequence of marks that  *)
(* say where each character came from; the cursor stays at its end and     *)
(* words are not told apart.  Time is whether the last key arrived less    *)
(* than BURST_GAP ago.  A terminal without bracketed paste delivers pasted *)
(* text as keys, less than BURST_GAP apart: `stream' is what is still to   *)
(* come of one.                                                            *)
(***************************************************************************)
EXTENDS Integers, Sequences, FiniteSetsExt, SequencesExt

CONSTANTS
    Pastes,         \* unbracketed pastes, as sequences of keys
    Bracketed,      \* contents of bracketed pastes
    HasMenu,        \* the application opens the dropdown
    HasTui,         \* the application puts up the alternate screen
    InlineLimit,    \* INLINE_LIMIT: characters of one line that need no review
    MaxText,        \* bound: characters in a line the user types
    MaxPastes,      \* bound: pastes
    MaxNotices      \* bound: notices posted

Chars == {"char", "1", "2"}
Keys == Chars \cup {"enter", "backspace", "up", "down", "esc", "tab", "ctrl_c", "ctrl_d", "f1"}

ASSUME InputsAssumption ==
    /\ InlineLimit \in Nat /\ MaxText \in Nat /\ MaxPastes \in Nat /\ MaxNotices \in Nat
    /\ HasMenu \in BOOLEAN /\ HasTui \in BOOLEAN
    /\ \A p \in Pastes : p \in Seq(Keys) /\ p # <<>>

VARIABLES
    co,         \* the coordinator
    mailbox,    \* notices posted by workers, not yet taken
    posted,     \* notices posted so far
    stream,     \* keys of a paste still to arrive
    pastes,     \* pastes so far
    trip        \* history, of the alternate screen that is up: the line it began with, and
                \* whether a burst was released since

vars == <<co, mailbox, posted, stream, pastes, trip>>

NoTrip == [line |-> <<>>, burst |-> FALSE]
NoMenu == [open |-> FALSE, focused |-> FALSE, for |-> <<>>]
Idle == [kind |-> "none", by |-> "user"]

Init ==
    /\ co = [text |-> <<>>, menu |-> NoMenu,
             staging |-> <<>>, focus |-> 1,
             surface |-> "repl", box |-> <<>>, help |-> FALSE,
             pending |-> <<>>, printed |-> <<>>,
             recent |-> FALSE, held |-> <<>>, touched |-> FALSE,
             shown |-> [text |-> <<>>, menu |-> NoMenu, staging |-> <<>>],
             act |-> Idle, over |-> FALSE]
    /\ mailbox = <<>>
    /\ posted = 0
    /\ stream = <<>>
    /\ pastes = 0
    /\ trip = NoTrip

-----------------------------------------------------------------------------
(* Painting. *)

\* repaint: the prompt block, the review and the dropdown; nothing over the TUI.
Repaint(s) ==
    IF s.surface = "alternate" THEN s
    ELSE [s EXCEPT !.shown = [text |-> s.text, menu |-> s.menu, staging |-> s.staging]]

\* paint_alternate.
PaintAlternate(s) == [s EXCEPT !.shown = [box |-> s.box, help |-> s.help]]

\* print_notice: the line goes into the scrollback above the block.
PrintNotices(s, ns) == [s EXCEPT !.printed = @ \o ns]

-----------------------------------------------------------------------------
(* Pastes. *)

\* needs_staging.
NeedsStaging(content) == Contains(content, "nl") \/ Len(content) > InlineLimit

\* Staging::new: one entry per line.
Lines(content) ==
    FoldLeft(LAMBDA ls, t : IF t = "nl" THEN Append(ls, <<>>)
                                        ELSE [ls EXCEPT ![Len(ls)] = Append(@, t)],
             << <<>> >>, content)

\* Content goes to review when it has several lines or a long one, into the edit buffer otherwise.
ReviewOrInsert(s, content) ==
    IF NeedsStaging(content)
      THEN [s EXCEPT !.staging = Lines(content), !.focus = 1, !.menu = NoMenu]
      ELSE [s EXCEPT !.text = @ \o content]

\* flush_burst: what the burst held, and the buffer if it wrote there, without the Enter
\* withheld at the end.
FlushBurst(s) ==
    LET content == s.held \o (IF s.touched THEN s.text ELSE <<>>)
        kept == IF Last(content) = "nl" THEN Front(content) ELSE content
        left == [s EXCEPT !.text = IF s.touched THEN <<>> ELSE @,
                          !.held = <<>>, !.touched = FALSE]
    IN  Repaint(ReviewOrInsert(left, kept))

\* Bug: time passing releases nothing.
TickNever(s) == s

\* tick: a moment of quiet ends a burst.
Tick(s) == IF ~s.recent /\ s.held # <<>> THEN FlushBurst(s) ELSE s

-----------------------------------------------------------------------------
(* Keys. *)

\* Action::Submit and Action::SubmitMany.
Submit(s, kind, by) == [s EXCEPT !.act = [kind |-> kind, by |-> by]]

\* Bug: the box goes down with the screen.
LeaveAlternateDropsBox(s) ==
    Repaint(PrintNotices([s EXCEPT !.surface = "repl", !.box = <<>>,
                                   !.help = FALSE, !.pending = <<>>], s.pending))

\* leave_alternate: the command box becomes the draft, and what waited is printed.
LeaveAlternate(s) ==
    Repaint(PrintNotices([s EXCEPT !.surface = "repl", !.text = s.box, !.box = <<>>,
                                   !.help = FALSE, !.pending = <<>>], s.pending))

\* The event loop ends: shutdown takes the alternate screen down first.
Shutdown(s) ==
    [(IF s.surface = "alternate" THEN LeaveAlternate(s) ELSE s)
       EXCEPT !.over = TRUE, !.act.kind = "quit"]

\* accept_selection: the row replaces the word under the cursor.
AcceptSelection(s) == [s EXCEPT !.text = <<"row">>, !.menu = NoMenu]

Mark(by) == IF by = "paste" THEN "pasted" ELSE "typed"

\* repl_key.
ReplKey(s, k, by) ==
    CASE k \in Chars ->
           Repaint([s EXCEPT !.text = Append(@, Mark(by)), !.menu = NoMenu])
      [] k = "backspace" ->
           Repaint([s EXCEPT !.text = IF @ = <<>> THEN @ ELSE Front(@), !.menu = NoMenu])
      [] k \in {"up", "down"} /\ s.menu.open -> Repaint([s EXCEPT !.menu.focused = TRUE])
      [] k = "esc" -> Repaint([s EXCEPT !.menu = NoMenu])
      [] k \in {"tab", "enter"} /\ s.menu.focused -> Repaint(AcceptSelection(s))
      [] k = "enter" /\ ~s.menu.focused ->
           Submit(Repaint([s EXCEPT !.text = <<>>, !.menu = NoMenu]), "submit", by)
      [] k = "ctrl_c" -> Repaint([s EXCEPT !.text = <<>>, !.menu = NoMenu])
      [] k = "ctrl_d" /\ s.text = <<>> -> Shutdown(s)
      [] OTHER -> Repaint(s)

\* Bug: a burst is not looked at.
ReplKeyAtUntimed(s, k, by) ==
    ReplKey([(IF s.held # <<>> THEN FlushBurst(s) ELSE s) EXCEPT !.recent = TRUE], k, by)

\* Bug: the held line is not painted away.
ReplKeyAtUnpainted(s, k, by) ==
    LET t == [(IF ~s.recent /\ s.held # <<>> THEN FlushBurst(s) ELSE s) EXCEPT !.recent = TRUE] IN
    IF s.recent /\ k = "enter"
      THEN [t EXCEPT !.held = @ \o t.text \o <<"nl">>, !.text = <<>>,
                     !.touched = FALSE, !.menu = NoMenu]
      ELSE ReplKey(IF s.recent /\ k \in Chars \cup {"backspace"}
                     THEN [t EXCEPT !.touched = TRUE] ELSE t, k, by)

\* repl_key_at: inside a burst Enter holds the line back; a gap releases what was held.
ReplKeyAt(s, k, by) ==
    LET t == [(IF ~s.recent /\ s.held # <<>> THEN FlushBurst(s) ELSE s) EXCEPT !.recent = TRUE] IN
    IF s.recent /\ k = "enter"
      THEN Repaint([t EXCEPT !.held = @ \o t.text \o <<"nl">>, !.text = <<>>,
                             !.touched = FALSE, !.menu = NoMenu])
      ELSE ReplKey(IF s.recent /\ k \in Chars \cup {"backspace"}
                     THEN [t EXCEPT !.touched = TRUE] ELSE t, k, by)

\* Staging::decide: blank lines are dropped.
NotBlank(lines) == SelectSeq(lines, LAMBDA l : l # <<>>)

Closed(s) == [s EXCEPT !.staging = <<>>, !.focus = 1]

\* Staging::delete: the focus moves up from below the end.
Deleted(s) ==
    LET left == RemoveAt(s.staging, s.focus) IN
    [s EXCEPT !.staging = left,
              !.focus = IF left = <<>> THEN 1 ELSE Min({@, Len(left)})]

\* staging_key: Enter does nothing here.
StagingKey(s, k, by) ==
    LET t == [s EXCEPT !.recent = TRUE] IN
    Repaint(
      CASE k = "down" -> [t EXCEPT !.focus = Min({@ + 1, Len(t.staging)})]
        [] k = "up" -> [t EXCEPT !.focus = Max({@ - 1, 1})]
        [] k = "backspace" -> Deleted(t)
        [] k = "1" -> Submit(Closed(t), "many", by)
        [] k = "2" -> IF NotBlank(t.staging) = <<>> THEN Closed(t) ELSE Submit(Closed(t), "submit", by)
        [] k \in {"esc", "ctrl_c"} -> Closed(t)
        [] OTHER -> t)

\* tui_key.
TuiKey(s, k, by) ==
    CASE k = "f1" -> PaintAlternate([s EXCEPT !.help = ~@])
      [] k = "esc" /\ s.help -> PaintAlternate([s EXCEPT !.help = FALSE])
      [] k = "esc" /\ ~s.help -> LeaveAlternate(s)
      [] k \in Chars /\ ~s.help -> PaintAlternate([s EXCEPT !.box = Append(@, Mark(by))])
      [] k = "backspace" /\ ~s.help ->
           PaintAlternate([s EXCEPT !.box = IF @ = <<>> THEN @ ELSE Front(@)])
      [] OTHER -> PaintAlternate(s)

\* handle_at for a key: a review takes it before either surface does.
HandleKey(s, k, by) ==
    LET t == [s EXCEPT !.act = Idle] IN
    IF t.staging # <<>> THEN StagingKey(t, k, by)
    ELSE IF t.surface = "repl" THEN ReplKeyAt(t, k, by)
    ELSE TuiKey(t, k, by)

\* deliver: while the TUI holds the screen, notices wait.
Deliver(s, n) ==
    IF s.surface = "alternate" THEN [s EXCEPT !.pending = Append(@, n)]
    ELSE Repaint(PrintNotices(s, <<n>>))

-----------------------------------------------------------------------------
(* The event loop. *)

Running == ~co.over

\* The history of a trip; behind the alternate screen only a released burst empties `held'.
Remember ==
    trip' = IF co'.surface = "repl" THEN NoTrip
            ELSE IF co.surface = "repl" THEN [line |-> co.text, burst |-> FALSE]
            ELSE [line |-> trip.line, burst |-> IF co'.held # co.held THEN TRUE ELSE trip.burst]

\* The user presses a key.
UserKey(k) ==
    /\ Running
    /\ stream = <<>>
    /\ k \in Chars => Len(co.text) + Len(co.held) < MaxText /\ Len(co.box) < MaxText
    /\ k = "enter" => Len(co.text) + Len(co.held) <= MaxText
    /\ co' = HandleKey(co, k, "user")
    /\ UNCHANGED <<mailbox, posted, stream, pastes>>
    /\ Remember

\* The user pastes, and the terminal does not say so.
PasteUnbracketed ==
    /\ Running
    /\ stream = <<>>
    /\ pastes < MaxPastes
    /\ stream' \in Pastes
    /\ pastes' = pastes + 1
    /\ UNCHANGED <<co, mailbox, posted>>
    /\ Remember

\* The next key of that paste.
PastedKey ==
    /\ Running
    /\ stream # <<>>
    /\ co' = HandleKey(co, Head(stream), "paste")
    /\ stream' = Tail(stream)
    /\ UNCHANGED <<mailbox, posted, pastes>>
    /\ Remember

\* handle_at for a bracketed paste, ignored by the TUI.
PasteBracketed ==
    /\ Running
    /\ stream = <<>>
    /\ pastes < MaxPastes
    /\ \E content \in Bracketed :
         co' = IF co.surface = "alternate" THEN [co EXCEPT !.act = Idle]
               ELSE Repaint(ReviewOrInsert([co EXCEPT !.act = Idle], content))
    /\ pastes' = pastes + 1
    /\ UNCHANGED <<mailbox, posted, stream>>
    /\ Remember

\* Nothing was typed for a moment: tick, then one notice from the mailbox.
PollQuiet ==
    /\ Running
    /\ LET s == Tick([co EXCEPT !.act = Idle]) IN
       IF mailbox = <<>> THEN co' = s /\ UNCHANGED mailbox
       ELSE co' = Deliver(s, Head(mailbox)) /\ mailbox' = Tail(mailbox)
    /\ UNCHANGED <<posted, stream, pastes>>
    /\ Remember

\* BURST_GAP passes since the last key.
TimePasses ==
    /\ Running
    /\ co.recent
    /\ stream = <<>>
    /\ co' = [co EXCEPT !.recent = FALSE]
    /\ UNCHANGED <<mailbox, posted, stream, pastes>>
    /\ Remember

\* A worker posts a notice.
Post ==
    /\ Running
    /\ posted < MaxNotices
    /\ posted' = posted + 1
    /\ mailbox' = Append(mailbox, posted')
    /\ UNCHANGED <<co, stream, pastes>>
    /\ Remember

\* The application opens the dropdown for the text as it is.
OpenMenu ==
    /\ Running /\ HasMenu
    /\ stream = <<>>
    /\ co' = Repaint([co EXCEPT !.act = Idle,
                        !.menu = [open |-> TRUE, focused |-> FALSE, for |-> co.text]])
    /\ UNCHANGED <<mailbox, posted, stream, pastes>>
    /\ Remember

\* enter_alternate: the TUI's command box starts as the draft.
EnterAlternate ==
    /\ Running /\ HasTui
    /\ stream = <<>>
    /\ co.surface = "repl"
    /\ co' = PaintAlternate([co EXCEPT !.act = Idle, !.surface = "alternate",
                                       !.box = co.text, !.help = FALSE])
    /\ UNCHANGED <<mailbox, posted, stream, pastes>>
    /\ Remember

\* Input::Resize repaints the prompt block; the TUI is not repainted.
Resize ==
    /\ Running
    /\ co' = Repaint([co EXCEPT !.act = Idle])
    /\ UNCHANGED <<mailbox, posted, stream, pastes>>
    /\ Remember

\* Input::Interrupt ends the loop.
Interrupt ==
    /\ Running
    /\ co' = Shutdown([co EXCEPT !.act = Idle])
    /\ UNCHANGED <<mailbox, posted, stream, pastes>>
    /\ Remember

Next ==
    \/ \E k \in Keys : UserKey(k)
    \/ PasteUnbracketed \/ PastedKey \/ PasteBracketed
    \/ PollQuiet \/ TimePasses \/ Post
    \/ OpenMenu \/ EnterAlternate \/ Resize \/ Interrupt

Spec == Init /\ [][Next]_vars

\* A paste arrives to its end, the user pauses for BURST_GAP now and then, and one of those
\* pauses lasts until the loop's poll times out.
FairSpec ==
    /\ Spec
    /\ WF_vars(PastedKey)
    /\ WF_vars(TimePasses)
    /\ SF_vars(~co.recent /\ PollQuiet)

-----------------------------------------------------------------------------

Text == Seq({"typed", "pasted", "row"})

TypeOK ==
    /\ co.text \in Text /\ co.box \in Text
    /\ co.staging \in Seq(Text)
    /\ co.focus \in 1..(IF co.staging = <<>> THEN 1 ELSE Len(co.staging))
    /\ co.surface \in {"repl", "alternate"}
    /\ {co.help, co.recent, co.touched, co.over} \subseteq BOOLEAN
    /\ co.held \in Seq({"typed", "pasted", "row", "nl"})
    /\ co.act.kind \in {"none", "submit", "many", "quit"}
    /\ posted \in 0..MaxNotices /\ pastes \in 0..MaxPastes
    /\ trip.line \in Text /\ trip.burst \in BOOLEAN

Submits == co.act.kind \in {"submit", "many"}

\* §14.1: "a line completed inside a burst is not a submission".  No key of a paste ever
\* submits anything, whatever was typed, held back or under review before it.
PasteNeverSubmits == Submits => co.act.by = "user"

\* "Pasted content held for review.  Nothing in it executes until the user chooses": lines
\* under review are on the screen, so the key that runs them was pressed by somebody who
\* could see them.
ReviewIsShown ==
    co.staging # <<>> => co.surface = "repl" /\ co.shown.staging = co.staging

\* One painter: whatever handler ran last, the screen shows the state it left.
ScreenIsCurrent ==
    ~co.over =>
        IF co.surface = "repl"
          THEN co.shown = [text |-> co.text, menu |-> co.menu, staging |-> co.staging]
          ELSE co.shown = [box |-> co.box, help |-> co.help]

\* Notices are printed once each and in the order they were posted, across any number of
\* trips to the alternate screen; none is left waiting when the program ends.
NoticesInOrder ==
    /\ co.printed \o co.pending \o mailbox = [n \in 1..posted |-> n]
    /\ co.surface = "repl" => co.pending = <<>>

\* While the alternate screen is up nothing is printed.
NoPrintOverTui ==
    [][co.surface = "alternate" /\ co'.surface = "alternate" => co'.printed = co.printed]_vars

Leaves == co.surface = "alternate" /\ co'.surface = "repl"

\* Leaving the TUI never executes its command box: the step that takes it down submits nothing,
\* and the draft is what the box held.  The line it replaces is the one the box began with,
\* however long the trip was and whatever was pressed, pasted and posted in it - unless a burst
\* held back before the trip was released into the line behind the TUI.
TuiDraftIsCarried ==
    [][Leaves => /\ co'.act.kind # "submit" /\ co'.text = co.box
                 /\ co.text = trip.line \/ trip.burst]_vars

\* A trip loses nothing that was typed, bursts and all.  Not so: `tick' releases one behind the
\* TUI, and the command box comes down over it.
TripLosesNothing == [][Leaves => co.text = trip.line]_vars

\* A trip to the alternate screen and back runs nothing, and loses nothing but such a burst.
TripIsTransparent == []NoticesInOrder /\ NoPrintOverTui /\ TuiDraftIsCarried

\* "Typing invalidates the menu: the candidates were computed for older text": an open
\* dropdown was computed for the text that is in the buffer.
MenuMatchesText == co.menu.open => co.menu.for = co.text

\* A burst does not sit in limbo: what it held comes to review or into the buffer.
BurstIsReleased == co.held # <<>> ~> co.held = <<>> \/ co.over
=============================================================================
