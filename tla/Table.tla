-------------------------------- MODULE Table --------------------------------
(***************************************************************************)
(* The table a reply is shown in, which grows while it is drawn again:     *)
(* pr-render/src/table.rs, and `truncate' of pr-render/src/width.rs.       *)
(*                                                                         *)
(* A line of text is the sequence of its characters' columns, one or two;  *)
(* a cell is a sequence of lines.  Borders, alignment, styles and the way  *)
(* the cursor reaches a border are left out: they are as wide as Overhead  *)
(* says.                                                                   *)
(***************************************************************************)
EXTENDS Integers, Sequences, SequencesExt

CONSTANTS
    Titles,         \* the columns' titles: lines
    Missing,        \* what is shown for a cell a row does not have: a line
    Cells,          \* what rows are made of
    Totals,         \* widths of the terminal
    MinContent,     \* MIN_CONTENT
    SampleRows,     \* SAMPLE_ROWS
    MaxRows,        \* bound: rows
    MaxRenders      \* bound: renderings

\* What tables are made of: characters take columns.
Inputs ==
    /\ Titles \in Seq(Seq(Nat)) /\ Missing \in Seq(Nat) /\ Cells \subseteq Seq(Seq(Nat))
    /\ Totals \subseteq Nat /\ MinContent \in Nat

VARIABLES
    rows,
    frozen,         \* the widths of the first rendering in columns, or <<>>
    shown           \* the renderings so far

vars == <<rows, frozen, shown>>

N == Len(Titles)

\* The columns a line takes.
Width(line) ==
    LET sum[i \in 0..Len(line)] == IF i = 0 THEN 0 ELSE sum[i - 1] + line[i]
    IN  sum[Len(line)]

\* truncate: the longest beginning that fits.
Truncate(line, w) ==
    LET fits == {n \in 0..Len(line) : Width(SubSeq(line, 1, n)) <= w}
    IN  SubSeq(line, 1, Max(fits))

Widest(cell) == Max({0} \cup {Width(cell[i]) : i \in DOMAIN cell})

\* sample_widths: the titles and the first rows.
SampleWidths ==
    [c \in 1..N |->
        Max({Width(Titles[c])} \cup {Widest(rows[r][c]) : r \in {r \in DOMAIN rows : r <= SampleRows}})]

\* The borders and the padding of a line.
Overhead == (N + 1) + 2 * N

LeftOver(a, b) == IF a < b THEN 0 ELSE a - b

\* fit: the widths that go into `total' columns, or <<>>; the excess is taken from the left.
Fit(natural, total) ==
    LET content == total - Overhead
        can(c) == LeftOver(natural[c], MinContent)
        excess == LeftOver(Width(natural), content)
        \* What is still to be taken when column c is reached.
        left(c) == LeftOver(excess, Width([i \in 1..(c - 1) |-> can(i)]))
        take(c) == IF can(c) < left(c) THEN can(c) ELSE left(c)
    IN  IF content < N * MinContent THEN <<>>
        ELSE [c \in 1..N |-> natural[c] - take(c)]

-----------------------------------------------------------------------------

Init == rows = <<>> /\ frozen = <<>> /\ shown = <<>>

\* push: what a row lacks is filled in, what it has too much goes.
Push(row) ==
    /\ Len(rows) < MaxRows
    /\ rows' = Append(rows, [c \in 1..N |-> IF c <= Len(row) THEN row[c] ELSE <<Missing>>])
    /\ UNCHANGED <<frozen, shown>>

\* Bug: each rendering chooses its widths.
FreezeNever(widths) == frozen' = frozen

\* The first widths that fit are kept.
Freeze(widths) == frozen' = IF frozen = <<>> THEN widths ELSE frozen

\* The texts of a rendering: each title and each line of each cell, cut to its column.
Texts(widths) ==
    [head |-> [c \in 1..N |-> Truncate(Titles[c], widths[c])],
     body |-> [r \in DOMAIN rows |-> [c \in 1..N |->
                  [i \in DOMAIN rows[r][c] |-> Truncate(rows[r][c][i], widths[c])]]]]

\* Whether a text lost something.
Shortened(texts) ==
    \/ \E c \in 1..N : Width(texts.head[c]) < Width(Titles[c])
    \/ \E r \in DOMAIN rows, c \in 1..N : \E i \in DOMAIN rows[r][c] :
           Width(texts.body[r][c][i]) < Width(rows[r][c][i])

\* The block of a row: the lines of each column, the first of them after the column's title.
Block(row) ==
    [c \in 1..N |-> [i \in DOMAIN row[c] |-> <<IF i = 1 THEN Titles[c] ELSE <<>>, row[c][i]>>]]

\* render_stacked: a block per row, no line cut; it is never said to be truncated.
Stacked(total) ==
    [total |-> total, layout |-> "stacked",
     widths |-> <<Max({Width(Titles[c]) : c \in 1..N})>>,
     texts |-> [head |-> <<>>, body |-> [r \in DOMAIN rows |-> Block(rows[r])]],
     truncated |-> FALSE]

\* render.
Render(total) ==
    LET natural == IF frozen = <<>> THEN SampleWidths ELSE frozen
        widths == Fit(natural, total)
        texts == Texts(widths)
    IN  /\ Len(shown) < MaxRenders
        /\ IF widths = <<>>
           THEN frozen' = frozen /\ shown' = Append(shown, Stacked(total))
           ELSE /\ Freeze(widths)
                /\ shown' = Append(shown, [total |-> total, layout |-> "columns", widths |-> widths,
                                           texts |-> texts, truncated |-> Shortened(texts)])
        /\ rows' = rows

Next ==
    \/ \E n \in 1..(N + 1) : \E row \in [1..n -> Cells] : Push(row)
    \/ \E total \in Totals : Render(total)

Spec == Init /\ [][Next]_vars

-----------------------------------------------------------------------------

\* The rendering s shows each column of each row, under its title, with all its text.
InFull(s) ==
    IF s.layout = "columns"
    THEN s.texts.head = Titles /\ s.texts.body = SubSeq(rows, 1, Len(s.texts.body))
    ELSE \A r \in DOMAIN s.texts.body, c \in 1..N :
             LET lines == s.texts.body[r][c]
             IN  /\ lines # <<>> /\ lines[1][1] = Titles[c]
                 /\ [i \in DOMAIN lines |-> lines[i][2]] = rows[r][c]

\* The rendering s stacks a cell of no lines.
StacksNoLines(s) ==
    /\ s.layout = "stacked"
    /\ \E r \in DOMAIN s.texts.body, c \in 1..N : rows[r][c] = <<>>

\* "later rows in a stream wrap instead of rewriting rows already printed" and "nothing hidden
\* without saying so": drawn again on a terminal of the same width, a table that grew begins with
\* what was printed before, whatever was drawn in between; no line of columns is wider than the
\* terminal; and a rendering says it is truncated just when some column, title or text is not all
\* there - except that one in blocks never says so, and leaves out a cell of no lines with its
\* title.
TableIsStable ==
    \A i \in DOMAIN shown :
        LET s == shown[i]
            total == Width(s.widths) + 3 * N + 1
        IN  /\ s.layout = "columns" => total <= s.total
            /\ s.truncated => ~InFull(s)
            /\ ~InFull(s) => s.truncated \/ StacksNoLines(s)
            /\ \A j \in DOMAIN shown :
                 shown[j].total = s.total =>
                    /\ shown[j].layout = s.layout /\ shown[j].widths = s.widths
                    /\ i < j => IsPrefix(s.texts.body, shown[j].texts.body)

\* "Nothing is hidden: every column still appears, labelled", of blocks too.  Not so: a cell of no
\* lines goes with its title, and the rendering says nothing of it.
NothingIsHidden == \A i \in DOMAIN shown : ~InFull(shown[i]) => shown[i].truncated
=============================================================================
