------------------------------- MODULE History -------------------------------
(***************************************************************************)
(* The command history that several processes share: pr-repl/src/          *)
(* history.rs over one SQLite file (not in the repository), where each     *)
(* statement is atomic and a call of two statements is not.                *)
(*                                                                         *)
(* An argument is a word.  `quote' and the tokenizer are each other's      *)
(* inverse (module Quoting), so a word stored readably is the word; the    *)
(* hash of a word stands for no other word.                                *)
(***************************************************************************)
EXTENDS Integers, Sequences, SequencesExt

CONSTANTS
    Users,          \* processes
    Places,         \* scopes: profile, identity epoch and database
    ProfileOf,      \* the profile of a scope
    Lines,          \* commands: sequences of words
    Upper,          \* the upper case of a word
    Keywords,        \* the upper case words is_keyword takes for syntax
    Secret,         \* the names is_secret_bearing knows
    Levels,         \* RedactionLevel, a subset of the three
    KeepMax,        \* how many entries a process keeps
    MaxRecords,     \* bound: commands recorded
    MaxDay          \* bound: time

VARIABLES
    rows,           \* the table: entries by increasing id
    pruning,        \* whether a process is between the two statements of `prune'
    recalled,       \* per process: the scope it asked about, and what it was given
    records,        \* commands recorded; the next id
    day             \* the time

vars == <<rows, pruning, recalled, records, day>>

Redacted == "[redacted]"
Hashed(w) == <<"hashed", w>>

\* redact: the name is kept, a keyword is kept in upper case, the rest as the level says.
Redact(argv, level) ==
    LET name == Upper[argv[1]]
        effective == IF name \in Secret THEN "AllArguments" ELSE level
        part(w) == CASE Upper[w] \in Keywords -> Upper[w]
                     [] Upper[w] \notin Keywords /\ effective = "None" -> w
                     [] Upper[w] \notin Keywords /\ effective = "HashNames" -> Hashed(w)
                     [] OTHER -> Redacted
    IN  <<name>> \o [i \in 1..(Len(argv) - 1) |-> part(argv[i + 1])]

\* Bug: a hash is not a placeholder.
HasPlaceholderRedacted(parts) == Redacted \in Range(parts)

HasPlaceholder(parts) == \E i \in DOMAIN parts : parts[i] = Redacted \/ parts[i] \notin DOMAIN Upper

IsSubmittable(entry) == ~HasPlaceholder(entry.parts)

\* WHERE: the rows at some positions, in their order.
Selected(at) ==
    LET f[i \in 0..Len(rows)] ==
          IF i = 0 THEN <<>> ELSE IF i \in at THEN Append(f[i - 1], rows[i]) ELSE f[i - 1]
    IN  f[Len(rows)]

-----------------------------------------------------------------------------

Nothing == [place |-> "none", entries |-> <<>>]

Init ==
    /\ rows = <<>>
    /\ pruning = [u \in Users |-> FALSE]
    /\ recalled = [u \in Users |-> Nothing]
    /\ records = 0
    /\ day = 0

\* Entries with what was typed, which the table does not hold.
Record(place, argv, level) ==
    /\ records < MaxRecords
    /\ records' = records + 1
    /\ rows' = Append(rows, [id |-> records', place |-> place, parts |-> Redact(argv, level),
                             at |-> day, typed |-> argv])
    /\ UNCHANGED <<pruning, recalled, day>>

\* recent: the scope's own, newest first.
Recent(u, place, limit) ==
    LET own == Reverse(Selected({i \in DOMAIN rows : rows[i].place = place}))
    IN  /\ recalled' = [recalled EXCEPT ![u] =
                          [place |-> place,
                           entries |-> SubSeq(own, 1, IF limit < Len(own) THEN limit ELSE Len(own))]]
        /\ UNCHANGED <<rows, pruning, records, day>>

\* search: recent ones whose text has the needle; a word no level hides can be found.
Search(u, place, word) ==
    /\ recalled' = [recalled EXCEPT ![u] =
                      [place |-> place,
                       entries |-> Reverse(Selected({i \in DOMAIN rows :
                           LET parts == rows[i].parts
                           IN  /\ rows[i].place = place
                               /\ \E j \in DOMAIN parts :
                                    parts[j] \in DOMAIN Upper /\ Upper[parts[j]] = Upper[word]}))]]
    /\ UNCHANGED <<rows, pruning, records, day>>

\* clear: the profile's, or everything.
Clear(profiles) ==
    /\ rows' = Selected({i \in DOMAIN rows : ProfileOf[rows[i].place] \notin profiles})
    /\ UNCHANGED <<pruning, recalled, records, day>>

\* prune: what is too old goes, ...
PruneByAge(u) ==
    /\ ~pruning[u]
    /\ pruning' = [pruning EXCEPT ![u] = TRUE]
    /\ rows' = Selected({i \in DOMAIN rows : rows[i].at >= day})
    /\ UNCHANGED <<recalled, records, day>>

\* ... then all but the newest, whoever recorded meanwhile.
PruneByCount(u) ==
    /\ pruning[u]
    /\ pruning' = [pruning EXCEPT ![u] = FALSE]
    /\ rows' = SubSeq(rows, IF Len(rows) > KeepMax THEN Len(rows) - KeepMax + 1 ELSE 1, Len(rows))
    /\ UNCHANGED <<recalled, records, day>>

TimePasses == day < MaxDay /\ day' = day + 1 /\ UNCHANGED <<rows, pruning, recalled, records>>

Next ==
    \/ \E place \in Places, argv \in Lines, level \in Levels : Record(place, argv, level)
    \/ \E u \in Users, place \in Places :
           \/ \E limit \in 1..MaxRecords : Recent(u, place, limit)
           \/ \E word \in DOMAIN Upper : Search(u, place, word)
    \/ \E profiles \in {{ProfileOf[p]} : p \in Places} \cup {Range(ProfileOf)} : Clear(profiles)
    \/ \E u \in Users : PruneByAge(u) \/ PruneByCount(u)
    \/ TimePasses

Spec == Init /\ [][Next]_vars

-----------------------------------------------------------------------------

\* "recalling it must never send [redacted:...] to a server" and "a prod entry can never surface
\* while you are pointed at dev": what is recalled was recorded in the scope asked about, newest
\* first; and an entry offered as one that "may be submitted unchanged" is the very command that
\* was typed, whatever level it was kept at.
RecalledIsTyped ==
    \A u \in Users :
        LET entries == recalled[u].entries
        IN  /\ \A i, j \in DOMAIN entries : i < j => entries[i].id > entries[j].id
            /\ \A i \in DOMAIN entries :
                 /\ entries[i].place = recalled[u].place
                 /\ IsSubmittable(entries[i]) =>
                      /\ entries[i].parts[1] = Upper[entries[i].typed[1]]
                      /\ Tail(entries[i].parts) = Tail(entries[i].typed)
=============================================================================
