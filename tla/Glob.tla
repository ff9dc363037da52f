-------------------------------- MODULE Glob --------------------------------
(***************************************************************************)
(* Whether a key matches a pattern a policy lists: `glob_bytes' and        *)
(* `class' of pr-mcp/src/policy.rs, one step for each turn of the loop,    *)
(* beside what the pattern means to the server.  Characters are strings of *)
(* one letter.                                                             *)
(***************************************************************************)
EXTENDS Integers, Sequences

CONSTANTS
    Patterns,       \* patterns a policy lists
    Keys            \* keys they are compared with

VARIABLES
    pattern, key,
    pi, ki,         \* positions in both
    star, starK,    \* the last star, and the position in the key it was tried from
    verdict         \* "open", or the answer: "yes", "no"

vars == <<pattern, key, pi, ki, star, starK, verdict>>

\* usize::MAX: no star so far.
None == 0

Init ==
    /\ pattern \in Patterns
    /\ key \in Keys
    /\ pi = 1 /\ ki = 1 /\ star = None /\ starK = None
    /\ verdict = "open"

-----------------------------------------------------------------------------
(* A class. *)

\* Order of the characters, as bytes.
Byte(c) ==
    CHOOSE i \in 1..9 : <<"*", "-", "?", "[", "\\", "]", "^", "a", "b">>[i] = c

Unterminated == [next |-> 0, hit |-> FALSE]

\* A member that begins at position i: an escaped character, a range or a character.
IsEscape(p, i) == p[i] = "\\" /\ i < Len(p)
IsRange(p, i) == i + 2 <= Len(p) /\ p[i + 1] = "-" /\ p[i + 2] # "]"

MemberLength(p, i) == IF IsEscape(p, i) THEN 2 ELSE IF IsRange(p, i) THEN 3 ELSE 1

MemberIs(p, i, c) ==
    IF IsEscape(p, i) THEN p[i + 1] = c
    ELSE IF IsRange(p, i) THEN Byte(c) \in Byte(p[i])..Byte(p[i + 2])
    ELSE p[i] = c

\* Where the members of the class that opens at `at' begin.
Negates(p, at) == at < Len(p) /\ p[at + 1] = "^"
Start(p, at) == IF Negates(p, at) THEN at + 2 ELSE at + 1

\* A class is read member by member: where it is closed, or 0, and where its members begin.
\* closes[i]: a `]' at i closes it; length[i]: what a member that begins at i takes up.
Read(p, start, closes, length) ==
    LET from[i \in 1..(Len(p) + 3)] ==
          IF i > Len(p) THEN [end |-> 0, members |-> {}]
          ELSE IF closes[i] THEN [end |-> i, members |-> {}]
          ELSE [end |-> from[i + length[i]].end,
                members |-> {i} \cup from[i + length[i]].members]
    IN  from[start]

\* The code's reading: a `]' closes the class unless it comes first.
Closes(p, start) == [i \in 1..Len(p) |-> p[i] = "]" /\ i # start]
Lengths(p) == [i \in 1..Len(p) |-> MemberLength(p, i)]
Members(p, start) == Read(p, start, Closes(p, start), Lengths(p))

\* class: the position after the class that opens at `at', and whether c is in it.
Class(p, at, c) ==
    LET m == Members(p, Start(p, at))
    IN  IF m.end = 0 THEN Unterminated
        ELSE [next |-> m.end + 1,
              hit |-> (\E i \in m.members : MemberIs(p, i, c)) # Negates(p, at)]

-----------------------------------------------------------------------------
(* A class as the server reads it (stringmatchlen of Redis). *)

\* The upper end of a range may be a `]', and its ends may be the wrong way round.
IsServerRange(p, i) == i + 2 <= Len(p) /\ p[i + 1] = "-"

ServerMemberLength(p, i) == IF IsEscape(p, i) THEN 2 ELSE IF IsServerRange(p, i) THEN 3 ELSE 1

Within(c, lo, hi) ==
    IF Byte(lo) <= Byte(hi) THEN Byte(c) \in Byte(lo)..Byte(hi) ELSE Byte(c) \in Byte(hi)..Byte(lo)

ServerMemberIs(p, i, c) ==
    IF IsEscape(p, i) THEN p[i + 1] = c
    ELSE IF IsServerRange(p, i) THEN Within(c, p[i], p[i + 2])
    ELSE p[i] = c

\* Any `]' closes a class, the first one too.
ServerCloses(p) == [i \in 1..Len(p) |-> p[i] = "]"]
ServerLengths(p) == [i \in 1..Len(p) |-> ServerMemberLength(p, i)]
ServerMembers(p, start) == Read(p, start, ServerCloses(p), ServerLengths(p))

\* A class that is not closed takes up the rest of the pattern.
ServerClass(p, at, c) ==
    LET m == ServerMembers(p, Start(p, at))
    IN  [next |-> (IF m.end = 0 THEN Len(p) ELSE m.end) + 1,
         hit |-> (\E i \in m.members : ServerMemberIs(p, i, c)) # Negates(p, at)]

\* A class that both read alike: it is closed, by a `]' that does not come first, no `]' ends a
\* range, and ranges go upwards.
PlainClass(p, start) ==
    LET end == Members(p, start).end
    IN  /\ start <= Len(p) /\ p[start] # "]" /\ end # 0
        /\ \A i \in start..(end - 1) :
             IsServerRange(p, i) => IsRange(p, i) /\ Byte(p[i]) <= Byte(p[i + 2])

PlainClasses(p) == \A at \in 1..Len(p) : p[at] = "[" => PlainClass(p, Start(p, at))

-----------------------------------------------------------------------------
(* The walk. *)

AtEnd == ki > Len(key)
Sees(c) == pi <= Len(pattern) /\ pattern[pi] = c

\* Both go on.
Advance(n) == pi' = pi + n /\ ki' = ki + 1 /\ UNCHANGED <<star, starK, verdict>>

\* Bug: a mismatch goes back to where the star was first tried.
RetryFromStart ==
    IF star = None THEN verdict' = "no" /\ UNCHANGED <<pi, ki, star, starK>>
    ELSE /\ starK' = starK + 1 /\ ki' = ki + 1 /\ pi' = star + 1
         /\ UNCHANGED <<star, verdict>>

\* A mismatch: the last star takes one more character, if there is one.
Retry ==
    IF star = None THEN verdict' = "no" /\ UNCHANGED <<pi, ki, star, starK>>
    ELSE /\ starK' = starK + 1 /\ ki' = starK + 1 /\ pi' = star + 1
         /\ UNCHANGED <<star, verdict>>

\* A star takes nothing at first.
Star ==
    /\ Sees("*")
    /\ star' = pi /\ starK' = ki /\ pi' = pi + 1
    /\ UNCHANGED <<ki, verdict>>

AnyOne == Sees("?") /\ Advance(1)

OneOf ==
    /\ Sees("[")
    /\ LET m == Class(pattern, pi, key[ki])
       IN  IF m # Unterminated /\ m.hit
           THEN pi' = m.next /\ ki' = ki + 1 /\ UNCHANGED <<star, starK, verdict>>
           ELSE Retry

Escaped == Sees("\\") /\ pi < Len(pattern) /\ pattern[pi + 1] = key[ki]

\* An escape whose character is not the key's falls through to the character itself.
Other ==
    /\ ~Sees("*") /\ ~Sees("?") /\ ~Sees("[")
    /\ IF Escaped THEN Advance(2)
       ELSE IF Sees(key[ki]) THEN Advance(1)
       ELSE Retry

\* The key is used up: only stars may be left.
Finish ==
    /\ verdict' = IF \A i \in pi..Len(pattern) : pattern[i] = "*" THEN "yes" ELSE "no"
    /\ UNCHANGED <<pi, ki, star, starK>>

Next ==
    /\ verdict = "open"
    /\ IF AtEnd THEN Finish ELSE Star \/ AnyOne \/ OneOf \/ Other
    /\ UNCHANGED <<pattern, key>>

Spec == Init /\ [][Next]_vars /\ WF_vars(Next)

-----------------------------------------------------------------------------
(* Properties. *)

\* What a pattern means to the server: a star is any run of characters, a backslash takes the
\* next character as it is, and a class is what the server reads.  Ways[i] holds the positions
\* from which the key is matched by the pattern from i on.
OneMeans(p, k, ways, i, j) ==
    LET m == ServerClass(p, i, k[j])
    IN  CASE p[i] = "?" -> j + 1 \in ways[i + 1]
          [] p[i] = "[" -> m.hit /\ j + 1 \in ways[m.next]
          [] p[i] = "\\" /\ i < Len(p) -> p[i + 1] = k[j] /\ j + 1 \in ways[i + 2]
          [] OTHER -> p[i] = k[j] /\ j + 1 \in ways[i + 1]

Means(p, k) ==
    LET Ways[i \in 1..(Len(p) + 1)] ==
          IF i > Len(p) THEN {Len(k) + 1}
          ELSE IF p[i] = "*" THEN {j \in 1..(Len(k) + 1) : \E n \in j..(Len(k) + 1) : n \in Ways[i + 1]}
          ELSE {j \in 1..Len(k) : OneMeans(p, k, Ways, i, j)}
    IN  1 \in Ways[1]

\* "A pattern in a profile means what the same pattern would mean to the server": the walk,
\* which remembers one star only, answers as the server would, for every pattern and key.
GlobIsExact == verdict # "open" => (verdict = "yes") = Means(pattern, key)

\* Every pattern is decided.
GlobDecides == <>(verdict # "open")
=============================================================================
