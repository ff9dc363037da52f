----------------------------- MODULE LineProofs -----------------------------
(***************************************************************************)
(* The line, for any offers and any length of what is typed: what is shown *)
(* of it is what is sent, and an offer accepted is one argument among the  *)
(* others.                                                                 *)
(*                                                                         *)
(* Both readers are the recursive functions Token and Tokens over the      *)
(* turns of a loop.  They exist, as a turn only goes on to a later         *)
(* position; two lines that agree from a position on are read alike from   *)
(* there, and a quoted argument is read back as it was.                    *)
(***************************************************************************)
EXTENDS Lookups, FiniteSetTheorems, WellFoundedInduction, TLAPS

LEMMA Least ==
    ASSUME NEW T, T \subseteq Nat, T # {}
    PROVE  \E n \in T : \A m \in T : n <= m
<1> DEFINE Less == OpToRel(<, Nat)
<1>1. IsWellFoundedOn(Less, Nat)
  BY NatLessThanWellFounded
<1>2. \E x \in T : \A y \in T : ~ (<<y, x>> \in Less)
  <2> HIDE DEF Less
  <2> QED
    BY <1>1, WFMin, Zenon
<1>3. \A x, y \in Nat : <<y, x>> \in Less <=> y < x
  BY DEF OpToRel
<1> HIDE DEF Less
<1>4. PICK x \in T : \A y \in T : ~ (<<y, x>> \in Less)
  BY <1>2
<1>5. \A y \in T : ~ (y < x)
  BY <1>3, <1>4
<1> QED
  BY <1>4, <1>5

-----------------------------------------------------------------------------
(* The line: induction from its end. *)

LEMMA Downward ==
    ASSUME NEW N \in Nat, NEW S,
           \A i \in 1..N : (\A j \in (i + 1)..N : j \in S) => i \in S
    PROVE  \A i \in 1..N : i \in S
<1> DEFINE T == {d \in 0..(N - 1) : N - d \notin S}
<1>1. ASSUME T # {} PROVE FALSE
  <2>1. PICK d \in T : \A e \in T : d <= e
    <3>1. T \subseteq Nat
      OBVIOUS
    <3> HIDE DEF T
    <3> QED
      BY <1>1, <3>1, Least
  <2>2. N - d \in 1..N
    BY <2>1
  <2>3. ASSUME NEW j \in (N - d + 1)..N PROVE j \in S
    <3>1. N - j \in 0..(N - 1) /\ N - j < d /\ N - (N - j) = j
      BY <2>1
    <3>2. N - j \notin T
      BY <2>1, <3>1
    <3> QED
      BY <3>1, <3>2
  <2>4. N - d \in S
    BY <2>2, <2>3
  <2> QED
    BY <2>1, <2>4
<1> SUFFICES ASSUME NEW i \in 1..N PROVE i \in S
  OBVIOUS
<1>2. N - i \in 0..(N - 1) /\ N - (N - i) = i
  BY SMTT(30)
<1> QED
  BY <1>1, <1>2

-----------------------------------------------------------------------------
(* The line: reading a token. *)

GoodTurn(t, i, N) ==
    /\ t.next \in i..N
    /\ t.mode \in Q!Modes
    /\ t.is = "on" => t.next >= i + 1
    /\ t.bytes \in Seq(Q!Chars)

\* Turns go forward and stay within the line.
Turns(T, N) ==
    /\ N \in Nat \ {0} /\ DOMAIN T = 1..N
    /\ \A i \in 1..N : \A m \in Q!Modes : GoodTurn(T[i][m], i, N)

TokenAt(g, T, i) ==
    [m \in Q!Modes |->
       LET turn == T[i][m]
           more == g[turn.next][turn.mode]
       IN  IF turn.is = "on"
           THEN [is |-> more.is, bytes |-> turn.bytes \o more.bytes, to |-> more.to]
           ELSE [is |-> turn.is, bytes |-> <<>>, to |-> turn.next - 1]]

IsToken(g, T, N) == g = [i \in 1..N |-> TokenAt(g, T, i)]

LEMMA TokenLocal ==
    ASSUME NEW T, NEW N, Turns(T, N), NEW g, NEW h, NEW i \in 1..N,
           \A n \in (i + 1)..N : h[n] = g[n]
    PROVE  TokenAt(h, T, i) = TokenAt(g, T, i)
<1>1. ASSUME NEW m \in Q!Modes, T[i][m].is = "on"
      PROVE  h[T[i][m].next] = g[T[i][m].next]
  BY <1>1 DEF Turns, GoodTurn
<1> QED
  BY <1>1 DEF TokenAt

LEMMA TokenExists ==
    ASSUME NEW T, NEW N, Turns(T, N)
    PROVE  \E g : IsToken(g, T, N)
<1> DEFINE Is(g, m) == g = [i \in m..N |-> TokenAt(g, T, i)]
           S == {m \in 1..N : \E g : Is(g, m)}
<1>0. N \in Nat /\ N >= 1
  BY DEF Turns
<1>1. ASSUME NEW m \in 1..N, \A j \in (m + 1)..N : j \in S
      PROVE  m \in S
  <2>1. PICK g : \A i \in (m + 1)..N : g[i] = TokenAt(g, T, i)
    <3>1. CASE m = N
      BY <1>0, <3>1
    <3>2. CASE m # N
      <4>1. m + 1 \in (m + 1)..N
        BY <1>0, <3>2
      <4>2. PICK g : Is(g, m + 1)
        BY <1>1, <4>1
      <4>3. \A i \in (m + 1)..N : g[i] = TokenAt(g, T, i)
        BY <4>2, Zenon
      <4> QED
        BY <4>3
    <3> QED
      BY <3>1, <3>2
  <2> DEFINE h == [i \in m..N |-> IF i >= m + 1 THEN g[i] ELSE TokenAt(g, T, m)]
  <2>2. \A i \in (m + 1)..N : h[i] = g[i]
    BY <1>0
  <2>3. h[m] = TokenAt(g, T, m) /\ h = [i \in m..N |-> h[i]]
    BY <1>0
  <2> HIDE DEF h
  <2>4. ASSUME NEW i \in m..N PROVE TokenAt(h, T, i) = TokenAt(g, T, i)
    <3>1. i \in 1..N /\ \A n \in (i + 1)..N : h[n] = g[n]
      BY <1>0, <2>2
    <3> QED
      BY <3>1, TokenLocal
  <2>5. \A i \in m..N : h[i] = TokenAt(h, T, i)
    <3> TAKE i \in m..N
    <3>1. i = m \/ i \in (m + 1)..N
      BY <1>0
    <3> QED
      BY <2>1, <2>2, <2>3, <2>4, <3>1
  <2>6. Is(h, m)
    BY <2>3, <2>5, Zenon
  <2> QED
    BY <2>6
<1>2. 1 \in S
  <2> HIDE DEF S
  <2>1. \A i \in 1..N : i \in S
    BY <1>0, <1>1, Downward
  <2> QED
    BY <1>0, <2>1
<1> QED
  BY <1>2 DEF IsToken

LEMMA TokenIs ==
    ASSUME NEW T, NEW N, Turns(T, N)
    PROVE  \A i \in 1..N : Q!Token(T)[i] = TokenAt(Q!Token(T), T, i)
<1> DEFINE w == CHOOSE g : IsToken(g, T, N)
<1>1. IsToken(w, T, N)
  BY TokenExists
<1>2. Q!Token(T) = w
  BY DEF Q!Token, TokenAt, Turns, IsToken
<1> HIDE DEF w
<1>3. \A i \in 1..N : w[i] = TokenAt(w, T, i)
  BY <1>1, Zenon DEF IsToken
<1> QED
  BY <1>2, <1>3

Join(a, b) == a \o b

\* What a token is, by its first turn.
LEMMA TokenOn ==
    ASSUME NEW T, NEW N, Turns(T, N), NEW i \in 1..N, NEW m \in Q!Modes,
           NEW t, t = T[i][m], t.is = "on",
           NEW w, w = Q!Token(T)[i][m],
           NEW more, more = Q!Token(T)[t.next][t.mode]
    PROVE  /\ w = [is |-> more.is, bytes |-> Join(t.bytes, more.bytes), to |-> more.to]
           /\ w.is = more.is /\ w.bytes = Join(t.bytes, more.bytes) /\ w.to = more.to
<1>1. Q!Token(T)[i] = TokenAt(Q!Token(T), T, i)
  BY SMTT(30), TokenIs
<1>2. w = [is |-> more.is, bytes |-> Join(t.bytes, more.bytes), to |-> more.to]
  BY <1>1 DEF TokenAt, Join
<1>3. w.is = more.is /\ w.bytes = Join(t.bytes, more.bytes) /\ w.to = more.to
  BY ONLY <1>2
<1> QED
  BY <1>2, <1>3

LEMMA TokenStops ==
    ASSUME NEW T, NEW N, Turns(T, N), NEW i \in 1..N, NEW m \in Q!Modes,
           NEW t, t = T[i][m], t.is # "on",
           NEW w, w = Q!Token(T)[i][m]
    PROVE  /\ w = [is |-> t.is, bytes |-> <<>>, to |-> t.next - 1]
           /\ w.is = t.is /\ w.bytes = <<>> /\ w.to = t.next - 1
<1>1. Q!Token(T)[i] = TokenAt(Q!Token(T), T, i)
  BY SMTT(30), TokenIs
<1>2. w = [is |-> t.is, bytes |-> <<>>, to |-> t.next - 1]
  BY <1>1 DEF TokenAt
<1> QED
  BY <1>2

LEMMA TokenBounds ==
    ASSUME NEW T, NEW N, Turns(T, N)
    PROVE  \A i \in 1..N : \A m \in Q!Modes :
             /\ Q!Token(T)[i][m].to \in (i - 1)..(N - 1)
             /\ Q!Token(T)[i][m].bytes \in Seq(Q!Chars)
             /\ T[i][m].is = "on" => Q!Token(T)[i][m].to >= i
<1> DEFINE Good(w, t, i) == /\ w.to \in (i - 1)..(N - 1)
                            /\ w.bytes \in Seq(Q!Chars)
                            /\ t.is = "on" => w.to >= i
           S == {i \in 1..N : \A m \in Q!Modes : Good(Q!Token(T)[i][m], T[i][m], i)}
<1>0. N \in Nat
  BY DEF Turns
<1>1. ASSUME NEW i \in 1..N, \A j \in (i + 1)..N : j \in S,
             NEW m \in Q!Modes,
             NEW t, t = T[i][m], NEW w, w = Q!Token(T)[i][m],
             NEW more, more = Q!Token(T)[t.next][t.mode]
      PROVE  Good(w, t, i)
  <2>1. GoodTurn(t, i, N)
    BY <1>1 DEF Turns
  <2>2. CASE t.is = "on"
    <3>1. t.next \in (i + 1)..N /\ t.mode \in Q!Modes
      BY <2>1, <2>2, <1>0 DEF GoodTurn
    <3>2. Good(more, T[t.next][t.mode], t.next)
      BY <1>1, <3>1
    <3>3. w.bytes = Join(t.bytes, more.bytes) /\ w.to = more.to
      BY <1>1, <2>2, TokenOn
    <3>4. more.to \in (t.next - 1)..(N - 1) /\ more.bytes \in Seq(Q!Chars)
      BY <3>2
    <3>5. t.bytes \in Seq(Q!Chars)
      BY <2>1 DEF GoodTurn
    <3>6. w.bytes \in Seq(Q!Chars)
      BY <3>3, <3>4, <3>5 DEF Join
    <3>7. w.to \in (i - 1)..(N - 1) /\ w.to >= i
      BY <1>0, <3>1, <3>3, <3>4
    <3> QED
      BY <3>6, <3>7
  <2>3. CASE t.is # "on"
    <3>1. w.to = t.next - 1 /\ w.bytes = <<>>
      BY <1>1, <2>3, TokenStops
    <3>2. t.next - 1 \in (i - 1)..(N - 1)
      BY <2>1, <1>0 DEF GoodTurn
    <3> QED
      BY <2>3, <3>1, <3>2
  <2> QED
    BY <2>2, <2>3
<1>2. ASSUME NEW i \in 1..N, \A j \in (i + 1)..N : j \in S PROVE i \in S
  <2> HIDE DEF Good
  <2> QED
    BY <1>1, <1>2
<1>3. \A i \in 1..N : i \in S
  <2> HIDE DEF S
  <2> QED
    BY <1>0, <1>2, Downward
<1> QED
  BY <1>3

-----------------------------------------------------------------------------
(* The line: reading its tokens. *)

\* Turns over the line l: what begins a token goes on, and a token ends before a space or the end.
Reading(l, n, T) ==
    /\ l \in Seq(Q!Chars) /\ n = Len(l)
    /\ Turns(T, n + 1)
    /\ \A i \in 1..n : l[i] # "space" => T[i]["none"].is = "on"
    /\ \A i \in 1..(n + 1) : \A m \in Q!Modes :
         T[i][m].is \in {"ok", "open"} => Q!At(l, T[i][m].next) \in Q!Ends

ArgOf(t, i) == [bytes |-> t.bytes, from |-> i - 1, to |-> t.to, open |-> t.is = "open"]

ArgsAt(g, l, T, i) ==
    LET t == Q!Token(T)[i]["none"]
        more == g[IF Q!At(l, i) = "space" THEN i + 1 ELSE t.to + 1]
    IN  IF Q!At(l, i) = "end" THEN [is |-> "ok", args |-> <<>>]
        ELSE IF l[i] = "space" THEN more
        ELSE IF t.is \notin {"ok", "open"} THEN [is |-> t.is, args |-> <<>>]
        ELSE IF more.is # "ok" THEN more
        ELSE [is |-> "ok",
              args |-> <<[bytes |-> t.bytes, from |-> i - 1, to |-> t.to,
                          open |-> t.is = "open"]>> \o more.args]

AreArgs(g, l, T, N) == g = [i \in 1..N |-> ArgsAt(g, l, T, i)]

LEMMA Characters ==
    ASSUME NEW l \in Seq(Q!Chars)
    PROVE  /\ Len(l) \in Nat
           /\ \A i \in 1..Len(l) : l[i] \in Q!Chars /\ l[i] # "end" /\ Q!At(l, i) = l[i]
           /\ \A i \in Nat : i > Len(l) => Q!At(l, i) = "end"
<1>1. "end" \notin Q!Chars
  BY DEF Q!Chars, Q!Typed
<1> QED
  BY <1>1 DEF Q!At

LEMMA ReadingLine ==
    ASSUME NEW l, NEW n, NEW T, Reading(l, n, T)
    PROVE  n \in Nat /\ n + 1 \in Nat \ {0} /\ Turns(T, n + 1) /\ Q!At(l, n + 1) = "end"
<1>1. n \in Nat
  BY Characters DEF Reading
<1>2. n + 1 \in Nat /\ n + 1 > n
  BY <1>1
<1> QED
  BY <1>1, <1>2, Characters DEF Reading

LEMMA ReadingChar ==
    ASSUME NEW l, NEW n, NEW T, Reading(l, n, T), NEW i \in 1..n
    PROVE  /\ l[i] \in Q!Chars /\ l[i] # "end" /\ Q!At(l, i) = l[i]
           /\ l[i] # "space" => T[i]["none"].is = "on"
           /\ i \in 1..(n + 1) /\ i + 1 \in 1..(n + 1)
<1>1. n \in Nat
  BY ReadingLine
<1>2. i \in 1..(n + 1) /\ i + 1 \in 1..(n + 1)
  BY <1>1
<1> QED
  BY <1>2, Characters DEF Reading

\* A token goes beyond where it begins.
LEMMA TokenForward ==
    ASSUME NEW l, NEW n, NEW T, Reading(l, n, T), NEW i \in 1..n, l[i] # "space"
    PROVE  Q!Token(T)[i]["none"].to \in i..n
<1>1. Turns(T, n + 1) /\ n \in Nat
  BY ReadingLine
<1>2. T[i]["none"].is = "on" /\ i \in 1..(n + 1)
  BY ReadingChar
<1>3. "none" \in Q!Modes
  BY DEF Q!Modes
<1>4. /\ Q!Token(T)[i]["none"].to \in (i - 1)..(n + 1 - 1)
      /\ Q!Token(T)[i]["none"].to >= i
  BY <1>1, <1>2, <1>3, TokenBounds
<1> QED
  BY <1>1, <1>4

LEMMA ArgsLocal ==
    ASSUME NEW l, NEW n, NEW T, Reading(l, n, T), NEW g, NEW h, NEW i \in 1..(n + 1),
           \A k \in (i + 1)..(n + 1) : h[k] = g[k]
    PROVE  ArgsAt(h, l, T, i) = ArgsAt(g, l, T, i)
<1>0. n \in Nat /\ Q!At(l, n + 1) = "end"
  BY ReadingLine
<1>1. CASE i = n + 1
  <2>1. Q!At(l, i) = "end"
    BY <1>0, <1>1
  <2> QED
    BY <2>1 DEF ArgsAt
<1>2. CASE i \in 1..n /\ l[i] = "space"
  <2>1. i + 1 \in (i + 1)..(n + 1)
    BY <1>0, <1>2
  <2>2. h[i + 1] = g[i + 1]
    BY <2>1
  <2>3. Q!At(l, i) = "space"
    BY SMTT(30), <1>2, ReadingChar
  <2> QED
    BY <1>2, <2>2, <2>3 DEF ArgsAt
<1>3. CASE i \in 1..n /\ l[i] # "space"
  <2> DEFINE to == Q!Token(T)[i]["none"].to
  <2>1. to \in i..n
    BY <1>3, TokenForward
  <2>2. h[to + 1] = g[to + 1]
    <3> HIDE DEF to
    <3>1. to + 1 \in (i + 1)..(n + 1)
      BY <1>0, <2>1
    <3> QED
      BY <3>1
  <2>3. Q!At(l, i) # "space"
    BY <1>3, ReadingChar
  <2> QED
    BY <1>3, <2>2, <2>3 DEF ArgsAt
<1>4. i = n + 1 \/ i \in 1..n
  BY <1>0
<1> QED
  BY <1>1, <1>2, <1>3, <1>4

LEMMA ArgsExist ==
    ASSUME NEW l, NEW n, NEW T, Reading(l, n, T)
    PROVE  \E g : AreArgs(g, l, T, n + 1)
<1> DEFINE N == n + 1
           Is(g, m) == g = [i \in m..N |-> ArgsAt(g, l, T, i)]
           S == {m \in 1..N : \E g : Is(g, m)}
<1>0. N \in Nat /\ N >= 1
  <2>1. n \in Nat
    BY ReadingLine
  <2> QED
    BY <2>1
<1>l. ASSUME NEW g, NEW h, NEW i \in 1..N, \A k \in (i + 1)..N : h[k] = g[k]
      PROVE  ArgsAt(h, l, T, i) = ArgsAt(g, l, T, i)
  BY <1>l, ArgsLocal
<1> HIDE DEF N
<1>1. ASSUME NEW m \in 1..N, \A j \in (m + 1)..N : j \in S
      PROVE  m \in S
  <2>1. PICK g : \A i \in (m + 1)..N : g[i] = ArgsAt(g, l, T, i)
    <3>1. CASE m = N
      BY <1>0, <3>1
    <3>2. CASE m # N
      <4>1. m + 1 \in (m + 1)..N
        BY <1>0, <3>2
      <4>2. PICK g : Is(g, m + 1)
        BY <1>1, <4>1
      <4>3. \A i \in (m + 1)..N : g[i] = ArgsAt(g, l, T, i)
        BY <4>2, Zenon
      <4> QED
        BY <4>3
    <3> QED
      BY <3>1, <3>2
  <2> DEFINE h == [i \in m..N |-> IF i >= m + 1 THEN g[i] ELSE ArgsAt(g, l, T, m)]
  <2>2. \A i \in (m + 1)..N : h[i] = g[i]
    BY <1>0
  <2>3. h[m] = ArgsAt(g, l, T, m) /\ h = [i \in m..N |-> h[i]]
    BY <1>0
  <2> HIDE DEF h
  <2>4. ASSUME NEW i \in m..N PROVE ArgsAt(h, l, T, i) = ArgsAt(g, l, T, i)
    <3>1. i \in 1..N /\ \A k \in (i + 1)..N : h[k] = g[k]
      BY <1>0, <2>2
    <3> QED
      BY <1>l, <3>1
  <2>5. \A i \in m..N : h[i] = ArgsAt(h, l, T, i)
    <3> TAKE i \in m..N
    <3>1. i = m \/ i \in (m + 1)..N
      BY <1>0
    <3> QED
      BY <2>1, <2>2, <2>3, <2>4, <3>1
  <2>6. Is(h, m)
    BY <2>3, <2>5, Zenon
  <2> QED
    BY <2>6
<1>2. 1 \in S
  <2> HIDE DEF S
  <2>1. \A i \in 1..N : i \in S
    BY <1>0, <1>1, Downward
  <2> QED
    BY <1>0, <2>1
<1> QED
  BY <1>2 DEF AreArgs, N

LEMMA ArgsAre ==
    ASSUME NEW l, NEW n, NEW T, Reading(l, n, T)
    PROVE  \A i \in 1..(n + 1) : Q!Tokens(l, T)[i] = ArgsAt(Q!Tokens(l, T), l, T, i)
<1> DEFINE N == n + 1
           w == CHOOSE g : AreArgs(g, l, T, N)
<1>1. AreArgs(w, l, T, N)
  BY ArgsExist
<1>2. DOMAIN T = 1..N
  BY ReadingLine DEF Turns
<1>3. Q!Tokens(l, T) = w
  BY <1>2 DEF Q!Tokens, ArgsAt, AreArgs
<1> HIDE DEF w
<1>4. \A i \in 1..N : w[i] = ArgsAt(w, l, T, i)
  BY <1>1, Zenon DEF AreArgs
<1> QED
  BY <1>3, <1>4

\* The tokens from a space, from the end, and from the beginning of one.
LEMMA ArgsFromSpace ==
    ASSUME NEW l, NEW n, NEW T, Reading(l, n, T), NEW i \in 1..n, l[i] = "space"
    PROVE  Q!Tokens(l, T)[i] = Q!Tokens(l, T)[i + 1]
<1>1. Q!At(l, i) = "space" /\ i \in 1..(n + 1)
  BY ReadingChar
<1>2. Q!Tokens(l, T)[i] = ArgsAt(Q!Tokens(l, T), l, T, i)
  BY <1>1, ArgsAre
<1> QED
  BY <1>1, <1>2 DEF ArgsAt

LEMMA ArgsFromEnd ==
    ASSUME NEW l, NEW n, NEW T, Reading(l, n, T)
    PROVE  Q!Tokens(l, T)[n + 1] = [is |-> "ok", args |-> <<>>]
<1>0. n \in Nat /\ Q!At(l, n + 1) = "end"
  BY ReadingLine
<1>1. n + 1 \in 1..(n + 1)
  BY <1>0
<1>2. Q!Tokens(l, T)[n + 1] = ArgsAt(Q!Tokens(l, T), l, T, n + 1)
  BY SMTT(30), <1>1, ArgsAre
<1> QED
  BY <1>0, <1>2 DEF ArgsAt

LEMMA ArgsFromToken ==
    ASSUME NEW l, NEW n, NEW T, Reading(l, n, T), NEW i \in 1..n, l[i] # "space",
           NEW t, t = Q!Token(T)[i]["none"], NEW more, more = Q!Tokens(l, T)[t.to + 1],
           NEW r, r = Q!Tokens(l, T)[i]
    PROVE  /\ t.is \notin {"ok", "open"} => r = [is |-> t.is, args |-> <<>>]
           /\ t.is \in {"ok", "open"} /\ more.is # "ok" => r = more
           /\ t.is \in {"ok", "open"} /\ more.is = "ok" =>
                r = [is |-> "ok", args |-> Join(<<ArgOf(t, i)>>, more.args)]
<1>1. Q!At(l, i) = l[i] /\ l[i] # "end" /\ i \in 1..(n + 1)
  BY ReadingChar
<1>2. r = ArgsAt(Q!Tokens(l, T), l, T, i)
  BY <1>1, ArgsAre
<1> QED
  BY <1>1, <1>2 DEF ArgsAt, ArgOf, Join
-----------------------------------------------------------------------------
(* The line: the turns of both readers. *)

LEMMA AtIs ==
    ASSUME NEW l \in Seq(Q!Chars), NEW n, n = Len(l), NEW i \in Nat \ {0}
    PROVE  /\ Q!At(l, i) # "end" <=> i <= n
           /\ Q!At(l, i) # "end" => Q!At(l, i) \in Q!Chars
<1> QED
  BY Characters

\* A closing quote of the mode m.
Closes(m, c) == \/ m = "double" /\ c = "quote"
                \/ m = "single" /\ c = "'"

\* What is taken as it stands.
Usual(m, c, next) == \/ m = "none" /\ c \notin {"space", "end", "quote", "'"}
                     \/ m = "double" /\ c \notin {"end", "\\", "quote"}
                     \/ m = "single" /\ c \notin {"end", "'"} /\ ~(c = "\\" /\ next = "'")

\* The turns that both readers take.
CommonTurn(t, l, i, m, c, next) ==
    \/ m = "none" /\ c \in Q!Ends /\ t = Q!Stop("ok", i)
    \/ m = "none" /\ c = "quote" /\ t = Q!On(i + 1, "double", <<>>)
    \/ m = "none" /\ c = "'" /\ t = Q!On(i + 1, "single", <<>>)
    \/ Usual(m, c, next) /\ t = Q!On(i + 1, m, <<c>>)
    \/ m = "double" /\ Q!IsHex(l, i) /\ t = Q!On(i + 4, m, <<"aa">>)
    \/ /\ m = "double" /\ c = "\\" /\ ~Q!IsHex(l, i) /\ next # "end"
       /\ t = Q!On(i + 2, m, <<Q!Escaped(next)>>)
    \/ m = "single" /\ c = "\\" /\ next = "'" /\ t = Q!On(i + 2, m, <<"'">>)
    \/ Closes(m, c) /\ next \in Q!Ends /\ t = Q!Stop("ok", i + 1)

\* Where they differ: an open quote, also behind a backslash, and text behind a quote.
OwnTurn(t, s, l, i, m, c, next) ==
    \/ m # "none" /\ c = "end" /\ t = Q!Stop("unbalanced", i) /\ s = Q!Stop("open", i)
    \/ /\ m = "double" /\ c = "\\" /\ ~Q!IsHex(l, i) /\ next = "end"
       /\ t = Q!Stop("unbalanced", i) /\ s = Q!On(i + 1, m, <<>>)
    \/ /\ Closes(m, c) /\ next \notin Q!Ends
       /\ t = Q!Stop("unspaced", i) /\ s = Q!On(i + 1, "none", <<>>)

LEMMA TurnsAre ==
    ASSUME NEW l, NEW i, NEW m \in Q!Modes, NEW c, c = Q!At(l, i),
           NEW next, next = Q!At(l, i + 1),
           NEW t, t = Q!SplitTurn(l, i, m), NEW s, s = Q!SpanTurn(l, i, m)
    PROVE  \/ CommonTurn(t, l, i, m, c, next) /\ s = t
           \/ OwnTurn(t, s, l, i, m, c, next)
<1>1. CASE m = "none"
  BY <1>1, SMTT(30) DEF Q!SplitTurn, Q!SpanTurn, CommonTurn, Q!Ends, Usual
<1>2. CASE m # "none" /\ c = "end"
  BY <1>2 DEF Q!SplitTurn, Q!SpanTurn, OwnTurn, Q!IsHex
<1>3. CASE m = "double" /\ c # "end" /\ c # "\\"
  <2>1. ~Q!IsHex(l, i)
    BY <1>3 DEF Q!IsHex
  <2>2. CASE c = "quote"
    BY <1>3, <2>1, <2>2 DEF Q!SplitTurn, Q!SpanTurn, CommonTurn, OwnTurn, Closes
  <2>3. CASE c # "quote"
    <3>1. t = Q!On(i + 1, m, <<c>>)
      BY <1>3, <2>1, <2>3 DEF Q!SplitTurn
    <3>2. s = Q!On(i + 1, m, <<c>>)
      BY <1>3, <2>1, <2>3 DEF Q!SpanTurn
    <3> QED
      BY <1>3, <2>3, <3>1, <3>2, SMTT(30) DEF CommonTurn, Usual
  <2> QED
    BY <2>2, <2>3
<1>4. CASE m = "double" /\ c = "\\" /\ Q!IsHex(l, i)
  <2>1. t = Q!On(i + 4, m, <<"aa">>)
    BY <1>4 DEF Q!SplitTurn
  <2>2. s = Q!On(i + 4, m, <<"aa">>)
    BY <1>4 DEF Q!SpanTurn
  <2> QED
    BY <1>4, <2>1, <2>2 DEF CommonTurn
<1>5. CASE m = "double" /\ c = "\\" /\ ~Q!IsHex(l, i)
  BY <1>5 DEF Q!SplitTurn, Q!SpanTurn, CommonTurn, OwnTurn
<1>6. CASE m = "single" /\ c # "end"
  BY <1>6 DEF Q!SplitTurn, Q!SpanTurn, CommonTurn, OwnTurn, Closes, Usual
<1> QED
  BY <1>1, <1>2, <1>3, <1>4, <1>5, <1>6 DEF Q!Modes

LEMMA OnIs ==
    ASSUME NEW j, NEW m, NEW b, NEW t, t = Q!On(j, m, b)
    PROVE  t.is = "on" /\ t.next = j /\ t.mode = m /\ t.bytes = b
BY DEF Q!On

LEMMA StopIs ==
    ASSUME NEW is, NEW j, NEW t, t = Q!Stop(is, j)
    PROVE  t.is = is /\ t.next = j /\ t.mode = "none" /\ t.bytes = <<>>
BY DEF Q!Stop

\* A turn at i over a line of n characters.
TurnOK(l, n, i, m, t) ==
    /\ GoodTurn(t, i, n + 1)
    /\ m = "none" /\ i <= n /\ Q!At(l, i) # "space" => t.is = "on"
    /\ t.is \in {"ok", "open"} => Q!At(l, t.next) \in Q!Ends

LEMMA OnOK ==
    ASSUME NEW l, NEW n \in Nat, NEW i \in 1..(n + 1), NEW m, NEW k \in (i + 1)..(n + 1),
           NEW m2 \in Q!Modes, NEW b \in Seq(Q!Chars), NEW t, t = Q!On(k, m2, b)
    PROVE  TurnOK(l, n, i, m, t)
<1>1. t.is = "on" /\ t.next = k /\ t.mode = m2 /\ t.bytes = b
  BY OnIs
<1>2. k \in i..(n + 1) /\ k >= i + 1
  OBVIOUS
<1>3. "on" \notin {"ok", "open"}
  OBVIOUS
<1> QED
  BY <1>1, <1>2, <1>3 DEF TurnOK, GoodTurn

LEMMA StopOK ==
    ASSUME NEW l, NEW n \in Nat, NEW i \in 1..(n + 1), NEW m, NEW k \in i..(n + 1), NEW is,
           is # "on", is \in {"ok", "open"} => Q!At(l, k) \in Q!Ends,
           m = "none" /\ i <= n => Q!At(l, i) = "space",
           NEW t, t = Q!Stop(is, k)
    PROVE  TurnOK(l, n, i, m, t)
<1>1. t.is = is /\ t.next = k /\ t.mode = "none" /\ t.bytes = <<>>
  BY StopIs
<1>2. "none" \in Q!Modes
  BY DEF Q!Modes
<1>3. <<>> \in Seq(Q!Chars)
  OBVIOUS
<1> QED
  BY <1>1, <1>2, <1>3 DEF TurnOK, GoodTurn

LEMMA SomeBytes ==
    /\ <<>> \in Seq(Q!Chars) /\ <<"aa">> \in Seq(Q!Chars) /\ <<"'">> \in Seq(Q!Chars)
    /\ \A c \in Q!Chars : <<c>> \in Seq(Q!Chars) /\ <<Q!Escaped(c)>> \in Seq(Q!Chars)
<1>1. "aa" \in Q!Chars /\ "'" \in Q!Chars /\ \A c \in Q!Chars : Q!Escaped(c) \in Q!Chars
  BY DEF Q!Chars, Q!Typed, Q!Escaped
<1> QED
  BY <1>1

LEMMA HexIsThere ==
    ASSUME NEW l \in Seq(Q!Chars), NEW n, n = Len(l), NEW i \in 1..(n + 1), Q!IsHex(l, i)
    PROVE  i + 4 \in (i + 1)..(n + 1)
<1>1. n \in Nat /\ i + 3 \in Nat \ {0}
  BY Characters
<1>2. Q!At(l, i + 3) # "end"
  BY DEF Q!IsHex
<1>3. i + 3 <= n
  BY <1>1, <1>2, AtIs
<1> QED
  BY <1>1, <1>3

LEMMA CommonOK ==
    ASSUME NEW l \in Seq(Q!Chars), NEW n, n = Len(l), NEW i \in 1..(n + 1), NEW m \in Q!Modes,
           NEW c, c = Q!At(l, i), NEW next, next = Q!At(l, i + 1), NEW t,
           CommonTurn(t, l, i, m, c, next)
    PROVE  TurnOK(l, n, i, m, t)
<1>0. n \in Nat /\ i \in Nat \ {0} /\ i + 1 \in Nat \ {0}
  BY Characters
<1>1. (c # "end" <=> i <= n) /\ (c # "end" => c \in Q!Chars)
  BY <1>0, AtIs
<1>2. (next # "end" <=> i + 1 <= n) /\ (next # "end" => next \in Q!Chars)
  BY <1>0, AtIs
<1>3. c # "end" => i + 1 \in (i + 1)..(n + 1)
  BY <1>0, <1>1
<1>4. next # "end" => i + 2 \in (i + 1)..(n + 1)
  BY <1>0, <1>2
<1>5. "double" \in Q!Modes /\ "single" \in Q!Modes
  BY DEF Q!Modes
<1>6. CASE m = "none" /\ c \in Q!Ends /\ t = Q!Stop("ok", i)
  <2>1. i \in i..(n + 1) /\ (i <= n => c = "space")
    BY <1>0, <1>1, <1>6 DEF Q!Ends
  <2> QED
    BY <1>0, <1>6, <2>1, StopOK
<1>7. CASE m = "none" /\ c = "quote" /\ t = Q!On(i + 1, "double", <<>>)
  BY <1>0, <1>3, <1>5, <1>7, SomeBytes, OnOK
<1>8. CASE m = "none" /\ c = "'" /\ t = Q!On(i + 1, "single", <<>>)
  BY <1>0, <1>3, <1>5, <1>8, SomeBytes, OnOK
<1>9. CASE Usual(m, c, next) /\ t = Q!On(i + 1, m, <<c>>)
  <2>1. c # "end"
    BY <1>9 DEF Usual
  <2>2. <<c>> \in Seq(Q!Chars)
    BY <1>1, <2>1, SomeBytes
  <2> QED
    BY <1>0, <1>3, <1>9, <2>1, <2>2, OnOK
<1>10. CASE m = "double" /\ Q!IsHex(l, i) /\ t = Q!On(i + 4, m, <<"aa">>)
  <2>1. i + 4 \in (i + 1)..(n + 1)
    BY <1>10, HexIsThere
  <2> QED
    BY <1>0, <1>10, <2>1, SomeBytes, OnOK
<1>11. CASE next # "end" /\ t = Q!On(i + 2, m, <<Q!Escaped(next)>>)
  <2>1. <<Q!Escaped(next)>> \in Seq(Q!Chars)
    BY <1>2, <1>11, SomeBytes
  <2> QED
    BY <1>0, <1>4, <1>11, <2>1, OnOK
<1>12. CASE next = "'" /\ t = Q!On(i + 2, m, <<"'">>)
  BY <1>0, <1>4, <1>12, SomeBytes, OnOK
<1>13. CASE Closes(m, c) /\ next \in Q!Ends /\ t = Q!Stop("ok", i + 1)
  <2>1. c # "end" /\ m # "none"
    BY <1>13 DEF Closes
  <2>2. i + 1 \in i..(n + 1)
    BY <1>0, <1>1, <2>1
  <2> QED
    BY <1>0, <1>13, <2>1, <2>2, StopOK
<1> QED
  BY <1>6, <1>7, <1>8, <1>9, <1>10, <1>11, <1>12, <1>13 DEF CommonTurn

LEMMA OwnOK ==
    ASSUME NEW l \in Seq(Q!Chars), NEW n, n = Len(l), NEW i \in 1..(n + 1), NEW m \in Q!Modes,
           NEW c, c = Q!At(l, i), NEW next, next = Q!At(l, i + 1), NEW t, NEW s,
           OwnTurn(t, s, l, i, m, c, next)
    PROVE  TurnOK(l, n, i, m, t) /\ TurnOK(l, n, i, m, s)
<1>0. n \in Nat /\ i \in Nat \ {0} /\ i + 1 \in Nat \ {0} /\ i \in i..(n + 1)
  BY Characters
<1>1. (c # "end" <=> i <= n) /\ (c # "end" => c \in Q!Chars)
  BY <1>0, AtIs
<1>2. c # "end" => i + 1 \in (i + 1)..(n + 1)
  BY <1>0, <1>1
<1>3. m # "none" /\ "none" \in Q!Modes
  BY DEF OwnTurn, Closes, Q!Modes
<1>4. CASE m # "none" /\ c = "end" /\ t = Q!Stop("unbalanced", i) /\ s = Q!Stop("open", i)
  <2>1. c \in Q!Ends /\ "unbalanced" \notin {"ok", "open"} /\ "open" # "on"
    BY <1>4 DEF Q!Ends
  <2>2. TurnOK(l, n, i, m, t)
    BY <1>0, <1>3, <1>4, <2>1, StopOK
  <2> QED
    BY <1>0, <1>3, <1>4, <2>1, <2>2, StopOK
<1>5. CASE c = "\\" /\ t = Q!Stop("unbalanced", i) /\ s = Q!On(i + 1, m, <<>>)
  <2>1. TurnOK(l, n, i, m, t)
    BY <1>0, <1>3, <1>5, StopOK
  <2> QED
    BY <1>0, <1>2, <1>5, <2>1, SomeBytes, OnOK
<1>6. CASE Closes(m, c) /\ t = Q!Stop("unspaced", i) /\ s = Q!On(i + 1, "none", <<>>)
  <2>1. TurnOK(l, n, i, m, t)
    BY <1>0, <1>3, <1>6, StopOK
  <2>2. c # "end"
    BY <1>6 DEF Closes
  <2> QED
    BY <1>0, <1>2, <1>3, <1>6, <2>1, <2>2, SomeBytes, OnOK
<1> QED
  BY <1>4, <1>5, <1>6 DEF OwnTurn

\* The turns of both readers are those of a reading.
LEMMA BothRead ==
    ASSUME NEW l \in Seq(Q!Chars), NEW n, n = Len(l)
    PROVE  /\ Reading(l, n, Q!SplitTurns(l)) /\ Reading(l, n, Q!SpanTurns(l))
           /\ \A i \in 1..(n + 1), m \in Q!Modes :
                /\ Q!SplitTurns(l)[i][m] = Q!SplitTurn(l, i, m)
                /\ Q!SpanTurns(l)[i][m] = Q!SpanTurn(l, i, m)
<1>0. n \in Nat /\ n + 1 \in Nat \ {0}
  BY Characters
<1>1. ASSUME NEW i \in 1..(n + 1), NEW m \in Q!Modes
      PROVE  /\ TurnOK(l, n, i, m, Q!SplitTurn(l, i, m))
             /\ TurnOK(l, n, i, m, Q!SpanTurn(l, i, m))
  <2> DEFINE c == Q!At(l, i)
             next == Q!At(l, i + 1)
             t == Q!SplitTurn(l, i, m)
             s == Q!SpanTurn(l, i, m)
  <2>1. \/ CommonTurn(t, l, i, m, c, next) /\ s = t
        \/ OwnTurn(t, s, l, i, m, c, next)
    BY TurnsAre
  <2>2. CommonTurn(t, l, i, m, c, next) => TurnOK(l, n, i, m, t)
    BY CommonOK
  <2>3. OwnTurn(t, s, l, i, m, c, next) => TurnOK(l, n, i, m, t) /\ TurnOK(l, n, i, m, s)
    <3> HIDE DEF t, s
    <3> QED
      BY OwnOK
  <2> HIDE DEF c, next, t, s
  <2>4. TurnOK(l, n, i, m, t) /\ TurnOK(l, n, i, m, s)
    BY <2>1, <2>2, <2>3
  <2> QED
    BY <2>4 DEF t, s
<1>2. ASSUME NEW T, DOMAIN T = 1..(n + 1),
             \A i \in 1..(n + 1), m \in Q!Modes : TurnOK(l, n, i, m, T[i][m])
      PROVE  Reading(l, n, T)
  <2>1. Turns(T, n + 1)
    BY <1>0, <1>2 DEF Turns, TurnOK
  <2>2. ASSUME NEW i \in 1..n, l[i] # "space" PROVE T[i]["none"].is = "on"
    <3>1. i \in 1..(n + 1) /\ i <= n /\ Q!At(l, i) = l[i]
      BY <1>0, Characters
    <3>2. "none" \in Q!Modes
      BY DEF Q!Modes
    <3> QED
      BY <1>2, <2>2, <3>1, <3>2 DEF TurnOK
  <2> QED
    BY <1>2, <2>1, <2>2 DEF Reading, TurnOK
<1>3. \A i \in 1..(n + 1), m \in Q!Modes :
        /\ Q!SplitTurns(l)[i][m] = Q!SplitTurn(l, i, m)
        /\ Q!SpanTurns(l)[i][m] = Q!SpanTurn(l, i, m)
  BY DEF Q!SplitTurns, Q!SpanTurns
<1>4. DOMAIN Q!SplitTurns(l) = 1..(n + 1) /\ DOMAIN Q!SpanTurns(l) = 1..(n + 1)
  BY DEF Q!SplitTurns, Q!SpanTurns
<1>5. Reading(l, n, Q!SplitTurns(l))
  BY <1>1, <1>2, <1>3, <1>4
<1>6. Reading(l, n, Q!SpanTurns(l))
  BY <1>1, <1>2, <1>3, <1>4
<1> QED
  BY <1>3, <1>5, <1>6

-----------------------------------------------------------------------------
(* The line: both readers agree. *)

\* A token from i on in mode m, and the arguments from i on, as they are sent and as shown.
SentAt(l, i, m) == Q!Token(Q!SplitTurns(l))[i][m]
ShownAt(l, i, m) == Q!Token(Q!SpanTurns(l))[i][m]
SentFrom(l, i) == Q!Tokens(l, Q!SplitTurns(l))[i]
ShownFrom(l, i) == Q!Tokens(l, Q!SpanTurns(l))[i]

Follows(w, t, more) ==
    /\ w = [is |-> more.is, bytes |-> Join(t.bytes, more.bytes), to |-> more.to]
    /\ w.is = more.is /\ w.bytes = Join(t.bytes, more.bytes) /\ w.to = more.to
Finished(w, t) ==
    /\ w = [is |-> t.is, bytes |-> <<>>, to |-> t.next - 1]
    /\ w.is = t.is /\ w.bytes = <<>> /\ w.to = t.next - 1

LEMMA TurnFacts ==
    ASSUME NEW l, NEW n, NEW T, Reading(l, n, T), NEW i \in 1..(n + 1), NEW m \in Q!Modes,
           NEW t, t = T[i][m], NEW w, w = Q!Token(T)[i][m],
           NEW more, more = Q!Token(T)[t.next][t.mode]
    PROVE  /\ t.next \in i..(n + 1) /\ t.mode \in Q!Modes
           /\ t.is = "on" => /\ t.next \in (i + 1)..(n + 1)
                             /\ Follows(w, t, more)
           /\ t.is # "on" => Finished(w, t)
           /\ w.to \in (i - 1)..n /\ w.bytes \in Seq(Q!Chars)
           /\ t.is = "on" => w.to >= i
<1>0. n \in Nat /\ Turns(T, n + 1) /\ n + 1 - 1 = n
  BY ReadingLine
<1>1. GoodTurn(t, i, n + 1)
  BY <1>0 DEF Turns
<1>2. t.next \in i..(n + 1) /\ t.mode \in Q!Modes /\ (t.is = "on" => t.next \in (i + 1)..(n + 1))
  BY <1>0, <1>1 DEF GoodTurn
<1>3. t.is = "on" => Follows(w, t, more)
  BY <1>0, TokenOn, SMTT(30) DEF Follows
<1>4. t.is # "on" => Finished(w, t)
  BY <1>0, TokenStops DEF Finished
<1>5. w.to \in (i - 1)..n /\ w.bytes \in Seq(Q!Chars) /\ (t.is = "on" => w.to >= i)
  BY <1>0, TokenBounds
<1> QED
  BY <1>2, <1>3, <1>4, <1>5

LEMMA SentFacts ==
    ASSUME NEW l \in Seq(Q!Chars), NEW n, n = Len(l), NEW i \in 1..(n + 1), NEW m \in Q!Modes,
           NEW t, t = Q!SplitTurn(l, i, m), NEW w, w = SentAt(l, i, m),
           NEW more, more = SentAt(l, t.next, t.mode)
    PROVE  /\ t.next \in i..(n + 1) /\ t.mode \in Q!Modes
           /\ t.is = "on" => /\ t.next \in (i + 1)..(n + 1)
                             /\ Follows(w, t, more)
           /\ t.is # "on" => Finished(w, t)
           /\ w.to \in (i - 1)..n /\ w.bytes \in Seq(Q!Chars)
           /\ t.is = "on" => w.to >= i
<1>1. Reading(l, n, Q!SplitTurns(l)) /\ t = Q!SplitTurns(l)[i][m]
  BY BothRead
<1>2. w = Q!Token(Q!SplitTurns(l))[i][m] /\ more = Q!Token(Q!SplitTurns(l))[t.next][t.mode]
  BY DEF SentAt
<1> QED
  BY <1>1, <1>2, TurnFacts

LEMMA ShownFacts ==
    ASSUME NEW l \in Seq(Q!Chars), NEW n, n = Len(l), NEW i \in 1..(n + 1), NEW m \in Q!Modes,
           NEW t, t = Q!SpanTurn(l, i, m), NEW w, w = ShownAt(l, i, m),
           NEW more, more = ShownAt(l, t.next, t.mode)
    PROVE  /\ t.next \in i..(n + 1) /\ t.mode \in Q!Modes
           /\ t.is = "on" => /\ t.next \in (i + 1)..(n + 1)
                             /\ Follows(w, t, more)
           /\ t.is # "on" => Finished(w, t)
           /\ w.to \in (i - 1)..n /\ w.bytes \in Seq(Q!Chars)
<1>1. Reading(l, n, Q!SpanTurns(l)) /\ t = Q!SpanTurns(l)[i][m]
  BY BothRead
<1>2. w = Q!Token(Q!SpanTurns(l))[i][m] /\ more = Q!Token(Q!SpanTurns(l))[t.next][t.mode]
  BY DEF ShownAt
<1> QED
  BY <1>1, <1>2, TurnFacts

Agree(w, v, i, m) ==
    /\ w.is \in {"ok", "unbalanced", "unspaced"} /\ v.is \in {"ok", "open"}
    /\ w.is = "ok" => v = w
    /\ w.is = "unbalanced" => v.is = "open"
    /\ m # "none" /\ w.is = "ok" => w.to >= i

LEMMA TokensAgree ==
    ASSUME NEW l \in Seq(Q!Chars), NEW n, n = Len(l)
    PROVE  \A i \in 1..(n + 1) : \A m \in Q!Modes : Agree(SentAt(l, i, m), ShownAt(l, i, m), i, m)
<1> DEFINE Good == {i \in 1..(n + 1) : \A m \in Q!Modes :
                   Agree(SentAt(l, i, m), ShownAt(l, i, m), i, m)}
<1>0. n \in Nat /\ n + 1 \in Nat
  BY Characters
<1>1. ASSUME NEW i \in 1..(n + 1), \A j \in (i + 1)..(n + 1) : j \in Good, NEW m \in Q!Modes,
             NEW t, t = Q!SplitTurn(l, i, m), NEW w, w = SentAt(l, i, m),
             NEW s, s = Q!SpanTurn(l, i, m), NEW v, v = ShownAt(l, i, m),
             NEW c, c = Q!At(l, i), NEW next, next = Q!At(l, i + 1)
      PROVE  Agree(w, v, i, m)
  <2>1. \/ CommonTurn(t, l, i, m, c, next) /\ s = t
        \/ OwnTurn(t, s, l, i, m, c, next)
    BY <1>1, TurnsAre
  <2>2. /\ t.next \in i..(n + 1) /\ t.mode \in Q!Modes
        /\ t.is = "on" => /\ t.next \in (i + 1)..(n + 1)
                          /\ Follows(w, t, SentAt(l, t.next, t.mode))
        /\ t.is # "on" => Finished(w, t)
        /\ t.is = "on" => w.to >= i
    BY <1>1, SentFacts
  <2>3. /\ s.next \in i..(n + 1) /\ s.mode \in Q!Modes
        /\ s.is = "on" => /\ s.next \in (i + 1)..(n + 1)
                          /\ Follows(v, s, ShownAt(l, s.next, s.mode))
        /\ s.is # "on" => Finished(v, s)
    BY <1>1, ShownFacts
  <2>4. s.is = "on" =>
           \A k \in Q!Modes : Agree(SentAt(l, s.next, k), ShownAt(l, s.next, k), s.next, k)
    BY <1>1, <2>3
  <2>5. CASE s = t /\ t.is = "on"
    <3> DEFINE more == SentAt(l, t.next, t.mode)
               shown == ShownAt(l, t.next, t.mode)
    <3>1. Follows(w, t, more) /\ Follows(v, t, shown) /\ Agree(more, shown, t.next, t.mode)
      BY <2>2, <2>3, <2>4, <2>5
    <3>2. w.to >= i
      BY <2>2, <2>5
    <3> HIDE DEF more, shown
    <3> QED
      BY <3>1, <3>2 DEF Agree, Follows
  <2>6. CASE s = t /\ t.is = "ok" /\ (m # "none" => t.next = i + 1)
    <3>1. Finished(w, t) /\ Finished(v, t)
      BY <2>2, <2>3, <2>6
    <3>2. w = v
      BY <3>1 DEF Finished
    <3>3. m # "none" => w.to >= i
      BY <1>0, <1>1, <2>6, <3>1 DEF Finished
    <3>4. w.is = "ok"
      BY <2>6, <3>1 DEF Finished
    <3> QED
      BY <3>2, <3>3, <3>4 DEF Agree
  <2>7. CASE t.is = "unbalanced" /\ s.is = "open"
    <3>1. w.is = "unbalanced" /\ v.is = "open"
      BY <2>2, <2>3, <2>7 DEF Finished
    <3> QED
      BY <3>1 DEF Agree
  <2>8. CASE t.is = "unbalanced" /\ s = Q!On(i + 1, m, <<>>) /\ m # "none" /\ next = "end"
    <3>1. s.is = "on" /\ s.next = i + 1 /\ s.mode = m
      BY <2>8, OnIs
    <3>2. i + 1 \in 1..(n + 1)
      BY <1>0, <1>1, <2>3, <3>1
    <3>3. Q!SpanTurn(l, i + 1, m) = Q!Stop("open", i + 1)
      BY <1>1, <2>8 DEF Q!SpanTurn
    <3>4. Q!Stop("open", i + 1).is = "open"
      BY StopIs
    <3>5. ShownAt(l, i + 1, m).is = "open"
      BY <1>1, <3>2, <3>3, <3>4, ShownFacts DEF Finished
    <3>6. v.is = "open"
      BY <2>3, <3>1, <3>5 DEF Follows
    <3>7. w.is = "unbalanced"
      BY <2>2, <2>8 DEF Finished
    <3> QED
      BY <3>6, <3>7 DEF Agree
  <2>9. CASE t.is = "unspaced" /\ s.is = "on"
    <3>1. w.is = "unspaced"
      BY <2>2, <2>9 DEF Finished
    <3>2. v.is \in {"ok", "open"}
      BY <2>3, <2>4, <2>9 DEF Follows, Agree
    <3> QED
      BY <3>1, <3>2 DEF Agree
  <2>10. CASE CommonTurn(t, l, i, m, c, next) /\ s = t
    <3>1. t.is = "on" \/ (t.is = "ok" /\ (m # "none" => t.next = i + 1))
      BY <2>10, OnIs, StopIs DEF CommonTurn
    <3> QED
      BY <2>5, <2>6, <2>10, <3>1
  <2>11. CASE OwnTurn(t, s, l, i, m, c, next)
    <3>1. \/ t.is = "unbalanced" /\ s.is = "open"
          \/ t.is = "unbalanced" /\ s = Q!On(i + 1, m, <<>>) /\ m # "none" /\ next = "end"
          \/ t.is = "unspaced" /\ s.is = "on"
      BY <2>11, OnIs, StopIs DEF OwnTurn
    <3> QED
      BY <2>7, <2>8, <2>9, <3>1
  <2> QED
    BY <2>1, <2>10, <2>11
<1>2. ASSUME NEW i \in 1..(n + 1), \A j \in (i + 1)..(n + 1) : j \in Good PROVE i \in Good
  BY <1>1, <1>2
<1>3. \A i \in 1..(n + 1) : i \in Good
  <2> HIDE DEF Good
  <2> QED
    BY <1>0, <1>2, Downward
<1> QED
  BY <1>3

\* A token ends before a space or the end.
LEMMA TokenEnds ==
    ASSUME NEW l, NEW n, NEW T, Reading(l, n, T)
    PROVE  \A i \in 1..(n + 1) : \A m \in Q!Modes :
             Q!Token(T)[i][m].is \in {"ok", "open"} => Q!At(l, Q!Token(T)[i][m].to + 1) \in Q!Ends
<1> DEFINE Good == {i \in 1..(n + 1) : \A m \in Q!Modes :
             Q!Token(T)[i][m].is \in {"ok", "open"} => Q!At(l, Q!Token(T)[i][m].to + 1) \in Q!Ends}
<1>0. n \in Nat /\ n + 1 \in Nat
  BY ReadingLine
<1>1. ASSUME NEW i \in 1..(n + 1), \A j \in (i + 1)..(n + 1) : j \in Good, NEW m \in Q!Modes,
             NEW t, t = T[i][m], NEW w, w = Q!Token(T)[i][m], w.is \in {"ok", "open"},
             NEW more, more = Q!Token(T)[t.next][t.mode]
      PROVE  Q!At(l, w.to + 1) \in Q!Ends
  <2>1. /\ t.next \in i..(n + 1) /\ t.mode \in Q!Modes
        /\ t.is = "on" => t.next \in (i + 1)..(n + 1) /\ Follows(w, t, more)
        /\ t.is # "on" => Finished(w, t)
    BY <1>1, TurnFacts
  <2>2. CASE t.is = "on"
    <3>1. more.is = w.is /\ more.to = w.to
      BY <2>1, <2>2 DEF Follows
    <3>2. more.is \in {"ok", "open"} => Q!At(l, more.to + 1) \in Q!Ends
      BY <1>1, <2>1, <2>2
    <3> QED
      BY <1>1, <3>1, <3>2
  <2>3. CASE t.is # "on"
    <3>1. w.is = t.is /\ w.to = t.next - 1
      BY <2>1, <2>3 DEF Finished
    <3>2. w.to + 1 = t.next
      BY <1>0, <2>1, <3>1
    <3> QED
      BY <1>1, <3>1, <3>2 DEF Reading
  <2> QED
    BY <2>2, <2>3
<1>2. ASSUME NEW i \in 1..(n + 1), \A j \in (i + 1)..(n + 1) : j \in Good PROVE i \in Good
  BY <1>1, <1>2
<1>3. \A i \in 1..(n + 1) : i \in Good
  <2> HIDE DEF Good
  <2> QED
    BY <1>0, <1>2, Downward
<1> QED
  BY <1>3

\* c is the sequence a with b behind it, over D.
Joined(c, a, b, D) ==
    /\ c \in Seq(D) /\ Len(c) = Len(a) + Len(b)
    /\ Len(a) \in Nat /\ Len(b) \in Nat
    /\ DOMAIN c = 1..Len(c) /\ DOMAIN a = 1..Len(a) /\ DOMAIN b = 1..Len(b)
    /\ \A k \in 1..Len(a) : c[k] = a[k]
    /\ \A k \in 1..Len(b) : c[Len(a) + k] = b[k]
    /\ \A k \in (Len(a) + 1)..(Len(a) + Len(b)) : c[k] = b[k - Len(a)]

LEMMA JoinIs ==
    ASSUME NEW D, NEW a \in Seq(D), NEW b \in Seq(D)
    PROVE  Joined(Join(a, b), a, b, D)
BY DEF Join, Joined

\* The arguments that are sent, from a space, from the end and from the beginning of one.
LEMMA SentSteps ==
    ASSUME NEW l \in Seq(Q!Chars), NEW n, n = Len(l)
    PROVE  /\ SentFrom(l, n + 1) = [is |-> "ok", args |-> <<>>]
           /\ \A i \in 1..n : l[i] = "space" => SentFrom(l, i) = SentFrom(l, i + 1)
<1>1. Reading(l, n, Q!SplitTurns(l))
  BY BothRead
<1> QED
  BY <1>1, ArgsFromEnd, ArgsFromSpace DEF SentFrom

LEMMA ShownSteps ==
    ASSUME NEW l \in Seq(Q!Chars), NEW n, n = Len(l)
    PROVE  /\ ShownFrom(l, n + 1) = [is |-> "ok", args |-> <<>>]
           /\ \A i \in 1..n : l[i] = "space" => ShownFrom(l, i) = ShownFrom(l, i + 1)
<1>1. Reading(l, n, Q!SpanTurns(l))
  BY BothRead
<1> QED
  BY <1>1, ArgsFromEnd, ArgsFromSpace DEF ShownFrom

LEMMA SentToken ==
    ASSUME NEW l \in Seq(Q!Chars), NEW n, n = Len(l), NEW i \in 1..n, l[i] # "space",
           NEW t, t = SentAt(l, i, "none"), NEW more, more = SentFrom(l, t.to + 1),
           NEW r, r = SentFrom(l, i)
    PROVE  /\ t.to \in i..n /\ t.to + 1 \in (i + 1)..(n + 1) /\ t.bytes \in Seq(Q!Chars)
           /\ t.is \in {"ok", "unbalanced", "unspaced"}
           /\ t.is = "ok" => Q!At(l, t.to + 1) \in Q!Ends
           /\ t.is # "ok" => r = [is |-> t.is, args |-> <<>>]
           /\ t.is = "ok" /\ more.is # "ok" => r = more
           /\ t.is = "ok" /\ more.is = "ok" =>
                r = [is |-> "ok", args |-> Join(<<ArgOf(t, i)>>, more.args)]
<1> DEFINE T == Q!SplitTurns(l)
<1>1. Reading(l, n, T) /\ n \in Nat
  BY BothRead, Characters
<1>2. /\ t = Q!Token(T)[i]["none"] /\ more = Q!Tokens(l, T)[t.to + 1] /\ r = Q!Tokens(l, T)[i]
  BY DEF SentAt, SentFrom
<1> HIDE DEF T
<1>3. i \in 1..(n + 1) /\ "none" \in Q!Modes
  BY <1>1 DEF Q!Modes
<1>4. t.to \in i..n
  BY <1>1, <1>2, TokenForward
<1>5. t.to + 1 \in (i + 1)..(n + 1)
  BY <1>1, <1>4
<1>6. t.is \in {"ok", "unbalanced", "unspaced"}
  BY <1>3, TokensAgree DEF Agree
<1>7. t.is = "ok" => Q!At(l, t.to + 1) \in Q!Ends
  BY <1>1, <1>2, <1>3, TokenEnds
<1>8. /\ t.is \notin {"ok", "open"} => r = [is |-> t.is, args |-> <<>>]
      /\ t.is \in {"ok", "open"} /\ more.is # "ok" => r = more
      /\ t.is \in {"ok", "open"} /\ more.is = "ok" =>
                r = [is |-> "ok", args |-> Join(<<ArgOf(t, i)>>, more.args)]
  BY <1>1, <1>2, ArgsFromToken
<1>9. t.bytes \in Seq(Q!Chars)
  BY <1>3, SentFacts
<1> QED
  BY <1>4, <1>5, <1>6, <1>7, <1>8, <1>9

LEMMA ShownToken ==
    ASSUME NEW l \in Seq(Q!Chars), NEW n, n = Len(l), NEW i \in 1..n, l[i] # "space",
           NEW t, t = ShownAt(l, i, "none"), NEW more, more = ShownFrom(l, t.to + 1),
           NEW r, r = ShownFrom(l, i)
    PROVE  /\ t.to \in i..n /\ t.to + 1 \in (i + 1)..(n + 1) /\ t.bytes \in Seq(Q!Chars)
           /\ t.is \in {"ok", "open"}
           /\ more.is # "ok" => r = more
           /\ more.is = "ok" => r = [is |-> "ok", args |-> Join(<<ArgOf(t, i)>>, more.args)]
<1> DEFINE T == Q!SpanTurns(l)
<1>1. Reading(l, n, T) /\ n \in Nat
  BY BothRead, Characters
<1>2. /\ t = Q!Token(T)[i]["none"] /\ more = Q!Tokens(l, T)[t.to + 1] /\ r = Q!Tokens(l, T)[i]
  BY DEF ShownAt, ShownFrom
<1> HIDE DEF T
<1>3. i \in 1..(n + 1) /\ "none" \in Q!Modes
  BY <1>1 DEF Q!Modes
<1>4. t.to \in i..n
  BY <1>1, <1>2, TokenForward
<1>5. t.to + 1 \in (i + 1)..(n + 1)
  BY <1>1, <1>4
<1>6. t.is \in {"ok", "open"}
  BY <1>3, TokensAgree DEF Agree
<1>7. /\ t.is \in {"ok", "open"} /\ more.is # "ok" => r = more
      /\ t.is \in {"ok", "open"} /\ more.is = "ok" =>
                r = [is |-> "ok", args |-> Join(<<ArgOf(t, i)>>, more.args)]
  BY <1>1, <1>2, ArgsFromToken
<1>8. t.bytes \in Seq(Q!Chars)
  BY <1>3, ShownFacts
<1> QED
  BY <1>4, <1>5, <1>6, <1>7, <1>8

ArgSet == [bytes : Seq(Q!Chars), from : Nat, to : Nat, open : BOOLEAN]

\* The arguments from position i on lie in the line one behind the other, and begin with a
\* character.
InOrder(args, l, n, i) ==
    /\ args \in Seq(ArgSet)
    /\ \A k \in 1..Len(args) : /\ i - 1 <= args[k].from /\ args[k].from < args[k].to
                               /\ args[k].to <= n /\ ~args[k].open
                               /\ l[args[k].from + 1] # "space"
    /\ \A k, k2 \in 1..Len(args) : k < k2 => args[k].to < args[k2].from

LEMMA ArgIs ==
    ASSUME NEW t, NEW i \in Nat \ {0}, t.to \in Nat, t.bytes \in Seq(Q!Chars),
           NEW a, a = ArgOf(t, i)
    PROVE  /\ a \in ArgSet /\ a.bytes = t.bytes /\ a.from = i - 1 /\ a.to = t.to
           /\ a.open <=> t.is = "open"
<1>1. a.bytes = t.bytes /\ a.from = i - 1 /\ a.to = t.to
  BY DEF ArgOf
<1>2. a.open = (t.is = "open")
  BY Zenon DEF ArgOf
<1>3. (t.is = "open") \in BOOLEAN
  BY Zenon
<1>4. i - 1 \in Nat
  OBVIOUS
<1>5. a \in ArgSet
  BY <1>3, <1>4, Zenon DEF ArgOf, ArgSet
<1> QED
  BY <1>1, <1>2, <1>5, Zenon

LEMMA ArgSpan ==
    ASSUME NEW a \in ArgSet
    PROVE  a.from \in Nat /\ a.to \in Nat /\ a.bytes \in Seq(Q!Chars)
BY DEF ArgSet

\* c is the argument a and then b.
Grown(c, a, b) ==
    /\ c \in Seq(ArgSet) /\ Len(c) = Len(b) + 1 /\ Len(b) \in Nat
    /\ c[1] = a /\ \A k \in 2..(Len(b) + 1) : c[k] = b[k - 1] /\ k - 1 \in 1..Len(b)
    /\ \A k \in 1..Len(b) : c[k + 1] = b[k]
    /\ DOMAIN c = 1..Len(c) /\ DOMAIN b = 1..Len(b)

LEMMA OneMore ==
    ASSUME NEW a \in ArgSet, NEW b \in Seq(ArgSet)
    PROVE  Grown(Join(<<a>>, b), a, b)
<1> DEFINE u == <<a>>
           c == Join(u, b)
<1>1. u \in Seq(ArgSet) /\ Len(u) = 1 /\ u[1] = a
  OBVIOUS
<1> HIDE DEF u
<1>2. Joined(c, u, b, ArgSet)
  BY <1>1, JoinIs
<1> HIDE DEF c
<1>3. c[1] = a
  BY <1>1, <1>2 DEF Joined
<1>4. ASSUME NEW k \in 2..(Len(b) + 1) PROVE c[k] = b[k - 1] /\ k - 1 \in 1..Len(b)
  <2>1. k \in (Len(u) + 1)..(Len(u) + Len(b)) /\ k - Len(u) = k - 1 /\ k - 1 \in 1..Len(b)
    BY <1>1, <1>2 DEF Joined
  <2> QED
    BY <1>2, <2>1 DEF Joined
<1>5. ASSUME NEW k \in 1..Len(b) PROVE c[k + 1] = b[k]
  <2>1. Len(u) + k = k + 1
    BY <1>1
  <2> QED
    BY <1>2, <2>1 DEF Joined
<1>6. /\ c \in Seq(ArgSet) /\ Len(c) = Len(b) + 1 /\ Len(b) \in Nat
      /\ DOMAIN c = 1..Len(c) /\ DOMAIN b = 1..Len(b)
  BY <1>1, <1>2 DEF Joined
<1>7. Grown(c, a, b)
  BY <1>3, <1>4, <1>5, <1>6 DEF Grown
<1> QED
  BY <1>7 DEF c, u

LEMMA OrderGrows ==
    ASSUME NEW l, NEW n \in Nat, NEW i \in 1..n, NEW a \in ArgSet, NEW args,
           a.from = i - 1, a.to \in i..n, ~a.open, l[i] # "space",
           NEW j \in Nat, j = a.to + 1, j <= n => l[j] = "space",
           InOrder(args, l, n, j), NEW c, c = Join(<<a>>, args)
    PROVE  InOrder(c, l, n, i)
<1>1. args \in Seq(ArgSet)
  BY DEF InOrder
<1>2. /\ c \in Seq(ArgSet) /\ Len(c) = Len(args) + 1 /\ Len(args) \in Nat
      /\ c[1] = a /\ \A k \in 2..(Len(args) + 1) : c[k] = args[k - 1] /\ k - 1 \in 1..Len(args)
  <2>1. Grown(c, a, args)
    BY <1>1, OneMore
  <2> QED
    BY <2>1 DEF Grown
<1>3. ASSUME NEW k \in 1..Len(args) PROVE args[k].from > a.to
  <2>1. args[k] \in ArgSet
    BY <1>1
  <2>2. args[k].from \in Nat /\ args[k].to \in Nat
    BY <2>1, ArgSpan
  <2>3. /\ j - 1 <= args[k].from /\ l[args[k].from + 1] # "space"
        /\ args[k].from < args[k].to /\ args[k].to <= n
    BY DEF InOrder
  <2>4. args[k].from # a.to
    BY <2>2, <2>3
  <2> QED
    BY <2>2, <2>3, <2>4, SMTT(30)
<1>4. ASSUME NEW k \in 1..Len(c)
      PROVE  /\ i - 1 <= c[k].from /\ c[k].from < c[k].to
             /\ c[k].to <= n /\ ~c[k].open
             /\ l[c[k].from + 1] # "space"
  <2>1. CASE k = 1
    BY <1>2, <2>1
  <2>2. CASE k # 1
    <3>1. c[k] = args[k - 1] /\ k - 1 \in 1..Len(args)
      BY <1>2, <2>2
    <3>2. args[k - 1].from > a.to /\ args[k - 1] \in ArgSet
      BY <1>1, <1>3, <3>1
    <3>3. i - 1 <= args[k - 1].from
      BY <3>2, ArgSpan, SMTT(30)
    <3> QED
      BY <3>1, <3>3 DEF InOrder
  <2> QED
    BY <2>1, <2>2
<1>5. ASSUME NEW k \in 1..Len(c), NEW k2 \in 1..Len(c), k < k2 PROVE c[k].to < c[k2].from
  <2>1. c[k2] = args[k2 - 1] /\ k2 - 1 \in 1..Len(args)
    BY <1>2, <1>5, SMTT(30)
  <2>2. args[k2 - 1] \in ArgSet
    BY <1>1, <2>1
  <2>3. CASE k = 1
    BY <1>2, <1>3, <2>1, <2>2, <2>3, ArgSpan
  <2>4. CASE k # 1
    <3>1. c[k] = args[k - 1] /\ k - 1 \in 1..Len(args)
      <4>1. k \in 2..(Len(args) + 1)
        BY <1>2, <2>4
      <4> QED
        BY <1>2, <4>1
    <3>2. k - 1 < k2 - 1
      BY <1>5, <2>1, <3>1
    <3> QED
      BY <2>1, <3>1, <3>2 DEF InOrder
  <2> QED
    BY <2>3, <2>4
<1> QED
  BY <1>2, <1>4, <1>5 DEF InOrder

\* What is shown of a line from i on is what is sent.
Shown(r, v, l, n, i) ==
    /\ v.is = "ok" /\ v.args \in Seq(ArgSet)
    /\ r.is \in {"ok", "unbalanced", "unspaced"}
    /\ r.is = "ok" => v = r /\ InOrder(r.args, l, n, i)
    /\ r.is = "unbalanced" => \E k \in 1..Len(v.args) : v.args[k].open

LEMMA ArgsAgree ==
    ASSUME NEW l \in Seq(Q!Chars), NEW n, n = Len(l)
    PROVE  \A i \in 1..(n + 1) : Shown(SentFrom(l, i), ShownFrom(l, i), l, n, i)
<1> DEFINE Good == {i \in 1..(n + 1) : Shown(SentFrom(l, i), ShownFrom(l, i), l, n, i)}
<1>0. n \in Nat /\ n + 1 \in Nat
  BY Characters
<1>1. ASSUME NEW i \in 1..(n + 1), \A j \in (i + 1)..(n + 1) : j \in Good,
             NEW r, r = SentFrom(l, i), NEW v, v = ShownFrom(l, i)
      PROVE  Shown(r, v, l, n, i)
  <2>1. CASE i = n + 1
    <3>1. r = [is |-> "ok", args |-> <<>>] /\ v = [is |-> "ok", args |-> <<>>]
      BY <1>1, <2>1, SentSteps, ShownSteps
    <3>2. <<>> \in Seq(ArgSet) /\ Len(<<>>) = 0
      OBVIOUS
    <3> QED
      BY <3>1, <3>2 DEF Shown, InOrder
  <2>2. CASE i \in 1..n /\ l[i] = "space"
    <3>1. r = SentFrom(l, i + 1) /\ v = ShownFrom(l, i + 1) /\ i + 1 \in (i + 1)..(n + 1)
      BY <1>0, <1>1, <2>2, SentSteps, ShownSteps
    <3>2. Shown(r, v, l, n, i + 1)
      BY <1>1, <3>1
    <3>3. \A a \in ArgSet : i + 1 - 1 <= a.from => i - 1 <= a.from
      BY <1>0, ArgSpan
    <3>4. r.is = "ok" => r.args \in Seq(ArgSet) /\ \A k \in 1..Len(r.args) : r.args[k] \in ArgSet
      BY <3>2 DEF Shown, InOrder
    <3> QED
      BY <3>2, <3>3, <3>4 DEF Shown, InOrder
  <2>3. CASE i \in 1..n /\ l[i] # "space"
    <3> DEFINE t == SentAt(l, i, "none")
               s == ShownAt(l, i, "none")
               more == SentFrom(l, t.to + 1)
               rest == ShownFrom(l, s.to + 1)
               a == ArgOf(t, i)
               b == ArgOf(s, i)
    <3>1. /\ t.to \in i..n /\ t.to + 1 \in (i + 1)..(n + 1) /\ t.bytes \in Seq(Q!Chars)
          /\ t.is \in {"ok", "unbalanced", "unspaced"}
          /\ t.is = "ok" => Q!At(l, t.to + 1) \in Q!Ends
          /\ t.is # "ok" => r = [is |-> t.is, args |-> <<>>]
          /\ t.is = "ok" /\ more.is # "ok" => r = more
          /\ t.is = "ok" /\ more.is = "ok" => r = [is |-> "ok", args |-> Join(<<a>>, more.args)]
      BY <1>1, <2>3, SentToken
    <3>2. /\ s.to \in i..n /\ s.to + 1 \in (i + 1)..(n + 1) /\ s.bytes \in Seq(Q!Chars)
          /\ s.is \in {"ok", "open"}
          /\ rest.is # "ok" => v = rest
          /\ rest.is = "ok" => v = [is |-> "ok", args |-> Join(<<b>>, rest.args)]
      BY <1>1, <2>3, ShownToken
    <3>3. Agree(t, s, i, "none")
      <4>1. "none" \in Q!Modes
        BY DEF Q!Modes
      <4> QED
        BY <4>1, TokensAgree
    <3>4. Shown(more, ShownFrom(l, t.to + 1), l, n, t.to + 1)
      BY <1>1, <3>1
    <3>5. Shown(SentFrom(l, s.to + 1), rest, l, n, s.to + 1)
      BY <1>1, <3>2
    <3>6. /\ a \in ArgSet /\ a.from = i - 1 /\ a.to = t.to /\ (a.open <=> t.is = "open")
      <4> HIDE DEF t
      <4>1. i \in Nat \ {0} /\ t.to \in Nat
        BY <1>0, <2>3, <3>1
      <4> QED
        BY <3>1, <4>1, ArgIs
    <3>7. b \in ArgSet /\ (b.open <=> s.is = "open")
      <4> HIDE DEF s
      <4>1. i \in Nat \ {0} /\ s.to \in Nat
        BY <1>0, <2>3, <3>2
      <4> QED
        BY <3>2, <4>1, ArgIs
    <3>8. t.is = "ok" => s = t
      BY <3>3 DEF Agree
    <3>9. t.is = "ok" => b = a /\ rest = ShownFrom(l, t.to + 1)
      BY <3>8
    <3>10. t.is = "unbalanced" => s.is = "open"
      BY <3>3 DEF Agree
    <3> HIDE DEF t, s, more, rest, a, b
    <3>11. rest.is = "ok" /\ rest.args \in Seq(ArgSet)
      BY <3>5 DEF Shown
    <3>12. v.is = "ok" /\ v.args = Join(<<b>>, rest.args)
      BY <3>2, <3>11
    <3>13. /\ v.args \in Seq(ArgSet) /\ Len(v.args) = Len(rest.args) + 1 /\ Len(rest.args) \in Nat
           /\ v.args[1] = b /\ \A k \in 1..Len(rest.args) : v.args[k + 1] = rest.args[k]
      <4>1. Grown(v.args, b, rest.args)
        BY <3>7, <3>11, <3>12, OneMore
      <4> QED
        BY <4>1 DEF Grown
    <3>14. CASE t.is = "ok" /\ more.is = "ok"
      <4>1. rest = more /\ InOrder(more.args, l, n, t.to + 1)
        BY <3>4, <3>9, <3>14 DEF Shown
      <4>2. v = r
        BY <3>1, <3>2, <3>9, <3>11, <3>14, <4>1
      <4>3. t.to + 1 \in Nat /\ (t.to + 1 <= n => l[t.to + 1] = "space")
        <5>1. t.to + 1 \in Nat \ {0}
          BY <1>0, <2>3, <3>1
        <5>2. t.to + 1 <= n => Q!At(l, t.to + 1) = l[t.to + 1] /\ l[t.to + 1] # "end"
          BY <5>1, Characters
        <5> QED
          BY <3>1, <3>14, <5>1, <5>2 DEF Q!Ends
      <4>4. r.is = "ok" /\ r.args = Join(<<a>>, more.args)
        BY <3>1, <3>14
      <4>5. ~a.open
        BY <3>6, <3>14
      <4>6. InOrder(r.args, l, n, i)
        BY <1>0, <2>3, <3>1, <3>6, <4>1, <4>3, <4>4, <4>5, OrderGrows, SMTT(30)
      <4> QED
        BY <3>12, <3>13, <4>2, <4>4, <4>6 DEF Shown
    <3>15. CASE t.is = "ok" /\ more.is # "ok"
      <4>1. r = more /\ more.is \in {"ok", "unbalanced", "unspaced"}
        BY <3>1, <3>4, <3>15 DEF Shown
      <4>2. more.is = "unbalanced" => \E k \in 1..Len(rest.args) : rest.args[k].open
        BY <3>4, <3>9, <3>15 DEF Shown
      <4>3. \A k \in 1..Len(rest.args) : k + 1 \in 1..Len(v.args)
        BY <3>13
      <4>4. more.is = "unbalanced" => \E k \in 1..Len(v.args) : v.args[k].open
        BY <3>13, <4>2, <4>3
      <4> QED
        BY <3>12, <3>13, <3>15, <4>1, <4>4 DEF Shown
    <3>16. CASE t.is # "ok"
      <4>1. r.is = t.is
        BY <3>1, <3>16
      <4>2. t.is = "unbalanced" => v.args[1].open /\ 1 \in 1..Len(v.args)
        BY <3>7, <3>10, <3>13
      <4> QED
        BY <3>1, <3>12, <3>13, <3>16, <4>1, <4>2 DEF Shown
    <3> QED
      BY <3>14, <3>15, <3>16
  <2>4. i = n + 1 \/ i \in 1..n
    BY <1>0
  <2> QED
    BY <2>1, <2>2, <2>3, <2>4
<1>2. ASSUME NEW i \in 1..(n + 1), \A j \in (i + 1)..(n + 1) : j \in Good PROVE i \in Good
  BY <1>1, <1>2
<1>3. \A i \in 1..(n + 1) : i \in Good
  <2> HIDE DEF Good
  <2> QED
    BY <1>0, <1>2, Downward
<1> QED
  BY <1>3

-----------------------------------------------------------------------------
(* The line: the same characters are read the same, wherever they are. *)

LEMMA HexBegins ==
    ASSUME NEW l, NEW i, Q!IsHex(l, i)
    PROVE  Q!At(l, i) = "\\" /\ Q!At(l, i + 1) = "x"
BY DEF Q!IsHex

\* The turn t2 does what t does, d behind.
SameTurn(t2, t, d) ==
    t2.is = "on" /\ t2.next = t.next + d /\ t2.mode = t.mode /\ t2.bytes = t.bytes

LEMMA TurnSame ==
    ASSUME NEW l, NEW l2, NEW i \in Int, NEW i2 \in Int, NEW d \in Int, i2 = i + d,
           NEW m \in Q!Modes, Q!SplitTurn(l, i, m).is = "on", Q!At(l2, i2) = Q!At(l, i),
           m # "none" => Q!At(l2, i2 + 1) = Q!At(l, i + 1),
           m # "none" => (Q!IsHex(l2, i2) <=> Q!IsHex(l, i))
    PROVE  SameTurn(Q!SplitTurn(l2, i2, m), Q!SplitTurn(l, i, m), d)
<1> DEFINE c == Q!At(l, i)
           next == Q!At(l, i + 1)
           c2 == Q!At(l2, i2)
           next2 == Q!At(l2, i2 + 1)
           t == Q!SplitTurn(l, i, m)
           t2 == Q!SplitTurn(l2, i2, m)
<1>a. t.is = "on" /\ c2 = c /\ (m # "none" => next2 = next /\ (Q!IsHex(l2, i2) <=> Q!IsHex(l, i)))
  OBVIOUS
<1>b. /\ c = Q!At(l, i) /\ next = Q!At(l, i + 1) /\ t = Q!SplitTurn(l, i, m)
      /\ c2 = Q!At(l2, i2) /\ next2 = Q!At(l2, i2 + 1) /\ t2 = Q!SplitTurn(l2, i2, m)
  OBVIOUS
<1> SUFFICES SameTurn(t2, t, d)
  OBVIOUS
<1> HIDE DEF c, next, c2, next2, t, t2
<1>1. CommonTurn(t, l, i, m, c, next)
  <2>1. ASSUME NEW s, OwnTurn(t, s, l, i, m, c, next) PROVE t.is # "on"
    BY <1>a, <1>b, <2>1, StopIs DEF OwnTurn
  <2> QED
    BY <1>a, <1>b, <2>1, TurnsAre
<1>2. CommonTurn(t2, l2, i2, m, c2, next2) \/ \E s : OwnTurn(t2, s, l2, i2, m, c2, next2)
  BY <1>a, <1>b, TurnsAre
<1>3. /\ Q!IsHex(l, i) => c = "\\" /\ next = "x"
      /\ Q!IsHex(l2, i2) => c2 = "\\" /\ next2 = "x"
  BY <1>a, <1>b, HexBegins
<1>o. ASSUME NEW j, NEW j2, NEW m2, NEW b, t = Q!On(j, m2, b), t2 = Q!On(j2, m2, b),
             j2 = j + d
      PROVE  SameTurn(t2, t, d)
  <2>1. t.is = "on" /\ t.next = j /\ t.mode = m2 /\ t.bytes = b
    BY <1>a, <1>b, <1>o, OnIs
  <2>2. t2.is = "on" /\ t2.next = j2 /\ t2.mode = m2 /\ t2.bytes = b
    BY <1>a, <1>b, <1>o, OnIs
  <2> QED
    BY <1>a, <1>b, <1>o, <2>1, <2>2 DEF SameTurn
<1>4. CASE m = "none" /\ c \in Q!Ends /\ t = Q!Stop("ok", i)
  BY <1>a, <1>b, <1>4, StopIs
<1>5. CASE m = "none" /\ c = "quote" /\ t = Q!On(i + 1, "double", <<>>)
  <2>1. t2 = Q!On(i2 + 1, "double", <<>>)
    BY <1>a, <1>b, <1>2, <1>5 DEF CommonTurn, OwnTurn, Usual, Closes, Q!Ends
  <2>2. i2 + 1 = (i + 1) + d
    OBVIOUS
  <2> QED
    BY <1>a, <1>b, <1>5, <1>o, <2>1, <2>2
<1>6. CASE m = "none" /\ c = "'" /\ t = Q!On(i + 1, "single", <<>>)
  <2>1. t2 = Q!On(i2 + 1, "single", <<>>)
    BY <1>a, <1>b, <1>2, <1>6 DEF CommonTurn, OwnTurn, Usual, Closes, Q!Ends
  <2>2. i2 + 1 = (i + 1) + d
    OBVIOUS
  <2> QED
    BY <1>a, <1>b, <1>6, <1>o, <2>1, <2>2
<1>7. CASE Usual(m, c, next) /\ t = Q!On(i + 1, m, <<c>>)
  <2>1. t2 = Q!On(i2 + 1, m, <<c>>)
    BY <1>a, <1>b, <1>2, <1>3, <1>7 DEF CommonTurn, OwnTurn, Usual, Closes, Q!Ends
  <2>2. i2 + 1 = (i + 1) + d
    OBVIOUS
  <2> QED
    BY <1>a, <1>b, <1>7, <1>o, <2>1, <2>2
<1>8. CASE m = "double" /\ Q!IsHex(l, i) /\ t = Q!On(i + 4, m, <<"aa">>)
  <2>1. t2 = Q!On(i2 + 4, m, <<"aa">>)
    BY <1>a, <1>b, <1>2, <1>3, <1>8 DEF CommonTurn, OwnTurn, Usual, Closes
  <2>2. i2 + 4 = (i + 4) + d
    OBVIOUS
  <2> QED
    BY <1>a, <1>b, <1>8, <1>o, <2>1, <2>2
<1>9. CASE /\ m = "double" /\ c = "\\" /\ ~Q!IsHex(l, i) /\ next # "end"
           /\ t = Q!On(i + 2, m, <<Q!Escaped(next)>>)
  <2>1. t2 = Q!On(i2 + 2, m, <<Q!Escaped(next)>>)
    BY <1>a, <1>b, <1>2, <1>3, <1>9 DEF CommonTurn, OwnTurn, Usual, Closes
  <2>2. i2 + 2 = (i + 2) + d
    OBVIOUS
  <2> QED
    BY <1>a, <1>b, <1>9, <1>o, <2>1, <2>2
<1>10. CASE m = "single" /\ c = "\\" /\ next = "'" /\ t = Q!On(i + 2, m, <<"'">>)
  <2>1. t2 = Q!On(i2 + 2, m, <<"'">>)
    BY <1>a, <1>b, <1>2, <1>3, <1>10 DEF CommonTurn, OwnTurn, Usual, Closes
  <2>2. i2 + 2 = (i + 2) + d
    OBVIOUS
  <2> QED
    BY <1>a, <1>b, <1>10, <1>o, <2>1, <2>2
<1>11. CASE Closes(m, c) /\ next \in Q!Ends /\ t = Q!Stop("ok", i + 1)
  <2>1. t.is = "ok"
    BY <1>a, <1>b, <1>11, StopIs
  <2> QED
    BY <1>a, <1>b, <2>1
<1> QED
  BY <1>a, <1>b, <1>1, <1>4, <1>5, <1>6, <1>7, <1>8, <1>9, <1>10, <1>11 DEF CommonTurn

\* Where a token may end well.
LEMMA OkTurn ==
    ASSUME NEW l, NEW i \in Int, NEW m \in Q!Modes, NEW t, t = Q!SplitTurn(l, i, m), t.is = "ok"
    PROVE  \/ m = "none" /\ Q!At(l, i) \in Q!Ends /\ t.next = i
           \/ Closes(m, Q!At(l, i)) /\ Q!At(l, i + 1) \in Q!Ends /\ t.next = i + 1
<1> DEFINE c == Q!At(l, i)
           next == Q!At(l, i + 1)
<1>1. ASSUME NEW s, OwnTurn(t, s, l, i, m, c, next) PROVE t.is # "ok"
  BY <1>1, StopIs DEF OwnTurn
<1>2. CommonTurn(t, l, i, m, c, next)
  BY <1>1, TurnsAre
<1> HIDE DEF c, next
<1>3. \/ m = "none" /\ c \in Q!Ends /\ t.next = i
      \/ Closes(m, c) /\ next \in Q!Ends /\ t.next = i + 1
  BY <1>2, OnIs, StopIs DEF CommonTurn
<1> QED
  BY <1>3 DEF c, next

LEMMA OkTurnThere ==
    ASSUME NEW l, NEW i \in Int, NEW m \in Q!Modes, NEW t, t = Q!SplitTurn(l, i, m),
           NEW c, c = Q!At(l, i), NEW next, next = Q!At(l, i + 1)
    PROVE  /\ m = "none" /\ c \in Q!Ends => t = Q!Stop("ok", i)
           /\ Closes(m, c) /\ next \in Q!Ends => t = Q!Stop("ok", i + 1)
<1>1. CommonTurn(t, l, i, m, c, next) \/ \E s : OwnTurn(t, s, l, i, m, c, next)
  BY TurnsAre
<1>2. Q!IsHex(l, i) => c = "\\" /\ next = "x"
  BY HexBegins
<1> QED
  BY <1>1, <1>2 DEF CommonTurn, OwnTurn, Usual, Closes, Q!Ends

LEMMA ModeStays ==
    ASSUME NEW l, NEW i \in Int, NEW m \in Q!Modes, NEW t, t = Q!SplitTurn(l, i, m),
           t.is = "on", m # "none"
    PROVE  t.mode = m
<1> DEFINE c == Q!At(l, i)
           next == Q!At(l, i + 1)
<1>1. CommonTurn(t, l, i, m, c, next) \/ \E s : OwnTurn(t, s, l, i, m, c, next)
  BY TurnsAre
<1> HIDE DEF c, next
<1> QED
  BY <1>1, OnIs, StopIs DEF CommonTurn, OwnTurn

\* l2 has, from i + d on, the characters of l from i to e, and then ends a token as l does.
Alike(l, l2, i, e, d) ==
    /\ i + d \in Nat \ {0} /\ e + d + 1 \in Nat \ {0}
    /\ \A j \in i..e : Q!At(l2, j + d) = Q!At(l, j)
    /\ Q!At(l, e + 1) \in Q!Ends /\ Q!At(l2, e + d + 1) \in Q!Ends

Shifted(v, w, d) == v.is = w.is /\ v.bytes = w.bytes /\ v.to = w.to + d

LEMMA TokenSame ==
    ASSUME NEW l \in Seq(Q!Chars), NEW n, n = Len(l), NEW l2 \in Seq(Q!Chars), NEW n2, n2 = Len(l2),
           NEW d \in Int, NEW e \in 0..n, e + d <= n2
    PROVE  \A i \in 1..(e + 1) : \A m \in Q!Modes :
             /\ Alike(l, l2, i, e, d)
             /\ SentAt(l, i, m).is = "ok" /\ SentAt(l, i, m).to = e
             => Shifted(SentAt(l2, i + d, m), SentAt(l, i, m), d)
<1> DEFINE Same(i, m) == /\ Alike(l, l2, i, e, d)
                         /\ SentAt(l, i, m).is = "ok" /\ SentAt(l, i, m).to = e
                         => Shifted(SentAt(l2, i + d, m), SentAt(l, i, m), d)
           Good == {i \in 1..(e + 1) : \A m \in Q!Modes : Same(i, m)}
<1>0. n \in Nat /\ n2 \in Nat /\ e + 1 \in Nat
  BY Characters
<1>1. ASSUME NEW i \in 1..(e + 1), \A j \in (i + 1)..(e + 1) : j \in Good, NEW m \in Q!Modes,
             Alike(l, l2, i, e, d),
             NEW w, w = SentAt(l, i, m), w.is = "ok", w.to = e,
             NEW i2, i2 = i + d, NEW v, v = SentAt(l2, i2, m)
      PROVE  Shifted(v, w, d)
  <2> DEFINE c == Q!At(l, i)
             next == Q!At(l, i + 1)
             c2 == Q!At(l2, i2)
             next2 == Q!At(l2, i2 + 1)
             t == Q!SplitTurn(l, i, m)
             t2 == Q!SplitTurn(l2, i2, m)
             more == SentAt(l, t.next, t.mode)
             more2 == SentAt(l2, t2.next, t2.mode)
  <2>1. i \in 1..(n + 1) /\ i2 \in 1..(n2 + 1) /\ i \in Int /\ i2 \in Int
    BY <1>0, <1>1 DEF Alike
  <2>2. /\ t.next \in i..(n + 1) /\ t.mode \in Q!Modes
        /\ t.is = "on" => t.next \in (i + 1)..(n + 1) /\ Follows(w, t, more)
        /\ t.is # "on" => Finished(w, t)
        /\ t.is = "on" => w.to >= i
    BY <1>1, <2>1, SentFacts
  <2>3. /\ t2.is = "on" => Follows(v, t2, more2)
        /\ t2.is # "on" => Finished(v, t2)
    BY <1>1, <2>1, SentFacts, SMTT(30)
  <2>4. m # "none" => e >= i
    BY <1>1, <2>1, TokensAgree DEF Agree
  <2>5. e >= i => c2 = c
    BY <1>0, <1>1, <2>1 DEF Alike
  <2>6. CASE t.is = "on"
    <3>1. t.next \in (i + 1)..(n + 1) /\ more.is = "ok" /\ more.to = e /\ e >= i
      BY <1>1, <2>2, <2>6 DEF Follows
    <3>2. more.to \in (t.next - 1)..n /\ Agree(more, ShownAt(l, t.next, t.mode), t.next, t.mode)
      <4> HIDE DEF t
      <4>1. t.next \in 1..(n + 1) /\ t.mode \in Q!Modes
        BY <1>0, <1>1, <2>2
      <4> QED
        BY <4>1, SentFacts, TokensAgree
    <3>3. t.next \in (i + 1)..(e + 1) /\ (t.mode # "none" => t.next <= e)
      BY <1>0, <3>1, <3>2 DEF Agree
    <3>4. ASSUME m # "none" PROVE next2 = next /\ (Q!IsHex(l2, i2) <=> Q!IsHex(l, i))
      <4>1. t.mode # "none"
        BY <2>1, <2>6, <3>4, ModeStays
      <4>2. i + 1 \in i..e
        BY <3>3, <4>1
      <4>3. next2 = next
        <5>1. i2 + 1 = (i + 1) + d
          BY <1>1, <2>1
        <5> QED
          BY <1>1, <4>2, <5>1 DEF Alike
      <4>4. Q!IsHex(l2, i2) <=> Q!IsHex(l, i)
        <5> DEFINE A(k) == Q!At(l, k)
                   B(k) == Q!At(l2, k + d)
        <5>1. \A k \in i..e : B(k) = A(k)
          BY <1>1 DEF Alike
        <5>2. A(e + 1) \in Q!Ends /\ B(e + 1) \in Q!Ends
          <6>1. e + 1 + d = e + d + 1
            BY <1>0
          <6> QED
            BY <1>1, <6>1 DEF Alike
        <5>3. /\ Q!IsHex(l, i) <=> A(i) = "\\" /\ A(i + 1) = "x" /\ A(i + 2) = "a" /\ A(i + 3) = "a"
              /\ Q!IsHex(l2, i2) <=> B(i) = "\\" /\ B(i + 1) = "x" /\ B(i + 2) = "a" /\ B(i + 3) = "a"
          <6>1. i2 = i + d /\ i2 + 1 = i + 1 + d /\ i2 + 2 = i + 2 + d /\ i2 + 3 = i + 3 + d
            BY <1>1, <2>1
          <6> QED
            BY <6>1 DEF Q!IsHex
        <5>4. "a" \notin Q!Ends
          BY DEF Q!Ends
        <5> HIDE DEF A, B
        <5>5. \A k \in i..(e + 1) : A(k) = "a" <=> B(k) = "a"
          <6> TAKE k \in i..(e + 1)
          <6>1. k \in i..e \/ k = e + 1
            BY <1>0
          <6> QED
            BY <5>1, <5>2, <5>4, <6>1
        <5>6. A(i) = B(i) /\ A(i + 1) = B(i + 1) /\ (A(i + 2) = "a" <=> B(i + 2) = "a")
          <6>1. i \in i..e /\ i + 1 \in i..e /\ i + 2 \in i..(e + 1)
            BY <1>0, <2>1, <4>2
          <6> QED
            BY <5>1, <5>5, <6>1
        <5>7. A(i + 2) = "a" => (A(i + 3) = "a" <=> B(i + 3) = "a")
          <6>1. A(i + 2) = "a" => i + 2 \in i..e
            <7>1. i + 2 \in i..e \/ i + 2 = e + 1
              BY <1>0, <2>1, <4>2
            <7> QED
              BY <5>2, <5>4, <7>1
          <6>2. A(i + 2) = "a" => i + 3 \in i..(e + 1)
            BY <1>0, <2>1, <6>1
          <6> QED
            BY <5>5, <6>2
        <5> QED
          BY <5>3, <5>6, <5>7
      <4> QED
        BY <4>3, <4>4
    <3>5. SameTurn(t2, t, d)
      <4>1. c2 = c
        BY <2>5, <3>1
      <4>2. i2 = i + d
        BY <1>1
      <4>3. /\ Q!At(l2, i2) = Q!At(l, i) /\ Q!SplitTurn(l, i, m).is = "on"
            /\ m # "none" => Q!At(l2, i2 + 1) = Q!At(l, i + 1)
            /\ m # "none" => (Q!IsHex(l2, i2) <=> Q!IsHex(l, i))
        BY <2>6, <3>4, <4>1
      <4> QED
        BY <2>1, <4>2, <4>3, TurnSame
    <3>6. Follows(w, t, more) /\ Follows(v, t2, more2)
      BY <2>2, <2>3, <2>6, <3>5 DEF SameTurn
    <3>7. Alike(l, l2, t.next, e, d)
      <4> HIDE DEF t
      <4>1. \A j \in t.next..e : j \in i..e
        BY <1>0, <1>1, <3>3
      <4>2. t.next + d \in Nat \ {0}
        BY <1>0, <1>1, <2>1, <3>3, SMTT(30) DEF Alike
      <4> QED
        BY <1>1, <4>1, <4>2 DEF Alike
    <3>8. Shifted(more2, more, d)
      <4>1. t.next \in Good
        BY <1>1, <3>3
      <4>2. Same(t.next, t.mode)
        BY <2>2, <4>1
      <4> QED
        BY <3>1, <3>5, <3>7, <4>2 DEF SameTurn
    <3> HIDE DEF more, more2, t, t2
    <3> QED
      BY <3>5, <3>6, <3>8 DEF SameTurn, Shifted, Follows
  <2>7. CASE t.is = "ok"
    <3>1. w.to = t.next - 1 /\ w.bytes = <<>>
      BY <2>2, <2>7 DEF Finished
    <3>2. CASE m = "none" /\ c \in Q!Ends /\ t.next = i
      <4>1. i = e + 1 /\ i2 = e + d + 1
        BY SMTT(30), <1>1, <2>2, <3>1, <3>2
      <4>2. c2 \in Q!Ends
        BY <1>1, <4>1 DEF Alike
      <4>3. t2 = Q!Stop("ok", i2)
        BY <1>1, <2>1, <3>2, <4>2, OkTurnThere
      <4>4. t2.is = "ok" /\ t2.next = i2
        BY <4>3, StopIs
      <4>5. v.is = "ok" /\ v.bytes = <<>> /\ v.to = i2 - 1
        BY <2>3, <4>4 DEF Finished
      <4> QED
        BY <1>1, <3>1, <4>1, <4>5 DEF Shifted
    <3>3. CASE Closes(m, c) /\ next \in Q!Ends /\ t.next = i + 1
      <4>1. i = e /\ i2 + 1 = e + d + 1 /\ e >= i
        BY <1>1, <2>2, <3>1, <3>3
      <4>2. next2 \in Q!Ends /\ c2 = c
        BY <1>1, <2>5, <4>1 DEF Alike
      <4>3. t2 = Q!Stop("ok", i2 + 1)
        BY <1>1, <2>1, <3>3, <4>2, OkTurnThere
      <4>4. t2.is = "ok" /\ t2.next = i2 + 1
        BY <4>3, StopIs
      <4>5. v.is = "ok" /\ v.bytes = <<>> /\ v.to = i2 + 1 - 1
        <5> HIDE DEF t2
        <5> QED
          BY <2>1, <2>3, <4>4 DEF Finished
      <4> QED
        BY <1>1, <2>1, <3>1, <4>1, <4>5 DEF Shifted
    <3> QED
      BY <1>1, <2>1, <2>7, <3>2, <3>3, OkTurn
  <2>8. t.is = "on" \/ t.is = "ok"
    BY <1>1, <2>2 DEF Finished
  <2> QED
    BY <2>6, <2>7, <2>8
<1>2. ASSUME NEW i \in 1..(e + 1), \A j \in (i + 1)..(e + 1) : j \in Good PROVE i \in Good
  BY <1>1, <1>2
<1>3. \A i \in 1..(e + 1) : i \in Good
  <2> HIDE DEF Good
  <2> QED
    BY <1>0, <1>2, Downward
<1> QED
  BY <1>3

LEMMA JoinRest ==
    ASSUME NEW a, NEW x \in Seq(ArgSet), NEW y \in Seq(ArgSet)
    PROVE  Join(Join(<<a>>, x), y) = Join(<<a>>, Join(x, y))
BY DEF Join

LEMMA JoinNothing ==
    ASSUME NEW y \in Seq(ArgSet)
    PROVE  Join(<<>>, y) = y
BY DEF Join

LEMMA SentOrder ==
    ASSUME NEW l \in Seq(Q!Chars), NEW n, n = Len(l), NEW i \in 1..(n + 1),
           NEW r, r = SentFrom(l, i)
    PROVE  r.is = "ok" => r.args \in Seq(ArgSet) /\ InOrder(r.args, l, n, i)
BY ArgsAgree DEF Shown, InOrder

\* An accepted line from a token on: the token and what follows.
TokenFirst(l, i, t) ==
    /\ t.is = "ok" /\ t.to \in i..Len(l) /\ t.to + 1 \in (i + 1)..(Len(l) + 1)
    /\ t.bytes \in Seq(Q!Chars) /\ Q!At(l, t.to + 1) \in Q!Ends
    /\ SentFrom(l, t.to + 1).is = "ok" /\ SentFrom(l, t.to + 1).args \in Seq(ArgSet)
    /\ ArgOf(t, i) \in ArgSet /\ ArgOf(t, i).bytes = t.bytes
    /\ ArgOf(t, i).from = i - 1 /\ ArgOf(t, i).to = t.to
    /\ SentFrom(l, i).args = Join(<<ArgOf(t, i)>>, SentFrom(l, t.to + 1).args)

LEMMA SentFirst ==
    ASSUME NEW l \in Seq(Q!Chars), NEW n, n = Len(l), NEW i \in 1..n, l[i] # "space",
           NEW t, t = SentAt(l, i, "none"),
           SentFrom(l, i).is = "ok" \/ (t.is = "ok" /\ SentFrom(l, t.to + 1).is = "ok")
    PROVE  TokenFirst(l, i, t) /\ SentFrom(l, i).is = "ok"
<1> DEFINE more == SentFrom(l, t.to + 1)
           r == SentFrom(l, i)
<1>1. /\ t.to \in i..n /\ t.to + 1 \in (i + 1)..(n + 1) /\ t.bytes \in Seq(Q!Chars)
      /\ t.is \in {"ok", "unbalanced", "unspaced"}
      /\ t.is = "ok" => Q!At(l, t.to + 1) \in Q!Ends
      /\ t.is # "ok" => r = [is |-> t.is, args |-> <<>>]
      /\ t.is = "ok" /\ more.is # "ok" => r = more
      /\ t.is = "ok" /\ more.is = "ok" =>
            r = [is |-> "ok", args |-> Join(<<ArgOf(t, i)>>, more.args)]
  BY SentToken
<1>2. n \in Nat
  BY Characters
<1>3. t.to \in Nat /\ i \in Nat \ {0} /\ t.to + 1 \in 1..(n + 1)
  BY <1>1, <1>2
<1>4. more.is = "ok" => more.args \in Seq(ArgSet)
  BY <1>3, SentOrder
<1>5. /\ ArgOf(t, i) \in ArgSet /\ ArgOf(t, i).bytes = t.bytes
      /\ ArgOf(t, i).from = i - 1 /\ ArgOf(t, i).to = t.to
  BY <1>1, <1>3, ArgIs
<1> HIDE DEF more, r
<1>6. t.is = "ok" /\ more.is = "ok"
  <2>1. t.is # "ok" => r.is # "ok"
    BY <1>1
  <2>2. t.is = "ok" /\ more.is # "ok" => r.is # "ok"
    BY <1>1
  <2> QED
    BY <2>1, <2>2 DEF r, more
<1>7. r.is = "ok" /\ r.args = Join(<<ArgOf(t, i)>>, more.args)
  BY <1>1, <1>6
<1> QED
  BY <1>1, <1>4, <1>5, <1>6, <1>7 DEF TokenFirst, r, more

-----------------------------------------------------------------------------
(* The line: what is before and behind a change of it. *)

\* No argument lies across the offset b.
Cut(args, b) == \A k \in 1..Len(args) : args[k].to < b \/ args[k].from >= b

Before(X, b) == X \in Seq(ArgSet) /\ \A k \in 1..Len(X) : X[k].to < b

\* The arguments of l from i on, and of l2, are those before the offset b and then those behind.
Splits(l, l2, i, b, X) ==
    /\ Before(X, b)
    /\ SentFrom(l, i).args = Join(X, SentFrom(l, b + 1).args)
    /\ SentFrom(l2, i).is = "ok" /\ SentFrom(l2, i).args = Join(X, SentFrom(l2, b + 1).args)

LEMMA PrefixSame ==
    ASSUME NEW l \in Seq(Q!Chars), NEW n, n = Len(l), NEW l2 \in Seq(Q!Chars), NEW n2, n2 = Len(l2),
           NEW b \in 0..n, b <= n2, \A j \in 1..b : Q!At(l2, j) = Q!At(l, j)
    PROVE  \A i \in 1..(b + 1) :
             SentFrom(l, i).is = "ok" /\ Cut(SentFrom(l, i).args, b)
             => /\ SentFrom(l, b + 1).is = "ok"
                /\ SentFrom(l2, b + 1).is = "ok" => \E X : Splits(l, l2, i, b, X)
<1> DEFINE Good == {i \in 1..(b + 1) :
             SentFrom(l, i).is = "ok" /\ Cut(SentFrom(l, i).args, b)
             => /\ SentFrom(l, b + 1).is = "ok"
                /\ SentFrom(l2, b + 1).is = "ok" => \E X : Splits(l, l2, i, b, X)}
<1>0. /\ n \in Nat /\ n2 \in Nat /\ b + 1 \in Nat /\ b \in Nat
      /\ b + 1 \in 1..(n + 1) /\ b + 1 \in 1..(n2 + 1)
  BY Characters
<1>1. ASSUME NEW i \in 1..(b + 1), \A j \in (i + 1)..(b + 1) : j \in Good,
             SentFrom(l, i).is = "ok", Cut(SentFrom(l, i).args, b)
      PROVE  /\ SentFrom(l, b + 1).is = "ok"
             /\ SentFrom(l2, b + 1).is = "ok" => \E X : Splits(l, l2, i, b, X)
  <2>1. CASE i = b + 1
    <3> SUFFICES ASSUME SentFrom(l2, b + 1).is = "ok" PROVE \E X : Splits(l, l2, i, b, X)
      BY <1>1, <2>1
    <3>1. SentFrom(l, i).args \in Seq(ArgSet) /\ SentFrom(l2, i).args \in Seq(ArgSet)
      BY <1>0, <1>1, <2>1, SentOrder
    <3>2. Before(<<>>, b)
      BY DEF Before
    <3>3. Splits(l, l2, i, b, <<>>)
      BY <2>1, <3>1, <3>2, JoinNothing DEF Splits
    <3> QED
      BY <1>1, <2>1, <3>3
  <2>2. ASSUME i \in 1..b
        PROVE  /\ i \in 1..n /\ i \in 1..n2 /\ l2[i] = l[i] /\ i + 1 \in (i + 1)..(b + 1)
    <3>1. i \in 1..n /\ i \in 1..n2 /\ i + 1 \in (i + 1)..(b + 1)
      BY <1>0, <2>2
    <3> QED
      BY <2>2, <3>1, Characters
  <2>3. CASE i \in 1..b /\ l[i] = "space"
    <3>1. SentFrom(l, i) = SentFrom(l, i + 1) /\ SentFrom(l2, i) = SentFrom(l2, i + 1)
      BY <2>2, <2>3, SentSteps
    <3>2. /\ SentFrom(l, b + 1).is = "ok"
          /\ SentFrom(l2, b + 1).is = "ok" => \E X : Splits(l, l2, i + 1, b, X)
      BY <1>1, <2>2, <2>3, <3>1
    <3> QED
      BY <3>1, <3>2 DEF Splits
  <2>4. CASE i \in 1..b /\ l[i] # "space"
    <3> DEFINE t == SentAt(l, i, "none")
               t2 == SentAt(l2, i, "none")
               a == ArgOf(t, i)
               e == t.to
               more == SentFrom(l, e + 1)
    <3>1. TokenFirst(l, i, t)
      BY <1>1, <2>2, <2>4, SentFirst
    <3>2. /\ t.is = "ok" /\ e \in i..n /\ more.is = "ok" /\ more.args \in Seq(ArgSet)
          /\ a \in ArgSet /\ a.from = i - 1 /\ a.to = e /\ a.bytes = t.bytes
          /\ SentFrom(l, i).args = Join(<<a>>, more.args) /\ Q!At(l, e + 1) \in Q!Ends
      BY <3>1 DEF TokenFirst
    <3>3. Grown(SentFrom(l, i).args, a, more.args)
      <4> HIDE DEF a, more
      <4> QED
        BY <3>2, OneMore
    <3> HIDE DEF t, t2, a, e, more
    <3>4. 1 \in 1..Len(SentFrom(l, i).args) /\ SentFrom(l, i).args[1] = a
      BY <3>3 DEF Grown
    <3>5. e < b
      <4>1. a.to < b \/ a.from >= b
        BY <1>1, <3>4 DEF Cut
      <4> QED
        BY <1>0, <2>4, <3>2, <4>1
    <3>6. Cut(more.args, b)
      <4> SUFFICES ASSUME NEW k \in 1..Len(more.args)
                   PROVE  more.args[k].to < b \/ more.args[k].from >= b
        BY DEF Cut
      <4>1. Len(SentFrom(l, i).args) = Len(more.args) + 1 /\ Len(more.args) \in Nat
        BY <3>3 DEF Grown
      <4>2. k + 1 \in 1..Len(SentFrom(l, i).args)
        BY <4>1
      <4>3. SentFrom(l, i).args[k + 1] = more.args[k]
        BY <3>3, Zenon DEF Grown
      <4> QED
        BY <1>1, <4>2, <4>3 DEF Cut
    <3>7. /\ e + 1 \in (i + 1)..(b + 1) /\ e + 1 \in 1..b /\ e \in 0..n
          /\ e + 0 <= n2 /\ i + 0 = i /\ i \in 1..(e + 1)
      BY <1>0, <2>4, <3>2, <3>5
    <3>8. /\ SentFrom(l, b + 1).is = "ok"
          /\ SentFrom(l2, b + 1).is = "ok" => \E X : Splits(l, l2, e + 1, b, X)
      BY <1>1, <3>2, <3>6, <3>7 DEF more
    <3> SUFFICES ASSUME SentFrom(l2, b + 1).is = "ok" PROVE \E X : Splits(l, l2, i, b, X)
      BY <3>8
    <3>9. PICK X : Splits(l, l2, e + 1, b, X)
      BY <3>8
    <3>10. Alike(l, l2, i, e, 0)
      <4>1. \A j \in i..e : j + 0 = j /\ j \in 1..b
        BY <1>0, <2>4, <3>5, <3>7
      <4>2. e + 0 + 1 = e + 1 /\ i + 0 \in Nat \ {0} /\ e + 0 + 1 \in Nat \ {0}
        BY <1>0, <2>4, <3>7
      <4>3. Q!At(l2, e + 1) = Q!At(l, e + 1)
        BY <3>7
      <4> QED
        BY <3>2, <4>1, <4>2, <4>3 DEF Alike
    <3>11. Shifted(t2, t, 0)
      <4>1. /\ "none" \in Q!Modes /\ t = SentAt(l, i, "none") /\ t.to = e
            /\ t2 = SentAt(l2, i + 0, "none")
        BY <3>7 DEF Q!Modes, t, t2, e
      <4> QED
        BY <3>2, <3>7, <3>10, <4>1, TokenSame
    <3>12. t2.is = "ok" /\ t2.to = e /\ t2.bytes = t.bytes
      BY <3>2, <3>7, <3>11 DEF Shifted, e
    <3>13. ArgOf(t2, i) = a
      BY <3>2, <3>12 DEF ArgOf, a, e
    <3>14. SentFrom(l2, e + 1).is = "ok"
      BY <3>9 DEF Splits
    <3>15. TokenFirst(l2, i, t2) /\ SentFrom(l2, i).is = "ok"
      BY <2>2, <2>4, <3>12, <3>14, SentFirst DEF t2
    <3>16. SentFrom(l2, i).args = Join(<<a>>, SentFrom(l2, e + 1).args)
      BY <3>12, <3>13, <3>15 DEF TokenFirst
    <3> DEFINE Y == SentFrom(l, b + 1).args
               Y2 == SentFrom(l2, b + 1).args
    <3>17. Y \in Seq(ArgSet) /\ Y2 \in Seq(ArgSet)
      BY <1>0, <3>8, SentOrder
    <3>18. /\ X \in Seq(ArgSet) /\ more.args = Join(X, Y) /\ SentFrom(l2, e + 1).args = Join(X, Y2)
      BY <3>9 DEF Splits, Before, more
    <3> HIDE DEF Y, Y2
    <3>19. /\ Join(Join(<<a>>, X), Y) = Join(<<a>>, Join(X, Y))
           /\ Join(Join(<<a>>, X), Y2) = Join(<<a>>, Join(X, Y2))
      BY <3>17, <3>18, JoinRest
    <3>20. Grown(Join(<<a>>, X), a, X)
      BY <3>2, <3>18, OneMore
    <3>21. Before(Join(<<a>>, X), b)
      <4> DEFINE Z == Join(<<a>>, X)
      <4> HIDE DEF Z
      <4>1. Z \in Seq(ArgSet) /\ Len(Z) = Len(X) + 1 /\ Z[1] = a /\ Len(X) \in Nat
            /\ \A k \in 2..(Len(X) + 1) : Z[k] = X[k - 1] /\ k - 1 \in 1..Len(X)
        BY <3>20 DEF Grown, Z
      <4>2. ASSUME NEW k \in 1..Len(Z) PROVE Z[k].to < b
        <5>1. k = 1 \/ k \in 2..(Len(X) + 1)
          BY <4>1
        <5>2. \A q \in 1..Len(X) : X[q].to < b
          BY <3>9 DEF Splits, Before
        <5> QED
          BY <3>2, <3>5, <4>1, <5>1, <5>2
      <4> QED
        BY <4>1, <4>2 DEF Before, Z
    <3>22. Splits(l, l2, i, b, Join(<<a>>, X))
      BY <3>2, <3>15, <3>16, <3>18, <3>19, <3>21 DEF Splits, Y, Y2
    <3> QED
      BY <3>22
  <2>5. i = b + 1 \/ i \in 1..b
    BY <1>0
  <2> QED
    BY <2>1, <2>3, <2>4, <2>5
<1>2. ASSUME NEW i \in 1..(b + 1), \A j \in (i + 1)..(b + 1) : j \in Good PROVE i \in Good
  BY <1>1, <1>2
<1>3. \A i \in 1..(b + 1) : i \in Good
  <2> HIDE DEF Good
  <2> QED
    BY <1>0, <1>2, Downward
<1> QED
  BY <1>3

\* The same arguments, wherever they are.
SameBytes(a2, a) ==
    /\ a2 \in Seq(ArgSet) /\ a \in Seq(ArgSet) /\ Len(a2) = Len(a)
    /\ \A k \in 1..Len(a) : a2[k].bytes = a[k].bytes

\* What is behind the offset b in l is in l2 too, d behind.
Moved(l, l2, b, d) == \A j \in (b + 1)..(Len(l) + 1) : Q!At(l2, j + d) = Q!At(l, j)

BehindSame(l, l2, b, d) ==
    \A i \in 1..(Len(l) + 1) :
      i >= b + 1 /\ SentFrom(l, i).is = "ok"
      => SentFrom(l2, i + d).is = "ok" /\ SameBytes(SentFrom(l2, i + d).args, SentFrom(l, i).args)

LEMMA SuffixSame ==
    ASSUME NEW l \in Seq(Q!Chars), NEW l2 \in Seq(Q!Chars), NEW d \in Int, Len(l2) = Len(l) + d,
           NEW b \in 0..Len(l), b + d >= 0, Moved(l, l2, b, d)
    PROVE  BehindSame(l, l2, b, d)
<1> DEFINE n == Len(l)
           n2 == Len(l2)
<1> DEFINE Good == {i \in 1..(n + 1) :
             i >= b + 1 /\ SentFrom(l, i).is = "ok"
             => /\ SentFrom(l2, i + d).is = "ok"
                /\ SameBytes(SentFrom(l2, i + d).args, SentFrom(l, i).args)}
<1>0. n \in Nat /\ n2 \in Nat /\ n + 1 \in Nat /\ b \in Nat /\ n2 = n + d
  BY Characters
<1>n. n = Len(l) /\ n2 = Len(l2) /\ b \in 0..n /\ n2 = n + d
  OBVIOUS
<1>m. \A j \in (b + 1)..(n + 1) : Q!At(l2, j + d) = Q!At(l, j)
  BY DEF Moved
<1> HIDE DEF n, n2
<1>1. ASSUME NEW i \in 1..(n + 1), \A j \in (i + 1)..(n + 1) : j \in Good,
             i >= b + 1, SentFrom(l, i).is = "ok"
      PROVE  /\ SentFrom(l2, i + d).is = "ok"
             /\ SameBytes(SentFrom(l2, i + d).args, SentFrom(l, i).args)
  <2>0. i \in (b + 1)..(n + 1) /\ i + d \in 1..(n2 + 1) /\ i + d \in Nat \ {0}
    BY <1>0, <1>n, <1>1
  <2>1. CASE i = n + 1
    <3>1. i + d = n2 + 1
      BY <1>0, <1>n, <2>1
    <3>2. /\ SentFrom(l, i) = [is |-> "ok", args |-> <<>>]
          /\ SentFrom(l2, i + d) = [is |-> "ok", args |-> <<>>]
      <4>1. SentFrom(l, n + 1) = [is |-> "ok", args |-> <<>>]
        BY <1>n, SentSteps
      <4>2. SentFrom(l2, n2 + 1) = [is |-> "ok", args |-> <<>>]
        BY <1>n, SentSteps
      <4> QED
        BY <2>1, <3>1, <4>1, <4>2
    <3>3. SameBytes(<<>>, <<>>)
      BY DEF SameBytes
    <3> QED
      BY <3>2, <3>3
  <2>2. ASSUME i \in 1..n PROVE i + d \in 1..n2 /\ l2[i + d] = l[i] /\ (i + 1) + d = (i + d) + 1
    <3>1. i + d \in 1..n2 /\ (i + 1) + d = (i + d) + 1
      BY <1>0, <1>n, <1>1, <2>0, <2>2
    <3>2. Q!At(l2, i + d) = l2[i + d] /\ Q!At(l, i) = l[i]
      BY <1>n, <2>2, <3>1, Characters
    <3> QED
      BY <1>m, <2>0, <3>1, <3>2
  <2>3. CASE i \in 1..n /\ l[i] = "space"
    <3>1. SentFrom(l, i) = SentFrom(l, i + 1) /\ SentFrom(l2, i + d) = SentFrom(l2, (i + 1) + d)
      BY <1>n, <2>2, <2>3, SentSteps, SMTT(30)
    <3>2. i + 1 \in (i + 1)..(n + 1) /\ i + 1 >= b + 1
      BY <1>0, <1>n, <1>1, <2>3
    <3> QED
      BY <1>1, <3>1, <3>2
  <2>4. CASE i \in 1..n /\ l[i] # "space"
    <3> DEFINE t == SentAt(l, i, "none")
               t2 == SentAt(l2, i + d, "none")
               a == ArgOf(t, i)
               a2 == ArgOf(t2, i + d)
               e == t.to
               more == SentFrom(l, e + 1)
               more2 == SentFrom(l2, t2.to + 1)
    <3>1. TokenFirst(l, i, t)
      BY <1>n, <1>1, <2>4, SentFirst
    <3>2. /\ t.is = "ok" /\ e \in i..n /\ more.is = "ok" /\ more.args \in Seq(ArgSet)
          /\ a \in ArgSet /\ a.bytes = t.bytes
          /\ SentFrom(l, i).args = Join(<<a>>, more.args) /\ Q!At(l, e + 1) \in Q!Ends
      BY <1>n, <3>1 DEF TokenFirst
    <3>e. t.to = e /\ t = SentAt(l, i, "none") /\ t2 = SentAt(l2, i + d, "none")
          /\ more = SentFrom(l, e + 1) /\ more2 = SentFrom(l2, t2.to + 1)
          /\ a2 = ArgOf(t2, i + d)
      OBVIOUS
    <3> HIDE DEF t, t2, a, a2, e, more, more2
    <3>3. /\ e \in 0..n /\ e + d <= n2 /\ i \in 1..(e + 1) /\ e + 1 \in (b + 1)..(n + 1)
          /\ e + d + 1 = (e + 1) + d /\ e + d + 1 \in Nat \ {0} /\ e + 1 \in (i + 1)..(n + 1)
          /\ e + 1 \in 1..(n + 1)
      BY <1>0, <1>n, <1>1, <2>0, <2>4, <3>2, SMTT(30)
    <3>4. Alike(l, l2, i, e, d)
      <4>1. \A j \in i..e : j \in (b + 1)..(n + 1)
        BY <1>0, <1>n, <2>0, <3>3
      <4>2. Q!At(l2, e + d + 1) = Q!At(l, e + 1)
        BY <1>m, <3>3
      <4> QED
        BY <1>m, <2>0, <3>2, <3>3, <4>1, <4>2 DEF Alike
    <3>5. Shifted(t2, t, d)
      <4>1. "none" \in Q!Modes
        BY DEF Q!Modes
      <4> QED
        BY <1>n, <3>2, <3>3, <3>4, <3>e, <4>1, TokenSame
    <3>6. t2.is = "ok" /\ t2.to = e + d /\ t2.bytes = t.bytes /\ t2.to + 1 = (e + 1) + d
      BY <3>2, <3>3, <3>5, <3>e DEF Shifted
    <3>7. more2.is = "ok" /\ SameBytes(more2.args, more.args)
      <4>1. e + 1 >= b + 1
        BY <3>3
      <4>2. SentFrom(l2, (e + 1) + d).is = "ok"
            /\ SameBytes(SentFrom(l2, (e + 1) + d).args, SentFrom(l, e + 1).args)
        BY <1>1, <3>2, <3>3, <3>e, <4>1
      <4> QED
        BY <3>6, <3>e, <4>2
    <3>8. TokenFirst(l2, i + d, t2) /\ SentFrom(l2, i + d).is = "ok"
      BY <1>n, <2>2, <2>4, <3>6, <3>7, <3>e, SentFirst
    <3>9. /\ a2 \in ArgSet /\ a2.bytes = t2.bytes
          /\ SentFrom(l2, i + d).args = Join(<<a2>>, more2.args)
      BY <3>8, <3>e DEF TokenFirst
    <3>10. /\ Grown(SentFrom(l, i).args, a, more.args)
           /\ Grown(SentFrom(l2, i + d).args, a2, more2.args)
      BY <3>2, <3>7, <3>9, OneMore DEF SameBytes
    <3>11. SameBytes(SentFrom(l2, i + d).args, SentFrom(l, i).args)
      <4> DEFINE A == SentFrom(l, i).args
                 A2 == SentFrom(l2, i + d).args
      <4>1. Grown(A, a, more.args) /\ Grown(A2, a2, more2.args)
        BY <3>10
      <4> HIDE DEF A, A2
      <4>2. A \in Seq(ArgSet) /\ A2 \in Seq(ArgSet) /\ Len(A2) = Len(A)
        BY <3>7, <4>1 DEF Grown, SameBytes
      <4>3. ASSUME NEW k \in 1..Len(A) PROVE A2[k].bytes = A[k].bytes
        <5>1. CASE k = 1
          BY <3>2, <3>6, <3>9, <4>1, <5>1 DEF Grown
        <5>2. CASE k # 1
          <6>1. k \in 2..(Len(more.args) + 1) /\ Len(more2.args) = Len(more.args)
            BY <3>7, <4>1, <5>2 DEF Grown, SameBytes
          <6>2. A[k] = more.args[k - 1] /\ A2[k] = more2.args[k - 1] /\ k - 1 \in 1..Len(more.args)
            BY <4>1, <6>1 DEF Grown
          <6> QED
            BY <3>7, <6>2 DEF SameBytes
        <5> QED
          BY <5>1, <5>2
      <4>4. SameBytes(A2, A)
        BY <4>2, <4>3 DEF SameBytes
      <4> QED
        BY <4>4 DEF A, A2
    <3> QED
      BY <3>8, <3>11
  <2>5. i = n + 1 \/ i \in 1..n
    BY <1>0, <1>n
  <2> QED
    BY <2>1, <2>3, <2>4, <2>5
<1>2. ASSUME NEW i \in 1..(n + 1), \A j \in (i + 1)..(n + 1) : j \in Good PROVE i \in Good
  BY <1>1, <1>2
<1>3. \A i \in 1..(n + 1) : i \in Good
  <2> HIDE DEF Good
  <2> QED
    BY <1>0, <1>n, <1>2, Downward
<1> QED
  BY <1>3, <1>n DEF BehindSame

-----------------------------------------------------------------------------
(* The line: what is quoted is read as it was. *)

QuotedAt(g, arg, i) == IF i > Len(arg) THEN <<>> ELSE Join(Q!QuotedChar(arg[i]), g[i + 1])

LEMMA QuotedExists ==
    ASSUME NEW arg \in Seq(Q!Chars), NEW N, N = Len(arg) + 1
    PROVE  \E g : g = [i \in 1..N |-> QuotedAt(g, arg, i)]
<1> DEFINE Is(g, m) == g = [i \in m..N |-> QuotedAt(g, arg, i)]
           S == {m \in 1..N : \E g : Is(g, m)}
<1>0. N \in Nat /\ N >= 1 /\ Len(arg) \in Nat
  OBVIOUS
<1>1. ASSUME NEW m \in 1..N, \A j \in (m + 1)..N : j \in S
      PROVE  m \in S
  <2>1. PICK g : \A i \in (m + 1)..N : g[i] = QuotedAt(g, arg, i)
    <3>1. CASE m = N
      BY <1>0, <3>1
    <3>2. CASE m # N
      <4>1. m + 1 \in (m + 1)..N
        BY <1>0, <3>2
      <4>2. PICK g : Is(g, m + 1)
        BY <1>1, <4>1
      <4>3. \A i \in (m + 1)..N : g[i] = QuotedAt(g, arg, i)
        BY <4>2, Zenon
      <4> QED
        BY <4>3
    <3> QED
      BY <3>1, <3>2
  <2> DEFINE h == [i \in m..N |-> IF i >= m + 1 THEN g[i] ELSE QuotedAt(g, arg, m)]
  <2>2. \A i \in (m + 1)..N : h[i] = g[i]
    BY <1>0
  <2>3. h[m] = QuotedAt(g, arg, m) /\ h = [i \in m..N |-> h[i]]
    BY <1>0
  <2> HIDE DEF h
  <2>4. ASSUME NEW i \in m..N PROVE QuotedAt(h, arg, i) = QuotedAt(g, arg, i)
    <3>1. i > Len(arg) \/ i + 1 \in (m + 1)..N
      BY <1>0
    <3> QED
      BY <2>2, <3>1 DEF QuotedAt
  <2>5. \A i \in m..N : h[i] = QuotedAt(h, arg, i)
    <3> TAKE i \in m..N
    <3>1. i = m \/ i \in (m + 1)..N
      BY <1>0
    <3> QED
      BY <2>1, <2>2, <2>3, <2>4, <3>1
  <2>6. Is(h, m)
    BY <2>3, <2>5, Zenon
  <2> QED
    BY <2>6
<1>2. 1 \in S
  <2> HIDE DEF S
  <2>1. \A i \in 1..N : i \in S
    BY <1>0, <1>1, Downward
  <2> QED
    BY <1>0, <2>1
<1> QED
  BY <1>2

LEMMA QuotedIs ==
    ASSUME NEW arg \in Seq(Q!Chars), NEW n, n = Len(arg)
    PROVE  /\ n \in Nat
           /\ Q!Quoted(arg)[n + 1] = <<>>
           /\ \A i \in 1..n : Q!Quoted(arg)[i] = Join(Q!QuotedChar(arg[i]), Q!Quoted(arg)[i + 1])
<1> DEFINE N == n + 1
           w == CHOOSE g : g = [i \in 1..N |-> QuotedAt(g, arg, i)]
<1>1. w = [i \in 1..N |-> QuotedAt(w, arg, i)]
  BY QuotedExists, SMTT(30)
<1>2. Q!Quoted(arg) = w
  BY DEF Q!Quoted, QuotedAt, Join
<1> HIDE DEF w
<1>3. \A i \in 1..N : w[i] = QuotedAt(w, arg, i)
  BY <1>1, Zenon
<1>4. n \in Nat /\ n + 1 \in 1..N /\ \A i \in 1..n : i \in 1..N /\ ~(i > n)
  OBVIOUS
<1>5. w[n + 1] = <<>>
  BY <1>3, <1>4 DEF QuotedAt
<1>6. \A i \in 1..n : w[i] = Join(Q!QuotedChar(arg[i]), w[i + 1])
  BY <1>3, <1>4 DEF QuotedAt
<1> QED
  BY <1>2, <1>4, <1>5, <1>6

\* The text s is in l from position p on.
There(l, p, s) == \A k \in 1..Len(s) : Q!At(l, p + k - 1) = s[k]

LEMMA ThereIn ==
    ASSUME NEW l, NEW p \in Nat, NEW a \in Seq(Q!Chars), NEW b \in Seq(Q!Chars),
           There(l, p, Join(a, b))
    PROVE  There(l, p, a) /\ There(l, p + Len(a), b)
<1> DEFINE c == Join(a, b)
<1>1. Joined(c, a, b, Q!Chars)
  BY JoinIs
<1> HIDE DEF c
<1>2. There(l, p, c)
  BY DEF c
<1>3. Len(c) = Len(a) + Len(b) /\ Len(a) \in Nat /\ Len(b) \in Nat
      /\ (\A k \in 1..Len(a) : c[k] = a[k]) /\ (\A k \in 1..Len(b) : c[Len(a) + k] = b[k])
  BY <1>1 DEF Joined
<1>4. ASSUME NEW k \in 1..Len(a) PROVE Q!At(l, p + k - 1) = a[k]
  <2>1. k \in 1..Len(c)
    BY <1>3
  <2> QED
    BY <1>2, <1>3, <2>1 DEF There
<1>5. ASSUME NEW k \in 1..Len(b) PROVE Q!At(l, p + Len(a) + k - 1) = b[k]
  <2>1. Len(a) + k \in 1..Len(c) /\ p + (Len(a) + k) - 1 = p + Len(a) + k - 1
    BY <1>3
  <2> QED
    BY <1>2, <1>3, <2>1 DEF There
<1> QED
  BY <1>4, <1>5 DEF There

\* What a character is written as is read as that character.
LEMMA QuotedCharIs ==
    ASSUME NEW c \in Q!Chars, NEW q, q = Q!QuotedChar(c)
    PROVE  /\ q \in Seq(Q!Chars) /\ Len(q) \in Nat \ {0}
           /\ \/ c \in {"\\", "quote"} /\ Len(q) = 2 /\ q[1] = "\\" /\ q[2] = c
              \/ c = "bell" /\ Len(q) = 2 /\ q[1] = "\\" /\ q[2] = "a"
              \/ /\ c = "aa" /\ Len(q) = 4
                 /\ q[1] = "\\" /\ q[2] = "x" /\ q[3] = "a" /\ q[4] = "a"
              \/ c \notin {"\\", "quote", "bell", "aa"} /\ Len(q) = 1 /\ q[1] = c
<1>1. "\\" \in Q!Chars /\ "quote" \in Q!Chars /\ "a" \in Q!Chars /\ "x" \in Q!Chars
  BY DEF Q!Chars, Q!Typed
<1>2. CASE c \in {"\\", "quote"}
  <2>1. q = <<"\\", c>>
    BY <1>2 DEF Q!QuotedChar
  <2> QED
    BY <1>1, <1>2, <2>1
<1>3. CASE c = "bell"
  <2>1. q = <<"\\", "a">>
    BY <1>3 DEF Q!QuotedChar
  <2>2. q \in Seq(Q!Chars)
    BY <1>1, <2>1
  <2>3. Len(q) = 2 /\ q[1] = "\\" /\ q[2] = "a"
    BY <2>1
  <2> QED
    BY <1>3, <2>2, <2>3
<1>4. CASE c = "aa"
  <2>1. q = <<"\\", "x", "a", "a">>
    BY <1>4 DEF Q!QuotedChar
  <2>2. q \in Seq(Q!Chars)
    BY <1>1, <2>1
  <2>3. Len(q) = 4 /\ q[1] = "\\" /\ q[2] = "x" /\ q[3] = "a" /\ q[4] = "a"
    BY <2>1
  <2> QED
    BY <1>4, <2>2, <2>3
<1>5. CASE c \notin {"\\", "quote", "bell", "aa"}
  <2>1. q = <<c>>
    BY <1>5 DEF Q!QuotedChar
  <2> QED
    BY <1>5, <2>1
<1> QED
  BY <1>2, <1>3, <1>4, <1>5

LEMMA DoubleTurns ==
    ASSUME NEW l, NEW p \in Int
    PROVE  /\ Q!At(l, p) \notin {"end", "\\", "quote"} =>
                Q!SplitTurn(l, p, "double") = Q!On(p + 1, "double", <<Q!At(l, p)>>)
           /\ Q!IsHex(l, p) => Q!SplitTurn(l, p, "double") = Q!On(p + 4, "double", <<"aa">>)
           /\ Q!At(l, p) = "\\" /\ Q!At(l, p + 1) \notin {"end", "x"} =>
                Q!SplitTurn(l, p, "double") = Q!On(p + 2, "double", <<Q!Escaped(Q!At(l, p + 1))>>)
<1> DEFINE t == Q!SplitTurn(l, p, "double")
           c == Q!At(l, p)
           next == Q!At(l, p + 1)
<1>1. "double" \in Q!Modes
  BY DEF Q!Modes
<1>2. CommonTurn(t, l, p, "double", c, next) \/ \E s : OwnTurn(t, s, l, p, "double", c, next)
  BY <1>1, TurnsAre
<1>3. Q!IsHex(l, p) => c = "\\" /\ next = "x"
  BY HexBegins
<1> HIDE DEF t, c, next
<1>4. /\ c \notin {"end", "\\", "quote"} => t = Q!On(p + 1, "double", <<c>>)
      /\ Q!IsHex(l, p) => t = Q!On(p + 4, "double", <<"aa">>)
      /\ c = "\\" /\ next \notin {"end", "x"} => t = Q!On(p + 2, "double", <<Q!Escaped(next)>>)
  BY <1>2, <1>3 DEF CommonTurn, OwnTurn, Usual, Closes
<1> QED
  BY <1>4 DEF t, c, next

LEMMA CharRead ==
    ASSUME NEW l, NEW p \in Nat, NEW c \in Q!Chars, NEW q, q = Q!QuotedChar(c), There(l, p, q)
    PROVE  Q!SplitTurn(l, p, "double") = Q!On(p + Len(q), "double", <<c>>)
<1>1. ASSUME NEW k \in 1..Len(q) PROVE Q!At(l, p + k - 1) = q[k]
  BY DEF There
<1>2. /\ Len(q) \in Nat \ {0} /\ p + 1 - 1 = p /\ p + 2 - 1 = p + 1
      /\ p + 3 - 1 = p + 2 /\ p + 4 - 1 = p + 3
  BY QuotedCharIs
<1>3. Q!At(l, p) = q[1]
  <2>1. 1 \in 1..Len(q)
    BY <1>2
  <2> QED
    BY <1>1, <1>2, <2>1
<1>4. Len(q) >= 2 => Q!At(l, p + 1) = q[2]
  <2>1. Len(q) >= 2 => 2 \in 1..Len(q)
    BY <1>2
  <2> QED
    BY <1>1, <1>2, <2>1
<1>d. p \in Int
  OBVIOUS
<1>5. CASE c \in {"\\", "quote"}
  <2>1. Len(q) = 2 /\ q[1] = "\\" /\ q[2] = c /\ c \notin {"end", "x"}
    BY <1>5, QuotedCharIs
  <2>2. Q!SplitTurn(l, p, "double") = Q!On(p + 2, "double", <<Q!Escaped(c)>>)
    <3>1. Q!At(l, p) = "\\" /\ Q!At(l, p + 1) = c /\ Q!At(l, p + 1) \notin {"end", "x"}
      BY <1>3, <1>4, <2>1
    <3>2. Q!SplitTurn(l, p, "double") = Q!On(p + 2, "double", <<Q!Escaped(Q!At(l, p + 1))>>)
      BY <1>d, <3>1, DoubleTurns
    <3> QED
      BY <3>1, <3>2
  <2>3. Q!Escaped(c) = c
    BY <1>5 DEF Q!Escaped
  <2> QED
    BY <2>1, <2>2, <2>3
<1>6. CASE c = "bell"
  <2>1. Len(q) = 2 /\ q[1] = "\\" /\ q[2] = "a"
    BY <1>6, QuotedCharIs
  <2>2. Q!SplitTurn(l, p, "double") = Q!On(p + 2, "double", <<Q!Escaped("a")>>)
    <3>1. Q!At(l, p) = "\\" /\ Q!At(l, p + 1) = "a" /\ Q!At(l, p + 1) \notin {"end", "x"}
      BY <1>3, <1>4, <2>1
    <3>2. Q!SplitTurn(l, p, "double") = Q!On(p + 2, "double", <<Q!Escaped(Q!At(l, p + 1))>>)
      BY <1>d, <3>1, DoubleTurns
    <3> QED
      BY <3>1, <3>2
  <2>3. Q!Escaped("a") = c
    BY <1>6 DEF Q!Escaped
  <2> QED
    BY <2>1, <2>2, <2>3
<1>7. CASE c = "aa"
  <2>1. Len(q) = 4 /\ q[1] = "\\" /\ q[2] = "x" /\ q[3] = "a" /\ q[4] = "a"
    BY <1>7, QuotedCharIs
  <2>2. 3 \in 1..Len(q) /\ 4 \in 1..Len(q)
    BY <2>1
  <2>3. Q!At(l, p + 2) = "a" /\ Q!At(l, p + 3) = "a"
    BY <1>1, <1>2, <2>1, <2>2
  <2>4. Q!IsHex(l, p)
    BY <1>3, <1>4, <2>1, <2>3 DEF Q!IsHex
  <2>5. Q!SplitTurn(l, p, "double") = Q!On(p + 4, "double", <<"aa">>)
    BY <2>4, <1>d, DoubleTurns
  <2> QED
    BY <1>7, <2>1, <2>5
<1>8. CASE c \notin {"\\", "quote", "bell", "aa"}
  <2>1. Len(q) = 1 /\ q[1] = c /\ c # "end"
    BY <1>8, QuotedCharIs DEF Q!Chars, Q!Typed
  <2>2. Q!SplitTurn(l, p, "double") = Q!On(p + 1, "double", <<c>>)
    BY <1>3, <1>8, <2>1, <1>d, DoubleTurns
  <2> QED
    BY <2>1, <2>2
<1> QED
  BY <1>5, <1>6, <1>7, <1>8

Read(w, bytes, to) == w.is = "ok" /\ w.bytes = bytes /\ w.to = to

LEMMA OnRead ==
    ASSUME NEW l \in Seq(Q!Chars), NEW n, n = Len(l), NEW i \in 1..(n + 1), NEW m \in Q!Modes,
           NEW j, NEW m2, NEW b, Q!SplitTurn(l, i, m) = Q!On(j, m2, b), NEW bytes, NEW to,
           Read(SentAt(l, j, m2), bytes, to)
    PROVE  Read(SentAt(l, i, m), Join(b, bytes), to)
<1> DEFINE t == Q!SplitTurn(l, i, m)
<1>1. t.is = "on" /\ t.next = j /\ t.mode = m2 /\ t.bytes = b
  BY OnIs
<1>2. t = Q!SplitTurn(l, i, m)
  OBVIOUS
<1> HIDE DEF t
<1>3. Follows(SentAt(l, i, m), t, SentAt(l, t.next, t.mode))
  BY <1>1, <1>2, SentFacts
<1> QED
  BY <1>1, <1>3 DEF Follows, Read

LEMMA StopRead ==
    ASSUME NEW l \in Seq(Q!Chars), NEW n, n = Len(l), NEW i \in 1..(n + 1), NEW m \in Q!Modes,
           NEW j, Q!SplitTurn(l, i, m) = Q!Stop("ok", j)
    PROVE  Read(SentAt(l, i, m), <<>>, j - 1)
<1> DEFINE t == Q!SplitTurn(l, i, m)
<1>1. t.is = "ok" /\ t.next = j
  BY StopIs
<1>2. t = Q!SplitTurn(l, i, m)
  OBVIOUS
<1> HIDE DEF t
<1>3. Finished(SentAt(l, i, m), t)
  BY <1>1, <1>2, SentFacts
<1> QED
  BY <1>1, <1>3 DEF Finished, Read

LEMMA RestOf ==
    ASSUME NEW arg \in Seq(Q!Chars), NEW n, n = Len(arg)
    PROVE  /\ SubSeq(arg, n + 1, n) = <<>> /\ SubSeq(arg, 1, n) = arg
           /\ \A k \in 1..n : Join(<<arg[k]>>, SubSeq(arg, k + 1, n)) = SubSeq(arg, k, n)
<1>1. SubSeq(arg, n + 1, n) = <<>> /\ SubSeq(arg, 1, n) = arg
  OBVIOUS
<1>2. ASSUME NEW k \in 1..n PROVE Join(<<arg[k]>>, SubSeq(arg, k + 1, n)) = SubSeq(arg, k, n)
  BY DEF Join
<1> QED
  BY <1>1, <1>2

\* Text in double quotes, from any of its characters on.
LEMMA QuotedRead ==
    ASSUME NEW l \in Seq(Q!Chars), NEW n, n = Len(l), NEW arg \in Seq(Q!Chars), NEW N, N = Len(arg),
           NEW E \in 1..n, Q!At(l, E) = "quote", Q!At(l, E + 1) \in Q!Ends
    PROVE  \A k \in 1..(N + 1) :
             /\ Q!Quoted(arg)[k] \in Seq(Q!Chars)
             /\ E - Len(Q!Quoted(arg)[k]) >= 1
                /\ There(l, E - Len(Q!Quoted(arg)[k]), Q!Quoted(arg)[k])
                => Read(SentAt(l, E - Len(Q!Quoted(arg)[k]), "double"), SubSeq(arg, k, N), E)
<1> DEFINE F(k) == Q!Quoted(arg)[k]
           P(k) == /\ F(k) \in Seq(Q!Chars)
                   /\ E - Len(F(k)) >= 1 /\ There(l, E - Len(F(k)), F(k))
                      => Read(SentAt(l, E - Len(F(k)), "double"), SubSeq(arg, k, N), E)
           Good == {k \in 1..(N + 1) : P(k)}
<1>0. n \in Nat /\ N \in Nat /\ N + 1 \in Nat /\ E \in 1..(n + 1) /\ E \in Int
  BY Characters
<1>d. "double" \in Q!Modes
  BY DEF Q!Modes
<1>1. P(N + 1)
  <2>1. F(N + 1) = <<>>
    BY QuotedIs
  <2>2. E - Len(<<>>) = E
    BY <1>0
  <2>3. Closes("double", "quote")
    BY DEF Closes
  <2>4. Q!SplitTurn(l, E, "double") = Q!Stop("ok", E + 1)
    BY <1>0, <1>d, <2>3, OkTurnThere
  <2>5. Read(SentAt(l, E, "double"), <<>>, E + 1 - 1)
    BY <1>0, <1>d, <2>4, StopRead
  <2>6. SubSeq(arg, N + 1, N) = <<>> /\ E + 1 - 1 = E
    BY <1>0, RestOf
  <2>7. <<>> \in Seq(Q!Chars)
    OBVIOUS
  <2> QED
    BY <2>1, <2>2, <2>5, <2>6, <2>7
<1>2. ASSUME NEW k \in 1..N, P(k + 1) PROVE P(k)
  <2> DEFINE q == Q!QuotedChar(arg[k])
             p == E - Len(F(k))
  <2>1. F(k) = Join(q, F(k + 1))
    BY QuotedIs
  <2>2. arg[k] \in Q!Chars
    OBVIOUS
  <2>3. q \in Seq(Q!Chars) /\ Len(q) \in Nat \ {0} /\ F(k + 1) \in Seq(Q!Chars)
    BY <1>2, <2>2, QuotedCharIs
  <2>q. q = Q!QuotedChar(arg[k]) /\ p = E - Len(F(k))
    OBVIOUS
  <2> HIDE DEF F, q, p
  <2>4. Joined(F(k), q, F(k + 1), Q!Chars)
    BY <2>1, <2>3, JoinIs
  <2>5. F(k) \in Seq(Q!Chars) /\ Len(F(k)) = Len(q) + Len(F(k + 1)) /\ Len(F(k + 1)) \in Nat
    BY <2>4 DEF Joined
  <2>6. ASSUME p >= 1, There(l, p, F(k))
        PROVE  Read(SentAt(l, p, "double"), SubSeq(arg, k, N), E)
    <3>1. p \in Nat /\ p \in 1..(n + 1) /\ p + Len(q) = E - Len(F(k + 1)) /\ E - Len(F(k + 1)) >= 1
      BY <1>0, <2>3, <2>5, <2>6, <2>q
    <3>2. There(l, p, q) /\ There(l, p + Len(q), F(k + 1))
      BY <2>1, <2>3, <2>6, <3>1, ThereIn
    <3>3. Q!SplitTurn(l, p, "double") = Q!On(p + Len(q), "double", <<arg[k]>>)
      BY <2>2, <2>q, <3>1, <3>2, CharRead
    <3>4. Read(SentAt(l, p + Len(q), "double"), SubSeq(arg, k + 1, N), E)
      BY <1>2, <3>1, <3>2
    <3>5. Read(SentAt(l, p, "double"), Join(<<arg[k]>>, SubSeq(arg, k + 1, N)), E)
      <4> DEFINE b == <<arg[k]>>
      <4>1. Q!SplitTurn(l, p, "double") = Q!On(p + Len(q), "double", b)
        BY <3>3
      <4> HIDE DEF b
      <4>2. Read(SentAt(l, p, "double"), Join(b, SubSeq(arg, k + 1, N)), E)
        BY <1>d, <3>1, <3>4, <4>1, OnRead
      <4> QED
        BY <4>2 DEF b
    <3>6. Join(<<arg[k]>>, SubSeq(arg, k + 1, N)) = SubSeq(arg, k, N)
      BY RestOf
    <3> QED
      BY <3>5, <3>6
  <2> QED
    BY <2>5, <2>6, <2>q
<1> HIDE DEF P
<1>3. ASSUME NEW k \in 1..(N + 1), \A j \in (k + 1)..(N + 1) : j \in Good PROVE k \in Good
  <2>1. CASE k = N + 1
    BY <1>1, <2>1
  <2>2. CASE k # N + 1
    <3>1. k \in 1..N /\ k + 1 \in (k + 1)..(N + 1)
      BY <1>0, <2>2
    <3> QED
      BY <1>2, <1>3, <3>1
  <2> QED
    BY <2>1, <2>2
<1>4. \A k \in 1..(N + 1) : k \in Good
  <2> HIDE DEF Good
  <2> QED
    BY <1>0, <1>3, Downward
<1> QED
  BY <1>4 DEF P, F

\* Text that needs no quotes.
LEMMA PlainRead ==
    ASSUME NEW l \in Seq(Q!Chars), NEW n, n = Len(l), NEW arg \in Seq(Q!Chars), NEW N, N = Len(arg),
           NEW p \in 1..n, p + N <= n + 1, There(l, p, arg), \A k \in 1..N : arg[k] \in {"a", "x"},
           Q!At(l, p + N) \in Q!Ends
    PROVE  \A k \in 1..(N + 1) :
             Read(SentAt(l, p + k - 1, "none"), SubSeq(arg, k, N), p + N - 1)
<1> DEFINE P(k) == Read(SentAt(l, p + k - 1, "none"), SubSeq(arg, k, N), p + N - 1)
           Good == {k \in 1..(N + 1) : P(k)}
<1>0. n \in Nat /\ N \in Nat /\ N + 1 \in Nat
  BY Characters
<1>d. "none" \in Q!Modes
  BY DEF Q!Modes
<1>1. P(N + 1)
  <2>1. p + (N + 1) - 1 = p + N /\ p + N \in 1..(n + 1) /\ p + N \in Int
    BY <1>0
  <2>2. Q!SplitTurn(l, p + N, "none") = Q!Stop("ok", p + N)
    BY <1>d, <2>1, OkTurnThere
  <2>3. Read(SentAt(l, p + N, "none"), <<>>, p + N - 1)
    BY <1>d, <2>1, <2>2, StopRead
  <2>4. SubSeq(arg, N + 1, N) = <<>>
    BY RestOf
  <2> QED
    BY <2>1, <2>3, <2>4
<1>2. ASSUME NEW k \in 1..N, P(k + 1) PROVE P(k)
  <2> DEFINE i == p + k - 1
             c == Q!At(l, i)
             next == Q!At(l, i + 1)
             t == Q!SplitTurn(l, i, "none")
             b == <<arg[k]>>
  <2>1. i \in 1..(n + 1) /\ i + 1 = p + (k + 1) - 1 /\ i \in Int
    BY <1>0
  <2>2. c = arg[k] /\ arg[k] \in {"a", "x"}
    BY DEF There
  <2>3. CommonTurn(t, l, i, "none", c, next) \/ \E s : OwnTurn(t, s, l, i, "none", c, next)
    BY <1>d, TurnsAre
  <2>t. t = Q!SplitTurn(l, i, "none") /\ b = <<arg[k]>> /\ i = p + k - 1
    OBVIOUS
  <2> HIDE DEF i, c, next, t
  <2>4. t = Q!On(i + 1, "none", b)
    BY <2>2, <2>3 DEF CommonTurn, OwnTurn, Usual, Closes, Q!Ends
  <2> HIDE DEF b
  <2>5. Read(SentAt(l, i + 1, "none"), SubSeq(arg, k + 1, N), p + N - 1)
    BY <1>2, <2>1
  <2>6. Read(SentAt(l, i, "none"), Join(b, SubSeq(arg, k + 1, N)), p + N - 1)
    BY <1>d, <2>1, <2>4, <2>5, <2>t, OnRead
  <2>7. Join(b, SubSeq(arg, k + 1, N)) = SubSeq(arg, k, N)
    BY <2>t, RestOf
  <2> QED
    BY <2>6, <2>7, <2>t
<1> HIDE DEF P
<1>3. ASSUME NEW k \in 1..(N + 1), \A j \in (k + 1)..(N + 1) : j \in Good PROVE k \in Good
  <2>1. CASE k = N + 1
    BY <1>1, <2>1
  <2>2. CASE k # N + 1
    <3>1. k \in 1..N /\ k + 1 \in (k + 1)..(N + 1)
      BY <1>0, <2>2
    <3> QED
      BY <1>2, <1>3, <3>1
  <2> QED
    BY <2>1, <2>2
<1>4. \A k \in 1..(N + 1) : k \in Good
  <2> HIDE DEF Good
  <2> QED
    BY <1>0, <1>3, Downward
<1> QED
  BY <1>4 DEF P

LEMMA QuotedChars ==
    ASSUME NEW arg \in Seq(Q!Chars), NEW N, N = Len(arg)
    PROVE  \A k \in 1..(N + 1) : Q!Quoted(arg)[k] \in Seq(Q!Chars)
<1> DEFINE Good == {k \in 1..(N + 1) : Q!Quoted(arg)[k] \in Seq(Q!Chars)}
<1>0. N \in Nat /\ N + 1 \in Nat
  OBVIOUS
<1>1. ASSUME NEW k \in 1..(N + 1), \A j \in (k + 1)..(N + 1) : j \in Good PROVE k \in Good
  <2>1. CASE k = N + 1
    <3>1. Q!Quoted(arg)[k] = <<>> /\ <<>> \in Seq(Q!Chars)
      BY <2>1, QuotedIs
    <3> QED
      BY <3>1
  <2>2. CASE k # N + 1
    <3> DEFINE q == Q!QuotedChar(arg[k])
               f == Q!Quoted(arg)[k + 1]
    <3>1. k \in 1..N /\ k + 1 \in (k + 1)..(N + 1)
      BY <1>0, <2>2
    <3>2. f \in Seq(Q!Chars) /\ Q!Quoted(arg)[k] = Join(q, f)
      BY <1>1, <3>1, QuotedIs
    <3>3. q \in Seq(Q!Chars)
      BY <3>1, QuotedCharIs
    <3> HIDE DEF q, f
    <3>4. Join(q, f) \in Seq(Q!Chars)
      BY <3>2, <3>3, JoinIs DEF Joined
    <3> QED
      BY <3>2, <3>4
  <2> QED
    BY <2>1, <2>2
<1>2. \A k \in 1..(N + 1) : k \in Good
  <2> HIDE DEF Good
  <2> QED
    BY <1>0, <1>1, Downward
<1> QED
  BY <1>2

\* Text that is quoted: as it is, or between double quotes.
QuoteCases(arg, q, u, f) ==
    \/ q = arg /\ arg # <<>> /\ \A k \in 1..Len(arg) : arg[k] \in {"a", "x"}
    \/ q = Join(Join(u, f), u) /\ f = Q!Quoted(arg)[1]

LEMMA QuoteIs ==
    ASSUME NEW arg \in Seq(Q!Chars), NEW q, q = Q!Quote(arg), NEW u, u = <<"quote">>,
           NEW f, f = Q!Quoted(arg)[1]
    PROVE  /\ QuoteCases(arg, q, u, f)
           /\ u \in Seq(Q!Chars) /\ Len(u) = 1 /\ u[1] = "quote" /\ f \in Seq(Q!Chars)
           /\ q \in Seq(Q!Chars) /\ Len(q) \in Nat \ {0}
<1>1. "quote" \in Q!Chars
  BY DEF Q!Chars, Q!Typed
<1>2. u \in Seq(Q!Chars) /\ Len(u) = 1 /\ u[1] = "quote"
  BY <1>1
<1>3. f \in Seq(Q!Chars)
  <2>1. Len(arg) \in Nat /\ 1 \in 1..(Len(arg) + 1)
    OBVIOUS
  <2> QED
    BY <2>1, QuotedChars
<1>4. CASE arg # <<>> /\ Q!Range(arg) \subseteq {"a", "x"}
  <2>1. q = arg
    BY <1>4 DEF Q!Quote
  <2>2. \A k \in 1..Len(arg) : arg[k] \in {"a", "x"}
    BY <1>4 DEF Q!Range
  <2>3. Len(arg) \in Nat \ {0}
    BY <1>4
  <2> QED
    BY <1>2, <1>3, <1>4, <2>1, <2>2, <2>3 DEF QuoteCases
<1>5. CASE ~(arg # <<>> /\ Q!Range(arg) \subseteq {"a", "x"})
  <2>1. q = Join(Join(u, f), u)
    BY <1>5 DEF Q!Quote, Join
  <2>2. Joined(Join(u, f), u, f, Q!Chars)
    BY <1>2, <1>3, JoinIs
  <2> DEFINE v == Join(u, f)
  <2>3. v \in Seq(Q!Chars) /\ Len(v) = Len(u) + Len(f) /\ Len(f) \in Nat
    BY <2>2 DEF Joined
  <2> HIDE DEF v
  <2>4. Joined(Join(v, u), v, u, Q!Chars)
    BY <1>2, <2>3, JoinIs
  <2>5. Join(v, u) \in Seq(Q!Chars) /\ Len(Join(v, u)) = Len(v) + Len(u)
    BY <2>4 DEF Joined
  <2>6. q \in Seq(Q!Chars) /\ Len(q) \in Nat \ {0}
    BY <1>2, <2>1, <2>3, <2>5 DEF v
  <2> QED
    BY <1>2, <1>3, <2>1, <2>6 DEF QuoteCases
<1> QED
  BY <1>4, <1>5

LEMMA QuoteRead ==
    ASSUME NEW l \in Seq(Q!Chars), NEW n, n = Len(l), NEW arg \in Seq(Q!Chars),
           NEW q, q = Q!Quote(arg), NEW p \in 1..n, p + Len(q) <= n + 1, There(l, p, q),
           Q!At(l, p + Len(q)) \in Q!Ends
    PROVE  Read(SentAt(l, p, "none"), arg, p + Len(q) - 1) /\ l[p] # "space"
<1> DEFINE u == <<"quote">>
           f == Q!Quoted(arg)[1]
           N == Len(arg)
<1>1. /\ QuoteCases(arg, q, u, f)
      /\ u \in Seq(Q!Chars) /\ Len(u) = 1 /\ u[1] = "quote" /\ f \in Seq(Q!Chars)
      /\ q \in Seq(Q!Chars) /\ Len(q) \in Nat \ {0}
  BY QuoteIs
<1>2. f = Q!Quoted(arg)[1] /\ N = Len(arg) /\ N \in Nat
  OBVIOUS
<1> HIDE DEF u, f, N
<1>3. n \in Nat /\ p \in Nat /\ p \in 1..(n + 1) /\ p \in Int
  BY Characters
<1>4. Q!At(l, p) = q[1] /\ Q!At(l, p) = l[p]
  <2>1. 1 \in 1..Len(q) /\ p + 1 - 1 = p
    BY <1>1, <1>3
  <2>2. Q!At(l, p) = q[1]
    BY <2>1 DEF There
  <2> QED
    BY <2>2, Characters
<1>5. CASE q = arg /\ arg # <<>> /\ \A k \in 1..Len(arg) : arg[k] \in {"a", "x"}
  <2>1. \A k \in 1..(N + 1) :
          Read(SentAt(l, p + k - 1, "none"), SubSeq(arg, k, N), p + N - 1)
    BY <1>2, <1>5, PlainRead
  <2>2. p + 1 - 1 = p /\ 1 \in 1..(N + 1) /\ SubSeq(arg, 1, N) = arg
    BY <1>2, <1>3, RestOf
  <2>3. Read(SentAt(l, p, "none"), arg, p + N - 1)
    BY <2>1, <2>2
  <2>4. q[1] # "space"
    BY <1>1, <1>5
  <2> QED
    BY <1>2, <1>4, <1>5, <2>3, <2>4
<1>6. CASE q = Join(Join(u, f), u)
  <2> DEFINE v == Join(u, f)
             E == p + Len(v)
  <2>1. Joined(v, u, f, Q!Chars)
    BY <1>1, JoinIs
  <2>v. v = Join(u, f) /\ E = p + Len(v)
    OBVIOUS
  <2> HIDE DEF v, E
  <2>2. v \in Seq(Q!Chars) /\ Len(v) = 1 + Len(f) /\ Len(f) \in Nat
    BY <1>1, <2>1 DEF Joined
  <2>3. Joined(Join(v, u), v, u, Q!Chars)
    BY <1>1, <2>2, JoinIs
  <2>4. Len(q) = Len(v) + 1
    BY <1>1, <1>6, <2>3, <2>v DEF Joined
  <2>5. There(l, p, v) /\ There(l, E, u)
    BY <1>1, <1>3, <1>6, <2>2, <2>v, ThereIn
  <2>6. There(l, p, u) /\ There(l, p + 1, f)
    BY <1>1, <1>3, <2>5, <2>v, ThereIn
  <2>7. Q!At(l, E) = "quote" /\ Q!At(l, p) = "quote"
    <3>1. 1 \in 1..Len(u) /\ E + 1 - 1 = E /\ p + 1 - 1 = p
      BY <1>1, <1>3, <2>2, <2>v
    <3> QED
      BY <1>1, <2>5, <2>6, <3>1 DEF There
  <2>8. E \in 1..n /\ E + 1 = p + Len(q) /\ E - Len(f) = p + 1 /\ p + 1 >= 1 /\ p + 1 \in 1..(n + 1)
    <3>2. Len(v) \in Nat /\ Len(v) - Len(f) = 1 /\ Len(q) - Len(v) = 1
      BY <2>2, <2>4
    <3>3. E = p + Len(v)
      BY <2>v
    <3>4. ASSUME NEW a \in Nat, NEW b \in Nat, NEW c \in Nat, NEW e, a = 1 + b, c = a + 1,
                 e = p + a, p + c <= n + 1
          PROVE  e \in 1..n /\ e + 1 = p + c /\ e - b = p + 1 /\ p + 1 >= 1 /\ p + 1 \in 1..(n + 1)
      BY <1>3, <3>4
    <3>5. Len(v) \in Nat /\ Len(f) \in Nat /\ Len(q) \in Nat /\ Len(v) = 1 + Len(f)
      BY <1>1, <2>2, <3>2
    <3> HIDE DEF v, E
    <3> QED
      BY <2>4, <3>3, <3>4, <3>5
  <2>9. Q!At(l, E + 1) \in Q!Ends
    BY <2>8
  <2>10. Read(SentAt(l, p + 1, "double"), arg, E)
    <3>1. \A k \in 1..(N + 1) :
             E - Len(Q!Quoted(arg)[k]) >= 1
             /\ There(l, E - Len(Q!Quoted(arg)[k]), Q!Quoted(arg)[k])
                => Read(SentAt(l, E - Len(Q!Quoted(arg)[k]), "double"), SubSeq(arg, k, N), E)
      BY <1>2, <2>7, <2>8, <2>9, QuotedRead
    <3>2. 1 \in 1..(N + 1) /\ SubSeq(arg, 1, N) = arg
      BY <1>2, RestOf
    <3> QED
      BY <1>2, <2>6, <2>8, <3>1, <3>2
  <2>11. Q!SplitTurn(l, p, "none") = Q!On(p + 1, "double", <<>>)
    BY <2>7 DEF Q!SplitTurn, Q!Ends
  <2>12. Read(SentAt(l, p, "none"), Join(<<>>, arg), E)
    <3>1. "none" \in Q!Modes
      BY DEF Q!Modes
    <3> DEFINE none == <<>>
    <3>2. Q!SplitTurn(l, p, "none") = Q!On(p + 1, "double", none)
      BY <2>11
    <3> HIDE DEF none
    <3>3. Read(SentAt(l, p, "none"), Join(none, arg), E)
      BY <1>3, <2>10, <3>1, <3>2, OnRead
    <3> QED
      BY <3>3 DEF none
  <2>13. Join(<<>>, arg) = arg
    BY DEF Join
  <2>14. E = p + Len(q) - 1
    BY <1>3, <2>2, <2>4, <2>8
  <2>15. l[p] # "space"
    BY <1>4, <2>7
  <2> QED
    BY <2>12, <2>13, <2>14, <2>15
<1> QED
  BY <1>1, <1>5, <1>6 DEF QuoteCases

-----------------------------------------------------------------------------
(* The line: an offer is accepted. *)

\* l2 is l with q in the place of what is between the offsets b and b2.
Replaced(l2, l, b, b2, q) == l2 = SubSeq(l, 1, b) \o q \o SubSeq(l, b2 + 1, Len(l))

ReplacedWell(l2, l, b, b2, q, d) ==
    /\ l2 \in Seq(Q!Chars) /\ Len(l2) = Len(l) + d /\ d \in Int /\ b + Len(q) <= Len(l) + d
    /\ \A j \in 1..b : Q!At(l2, j) = Q!At(l, j)
    /\ There(l2, b + 1, q)
    /\ Moved(l, l2, b2, d)

LEMMA ReplacedIs ==
    ASSUME NEW l \in Seq(Q!Chars), NEW n, n = Len(l), NEW b \in 0..n, NEW b2 \in b..n,
           NEW q \in Seq(Q!Chars), NEW l2, Replaced(l2, l, b, b2, q),
           NEW d, d = b + Len(q) - b2
    PROVE  ReplacedWell(l2, l, b, b2, q, d)
<1> DEFINE x == SubSeq(l, 1, b)
           y == SubSeq(l, b2 + 1, n)
           z == Join(x, q)
<1>0. n \in Nat /\ b \in Nat /\ b2 \in Nat /\ Len(q) \in Nat /\ b <= b2 /\ b2 <= n
  BY Characters
<1>1. x \in Seq(Q!Chars) /\ Len(x) = b /\ \A k \in 1..b : x[k] = l[k]
  BY <1>0
<1>2. y \in Seq(Q!Chars) /\ Len(y) = n - b2 /\ \A k \in 1..(n - b2) : y[k] = l[b2 + k]
  BY <1>0
<1>3. l2 = Join(z, y)
  BY DEF Replaced, Join
<1>z. z = Join(x, q)
  OBVIOUS
<1> HIDE DEF x, y, z
<1>4. Joined(z, x, q, Q!Chars)
  BY <1>1, <1>z, JoinIs
<1>5. z \in Seq(Q!Chars) /\ Len(z) = b + Len(q)
      /\ (\A k \in 1..b : z[k] = l[k]) /\ (\A k \in 1..Len(q) : z[b + k] = q[k])
  BY <1>1, <1>4 DEF Joined
<1>6. Joined(l2, z, y, Q!Chars)
  BY <1>2, <1>3, <1>5, JoinIs
<1>7. /\ l2 \in Seq(Q!Chars) /\ Len(l2) = Len(z) + (n - b2)
      /\ (\A k \in 1..Len(z) : l2[k] = z[k]) /\ (\A k \in 1..(n - b2) : l2[Len(z) + k] = y[k])
  BY <1>2, <1>6 DEF Joined
<1>8. Len(l2) = n + d /\ d \in Int /\ b + Len(q) <= n + d /\ Len(z) = b2 + d /\ n + d \in Nat
      /\ b <= Len(z) /\ b <= Len(l2) /\ Len(z) = b + Len(q) /\ Len(l2) \in Nat
  <2>1. ASSUME NEW k \in Nat, NEW e, e = b + k - b2, NEW lz, lz = b + k, NEW m, m = lz + (n - b2)
        PROVE  m = n + e /\ e \in Int /\ b + k <= n + e /\ lz = b2 + e /\ n + e \in Nat
               /\ b <= lz /\ b <= m /\ m \in Nat
    BY <1>0, <2>1
  <2>2. Len(z) = b + Len(q) /\ Len(l2) = Len(z) + (n - b2)
    BY <1>5, <1>7
  <2> QED
    BY <1>0, <2>1, <2>2
<1>9. ASSUME NEW j \in 1..b PROVE Q!At(l2, j) = Q!At(l, j)
  <2>1. j \in 1..Len(z) /\ j \in 1..Len(l2) /\ j \in 1..n
    BY <1>0, <1>8
  <2>2. l2[j] = l[j]
    BY <1>5, <1>7, <2>1
  <2> QED
    BY <1>7, <2>1, <2>2, Characters, SMTT(30)
<1>10. ASSUME NEW k \in 1..Len(q) PROVE Q!At(l2, b + 1 + k - 1) = q[k]
  <2>1. b + k \in 1..Len(z) /\ b + k \in 1..Len(l2) /\ b + 1 + k - 1 = b + k
    BY <1>0, <1>5, <1>8, SMTT(30)
  <2>2. l2[b + k] = q[k]
    BY <1>5, <1>7, <2>1
  <2> QED
    BY <1>7, <2>1, <2>2, Characters
<1>11. ASSUME NEW j \in (b2 + 1)..(n + 1) PROVE Q!At(l2, j + d) = Q!At(l, j)
  <2>1. CASE j = n + 1
    <3>1. j \in Nat /\ j > n /\ j + d \in Nat /\ j + d > Len(l2)
      BY <1>0, <1>8, <2>1
    <3> QED
      BY <1>7, <3>1, Characters
  <2>2. CASE j \in (b2 + 1)..n
    <3>1. j - b2 \in 1..(n - b2) /\ Len(z) + (j - b2) = j + d /\ b2 + (j - b2) = j
          /\ j \in 1..n /\ j + d \in 1..Len(l2)
      BY <1>0, <1>8, <2>2
    <3>2. l2[j + d] = l[j]
      <4>1. y[j - b2] = l[b2 + (j - b2)]
        BY <1>2, <3>1
      <4>2. l2[Len(z) + (j - b2)] = y[j - b2]
        BY <1>7, <3>1
      <4> QED
        BY <3>1, <4>1, <4>2
    <3>3. \A k \in 1..Len(l2) : Q!At(l2, k) = l2[k]
      BY <1>7, Characters
    <3>4. \A k \in 1..Len(l) : Q!At(l, k) = l[k]
      BY Characters
    <3> QED
      BY <3>1, <3>2, <3>3, <3>4
  <2> QED
    BY <1>0, <2>1, <2>2
<1> QED
  BY <1>7, <1>8, <1>9, <1>10, <1>11 DEF There, Moved, ReplacedWell

\* The arguments of an accepted line with arg accepted between the offsets b and b2.
Accepts(l, l2, b, b2, arg, X, A, Y2) ==
    /\ Before(X, b)
    /\ SentFrom(l, b + 1).is = "ok" /\ SentFrom(l, b + 1).args \in Seq(ArgSet)
    /\ SentFrom(l, 1).args = Join(X, SentFrom(l, b + 1).args)
    /\ A \in ArgSet /\ A.bytes = arg
    /\ SentFrom(l2, 1).is = "ok" /\ SentFrom(l2, 1).args = Join(X, Join(<<A>>, Y2))
    /\ SameBytes(Y2, SentFrom(l, b2 + 1).args)

LEMMA OfferAccepted ==
    ASSUME NEW l \in Seq(Q!Chars), NEW n, n = Len(l), SentFrom(l, 1).is = "ok",
           NEW b \in 0..n, NEW b2 \in b..n, Cut(SentFrom(l, 1).args, b),
           Q!At(l, b2 + 1) \in Q!Ends, SentFrom(l, b2 + 1).is = "ok",
           NEW arg \in Seq(Q!Chars), NEW l2, Replaced(l2, l, b, b2, Q!Quote(arg))
    PROVE  \E X, A, Y2 : Accepts(l, l2, b, b2, arg, X, A, Y2)
<1> DEFINE q == Q!Quote(arg)
           d == b + Len(q) - b2
           p == b + 1
           n2 == n + d
           t == SentAt(l2, p, "none")
           A == ArgOf(t, p)
           Y2 == SentFrom(l2, t.to + 1).args
<1>0. n \in Nat /\ b \in Nat /\ b2 \in Nat /\ b <= b2 /\ b2 <= n
  BY Characters
<1>1. q \in Seq(Q!Chars) /\ Len(q) \in Nat \ {0}
  BY QuoteIs
<1>2. /\ q = Q!Quote(arg) /\ d = b + Len(q) - b2 /\ p = b + 1 /\ n2 = n + d
      /\ t = SentAt(l2, p, "none")
      /\ A = ArgOf(t, p) /\ Y2 = SentFrom(l2, t.to + 1).args /\ Replaced(l2, l, b, b2, q)
  OBVIOUS
<1> HIDE DEF q, d, p, n2, t, A, Y2
<1>3. /\ l2 \in Seq(Q!Chars) /\ Len(l2) = n2 /\ d \in Int /\ b + Len(q) <= n2
      /\ \A j \in 1..b : Q!At(l2, j) = Q!At(l, j)
      /\ There(l2, p, q)
      /\ Moved(l, l2, b2, d)
  <2>1. ReplacedWell(l2, l, b, b2, q, d)
    BY <1>1, <1>2, ReplacedIs
  <2> QED
    BY <1>2, <2>1 DEF ReplacedWell
<1>4. /\ b2 + d >= 0 /\ b2 \in 0..n /\ b2 + 1 \in 1..(n + 1) /\ n2 \in Nat /\ b <= n2 /\ p \in 1..n2
      /\ p + Len(q) = b2 + 1 + d /\ p + Len(q) <= n2 + 1 /\ b2 + 1 \in (b2 + 1)..(n + 1)
      /\ p + Len(q) - 1 + 1 = b2 + 1 + d /\ b2 + 1 >= b2 + 1 /\ 1 \in 1..(b + 1) /\ p \in 1..(n + 1)
  <2>1. n2 \in Int
    BY <1>0, <1>2, <1>3
  <2> QED
    BY <1>0, <1>1, <1>2, <1>3, <2>1
<1>5. SentFrom(l2, b2 + 1 + d).is = "ok"
      /\ SameBytes(SentFrom(l2, b2 + 1 + d).args, SentFrom(l, b2 + 1).args)
  <2>1. BehindSame(l, l2, b2, d)
    <3>1. b2 \in 0..Len(l) /\ Len(l2) = Len(l) + d
      BY <1>2, <1>3, <1>4
    <3> QED
      BY <1>3, <1>4, <3>1, SuffixSame
  <2> QED
    BY <1>4, <2>1 DEF BehindSame
<1>6. Q!At(l2, p + Len(q)) \in Q!Ends
  BY <1>3, <1>4 DEF Moved
<1>7. Read(t, arg, p + Len(q) - 1) /\ l2[p] # "space"
  BY <1>2, <1>3, <1>4, <1>6, QuoteRead
<1>8. t.is = "ok" /\ t.bytes = arg /\ t.to + 1 = b2 + 1 + d
  BY <1>4, <1>7 DEF Read
<1>9. TokenFirst(l2, p, t) /\ SentFrom(l2, p).is = "ok"
  <2>1. p \in 1..n2 /\ n2 = Len(l2) /\ l2[p] # "space"
    BY <1>3, <1>4, <1>7
  <2>2. t.is = "ok" /\ SentFrom(l2, t.to + 1).is = "ok"
    BY <1>5, <1>8
  <2> QED
    BY <1>2, <1>3, <2>1, <2>2, SentFirst
<1>10. A \in ArgSet /\ A.bytes = arg /\ SentFrom(l2, p).args = Join(<<A>>, Y2)
  BY <1>2, <1>8, <1>9 DEF TokenFirst
<1>11. SentFrom(l, b + 1).is = "ok" /\ \E X : Splits(l, l2, 1, b, X)
  <2>1. SentFrom(l2, b + 1).is = "ok"
    BY <1>2, <1>9
  <2> QED
    BY <1>2, <1>3, <1>4, <2>1, PrefixSame
<1>12. PICK X : Splits(l, l2, 1, b, X)
  BY <1>11
<1>13. SentFrom(l, b + 1).args \in Seq(ArgSet)
  BY <1>2, <1>4, <1>11, SentOrder
<1>14. SameBytes(Y2, SentFrom(l, b2 + 1).args)
  BY <1>2, <1>5, <1>8
<1>15. Accepts(l, l2, b, b2, arg, X, A, Y2)
  BY <1>2, <1>10, <1>11, <1>12, <1>13, <1>14 DEF Accepts, Splits
<1> QED
  BY <1>15

\* An accepted line, cut at an offset that no argument lies across.
CutAt(l, b, X) ==
    /\ Before(X, b) /\ SentFrom(l, b + 1).is = "ok" /\ SentFrom(l, b + 1).args \in Seq(ArgSet)
    /\ InOrder(SentFrom(l, b + 1).args, l, Len(l), b + 1)
    /\ SentFrom(l, 1).args = Join(X, SentFrom(l, b + 1).args)

LEMMA CutThere ==
    ASSUME NEW l \in Seq(Q!Chars), NEW n, n = Len(l), SentFrom(l, 1).is = "ok", NEW b \in 0..n,
           Cut(SentFrom(l, 1).args, b)
    PROVE  \E X : CutAt(l, b, X)
<1>0. n \in Nat /\ 1 \in 1..(b + 1) /\ b <= n /\ b + 1 \in 1..(n + 1)
  BY Characters
<1>1. /\ SentFrom(l, b + 1).is = "ok"
      /\ SentFrom(l, b + 1).is = "ok" => \E X : Splits(l, l, 1, b, X)
  BY <1>0, PrefixSame
<1>2. PICK X : Splits(l, l, 1, b, X)
  BY <1>1
<1>3. SentFrom(l, b + 1).args \in Seq(ArgSet) /\ InOrder(SentFrom(l, b + 1).args, l, n, b + 1)
  BY <1>0, <1>1, SentOrder
<1>4. CutAt(l, b, X)
  BY <1>1, <1>2, <1>3 DEF CutAt, Splits
<1> QED
  BY <1>4

LEMMA ArgvIs ==
    ASSUME NEW l, SentFrom(l, 1).args \in Seq(ArgSet), NEW args, args = SentFrom(l, 1).args
    PROVE  /\ Q!Argv(l) = [i \in 1..Len(args) |-> args[i].bytes]
           /\ Q!Argv(l) \in Seq(Seq(Q!Chars)) /\ Len(Q!Argv(l)) = Len(args) /\ Len(args) \in Nat
           /\ DOMAIN Q!Argv(l) = 1..Len(args)
           /\ \A i \in 1..Len(args) : Q!Argv(l)[i] = args[i].bytes /\ args[i] \in ArgSet
<1>1. Q!SplitArgs(l).args = args
  BY DEF Q!SplitArgs, SentFrom
<1>2. DOMAIN args = 1..Len(args) /\ Len(args) \in Nat /\ \A i \in 1..Len(args) : args[i] \in ArgSet
  OBVIOUS
<1>3. Q!Argv(l) = [i \in 1..Len(args) |-> args[i].bytes]
  BY <1>1, <1>2 DEF Q!Argv
<1>4. \A i \in 1..Len(args) : args[i].bytes \in Seq(Q!Chars)
  BY <1>2, ArgSpan
<1> QED
  BY <1>2, <1>3, <1>4

\* The arguments before, the one accepted and those behind it.
Three(args, X, A, Y) ==
    /\ args \in Seq(ArgSet) /\ Len(args) = Len(X) + 1 + Len(Y) /\ Len(X) \in Nat /\ Len(Y) \in Nat
    /\ \A i \in 1..Len(X) : args[i] = X[i]
    /\ args[Len(X) + 1] = A
    /\ \A i \in 1..Len(Y) : args[Len(X) + 1 + i] = Y[i]

LEMMA AcceptedIs ==
    ASSUME NEW X \in Seq(ArgSet), NEW A \in ArgSet, NEW Y2 \in Seq(ArgSet)
    PROVE  Three(Join(X, Join(<<A>>, Y2)), X, A, Y2)
<1> DEFINE Z == Join(<<A>>, Y2)
           args == Join(X, Z)
           x == Len(X)
           y == Len(Y2)
<1>1. Grown(Z, A, Y2)
  BY OneMore
<1>c. args = Join(X, Z) /\ x = Len(X) /\ y = Len(Y2)
  OBVIOUS
<1> HIDE DEF Z, args, x, y
<1>2. /\ Z \in Seq(ArgSet) /\ Len(Z) = y + 1 /\ y \in Nat
      /\ Z[1] = A /\ \A k \in 1..y : Z[k + 1] = Y2[k]
  BY <1>1, <1>c DEF Grown
<1>3. Joined(Join(X, Z), X, Z, ArgSet) /\ args = Join(X, Z)
  BY <1>2, <1>c, JoinIs
<1>4. /\ args \in Seq(ArgSet) /\ Len(args) = x + Len(Z) /\ x \in Nat
      /\ (\A k \in 1..x : args[k] = X[k]) /\ (\A k \in 1..Len(Z) : args[x + k] = Z[k])
  BY <1>3, <1>c DEF Joined
<1>5. args[x + 1] = A
  <2>1. 1 \in 1..Len(Z)
    BY <1>2
  <2> QED
    BY <1>2, <1>4, <2>1
<1>6. ASSUME NEW i \in 1..y PROVE args[x + 1 + i] = Y2[i]
  <2>1. i + 1 \in 1..Len(Z) /\ x + (i + 1) = x + 1 + i
    BY <1>2, <1>4
  <2> QED
    BY <1>2, <1>4, <2>1
<1>7. Len(args) = x + 1 + y
  BY <1>2, <1>4
<1>8. Three(args, X, A, Y2)
  BY <1>2, <1>4, <1>5, <1>6, <1>7, <1>c DEF Three
<1> QED
  BY <1>8 DEF args, Z

LEMMA TokenPlace ==
    ASSUME NEW l, NEW b \in Nat, NEW t, TokenFirst(l, b + 1, t), NEW a, a = ArgOf(t, b + 1)
    PROVE  a.from = b /\ a.to = t.to
<1>1. ASSUME NEW i, TokenFirst(l, i, t)
      PROVE  ArgOf(t, i).from = i - 1 /\ ArgOf(t, i).to = t.to
  BY <1>1 DEF TokenFirst
<1> DEFINE i == b + 1
<1>2. i - 1 = b /\ TokenFirst(l, i, t) /\ a = ArgOf(t, i)
  OBVIOUS
<1> HIDE DEF i
<1>3. ArgOf(t, i).from = i - 1 /\ ArgOf(t, i).to = t.to
  BY <1>1, <1>2
<1> QED
  BY <1>2, <1>3

\* The argument the cursor is in is replaced.
LEMMA ActiveReplaced ==
    ASSUME NEW l \in Seq(Q!Chars), SentFrom(l, 1).is = "ok",
           NEW args, args = SentFrom(l, 1).args, NEW k \in 1..Len(args),
           NEW arg \in Seq(Q!Chars), NEW l2, Replaced(l2, l, args[k].from, args[k].to, Q!Quote(arg))
    PROVE  SentFrom(l2, 1).is = "ok" /\ Q!Argv(l2) = [Q!Argv(l) EXCEPT ![k] = arg]
<1> DEFINE n == Len(l)
           b == args[k].from
           b2 == args[k].to
           S == SentFrom(l, b + 1).args
           Y == SentFrom(l, b2 + 1).args
           t == SentAt(l, b + 1, "none")
           args2 == SentFrom(l2, 1).args
<1>0. n \in Nat /\ 1 \in 1..(n + 1)
  BY Characters
<1>1. args \in Seq(ArgSet) /\ InOrder(args, l, n, 1)
  BY <1>0, SentOrder
<1>2. b \in 0..n /\ b2 \in b..n /\ b < b2 /\ l[b + 1] # "space" /\ b + 1 \in 1..n /\ b2 \in 0..n
  <2>1. args[k] \in ArgSet
    BY <1>1
  <2>2. b \in Nat /\ b2 \in Nat
    BY <2>1, ArgSpan
  <2>3. b < b2 /\ b2 <= n /\ l[b + 1] # "space"
    BY <1>1 DEF InOrder
  <2> HIDE DEF b, b2
  <2> QED
    BY <1>0, <2>2, <2>3
<1>3. Cut(args, b)
  <2> SUFFICES ASSUME NEW j \in 1..Len(args) PROVE args[j].to < b \/ args[j].from >= b
    BY DEF Cut
  <2>1. args[j] \in ArgSet /\ Len(args) \in Nat
    BY <1>1
  <2>2. args[j].from \in Nat /\ args[j].to \in Nat
    BY <2>1, ArgSpan
  <2>3. j < k => args[j].to < b
    BY <1>1 DEF InOrder
  <2>4. k < j => b2 < args[j].from
    BY <1>1 DEF InOrder
  <2>5. j = k => args[j].from = b
    OBVIOUS
  <2> HIDE DEF b, b2
  <2> QED
    BY <1>2, <2>1, <2>2, <2>3, <2>4, <2>5
<1>4. PICK X : CutAt(l, b, X)
  BY <1>2, <1>3, CutThere
<1> DEFINE A0 == ArgOf(t, b + 1)
           Rest == SentFrom(l, t.to + 1).args
<1>e. /\ b = args[k].from /\ b2 = args[k].to /\ S = SentFrom(l, b + 1).args /\ n = Len(l)
      /\ Y = SentFrom(l, b2 + 1).args /\ Rest = SentFrom(l, t.to + 1).args
      /\ args2 = SentFrom(l2, 1).args /\ Replaced(l2, l, b, b2, Q!Quote(arg))
      /\ t = SentAt(l, b + 1, "none") /\ A0 = ArgOf(t, b + 1)
  OBVIOUS
<1> HIDE DEF n, b, b2, S, Y, t, args2, A0, Rest
<1>5. TokenFirst(l, b + 1, t)
  <2>1. SentFrom(l, b + 1).is = "ok"
    BY <1>4 DEF CutAt
  <2> QED
    BY <1>2, <1>e, <2>1, SentFirst
<1>6. /\ A0 \in ArgSet /\ A0.from = b /\ A0.to = t.to /\ t.to \in (b + 1)..n
      /\ Rest \in Seq(ArgSet) /\ S = Join(<<A0>>, Rest)
      /\ Q!At(l, t.to + 1) \in Q!Ends /\ SentFrom(l, t.to + 1).is = "ok"
  <2>1. b + 1 - 1 = b
    BY <1>2
  <2> QED
    <3>1. /\ A0 \in ArgSet /\ A0.from = b /\ A0.to = t.to /\ t.to \in (b + 1)..n
          /\ Q!At(l, t.to + 1) \in Q!Ends /\ SentFrom(l, t.to + 1).is = "ok"
      <4>1. A0 \in ArgSet
        BY <1>5, <1>e DEF TokenFirst
      <4>2. A0.from = b /\ A0.to = t.to
        BY <1>2, <1>5, <1>e, TokenPlace, SMTT(30)
      <4>3. t.to \in (b + 1)..n
        BY <1>5, <1>e DEF TokenFirst
      <4>4. Q!At(l, t.to + 1) \in Q!Ends
        BY <1>5, <1>e DEF TokenFirst
      <4>5. SentFrom(l, t.to + 1).is = "ok"
        BY SMTT(30), <1>5, <1>e DEF TokenFirst
      <4> QED
        BY <4>1, <4>2, <4>3, <4>4, <4>5
    <3>2. Rest \in Seq(ArgSet) /\ S = Join(<<A0>>, Rest)
      BY <1>5, <1>e DEF TokenFirst
    <3> QED
      BY <2>1, <3>1, <3>2
<1>7. Before(X, b) /\ X \in Seq(ArgSet) /\ args = Join(X, S) /\ S \in Seq(ArgSet)
  BY <1>4, <1>e DEF CutAt, Before
<1> DEFINE x == Len(X)
           y == Len(Rest)
<1>8. /\ Len(args) = x + 1 + y /\ x \in Nat /\ y \in Nat
      /\ (\A i \in 1..x : args[i] = X[i]) /\ args[x + 1] = A0
      /\ (\A i \in 1..y : args[x + 1 + i] = Rest[i])
  <2>1. Three(Join(X, Join(<<A0>>, Rest)), X, A0, Rest)
    BY <1>6, <1>7, AcceptedIs
  <2> QED
    BY <1>6, <1>7, <2>1 DEF Three
<1> HIDE DEF x, y
<1>9. k = x + 1 /\ t.to = b2
  <2>1. k > x
    <3>1. ASSUME k \in 1..x PROVE FALSE
      <4>1. X[k].to < b
        BY <1>7, <3>1 DEF Before, x
      <4>2. args[k] = X[k]
        BY <1>8, <3>1
      <4> QED
        BY SMTT(30), <1>2, <1>e, <4>1, <4>2
    <3> QED
      BY <1>8, <3>1
  <2>2. x + 1 \in 1..Len(args)
    BY <1>8
  <2>3. x + 1 < k => A0.to < b
    BY <1>1, <1>8, <1>e, <2>2 DEF InOrder
  <2>4. k = x + 1
    BY <1>2, <1>6, <1>8, <2>1, <2>3
  <2> QED
    BY <1>6, <1>8, <1>e, <2>4
<1>10. Q!At(l, b2 + 1) \in Q!Ends /\ SentFrom(l, b2 + 1).is = "ok" /\ Y = Rest
  BY <1>6, <1>9, <1>e
<1>11. PICK X2, A, Y2 : Accepts(l, l2, b, b2, arg, X2, A, Y2)
  BY <1>2, <1>3, <1>10, <1>e, OfferAccepted
<1>12. /\ X2 \in Seq(ArgSet) /\ args = Join(X2, S) /\ A \in ArgSet /\ A.bytes = arg
       /\ SentFrom(l2, 1).is = "ok" /\ args2 = Join(X2, Join(<<A>>, Y2)) /\ SameBytes(Y2, Y)
       /\ Y2 \in Seq(ArgSet) /\ Len(Y2) = y /\ \A i \in 1..y : Y2[i].bytes = Rest[i].bytes
  BY <1>10, <1>11, <1>e, SMTT(30) DEF Accepts, Before, SameBytes, y
<1>13. Len(X2) = x /\ \A i \in 1..x : args[i] = X2[i]
  <2>1. /\ Len(args) = Len(X2) + 1 + y /\ Len(X2) \in Nat
        /\ \A i \in 1..Len(X2) : args[i] = X2[i]
    <3>1. Three(Join(X2, Join(<<A0>>, Rest)), X2, A0, Rest)
      BY <1>6, <1>12, AcceptedIs
    <3> QED
      BY <1>6, <1>12, <3>1 DEF Three, y
  <2>2. Len(X2) = x
    BY <1>8, <2>1
  <2> QED
    BY <2>1, <2>2
<1>14. /\ args2 \in Seq(ArgSet) /\ Len(args2) = x + 1 + y
       /\ (\A i \in 1..x : args2[i] = X2[i]) /\ args2[x + 1] = A
       /\ (\A i \in 1..y : args2[x + 1 + i] = Y2[i])
  <2>1. Three(Join(X2, Join(<<A>>, Y2)), X2, A, Y2)
    BY <1>12, AcceptedIs
  <2> QED
    BY <1>12, <1>13, <2>1 DEF Three
<1>15. Q!Argv(l2) = [i \in 1..(x + 1 + y) |-> args2[i].bytes]
  BY <1>14, <1>e, ArgvIs
<1>16. Q!Argv(l) = [i \in 1..(x + 1 + y) |-> args[i].bytes]
  BY <1>1, <1>8, <1>e, ArgvIs, SMTT(30)
<1>17. ASSUME NEW i \in 1..(x + 1 + y)
       PROVE  args2[i].bytes = IF i = k THEN arg ELSE args[i].bytes
  <2>1. CASE i \in 1..x
    BY <1>8, <1>9, <1>13, <1>14, <2>1
  <2>2. CASE i = x + 1
    BY <1>9, <1>12, <1>14, <2>2
  <2>3. CASE i > x + 1
    <3>1. i - (x + 1) \in 1..y /\ x + 1 + (i - (x + 1)) = i
      <4>1. x \in Nat /\ y \in Nat
        BY <1>8
      <4> QED
        BY <2>3, <4>1
    <3>2. args2[i] = Y2[i - (x + 1)] /\ args[i] = Rest[i - (x + 1)]
      BY <1>8, <1>14, <3>1
    <3> QED
      BY <1>8, <1>9, <1>12, <2>3, <3>1, <3>2
  <2> QED
    BY <1>8, <2>1, <2>2, <2>3
<1>18. Q!Argv(l2) = [Q!Argv(l) EXCEPT ![k] = arg]
  <2> DEFINE N == x + 1 + y
             u == Q!Argv(l)
  <2>1. u = [i \in 1..N |-> args[i].bytes]
    BY <1>16
  <2>2. Q!Argv(l2) = [i \in 1..N |-> IF i = k THEN arg ELSE args[i].bytes]
    BY <1>15, <1>17
  <2> HIDE DEF N, u
  <2>3. [u EXCEPT ![k] = arg] = [i \in 1..N |-> IF i = k THEN arg ELSE args[i].bytes]
    BY <2>1
  <2> QED
    BY <2>2, <2>3 DEF u
<1> QED
  BY <1>12, <1>18

\* The arguments args that end before an offset.
EndBefore(args, at) == {i \in DOMAIN args : args[i].to < at}

\* The arguments u with one more behind the first c.
With(u, c, arg) == SubSeq(u, 1, c) \o <<arg>> \o SubSeq(u, c + 1, Len(u))

\* A new argument is inserted at the cursor.
LEMMA NewInserted ==
    ASSUME NEW l \in Seq(Q!Chars), SentFrom(l, 1).is = "ok",
           NEW args, args = SentFrom(l, 1).args, NEW at \in 0..Len(l),
           \A i \in 1..Len(args) : args[i].to < at \/ args[i].from > at,
           NEW arg \in Seq(Q!Chars), NEW l2, Replaced(l2, l, at, at, Q!Quote(arg)),
           NEW c, c = Cardinality(EndBefore(args, at))
    PROVE  SentFrom(l2, 1).is = "ok" /\ Q!Argv(l2) = With(Q!Argv(l), c, arg)
<1> DEFINE n == Len(l)
           S == SentFrom(l, at + 1).args
           args2 == SentFrom(l2, 1).args
<1>0. /\ n \in Nat /\ 1 \in 1..(n + 1) /\ at \in 0..n
      /\ at \in at..n /\ at \in Nat /\ at + 1 \in 1..(n + 1)
  BY Characters
<1>1. args \in Seq(ArgSet) /\ InOrder(args, l, n, 1)
  BY <1>0, SentOrder
<1>2. Cut(args, at)
  <2> SUFFICES ASSUME NEW j \in 1..Len(args) PROVE args[j].to < at \/ args[j].from >= at
    BY DEF Cut
  <2>1. args[j] \in ArgSet
    BY <1>1
  <2>2. args[j].from \in Nat
    BY <2>1, ArgSpan
  <2> QED
    BY <1>0, <2>2
<1>3. PICK X : CutAt(l, at, X)
  BY <1>0, <1>2, CutThere
<1>e. S = SentFrom(l, at + 1).args /\ n = Len(l) /\ args2 = SentFrom(l2, 1).args
  OBVIOUS
<1> HIDE DEF n, S, args2
<1>4. /\ Before(X, at) /\ X \in Seq(ArgSet) /\ args = Join(X, S) /\ S \in Seq(ArgSet)
      /\ InOrder(S, l, n, at + 1) /\ SentFrom(l, at + 1).is = "ok"
  BY <1>3, <1>e DEF CutAt, Before
<1> DEFINE x == Len(X)
           y == Len(S)
<1>5. Joined(Join(X, S), X, S, ArgSet)
  BY <1>4, JoinIs
<1>6. /\ Len(args) = x + y /\ x \in Nat /\ y \in Nat /\ DOMAIN args = 1..(x + y)
      /\ (\A i \in 1..x : args[i] = X[i]) /\ (\A i \in 1..y : args[x + i] = S[i])
      /\ (\A i \in (x + 1)..(x + y) : args[i] = S[i - x])
  BY <1>4, <1>5 DEF Joined
<1> HIDE DEF x, y
<1>7. Q!At(l, at + 1) \in Q!Ends
  <2>1. CASE at = n
    <3>1. at + 1 \in Nat /\ at + 1 > Len(l)
      BY <1>0, <1>e, <2>1
    <3> QED
      BY <3>1, Characters DEF Q!Ends
  <2>2. CASE at # n
    <3>1. at + 1 \in 1..n /\ Q!At(l, at + 1) = l[at + 1]
      <4>1. at + 1 \in 1..n
        BY <1>0, <2>2
      <4> QED
        BY <1>e, <4>1, Characters
    <3>2. ASSUME l[at + 1] # "space" PROVE FALSE
      <4> DEFINE t == SentAt(l, at + 1, "none")
                 A == ArgOf(t, at + 1)
                 Rest == SentFrom(l, t.to + 1).args
      <4>1. TokenFirst(l, at + 1, t)
        BY <1>4, <1>e, <3>1, <3>2, SentFirst
      <4>2. A \in ArgSet /\ A.from = at + 1 - 1 /\ Rest \in Seq(ArgSet) /\ S = Join(<<A>>, Rest)
        BY <1>e, <4>1 DEF TokenFirst
      <4> HIDE DEF t, A, Rest
      <4>3. Grown(Join(<<A>>, Rest), A, Rest)
        BY <4>2, OneMore
      <4>4. S[1] = A /\ 1 \in 1..y
        BY <4>2, <4>3 DEF Grown, y
      <4>5. args[x + 1] = A /\ x + 1 \in 1..Len(args)
        BY <1>6, <4>4
      <4>6. args[x + 1].from < args[x + 1].to
        BY <1>1, <4>5 DEF InOrder
      <4>7. args[x + 1].from = at /\ args[x + 1].to \in Nat
        BY <1>0, <4>2, <4>5, ArgSpan
      <4>8. args[x + 1].to < at \/ args[x + 1].from > at
        BY <4>5
      <4> QED
        BY <1>0, <4>6, <4>7, <4>8
    <3> QED
      BY <3>1, <3>2 DEF Q!Ends
  <2> QED
    BY <2>1, <2>2
<1>8. c = x
  <2>1. ASSUME NEW i \in 1..(x + y) PROVE args[i].to < at <=> i \in 1..x
    <3>1. CASE i \in 1..x
      BY <1>4, <1>6, <3>1 DEF Before, x
    <3>2. CASE i \notin 1..x
      <4>1. i \in (x + 1)..(x + y) /\ i - x \in 1..y
        BY <1>6, <3>2
      <4>2. args[i] = S[i - x]
        BY <1>6, <4>1
      <4>3. at + 1 - 1 <= S[i - x].from /\ S[i - x].from < S[i - x].to
        BY <1>4, <4>1 DEF InOrder, y
      <4>4. S[i - x] \in ArgSet
        BY <1>4, <4>1 DEF y
      <4>5. S[i - x].from \in Nat /\ S[i - x].to \in Nat
        BY <4>4, ArgSpan
      <4>6. ~(S[i - x].to < at)
        BY <1>0, <4>3, <4>5
      <4> QED
        BY <3>2, <4>2, <4>6
    <3> QED
      BY <3>1, <3>2
  <2>2. EndBefore(args, at) = 1..x
    BY <1>6, <2>1 DEF EndBefore
  <2>3. Cardinality(1..x) = x
    <3>1. x = 0 => 1..x = {}
      OBVIOUS
    <3> QED
      BY <1>6, FS_Interval
  <2> QED
    BY <2>2, <2>3
<1>9. PICK X2, A, Y2 : Accepts(l, l2, at, at, arg, X2, A, Y2)
  BY <1>0, <1>2, <1>4, <1>7, <1>e, OfferAccepted
<1>10. /\ X2 \in Seq(ArgSet) /\ args = Join(X2, S) /\ A \in ArgSet /\ A.bytes = arg
       /\ SentFrom(l2, 1).is = "ok" /\ args2 = Join(X2, Join(<<A>>, Y2)) /\ SameBytes(Y2, S)
       /\ Y2 \in Seq(ArgSet) /\ Len(Y2) = y /\ \A i \in 1..y : Y2[i].bytes = S[i].bytes
  BY <1>9, <1>e DEF Accepts, Before, SameBytes, y
<1>11. Len(X2) = x /\ \A i \in 1..x : args[i] = X2[i]
  <2>1. Joined(Join(X2, S), X2, S, ArgSet)
    BY <1>4, <1>10, JoinIs
  <2>2. Len(args) = Len(X2) + y /\ Len(X2) \in Nat /\ \A i \in 1..Len(X2) : args[i] = X2[i]
    BY <1>10, <2>1 DEF Joined, y
  <2> QED
    BY <1>6, <2>2
<1>12. /\ args2 \in Seq(ArgSet) /\ Len(args2) = x + 1 + y
       /\ (\A i \in 1..x : args2[i] = X2[i]) /\ args2[x + 1] = A
       /\ (\A i \in 1..y : args2[x + 1 + i] = Y2[i])
  <2>1. Three(Join(X2, Join(<<A>>, Y2)), X2, A, Y2)
    BY <1>10, AcceptedIs
  <2> QED
    BY <1>10, <1>11, <2>1 DEF Three
<1> DEFINE u == Q!Argv(l)
           v == Q!Argv(l2)
<1>13. v = [i \in 1..(x + 1 + y) |-> args2[i].bytes]
  BY <1>12, <1>e, ArgvIs
<1>14. /\ u \in Seq(Seq(Q!Chars)) /\ Len(u) = x + y
       /\ \A i \in 1..(x + y) : u[i] = args[i].bytes
  BY <1>1, <1>6, <1>e, ArgvIs
<1> HIDE DEF u, v
<1>15. v = SubSeq(u, 1, x) \o <<arg>> \o SubSeq(u, x + 1, Len(u))
  <2> DEFINE p == SubSeq(u, 1, x)
             q == SubSeq(u, x + 1, Len(u))
             w == <<arg>>
             D == Seq(Q!Chars)
             z == Join(Join(p, w), q)
  <2>1. p \in Seq(D) /\ Len(p) = x /\ \A i \in 1..x : p[i] = u[i]
    BY <1>6, <1>14
  <2>2. q \in Seq(D) /\ Len(q) = y /\ \A i \in 1..y : q[i] = u[x + i]
    BY <1>6, <1>14
  <2>3. w \in Seq(D) /\ Len(w) = 1 /\ w[1] = arg
    OBVIOUS
  <2>4. z = SubSeq(u, 1, x) \o <<arg>> \o SubSeq(u, x + 1, Len(u))
    BY DEF Join
  <2> HIDE DEF p, q, w, D
  <2>5. Joined(Join(p, w), p, w, D)
    BY <2>1, <2>3, JoinIs
  <2> DEFINE pw == Join(p, w)
  <2>6. pw \in Seq(D) /\ Len(pw) = x + 1 /\ (\A i \in 1..x : pw[i] = u[i]) /\ pw[x + 1] = arg
    <3>1. 1 \in 1..Len(w) /\ Len(p) + 1 = x + 1
      BY <2>1, <2>3
    <3> QED
      BY <2>1, <2>3, <2>5, <3>1 DEF Joined
  <2>7. Joined(Join(pw, q), pw, q, D)
    <3> HIDE DEF pw
    <3> QED
      BY <2>2, <2>6, JoinIs
  <2>8. z = Join(pw, q)
    OBVIOUS
  <2> HIDE DEF pw, z
  <2>9. /\ Len(z) = x + 1 + y /\ DOMAIN z = 1..Len(z) /\ z \in Seq(D)
        /\ (\A i \in 1..(x + 1) : z[i] = pw[i]) /\ (\A i \in 1..y : z[x + 1 + i] = q[i])
    BY <1>6, <2>2, <2>6, <2>7, <2>8 DEF Joined
  <2>10. ASSUME NEW i \in 1..(x + 1 + y) PROVE z[i] = args2[i].bytes
    <3>1. CASE i \in 1..x
      <4>1. i \in 1..(x + 1) /\ i \in 1..(x + y)
        BY <1>6, <3>1
      <4> QED
        <5>1. z[i] = pw[i] /\ pw[i] = u[i]
          BY <2>6, <2>9, <3>1, <4>1
        <5>2. u[i] = args[i].bytes
          BY <1>14, <4>1
        <5>3. args[i] = args2[i]
          BY <1>11, <1>12, <3>1
        <5> QED
          BY <5>1, <5>2, <5>3
    <3>2. CASE i = x + 1
      <4>1. i \in 1..(x + 1)
        BY <1>6, <3>2
      <4> QED
        BY <1>10, <1>12, <2>6, <2>9, <3>2, <4>1
    <3>3. CASE i > x + 1
      <4> DEFINE j == i - (x + 1)
      <4>1. j \in 1..y /\ x + 1 + j = i /\ x + j \in 1..(x + y)
        <5>1. x \in Nat /\ y \in Nat
          BY <1>6
        <5> QED
          BY <3>3, <5>1
      <4> HIDE DEF j
      <4>2. z[i] = u[x + j]
        BY <2>2, <2>9, <4>1
      <4>3. u[x + j] = S[j].bytes
        BY <1>6, <1>14, <4>1
      <4>4. args2[i] = Y2[j] /\ Y2[j].bytes = S[j].bytes
        BY <1>10, <1>12, <4>1
      <4> QED
        BY <4>2, <4>3, <4>4
    <3> QED
      BY <1>6, <3>1, <3>2, <3>3
  <2>11. z = [i \in 1..(x + 1 + y) |-> z[i]]
    BY <2>9
  <2>12. v = z
    BY <1>13, <2>10, <2>11
  <2> QED
    BY <2>4, <2>12
<1> QED
  BY <1>8, <1>10, <1>15 DEF u, v, With

\* What is shown of any line lies in the line.
Within(args, n) ==
    /\ args \in Seq(ArgSet)
    /\ \A k \in 1..Len(args) : /\ args[k].from \in Nat /\ args[k].to \in Nat
                               /\ args[k].from <= args[k].to /\ args[k].to <= n

LEMMA ShownWithin ==
    ASSUME NEW l \in Seq(Q!Chars), NEW n, n = Len(l)
    PROVE  \A i \in 1..(n + 1) : Within(ShownFrom(l, i).args, n)
<1> DEFINE Good == {i \in 1..(n + 1) : Within(ShownFrom(l, i).args, n)}
<1>0. n \in Nat /\ n + 1 \in Nat
  BY Characters
<1>1. ASSUME NEW i \in 1..(n + 1), \A j \in (i + 1)..(n + 1) : j \in Good,
             NEW v, v = ShownFrom(l, i)
      PROVE  Within(v.args, n)
  <2>1. CASE i = n + 1
    <3>1. v.args = <<>>
      BY <1>1, <2>1, ShownSteps
    <3>2. <<>> \in Seq(ArgSet) /\ Len(<<>>) = 0
      OBVIOUS
    <3> QED
      BY <3>1, <3>2 DEF Within
  <2>2. CASE i \in 1..n /\ l[i] = "space"
    <3>1. v = ShownFrom(l, i + 1) /\ i + 1 \in (i + 1)..(n + 1)
      BY <1>0, <1>1, <2>2, ShownSteps
    <3> QED
      BY <1>1, <3>1
  <2>3. CASE i \in 1..n /\ l[i] # "space"
    <3> DEFINE s == ShownAt(l, i, "none")
               rest == ShownFrom(l, s.to + 1)
               b == ArgOf(s, i)
    <3>1. /\ s.to \in i..n /\ s.to + 1 \in (i + 1)..(n + 1) /\ s.bytes \in Seq(Q!Chars)
          /\ rest.is = "ok" => v = [is |-> "ok", args |-> Join(<<b>>, rest.args)]
      BY <1>1, <2>3, ShownToken
    <3>2. Within(rest.args, n)
      BY <1>1, <3>1
    <3>3. rest.is = "ok"
      <4> HIDE DEF s
      <4>1. s.to + 1 \in 1..(n + 1)
        BY <1>0, <2>3, <3>1
      <4> QED
        BY <4>1, ArgsAgree DEF Shown
    <3>4. /\ b \in ArgSet /\ b.from = i - 1 /\ b.to = s.to
      <4> HIDE DEF s
      <4>1. i \in Nat \ {0} /\ s.to \in Nat
        BY <1>0, <2>3, <3>1
      <4> QED
        BY <3>1, <4>1, ArgIs
    <3> HIDE DEF s, rest, b
    <3>5. v.args = Join(<<b>>, rest.args)
      BY <3>1, <3>3
    <3>6. Grown(v.args, b, rest.args)
      BY <3>2, <3>4, <3>5, OneMore DEF Within
    <3>7. b.from \in Nat /\ b.to \in Nat /\ b.from <= b.to /\ b.to <= n
      <4>1. i \in Nat \ {0} /\ s.to \in Nat /\ s.to >= i /\ s.to <= n
        BY <1>0, <2>3, <3>1
      <4> QED
        BY <3>4, <4>1
    <3>8. ASSUME NEW k \in 1..Len(v.args)
          PROVE  /\ v.args[k].from \in Nat /\ v.args[k].to \in Nat
                 /\ v.args[k].from <= v.args[k].to /\ v.args[k].to <= n
      <4>1. CASE k = 1
        BY <3>6, <3>7, <4>1 DEF Grown
      <4>2. CASE k # 1
        <5>1. k \in 2..(Len(rest.args) + 1)
          BY <3>6, <4>2 DEF Grown
        <5>2. v.args[k] = rest.args[k - 1] /\ k - 1 \in 1..Len(rest.args)
          BY <3>6, <5>1 DEF Grown
        <5> QED
          BY <3>2, <5>2 DEF Within
      <4> QED
        BY <4>1, <4>2
    <3>9. v.args \in Seq(ArgSet)
      BY <3>6 DEF Grown
    <3> QED
      BY <3>8, <3>9 DEF Within
  <2>4. i = n + 1 \/ i \in 1..n
    BY <1>0
  <2> QED
    BY <2>1, <2>2, <2>3, <2>4
<1>2. ASSUME NEW i \in 1..(n + 1), \A j \in (i + 1)..(n + 1) : j \in Good PROVE i \in Good
  BY <1>1, <1>2
<1>3. \A i \in 1..(n + 1) : i \in Good
  <2> HIDE DEF Good
  <2> QED
    BY <1>0, <1>2, Downward
<1> QED
  BY <1>3

\* The spans of a line, beside what its tokenizer made of it.
SpansMatch(l, spans, split) ==
    /\ Within(spans, Len(l)) /\ DOMAIN spans = 1..Len(spans) /\ Len(spans) \in Nat
    /\ split = SentFrom(l, 1)
    /\ split.is = "ok" => split.args = spans /\ InOrder(spans, l, Len(l), 1)
    /\ split.is = "unbalanced" => \E k \in 1..Len(spans) : spans[k].open

LEMMA SpansAre ==
    ASSUME NEW l \in Seq(Q!Chars), NEW spans, spans = Q!Spans(l),
           NEW split, split = Q!SplitArgs(l)
    PROVE  SpansMatch(l, spans, split)
<1> DEFINE n == Len(l)
           v == ShownFrom(l, 1)
<1>1. n \in Nat /\ 1 \in 1..(n + 1)
  BY Characters
<1>2. split = SentFrom(l, 1) /\ spans = v.args
  BY DEF Q!SplitArgs, Q!Spans, SentFrom, ShownFrom
<1>3. Shown(split, v, l, n, 1)
  BY <1>1, <1>2, ArgsAgree
<1>4. Within(spans, n)
  BY <1>1, <1>2, ShownWithin
<1> HIDE DEF v
<1>5. DOMAIN spans = 1..Len(spans) /\ Len(spans) \in Nat
  BY <1>4 DEF Within
<1>6. split.is = "ok" => split.args = spans /\ InOrder(spans, l, n, 1)
  BY <1>2, <1>3 DEF Shown
<1>7. split.is = "unbalanced" => \E k \in 1..Len(spans) : spans[k].open
  BY <1>2, <1>3 DEF Shown
<1> QED
  BY <1>2, <1>4, <1>5, <1>6, <1>7 DEF SpansMatch

LEMMA Topmost ==
    ASSUME NEW N \in Nat, NEW T, T \subseteq 1..N, T # {}
    PROVE  Q!Max(T) \in T
<1> DEFINE D == {d \in Nat : N - d \in T}
<1>1. PICK x \in T : x \in 1..N
  OBVIOUS
<1>2. N - x \in Nat /\ N - (N - x) = x
  BY <1>1
<1>3. D \subseteq Nat /\ D # {}
  BY <1>2
<1> HIDE DEF D
<1>4. PICK d \in D : \A e \in D : d <= e
  BY <1>3, Least
<1>5. d \in Nat /\ N - d \in T
  BY <1>4 DEF D
<1>6. ASSUME NEW y \in T PROVE N - d >= y
  <2>1. y \in 1..N /\ N - y \in Nat /\ N - (N - y) = y
    OBVIOUS
  <2>2. d <= N - y
    BY <1>4, <2>1 DEF D
  <2> QED
    BY <1>5, <2>1, <2>2
<1> QED
  BY <1>5, <1>6 DEF Q!Max

\* What `analyse' says of the cursor.
Found(l, at, spans, a) ==
    /\ a.spans = spans /\ (a.incomplete <=> \E k \in 1..Len(spans) : spans[k].open)
    /\ a.active = 0 \/ a.active \in 1..Len(spans)
    /\ a.active = 0 /\ InOrder(spans, l, Len(l), 1) =>
         \A k \in 1..Len(spans) : spans[k].to < at \/ spans[k].from > at

LEMMA AnalyseIs ==
    ASSUME NEW l \in Seq(Q!Chars), NEW at \in 0..Len(l), NEW spans, spans = Q!Spans(l),
           NEW a, a = Q!Analyse(l, at)
    PROVE  Found(l, at, spans, a)
<1> DEFINE under == {i \in DOMAIN spans : spans[i].from <= at /\ at <= spans[i].to}
           new == spans = <<>> \/ at > Q!Last(spans).to
           c == Len(spans)
<1>1. Within(spans, Len(l)) /\ DOMAIN spans = 1..c /\ c \in Nat
  BY SpansAre DEF SpansMatch
<1>2. /\ a.spans = spans
      /\ a.incomplete = (\E i \in DOMAIN spans : spans[i].open)
      /\ a.active = IF new \/ under = {} THEN 0 ELSE Q!Max(under)
  BY DEF Q!Analyse, Q!Analysis
<1>3. under \subseteq 1..c
  BY <1>1
<1>4. CASE new \/ under = {}
  <2>1. a.active = 0
    BY <1>2, <1>4
  <2>2. ASSUME InOrder(spans, l, Len(l), 1), NEW k \in 1..c
        PROVE  spans[k].to < at \/ spans[k].from > at
    <3>1. spans[k].from \in Nat /\ spans[k].to \in Nat /\ at \in Int
      BY <1>1, Characters DEF Within
    <3>2. CASE under = {}
      <4>1. ~(spans[k].from <= at /\ at <= spans[k].to)
        BY <1>1, <3>2
      <4> QED
        BY <3>1, <4>1
    <3>3. CASE spans = <<>>
      BY <1>1, <3>3
    <3>4. CASE spans # <<>> /\ at > Q!Last(spans).to
      <4>1. Q!Last(spans) = spans[c] /\ c \in 1..c
        BY <1>1 DEF Q!Last
      <4>2. spans[c].from \in Nat /\ spans[c].to \in Nat /\ spans[c].from < spans[c].to
        BY <1>1, <2>2, <4>1 DEF Within, InOrder
      <4>3. k # c => spans[k].to < spans[c].from
        <5>1. k # c => k < c
          <6>1. c \in Nat /\ k \in 1..c
            BY <1>1
          <6> HIDE DEF c, under, new
          <6> QED
            BY <6>1
        <5> QED
          BY <2>2, <4>1, <5>1 DEF InOrder
      <4> HIDE DEF c
      <4> QED
        BY <3>1, <3>4, <4>1, <4>2, <4>3
    <3> QED
      BY <1>4, <3>2, <3>3, <3>4
  <2> QED
    BY <1>1, <1>2, <2>1, <2>2 DEF Found
<1>5. CASE ~(new \/ under = {})
  <2>1. a.active = Q!Max(under) /\ under # {}
    BY <1>2, <1>5
  <2> HIDE DEF under, c, new
  <2>2. a.active \in 1..c
    <3>1. Q!Max(under) \in under
      BY <1>1, <1>3, <2>1, Topmost
    <3> QED
      BY <1>3, <2>1, <3>1
  <2>3. a.active # 0
    BY <1>1, <2>2
  <2> QED
    BY <1>1, <1>2, <2>2, <2>3 DEF Found, c
<1> QED
  BY <1>4, <1>5

\* An offer accepted with the cursor at an offset of a line.
Accepted(l, l2, a, at, arg) ==
    /\ l2 \in Seq(Q!Chars)
    /\ a.active = 0 => Replaced(l2, l, at, at, Q!Quote(arg))
    /\ a.active # 0 => Replaced(l2, l, a.spans[a.active].from, a.spans[a.active].to, Q!Quote(arg))
    /\ Q!ReplacementSpan(a, at)[1] + Len(Q!Quote(arg)) \in 0..Len(l2)

LEMMA CompletedIs ==
    ASSUME NEW l \in Seq(Q!Chars), NEW at \in 0..Len(l), NEW a, a = Q!Analyse(l, at),
           NEW arg \in Seq(Q!Chars), NEW l2, l2 = Q!Completed(l, at, arg)
    PROVE  Accepted(l, l2, a, at, arg)
<1> DEFINE n == Len(l)
           spans == Q!Spans(l)
           r == Q!ReplacementSpan(a, at)
           b == r[1]
           b2 == r[2]
           q == Q!Quote(arg)
           d == b + Len(q) - b2
<1>0. n \in Nat /\ at \in Nat /\ at <= n
  BY Characters
<1>1. Within(spans, n) /\ Found(l, at, spans, a)
  BY SpansAre, AnalyseIs DEF SpansMatch
<1>2. a.spans = spans /\ (a.active = 0 \/ a.active \in 1..Len(spans))
  BY <1>1 DEF Found
<1>3. /\ a.active = 0 => b = at /\ b2 = at
      /\ a.active # 0 => b = a.spans[a.active].from /\ b2 = a.spans[a.active].to
  BY DEF Q!ReplacementSpan
<1>4. Replaced(l2, l, b, b2, q)
  BY DEF Q!Completed, Q!CompletedIn, Replaced
<1>5. q \in Seq(Q!Chars) /\ Len(q) \in Nat
  BY QuoteIs
<1>e. n = Len(l) /\ q = Q!Quote(arg) /\ d = b + Len(q) - b2 /\ b = Q!ReplacementSpan(a, at)[1]
  OBVIOUS
<1> HIDE DEF n, spans, r, b, b2, q, d
<1>6. b \in Nat /\ b2 \in Nat /\ b <= b2 /\ b2 <= n
  <2>1. CASE a.active = 0
    BY <1>0, <1>3, <2>1
  <2>2. CASE a.active # 0
    BY <1>1, <1>2, <1>3, <2>2 DEF Within
  <2> QED
    BY <2>1, <2>2
<1>7. b \in 0..n /\ b2 \in b..n
  BY <1>0, <1>6
<1>8. ReplacedWell(l2, l, b, b2, q, d)
  BY <1>4, <1>5, <1>7, <1>e, ReplacedIs
<1>9. l2 \in Seq(Q!Chars) /\ Len(l2) = n + d /\ b + Len(q) <= n + d /\ Len(l2) \in Nat
  BY <1>8, <1>e, Characters DEF ReplacedWell
<1>10. b + Len(q) \in 0..Len(l2)
  BY <1>5, <1>6, <1>9
<1> QED
  BY <1>3, <1>4, <1>9, <1>10, <1>e DEF Accepted

LEMMA Counted == \A S : Q!Cardinality(S) = Cardinality(S)
BY DEF Q!Cardinality, Cardinality

LineInv == line \in Seq(Q!Chars) /\ cursor \in 0..Len(line)

LEMMA LineStep == LineInv /\ [Q!Next]_(Q!vars) => LineInv'
<1> SUFFICES ASSUME LineInv, [Q!Next]_(Q!vars) PROVE LineInv'
  OBVIOUS
<1> DEFINE n == Len(line)
<1>0. line \in Seq(Q!Chars) /\ n \in Nat /\ cursor \in Nat /\ cursor <= n /\ n = Len(line)
  BY DEF LineInv
<1>1. ASSUME NEW c \in Q!Typed, Q!Type(c) PROVE LineInv'
  <2> DEFINE q == <<c>>
  <2>1. q \in Seq(Q!Chars) /\ Len(q) = 1
    BY DEF Q!Chars
  <2>2. Replaced(line', line, cursor, cursor, q) /\ cursor' = cursor + 1
    BY <1>1 DEF Q!Type, Replaced
  <2> HIDE DEF q, n
  <2>3. cursor \in 0..n /\ cursor \in cursor..n
    BY <1>0
  <2>4. ReplacedWell(line', line, cursor, cursor, q, cursor + Len(q) - cursor)
    BY <1>0, <2>1, <2>2, <2>3, ReplacedIs
  <2>5. line' \in Seq(Q!Chars) /\ Len(line') = n + (cursor + Len(q) - cursor)
    BY <1>0, <2>4 DEF ReplacedWell
  <2>6. cursor' \in 0..Len(line')
    BY <1>0, <2>1, <2>2, <2>5
  <2> QED
    BY <2>5, <2>6 DEF LineInv
<1>2. CASE Q!MoveLeft
  BY <1>0, <1>2 DEF Q!MoveLeft, LineInv
<1>3. ASSUME NEW arg \in Offers, Q!Complete(arg) PROVE LineInv'
  <2>1. arg \in Seq(Q!Chars)
    BY LookupsAssumption
  <2>2. Accepted(line, line', Q!Analyse(line, cursor), cursor, arg)
    BY <1>3, <2>1, CompletedIs DEF Q!Complete, LineInv
  <2>3. cursor' = Q!ReplacementSpan(Q!Analyse(line, cursor), cursor)[1] + Len(Q!Quote(arg))
    BY <1>3 DEF Q!Complete
  <2> QED
    BY <2>2, <2>3 DEF Accepted, LineInv
<1>4. CASE UNCHANGED Q!vars
  BY <1>4 DEF Q!vars, LineInv
<1> QED
  BY <1>1, <1>2, <1>3, <1>4 DEF Q!Next

LEMMA ShownFollows == LineInv => Q!ShownIsSent
<1> SUFFICES ASSUME LineInv PROVE Q!ShownIsSent
  OBVIOUS
<1> DEFINE split == Q!SplitArgs(line)
           a == Q!Analyse(line, cursor)
           spans == Q!Spans(line)
           c == Q!Cardinality({i \in DOMAIN a.spans : a.spans[i].to < cursor})
           args == Q!Argv(line)
<1>0. line \in Seq(Q!Chars) /\ cursor \in 0..Len(line)
  BY DEF LineInv
<1>1. SpansMatch(line, spans, split) /\ Found(line, cursor, spans, a)
  BY <1>0, SpansAre, AnalyseIs
<1>e. /\ split = Q!SplitArgs(line) /\ a = Q!Analyse(line, cursor) /\ args = Q!Argv(line)
      /\ c = Cardinality(EndBefore(a.spans, cursor))
  BY Counted DEF EndBefore
<1> HIDE DEF split, a, spans, c, args
<1>2. /\ a.spans = spans /\ (a.incomplete <=> \E k \in 1..Len(spans) : spans[k].open)
      /\ a.active = 0 \/ a.active \in 1..Len(spans)
      /\ split = SentFrom(line, 1)
      /\ split.is = "ok" => split.args = spans /\ InOrder(spans, line, Len(line), 1)
      /\ split.is = "unbalanced" => \E k \in 1..Len(spans) : spans[k].open
  BY <1>1 DEF Found, SpansMatch
<1>3. split.is = "ok" => ~a.incomplete /\ split.args = a.spans
  BY <1>2 DEF InOrder
<1>4. split.is = "unbalanced" => a.incomplete
  BY <1>2
<1>5. ASSUME split.is = "ok", NEW arg \in Offers, NEW l2, l2 = Q!Completed(line, cursor, arg)
      PROVE  /\ Q!SplitArgs(l2).is = "ok"
             /\ Q!Argv(l2) = IF a.active # 0 THEN [args EXCEPT ![a.active] = arg]
                             ELSE With(args, c, arg)
  <2>1. arg \in Seq(Q!Chars)
    BY LookupsAssumption
  <2>2. Accepted(line, l2, a, cursor, arg)
    BY <1>0, <1>5, <1>e, <2>1, CompletedIs
  <2>3. Q!SplitArgs(l2) = SentFrom(l2, 1)
    BY DEF Q!SplitArgs, SentFrom
  <2>4. /\ SentFrom(line, 1).is = "ok" /\ spans = SentFrom(line, 1).args /\ a.spans = spans
        /\ InOrder(spans, line, Len(line), 1)
    BY <1>2, <1>5
  <2>5. CASE a.active # 0
    <3>1. a.active \in 1..Len(spans)
      BY <1>2, <2>5
    <3>2. Replaced(l2, line, spans[a.active].from, spans[a.active].to, Q!Quote(arg))
      BY <2>2, <2>4, <2>5 DEF Accepted
    <3>3. SentFrom(l2, 1).is = "ok" /\ Q!Argv(l2) = [Q!Argv(line) EXCEPT ![a.active] = arg]
      BY <1>0, <2>1, <2>4, <3>1, <3>2, ActiveReplaced
    <3> QED
      BY <1>e, <2>3, <2>5, <3>3
  <2>6. CASE a.active = 0
    <3>1. Replaced(l2, line, cursor, cursor, Q!Quote(arg))
      BY <2>2, <2>6 DEF Accepted
    <3>2. \A k \in 1..Len(spans) : spans[k].to < cursor \/ spans[k].from > cursor
      BY <1>1, <2>4, <2>6 DEF Found
    <3>3. c = Cardinality(EndBefore(spans, cursor))
      BY <1>e, <2>4
    <3>4. /\ SentFrom(l2, 1).is = "ok"
          /\ Q!Argv(l2) = With(Q!Argv(line), c, arg)
      BY <1>0, <2>1, <2>4, <3>1, <3>2, <3>3, NewInserted
    <3> QED
      BY <1>e, <2>3, <2>6, <3>4
  <2> QED
    BY <2>5, <2>6
<1>6. split.is = "ok" => \A arg \in Offers :
         LET l == Q!Completed(line, cursor, arg)
         IN  /\ Q!SplitArgs(l).is = "ok"
             /\ Q!Argv(l) = IF a.active # 0 THEN [args EXCEPT ![a.active] = arg]
                            ELSE SubSeq(args, 1, c) \o <<arg>> \o SubSeq(args, c + 1, Len(args))
  BY <1>5 DEF With
<1>7. (split.is = "ok" => ~a.incomplete /\ split.args = a.spans)
      /\ (split.is = "unbalanced" => a.incomplete)
  BY <1>3, <1>4
<1> QED
  BY <1>6, <1>7, Zenon DEF Q!ShownIsSent, split, a, c, args

\* ShownIsSent: whatever is typed and whatever is accepted, the analyser finds the arguments
\* that the tokenizer sends at the places where it found them; it calls a line unfinished when
\* a quote is left open; and an offer accepted stands as one argument, quoted as it must be, in
\* the place of the one under the cursor or between its neighbours, and no other is disturbed.
THEOREM WhatIsShownIsSent == Q!Spec => [](Q!ShownIsSent /\ ShownIsSent)
<1>1. Q!Init => LineInv
  <2>1. <<>> \in Seq(Q!Chars) /\ Len(<<>>) = 0
    OBVIOUS
  <2> QED
    BY <2>1 DEF Q!Init, LineInv
<1>2. LineInv => Q!ShownIsSent /\ ShownIsSent
  BY ShownFollows DEF ShownIsSent
<1> QED
  BY <1>1, <1>2, LineStep, PTL DEF Q!Spec
=============================================================================
