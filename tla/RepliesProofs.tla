---------------------------- MODULE RepliesProofs ----------------------------
(***************************************************************************)
(* Proofs about what becomes of replies: the result store's answers and    *)
(* its byte count, the record of a subscription, the exit code of one      *)
(* command, a table that is drawn again, and the admission of pipes.       *)
(***************************************************************************)
EXTENDS Replies, SequenceTheorems, WellFoundedInduction, TLAPS

-----------------------------------------------------------------------------
(* Sums. *)

LEMMA Least ==
    ASSUME NEW W, W \subseteq Nat, W # {}
    PROVE  \E n \in W : \A m \in W : n <= m
<1> DEFINE R == OpToRel(<, Nat)
<1>1. \A x, y \in Nat : <<y, x>> \in R <=> y < x
  BY DEF OpToRel
<1>2. IsWellFoundedOn(R, Nat)
  BY NatLessThanWellFounded
<1> HIDE DEF R
<1>3. PICK x \in W : \A y \in W : ~ (<<y, x>> \in R)
  BY <1>2, WFMin, Zenon
<1>4. \A y \in W : ~ (y < x)
  BY <1>1, <1>3
<1> QED
  BY <1>3, <1>4

\* The sums of the first 0, 1, ..., n.
Stages(g, f, n) == g = [i \in 0..n |-> IF i = 0 THEN 0 ELSE g[i - 1] + f[i]]

LEMMA StagesExist ==
    ASSUME NEW f, NEW n \in Nat
    PROVE  \E g : Stages(g, f, n)
<1> DEFINE W == {m \in Nat : ~ \E g : Stages(g, f, m)}
<1> SUFFICES ASSUME W # {} PROVE FALSE
  OBVIOUS
<1>1. PICK m \in W : \A k \in W : m <= k
  BY Least
<1>2. m # 0
  <2> DEFINE g == [i \in 0..0 |-> 0]
  <2>1. Stages(g, f, 0)
    BY DEF Stages
  <2> QED
    BY <2>1
<1>3. m - 1 \in Nat /\ m - 1 \notin W
  BY <1>1, <1>2
<1>4. PICK g : Stages(g, f, m - 1)
  BY <1>3
<1> DEFINE h == [i \in 0..m |-> IF i <= m - 1 THEN g[i] ELSE g[m - 1] + f[m]]
<1>5. \A i \in 0..m : h[i] = IF i = 0 THEN 0 ELSE h[i - 1] + f[i]
  <2> TAKE i \in 0..m
  <2>1. CASE i = 0
    BY <1>3, <1>4, <2>1 DEF Stages
  <2>2. CASE i \in 1..(m - 1)
    BY <1>3, <1>4, <2>2 DEF Stages
  <2>3. CASE i = m
    BY <1>2, <1>3, <2>3
  <2> QED
    BY <2>1, <2>2, <2>3
<1>6. Stages(h, f, m)
  BY <1>5 DEF Stages
<1> QED
  BY <1>6

\* Sums of the same numbers are the same.
LEMMA StagesAgree ==
    ASSUME NEW f, NEW e, NEW g, NEW h, NEW n \in Nat, NEW m \in Nat,
           Stages(g, f, n), Stages(h, e, m),
           n <= m, \A i \in 1..n : f[i] = e[i]
    PROVE  \A i \in 0..n : g[i] = h[i]
<1> DEFINE W == {i \in 0..n : g[i] # h[i]}
<1> SUFFICES ASSUME W # {} PROVE FALSE
  OBVIOUS
<1>1. PICK k \in W : \A j \in W : k <= j
  <2>1. W \subseteq Nat
    OBVIOUS
  <2> HIDE DEF W
  <2> QED
    BY <2>1, Least
<1>2. g[0] = 0 /\ h[0] = 0
  BY DEF Stages
<1>3. k \in 1..n /\ k - 1 \in 0..n /\ k - 1 \notin W
  BY <1>1, <1>2
<1>4. g[k] = g[k - 1] + f[k] /\ h[k] = h[k - 1] + e[k]
  BY <1>3 DEF Stages
<1> QED
  BY <1>1, <1>3, <1>4

LEMMA SumIs ==
    ASSUME NEW f, NEW n \in Nat
    PROVE  \E g : Stages(g, f, n) /\ SumOf(f, n) = g[n]
<1>1. SumOf(f, n) = (CHOOSE g : Stages(g, f, n))[n]
  BY DEF SumOf, Stages
<1> QED
  BY <1>1, StagesExist

LEMMA SumZero == ASSUME NEW f PROVE SumOf(f, 0) = 0
  BY SumIs DEF Stages

LEMMA SumStep ==
    ASSUME NEW f, NEW n \in Nat, n > 0
    PROVE  SumOf(f, n) = SumOf(f, n - 1) + f[n]
<1>1. PICK g : Stages(g, f, n) /\ SumOf(f, n) = g[n]
  BY SumIs
<1>2. n - 1 \in Nat
  OBVIOUS
<1>3. PICK h : Stages(h, f, n - 1) /\ SumOf(f, n - 1) = h[n - 1]
  BY <1>2, SumIs
<1>4. h[n - 1] = g[n - 1]
  <2> DEFINE m == n - 1
  <2>1. m \in Nat /\ m <= n /\ m \in 0..m
    BY <1>2
  <2>2. Stages(h, f, m)
    BY <1>3
  <2> HIDE DEF m
  <2>3. \A i \in 1..m : f[i] = f[i]
    OBVIOUS
  <2>4. \A i \in 0..m : h[i] = g[i]
    BY <1>1, <2>1, <2>2, <2>3, StagesAgree
  <2>5. h[m] = g[m]
    BY <2>1, <2>4
  <2> QED
    BY <2>5 DEF m
<1>5. g[n] = g[n - 1] + f[n]
  BY <1>1 DEF Stages
<1> QED
  BY <1>1, <1>3, <1>4, <1>5

LEMMA SumSame ==
    ASSUME NEW f, NEW e, NEW n \in Nat, \A i \in 1..n : f[i] = e[i]
    PROVE  SumOf(f, n) = SumOf(e, n)
<1>1. PICK g : Stages(g, f, n) /\ SumOf(f, n) = g[n]
  BY SumIs
<1>2. PICK h : Stages(h, e, n) /\ SumOf(e, n) = h[n]
  BY SumIs
<1>3. n <= n /\ n \in 0..n
  OBVIOUS
<1>4. \A i \in 0..n : g[i] = h[i]
  BY <1>1, <1>2, <1>3, StagesAgree
<1> QED
  BY <1>1, <1>2, <1>3, <1>4

LEMMA SumNat ==
    ASSUME NEW f, NEW n \in Nat, \A i \in 1..n : f[i] \in Nat
    PROVE  SumOf(f, n) \in Nat
<1> DEFINE W == {i \in 0..n : SumOf(f, i) \notin Nat}
<1> SUFFICES ASSUME W # {} PROVE FALSE
  OBVIOUS
<1>1. PICK k \in W : \A j \in W : k <= j
  <2>1. W \subseteq Nat
    OBVIOUS
  <2> HIDE DEF W
  <2> QED
    BY <2>1, Least
<1>2. k # 0
  BY <1>1, SumZero
<1>3. k - 1 \in 0..n /\ k - 1 \notin W /\ k \in Nat /\ k > 0
  BY <1>1, <1>2
<1>4. SumOf(f, k) = SumOf(f, k - 1) + f[k] /\ f[k] \in Nat
  BY <1>3, SumStep
<1> QED
  BY <1>1, <1>3, <1>4

\* Sums of sums.
LEMMA SumAdds ==
    ASSUME NEW f, NEW e, NEW d, NEW n \in Nat,
           \A i \in 1..n : f[i] \in Nat /\ e[i] \in Nat /\ d[i] = f[i] + e[i]
    PROVE  SumOf(d, n) = SumOf(f, n) + SumOf(e, n)
<1> DEFINE W == {i \in 0..n : SumOf(d, i) # SumOf(f, i) + SumOf(e, i)}
<1> SUFFICES ASSUME W # {} PROVE FALSE
  OBVIOUS
<1>1. PICK k \in W : \A j \in W : k <= j
  <2>1. W \subseteq Nat
    OBVIOUS
  <2> HIDE DEF W
  <2> QED
    BY <2>1, Least
<1>2. k # 0
  BY <1>1, SumZero
<1>3. k - 1 \in 0..n /\ k - 1 \notin W /\ k \in Nat /\ k > 0 /\ k - 1 \in Nat /\ k \in 1..n
  BY <1>1, <1>2
<1>4. /\ SumOf(f, k) = SumOf(f, k - 1) + f[k]
      /\ SumOf(e, k) = SumOf(e, k - 1) + e[k]
      /\ SumOf(d, k) = SumOf(d, k - 1) + d[k]
  BY <1>3, SumStep
<1>5. SumOf(f, k - 1) \in Nat /\ SumOf(e, k - 1) \in Nat
  BY <1>3, SumNat
<1>6. f[k] \in Nat /\ e[k] \in Nat /\ d[k] = f[k] + e[k]
  BY <1>3
<1> QED
  BY <1>1, <1>3, <1>4, <1>5, <1>6

\* The sum of a stretch is the difference of two sums.
LEMMA SumStretch ==
    ASSUME NEW f, NEW e, NEW d \in Nat, NEW n \in Nat,
           \A i \in 1..(d + n) : f[i] \in Nat, \A i \in 1..n : e[i] = f[d + i]
    PROVE  SumOf(e, n) = SumOf(f, d + n) - SumOf(f, d)
<1> DEFINE W == {i \in 0..n : SumOf(e, i) # SumOf(f, d + i) - SumOf(f, d)}
<1> SUFFICES ASSUME W # {} PROVE FALSE
  BY n \in 0..n
<1>1. PICK k \in W : \A j \in W : k <= j
  <2>1. W \subseteq Nat
    OBVIOUS
  <2> HIDE DEF W
  <2> QED
    BY <2>1, Least
<1>0. \A i \in 0..n : SumOf(f, d + i) \in Nat
  <2> TAKE i \in 0..n
  <2>1. d + i \in Nat /\ 1..(d + i) \subseteq 1..(d + n)
    OBVIOUS
  <2> QED
    BY <2>1, SumNat
<1>2. k # 0
  <2>1. SumOf(e, 0) = 0 /\ d + 0 = d /\ SumOf(f, d) \in Nat
    BY <1>0, SumZero
  <2> QED
    BY <1>1, <2>1
<1>3. k - 1 \in 0..n /\ k - 1 \notin W /\ k \in Nat /\ k > 0 /\ k \in 1..n
      /\ d + k \in Nat /\ d + k > 0 /\ (d + k) - 1 = d + (k - 1) /\ d + k \in 1..(d + n)
  BY <1>1, <1>2
<1>4. SumOf(e, k) = SumOf(e, k - 1) + e[k]
  BY <1>3, SumStep
<1>5. SumOf(f, d + k) = SumOf(f, d + (k - 1)) + f[d + k]
  <2>1. SumOf(f, d + k) = SumOf(f, (d + k) - 1) + f[d + k]
    BY <1>3, SumStep
  <2> QED
    BY <1>3, <2>1
<1>6. e[k] = f[d + k] /\ f[d + k] \in Nat
  BY <1>3
<1>7. SumOf(e, k - 1) = SumOf(f, d + (k - 1)) - SumOf(f, d)
  BY <1>3
<1>8. SumOf(f, d + (k - 1)) \in Nat /\ SumOf(f, d) \in Nat
  <2>1. 0 \in 0..n /\ d + 0 = d
    OBVIOUS
  <2> QED
    BY <1>0, <1>3, <2>1
<1>9. SumOf(e, k) # SumOf(f, d + k) - SumOf(f, d)
  BY <1>1
<1> QED
  BY <1>4, <1>5, <1>6, <1>7, <1>8, <1>9

LEMMA SumMonotone ==
    ASSUME NEW f, NEW n \in Nat, \A i \in 1..n : f[i] \in Nat,
           NEW i \in 0..n, NEW j \in 0..n, i <= j
    PROVE  SumOf(f, i) \in Nat /\ SumOf(f, j) \in Nat /\ SumOf(f, i) <= SumOf(f, j)
<1> DEFINE m == j - i
           e == [k \in 1..m |-> f[i + k]]
<1>1. /\ m \in Nat /\ i + m = j /\ i \in Nat /\ j \in Nat
      /\ 1..i \subseteq 1..n /\ 1..j \subseteq 1..n /\ \A k \in 1..m : i + k \in 1..n
  OBVIOUS
<1>2. \A k \in 1..m : e[k] \in Nat /\ e[k] = f[i + k]
  BY <1>1
<1>3. SumOf(f, i) \in Nat /\ SumOf(f, j) \in Nat
  BY <1>1, SumNat
<1> HIDE DEF e, m
<1>4. SumOf(e, m) \in Nat
  BY <1>1, <1>2, SumNat
<1>5. SumOf(e, m) = SumOf(f, i + m) - SumOf(f, i)
  BY <1>1, <1>2, SumStretch
<1> QED
  BY <1>1, <1>3, <1>4, <1>5

\* One number among zeros.
LEMMA SumSingle ==
    ASSUME NEW f, NEW n \in Nat, NEW k \in 1..n, NEW v \in Nat,
           \A i \in 1..n : f[i] = IF i = k THEN v ELSE 0
    PROVE  SumOf(f, n) = v
<1> DEFINE Upto0(i) == IF i < k THEN 0 ELSE v
           W == {i \in 0..n : SumOf(f, i) # Upto0(i)}
<1> SUFFICES ASSUME W # {} PROVE FALSE
  BY n \in 0..n /\ ~(n < k)
<1>1. PICK m \in W : \A j \in W : m <= j
  <2>1. W \subseteq Nat
    OBVIOUS
  <2> HIDE DEF W
  <2> QED
    BY <2>1, Least
<1>2. m # 0
  <2>1. Upto0(0) = 0
    OBVIOUS
  <2> QED
    BY <1>1, <2>1, SumZero
<1>3. m - 1 \in 0..n /\ m - 1 \notin W /\ m \in Nat /\ m > 0 /\ m \in 1..n
  BY <1>1, <1>2
<1>4. SumOf(f, m) = SumOf(f, m - 1) + f[m]
  BY <1>3, SumStep
<1>5. SumOf(f, m - 1) = Upto0(m - 1) /\ f[m] = IF m = k THEN v ELSE 0
  BY <1>3
<1>6. SumOf(f, m) = Upto0(m)
  BY <1>3, <1>4, <1>5
<1> QED
  BY <1>1, <1>6

-----------------------------------------------------------------------------
(* The result store: bytes. *)

\* Results and their sizes.
Sized(it) == /\ DOMAIN it \subseteq Handles
             /\ \A h \in DOMAIN it : it[h].size \in Nat

SizesOf(it, D) == [h \in 1..MaxPuts |-> IF h \in D THEN it[h].size ELSE 0]
BytesOf(it, D) == SumOf(SizesOf(it, D), MaxPuts)

LEMMA BytesAre == \A D : Bytes(D) = BytesOf(items, D)
  BY DEF Bytes, BytesOf, SizesOf

LEMMA SizesNat ==
    ASSUME NEW it, Sized(it), NEW D, D \subseteq DOMAIN it
    PROVE  \A h \in 1..MaxPuts : SizesOf(it, D)[h] \in Nat
  BY DEF Sized, SizesOf

LEMMA BytesNat ==
    ASSUME NEW it, Sized(it), NEW D, D \subseteq DOMAIN it
    PROVE  BytesOf(it, D) \in Nat
<1>1. MaxPuts \in Nat
  BY BudgetAssumption
<1> QED
  BY <1>1, SizesNat, SumNat DEF BytesOf

LEMMA BytesSplit ==
    ASSUME NEW it, Sized(it), NEW D, D \subseteq DOMAIN it, NEW C, C \subseteq D
    PROVE  BytesOf(it, D) = BytesOf(it, C) + BytesOf(it, D \ C)
<1>1. MaxPuts \in Nat
  BY BudgetAssumption
<1> DEFINE f == SizesOf(it, C)
           e == SizesOf(it, D \ C)
           d == SizesOf(it, D)
<1>2. \A h \in 1..MaxPuts : f[h] \in Nat /\ e[h] \in Nat
  <2>1. C \subseteq DOMAIN it /\ D \ C \subseteq DOMAIN it
    OBVIOUS
  <2> QED
    BY <2>1, SizesNat
<1>3. \A h \in 1..MaxPuts : d[h] = f[h] + e[h]
  <2> TAKE h \in 1..MaxPuts
  <2>1. CASE h \in C
    <3>1. f[h] = it[h].size /\ e[h] = 0 /\ d[h] = it[h].size
      BY <2>1 DEF SizesOf
    <3> QED
      BY <1>2, <3>1
  <2>2. CASE h \notin C
    <3>1. f[h] = 0 /\ e[h] = d[h]
      BY <2>2 DEF SizesOf
    <3> QED
      BY <1>2, <3>1
  <2> QED
    BY <2>1, <2>2
<1> HIDE DEF f, e, d
<1>4. SumOf(d, MaxPuts) = SumOf(f, MaxPuts) + SumOf(e, MaxPuts)
  BY <1>1, <1>2, <1>3, SumAdds
<1> QED
  BY <1>4 DEF BytesOf, f, e, d

LEMMA BytesSame ==
    ASSUME NEW it, NEW jt, NEW D, \A h \in D : it[h] = jt[h]
    PROVE  BytesOf(it, D) = BytesOf(jt, D)
<1>1. MaxPuts \in Nat
  BY BudgetAssumption
<1>2. \A h \in 1..MaxPuts : SizesOf(it, D)[h] = SizesOf(jt, D)[h]
  BY DEF SizesOf
<1> QED
  BY <1>1, <1>2, SumSame DEF BytesOf

LEMMA BytesOne ==
    ASSUME NEW it, NEW h \in Handles, it[h].size \in Nat
    PROVE  BytesOf(it, {h}) = it[h].size
<1>1. MaxPuts \in Nat
  BY BudgetAssumption
<1>2. \A i \in 1..MaxPuts : SizesOf(it, {h})[i] = IF i = h THEN it[h].size ELSE 0
  BY DEF SizesOf
<1> QED
  BY <1>1, <1>2, SumSingle DEF BytesOf, Handles

-----------------------------------------------------------------------------
(* The result store: what `retain' keeps. *)

\* The handles in the list, each after the ones before it.
Increasing(s) == \A i, j \in DOMAIN s : i < j => s[i] < s[j]
Elements(s) == {s[i] : i \in DOMAIN s}
First(s, k) == {s[i] : i \in 1..k}

KeptStep(u, x, D) == IF x \in D THEN u ELSE Append(u, x)
KeptStages(g, s, D, n) ==
    g = [i \in 0..n |-> IF i = 0 THEN <<>> ELSE KeptStep(g[i - 1], s[i], D)]

LEMMA KeptExists ==
    ASSUME NEW s, NEW D, NEW n \in Nat
    PROVE  \E g : KeptStages(g, s, D, n)
<1> DEFINE W == {m \in Nat : ~ \E g : KeptStages(g, s, D, m)}
<1> SUFFICES ASSUME W # {} PROVE FALSE
  OBVIOUS
<1>1. PICK m \in W : \A k \in W : m <= k
  BY Least
<1>2. m # 0
  <2> DEFINE g == [i \in 0..0 |-> <<>>]
  <2>1. KeptStages(g, s, D, 0)
    BY DEF KeptStages
  <2> QED
    BY <2>1
<1>3. m - 1 \in Nat /\ m - 1 \notin W
  BY <1>1, <1>2
<1>4. PICK g : KeptStages(g, s, D, m - 1)
  BY <1>3
<1> DEFINE last == KeptStep(g[m - 1], s[m], D)
           h == [i \in 0..m |-> IF i <= m - 1 THEN g[i] ELSE last]
<1>5. \A i \in 0..m : h[i] = IF i = 0 THEN <<>> ELSE KeptStep(h[i - 1], s[i], D)
  <2> TAKE i \in 0..m
  <2>1. CASE i = 0
    BY <1>3, <1>4, <2>1 DEF KeptStages
  <2>2. CASE i \in 1..(m - 1)
    <3>1. h[i] = g[i] /\ h[i - 1] = g[i - 1] /\ i # 0
      BY <1>3, <2>2
    <3>2. g[i] = KeptStep(g[i - 1], s[i], D)
      BY <1>3, <1>4, <2>2 DEF KeptStages
    <3> QED
      BY <3>1, <3>2
  <2>3. CASE i = m
    <3>1. h[m] = last /\ h[m - 1] = g[m - 1]
      BY <1>2, <1>3
    <3> QED
      BY <1>2, <2>3, <3>1
  <2> QED
    BY <2>1, <2>2, <2>3
<1>6. KeptStages(h, s, D, m)
  BY <1>5 DEF KeptStages
<1> QED
  BY <1>6

\* One handle more at the end.
LEMMA AppendIncreasing ==
    ASSUME NEW u \in Seq(Nat), Increasing(u), NEW x \in Nat, \A i \in DOMAIN u : u[i] < x
    PROVE  /\ Append(u, x) \in Seq(Nat) /\ Increasing(Append(u, x))
           /\ Elements(Append(u, x)) = Elements(u) \cup {x}
<1> DEFINE v == Append(u, x)
<1>1. /\ v \in Seq(Nat) /\ DOMAIN v = 1..(Len(u) + 1) /\ DOMAIN u = 1..Len(u) /\ Len(u) \in Nat
      /\ v[Len(u) + 1] = x /\ \A i \in 1..Len(u) : v[i] = u[i]
  OBVIOUS
<1> HIDE DEF v
<1>2. \A i \in DOMAIN u : u[i] \in Nat
  OBVIOUS
<1>3. Increasing(v)
  <2> SUFFICES ASSUME NEW i \in DOMAIN v, NEW j \in DOMAIN v, i < j PROVE v[i] < v[j]
    BY DEF Increasing
  <2>1. i \in 1..Len(u) /\ v[i] = u[i] /\ i \in DOMAIN u
    BY <1>1
  <2>2. CASE j = Len(u) + 1
    BY <1>1, <2>1, <2>2
  <2>3. CASE j # Len(u) + 1
    <3>1. j \in DOMAIN u /\ v[j] = u[j]
      BY <1>1, <2>3
    <3> QED
      BY <2>1, <3>1 DEF Increasing
  <2> QED
    BY <2>2, <2>3
<1>4. Elements(v) = Elements(u) \cup {x}
  <2>1. \A i \in DOMAIN v : (i \in DOMAIN u /\ v[i] = u[i]) \/ v[i] = x
    BY <1>1
  <2>2. \A i \in DOMAIN u : i \in DOMAIN v /\ v[i] = u[i]
    BY <1>1
  <2>3. Len(u) + 1 \in DOMAIN v
    BY <1>1
  <2> QED
    BY <1>1, <2>1, <2>2, <2>3 DEF Elements
<1> QED
  BY <1>1, <1>3, <1>4 DEF v

\* Retained keeps what is not in D, in its order.
LEMMA RetainedIs ==
    ASSUME NEW s \in Seq(Nat), Increasing(s), NEW D
    PROVE  /\ Retained(s, D) \in Seq(Nat) /\ Increasing(Retained(s, D))
           /\ Elements(Retained(s, D)) = Elements(s) \ D
<1> DEFINE n == Len(s)
<1>1. n \in Nat /\ DOMAIN s = 1..n /\ \A i \in 1..n : s[i] \in Nat
  OBVIOUS
<1>2. Retained(s, D) = (CHOOSE g : KeptStages(g, s, D, n))[n]
  BY DEF Retained, KeptStages, KeptStep
<1>3. PICK g : KeptStages(g, s, D, n) /\ Retained(s, D) = g[n]
  BY <1>1, <1>2, KeptExists
<1>7. \A i \in 1..n : g[i] = KeptStep(g[i - 1], s[i], D)
  <2> HIDE DEF n
  <2> TAKE i \in 1..n
  <2>1. i \in 0..n /\ i # 0
    BY <1>1
  <2> QED
    BY <1>3, <2>1 DEF KeptStages
<1> DEFINE Good(i) == /\ g[i] \in Seq(Nat) /\ Increasing(g[i])
                      /\ Elements(g[i]) = First(s, i) \ D
           W == {i \in 0..n : ~Good(i)}
<1>4. W = {}
  <2> SUFFICES ASSUME W # {} PROVE FALSE
    OBVIOUS
  <2>1. PICK m \in W : \A j \in W : m <= j
    <3>1. W \subseteq Nat
      BY <1>1
    <3> HIDE DEF W
    <3> QED
      BY <3>1, Least
  <2>2. Good(0)
    <3>1. g[0] = <<>>
      BY <1>1, <1>3 DEF KeptStages
    <3> QED
      BY <3>1 DEF Increasing, Elements, First
  <2>3. m - 1 \in 0..n /\ m - 1 \notin W /\ m \in 1..n
    BY <1>1, <2>1, <2>2
  <2>4. Good(m - 1)
    BY <2>3
  <2>5. g[m] = IF s[m] \in D THEN g[m - 1] ELSE Append(g[m - 1], s[m])
    <3>1. g[m] = KeptStep(g[m - 1], s[m], D)
      BY <1>7, <2>3
    <3> QED
      BY <3>1 DEF KeptStep
  <2>6. First(s, m) = First(s, m - 1) \cup {s[m]}
    <3>1. 1..m = 1..(m - 1) \cup {m}
      BY <2>3
    <3> QED
      BY <3>1 DEF First
  <2>7. CASE s[m] \in D
    <3>1. g[m] = g[m - 1] /\ First(s, m) \ D = First(s, m - 1) \ D
      BY <2>5, <2>6, <2>7
    <3> QED
      BY <2>1, <2>4, <3>1
  <2>8. CASE s[m] \notin D
    <3>1. \A i \in DOMAIN g[m - 1] : g[m - 1][i] < s[m]
      <4> TAKE i \in DOMAIN g[m - 1]
      <4>1. g[m - 1][i] \in First(s, m - 1)
        BY <2>4 DEF Elements
      <4>2. PICK j \in 1..(m - 1) : g[m - 1][i] = s[j]
        BY <4>1 DEF First
      <4>3. j \in DOMAIN s /\ m \in DOMAIN s /\ j < m
        BY <1>1, <2>3
      <4> QED
        BY <4>2, <4>3 DEF Increasing
    <3>2. s[m] \in Nat
      BY <1>1, <2>3
    <3> DEFINE u == g[m - 1]
    <3>3. u \in Seq(Nat) /\ Increasing(u)
      BY <2>4
    <3> HIDE DEF u
    <3>4. /\ Append(u, s[m]) \in Seq(Nat) /\ Increasing(Append(u, s[m]))
          /\ Elements(Append(u, s[m])) = Elements(u) \cup {s[m]}
      BY <3>1, <3>2, <3>3, AppendIncreasing DEF u
    <3>5. (First(s, m - 1) \ D) \cup {s[m]} = First(s, m) \ D
      BY <2>6, <2>8
    <3>6. g[m] = Append(u, s[m]) /\ Elements(u) = First(s, m - 1) \ D
      BY <2>4, <2>5, <2>8 DEF u
    <3> QED
      BY <2>1, <3>4, <3>5, <3>6
  <2> QED
    BY <2>7, <2>8
<1>5. Good(n)
  BY <1>1, <1>4
<1>6. First(s, n) = Elements(s)
  BY <1>1 DEF First, Elements
<1> QED
  BY <1>3, <1>5, <1>6

-----------------------------------------------------------------------------
(* The result store: its invariant. *)

\* The list of handles is the results retained, oldest first, and the count is their bytes.
OrderOK ==
    /\ Sized(items)
    /\ order \in Seq(Nat) /\ Increasing(order) /\ Elements(order) = DOMAIN items
    /\ used = BytesOf(items, DOMAIN items) /\ used <= TotalBytes

\* Every handle given out is in one place.
PlacesOK ==
    /\ next_id \in Nat \ {0}
    /\ DOMAIN items \cup evicted \cup too_large = 1..(next_id - 1)
    /\ evicted \cap DOMAIN items = {}
    /\ too_large \cap (DOMAIN items \cup evicted) = {}

StoreInv == OrderOK /\ PlacesOK

\* What is left of the list when the k oldest are gone.
LEMMA RestOfOrder ==
    ASSUME NEW s \in Seq(Nat), Increasing(s), NEW k \in 0..Len(s)
    PROVE  /\ SubSeq(s, k + 1, Len(s)) \in Seq(Nat) /\ Increasing(SubSeq(s, k + 1, Len(s)))
           /\ Elements(SubSeq(s, k + 1, Len(s))) = Elements(s) \ First(s, k)
<1> DEFINE n == Len(s)
           u == SubSeq(s, k + 1, n)
<1>1. n \in Nat /\ DOMAIN s = 1..n /\ \A i \in 1..n : s[i] \in Nat
  OBVIOUS
<1>2. u \in Seq(Nat) /\ DOMAIN u = 1..(n - k) /\ \A i \in 1..(n - k) : u[i] = s[k + i]
  <2>1. k + 1 \in 1..(n + 1) /\ n \in Nat /\ k \in Nat /\ k <= n
    BY <1>1
  <2>2. u \in Seq(Nat) /\ Len(u) = n - k
    <3>1. \A i \in (k + 1)..n : s[i] \in Nat
      BY <1>1
    <3>2. u \in Seq(Nat) /\ Len(u) = IF k + 1 <= n THEN n - (k + 1) + 1 ELSE 0
      BY <2>1, <3>1, SubSeqProperties
    <3> HIDE DEF u
    <3> QED
      BY <2>1, <3>2
  <2>3. \A i \in 1..(n - k) : u[i] = s[(k + 1) + i - 1]
    BY <1>1, <2>1
  <2>4. \A i \in 1..(n - k) : (k + 1) + i - 1 = k + i
    BY <2>1
  <2> QED
    BY <2>2, <2>3, <2>4
<1> HIDE DEF u
<1>3. \A i \in 1..(n - k) : k + i \in 1..n
  BY <1>1
<1>4. Increasing(u)
  <2> SUFFICES ASSUME NEW i \in 1..(n - k), NEW j \in 1..(n - k), i < j PROVE u[i] < u[j]
    BY <1>2 DEF Increasing
  <2>1. k + i \in DOMAIN s /\ k + j \in DOMAIN s /\ k + i < k + j
    BY <1>1, <1>3
  <2> QED
    BY <1>2, <2>1 DEF Increasing
<1>5. Elements(u) = Elements(s) \ First(s, k)
  <2>1. ASSUME NEW x \in Elements(u) PROVE x \in Elements(s) \ First(s, k)
    <3>1. PICK i \in 1..(n - k) : x = s[k + i]
      BY <1>2, <2>1 DEF Elements
    <3>2. k + i \in DOMAIN s
      BY <1>1, <1>3
    <3>3. ASSUME NEW j \in 1..k PROVE s[j] # x
      <4>1. j \in DOMAIN s /\ j < k + i /\ s[j] \in Nat /\ s[k + i] \in Nat
        BY <1>1, <3>2
      <4>2. s[j] < s[k + i]
        BY <3>2, <4>1 DEF Increasing
      <4> QED
        BY <3>1, <4>1, <4>2
    <3> QED
      BY <3>1, <3>2, <3>3 DEF Elements, First
  <2>2. ASSUME NEW x \in Elements(s) \ First(s, k) PROVE x \in Elements(u)
    <3>1. PICK i \in 1..n : x = s[i]
      BY <1>1, <2>2 DEF Elements
    <3>2. i \notin 1..k
      BY <2>2, <3>1 DEF First
    <3>3. i - k \in 1..(n - k) /\ k + (i - k) = i
      BY <1>1, <3>2
    <3>4. u[i - k] = x /\ i - k \in DOMAIN u
      BY <1>2, <3>1, <3>3
    <3> QED
      BY <3>4 DEF Elements
  <2> QED
    BY <2>1, <2>2
<1> QED
  BY <1>2, <1>4, <1>5 DEF u

\* The oldest results and their bytes.
LEMMA OldestAre ==
    ASSUME OrderOK, NEW k \in 0..Len(order)
    PROVE  /\ Oldest(k) = First(order, k) /\ Oldest(k) \subseteq DOMAIN items
           /\ Bytes(Oldest(k)) \in Nat /\ used \in Nat
           /\ used - Bytes(Oldest(k)) = BytesOf(items, DOMAIN items \ Oldest(k))
           /\ BytesOf(items, DOMAIN items \ Oldest(k)) \in Nat
<1>1. Oldest(k) = First(order, k) /\ Oldest(k) \subseteq DOMAIN items
  <2>1. DOMAIN order = 1..Len(order) /\ Len(order) \in Nat
    BY DEF OrderOK
  <2>2. 1..k \subseteq DOMAIN order
    BY <2>1
  <2> QED
    BY <2>2 DEF OrderOK, Oldest, First, Elements
<1>2. DOMAIN items \ Oldest(k) \subseteq DOMAIN items /\ Sized(items)
  BY DEF OrderOK
<1>3. BytesOf(items, DOMAIN items) =
          BytesOf(items, Oldest(k)) + BytesOf(items, DOMAIN items \ Oldest(k))
  BY <1>1, <1>2, BytesSplit
<1>4. BytesOf(items, Oldest(k)) \in Nat /\ BytesOf(items, DOMAIN items \ Oldest(k)) \in Nat
  BY <1>1, <1>2, BytesNat
<1>5. Bytes(Oldest(k)) = BytesOf(items, Oldest(k)) /\ used = BytesOf(items, DOMAIN items)
  BY BytesAre DEF OrderOK
<1> QED
  BY <1>1, <1>3, <1>4, <1>5

\* `put' evicts no more than it needs.
LEMMA PutEvicts ==
    ASSUME OrderOK, NEW size \in Nat
    PROVE  LET k == EvictionsFor(size) IN
           /\ k \in 0..Len(order)
           /\ \A j \in 0..(k - 1) : used - Bytes(Oldest(j)) + size > TotalBytes
<1> DEFINE Enough(k) == k = Len(order) \/ used - Bytes(Oldest(k)) + size <= TotalBytes
           W == {k \in 0..Len(order) : Enough(k)}
           Is(k) == Enough(k) /\ \A j \in 0..(k - 1) : ~Enough(j)
<1>0. Len(order) \in Nat
  BY DEF OrderOK
<1>1. PICK k \in W : \A j \in W : k <= j
  <2>1. W \subseteq Nat /\ Len(order) \in W
    BY <1>0
  <2> HIDE DEF W
  <2> QED
    BY <2>1, Least
<1>2. Is(k)
  <2>1. ASSUME NEW j \in 0..(k - 1), Enough(j) PROVE FALSE
    <3>1. j \in 0..Len(order) /\ ~(k <= j)
      BY <1>0, <1>1
    <3> QED
      BY <1>1, <2>1, <3>1
  <2> QED
    BY <1>1, <2>1
<1>3. EvictionsFor(size) = CHOOSE i \in 0..Len(order) : Is(i)
  BY DEF EvictionsFor
<1>4. k \in 0..Len(order)
  BY <1>1
<1> DEFINE c == EvictionsFor(size)
<1>5. c \in 0..Len(order) /\ Is(c)
  <2> HIDE DEF Is
  <2> QED
    BY <1>2, <1>3, <1>4
<1> HIDE DEF c
<1>6. ASSUME NEW j \in 0..(c - 1) PROVE used - Bytes(Oldest(j)) + size > TotalBytes
  <2>1. ~(used - Bytes(Oldest(j)) + size <= TotalBytes)
    BY <1>5
  <2>2. j \in 0..Len(order)
    BY <1>0, <1>5
  <2>3. used \in Nat /\ Bytes(Oldest(j)) \in Nat /\ TotalBytes \in Nat
    BY <2>2, OldestAre, BudgetAssumption
  <2> QED
    BY <2>1, <2>3
<1> QED
  BY <1>5, <1>6 DEF c

\* The answers of a step, and what `put' took away.
HonestAnswers ==
    \A h \in Handles :
        /\ h < next_id' => Get(h)' # "unknown"
        /\ Get(h) \in {"evicted", "too_large"} => Get(h)' = Get(h)
        /\ h \in DOMAIN items \cap DOMAIN items' => items'[h] = items[h]

NoMoreThanNeeded ==
    LET gone == evicted' \ evicted
        held == Bytes(DOMAIN items)
    IN  next_id \in DOMAIN items' =>
            \A h \in gone : held - Bytes({g \in gone : g < h}) + items'[next_id].size > TotalBytes

\* The step AnswersAreFinal speaks of.
FinalStep ==
    LET gone == evicted' \ evicted
        held == Bytes(DOMAIN items)
    IN
    /\ \A h \in Handles :
         /\ h < next_id' => Get(h)' # "unknown"
         /\ Get(h) \in {"evicted", "too_large"} => Get(h)' = Get(h)
         /\ h \in DOMAIN items \cap DOMAIN items' => items'[h] = items[h]
    /\ next_id \in DOMAIN items' =>
         \A h \in gone : held - Bytes({g \in gone : g < h}) + items'[next_id].size > TotalBytes

\* A step after which every handle has its place, and none given up comes back.
LEMMA PlacesGiveAnswers ==
    ASSUME PlacesOK, PlacesOK', evicted \subseteq evicted', too_large \subseteq too_large',
           \A h \in DOMAIN items \cap DOMAIN items' : items'[h] = items[h]
    PROVE  HonestAnswers
<1> SUFFICES ASSUME NEW h \in Handles
             PROVE  /\ h < next_id' => Get(h)' # "unknown"
                    /\ Get(h) \in {"evicted", "too_large"} => Get(h)' = Get(h)
  BY DEF HonestAnswers
<1>1. ASSUME h < next_id' PROVE Get(h)' # "unknown"
  <2>1. h \in 1..(next_id' - 1)
    <3>1. next_id' \in Nat
      BY DEF PlacesOK
    <3>2. h \in Nat /\ h >= 1
      BY BudgetAssumption DEF Handles
    <3>3. \A a, b \in Nat : a >= 1 /\ a < b => a \in 1..(b - 1)
      OBVIOUS
    <3> QED
      BY <1>1, <3>1, <3>2, <3>3, Zenon
  <2>2. h \in DOMAIN items' \cup evicted' \cup too_large'
    BY <2>1 DEF PlacesOK
  <2> QED
    BY <2>2 DEF Get
<1>2. ASSUME Get(h) = "evicted" PROVE Get(h)' = "evicted"
  <2>1. h \in evicted
    BY <1>2 DEF Get
  <2>2. h \in evicted' /\ h \notin DOMAIN items'
    BY <2>1 DEF PlacesOK
  <2> QED
    BY <2>2 DEF Get
<1>3. ASSUME Get(h) = "too_large" PROVE Get(h)' = "too_large"
  <2>1. h \in too_large
    BY <1>3 DEF Get
  <2>2. h \in too_large' /\ h \notin DOMAIN items' /\ h \notin evicted'
    BY <2>1 DEF PlacesOK
  <2> QED
    BY <2>2 DEF Get
<1> QED
  BY <1>1, <1>2, <1>3

LEMMA RefuseStep ==
    ASSUME StoreInv, NEW k \in 0..Len(order), Refuse(k)
    PROVE  StoreInv' /\ HonestAnswers /\ NoMoreThanNeeded
<1> DEFINE D == Oldest(k)
<1>0. OrderOK /\ PlacesOK
  BY DEF StoreInv
<1>1. /\ D = First(order, k) /\ D \subseteq DOMAIN items /\ Bytes(D) \in Nat /\ used \in Nat
      /\ used - Bytes(D) = BytesOf(items, DOMAIN items \ D)
      /\ BytesOf(items, DOMAIN items \ D) \in Nat
  BY <1>0, OldestAre
<1>2. /\ items' = [h \in DOMAIN items \ D |-> items[h]]
      /\ order' = SubSeq(order, k + 1, Len(order)) /\ evicted' = evicted \cup D
      /\ used' = used - Bytes(D) /\ too_large' = too_large \cup {next_id}
      /\ next_id' = next_id + 1
  BY DEF Refuse, Drop
<1> HIDE DEF D
<1>3. DOMAIN items' = DOMAIN items \ D /\ \A h \in DOMAIN items' : items'[h] = items[h]
  BY <1>2
<1>4. Sized(items')
  BY <1>0, <1>3 DEF OrderOK, Sized
<1>5. order' \in Seq(Nat) /\ Increasing(order') /\ Elements(order') = DOMAIN items'
  BY <1>0, <1>1, <1>2, <1>3, RestOfOrder DEF OrderOK
<1>6. BytesOf(items', DOMAIN items') = BytesOf(items, DOMAIN items \ D)
  BY <1>3, BytesSame
<1>7. used' <= TotalBytes
  BY <1>0, <1>1, <1>2, BudgetAssumption DEF OrderOK
<1>8. OrderOK'
  BY <1>1, <1>2, <1>4, <1>5, <1>6, <1>7 DEF OrderOK
<1>9. next_id \notin DOMAIN items /\ next_id \notin evicted /\ next_id \in Nat \ {0}
  BY <1>0 DEF PlacesOK
<1>10. 1..(next_id' - 1) = 1..(next_id - 1) \cup {next_id}
  BY <1>2, <1>9
<1>11. PlacesOK'
  <2>1. next_id' \in Nat \ {0}
    BY <1>2, <1>9
  <2>2. DOMAIN items' \cup evicted' \cup too_large' = 1..(next_id' - 1)
    BY <1>0, <1>1, <1>2, <1>3, <1>10 DEF PlacesOK
  <2>3. evicted' \cap DOMAIN items' = {}
    BY <1>0, <1>2, <1>3 DEF PlacesOK
  <2>4. too_large' \cap (DOMAIN items' \cup evicted') = {}
    BY <1>0, <1>1, <1>2, <1>3, <1>9 DEF PlacesOK
  <2> QED
    BY <2>1, <2>2, <2>3, <2>4 DEF PlacesOK
<1>12. HonestAnswers
  BY <1>0, <1>2, <1>3, <1>11, PlacesGiveAnswers
<1>13. NoMoreThanNeeded
  BY <1>3, <1>9 DEF NoMoreThanNeeded
<1> QED
  BY <1>8, <1>11, <1>12, <1>13 DEF StoreInv

LEMMA KeepStep ==
    ASSUME StoreInv, NEW k \in 0..Len(order), NEW size \in Nat, NEW epoch, Keep(k, size, epoch),
           next_id <= MaxPuts, used - Bytes(Oldest(k)) + size <= TotalBytes,
           \A j \in 0..(k - 1) : used - Bytes(Oldest(j)) + size > TotalBytes
    PROVE  StoreInv' /\ HonestAnswers /\ NoMoreThanNeeded
<1> DEFINE D == Oldest(k)
           rest == SubSeq(order, k + 1, Len(order))
           left == DOMAIN items \ D
<1>0. OrderOK /\ PlacesOK
  BY DEF StoreInv
<1>1. /\ D = First(order, k) /\ D \subseteq DOMAIN items /\ Bytes(D) \in Nat /\ used \in Nat
      /\ used - Bytes(D) = BytesOf(items, left) /\ BytesOf(items, left) \in Nat
  BY <1>0, OldestAre
<1>2. /\ items' = [h \in (DOMAIN items \ D) \cup {next_id} |->
                     IF h = next_id THEN [size |-> size, epoch |-> epoch] ELSE items[h]]
      /\ order' = Append(rest, next_id) /\ evicted' = evicted \cup D
      /\ used' = used - Bytes(D) + size /\ too_large' = too_large
      /\ next_id' = next_id + 1
  BY DEF Keep
<1>2a. used - Bytes(D) + size <= TotalBytes
  OBVIOUS
<1>3. rest \in Seq(Nat) /\ Increasing(rest) /\ Elements(rest) = left
  BY <1>0, <1>1, RestOfOrder DEF OrderOK
<1> HIDE DEF D, rest, left
<1>4. /\ next_id \notin DOMAIN items /\ next_id \notin evicted /\ next_id \notin too_large
      /\ next_id \in Nat \ {0} /\ next_id \in Handles
  BY <1>0, BudgetAssumption DEF PlacesOK, Handles
<1>5. /\ DOMAIN items' = left \cup {next_id} /\ left \subseteq DOMAIN items
      /\ items'[next_id] = [size |-> size, epoch |-> epoch] /\ items'[next_id].size = size
      /\ \A h \in left : items'[h] = items[h]
  <2>1. DOMAIN items' = left \cup {next_id} /\ left \subseteq DOMAIN items /\ next_id \in DOMAIN items'
    BY <1>2 DEF left
  <2>2. items'[next_id] = [size |-> size, epoch |-> epoch]
    BY <1>2, <2>1
  <2>3. \A h \in left : items'[h] = items[h]
    BY <1>2, <1>4, <2>1
  <2> QED
    BY <2>1, <2>2, <2>3
<1>6. Sized(items')
  BY <1>0, <1>4, <1>5 DEF OrderOK, Sized
<1>7. order' \in Seq(Nat) /\ Increasing(order') /\ Elements(order') = DOMAIN items'
  <2>1. \A i \in DOMAIN rest : rest[i] < next_id
    <3> TAKE i \in DOMAIN rest
    <3>1. rest[i] \in DOMAIN items
      BY <1>3, <1>5 DEF Elements
    <3>2. rest[i] \in 1..(next_id - 1)
      BY <1>0, <3>1 DEF PlacesOK
    <3> QED
      BY <1>4, <3>2
  <2> QED
    BY <1>2, <1>3, <1>4, <1>5, <2>1, AppendIncreasing
<1>8. BytesOf(items', DOMAIN items') = BytesOf(items, left) + size
  <2>1. left \subseteq DOMAIN items' /\ DOMAIN items' \ left = {next_id}
    BY <1>4, <1>5
  <2>2. BytesOf(items', DOMAIN items') =
            BytesOf(items', left) + BytesOf(items', DOMAIN items' \ left)
    BY <1>6, <2>1, BytesSplit
  <2>3. BytesOf(items', left) = BytesOf(items, left)
    BY <1>5, BytesSame
  <2>4. BytesOf(items', {next_id}) = size
    BY <1>4, <1>5, BytesOne
  <2> QED
    BY <2>1, <2>2, <2>3, <2>4
<1>9. OrderOK'
  <2>1. used' = BytesOf(items', DOMAIN items') /\ used' <= TotalBytes
    BY <1>1, <1>2, <1>2a, <1>8
  <2> QED
    BY <1>6, <1>7, <2>1 DEF OrderOK
<1>10. 1..(next_id' - 1) = 1..(next_id - 1) \cup {next_id}
  BY <1>2, <1>4
<1>11. PlacesOK'
  <2>1. next_id' \in Nat \ {0}
    BY <1>2, <1>4
  <2>2. DOMAIN items' \cup evicted' \cup too_large' = 1..(next_id' - 1)
    BY <1>0, <1>1, <1>2, <1>5, <1>10 DEF PlacesOK, left
  <2>3. evicted' \cap DOMAIN items' = {}
    BY <1>0, <1>1, <1>2, <1>4, <1>5 DEF PlacesOK, left
  <2>4. too_large' \cap (DOMAIN items' \cup evicted') = {}
    BY <1>0, <1>1, <1>2, <1>4, <1>5 DEF PlacesOK
  <2> QED
    BY <2>1, <2>2, <2>3, <2>4 DEF PlacesOK
<1>12. HonestAnswers
  <2>1. \A h \in DOMAIN items \cap DOMAIN items' : items'[h] = items[h]
    BY <1>4, <1>5
  <2> QED
    BY <1>0, <1>2, <1>11, <2>1, PlacesGiveAnswers
<1>13. NoMoreThanNeeded
  <2>1. evicted' \ evicted = D
    BY <1>0, <1>1, <1>2 DEF PlacesOK
  <2>2. Bytes(DOMAIN items) = used
    BY <1>0, BytesAre DEF OrderOK
  <2>3. ASSUME NEW h \in D
        PROVE  used - Bytes({g \in D : g < h}) + size > TotalBytes
    <3>1. PICK i \in 1..k : h = order[i]
      BY <1>1, <2>3 DEF First
    <3>2. i - 1 \in 0..(k - 1) /\ i - 1 \in 0..Len(order) /\ Len(order) \in Nat
      BY <1>0 DEF OrderOK
    <3>3. Oldest(i - 1) = First(order, i - 1)
      BY <1>0, <3>2, OldestAre
    <3>4. {g \in First(order, k) : g < order[i]} = First(order, i - 1)
      <4>1. DOMAIN order = 1..Len(order) /\ \A j \in 1..Len(order) : order[j] \in Nat
        BY <1>0 DEF OrderOK
      <4>2. ASSUME NEW j \in 1..k PROVE order[j] < order[i] <=> j \in 1..(i - 1)
        <5>1. j \in DOMAIN order /\ i \in DOMAIN order /\ order[i] \in Nat /\ order[j] \in Nat
          BY <3>2, <4>1
        <5>2. /\ j < i => order[j] < order[i]
              /\ i < j => order[i] < order[j]
          BY <1>0, <5>1 DEF OrderOK, Increasing
        <5> QED
          BY <5>1, <5>2
      <4>3. 1..(i - 1) \subseteq 1..k
        OBVIOUS
      <4> QED
        BY <4>2, <4>3 DEF First
    <3> QED
      BY <1>1, <3>1, <3>2, <3>3, <3>4
  <2> QED
    BY <1>5, <2>1, <2>2, <2>3 DEF NoMoreThanNeeded
<1> QED
  BY <1>9, <1>11, <1>12, <1>13 DEF StoreInv

LEMMA InvalidateStep ==
    ASSUME StoreInv, InvalidateScope
    PROVE  StoreInv' /\ HonestAnswers /\ NoMoreThanNeeded
<1> DEFINE D == {h \in DOMAIN items : items[h].epoch # scope}
<1>0. OrderOK /\ PlacesOK
  BY DEF StoreInv
<1>1. /\ items' = [h \in DOMAIN items \ D |-> items[h]]
      /\ order' = Retained(order, D) /\ evicted' = evicted \cup D
      /\ used' = used - Bytes(D) /\ too_large' = too_large /\ next_id' = next_id
  BY DEF InvalidateScope, Drop
<1>2. D \subseteq DOMAIN items /\ DOMAIN items \ D \subseteq DOMAIN items
  OBVIOUS
<1> HIDE DEF D
<1>3. DOMAIN items' = DOMAIN items \ D /\ \A h \in DOMAIN items' : items'[h] = items[h]
  BY <1>1
<1>4. Sized(items')
  BY <1>0, <1>3 DEF OrderOK, Sized
<1>5. order' \in Seq(Nat) /\ Increasing(order') /\ Elements(order') = DOMAIN items'
  BY <1>0, <1>1, <1>3, RetainedIs DEF OrderOK
<1>6. BytesOf(items', DOMAIN items') = BytesOf(items, DOMAIN items \ D)
  BY <1>3, BytesSame
<1>7. /\ BytesOf(items, DOMAIN items) = BytesOf(items, D) + BytesOf(items, DOMAIN items \ D)
      /\ BytesOf(items, D) \in Nat /\ BytesOf(items, DOMAIN items \ D) \in Nat
  BY <1>0, <1>2, BytesSplit, BytesNat DEF OrderOK
<1>8. Bytes(D) = BytesOf(items, D)
  BY BytesAre
<1>9. used' = BytesOf(items', DOMAIN items') /\ used' <= TotalBytes
  <2>1. used = BytesOf(items, DOMAIN items) /\ used <= TotalBytes /\ TotalBytes \in Nat
    BY <1>0, BudgetAssumption DEF OrderOK
  <2> QED
    BY <1>1, <1>6, <1>7, <1>8, <2>1
<1>10. OrderOK'
  BY <1>4, <1>5, <1>9 DEF OrderOK
<1>11. PlacesOK'
  BY <1>0, <1>1, <1>2, <1>3 DEF PlacesOK
<1>12. HonestAnswers
  BY <1>0, <1>1, <1>3, <1>11, PlacesGiveAnswers
<1>13. NoMoreThanNeeded
  <2>1. next_id \notin DOMAIN items
    BY <1>0 DEF PlacesOK
  <2> QED
    BY <1>3, <2>1 DEF NoMoreThanNeeded
<1> QED
  BY <1>10, <1>11, <1>12, <1>13 DEF StoreInv

LEMMA StoreStep ==
    ASSUME StoreInv, [Next]_vars
    PROVE  StoreInv' /\ [HonestAnswers /\ NoMoreThanNeeded]_vars
<1>1. CASE \E size \in Sizes, epoch \in 0..scope : Put(size, epoch)
  <2>1. PICK size \in Sizes, epoch \in 0..scope : Put(size, epoch)
    BY <1>1
  <2> DEFINE k == EvictionsFor(size)
  <2>2. size \in Nat /\ SingleBytes \in Nat /\ TotalBytes \in Nat /\ OrderOK
    BY BudgetAssumption DEF StoreInv
  <2>3. k \in 0..Len(order) /\ \A j \in 0..(k - 1) : used - Bytes(Oldest(j)) + size > TotalBytes
    BY <2>2, PutEvicts
  <2>4. /\ next_id <= MaxPuts
        /\ IF size > SingleBytes THEN Refuse(0)
           ELSE IF used - Bytes(Oldest(k)) + size > TotalBytes THEN Refuse(k)
           ELSE Keep(k, size, epoch)
    BY <2>1 DEF Put
  <2> HIDE DEF k
  <2>5. CASE Refuse(0)
    <3>1. 0 \in 0..Len(order)
      BY <2>2 DEF OrderOK
    <3> QED
      BY <2>5, <3>1, RefuseStep
  <2>6. CASE Refuse(k)
    BY <2>3, <2>6, RefuseStep
  <2>7. CASE Keep(k, size, epoch) /\ ~(used - Bytes(Oldest(k)) + size > TotalBytes)
    <3>1. used \in Nat /\ Bytes(Oldest(k)) \in Nat
      BY <2>2, <2>3, OldestAre
    <3>2. used - Bytes(Oldest(k)) + size <= TotalBytes
      BY <2>2, <2>7, <3>1
    <3> QED
      BY <2>2, <2>3, <2>4, <2>7, <3>2, KeepStep
  <2> QED
    BY <2>4, <2>5, <2>6, <2>7
<1>2. CASE InvalidateScope
  BY <1>2, InvalidateStep
<1>3. CASE EnterScope
  <2>1. UNCHANGED <<items, order, evicted, too_large, used, next_id>>
    BY <1>3 DEF EnterScope
  <2>2. StoreInv'
    BY <2>1 DEF StoreInv, OrderOK, PlacesOK
  <2>3. HonestAnswers
    <3>1. PlacesOK /\ PlacesOK'
      BY <2>2 DEF StoreInv
    <3> QED
      BY <2>1, <3>1, PlacesGiveAnswers
  <2>4. NoMoreThanNeeded
    BY <2>1 DEF NoMoreThanNeeded
  <2> QED
    BY <2>2, <2>3, <2>4
<1>4. CASE UNCHANGED vars
  <2>1. UNCHANGED <<items, order, evicted, too_large, used, next_id>>
    BY <1>4 DEF vars
  <2>2. StoreInv'
    BY <2>1 DEF StoreInv, OrderOK, PlacesOK
  <2> QED
    BY <1>4, <2>2
<1> QED
  BY <1>1, <1>2, <1>3, <1>4 DEF Next

LEMMA StoreInit == Init => StoreInv
<1> SUFFICES ASSUME Init PROVE StoreInv
  OBVIOUS
<1>1. /\ items = <<>> /\ order = <<>> /\ evicted = {} /\ too_large = {} /\ used = 0 /\ next_id = 1
  BY DEF Init
<1>2. DOMAIN items = {} /\ Elements(order) = {}
  BY <1>1 DEF Elements
<1>3. BytesOf(items, {}) = 0
  <2>1. MaxPuts \in Nat /\ \A h \in 1..MaxPuts : SizesOf(items, {})[h] = 0
    BY BudgetAssumption DEF SizesOf
  <2> DEFINE f == SizesOf(items, {})
  <2> HIDE DEF f
  <2>2. SumOf(f, MaxPuts) = SumOf(f, MaxPuts) + SumOf(f, MaxPuts)
    <3>1. \A h \in 1..MaxPuts : f[h] \in Nat /\ f[h] = f[h] + f[h]
      BY <2>1 DEF f
    <3> QED
      BY <2>1, <3>1, SumAdds
  <2>3. SumOf(f, MaxPuts) \in Nat
    <3>1. \A h \in 1..MaxPuts : f[h] \in Nat
      BY <2>1 DEF f
    <3> QED
      BY <2>1, <3>1, SumNat
  <2>4. SumOf(f, MaxPuts) = 0
    <3>1. \A n \in Nat : n = n + n => n = 0
      OBVIOUS
    <3> QED
      BY <2>2, <2>3, <3>1, Zenon
  <2> QED
    BY <2>4 DEF BytesOf, f
<1>4. OrderOK
  BY <1>1, <1>2, <1>3, BudgetAssumption DEF OrderOK, Sized, Increasing
<1>5. PlacesOK
  BY <1>1, <1>2 DEF PlacesOK
<1> QED
  BY <1>4, <1>5 DEF StoreInv

\* UsedIsExact: the running count of `put' and `invalidate_scope' is the bytes of what is
\* retained, and within the budget, for every budget and every size of result.
THEOREM BytesAreExact == Spec => []UsedIsExact
<1>1. StoreInv /\ [Next]_vars => StoreInv'
  BY StoreStep
<1>2. StoreInv => UsedIsExact
  BY BytesAre DEF StoreInv, OrderOK, UsedIsExact
<1> QED
  BY <1>1, <1>2, StoreInit, PTL DEF Spec

\* AnswersAreFinal: a handle is never answered "unknown" once `put' has given it out, an answer
\* that a result is gone is final, and `put' drops no result it could have kept.
THEOREM HandlesAreHonest == Spec => AnswersAreFinal
<1>1. StoreInv /\ [Next]_vars => StoreInv' /\ [HonestAnswers /\ NoMoreThanNeeded]_vars
  BY StoreStep
<1>2. [HonestAnswers /\ NoMoreThanNeeded]_vars => [FinalStep]_vars
  BY DEF HonestAnswers, NoMoreThanNeeded, FinalStep
<1> QED
  BY <1>1, <1>2, StoreInit, PTL DEF Spec, AnswersAreFinal, FinalStep

-----------------------------------------------------------------------------
(* The record of a subscription. *)

Message == [at : Nat, weight : Nat]
WeightsOf(u) == [i \in DOMAIN u |-> u[i].weight]

\* The weight of the first k messages.
Upto(u, k) == SumOf(WeightsOf(u), k)

LEMMA WeightIsASum == \A u : S!Weight(u) = SumOf(WeightsOf(u), Len(u))
  BY DEF S!Weight, SumOf, WeightsOf

LEMMA UptoFacts ==
    ASSUME NEW u \in Seq(Message)
    PROVE  /\ \A i \in 0..Len(u) : Upto(u, i) \in Nat
           /\ \A i, j \in 0..Len(u) : i <= j => Upto(u, i) <= Upto(u, j)
           /\ \A i \in 1..Len(u) : Upto(u, i) = Upto(u, i - 1) + u[i].weight
           /\ \A i \in 1..Len(u) : u[i].weight \in Nat
<1> DEFINE f == WeightsOf(u)
<1>0. \A i \in 1..Len(u) : f[i] = u[i].weight /\ f[i] \in Nat
  <2> TAKE i \in 1..Len(u)
  <2>1. u[i] \in Message /\ i \in DOMAIN u
    OBVIOUS
  <2> QED
    BY <2>1 DEF WeightsOf, Message
<1> HIDE DEF f
<1>1. \A i, j \in 0..Len(u) : i <= j =>
          SumOf(f, i) \in Nat /\ SumOf(f, j) \in Nat /\ SumOf(f, i) <= SumOf(f, j)
  <2> SUFFICES ASSUME NEW i \in 0..Len(u), NEW j \in 0..Len(u), i <= j
               PROVE  SumOf(f, i) \in Nat /\ SumOf(f, j) \in Nat /\ SumOf(f, i) <= SumOf(f, j)
    OBVIOUS
  <2>1. Len(u) \in Nat /\ \A k \in 1..Len(u) : f[k] \in Nat
    BY <1>0
  <2> QED
    BY <2>1, SumMonotone
<1>2. \A i \in 0..Len(u) : SumOf(f, i) \in Nat
  <2> TAKE i \in 0..Len(u)
  <2>1. i <= i
    OBVIOUS
  <2> QED
    BY <1>1, <2>1
<1>3. \A i \in 1..Len(u) : SumOf(f, i) = SumOf(f, i - 1) + f[i]
  <2> TAKE i \in 1..Len(u)
  <2>1. i \in Nat /\ i > 0
    OBVIOUS
  <2> QED
    BY <2>1, SumStep
<1> QED
  BY <1>0, <1>1, <1>2, <1>3 DEF Upto, f

\* A message more.
LEMMA UptoAppend ==
    ASSUME NEW u \in Seq(Message), NEW m \in Message
    PROVE  /\ \A i \in 0..Len(u) : Upto(Append(u, m), i) = Upto(u, i)
           /\ Upto(Append(u, m), Len(u) + 1) = Upto(u, Len(u)) + m.weight
<1> DEFINE v == Append(u, m)
<1>1. /\ v \in Seq(Message) /\ Len(v) = Len(u) + 1 /\ v[Len(u) + 1] = m
      /\ \A i \in 1..Len(u) : v[i] = u[i]
      /\ DOMAIN v = 1..(Len(u) + 1) /\ DOMAIN u = 1..Len(u) /\ Len(u) \in Nat
  OBVIOUS
<1> HIDE DEF v
<1>2. \A i \in 0..Len(u) : Upto(v, i) = Upto(u, i)
  <2> TAKE i \in 0..Len(u)
  <2>1. i \in Nat /\ \A k \in 1..i : WeightsOf(v)[k] = WeightsOf(u)[k]
    BY <1>1 DEF WeightsOf
  <2> QED
    BY <2>1, SumSame DEF Upto
<1>3. Upto(v, Len(u) + 1) = Upto(v, Len(u)) + m.weight
  <2>1. Len(u) + 1 \in 1..Len(v) /\ (Len(u) + 1) - 1 = Len(u)
    BY <1>1
  <2>2. Upto(v, Len(u) + 1) = Upto(v, (Len(u) + 1) - 1) + v[Len(u) + 1].weight
    BY <1>1, <2>1, UptoFacts
  <2> QED
    BY <1>1, <2>1, <2>2
<1>4. Len(u) \in 0..Len(u)
  BY <1>1
<1> QED
  BY <1>2, <1>3, <1>4 DEF v

\* The latest messages weigh the difference of two sums.
LEMMA LatestWeighs ==
    ASSUME NEW u \in Seq(Message), NEW d \in 0..Len(u)
    PROVE  S!Weight(SubSeq(u, d + 1, Len(u))) = Upto(u, Len(u)) - Upto(u, d)
<1> DEFINE n == Len(u) - d
           v == SubSeq(u, d + 1, Len(u))
           f == WeightsOf(u)
           e == WeightsOf(v)
<1>1. /\ n \in Nat /\ d \in Nat /\ d + n = Len(u) /\ Len(v) = n /\ DOMAIN v = 1..n
      /\ \A i \in 1..n : v[i] = u[d + i] /\ d + i \in DOMAIN u
  OBVIOUS
<1>2. \A i \in 1..(d + n) : f[i] \in Nat
  <2>1. \A i \in 1..Len(u) : u[i].weight \in Nat
    BY UptoFacts, SMTT(30)
  <2>2. DOMAIN u = 1..Len(u)
    OBVIOUS
  <2>3. d + n = Len(u)
    BY SMTT(30)
  <2> HIDE DEF n
  <2> QED
    BY <2>1, <2>2, <2>3 DEF WeightsOf
<1>3. \A i \in 1..n : e[i] = f[d + i]
  BY <1>1 DEF WeightsOf
<1>4. S!Weight(v) = SumOf(e, n)
  BY <1>1, WeightIsASum DEF WeightsOf
<1> HIDE DEF e, f, n, v
<1>5. SumOf(e, n) = SumOf(f, d + n) - SumOf(f, d)
  BY <1>1, <1>2, <1>3, SumStretch
<1> QED
  BY <1>1, <1>4, <1>5 DEF Upto, v, f

\* The record is a run of the latest messages, within both limits and with no room for the
\* next older one; what is not in it is counted.
RecordInv ==
    /\ arrived \in Seq(Message) /\ entries \in Seq(Message)
    /\ Len(entries) <= Len(arrived)
    /\ \A i \in 1..Len(entries) : entries[i] = arrived[Len(arrived) - Len(entries) + i]
    /\ bytes = Upto(arrived, Len(arrived)) - Upto(arrived, Len(arrived) - Len(entries))
    /\ Len(entries) <= MaxEntries /\ bytes <= MaxBytes
    /\ Len(entries) < Len(arrived) =>
         \/ Len(entries) + 1 > MaxEntries
         \/ Upto(arrived, Len(arrived)) - Upto(arrived, Len(arrived) - Len(entries) - 1) > MaxBytes
    /\ dropped \in [by_count : Nat, by_bytes : Nat, oversized : Nat]
    /\ received \in Nat
    /\ received = Len(entries) + S!Total

LEMMA RecordIsWhole ==
    ASSUME S!Limits, RecordInv
    PROVE  S!RecordHasNoHole
<1> DEFINE n == Len(arrived)
           l == Len(entries)
           Latest(k) == SubSeq(arrived, Len(arrived) - k + 1, Len(arrived))
           Fits(k) == k <= MaxEntries /\ S!Weight(Latest(k)) <= MaxBytes
           Good(k) == Fits(k) /\ \A j \in (k + 1)..n : ~Fits(j)
<1>1. n \in Nat /\ l \in 0..n /\ MaxEntries \in Nat /\ MaxBytes \in Nat
  BY DEF RecordInv, S!Limits
<1>2. \A k \in 0..n : S!Weight(Latest(k)) = Upto(arrived, n) - Upto(arrived, n - k)
  <2> TAKE k \in 0..n
  <2>1. n - k \in 0..Len(arrived)
    BY <1>1
  <2> QED
    BY <2>1, LatestWeighs DEF RecordInv
<1>3. Fits(l)
  BY <1>1, <1>2 DEF RecordInv
<1>4. ASSUME NEW j \in (l + 1)..n PROVE ~Fits(j)
  <2>1. l < n /\ j \in 0..n /\ n - l - 1 \in 0..n /\ n - j \in 0..n /\ n - j <= n - l - 1
    BY <1>1
  <2>2. CASE l + 1 > MaxEntries
    BY <1>1, <2>1, <2>2
  <2>3. CASE Upto(arrived, n) - Upto(arrived, n - l - 1) > MaxBytes
    <3>1. /\ Upto(arrived, n - j) <= Upto(arrived, n - l - 1) /\ Upto(arrived, n) \in Nat
          /\ Upto(arrived, n - j) \in Nat /\ Upto(arrived, n - l - 1) \in Nat
      <4>1. n \in 0..n /\ arrived \in Seq(Message)
        BY <1>1 DEF RecordInv
      <4> QED
        BY <2>1, <4>1, UptoFacts
    <3>2. S!Weight(Latest(j)) = Upto(arrived, n) - Upto(arrived, n - j)
      BY <1>2, <2>1
    <3> HIDE DEF Latest
    <3> QED
      BY <1>1, <2>3, <3>1, <3>2
  <2> QED
    BY <2>1, <2>2, <2>3 DEF RecordInv
<1>5. entries = Latest(l)
  <2> DEFINE v == Latest(l)
  <2>1. /\ v \in Seq(Message) /\ Len(v) = l
        /\ \A i \in 1..l : v[i] = arrived[n - l + i]
    BY <1>1, SMTT(30) DEF RecordInv
  <2> HIDE DEF v
  <2>2. DOMAIN v = 1..l /\ DOMAIN entries = 1..l /\ \A i \in 1..l : entries[i] = v[i]
    BY <2>1 DEF RecordInv
  <2>3. entries = [i \in 1..l |-> entries[i]] /\ v = [i \in 1..l |-> v[i]]
    BY <2>1, <2>2 DEF RecordInv
  <2> QED
    BY <2>2, <2>3 DEF v
<1> HIDE DEF Fits, Latest
<1>6. \A k \in 0..n : Good(k) => k = l
  <2> SUFFICES ASSUME NEW k \in 0..n, Fits(k), \A j \in (k + 1)..n : ~Fits(j) PROVE k = l
    OBVIOUS
  <2>1. ~(l < k)
    BY <1>1, <1>4
  <2>2. ~(k < l)
    BY <1>1, <1>3
  <2> QED
    BY <1>1, <2>1, <2>2
<1>7. Good(l)
  BY <1>3, <1>4
<1> HIDE DEF Good
<1>8. (CHOOSE k \in 0..n : Good(k)) = l
  BY <1>1, <1>6, <1>7
<1>9. /\ bytes = S!Weight(entries)
      /\ received = Len(entries) + S!Total
      /\ S!IsComplete <=> Len(entries) = received
  <2>1. bytes = S!Weight(entries)
    BY <1>1, <1>2, <1>5 DEF RecordInv
  <2>2. received = Len(entries) + S!Total
    BY DEF RecordInv
  <2>3. S!Total \in Nat
    BY DEF RecordInv, S!Total
  <2> QED
    BY <1>1, <2>1, <2>2, <2>3 DEF S!IsComplete
<1> QED
  BY <1>5, <1>8, <1>9 DEF S!RecordHasNoHole, Good, Fits, Latest

\* What `evict' leaves of the byte count is the weight of what it leaves: nothing saturates.
LEMMA BytesAfterIs ==
    ASSUME RecordInv
    PROVE  \A i \in 0..Len(entries) :
               S!BytesAfter[i] = Upto(arrived, Len(arrived))
                                   - Upto(arrived, Len(arrived) - Len(entries) + i)
<1> DEFINE n == Len(arrived)
           l == Len(entries)
           a == n - l
           Pre(k) == Upto(arrived, k)
           Eq(g) == g = [i \in 0..l |-> IF i = 0 THEN bytes
                                        ELSE S!SaturatingSub(g[i - 1], entries[i].weight)]
           h == [i \in 0..l |-> Pre(n) - Pre(a + i)]
<1>1. n \in Nat /\ l \in Nat /\ a \in Nat /\ a + l = n
  BY DEF RecordInv
<1>2. \A i \in 0..l : a + i \in 0..n
  BY <1>1
<1>3. /\ Pre(n) \in Nat
      /\ \A i \in 0..l : Pre(a + i) \in Nat /\ Pre(a + i) <= Pre(n)
  <2>1. n \in 0..Len(arrived) /\ \A i \in 0..l : a + i <= n
    BY <1>1
  <2> QED
    BY <1>2, <2>1, UptoFacts DEF RecordInv
<1>4. \A i \in 1..l : /\ entries[i].weight \in Nat
                      /\ Pre(a + i) = Pre(a + (i - 1)) + entries[i].weight
  <2> TAKE i \in 1..l
  <2>1. entries[i] = arrived[a + i] /\ a + i \in 1..n /\ (a + i) - 1 = a + (i - 1)
    BY <1>1 DEF RecordInv
  <2>2. /\ arrived[a + i].weight \in Nat
        /\ Pre(a + i) = Pre((a + i) - 1) + arrived[a + i].weight
    BY <2>1, UptoFacts DEF RecordInv
  <2> QED
    BY <2>1, <2>2
<1>5. bytes = Pre(n) - Pre(a + 0)
  BY <1>1 DEF RecordInv
<1> HIDE DEF Pre, a, n, l
<1>6. \A i \in 1..l : S!SaturatingSub(Pre(n) - Pre(a + (i - 1)), entries[i].weight) = Pre(n) - Pre(a + i)
  <2> TAKE i \in 1..l
  <2>1. i \in 0..l /\ i - 1 \in 0..l
    BY <1>1
  <2>2. /\ Pre(n) \in Nat /\ Pre(a + i) \in Nat /\ Pre(a + (i - 1)) \in Nat /\ entries[i].weight \in Nat
        /\ Pre(a + i) <= Pre(n) /\ Pre(a + i) = Pre(a + (i - 1)) + entries[i].weight
    BY <1>3, <1>4, <2>1
  <2> QED
    BY <2>2 DEF S!SaturatingSub
<1>7. \E g : Eq(g)
  <2>1. \A i \in 0..l : h[i] = IF i = 0 THEN bytes
                               ELSE S!SaturatingSub(h[i - 1], entries[i].weight)
    <3> TAKE i \in 0..l
    <3>1. CASE i = 0
      BY <1>5, <3>1
    <3>2. CASE i # 0
      <4>1. i \in 1..l /\ i - 1 \in 0..l
        BY <1>1, <3>2
      <4>2. h[i] = Pre(n) - Pre(a + i) /\ h[i - 1] = Pre(n) - Pre(a + (i - 1))
        BY <4>1
      <4> HIDE DEF h
      <4> QED
        BY <1>6, <3>2, <4>1, <4>2
    <3> QED
      BY <3>1, <3>2
  <2>2. Eq(h)
    <3>1. h = [i \in 0..l |-> h[i]]
      OBVIOUS
    <3> HIDE DEF h
    <3> QED
      BY <2>1, <3>1
  <2> QED
    BY <2>2
<1>8. S!BytesAfter = CHOOSE g : Eq(g)
  BY DEF S!BytesAfter, l
<1>9. Eq(S!BytesAfter)
  BY <1>7, <1>8
<1> DEFINE g == S!BytesAfter
           W == {i \in 0..l : g[i] # Pre(n) - Pre(a + i)}
<1>10. ASSUME W # {} PROVE FALSE
  <2>1. PICK k \in W : \A j \in W : k <= j
    <3>1. W \subseteq Nat
      BY <1>1
    <3> HIDE DEF W
    <3> QED
      BY <1>10, <3>1, Least
  <2>2. g[0] = bytes /\ 0 \in 0..l
    BY <1>1, <1>9
  <2>3. k # 0
    BY <1>5, <2>1, <2>2
  <2>4. k \in 1..l /\ k - 1 \in 0..l /\ k - 1 \notin W
    BY <1>1, <2>1, <2>3
  <2>5. g[k] = S!SaturatingSub(g[k - 1], entries[k].weight)
    BY <1>1, <1>9, <2>4
  <2>6. g[k - 1] = Pre(n) - Pre(a + (k - 1))
    BY <2>4
  <2> QED
    BY <1>6, <2>1, <2>4, <2>5, <2>6
<1> QED
  BY <1>10 DEF Pre, a, n, l

LEMMA OversizedStep ==
    ASSUME RecordInv, NEW w \in Nat, S!Oversized(w)
    PROVE  RecordInv'
<1> DEFINE more == dropped.oversized + 1
           next == received + 1
<1>1. /\ UNCHANGED <<entries, bytes, arrived>>
      /\ dropped' = [dropped EXCEPT !.oversized = more] /\ received' = next
  BY DEF S!Oversized
<1>2. more \in Nat /\ next \in Nat
  BY DEF RecordInv
<1>3. /\ dropped.by_count \in Nat /\ dropped.by_bytes \in Nat /\ dropped.oversized \in Nat
      /\ Len(entries) \in Nat
      /\ received = Len(entries) + (dropped.by_count + dropped.by_bytes + dropped.oversized)
  BY DEF RecordInv, S!Total
<1>4. next = Len(entries) + (dropped.by_count + dropped.by_bytes + more)
  BY <1>3, SMTT(30)
<1> HIDE DEF more, next
<1>5. /\ dropped' \in [by_count : Nat, by_bytes : Nat, oversized : Nat]
      /\ dropped'.by_count = dropped.by_count /\ dropped'.by_bytes = dropped.by_bytes
      /\ dropped'.oversized = more
  BY <1>1, <1>2 DEF RecordInv
<1>6. received' = Len(entries') + S!Total'
  BY <1>1, <1>4, <1>5 DEF S!Total
<1> QED
  BY <1>1, <1>2, <1>5, <1>6 DEF RecordInv

\* How many the two loops evict: c for the count, then b for the bytes.
Evictions(c, b, w) ==
    /\ c \in 0..Len(entries) /\ b \in Nat /\ c + b \in 0..Len(entries)
    /\ Len(entries) - c + 1 <= MaxEntries
    /\ c > 0 => Len(entries) - (c - 1) + 1 > MaxEntries
    /\ c + b = Len(entries) \/ S!BytesAfter[c + b] + w <= MaxBytes
    /\ b > 0 => ~(S!BytesAfter[c + b - 1] + w <= MaxBytes)

LEMMA EvictionsAre ==
    ASSUME S!Limits, RecordInv, NEW w \in Nat
    PROVE  Evictions(S!EvictedByCount, S!EvictedByBytes(S!EvictedByCount, w), w)
<1> DEFINE l == Len(entries)
           Room(k) == l - k + 1 <= MaxEntries /\ \A j \in 0..(k - 1) : l - j + 1 > MaxEntries
           c == S!EvictedByCount
<1>1. l \in Nat /\ l <= MaxEntries /\ MaxEntries \in Nat /\ MaxEntries >= 1
  BY DEF RecordInv, S!Limits
<1>2. \E k \in 0..l : Room(k)
  <2>1. CASE l + 1 <= MaxEntries
    <3>1. 0 \in 0..l /\ Room(0)
      BY <1>1, <2>1
    <3> QED
      BY <3>1
  <2>2. CASE ~(l + 1 <= MaxEntries)
    <3>1. 1 \in 0..l /\ Room(1)
      BY <1>1, <2>2
    <3> QED
      BY <3>1
  <2> QED
    BY <2>1, <2>2
<1>3. c = CHOOSE k \in 0..l : Room(k)
  BY DEF S!EvictedByCount
<1>4. c \in 0..l /\ Room(c)
  <2> HIDE DEF Room, c, l
  <2> QED
    BY <1>2, <1>3
<1>5. c > 0 => l - (c - 1) + 1 > MaxEntries
  BY <1>1, <1>4
<1> HIDE DEF c
<1> DEFINE Enough(k) == k = l \/ S!BytesAfter[k] + w <= MaxBytes
           W == {k \in c..l : Enough(k)}
<1>6. PICK k \in W : \A j \in W : k <= j
  <2>1. W \subseteq Nat /\ W # {}
    BY <1>1, <1>4
  <2> HIDE DEF W
  <2> QED
    BY <2>1, Least
<1>7. k \in c..l /\ Enough(k) /\ \A j \in c..(k - 1) : ~Enough(j)
  <2>1. k \in c..l /\ Enough(k)
    BY <1>6
  <2>2. ASSUME NEW j \in c..(k - 1), Enough(j) PROVE FALSE
    <3>1. j \in c..l /\ j < k
      BY <1>1, <1>4, <2>1
    <3>2. j \in W
      BY <2>2, <3>1
    <3> QED
      BY <1>1, <1>4, <1>6, <2>1, <3>1, <3>2
  <2> HIDE DEF Enough
  <2> QED
    BY <2>1, <2>2
<1> DEFINE Last(m) == Enough(m) /\ \A j \in c..(m - 1) : ~Enough(j)
           m == CHOOSE m \in c..l : Last(m)
<1>8. S!EvictedByBytes(c, w) = m - c
  BY DEF S!EvictedByBytes
<1>9. m \in c..l /\ Last(m)
  <2>1. Last(k) /\ k \in c..l
    BY <1>7
  <2> HIDE DEF Last
  <2> QED
    BY <2>1
<1> HIDE DEF m
<1>10. m - c > 0 => ~Enough(m - 1)
  <2> SUFFICES ASSUME m - c > 0 PROVE ~Enough(m - 1)
    OBVIOUS
  <2>1. m - 1 \in c..(m - 1)
    BY <1>1, <1>4, <1>9
  <2> HIDE DEF Enough
  <2> QED
    BY <1>9, <2>1
<1>11. m \in c..l /\ m - c \in Nat /\ c + (m - c) = m /\ c \in Nat /\ m \in 0..l
  BY <1>1, <1>4, <1>9
<1> DEFINE b == S!EvictedByBytes(c, w)
<1>12. b \in Nat /\ c + b \in 0..l /\ (c + b = l \/ S!BytesAfter[c + b] + w <= MaxBytes)
  BY <1>8, <1>9, <1>11
<1>13. b > 0 => ~(S!BytesAfter[c + b - 1] + w <= MaxBytes)
  <2>1. c + b - 1 = m - 1
    BY <1>8, <1>11
  <2> QED
    BY <1>8, <1>10, <2>1
<1> HIDE DEF b
<1>14. Evictions(c, b, w)
  BY <1>4, <1>5, <1>12, <1>13 DEF Evictions
<1> QED
  BY <1>14 DEF b, c

LEMMA RetainStep ==
    ASSUME S!Limits, RecordInv, NEW w \in Nat, S!Retain(w)
    PROVE  RecordInv'
<1> DEFINE n == Len(arrived)
           l == Len(entries)
           a == n - l
           c == S!EvictedByCount
           b == S!EvictedByBytes(c, w)
           k == c + b
           next == received + 1
           m == [at |-> next, weight |-> w]
           Pre(i) == Upto(arrived, i)
           Q(i) == Upto(Append(arrived, m), i)
<1>1. /\ w <= MaxBytes
      /\ received' = next
      /\ dropped' = [dropped EXCEPT !.by_count = @ + c, !.by_bytes = @ + b]
      /\ bytes' = S!BytesAfter[k] + w
      /\ entries' = Append(SubSeq(entries, k + 1, Len(entries)), m)
      /\ arrived' = Append(arrived, m)
  BY DEF S!Retain
<1>2. /\ c \in 0..l /\ b \in Nat /\ k \in 0..l
      /\ l - c + 1 <= MaxEntries
      /\ c > 0 => l - (c - 1) + 1 > MaxEntries
      /\ k = l \/ S!BytesAfter[k] + w <= MaxBytes
      /\ b > 0 => ~(S!BytesAfter[k - 1] + w <= MaxBytes)
  <2>1. Evictions(c, b, w)
    BY EvictionsAre
  <2> HIDE DEF b, c
  <2> QED
    BY <2>1 DEF Evictions
<1>3. next \in Nat /\ m \in Message /\ m.weight = w
  BY DEF RecordInv, Message
<1> HIDE DEF b, c, m, next
<1>4. /\ n \in Nat /\ l \in Nat /\ a \in Nat /\ a + l = n /\ MaxEntries \in Nat /\ MaxBytes \in Nat
      /\ l <= n /\ k \in Nat /\ c \in Nat /\ k = c + b
  BY <1>2, SMTT(30) DEF RecordInv, S!Limits
<1>5. \A i \in 0..l : S!BytesAfter[i] = Pre(n) - Pre(a + i)
  BY BytesAfterIs
<1>6. \A i \in 0..n : Pre(i) \in Nat /\ Q(i) = Pre(i)
  BY <1>3, UptoFacts, UptoAppend DEF RecordInv
<1>7. Q(n + 1) = Pre(n) + w
  BY <1>3, UptoAppend DEF RecordInv
<1>8. /\ arrived' \in Seq(Message) /\ Len(arrived') = n + 1
      /\ \A i \in 1..n : arrived'[i] = arrived[i]
      /\ arrived'[n + 1] = m
  BY <1>1, <1>3 DEF RecordInv
<1>9. /\ entries' \in Seq(Message) /\ Len(entries') = l - k + 1
      /\ \A i \in 1..(l - k) : entries'[i] = entries[k + i]
      /\ entries'[l - k + 1] = m
  <2> DEFINE v == SubSeq(entries, k + 1, Len(entries))
  <2>1. v \in Seq(Message) /\ Len(v) = l - k /\ \A i \in 1..(l - k) : v[i] = entries[k + i]
    <3>1. entries \in Seq(Message) /\ k \in 0..l
      BY <1>2 DEF RecordInv
    <3> HIDE DEF k
    <3> QED
      BY <3>1
  <2> HIDE DEF v
  <2>2. entries' = Append(v, m)
    BY <1>1 DEF v
  <2>3. l - k \in Nat
    BY <1>2, <1>4
  <2> QED
    BY <1>3, <2>1, <2>2, <2>3
<1>10. Len(arrived') - Len(entries') = a + k
  BY <1>4, <1>8, <1>9
<1>11. \A i \in 1..Len(entries') : entries'[i] = arrived'[Len(arrived') - Len(entries') + i]
  <2> SUFFICES ASSUME NEW i \in 1..(l - k + 1) PROVE entries'[i] = arrived'[a + k + i]
    BY <1>9, <1>10
  <2>1. CASE i = l - k + 1
    <3>1. a + k + i = n + 1
      BY <1>4, <2>1
    <3> QED
      BY <1>8, <1>9, <2>1, <3>1
  <2>2. CASE i # l - k + 1
    <3>1. i \in 1..(l - k) /\ k + i \in 1..l /\ a + k + i \in 1..n /\ a + k + i = a + (k + i)
      BY <1>2, <1>4, <2>2
    <3>2. entries[k + i] = arrived[a + (k + i)]
      BY <3>1 DEF RecordInv
    <3> QED
      BY <1>8, <1>9, <3>1, <3>2
  <2> QED
    BY <2>1, <2>2
<1> HIDE DEF Pre, Q, n, l, a, k
<1>12. a + k \in 0..n /\ n \in 0..n /\ (k > 0 => a + (k - 1) \in 0..n) /\ (a > 0 => a - 1 \in 0..n)
  BY <1>2, <1>4 DEF k, l, n, a
<1>13. bytes' = Q(n + 1) - Q(a + k) /\ bytes' <= MaxBytes /\ bytes' = Pre(n) - Pre(a + k) + w
  <2>1. S!BytesAfter[k] = Pre(n) - Pre(a + k)
    BY <1>2, <1>5
  <2>2. Pre(n) \in Nat /\ Pre(a + k) \in Nat /\ Q(a + k) = Pre(a + k)
    BY <1>6, <1>12
  <2>3. k = l => Pre(n) - Pre(a + k) = 0
    BY <1>4, <2>2
  <2>4. bytes' = Pre(n) - Pre(a + k) + w
    BY <1>1, <2>1
  <2>5. bytes' = Q(n + 1) - Q(a + k)
    BY <1>7, <2>2, <2>4
  <2>6. Pre(n) - Pre(a + k) + w <= MaxBytes
    BY <1>1, <1>2, <2>1, <2>2, <2>3
  <2> QED
    BY <2>4, <2>5, <2>6
<1>14. ASSUME a + k > 0
       PROVE  l - k + 1 + 1 > MaxEntries \/ Q(n + 1) - Q(a + k - 1) > MaxBytes
  <2>1. CASE k = 0
    <3>1. a > 0 /\ c = 0 /\ l < n /\ n - l - 1 = a - 1
      BY <1>2, <1>4, <1>14, <2>1 DEF a
    <3>2. ~(l + 1 > MaxEntries)
      BY <1>2, <1>4, <3>1
    <3>3. Pre(n) - Pre(a - 1) > MaxBytes
      <4>1. \/ Len(entries) + 1 > MaxEntries
            \/ Upto(arrived, Len(arrived)) - Upto(arrived, Len(arrived) - Len(entries) - 1)
                 > MaxBytes
        BY <3>1 DEF RecordInv, n, l
      <4> QED
        BY <3>1, <3>2, <4>1 DEF Pre, n, l
    <3>4. Pre(a - 1) \in Nat /\ Q(a - 1) = Pre(a - 1) /\ Pre(n) \in Nat /\ a + k - 1 = a - 1
      BY <1>4, <1>6, <1>12, <2>1, <3>1
    <3> QED
      BY <1>4, <1>7, <3>3, <3>4
  <2>2. CASE k > 0 /\ b > 0
    <3>1. k - 1 \in 0..l /\ a + k - 1 = a + (k - 1) /\ a + (k - 1) \in 0..n
      BY <1>2, <1>4, <1>12, <2>2
    <3>2. ~(Pre(n) - Pre(a + (k - 1)) + w <= MaxBytes)
      BY <1>2, <1>5, <2>2, <3>1
    <3>3. Pre(n) \in Nat /\ Pre(a + (k - 1)) \in Nat /\ Q(a + (k - 1)) = Pre(a + (k - 1))
      BY <1>6, <1>12, <3>1
    <3> QED
      BY <1>4, <1>7, <3>1, <3>2, <3>3
  <2>3. CASE k > 0 /\ ~(b > 0)
    BY <1>2, <1>4, <2>3
  <2> QED
    BY <1>4, <2>1, <2>2, <2>3
<1>15. /\ dropped' \in [by_count : Nat, by_bytes : Nat, oversized : Nat]
       /\ received' = Len(entries') + S!Total'
  <2> DEFINE x == dropped.by_count + c
             y == dropped.by_bytes + b
  <2>1. /\ dropped.by_count \in Nat /\ dropped.by_bytes \in Nat /\ dropped.oversized \in Nat
        /\ received = l + (dropped.by_count + dropped.by_bytes + dropped.oversized)
    BY DEF RecordInv, S!Total, l
  <2>2. x \in Nat /\ y \in Nat /\ next = l - k + 1 + (x + y + dropped.oversized)
    BY <1>2, <1>4, <2>1 DEF next
  <2>3. dropped' = [dropped EXCEPT !.by_count = x, !.by_bytes = y]
    BY <1>1
  <2> HIDE DEF x, y
  <2>4. /\ dropped' \in [by_count : Nat, by_bytes : Nat, oversized : Nat]
        /\ dropped'.by_count = x /\ dropped'.by_bytes = y
        /\ dropped'.oversized = dropped.oversized
    BY <2>2, <2>3 DEF RecordInv
  <2> QED
    BY <1>1, <1>9, <2>2, <2>4 DEF S!Total
<1>16. Len(entries') < Len(arrived') =>
         \/ Len(entries') + 1 > MaxEntries
         \/ Upto(arrived', Len(arrived')) - Upto(arrived', Len(arrived') - Len(entries') - 1)
              > MaxBytes
  <2>0. Len(arrived') - Len(entries') - 1 = a + k - 1
    <3>1. (n + 1) - (l - k + 1) - 1 = a + k - 1
      BY <1>4
    <3> QED
      BY <1>8, <1>9, <3>1
  <2> SUFFICES ASSUME Len(entries') < Len(arrived')
               PROVE  l - k + 1 + 1 > MaxEntries \/ Q(n + 1) - Q(a + k - 1) > MaxBytes
    BY <1>1, <1>8, <1>9, <2>0 DEF Q
  <2>1. a + k > 0
    BY <1>4, <1>8, <1>9, <1>10
  <2> QED
    BY <1>14, <2>1
<1>17. Len(entries') <= Len(arrived') /\ Len(entries') <= MaxEntries
  BY <1>2, <1>4, <1>8, <1>9
<1>18. bytes' = Upto(arrived', Len(arrived')) - Upto(arrived', Len(arrived') - Len(entries'))
  BY <1>1, <1>8, <1>10, <1>13 DEF Q
<1> QED
  BY <1>1, <1>3, <1>8, <1>9, <1>11, <1>13, <1>15, <1>16, <1>17, <1>18 DEF RecordInv

\* RecordHasNoHole: for all limits and weights, through both loops of `push' and whatever
\* is too heavy, the record is the longest run of the latest messages that the limits allow,
\* its running weight is the real one, and what it lacks is counted.
THEOREM RecordsAreWhole == S!Limits => (S!Spec => []RecordHasNoHole)
<1> SUFFICES ASSUME S!Limits PROVE S!Spec => []RecordHasNoHole
  OBVIOUS
<1>1. S!Init => RecordInv
  <2> SUFFICES ASSUME S!Init PROVE RecordInv
    OBVIOUS
  <2>1. Upto(<<>>, 0) = 0
    BY SumZero DEF Upto
  <2>2. S!Total = 0 /\ dropped \in [by_count : Nat, by_bytes : Nat, oversized : Nat]
    BY DEF S!Init, S!Total
  <2>3. Len(arrived) = 0 /\ Len(entries) = 0 /\ arrived = <<>> /\ entries = <<>>
    BY DEF S!Init
  <2>4. Upto(arrived, Len(arrived)) - Upto(arrived, Len(arrived) - Len(entries)) = 0
    BY <2>1, <2>3
  <2> QED
    BY <2>2, <2>3, <2>4 DEF S!Init, S!Limits, RecordInv
<1>2. RecordInv /\ [S!Next]_S!vars => RecordInv'
  <2> SUFFICES ASSUME RecordInv, [S!Next]_S!vars PROVE RecordInv'
    OBVIOUS
  <2>1. ASSUME NEW w \in Weights, S!Push(w) PROVE RecordInv'
    <3>1. w \in Nat
      BY DEF S!Limits
    <3> QED
      BY <2>1, <3>1, OversizedStep, RetainStep DEF S!Push
  <2>2. CASE UNCHANGED S!vars
    BY <2>2 DEF S!vars, RecordInv, S!Total
  <2> QED
    BY <2>1, <2>2 DEF S!Next
<1>3. RecordInv => RecordHasNoHole
  BY RecordIsWhole DEF RecordHasNoHole
<1> QED
  BY <1>1, <1>2, <1>3, PTL DEF S!Spec

-----------------------------------------------------------------------------
(* The exit code of one command. *)

Commands == {"HELLO", "SELECT", "COMMAND"}
FrameSet == [is : {"ok", "error", "push"}, of : Commands \cup {"none"}, attributed : {FALSE}]

\* The frames on their way that are no pushes.
Answers == {i \in DOMAIN toClient : toClient[i].is # "push"}

\* The calls still to make: the user's command is the last, and SELECT goes before it where it
\* is needed.
TodoOK ==
    /\ asked \in {0, 1}
    /\ todo \in {<<>>, <<"COMMAND">>, <<"SELECT", "COMMAND">>, <<"HELLO", "COMMAND">>,
                 <<"HELLO", "SELECT", "COMMAND">>}
    /\ asked = 0 => todo \notin {<<"SELECT", "COMMAND">>, <<"HELLO", "SELECT", "COMMAND">>}
    /\ asked = 1 => todo # <<"HELLO", "COMMAND">>
    /\ call \in Commands \cup {"none"}
    /\ call = "HELLO" => todo \in {<<"COMMAND">>, <<"SELECT", "COMMAND">>}
    /\ call = "HELLO" /\ asked = 1 => todo = <<"SELECT", "COMMAND">>
    /\ call = "SELECT" => asked = 1 /\ todo = <<"COMMAND">>
    /\ call = "COMMAND" => todo = <<>>
    /\ exit = "none" /\ call = "none" => todo # <<>>

\* One command is on its way at a time, or its answer is: the answer to the call waiting.
WireOK ==
    /\ toClient \in Seq(FrameSet)
    /\ \A i, j \in Answers : i = j
    /\ \A i \in Answers : call # "none" /\ toClient[i].of = call
    /\ toServer \in {<<>>, <<call>>}
    /\ toServer # <<>> => call # "none" /\ Answers = {}

\* The database the user asked for is selected by the time the command goes out.
DatabaseOK ==
    /\ db \in {0, asked}
    /\ call = "COMMAND" => db = asked
    /\ todo = <<"COMMAND">> /\ call = "none" /\ exit = "none" => db = asked
    /\ \A i \in Answers : call = "SELECT" /\ toClient[i].is = "ok" => db = asked

ExitInv ==
    /\ TodoOK /\ WireOK /\ DatabaseOK
    /\ todo # <<>> => executed = {}
    /\ executed \subseteq {asked}
    /\ exit = "Connection" => todo # <<>>
    /\ exit \in {"Success", "CommandError"} => reply.of = "COMMAND"

LEMMA Todos ==
    /\ <<"COMMAND">> # <<>> /\ Head(<<"COMMAND">>) = "COMMAND" /\ Tail(<<"COMMAND">>) = <<>>
    /\ <<"SELECT", "COMMAND">> # <<>> /\ Head(<<"SELECT", "COMMAND">>) = "SELECT"
    /\ Tail(<<"SELECT", "COMMAND">>) = <<"COMMAND">>
    /\ <<"HELLO", "COMMAND">> # <<>> /\ Head(<<"HELLO", "COMMAND">>) = "HELLO"
    /\ Tail(<<"HELLO", "COMMAND">>) = <<"COMMAND">>
    /\ <<"HELLO", "SELECT", "COMMAND">> # <<>>
    /\ Head(<<"HELLO", "SELECT", "COMMAND">>) = "HELLO"
    /\ Tail(<<"HELLO", "SELECT", "COMMAND">>) = <<"SELECT", "COMMAND">>
    /\ <<"COMMAND">> # <<"SELECT", "COMMAND">> /\ <<"COMMAND">> # <<"HELLO", "COMMAND">>
    /\ <<"COMMAND">> # <<"HELLO", "SELECT", "COMMAND">>
    /\ <<"SELECT", "COMMAND">> # <<"HELLO", "COMMAND">>
    /\ <<"SELECT", "COMMAND">> # <<"HELLO", "SELECT", "COMMAND">>
    /\ <<"HELLO", "COMMAND">> # <<"HELLO", "SELECT", "COMMAND">>
  OBVIOUS

LEMMA ExitStep ==
    ASSUME TRUE \notin Attributes, Attributes \subseteq BOOLEAN, ExitInv, [P!Next]_P!vars
    PROVE  ExitInv'
<1>0. TodoOK /\ WireOK /\ DatabaseOK
  BY DEF ExitInv
<1>1. CASE P!Call
  <2>1. /\ exit = "none" /\ call = "none" /\ todo' = Tail(todo) /\ call' = Head(todo)
        /\ \/ toServer' = Append(toServer, Head(todo)) /\ exit' = exit
           \/ closed /\ toServer' = toServer /\ exit' = P!Failure(Head(todo))
        /\ UNCHANGED <<asked, toClient, closed, reply, db, pushes, executed>>
    BY <1>1 DEF P!Call
  <2>2. toServer = <<>> /\ Answers = {} /\ Answers' = {} /\ todo # <<>>
    BY <1>0, <2>1 DEF WireOK, TodoOK, Answers
  <2>3. /\ call' \in Commands
        /\ call' = "COMMAND" => todo = <<"COMMAND">> /\ todo' = <<>>
        /\ call' # "COMMAND" => todo' # <<>>
        /\ todo # <<>>
    BY <1>0, <2>1, <2>2, Todos DEF TodoOK, Commands
  <2>4. TodoOK'
    BY <1>0, <2>1, <2>2, <2>3, Todos DEF TodoOK, Commands
  <2>5. toServer' \in {<<>>, <<call'>>}
    BY <2>1, <2>2
  <2>6. WireOK'
    BY <1>0, <2>1, <2>2, <2>3, <2>5 DEF WireOK, Commands
  <2>7. DatabaseOK'
    BY <1>0, <2>1, <2>2, <2>3 DEF DatabaseOK, Commands
  <2>8. exit' = "Connection" => todo' # <<>>
    BY <2>1, <2>3 DEF P!Failure
  <2>9. exit' \notin {"Success", "CommandError"}
    BY <2>1 DEF P!Failure
  <2>10. executed' = {} /\ executed' \subseteq {asked'}
    BY <2>1, <2>2 DEF ExitInv
  <2> QED
    BY <2>4, <2>6, <2>7, <2>8, <2>9, <2>10 DEF ExitInv
<1>2. CASE P!SkipPush
  <2>1. /\ toClient # <<>> /\ toClient[1].is = "push" /\ toClient' = Tail(toClient)
        /\ UNCHANGED <<asked, todo, call, toServer, closed, exit, reply, db, pushes, executed>>
    BY <1>0, <1>2 DEF P!SkipPush, P!IsPush, WireOK
  <2>2. /\ toClient' \in Seq(FrameSet)
        /\ \A i \in DOMAIN toClient' : i + 1 \in DOMAIN toClient /\ toClient'[i] = toClient[i + 1]
    BY <1>0, <2>1 DEF WireOK
  <2>3. \A i \in Answers' : i + 1 \in Answers /\ toClient'[i] = toClient[i + 1] /\ i \in Nat
    BY <2>2 DEF Answers
  <2>4. WireOK'
    <3>1. \A i, j \in Answers' : i = j
      <4> SUFFICES ASSUME NEW i \in Answers', NEW j \in Answers' PROVE i = j
        OBVIOUS
      <4>1. i + 1 = j + 1
        BY <1>0, <2>3 DEF WireOK
      <4>2. i \in Nat /\ j \in Nat
        BY <2>3
      <4> QED
        BY <4>1, <4>2
    <3>2. Answers = {} => Answers' = {}
      BY <2>3
    <3>3. \A i \in Answers' : call' # "none" /\ toClient'[i].of = call'
      BY <1>0, <2>1, <2>3 DEF WireOK
    <3> QED
      BY <1>0, <2>1, <2>2, <3>1, <3>2, <3>3 DEF WireOK
  <2>5. DatabaseOK'
    BY <1>0, <2>1, <2>3 DEF DatabaseOK
  <2>6. TodoOK'
    BY <1>0, <2>1 DEF TodoOK
  <2> QED
    BY <2>1, <2>4, <2>5, <2>6 DEF ExitInv
<1>3. CASE P!TakeReply
  <2> DEFINE f == toClient[1]
  <2>1. /\ exit = "none" /\ call # "none" /\ toClient # <<>> /\ toClient' = Tail(toClient)
        /\ f \in FrameSet /\ f.is # "push" /\ call' = "none"
        /\ exit' = IF call = "COMMAND" THEN IF P!IsError(f) THEN "CommandError" ELSE "Success"
                   ELSE IF P!IsError(f) THEN "Connection" ELSE "none"
        /\ reply' = IF call = "COMMAND" THEN f ELSE reply
        /\ UNCHANGED <<asked, todo, toServer, closed, db, pushes, executed>>
    <3>1. toClient # <<>> /\ toClient \in Seq(FrameSet)
      BY <1>0, <1>3 DEF P!TakeReply, WireOK
    <3>2. f \in FrameSet /\ Head(toClient) = f
      BY <3>1
    <3>3. f.attributed = FALSE
      BY <3>2 DEF FrameSet
    <3> QED
      BY <1>3, <3>1, <3>2, <3>3 DEF P!TakeReply, P!Waiting, P!IsPush
  <2>2. 1 \in Answers /\ f.of = call /\ toServer = <<>>
    BY <1>0, <2>1 DEF WireOK, Answers
  <2>3. toClient' \in Seq(FrameSet) /\ Answers' = {}
    <3>1. /\ toClient' \in Seq(FrameSet)
          /\ \A i \in DOMAIN toClient' : /\ i + 1 \in DOMAIN toClient /\ i \in Nat /\ i + 1 # 1
                                         /\ toClient'[i] = toClient[i + 1]
      BY <1>0, <2>1 DEF WireOK
    <3> QED
      BY <1>0, <2>2, <3>1 DEF WireOK, Answers
  <2>4. WireOK'
    BY <2>1, <2>2, <2>3 DEF WireOK
  <2>5. TodoOK'
    BY <1>0, <2>1, Todos DEF TodoOK, Commands
  <2>6. DatabaseOK'
    <3> SUFFICES ASSUME todo = <<"COMMAND">>, exit' = "none" PROVE db = asked
      BY <1>0, <2>1, <2>3 DEF DatabaseOK
    <3>1. call \in {"HELLO", "SELECT"} /\ ~P!IsError(f)
      BY <1>0, <2>1, Todos DEF TodoOK, Commands
    <3>2. CASE call = "HELLO"
      BY <1>0, <3>2, Todos DEF TodoOK, DatabaseOK
    <3>3. CASE call = "SELECT"
      <4>1. f.is = "ok"
        BY <2>1, <3>1 DEF FrameSet, P!IsError
      <4> QED
        BY <1>0, <2>2, <3>3, <4>1 DEF DatabaseOK
    <3> QED
      BY <3>1, <3>2, <3>3
  <2>7. exit' = "Connection" => todo' # <<>>
    BY <1>0, <2>1, Todos DEF TodoOK, Commands
  <2>8. exit' \in {"Success", "CommandError"} => reply'.of = "COMMAND"
    BY <2>1, <2>2
  <2> QED
    BY <2>1, <2>4, <2>5, <2>6, <2>7, <2>8 DEF ExitInv
<1>4. CASE P!Fail
  <2>1. /\ exit = "none" /\ call # "none" /\ exit' = P!Failure(call)
        /\ UNCHANGED <<asked, todo, call, toServer, toClient, closed, reply, db, pushes, executed>>
    BY <1>4 DEF P!Fail, P!Waiting
  <2>2. TodoOK' /\ WireOK' /\ DatabaseOK'
    BY <1>0, <2>1 DEF TodoOK, WireOK, DatabaseOK, Answers
  <2>3. exit' = "Connection" => todo' # <<>>
    BY <1>0, <2>1, Todos DEF TodoOK, Commands, P!Failure
  <2> QED
    BY <2>1, <2>2, <2>3 DEF ExitInv, P!Failure
<1>5. CASE P!Serve
  <2>1. PICK is \in {"ok", "error"}, attributed \in Attributes :
            /\ toServer # <<>>
            /\ toClient' = Append(toClient, P!Frame(is, Head(toServer), attributed))
            /\ db' = IF Head(toServer) = "SELECT" /\ is = "ok" THEN 1 ELSE db
            /\ executed' = IF Head(toServer) = "COMMAND" THEN executed \cup {db} ELSE executed
            /\ toServer' = Tail(toServer)
            /\ UNCHANGED <<asked, todo, call, closed, exit, reply, pushes>>
    BY <1>5 DEF P!Serve
  <2>2. Head(toServer) = call /\ toServer' = <<>> /\ call # "none" /\ Answers = {}
    <3>1. toServer = <<call>> /\ call # "none" /\ Answers = {}
      BY <1>0, <2>1 DEF WireOK
    <3>2. Head(<<call>>) = call /\ Tail(<<call>>) = <<>>
      OBVIOUS
    <3> QED
      BY <2>1, <3>1, <3>2
  <2> DEFINE f == P!Frame(is, call, attributed)
  <2>3. f \in FrameSet /\ f.is = is /\ f.of = call
    BY <1>0 DEF TodoOK, FrameSet, P!Frame
  <2> HIDE DEF f
  <2>4. /\ toClient' \in Seq(FrameSet)
        /\ \A i \in DOMAIN toClient' :
             \/ i = Len(toClient) + 1 /\ toClient'[i] = f
             \/ i \in DOMAIN toClient /\ toClient'[i] = toClient[i]
    <3>1. toClient' = Append(toClient, f)
      BY <2>1, <2>2 DEF f
    <3> QED
      BY <1>0, <2>3, <3>1 DEF WireOK
  <2>5. \A i \in Answers' : i = Len(toClient) + 1 /\ toClient'[i] = f
    BY <2>2, <2>4 DEF Answers
  <2>6. WireOK'
    BY <2>1, <2>2, <2>3, <2>4, <2>5 DEF WireOK
  <2>7. TodoOK'
    BY <1>0, <2>1 DEF TodoOK
  <2>8. DatabaseOK'
    <3>1. db' \in {0, asked} /\ (call = "SELECT" /\ is = "ok" => db' = asked)
          /\ (call = "COMMAND" => db' = asked)
      BY <1>0, <2>1, <2>2 DEF TodoOK, DatabaseOK
    <3> QED
      BY <2>1, <2>2, <2>3, <2>5, <3>1 DEF DatabaseOK
  <2>9. /\ todo # <<>> => executed' = {}
        /\ executed' \subseteq {asked}
    BY <1>0, <2>1, <2>2 DEF ExitInv, TodoOK, DatabaseOK
  <2> QED
    BY <2>1, <2>6, <2>7, <2>8, <2>9 DEF ExitInv
<1>6. CASE P!ServerPush
  <2>1. PICK attributed \in Attributes :
            /\ toClient' = Append(toClient, P!Frame("push", "none", attributed))
            /\ UNCHANGED <<asked, todo, call, toServer, closed, exit, reply, db, executed>>
    BY <1>6 DEF P!ServerPush
  <2> DEFINE f == P!Frame("push", "none", attributed)
  <2>2. f \in FrameSet /\ f.is = "push"
    BY DEF FrameSet, P!Frame
  <2> HIDE DEF f
  <2>3. /\ toClient' \in Seq(FrameSet)
        /\ \A i \in DOMAIN toClient' :
             \/ toClient'[i] = f
             \/ i \in DOMAIN toClient /\ toClient'[i] = toClient[i]
    <3>1. toClient' = Append(toClient, f)
      BY <2>1 DEF f
    <3> QED
      BY <1>0, <2>2, <3>1 DEF WireOK
  <2>4. \A i \in Answers' : i \in Answers /\ toClient'[i] = toClient[i]
    BY <2>2, <2>3 DEF Answers
  <2>5. WireOK'
    BY <1>0, <2>1, <2>3, <2>4 DEF WireOK
  <2>6. DatabaseOK'
    BY <1>0, <2>1, <2>4 DEF DatabaseOK
  <2>7. TodoOK'
    BY <1>0, <2>1 DEF TodoOK
  <2> QED
    BY <2>1, <2>5, <2>6, <2>7 DEF ExitInv
<1>7. CASE P!ServerClose
  BY <1>7 DEF P!ServerClose, ExitInv, TodoOK, WireOK, DatabaseOK, Answers
<1>8. CASE UNCHANGED P!vars
  BY <1>8 DEF P!vars, ExitInv, TodoOK, WireOK, DatabaseOK, Answers
<1> QED
  BY <1>1, <1>2, <1>3, <1>4, <1>5, <1>6, <1>7, <1>8 DEF P!Next

\* ExitIsHonest: however the server orders pushes and answers, is slow or goes away, what the
\* exit code says of the user's command is true, where no frame carries an attribute: `is_push'
\* and the match on errors do not look inside one.
THEOREM ExitsAreHonest ==
    TRUE \notin Attributes /\ Attributes \subseteq BOOLEAN => (P!Spec => []ExitIsHonest)
<1> SUFFICES ASSUME TRUE \notin Attributes, Attributes \subseteq BOOLEAN
             PROVE  P!Spec => []ExitIsHonest
  OBVIOUS
<1>1. P!Init => ExitInv
  <2> SUFFICES ASSUME P!Init PROVE ExitInv
    OBVIOUS
  <2>1. /\ asked \in {0, 1} /\ call = "none" /\ toServer = <<>> /\ toClient = <<>>
        /\ exit = "none" /\ db = 0 /\ executed = {}
    BY DEF P!Init
  <2>2. \/ asked = 1 /\ todo \in {<<"SELECT", "COMMAND">>, <<"HELLO", "SELECT", "COMMAND">>}
        \/ asked = 0 /\ todo \in {<<"COMMAND">>, <<"HELLO", "COMMAND">>}
    BY DEF P!Init
  <2>3. TodoOK
    BY <2>1, <2>2, Todos DEF TodoOK, Commands
  <2>4. WireOK /\ DatabaseOK
    BY <2>1, <2>2, Todos DEF WireOK, DatabaseOK, Answers
  <2> QED
    BY <2>1, <2>3, <2>4 DEF ExitInv
<1>2. ExitInv /\ [P!Next]_P!vars => ExitInv'
  BY ExitStep
<1>3. ExitInv => ExitIsHonest
  <2> SUFFICES ASSUME ExitInv PROVE ExitIsHonest
    OBVIOUS
  <2>1. exit = "Connection" => executed = {} /\ call # "COMMAND"
    BY DEF ExitInv, TodoOK
  <2>2. \A i \in DOMAIN toServer : toServer[i] = call
    BY DEF ExitInv, WireOK
  <2> QED
    BY <2>1, <2>2 DEF ExitInv, ExitIsHonest, P!ExitIsHonest
<1> QED
  BY <1>1, <1>2, <1>3, PTL DEF P!Spec

-----------------------------------------------------------------------------
(* The table: widths. *)

LEMMA FunctionIsSequence ==
    ASSUME NEW n \in Nat, NEW A, NEW f \in [1..n -> A]
    PROVE  f \in Seq(A) /\ Len(f) = n /\ DOMAIN f = 1..n
  OBVIOUS

LEMMA WidthIs == \A line : T!Width(line) = SumOf(line, Len(line))
  BY DEF T!Width, SumOf

LEMMA WidthNat ==
    ASSUME NEW line \in Seq(Nat)
    PROVE  T!Width(line) \in Nat
<1>1. Len(line) \in Nat /\ \A i \in 1..Len(line) : line[i] \in Nat
  OBVIOUS
<1> QED
  BY <1>1, WidthIs, SumNat

\* A bounded set of naturals has a largest one.
LEMMA MaxIs ==
    ASSUME NEW A, A \subseteq Nat, A # {}, NEW b \in Nat, \A x \in A : x <= b
    PROVE  T!Max(A) \in A /\ \A x \in A : x <= T!Max(A)
<1> DEFINE D == {b - x : x \in A}
<1>1. D \subseteq Nat /\ D # {}
  <2>1. \A x \in A : b - x \in Nat
    OBVIOUS
  <2> QED
    BY <2>1
<1>2. PICK d \in D : \A e \in D : d <= e
  <2> HIDE DEF D
  <2> QED
    BY <1>1, Least
<1>3. PICK m \in A : d = b - m
  BY <1>2
<1>4. \A x \in A : m >= x
  <2> TAKE x \in A
  <2>1. b - m <= b - x
    BY <1>2, <1>3
  <2>2. m \in Nat /\ x \in Nat
    OBVIOUS
  <2> QED
    BY <2>1, <2>2
<1> DEFINE M == T!Max(A)
<1>5. M \in A /\ \A y \in A : M >= y
  <2>1. M = CHOOSE x \in A : \A y \in A : x >= y
    BY DEF T!Max
  <2> HIDE DEF M
  <2> QED
    BY <1>4, <2>1
<1> HIDE DEF M
<1>6. \A x \in A : x <= M
  <2> TAKE x \in A
  <2>1. M \in Nat /\ x \in Nat /\ M >= x
    BY <1>5
  <2> QED
    BY <2>1
<1> QED
  BY <1>5, <1>6 DEF M

\* The largest of finitely many numbers is a number.
Among(A, a, f, n) ==
    /\ a \in A /\ \A i \in 1..n : f[i] \in Nat
    /\ \A x \in A : x = a \/ \E i \in 1..n : x = f[i]

LEMMA LargestNat ==
    ASSUME NEW a \in Nat, NEW n \in Nat, NEW f, NEW A, Among(A, a, f, n)
    PROVE  T!Max(A) \in Nat
<1> DEFINE b == a + SumOf(f, n)
<1>0. /\ a \in A /\ \A i \in 1..n : f[i] \in Nat
      /\ \A x \in A : x = a \/ \E i \in 1..n : x = f[i]
  BY DEF Among
<1>1. A \subseteq Nat /\ A # {}
  BY <1>0
<1>2. SumOf(f, n) \in Nat
  BY <1>0, SumNat
<1>3. \A i \in 1..n : f[i] <= SumOf(f, n)
  <2> TAKE i \in 1..n
  <2>1. i \in Nat /\ i > 0 /\ i - 1 \in 0..n /\ i \in 0..n /\ n \in 0..n /\ i <= n /\ i - 1 <= n
    OBVIOUS
  <2>2. SumOf(f, i) = SumOf(f, i - 1) + f[i]
    BY <2>1, SumStep
  <2>3. SumOf(f, i - 1) \in Nat /\ SumOf(f, i) \in Nat /\ SumOf(f, i) <= SumOf(f, n)
    BY <1>0, <2>1, SumMonotone
  <2>4. f[i] \in Nat
    BY <1>0
  <2> QED
    BY <1>2, <2>2, <2>3, <2>4
<1>4. b \in Nat /\ \A x \in A : x <= b
  <2>1. a <= b
    BY <1>2
  <2>2. \A i \in 1..n : f[i] <= b
    <3> TAKE i \in 1..n
    <3>1. f[i] \in Nat /\ f[i] <= SumOf(f, n)
      BY <1>0, <1>3
    <3> QED
      BY <1>2, <3>1
  <2>3. b \in Nat
    BY <1>2
  <2> HIDE DEF b
  <2>4. ASSUME NEW x \in A PROVE x <= b
    BY <1>0, <2>1, <2>2
  <2> QED
    BY <2>3, <2>4
<1> HIDE DEF b
<1>5. T!Max(A) \in A
  BY <1>1, <1>4, MaxIs
<1> QED
  BY <1>1, <1>5

\* A text that lost no columns is all there.
LEMMA TruncateIs ==
    ASSUME NEW line \in Seq(Nat), NEW w \in Nat
    PROVE  T!Width(T!Truncate(line, w)) < T!Width(line) <=> T!Truncate(line, w) # line
<1> DEFINE l == Len(line)
           Cut(n) == SubSeq(line, 1, n)
           fits == {n \in 0..l : T!Width(Cut(n)) <= w}
           m == T!Max(fits)
<1>1. l \in Nat /\ \A i \in 1..l : line[i] \in Nat
  OBVIOUS
<1>2. \A n \in 0..l : Cut(n) \in Seq(Nat) /\ Len(Cut(n)) = n /\ \A i \in 1..n : Cut(n)[i] = line[i]
  OBVIOUS
<1>3. \A n \in 0..l : T!Width(Cut(n)) = SumOf(line, n)
  <2> TAKE n \in 0..l
  <2> DEFINE c == Cut(n)
  <2>1. n \in Nat /\ Len(c) = n /\ \A i \in 1..n : c[i] = line[i]
    BY <1>2
  <2> HIDE DEF c
  <2>2. SumOf(c, n) = SumOf(line, n)
    BY <2>1, SumSame
  <2>3. T!Width(c) = SumOf(c, n)
    BY <2>1, WidthIs
  <2> QED
    BY <2>2, <2>3 DEF c
<1>4. T!Truncate(line, w) = Cut(m)
  BY DEF T!Truncate
<1>5. m \in 0..l /\ T!Width(Cut(m)) <= w /\ (l \in fits => l <= m)
  <2>1. 0 \in fits
    <3>1. T!Width(Cut(0)) = 0
      BY <1>1, <1>3, SumZero
    <3> QED
      BY <1>1, <3>1
  <2>2. fits \subseteq Nat /\ \A x \in fits : x <= l
    BY <1>1
  <2>3. m \in fits /\ \A x \in fits : x <= m
    <3> HIDE DEF fits
    <3> QED
      BY <1>1, <2>1, <2>2, MaxIs
  <2> QED
    BY <2>3
<1> HIDE DEF m
<1>6. Cut(l) = line
  OBVIOUS
<1>7. T!Width(Cut(m)) \in Nat /\ T!Width(line) \in Nat
  BY <1>2, <1>5, WidthNat
<1> DEFINE t == T!Truncate(line, w)
<1>10. t = Cut(m) /\ T!Width(t) \in Nat /\ T!Width(t) <= w
  BY <1>4, <1>5, <1>7
<1>8. CASE T!Width(line) <= w
  <2>1. l \in 0..l /\ T!Width(Cut(l)) = T!Width(line)
    <3>1. l \in 0..l
      BY <1>1
    <3> HIDE DEF Cut, l
    <3> QED
      BY <1>6, <3>1
  <2>2. l \in fits
    <3> HIDE DEF Cut
    <3> QED
      BY <1>8, <2>1
  <2>3. m = l
    BY <1>1, <1>5, <2>2
  <2>4. t = line
    BY <1>6, <1>10, <2>3
  <2> HIDE DEF t
  <2>5. T!Width(t) = T!Width(line)
    BY <2>4
  <2> QED
    BY <1>7, <2>4, <2>5 DEF t
<1>9. CASE ~(T!Width(line) <= w)
  <2> HIDE DEF t
  <2>1. T!Width(t) < T!Width(line)
    BY <1>7, <1>9, <1>10
  <2>2. t # line
    BY <1>10, <1>9
  <2> QED
    BY <2>1, <2>2 DEF t
<1> QED
  BY <1>8, <1>9

-----------------------------------------------------------------------------
(* The table: what `fit' gives. *)

Columns == 1..T!N

LEMMA TimesStep == \A i, m \in Nat : (i + 1) * m = i * m + m
  OBVIOUS

LEMMA LeftOverIs ==
    ASSUME NEW a \in Int, NEW b \in Int
    PROVE  /\ T!LeftOver(a, b) \in Nat /\ T!LeftOver(a, b) >= a - b
           /\ a <= b => T!LeftOver(a, b) = 0
           /\ b <= a => T!LeftOver(a, b) = a - b
  BY DEF T!LeftOver

\* Whether columns fit at all depends on the terminal only.
Fits(total) == T!N >= 1 /\ ~(total - T!Overhead < T!N * MinContent)

\* Taking the excess from the left takes all of it.
InTurn(take, can, excess, n) ==
    \A c \in 1..n : LET left == T!LeftOver(excess, SumOf(can, c - 1))
                    IN  take[c] = IF can[c] < left THEN can[c] ELSE left

LEMMA TakenInTurn ==
    ASSUME NEW n \in Nat, NEW can, \A i \in 1..n : can[i] \in Nat, NEW excess \in Nat,
           NEW take, InTurn(take, can, excess, n)
    PROVE  /\ \A c \in 1..n : take[c] \in Nat /\ take[c] <= can[c]
           /\ \A c \in 0..n : SumOf(take, c) =
                  IF SumOf(can, c) < excess THEN SumOf(can, c) ELSE excess
<1>1. \A c \in 0..n : SumOf(can, c) \in Nat
  <2> TAKE c \in 0..n
  <2>1. c \in Nat /\ 1..c \subseteq 1..n
    OBVIOUS
  <2> QED
    BY <2>1, SumNat
<1>2. \A c \in 1..n : /\ can[c] \in Nat /\ SumOf(can, c - 1) \in Nat /\ c \in Nat /\ c > 0
                      /\ SumOf(can, c) = SumOf(can, c - 1) + can[c]
                      /\ SumOf(take, c) = SumOf(take, c - 1) + take[c]
  <2> TAKE c \in 1..n
  <2>1. c \in Nat /\ c > 0 /\ c - 1 \in 0..n
    OBVIOUS
  <2> QED
    BY <1>1, <2>1, SumStep
<1>3. \A c \in 1..n : take[c] \in Nat /\ take[c] <= can[c]
  <2> TAKE c \in 1..n
  <2> DEFINE left == T!LeftOver(excess, SumOf(can, c - 1))
  <2>1. take[c] = IF can[c] < left THEN can[c] ELSE left
    BY DEF InTurn
  <2>2. left \in Nat /\ can[c] \in Nat
    <3>1. excess \in Int /\ SumOf(can, c - 1) \in Int /\ can[c] \in Nat
      BY <1>2
    <3> QED
      BY <3>1, LeftOverIs
  <2> HIDE DEF left
  <2> QED
    BY <2>1, <2>2
<1> DEFINE Goal(c) == IF SumOf(can, c) < excess THEN SumOf(can, c) ELSE excess
           B == {c \in 0..n : SumOf(take, c) # Goal(c)}
<1>4. B = {}
  <2> SUFFICES ASSUME B # {} PROVE FALSE
    OBVIOUS
  <2>1. PICK m \in B : \A j \in B : m <= j
    <3>1. B \subseteq Nat
      OBVIOUS
    <3> HIDE DEF B
    <3> QED
      BY <3>1, Least
  <2>2. m # 0
    <3>1. SumOf(can, 0) = 0 /\ SumOf(take, 0) = 0
      BY SumZero
    <3>2. Goal(0) = 0
      BY <3>1
    <3> QED
      BY <2>1, <3>1, <3>2
  <2>3. m \in 1..n /\ m - 1 \in 0..n /\ m - 1 \notin B
    BY <2>1, <2>2
  <2>4. SumOf(take, m - 1) = Goal(m - 1) /\ SumOf(take, m) # Goal(m)
    BY <2>1, <2>3
  <2> DEFINE a == SumOf(can, m - 1)
             b == can[m]
             left == T!LeftOver(excess, a)
  <2>5. /\ a \in Nat /\ b \in Nat /\ SumOf(can, m) = a + b
        /\ SumOf(take, m) = SumOf(take, m - 1) + take[m]
        /\ take[m] = IF b < left THEN b ELSE left
    BY <1>2, <2>3 DEF InTurn
  <2>6. /\ left \in Nat /\ (excess <= a => left = 0) /\ (a <= excess => left = excess - a)
    <3>1. excess \in Int /\ a \in Int
      BY <2>5
    <3> HIDE DEF a
    <3> QED
      BY <3>1, LeftOverIs
  <2>7. SumOf(take, m - 1) = (IF a < excess THEN a ELSE excess)
    BY <2>4
  <2>8. Goal(m) = IF a + b < excess THEN a + b ELSE excess
    BY <2>5
  <2> HIDE DEF a, b, left, Goal
  <2>9. SumOf(take, m) = IF a + b < excess THEN a + b ELSE excess
    BY <2>5, <2>6, <2>7
  <2> QED
    BY <2>4, <2>8, <2>9
<1>5. \A c \in 0..n : SumOf(take, c) = Goal(c)
  BY <1>4
<1> QED
  BY <1>3, <1>5

\* The widths that fit are widths, they fit, and they are the natural ones where those fit.
LEMMA FitIs ==
    ASSUME T!Inputs, NEW natural \in [Columns -> Nat], NEW total \in Nat, Fits(total)
    PROVE  /\ T!Fit(natural, total) \in [Columns -> Nat]
           /\ T!Width(T!Fit(natural, total)) <= total - T!Overhead
           /\ T!Width(natural) <= total - T!Overhead => T!Fit(natural, total) = natural
<1> DEFINE n == T!N
           content == total - T!Overhead
           can == [i \in 1..n |-> T!LeftOver(natural[i], MinContent)]
           want == T!Width(natural)
           excess == T!LeftOver(want, content)
           left(c) == T!LeftOver(excess, SumOf(can, c - 1))
           take == [c \in 1..n |-> IF can[c] < left(c) THEN can[c] ELSE left(c)]
           out == T!Fit(natural, total)
<1>1. n \in Nat /\ n >= 1 /\ MinContent \in Nat /\ content \in Int /\ ~(content < n * MinContent)
  <2>1. n \in Nat /\ T!Overhead \in Nat
    BY DEF T!Inputs, T!N, T!Overhead
  <2> QED
    BY <2>1 DEF T!Inputs, Fits
<1>2. natural \in Seq(Nat) /\ Len(natural) = n /\ \A i \in 1..n : natural[i] \in Nat
  <2> HIDE DEF n
  <2>1. natural \in [1..n -> Nat]
    BY DEF Columns, n
  <2> QED
    BY <1>1, <2>1, FunctionIsSequence
<1>3. want \in Nat /\ want = SumOf(natural, n)
  BY <1>2, WidthNat, WidthIs
<1>4. \A i \in 1..n : /\ can[i] = T!LeftOver(natural[i], MinContent)
                      /\ can[i] \in Nat /\ can[i] >= natural[i] - MinContent /\ can[i] <= natural[i]
  <2> TAKE i \in 1..n
  <2>1. natural[i] \in Nat /\ can[i] = T!LeftOver(natural[i], MinContent)
    BY <1>2
  <2> QED
    BY <1>1, <2>1 DEF T!LeftOver
<1>5. /\ excess \in Nat /\ excess >= want - content
      /\ want <= content => excess = 0
      /\ content <= want => excess = want - content
  <2>1. want \in Int /\ content \in Int
    BY <1>1, <1>3
  <2> HIDE DEF want, content
  <2> QED
    BY <2>1, LeftOverIs
<1>6. \A c \in 1..n : T!Width([i \in 1..(c - 1) |-> T!LeftOver(natural[i], MinContent)]) = SumOf(can, c - 1)
  <2> TAKE c \in 1..n
  <2> DEFINE f == [i \in 1..(c - 1) |-> T!LeftOver(natural[i], MinContent)]
  <2>1. c - 1 \in Nat /\ \A i \in 1..(c - 1) : i \in 1..n
    BY <1>1
  <2>2. f \in [1..(c - 1) -> Nat] /\ \A i \in 1..(c - 1) : f[i] = can[i]
    BY <1>4, <2>1
  <2> HIDE DEF f, can
  <2>3. Len(f) = c - 1
    BY <2>1, <2>2, FunctionIsSequence
  <2>4. SumOf(f, c - 1) = SumOf(can, c - 1)
    BY <2>1, <2>2, SumSame
  <2>5. T!Width(f) = SumOf(f, c - 1)
    BY <2>3, WidthIs
  <2>6. T!Width(f) = SumOf(can, c - 1)
    BY <2>4, <2>5
  <2> QED
    BY <2>6 DEF f
<1>7. out = [c \in 1..n |-> natural[c] - take[c]]
  <2> DEFINE L(c) == T!LeftOver(excess, T!Width([i \in 1..(c - 1) |-> T!LeftOver(natural[i], MinContent)]))
             K(c) == T!LeftOver(natural[c], MinContent)
  <2>1. out = [c \in 1..n |-> natural[c] - (IF K(c) < L(c) THEN K(c) ELSE L(c))]
    BY <1>1 DEF T!Fit
  <2>2. \A c \in 1..n : L(c) = left(c)
    BY <1>6
  <2>3. \A c \in 1..n : K(c) = can[c]
    BY <1>4
  <2> HIDE DEF L, K, left, can, out
  <2>4. \A c \in 1..n : take[c] = IF K(c) < L(c) THEN K(c) ELSE L(c)
    BY <2>2, <2>3
  <2> HIDE DEF take
  <2> QED
    BY <2>1, <2>4
<1>8. /\ \A c \in 1..n : take[c] \in Nat /\ take[c] <= can[c]
      /\ SumOf(take, n) = IF SumOf(can, n) < excess THEN SumOf(can, n) ELSE excess
  <2>1. InTurn(take, can, excess, n)
    BY DEF InTurn
  <2>2. n \in 0..n
    BY <1>1
  <2>3. n \in Nat /\ excess \in Nat /\ \A i \in 1..n : can[i] \in Nat
    BY <1>1, <1>4, <1>5
  <2> HIDE DEF take, can, excess, n
  <2>4. /\ \A c \in 1..n : take[c] \in Nat /\ take[c] <= can[c]
        /\ \A c \in 0..n : SumOf(take, c) =
               IF SumOf(can, c) < excess THEN SumOf(can, c) ELSE excess
    BY <2>1, <2>3, TakenInTurn
  <2> QED
    BY <2>2, <2>4
<1> HIDE DEF take, can, excess, want, out, n, content
<1>9. \A c \in 1..n : out[c] = natural[c] - take[c] /\ out[c] \in Nat /\ natural[c] = out[c] + take[c]
  <2> TAKE c \in 1..n
  <2>1. natural[c] \in Nat /\ take[c] \in Nat /\ can[c] \in Nat /\ take[c] <= can[c] /\ can[c] <= natural[c]
    BY <1>2, <1>4, <1>8
  <2>2. out[c] = natural[c] - take[c]
    BY <1>7
  <2> QED
    BY <2>1, <2>2
<1>10. out \in [1..n -> Nat]
  BY <1>7, <1>9
<1>11. SumOf(natural, n) = SumOf(out, n) + SumOf(take, n)
  BY <1>1, <1>8, <1>9, SumAdds
<1>12. T!Width(out) = SumOf(out, n) /\ SumOf(out, n) \in Nat
  <2>1. Len(out) = n
    BY <1>1, <1>10, FunctionIsSequence
  <2> QED
    BY <1>1, <1>9, <2>1, SumNat, WidthIs
<1>13. SumOf(can, n) \in Nat /\ SumOf(can, n) >= want - n * MinContent
  <2> DEFINE B == {i \in 0..n : ~(SumOf(can, i) >= SumOf(natural, i) - i * MinContent)}
  <2>0. \A i \in 0..n : SumOf(can, i) \in Nat /\ SumOf(natural, i) \in Nat
    <3> TAKE i \in 0..n
    <3>1. i \in Nat /\ 1..i \subseteq 1..n
      BY <1>1
    <3> QED
      BY <1>2, <1>4, <3>1, SumNat
  <2>1. B = {}
    <3> SUFFICES ASSUME B # {} PROVE FALSE
      OBVIOUS
    <3>1. PICK m \in B : \A j \in B : m <= j
      <4>1. B \subseteq Nat
        BY <1>1
      <4> HIDE DEF B
      <4> QED
        BY <4>1, Least
    <3>2. m # 0
      <4>1. SumOf(can, 0) = 0 /\ SumOf(natural, 0) = 0 /\ 0 * MinContent = 0
        BY <1>1, SumZero
      <4> QED
        BY <3>1, <4>1
    <3>3. /\ m \in 1..n /\ m - 1 \in 0..n /\ m - 1 \notin B /\ m \in Nat /\ m > 0 /\ m - 1 \in Nat
          /\ m \in 0..n
      BY <1>1, <3>1, <3>2
    <3>4. /\ SumOf(can, m) = SumOf(can, m - 1) + can[m]
          /\ SumOf(natural, m) = SumOf(natural, m - 1) + natural[m]
      BY <3>3, SumStep
    <3>5. m * MinContent = (m - 1) * MinContent + MinContent /\ (m - 1) * MinContent \in Nat
      <4>1. ((m - 1) + 1) * MinContent = (m - 1) * MinContent + MinContent
        BY <1>1, <3>3, TimesStep
      <4>2. (m - 1) + 1 = m
        BY <3>3
      <4> QED
        BY <1>1, <3>3, <4>1, <4>2
    <3>6. SumOf(can, m - 1) >= SumOf(natural, m - 1) - (m - 1) * MinContent
      BY <3>3
    <3>7. can[m] >= natural[m] - MinContent /\ can[m] \in Nat /\ natural[m] \in Nat
      BY <1>2, <1>4, <3>3
    <3>8. SumOf(can, m - 1) \in Nat /\ SumOf(natural, m - 1) \in Nat
      BY <2>0, <3>3
    <3>9. ~(SumOf(can, m) >= SumOf(natural, m) - m * MinContent)
      BY <3>1
    <3> QED
      BY <1>1, <3>4, <3>5, <3>6, <3>7, <3>8, <3>9
  <2>2. n \in 0..n
    BY <1>1
  <2> QED
    BY <1>3, <2>0, <2>1, <2>2
<1>14. T!Width(out) <= content
  <2>1. SumOf(take, n) = excess
    <3>1. ~(SumOf(can, n) < excess)
      <4>1. n * MinContent \in Nat
        BY <1>1
      <4> DEFINE x == n * MinContent
      <4>2. /\ x \in Nat /\ ~(content < x) /\ content \in Int /\ want \in Nat
            /\ SumOf(can, n) \in Nat /\ SumOf(can, n) >= want - x
        BY <1>1, <1>3, <1>13, <4>1
      <4> HIDE DEF x
      <4> QED
        BY <1>5, <4>2
    <3> QED
      BY <1>8, <3>1
  <2>2. want = T!Width(out) + excess
    BY <1>3, <1>11, <1>12, <2>1
  <2> QED
    BY <1>1, <1>3, <1>5, <1>12, <2>2
<1>15. ASSUME want <= content PROVE out = natural
  <2>1. excess = 0
    BY <1>5, <1>15
  <2>2. \A c \in 1..n : take[c] = 0
    <3> TAKE c \in 1..n
    <3>1. excess \in Int /\ SumOf(can, c - 1) \in Nat
      <4>1. c - 1 \in Nat /\ 1..(c - 1) \subseteq 1..n
        BY <1>1
      <4> QED
        BY <1>4, <1>5, <4>1, SumNat
    <3>2. left(c) = 0
      BY <2>1, <3>1 DEF T!LeftOver
    <3>3. take[c] = IF can[c] < left(c) THEN can[c] ELSE left(c)
      BY DEF take
    <3>4. can[c] \in Nat
      BY <1>4
    <3> HIDE DEF left
    <3> QED
      BY <3>2, <3>3, <3>4
  <2>3. \A c \in 1..n : out[c] = natural[c]
    <3> TAKE c \in 1..n
    <3>1. out[c] = natural[c] - take[c] /\ take[c] = 0 /\ natural[c] \in Nat
      BY <1>2, <1>9, <2>2
    <3> QED
      BY <3>1
  <2>4. natural \in [1..n -> Nat]
    BY DEF Columns, n
  <2>5. out = [c \in 1..n |-> out[c]] /\ natural = [c \in 1..n |-> natural[c]]
    BY <1>10, <2>4
  <2> QED
    BY <2>3, <2>5
<1>16. out \in [Columns -> Nat]
  BY <1>10 DEF Columns, n
<1> QED
  BY <1>14, <1>15, <1>16 DEF out, want, content

-----------------------------------------------------------------------------
(* The table: its renderings. *)

Row == [Columns -> Seq(Seq(Nat))]

\* What a rendering in columns shows of the row r, of the first n rows and of the titles.
CutRow(R, w, r) == [c \in Columns |-> [i \in DOMAIN R[r][c] |-> T!Truncate(R[r][c][i], w[c])]]
BodyOf(R, w, n) == [r \in 1..n |-> CutRow(R, w, r)]
BlocksOf(R, n) == [r \in 1..n |-> T!Block(R[r])]
HeadOf(w) == [c \in Columns |-> T!Truncate(Titles[c], w[c])]

Shorter(a, b) == T!Width(a) < T!Width(b)
LostOf(R, w, r) ==
    \E c \in Columns : \E i \in DOMAIN R[r][c] : Shorter(T!Truncate(R[r][c][i], w[c]), R[r][c][i])
Lost(R, w, n) ==
    \/ \E c \in Columns : Shorter(T!Truncate(Titles[c], w[c]), Titles[c])
    \/ \E r \in 1..n : LostOf(R, w, r)

Height(s) == Len(s.texts.body)
BlockWidths == <<T!Max({T!Width(Titles[c]) : c \in 1..T!N})>>

AsColumns(s, R, w) ==
    /\ s.layout = "columns" /\ s.widths = w
    /\ s.texts.head = HeadOf(w) /\ s.texts.body = BodyOf(R, w, Height(s))
    /\ s.truncated <=> Lost(R, w, Height(s))

AsBlocks(s, R) ==
    /\ s.layout = "stacked" /\ s.widths = BlockWidths
    /\ s.texts.body = BlocksOf(R, Height(s))
    /\ s.truncated = FALSE

\* A rendering is of rows that are still there, in the widths frozen.
RenderingOK(s, R, f) ==
    /\ s.total \in Nat /\ Height(s) \in 0..Len(R)
    /\ Fits(s.total) => f # <<>> /\ AsColumns(s, R, T!Fit(f, s.total))
    /\ ~Fits(s.total) => AsBlocks(s, R)

Listed(u) == \E X : u \in Seq(X)
Renderings(u, R, f) ==
    /\ Listed(u)
    /\ \A i \in DOMAIN u : RenderingOK(u[i], R, f)
    /\ \A i, j \in DOMAIN u : i < j => Height(u[i]) <= Height(u[j])

TableInv ==
    /\ rows \in Seq(Row)
    /\ frozen # <<>> => frozen \in [Columns -> Nat]
    /\ Renderings(shown, rows, frozen)

LEMMA AppendedTo ==
    ASSUME NEW u, Listed(u), NEW x
    PROVE  /\ Listed(Append(u, x)) /\ Len(u) \in Nat /\ DOMAIN u = 1..Len(u)
           /\ DOMAIN Append(u, x) = 1..(Len(u) + 1)
           /\ Append(u, x)[Len(u) + 1] = x /\ \A i \in 1..Len(u) : Append(u, x)[i] = u[i]
<1>1. PICK X : u \in Seq(X)
  BY DEF Listed
<1> DEFINE Y == X \cup {x}
<1>2. u \in Seq(Y) /\ x \in Y
  BY <1>1
<1> HIDE DEF Y
<1>3. Append(u, x) \in Seq(Y)
  BY <1>2
<1>4. /\ Len(u) \in Nat /\ DOMAIN u = 1..Len(u) /\ DOMAIN Append(u, x) = 1..(Len(u) + 1)
      /\ Append(u, x)[Len(u) + 1] = x /\ \A i \in 1..Len(u) : Append(u, x)[i] = u[i]
  BY <1>2
<1> QED
  BY <1>3, <1>4 DEF Listed

LEMMA BodyHeight ==
    ASSUME NEW R, NEW w, NEW n \in Nat
    PROVE  /\ Listed(BodyOf(R, w, n)) /\ Len(BodyOf(R, w, n)) = n
           /\ \A r \in 1..n : BodyOf(R, w, n)[r] = CutRow(R, w, r)
<1> DEFINE A == {CutRow(R, w, r) : r \in 1..n}
<1>1. BodyOf(R, w, n) \in [1..n -> A]
  <2> HIDE DEF CutRow
  <2> QED
    BY DEF BodyOf
<1> HIDE DEF A
<1>2. BodyOf(R, w, n) \in Seq(A) /\ Len(BodyOf(R, w, n)) = n
  BY <1>1, FunctionIsSequence
<1>3. \A r \in 1..n : BodyOf(R, w, n)[r] = CutRow(R, w, r)
  BY DEF BodyOf
<1> QED
  BY <1>2, <1>3 DEF Listed

LEMMA BlocksHeight ==
    ASSUME NEW R, NEW n \in Nat
    PROVE  /\ Listed(BlocksOf(R, n)) /\ Len(BlocksOf(R, n)) = n /\ DOMAIN BlocksOf(R, n) = 1..n
           /\ \A r \in 1..n : BlocksOf(R, n)[r] = T!Block(R[r])
<1> DEFINE A == {T!Block(R[r]) : r \in 1..n}
<1>1. BlocksOf(R, n) \in [1..n -> A]
  BY DEF BlocksOf
<1> HIDE DEF A
<1>2. BlocksOf(R, n) \in Seq(A) /\ Len(BlocksOf(R, n)) = n
  BY <1>1, FunctionIsSequence
<1>3. DOMAIN BlocksOf(R, n) = 1..n /\ \A r \in 1..n : BlocksOf(R, n)[r] = T!Block(R[r])
  BY DEF BlocksOf
<1> QED
  BY <1>2, <1>3 DEF Listed

\* Blocks of rows whose cells all have lines leave nothing out.
LEMMA BlocksInFull ==
    ASSUME T!Inputs, rows \in Seq(Row), NEW s, AsBlocks(s, rows), Height(s) \in 0..Len(rows),
           ~T!StacksNoLines(s)
    PROVE  T!InFull(s)
<1> DEFINE n == Height(s)
           b == s.texts.body
<1>1. n \in Nat /\ \A r \in 1..n : rows[r] \in Row
  OBVIOUS
<1> HIDE DEF n
<1>2. DOMAIN b = 1..n /\ \A r \in 1..n : b[r] = T!Block(rows[r])
  BY <1>1, BlocksHeight DEF AsBlocks, n
<1> HIDE DEF b
<1>3. ASSUME NEW r \in 1..n, NEW c \in 1..T!N
      PROVE  /\ b[r][c] # <<>> /\ b[r][c][1][1] = Titles[c]
             /\ [i \in DOMAIN b[r][c] |-> b[r][c][i][2]] = rows[r][c]
  <2> DEFINE cell == rows[r][c]
             lines == b[r][c]
  <2>1. cell \in Seq(Seq(Nat))
    BY <1>1 DEF Row, Columns
  <2>2. cell # <<>>
    BY <1>2, <1>3 DEF T!StacksNoLines, AsBlocks, b
  <2>3. lines = [i \in DOMAIN cell |-> <<IF i = 1 THEN Titles[c] ELSE <<>>, cell[i]>>]
    BY ZenonT(30), <1>2, <1>3 DEF T!Block
  <2> HIDE DEF cell, lines
  <2>4. 1 \in DOMAIN cell /\ cell = [i \in DOMAIN cell |-> cell[i]]
    BY <2>1, <2>2
  <2>5. DOMAIN lines = DOMAIN cell /\ \A i \in DOMAIN cell : lines[i][2] = cell[i]
    BY <2>3
  <2>6. lines[1][1] = Titles[c] /\ lines # <<>>
    BY <2>3, <2>4
  <2>7. [i \in DOMAIN lines |-> lines[i][2]] = [i \in DOMAIN cell |-> cell[i]]
    BY <2>5
  <2> QED
    BY <2>4, <2>6, <2>7 DEF cell, lines
<1>4. s.layout # "columns"
  BY DEF AsBlocks
<1> QED
  BY <1>2, <1>3, <1>4 DEF T!InFull, b

\* A row more changes no rendering of the rows before it.
LEMMA RowsStay ==
    ASSUME NEW R \in Seq(Row), NEW row \in Row, NEW f, NEW s, RenderingOK(s, R, f)
    PROVE  RenderingOK(s, Append(R, row), f)
<1> DEFINE Q == Append(R, row)
           n == Height(s)
<1>1. n \in 0..Len(R) /\ Len(R) \in Nat
  BY DEF RenderingOK
<1>2. Q \in Seq(Row) /\ Len(Q) = Len(R) + 1 /\ \A r \in 1..Len(R) : Q[r] = R[r]
  OBVIOUS
<1> HIDE DEF Q, n
<1>3. n \in 0..Len(Q) /\ \A r \in 1..n : Q[r] = R[r]
  BY <1>1, <1>2
<1>4. \A w : BodyOf(Q, w, n) = BodyOf(R, w, n)
  <2> TAKE w
  <2>1. \A r \in 1..n : CutRow(Q, w, r) = CutRow(R, w, r)
    BY <1>3 DEF CutRow
  <2> QED
    BY <2>1 DEF BodyOf
<1>5. \A w : Lost(Q, w, n) <=> Lost(R, w, n)
  <2> TAKE w
  <2>1. \A r \in 1..n : LostOf(Q, w, r) <=> LostOf(R, w, r)
    BY <1>3 DEF LostOf
  <2> QED
    BY <2>1 DEF Lost
<1>6. BlocksOf(Q, n) = BlocksOf(R, n)
  BY <1>3 DEF BlocksOf
<1>7. \A w : AsColumns(s, R, w) => AsColumns(s, Q, w)
  BY <1>4, <1>5 DEF AsColumns, n
<1>8. AsBlocks(s, R) => AsBlocks(s, Q)
  BY <1>6 DEF AsBlocks, n
<1>9. s.total \in Nat
  BY DEF RenderingOK
<1> QED
  BY <1>3, <1>7, <1>8, <1>9 DEF RenderingOK, Q, n

\* A rendering more, of all the rows.
LEMMA OneRenderingMore ==
    ASSUME NEW R \in Seq(Row), NEW f, NEW u, Renderings(u, R, f), NEW s, RenderingOK(s, R, f),
           Height(s) = Len(R)
    PROVE  Renderings(Append(u, s), R, f)
<1> DEFINE v == Append(u, s)
<1>1. /\ Listed(v) /\ Len(u) \in Nat /\ DOMAIN u = 1..Len(u) /\ DOMAIN v = 1..(Len(u) + 1)
      /\ v[Len(u) + 1] = s /\ \A i \in 1..Len(u) : v[i] = u[i]
  BY AppendedTo DEF Renderings
<1> HIDE DEF v
<1>2. \A i \in DOMAIN v : (i \in DOMAIN u /\ v[i] = u[i]) \/ (i = Len(u) + 1 /\ v[i] = s)
  <2> TAKE i \in DOMAIN v
  <2>1. i \in 1..Len(u) \/ i = Len(u) + 1
    BY <1>1
  <2>2. CASE i \in 1..Len(u)
    <3>1. i \in DOMAIN u /\ v[i] = u[i]
      BY <1>1, <2>2
    <3> QED
      BY <3>1
  <2>3. CASE i = Len(u) + 1
    <3>1. v[i] = s
      BY <1>1, <2>3
    <3> QED
      BY <2>3, <3>1
  <2> QED
    BY <2>1, <2>2, <2>3
<1>3. \A i \in DOMAIN v : RenderingOK(v[i], R, f)
  BY <1>2 DEF Renderings
<1>4. ASSUME NEW i \in DOMAIN v, NEW j \in DOMAIN v, i < j PROVE Height(v[i]) <= Height(v[j])
  <2>1. i \in DOMAIN u /\ v[i] = u[i]
    BY <1>1, <1>4
  <2>2. CASE j \in DOMAIN u
    BY <1>1, <1>4, <2>1, <2>2 DEF Renderings
  <2>3. CASE j = Len(u) + 1
    <3>1. Height(u[i]) \in 0..Len(R)
      BY <2>1 DEF Renderings, RenderingOK
    <3>2. Height(v[j]) = Len(R)
      BY <1>1, <2>3
    <3> QED
      BY <2>1, <3>1, <3>2
  <2> QED
    BY <1>2, <2>2, <2>3
<1> QED
  BY <1>1, <1>3, <1>4 DEF Renderings, v

LEMMA SampleIs ==
    ASSUME T!Inputs, rows \in Seq(Row)
    PROVE  T!SampleWidths \in [Columns -> Nat]
<1>1. \A cell \in Seq(Seq(Nat)) : T!Widest(cell) \in Nat
  <2> TAKE cell \in Seq(Seq(Nat))
  <2> DEFINE f == [i \in DOMAIN cell |-> T!Width(cell[i])]
  <2>1. Len(cell) \in Nat /\ DOMAIN cell = 1..Len(cell) /\ \A i \in DOMAIN cell : cell[i] \in Seq(Nat)
    OBVIOUS
  <2>2. \A i \in 1..Len(cell) : f[i] = T!Width(cell[i]) /\ f[i] \in Nat
    BY <2>1, WidthNat
  <2>3. T!Widest(cell) = T!Max({0} \cup {f[i] : i \in DOMAIN cell})
    BY DEF T!Widest
  <2> HIDE DEF f
  <2>4. T!Max({0} \cup {f[i] : i \in DOMAIN cell}) \in Nat
    <3> DEFINE A == {0} \cup {f[i] : i \in DOMAIN cell}
    <3>1. Among(A, 0, f, Len(cell))
      BY <2>1, <2>2 DEF Among
    <3> HIDE DEF A
    <3>2. T!Max(A) \in Nat
      BY <2>1, <3>1, LargestNat
    <3> QED
      BY <3>2 DEF A
  <2> QED
    BY <2>3, <2>4
<1>2. ASSUME NEW c \in Columns
      PROVE  T!Max({T!Width(Titles[c])} \cup
                   {T!Widest(rows[r][c]) : r \in {r \in DOMAIN rows : r <= SampleRows}}) \in Nat
  <2> DEFINE f == [r \in DOMAIN rows |-> T!Widest(rows[r][c])]
             I == {r \in DOMAIN rows : r <= SampleRows}
  <2>1. Len(rows) \in Nat /\ DOMAIN rows = 1..Len(rows) /\ \A r \in DOMAIN rows : rows[r] \in Row
    OBVIOUS
  <2>2. \A r \in 1..Len(rows) : f[r] = T!Widest(rows[r][c]) /\ f[r] \in Nat
    <3> TAKE r \in 1..Len(rows)
    <3>1. rows[r][c] \in Seq(Seq(Nat))
      BY <2>1 DEF Row
    <3> QED
      BY <1>1, <2>1, <3>1
  <2>3. T!Width(Titles[c]) \in Nat
    <3>1. Titles[c] \in Seq(Nat)
      BY DEF T!Inputs, Columns, T!N
    <3> QED
      BY <3>1, WidthNat
  <2>4. I \subseteq 1..Len(rows)
    BY <2>1
  <2> DEFINE a == T!Width(Titles[c])
             A == {a} \cup {T!Widest(rows[r][c]) : r \in I}
  <2>5. Among(A, a, f, Len(rows))
    <3>1. \A x \in A : x = a \/ \E r \in I : x = T!Widest(rows[r][c])
      OBVIOUS
    <3>2. \A r \in I : r \in 1..Len(rows) /\ f[r] = T!Widest(rows[r][c])
      BY <2>2, <2>4
    <3>3. a \in A
      OBVIOUS
    <3> HIDE DEF A, a, f, I
    <3> QED
      BY <2>2, <3>1, <3>2, <3>3 DEF Among
  <2> HIDE DEF f, A, a
  <2>6. a \in Nat
    BY <2>3 DEF a
  <2>7. T!Max(A) \in Nat
    BY <2>1, <2>5, <2>6, LargestNat
  <2> QED
    BY <2>7 DEF A, a
<1> QED
  BY <1>2 DEF T!SampleWidths, Columns

\* `fit' gives no widths just where columns do not fit.
LEMMA FitOrNot ==
    ASSUME T!Inputs, NEW natural \in [Columns -> Nat], NEW total \in Nat
    PROVE  T!Fit(natural, total) = <<>> <=> ~Fits(total)
<1>0. T!N \in Nat
  BY DEF T!Inputs, T!N
<1>1. CASE Fits(total)
  <2>1. T!Fit(natural, total) \in [Columns -> Nat] /\ 1 \in Columns
    BY <1>0, <1>1, FitIs DEF Columns, Fits
  <2> DEFINE w == T!Fit(natural, total)
  <2>2. 1 \in DOMAIN w
    BY <2>1
  <2> HIDE DEF w
  <2>3. w # <<>>
    BY <2>2
  <2> QED
    BY <1>1, <2>3 DEF w
<1>2. CASE ~Fits(total)
  <2>1. CASE total - T!Overhead < T!N * MinContent
    BY <1>2, <2>1 DEF T!Fit
  <2>2. CASE T!N = 0 /\ ~(total - T!Overhead < T!N * MinContent)
    <3>1. \E g : T!Fit(natural, total) = [c \in 1..0 |-> g[c]]
      <4> DEFINE g == T!Fit(natural, total)
      <4>1. DOMAIN g = 1..0 /\ g = [c \in 1..0 |-> g[c]]
        BY <2>2 DEF T!Fit
      <4> HIDE DEF g
      <4> QED
        BY <4>1 DEF g
    <3>2. \A g : [c \in 1..0 |-> g[c]] = <<>>
      <4> TAKE g
      <4>1. [c \in 1..0 |-> g[c]] \in Seq({}) /\ Len([c \in 1..0 |-> g[c]]) = 0
        <5>1. [c \in 1..0 |-> g[c]] \in [1..0 -> {}] /\ 0 \in Nat
          OBVIOUS
        <5> QED
          BY <5>1, FunctionIsSequence
      <4> QED
        BY <4>1, EmptySeq
    <3> QED
      BY <1>2, <3>1, <3>2
  <2> QED
    BY <1>0, <1>2, <2>1, <2>2 DEF Fits
<1> QED
  BY <1>1, <1>2

\* A text is cut just where it is not all there.
LEMMA LostIs ==
    ASSUME T!Inputs, NEW R \in Seq(Row), NEW w \in [Columns -> Nat], NEW n \in 0..Len(R)
    PROVE  Lost(R, w, n) <=> ~(HeadOf(w) = Titles /\ BodyOf(R, w, n) = SubSeq(R, 1, n))
<1>0. n \in Nat /\ \A r \in 1..n : R[r] \in Row
  OBVIOUS
<1>1. \A c \in Columns : w[c] \in Nat /\ Titles[c] \in Seq(Nat)
  <2>1. \A c \in Columns : w[c] \in Nat
    OBVIOUS
  <2>2. \A c \in Columns : Titles[c] \in Seq(Nat)
    BY DEF T!Inputs, Columns, T!N
  <2> QED
    BY <2>1, <2>2
<1>2. (\E c \in Columns : Shorter(T!Truncate(Titles[c], w[c]), Titles[c])) <=> HeadOf(w) # Titles
  <2>1. \A c \in Columns : Shorter(T!Truncate(Titles[c], w[c]), Titles[c])
                              <=> T!Truncate(Titles[c], w[c]) # Titles[c]
    BY <1>1, TruncateIs DEF Shorter
  <2>2. Titles = [c \in Columns |-> Titles[c]]
    BY DEF T!Inputs, Columns, T!N
  <2>3. HeadOf(w) = Titles <=> \A c \in Columns : T!Truncate(Titles[c], w[c]) = Titles[c]
    BY <2>2 DEF HeadOf
  <2> QED
    BY <2>1, <2>3
<1>3. ASSUME NEW r \in 1..n PROVE LostOf(R, w, r) <=> CutRow(R, w, r) # R[r]
  <2> DEFINE Cell(c, i) == T!Truncate(R[r][c][i], w[c])
  <2>1. /\ R[r] = [c \in Columns |-> R[r][c]]
        /\ \A c \in Columns : R[r][c] = [i \in DOMAIN R[r][c] |-> R[r][c][i]]
        /\ \A c \in Columns : \A i \in DOMAIN R[r][c] : R[r][c][i] \in Seq(Nat)
    <3>1. R[r] \in [Columns -> Seq(Seq(Nat))]
      BY <1>0 DEF Row
    <3>2. \A c \in Columns : R[r][c] \in Seq(Seq(Nat))
      BY <3>1
    <3>3. \A cell \in Seq(Seq(Nat)) : /\ cell = [i \in DOMAIN cell |-> cell[i]]
                                      /\ \A i \in DOMAIN cell : cell[i] \in Seq(Nat)
      OBVIOUS
    <3> QED
      BY <3>1, <3>2, <3>3
  <2>2. \A c \in Columns : \A i \in DOMAIN R[r][c] : Shorter(Cell(c, i), R[r][c][i])
                                                        <=> Cell(c, i) # R[r][c][i]
    BY <1>1, <2>1, TruncateIs DEF Shorter
  <2>3. \A c \in Columns : CutRow(R, w, r)[c] = R[r][c]
                              <=> \A i \in DOMAIN R[r][c] : Cell(c, i) = R[r][c][i]
    <3> TAKE c \in Columns
    <3>1. CutRow(R, w, r)[c] = [i \in DOMAIN R[r][c] |-> Cell(c, i)]
      BY DEF CutRow
    <3>2. R[r][c] = [i \in DOMAIN R[r][c] |-> R[r][c][i]]
      BY <2>1
    <3> HIDE DEF Cell
    <3> QED
      BY <3>1, <3>2
  <2>4. CutRow(R, w, r) = R[r] <=> \A c \in Columns : CutRow(R, w, r)[c] = R[r][c]
    <3>1. CutRow(R, w, r) = [c \in Columns |-> CutRow(R, w, r)[c]]
      BY DEF CutRow
    <3> QED
      BY <2>1, <3>1
  <2>5. LostOf(R, w, r) <=> \E c \in Columns : \E i \in DOMAIN R[r][c] : Shorter(Cell(c, i), R[r][c][i])
    BY DEF LostOf
  <2> HIDE DEF Cell
  <2> QED
    BY <2>2, <2>3, <2>4, <2>5
<1>4. BodyOf(R, w, n) = SubSeq(R, 1, n) <=> \A r \in 1..n : CutRow(R, w, r) = R[r]
  <2>1. SubSeq(R, 1, n) = [r \in 1..n |-> R[r]]
    BY <1>0
  <2>2. BodyOf(R, w, n) = [r \in 1..n |-> CutRow(R, w, r)]
    BY DEF BodyOf
  <2> QED
    BY <2>1, <2>2
<1> QED
  BY <1>2, <1>3, <1>4 DEF Lost

LEMMA PrefixOf ==
    ASSUME NEW a, Listed(a), NEW b, Listed(b), Len(a) <= Len(b),
           \A i \in 1..Len(a) : a[i] = b[i]
    PROVE  T!IsPrefix(a, b)
<1>1. PICK A : a \in Seq(A)
  BY DEF Listed
<1>2. PICK B : b \in Seq(B)
  BY DEF Listed
<1>3. Len(a) \in Nat /\ Len(b) \in Nat
  BY <1>1, <1>2
<1>4. SubSeq(a, 1, Len(a)) = [i \in 1..Len(a) |-> a[i]]
  BY <1>1, <1>3
<1>5. SubSeq(b, 1, Len(a)) = [i \in 1..Len(a) |-> b[i]]
  BY <1>2, <1>3
<1> QED
  BY <1>4, <1>5 DEF T!IsPrefix

-----------------------------------------------------------------------------
(* The table: a step, and what the invariant gives. *)

LEMMA PushStep ==
    ASSUME T!Inputs, TableInv, NEW n \in 1..(T!N + 1), NEW row \in [1..n -> Cells], T!Push(row)
    PROVE  TableInv'
<1> DEFINE full == [c \in 1..T!N |-> IF c <= Len(row) THEN row[c] ELSE <<Missing>>]
<1>1. rows' = Append(rows, full) /\ frozen' = frozen /\ shown' = shown
  BY DEF T!Push
<1>2. full \in Row
  <2>1. T!N \in Nat /\ n \in Nat
    BY DEF T!Inputs, T!N
  <2>2. Len(row) = n
    BY <2>1, FunctionIsSequence
  <2>3. \A c \in 1..T!N : c <= Len(row) => row[c] \in Cells
    BY <2>1, <2>2
  <2>4. <<Missing>> \in Seq(Seq(Nat)) /\ Cells \subseteq Seq(Seq(Nat))
    BY DEF T!Inputs
  <2> QED
    BY <2>3, <2>4 DEF Row, Columns
<1> HIDE DEF full
<1>3. rows \in Seq(Row) /\ Renderings(shown, rows, frozen)
  BY DEF TableInv
<1>4. rows' \in Seq(Row)
  BY <1>1, <1>2, <1>3
<1>5. \A i \in DOMAIN shown : RenderingOK(shown[i], Append(rows, full), frozen)
  BY <1>2, <1>3, RowsStay DEF Renderings
<1>6. Renderings(shown, Append(rows, full), frozen)
  BY <1>3, <1>5 DEF Renderings
<1> QED
  BY <1>1, <1>4, <1>6 DEF TableInv

LEMMA RenderStep ==
    ASSUME T!Inputs, TableInv, NEW total \in Totals, T!Render(total)
    PROVE  TableInv'
<1> DEFINE natural == IF frozen = <<>> THEN T!SampleWidths ELSE frozen
           widths == T!Fit(natural, total)
           kept == IF frozen = <<>> THEN widths ELSE frozen
           texts == T!Texts(widths)
           blocks == T!Stacked(total)
           columns == [total |-> total, layout |-> "columns", widths |-> widths, texts |-> texts,
                       truncated |-> T!Shortened(texts)]
<1>0. rows \in Seq(Row) /\ Renderings(shown, rows, frozen) /\ total \in Nat
  BY DEF TableInv, T!Inputs
<1>1. /\ rows' = rows
      /\ IF widths = <<>> THEN frozen' = frozen /\ shown' = Append(shown, blocks)
         ELSE frozen' = kept /\ shown' = Append(shown, columns)
  BY DEF T!Render, T!Freeze
<1>2. natural \in [Columns -> Nat]
  BY <1>0, SampleIs DEF TableInv
<1>3. widths = <<>> <=> ~Fits(total)
  BY <1>0, <1>2, FitOrNot
<1>4. Len(rows) \in Nat /\ DOMAIN rows = 1..Len(rows) /\ SubSeq(rows, 1, Len(rows)) = rows
  BY <1>0
<1>5. CASE ~Fits(total)
  <2>1. /\ blocks.total = total /\ blocks.layout = "stacked" /\ blocks.widths = BlockWidths
        /\ blocks.texts.body = BlocksOf(rows, Len(rows)) /\ blocks.truncated = FALSE
    BY <1>4 DEF T!Stacked, BlockWidths, BlocksOf
  <2> HIDE DEF blocks, natural, widths, kept, texts, columns
  <2>2. Height(blocks) = Len(rows)
    BY <1>4, <2>1, BlocksHeight DEF Height
  <2>3. AsBlocks(blocks, rows)
    BY <1>4, <2>1, <2>2 DEF AsBlocks
  <2>4. Len(rows) \in 0..Len(rows)
    BY <1>4
  <2>5. RenderingOK(blocks, rows, frozen)
    BY <1>0, <1>5, <2>1, <2>2, <2>3, <2>4 DEF RenderingOK
  <2>6. Renderings(Append(shown, blocks), rows, frozen)
    BY <1>0, <2>2, <2>5, OneRenderingMore
  <2> QED
    BY <1>1, <1>3, <1>5, <2>6 DEF TableInv
<1>6. CASE Fits(total)
  <2>1. frozen' = kept /\ shown' = Append(shown, columns)
    BY <1>1, <1>3, <1>6
  <2>2. widths \in [Columns -> Nat] /\ T!Width(widths) <= total - T!Overhead
    BY <1>0, <1>2, <1>6, FitIs
  <2>3. widths = T!Fit(kept, total) /\ kept \in [Columns -> Nat] /\ kept # <<>>
    <3>1. CASE frozen = <<>>
      <4>1. kept = widths
        BY <3>1
      <4> HIDE DEF widths, natural
      <4>2. T!Fit(widths, total) = widths
        BY <1>0, <1>6, <2>2, FitIs
      <4> QED
        BY <1>3, <1>6, <2>2, <4>1, <4>2
    <3>2. CASE frozen # <<>>
      BY <1>2, <3>2
    <3> QED
      BY <3>1, <3>2
  <2>4. /\ columns.total = total /\ columns.layout = "columns" /\ columns.widths = widths
        /\ columns.texts = texts /\ columns.truncated = T!Shortened(texts)
    <3> HIDE DEF texts, widths
    <3> QED
      OBVIOUS
  <2>5. texts.head = HeadOf(widths) /\ texts.body = BodyOf(rows, widths, Len(rows))
    <3> HIDE DEF widths
    <3> QED
      BY <1>4 DEF T!Texts, HeadOf, BodyOf, CutRow, Columns
  <2> HIDE DEF columns, texts, widths, natural, kept, blocks
  <2>6. Height(columns) = Len(rows) /\ \A r \in 1..Len(rows) : texts.body[r] = CutRow(rows, widths, r)
    BY <1>4, <2>4, <2>5, BodyHeight DEF Height
  <2>7. T!Shortened(texts) <=> Lost(rows, widths, Len(rows))
    <3>1. \A c \in Columns : texts.head[c] = T!Truncate(Titles[c], widths[c])
      BY <2>5 DEF HeadOf
    <3>2. \A r \in 1..Len(rows) : \A c \in Columns : \A i \in DOMAIN rows[r][c] :
              texts.body[r][c][i] = T!Truncate(rows[r][c][i], widths[c])
      <4>1. \A r \in 1..Len(rows) : \A c \in Columns : \A i \in DOMAIN rows[r][c] :
                CutRow(rows, widths, r)[c][i] = T!Truncate(rows[r][c][i], widths[c])
        BY DEF CutRow
      <4> QED
        BY <2>6, <4>1
    <3>3. T!Shortened(texts) <=>
              \/ \E c \in Columns : Shorter(texts.head[c], Titles[c])
              \/ \E r \in 1..Len(rows), c \in Columns : \E i \in DOMAIN rows[r][c] :
                     Shorter(texts.body[r][c][i], rows[r][c][i])
      BY <1>4 DEF T!Shortened, Shorter, Columns
    <3> QED
      BY <3>1, <3>2, <3>3 DEF Lost, LostOf
  <2>8. AsColumns(columns, rows, widths)
    BY <2>4, <2>5, <2>6, <2>7 DEF AsColumns
  <2>9. Len(rows) \in 0..Len(rows)
    BY <1>4
  <2>10. RenderingOK(columns, rows, kept)
    BY <1>0, <1>6, <2>3, <2>4, <2>6, <2>8, <2>9 DEF RenderingOK
  <2>11. Renderings(shown, rows, kept)
    <3>1. CASE frozen # <<>>
      BY <1>0, <3>1 DEF kept
    <3>2. CASE frozen = <<>>
      <4>1. \A s : RenderingOK(s, rows, frozen) => RenderingOK(s, rows, kept)
        BY <3>2 DEF RenderingOK
      <4> QED
        BY <1>0, <4>1 DEF Renderings
    <3> QED
      BY <3>1, <3>2
  <2>12. Renderings(Append(shown, columns), rows, kept)
    BY <1>0, <2>6, <2>10, <2>11, OneRenderingMore
  <2> QED
    BY <1>0, <1>1, <2>1, <2>3, <2>12 DEF TableInv
<1> QED
  BY <1>5, <1>6

LEMMA TableStep ==
    ASSUME T!Inputs, TableInv, [T!Next]_T!vars
    PROVE  TableInv'
<1>1. CASE \E n \in 1..(T!N + 1) : \E row \in [1..n -> Cells] : T!Push(row)
  BY <1>1, PushStep
<1>2. CASE \E total \in Totals : T!Render(total)
  BY <1>2, RenderStep
<1>3. CASE UNCHANGED T!vars
  BY <1>3 DEF T!vars, TableInv
<1> QED
  BY <1>1, <1>2, <1>3 DEF T!Next

LEMMA TablesAreStable ==
    ASSUME T!Inputs, TableInv
    PROVE  T!TableIsStable
<1>0. rows \in Seq(Row) /\ Renderings(shown, rows, frozen)
  BY DEF TableInv
<1>1. ASSUME NEW i \in DOMAIN shown
      PROVE  /\ shown[i].layout = "columns" => T!Width(shown[i].widths) + 3 * T!N + 1 <= shown[i].total
             /\ shown[i].truncated => ~T!InFull(shown[i])
             /\ ~T!InFull(shown[i]) => shown[i].truncated \/ T!StacksNoLines(shown[i])
  <2> DEFINE s == shown[i]
             w == T!Fit(frozen, s.total)
  <2>1. RenderingOK(s, rows, frozen)
    BY <1>0 DEF Renderings
  <2> HIDE DEF s
  <2>2. CASE Fits(s.total)
    <3>1. s.total \in Nat /\ Height(s) \in 0..Len(rows) /\ AsColumns(s, rows, w) /\ frozen # <<>>
      BY <2>1, <2>2 DEF RenderingOK
    <3>2. frozen \in [Columns -> Nat]
      BY <3>1 DEF TableInv
    <3>3. w \in [Columns -> Nat] /\ T!Width(w) <= s.total - T!Overhead
      BY <2>2, <3>1, <3>2, FitIs
    <3> HIDE DEF w
    <3>4. T!Width(w) + 3 * T!N + 1 <= s.total
      <4>1. T!N \in Nat /\ T!Overhead = 3 * T!N + 1
        BY DEF T!Inputs, T!N, T!Overhead
      <4>2. w \in Seq(Nat)
        BY <3>3, <4>1, FunctionIsSequence DEF Columns
      <4>3. T!Width(w) \in Nat
        BY <4>2, WidthNat
      <4> QED
        BY <3>1, <3>3, <4>1, <4>3
    <3>5. Lost(rows, w, Height(s)) <=>
              ~(HeadOf(w) = Titles /\ BodyOf(rows, w, Height(s)) = SubSeq(rows, 1, Height(s)))
      BY <1>0, <3>1, <3>3, LostIs
    <3>6. s.truncated <=> ~T!InFull(s)
      BY <3>1, <3>5 DEF AsColumns, T!InFull, Height
    <3> QED
      BY <3>1, <3>4, <3>6 DEF AsColumns, s
  <2>3. CASE ~Fits(s.total)
    <3>1. AsBlocks(s, rows) /\ Height(s) \in 0..Len(rows)
      BY <2>1, <2>3 DEF RenderingOK
    <3>2. ~T!InFull(s) => T!StacksNoLines(s)
      BY <1>0, <3>1, BlocksInFull
    <3> QED
      BY <3>1, <3>2 DEF AsBlocks, s
  <2> QED
    BY <2>2, <2>3
<1>2. ASSUME NEW i \in DOMAIN shown, NEW j \in DOMAIN shown, shown[j].total = shown[i].total
      PROVE  /\ shown[j].layout = shown[i].layout /\ shown[j].widths = shown[i].widths
             /\ i < j => T!IsPrefix(shown[i].texts.body, shown[j].texts.body)
  <2> DEFINE s == shown[i]
             t == shown[j]
             w == T!Fit(frozen, s.total)
  <2>1. RenderingOK(s, rows, frozen) /\ RenderingOK(t, rows, frozen) /\ t.total = s.total
    BY <1>0, <1>2 DEF Renderings
  <2>2. /\ i < j => Height(s) <= Height(t)
        /\ Height(s) \in 0..Len(rows) /\ Height(t) \in 0..Len(rows) /\ Len(rows) \in Nat
        /\ Height(s) \in Nat /\ Height(t) \in Nat
    BY <1>0, <2>1 DEF Renderings, RenderingOK
  <2> HIDE DEF s, t
  <2>3. CASE Fits(s.total)
    <3>1. AsColumns(s, rows, w) /\ AsColumns(t, rows, w)
      BY <2>1, <2>3 DEF RenderingOK
    <3> HIDE DEF w
    <3>2. ASSUME i < j PROVE T!IsPrefix(s.texts.body, t.texts.body)
      <4> DEFINE a == BodyOf(rows, w, Height(s))
                 b == BodyOf(rows, w, Height(t))
      <4>1. /\ Listed(a) /\ Listed(b) /\ Len(a) = Height(s) /\ Len(b) = Height(t)
            /\ \A r \in 1..Height(s) : a[r] = CutRow(rows, w, r)
            /\ \A r \in 1..Height(t) : b[r] = CutRow(rows, w, r)
        BY <2>2, BodyHeight
      <4>2. Height(s) <= Height(t) /\ 1..Height(s) \subseteq 1..Height(t)
        BY <2>2, <3>2
      <4> HIDE DEF a, b
      <4>3. T!IsPrefix(a, b)
        BY <4>1, <4>2, PrefixOf
      <4> QED
        BY <3>1, <4>3 DEF AsColumns, a, b
    <3> QED
      BY <3>1, <3>2 DEF AsColumns, s, t
  <2>4. CASE ~Fits(s.total)
    <3>1. AsBlocks(s, rows) /\ AsBlocks(t, rows)
      BY <2>1, <2>4 DEF RenderingOK
    <3>2. ASSUME i < j PROVE T!IsPrefix(s.texts.body, t.texts.body)
      <4> DEFINE a == BlocksOf(rows, Height(s))
                 b == BlocksOf(rows, Height(t))
      <4>1. /\ Listed(a) /\ Len(a) = Height(s) /\ \A r \in 1..Height(s) : a[r] = T!Block(rows[r])
            /\ Listed(b) /\ Len(b) = Height(t) /\ \A r \in 1..Height(t) : b[r] = T!Block(rows[r])
        BY <2>2, BlocksHeight
      <4>2. Height(s) <= Height(t) /\ 1..Height(s) \subseteq 1..Height(t)
        BY <2>2, <3>2
      <4> HIDE DEF a, b
      <4>3. T!IsPrefix(a, b)
        BY <4>1, <4>2, PrefixOf
      <4> QED
        BY <3>1, <4>3 DEF AsBlocks, a, b
    <3> QED
      BY <3>1, <3>2 DEF AsBlocks, s, t
  <2> QED
    BY <2>3, <2>4
<1> QED
  BY <1>1, <1>2 DEF T!TableIsStable

\* TableIsStable: for every table, every order of pushes and renderings and every width of the
\* terminal, a table drawn again in the same width begins with what was drawn, fits if it is in
\* columns, and says it is truncated just where it is, save for cells of no lines in blocks.
THEOREM DrawnAgainIsTheSame == T!Inputs => (T!Spec => []TableIsStable)
<1> SUFFICES ASSUME T!Inputs PROVE T!Spec => []TableIsStable
  OBVIOUS
<1>1. T!Init => TableInv
  <2> SUFFICES ASSUME T!Init PROVE TableInv
    OBVIOUS
  <2>1. rows = <<>> /\ frozen = <<>> /\ shown = <<>>
    BY DEF T!Init
  <2>2. \A X : <<>> \in Seq(X)
    OBVIOUS
  <2>3. DOMAIN shown = {}
    BY <2>1
  <2> QED
    BY <2>1, <2>2, <2>3 DEF TableInv, Renderings, Listed
<1>2. TableInv /\ [T!Next]_T!vars => TableInv'
  BY TableStep
<1>3. TableInv => TableIsStable
  BY TablesAreStable DEF TableIsStable
<1> QED
  BY <1>1, <1>2, <1>3, PTL DEF T!Spec


-----------------------------------------------------------------------------
(* Admission: the frames of an input, read one after the other. *)

ReadFrom(f, b, i) ==
    IF i = 0 THEN Adm!Ok(<<>>, 1)
    ELSE IF f[i - 1].is # "ok" THEN f[i - 1]
    ELSE LET step == NextFrame(b, f[i - 1].pos)
         IN  IF step.is = "ok" THEN Adm!Ok(Append(f[i - 1].v, step.v), step.pos) ELSE step

Frames(f, b, n) == f = [i \in 0..n |-> ReadFrom(f, b, i)]

LEMMA FramesExist ==
    ASSUME NEW b, NEW n \in Nat
    PROVE  \E f : Frames(f, b, n)
<1> DEFINE W == {m \in Nat : ~ \E f : Frames(f, b, m)}
<1> SUFFICES ASSUME W # {} PROVE FALSE
  OBVIOUS
<1>1. PICK m \in W : \A k \in W : m <= k
  <2>1. W \subseteq Nat
    OBVIOUS
  <2> HIDE DEF W
  <2> QED
    BY <2>1, Least
<1>2. m # 0
  <2> DEFINE f == [i \in 0..0 |-> Adm!Ok(<<>>, 1)]
  <2>1. \A i \in 0..0 : ReadFrom(f, b, i) = Adm!Ok(<<>>, 1)
    BY DEF ReadFrom
  <2>2. Frames(f, b, 0)
    BY <2>1 DEF Frames
  <2> QED
    BY <1>1, <2>2
<1>3. m - 1 \in Nat /\ m - 1 \notin W /\ m \in Nat
  BY <1>1, <1>2
<1>4. PICK f : Frames(f, b, m - 1)
  BY <1>3
<1> DEFINE h == [i \in 0..m |-> IF i <= m - 1 THEN f[i] ELSE ReadFrom(f, b, m)]
<1>5. \A i \in 0..(m - 1) : h[i] = f[i] /\ f[i] = ReadFrom(f, b, i)
  <2>1. \A i \in 0..(m - 1) : f[i] = ReadFrom(f, b, i)
    BY <1>4, Zenon DEF Frames
  <2>2. \A i \in 0..(m - 1) : h[i] = f[i]
    BY <1>3
  <2> QED
    BY <2>1, <2>2
<1>6. h[m] = ReadFrom(f, b, m) /\ h = [i \in 0..m |-> h[i]]
  BY <1>3
<1> HIDE DEF h
<1>7. \A i \in 0..m : ReadFrom(h, b, i) = ReadFrom(f, b, i)
  <2> TAKE i \in 0..m
  <2>1. CASE i = 0
    BY <2>1 DEF ReadFrom
  <2>2. CASE i # 0
    <3>1. i - 1 \in 0..(m - 1)
      BY <1>3, <2>2
    <3>2. h[i - 1] = f[i - 1]
      BY <1>5, <3>1
    <3> QED
      BY <3>2 DEF ReadFrom
  <2> QED
    BY <2>1, <2>2
<1>8. \A i \in 0..m : h[i] = ReadFrom(h, b, i)
  <2> TAKE i \in 0..m
  <2>1. i = m \/ i \in 0..(m - 1)
    BY <1>3
  <2> QED
    BY <1>5, <1>6, <1>7, <2>1
<1>9. Frames(h, b, m)
  BY <1>6, <1>8, Zenon DEF Frames
<1> QED
  BY <1>1, <1>9

\* Reading fewer frames is reading the same frames.
LEMMA FramesAgree ==
    ASSUME NEW b, NEW m \in Nat, NEW n \in Nat, m <= n, NEW f, NEW g,
           Frames(f, b, m), Frames(g, b, n)
    PROVE  f[m] = g[m]
<1> DEFINE W == {i \in 0..m : f[i] # g[i]}
<1>1. ASSUME W # {} PROVE FALSE
  <2>1. PICK i \in W : \A k \in W : i <= k
    <3>1. W \subseteq Nat
      OBVIOUS
    <3> HIDE DEF W
    <3> QED
      BY <1>1, <3>1, Least
  <2>2. \A k \in 0..m : f[k] = ReadFrom(f, b, k)
    BY Zenon DEF Frames
  <2>3. \A k \in 0..n : g[k] = ReadFrom(g, b, k)
    BY Zenon DEF Frames
  <2>4. f[i] = ReadFrom(f, b, i) /\ g[i] = ReadFrom(g, b, i) /\ f[i] # g[i]
    BY <2>1, <2>2, <2>3
  <2>5. i # 0
    BY <2>4 DEF ReadFrom
  <2>6. i - 1 \in 0..m /\ i - 1 \notin W
    BY <2>1, <2>5
  <2>7. f[i - 1] = g[i - 1]
    BY <2>6
  <2> QED
    BY <2>4, <2>7 DEF ReadFrom
<1>2. m \in 0..m
  OBVIOUS
<1> QED
  BY <1>1, <1>2

LEMMA ReadingIs ==
    ASSUME NEW n \in Nat
    PROVE  Adm!Reading(n) = (CHOOSE f : Frames(f, input, n))[n]
BY DEF Adm!Reading, Frames, ReadFrom

LEMMA ReadingNothing == Adm!Reading(0) = Adm!Ok(<<>>, 1)
<1> DEFINE f == CHOOSE f : Frames(f, input, 0)
<1>1. Frames(f, input, 0)
  BY FramesExist
<1>2. Adm!Reading(0) = f[0]
  BY ReadingIs
<1> HIDE DEF f
<1>3. f[0] = ReadFrom(f, input, 0)
  <2>1. \A i \in 0..0 : f[i] = ReadFrom(f, input, i)
    BY <1>1, Zenon DEF Frames
  <2> QED
    BY <2>1
<1> QED
  BY <1>2, <1>3 DEF ReadFrom

LEMMA ReadingOneMore ==
    ASSUME NEW n \in Nat, NEW v, NEW pos, Adm!Reading(n) = Adm!Ok(v, pos),
           NextFrame(input, pos).is = "ok"
    PROVE  Adm!Reading(n + 1)
             = Adm!Ok(Append(v, NextFrame(input, pos).v), NextFrame(input, pos).pos)
<1> DEFINE f == CHOOSE f : Frames(f, input, n)
           g == CHOOSE g : Frames(g, input, n + 1)
<1>1. Frames(f, input, n) /\ Frames(g, input, n + 1)
  BY FramesExist
<1>2. Adm!Reading(n) = f[n] /\ Adm!Reading(n + 1) = g[n + 1]
  BY ReadingIs
<1> HIDE DEF f, g
<1>3. n + 1 \in Nat /\ n <= n + 1
  OBVIOUS
<1>4. f[n] = g[n]
  BY <1>1, <1>3, FramesAgree
<1>5. g[n + 1] = ReadFrom(g, input, n + 1)
  <2>1. \A i \in 0..(n + 1) : g[i] = ReadFrom(g, input, i)
    BY <1>1, Zenon DEF Frames
  <2> QED
    BY <2>1
<1>6. (n + 1) - 1 = n /\ n + 1 # 0
  OBVIOUS
<1>7. g[n] = Adm!Ok(v, pos)
  BY <1>2, <1>4
<1>8. g[n].is = "ok" /\ g[n].v = v /\ g[n].pos = pos
  BY <1>7 DEF Adm!Ok
<1> QED
  BY <1>2, <1>5, <1>6, <1>8 DEF ReadFrom

-----------------------------------------------------------------------------
(* Admission: what is accepted, up to the frame that is blamed. *)

\* The values of the frames accepted.
Taken(acc) == [i \in DOMAIN acc |-> <<"*", acc[i].argv>>]

EntryOK(i) == ~Adm!Refused(accepted[i].effects, policy)

\* Why and where it stopped.
StopOK ==
    LET read == Adm!Reading(stopped.index)
        blamed == NextFrame(input, read.pos)
    IN  /\ read = Adm!Ok(Taken(accepted), read.pos)
        /\ stopped.at = IF Adm!ExitCode = "usage" THEN {read.pos - 1} ELSE {}
        /\ Adm!ExitCode = "success" <=> read.pos = Len(input) + 1 /\ "pipe" \in policy
        /\ stopped.is \in {"malformed", "truncated"} => blamed.is # "ok"
        /\ stopped.is = "not_a_command" => blamed.is = "ok" /\ ~Adm!IsCommand(blamed.v)
        /\ Adm!ExitCode = "policy_denied" /\ "pipe" \in policy =>
             blamed.is = "ok" /\ Adm!IsCommand(blamed.v) /\ Adm!Mutates(Adm!Classify(blamed.v))

PipeInv ==
    /\ input \in Adm!Inputs(MaxPieces)
    /\ policy \in {Adm!Policies[p] : p \in DOMAIN Adm!Policies}
    /\ offset \in 0..Len(input)
    /\ \E S2 : accepted \in Seq(S2)
    /\ accepted # <<>> => "pipe" \in policy
    /\ \A i \in 1..Len(accepted) : EntryOK(i)
    /\ stopped = Adm!Running => Adm!Reading(Len(accepted)) = Adm!Ok(Taken(accepted), offset + 1)
    /\ stopped # Adm!Running => StopOK

LEMMA RefusalsAre ==
    ASSUME NEW effects, NEW allow \in {Adm!Policies[p] : p \in DOMAIN Adm!Policies}
    PROVE  /\ Adm!Refused(effects, allow) => Adm!Mutates(effects)
           /\ ~Adm!Refused(effects, allow) => "destructive" \notin effects
           /\ ~Adm!Refused(effects, allow) /\ allow = Adm!Policies.production
                => ~Adm!Mutates(effects)
<1>1. "destructive" \notin allow
  BY DEF Adm!Policies
<1>2. Adm!Refused(effects, allow) => Adm!Mutates(effects)
  BY DEF Adm!Refused, Adm!Mutates
<1>3. ~Adm!Refused(effects, allow) => "destructive" \notin effects
  BY <1>1 DEF Adm!Refused
<1>4. Adm!Policies.production = {"pipe"}
  BY DEF Adm!Policies
<1>5. ASSUME ~Adm!Refused(effects, allow), allow = {"pipe"} PROVE ~Adm!Mutates(effects)
  BY <1>5 DEF Adm!Refused, Adm!Mutates
<1> QED
  BY <1>2, <1>3, <1>4, <1>5

LEMMA PipeIsExact == PipeInv => AdmissionIsExact
<1> SUFFICES ASSUME PipeInv PROVE AdmissionIsExact
  OBVIOUS
<1>1. DOMAIN accepted = 1..Len(accepted)
  BY DEF PipeInv
<1>2. ASSUME NEW i \in DOMAIN accepted
      PROVE  /\ policy = Adm!Policies.production => ~Adm!Mutates(accepted[i].effects)
             /\ "destructive" \notin accepted[i].effects
  <2>1. EntryOK(i) /\ policy \in {Adm!Policies[p] : p \in DOMAIN Adm!Policies}
    BY <1>1 DEF PipeInv
  <2> QED
    BY <2>1, RefusalsAre DEF EntryOK
<1>3. accepted # <<>> => "pipe" \in policy
  BY DEF PipeInv
<1>4. stopped # Adm!Running => StopOK
  BY DEF PipeInv
<1> QED
  BY <1>2, <1>3, <1>4 DEF AdmissionIsExact, Adm!AdmissionIsExact, StopOK, Taken

\* The exit code of each way to stop.
LEMMA ExitCodes ==
    /\ Adm!ExitCode = "success" <=> stopped.is = "clean"
    /\ Adm!ExitCode = "policy_denied" <=> stopped.is = "refused"
BY DEF Adm!ExitCode

\* A frame that stops admission: everything before it is accepted.
LEMMA StopStep ==
    ASSUME PipeInv, stopped = Adm!Running,
           NEW why \in {"clean", "refused", "not_a_command", "malformed", "truncated"},
           stopped' = Adm!Stop(why),
           UNCHANGED <<input, policy, accepted>>, offset' \in 0..Len(input), offset \in Nat,
           Len(input) \in Nat,
           why = "clean" <=> offset = Len(input) /\ "pipe" \in policy,
           why \in {"malformed", "truncated"} => NextFrame(input, offset + 1).is # "ok",
           why = "not_a_command" =>
             /\ NextFrame(input, offset + 1).is = "ok"
             /\ ~Adm!IsCommand(NextFrame(input, offset + 1).v),
           why = "refused" /\ "pipe" \in policy =>
             /\ NextFrame(input, offset + 1).is = "ok"
             /\ Adm!IsCommand(NextFrame(input, offset + 1).v)
             /\ Adm!Mutates(Adm!Classify(NextFrame(input, offset + 1).v))
    PROVE  PipeInv'
<1>1. /\ stopped'.is = why /\ stopped'.index = Len(accepted)
      /\ stopped'.at = IF why \in {"not_a_command", "malformed", "truncated"} THEN {offset} ELSE {}
  <2>1. PICK at : at = IF why \in {"not_a_command", "malformed", "truncated"} THEN {offset} ELSE {}
    OBVIOUS
  <2>2. stopped' = [is |-> why, index |-> Len(accepted), at |-> at]
    BY <2>1, Zenon DEF Adm!Stop
  <2>3. stopped'.is = why /\ stopped'.index = Len(accepted) /\ stopped'.at = at
    BY <2>2
  <2> QED
    BY <2>1, <2>3
<1>2. stopped' # Adm!Running
  BY <1>1 DEF Adm!Running
<1>3. Adm!Reading(Len(accepted)) = Adm!Ok(Taken(accepted), offset + 1)
  BY DEF PipeInv
<1>4. \A n : Adm!Reading(n)' = Adm!Reading(n)
  BY DEF Adm!Reading
<1>5. (Adm!ExitCode)' = "success" <=> why = "clean"
  BY <1>1 DEF Adm!ExitCode
<1>6. (Adm!ExitCode)' = "policy_denied" <=> why = "refused"
  BY <1>1 DEF Adm!ExitCode
<1>7. (Adm!Reading(Len(accepted)))' = Adm!Ok(Taken(accepted), offset + 1)
  BY <1>3 DEF Adm!Reading
<1>10. (Adm!ExitCode)' = "usage" <=> why \in {"not_a_command", "malformed", "truncated"}
  BY <1>1 DEF Adm!ExitCode
<1>11. /\ (Adm!Reading(stopped.index))' = Adm!Ok(Taken(accepted), offset + 1)
       /\ (Adm!Reading(stopped.index))'.pos = offset + 1
  <2>1. stopped'.index = Len(accepted')
    BY <1>1
  <2>2. (Adm!Reading(stopped.index))' = (Adm!Reading(Len(accepted)))'
    BY <2>1 DEF Adm!Reading
  <2>3. Adm!Ok(Taken(accepted), offset + 1).pos = offset + 1
    BY DEF Adm!Ok
  <2> QED
    BY <1>7, <2>2, <2>3
<1>12. /\ (offset + 1) - 1 = offset
       /\ offset + 1 = Len(input) + 1 <=> offset = Len(input)
  OBVIOUS
<1>8. StopOK'
  BY <1>1, <1>5, <1>6, <1>10, <1>11, <1>12 DEF StopOK, Taken, Adm!Ok
<1>9. (\A i \in 1..Len(accepted) : EntryOK(i))'
  BY <1>4 DEF PipeInv, EntryOK, Adm!Reading
<1> QED
  BY <1>2, <1>8, <1>9 DEF PipeInv

LEMMA AcceptStep ==
    ASSUME PipeInv, stopped = Adm!Running, "pipe" \in policy,
           NextFrame(input, offset + 1).is = "ok",
           Adm!IsCommand(NextFrame(input, offset + 1).v),
           ~Adm!Refused(Adm!Classify(NextFrame(input, offset + 1).v), policy),
           offset' = NextFrame(input, offset + 1).pos - 1,
           accepted' = Append(accepted, [argv |-> NextFrame(input, offset + 1).v[2],
                                         effects |-> Adm!Classify(NextFrame(input, offset + 1).v)]),
           UNCHANGED <<input, policy, stopped>>
    PROVE  PipeInv'
<1>1. PICK step : step = NextFrame(input, offset + 1)
  OBVIOUS
<1>2. PICK new : new = [argv |-> step.v[2], effects |-> Adm!Classify(step.v)]
  OBVIOUS
<1>3. PICK n \in Nat : n = Len(accepted)
  BY DEF PipeInv
<1>4. /\ step.pos \in 1..(Len(input) + 1) /\ step.v = <<step.v[1], step.v[2]>>
      /\ Len(input) \in Nat /\ offset \in 0..Len(input)
  <2>1. /\ input \in Adm!Inputs(MaxPieces) /\ Len(input) \in Nat /\ offset + 1 \in 1..(Len(input) + 1)
        /\ offset \in 0..Len(input)
    BY NextFrameAssumption DEF PipeInv
  <2>2. /\ NextFrame(input, offset + 1).pos \in 1..(Len(input) + 1)
        /\ NextFrame(input, offset + 1).v
             = <<NextFrame(input, offset + 1).v[1], NextFrame(input, offset + 1).v[2]>>
    BY <2>1, NextFrameAssumption
  <2> QED
    BY <1>1, <2>1, <2>2
<1>5. step.v[1] = "*"
  BY <1>1 DEF Adm!IsCommand
<1>6. step.v = <<"*", new.argv>> /\ new.effects = Adm!Classify(step.v)
  <2>1. new.argv = step.v[2] /\ new.effects = Adm!Classify(step.v)
    BY <1>2
  <2> QED
    BY <1>4, <1>5, <2>1
<1>7. PICK S2 : accepted \in Seq(S2)
  BY DEF PipeInv
<1> DEFINE S3 == S2 \cup {new}
           more == Append(accepted, new)
<1>8. accepted' = more
  BY <1>1, <1>2
<1>9. accepted \in Seq(S3) /\ new \in S3
  BY <1>7
<1> HIDE DEF S3
<1>10. /\ more \in Seq(S3) /\ Len(more) = n + 1 /\ more[n + 1] = new
       /\ DOMAIN accepted = 1..n /\ DOMAIN more = 1..(n + 1) /\ more # <<>>
       /\ \A i \in 1..n : more[i] = accepted[i]
  BY <1>3, <1>9
<1>11. Adm!Reading(n) = Adm!Ok(Taken(accepted), offset + 1)
  BY <1>3 DEF PipeInv
<1>12. Adm!Reading(n + 1) = Adm!Ok(Append(Taken(accepted), step.v), step.pos)
  BY <1>1, <1>11, ReadingOneMore
<1> HIDE DEF more
<1>13. Append(Taken(accepted), step.v) = Taken(more)
  <2> DEFINE t == Taken(accepted)
             A2 == {t[i] : i \in 1..n} \cup {step.v}
             u == Append(t, step.v)
  <2>1. t = [i \in 1..n |-> <<"*", accepted[i].argv>>]
    BY <1>10 DEF Taken
  <2>2. \A i \in 1..n : t[i] = <<"*", accepted[i].argv>>
    BY <2>1
  <2>3. t \in Seq(A2) /\ Len(t) = n
    <3>1. t = [i \in 1..n |-> t[i]]
      BY <2>1
    <3>2. \A i \in 1..n : t[i] \in A2
      OBVIOUS
    <3> HIDE DEF t, A2
    <3>3. t \in [1..n -> A2]
      BY <3>1, <3>2
    <3> QED
      BY <3>3
  <2>4. step.v \in A2
    OBVIOUS
  <2> HIDE DEF t, A2
  <2>5. /\ u \in Seq(A2) /\ Len(u) = n + 1 /\ u[n + 1] = step.v
        /\ \A i \in 1..n : u[i] = t[i]
    BY <2>3, <2>4
  <2> HIDE DEF u
  <2>6. u = [i \in 1..(n + 1) |-> u[i]]
    BY <2>5
  <2>7. \A i \in 1..(n + 1) : u[i] = <<"*", more[i].argv>>
    <3> TAKE i \in 1..(n + 1)
    <3>1. CASE i = n + 1
      BY <1>6, <1>10, <2>5, <3>1
    <3>2. CASE i \in 1..n
      BY <1>10, <2>2, <2>5, <3>2
    <3> QED
      BY <3>1, <3>2
  <2>8. u = [i \in 1..(n + 1) |-> <<"*", more[i].argv>>]
    BY <2>6, <2>7, Zenon
  <2>9. Taken(more) = [i \in 1..(n + 1) |-> <<"*", more[i].argv>>]
    BY <1>10 DEF Taken
  <2> QED
    BY <2>8, <2>9 DEF u, t
<1>14. offset' + 1 = step.pos /\ offset' \in 0..Len(input)
  BY <1>1, <1>4
<1>15. Adm!Reading(n + 1) = Adm!Ok(Taken(more), offset' + 1)
  BY <1>12, <1>13, <1>14
<1>16. ASSUME NEW i \in 1..(n + 1)
       PROVE  ~Adm!Refused(more[i].effects, policy)
  <2>1. CASE i = n + 1
    <3>1. more[i].effects = Adm!Classify(step.v)
      BY <1>6, <1>10, <2>1
    <3> QED
      BY <1>1, <3>1
  <2>2. CASE i \in 1..n
    <3>1. EntryOK(i) /\ more[i] = accepted[i]
      BY <1>3, <1>10, <2>2 DEF PipeInv
    <3> QED
      BY <3>1 DEF EntryOK
  <2> QED
    BY <2>1, <2>2
<1>17. \A k : Adm!Reading(k)' = Adm!Reading(k)
  BY DEF Adm!Reading
<1>18. (\A i \in 1..Len(accepted) : EntryOK(i))'
  BY SMTT(30), <1>8, <1>10, <1>16 DEF EntryOK, Adm!Refused
<1>19. (Adm!Reading(Len(accepted)) = Adm!Ok(Taken(accepted), offset + 1))'
  <2>1. Adm!Reading(n + 1)' = Adm!Ok(Taken(more), offset' + 1)
    BY <1>15, <1>17
  <2>2. Len(accepted') = n + 1
    BY <1>8, <1>10
  <2> QED
    BY <1>8, <2>1, <2>2 DEF Adm!Reading, Adm!Ok, Taken
<1>20. (input \in Adm!Inputs(MaxPieces))' /\ (stopped # Adm!Running => StopOK)'
  BY DEF PipeInv, Adm!Running, Adm!Inputs
<1> QED
  BY <1>8, <1>10, <1>14, <1>18, <1>19, <1>20 DEF PipeInv, Adm!Running

LEMMA PipeStep ==
    ASSUME PipeInv, [Adm!Next]_(Adm!vars)
    PROVE  PipeInv'
<1> DEFINE step == NextFrame(input, offset + 1)
<1>1. /\ input \in Adm!Inputs(MaxPieces) /\ Len(input) \in Nat /\ offset \in 0..Len(input)
      /\ NextFrame(input, Len(input) + 1).is = "incomplete"
      /\ policy \in {Adm!Policies[p] : p \in DOMAIN Adm!Policies}
  BY NextFrameAssumption DEF PipeInv
<1>2. CASE UNCHANGED Adm!vars
  <2>1. UNCHANGED <<input, policy, offset, accepted, stopped>>
    BY <1>2 DEF Adm!vars
  <2>2. (Adm!Reading(Len(accepted)))' = Adm!Reading(Len(accepted))
    BY <2>1 DEF Adm!Reading
  <2>3. (\A i \in 1..Len(accepted) : EntryOK(i))'
    BY <2>1 DEF PipeInv, EntryOK, Adm!Refused
  <2>7. (Adm!Reading(stopped.index))' = Adm!Reading(stopped.index)
    BY <2>1 DEF Adm!Reading
  <2>4. StopOK => StopOK'
    BY <2>1, <2>7 DEF StopOK, Taken, Adm!ExitCode, Adm!Ok
  <2>5. (stopped = Adm!Running => Adm!Reading(Len(accepted)) = Adm!Ok(Taken(accepted), offset + 1))'
    BY <2>1, <2>2 DEF PipeInv, Taken, Adm!Ok, Adm!Running
  <2>6. (stopped # Adm!Running => StopOK)'
    BY <2>1, <2>4 DEF PipeInv, Adm!Running
  <2> QED
    BY <2>1, <2>3, <2>5, <2>6 DEF PipeInv, Adm!Inputs
<1>3. CASE Adm!Deny
  <2>1. /\ stopped = Adm!Running /\ "pipe" \notin policy /\ stopped' = Adm!Stop("refused")
        /\ UNCHANGED <<input, policy, offset, accepted>>
    BY <1>3 DEF Adm!Deny
  <2>2. accepted = <<>>
    BY <2>1 DEF PipeInv
  <2>3. offset = 0
    <3>1. Len(accepted) = 0
      BY <2>2
    <3>2. Adm!Ok(<<>>, 1) = Adm!Ok(Taken(accepted), offset + 1)
      BY <2>1, <3>1, ReadingNothing DEF PipeInv
    <3>3. 1 = offset + 1
      BY <3>2 DEF Adm!Ok
    <3> QED
      BY <1>1, <3>3
  <2>4. "refused" \in {"clean", "refused", "not_a_command", "malformed", "truncated"}
    OBVIOUS
  <2> QED
    BY <1>1, <2>1, <2>3, <2>4, StopStep
<1>4. CASE Adm!Frame
  <2>1. /\ stopped = Adm!Running /\ "pipe" \in policy /\ step.is = "ok"
        /\ offset' = step.pos - 1 /\ UNCHANGED <<input, policy>>
    BY <1>4 DEF Adm!Frame
  <2>2. offset # Len(input)
    BY <1>1, <2>1
  <2>3. offset' \in 0..Len(input)
    <3>1. offset + 1 \in 1..(Len(input) + 1)
      BY <1>1
    <3>2. step.pos \in 1..(Len(input) + 1)
      BY <1>1, <2>1, <3>1, NextFrameAssumption
    <3> QED
      BY <1>1, <2>1, <3>2
  <2>4. CASE ~Adm!IsCommand(step.v)
    <3>1. stopped' = Adm!Stop("not_a_command") /\ accepted' = accepted
      BY <1>4, <2>4 DEF Adm!Frame
    <3> HIDE DEF step
    <3> QED
      BY <1>1, <2>1, <2>2, <2>3, <2>4, <3>1, StopStep DEF step
  <2>5. CASE Adm!IsCommand(step.v) /\ Adm!Refused(Adm!Classify(step.v), policy)
    <3>1. stopped' = Adm!Stop("refused") /\ accepted' = accepted
      BY <1>4, <2>5 DEF Adm!Frame
    <3>2. Adm!Mutates(Adm!Classify(step.v))
      BY <1>1, <2>5, RefusalsAre
    <3> QED
      BY <1>1, <2>1, <2>2, <2>3, <2>5, <3>1, <3>2, StopStep
  <2>6. CASE Adm!IsCommand(step.v) /\ ~Adm!Refused(Adm!Classify(step.v), policy)
    <3>1. /\ accepted' = Append(accepted, [argv |-> step.v[2],
                                            effects |-> Adm!Classify(step.v)])
          /\ stopped' = stopped
      BY <1>4, <2>6 DEF Adm!Frame
    <3> QED
      BY <2>1, <2>6, <3>1, AcceptStep
  <2> QED
    BY <2>4, <2>5, <2>6
<1>5. CASE Adm!End
  <2>1. PICK why : why = IF step.is = "error" THEN "malformed"
                         ELSE IF offset = Len(input) THEN "clean" ELSE "truncated"
    OBVIOUS
  <2>2. /\ stopped = Adm!Running /\ "pipe" \in policy /\ step.is # "ok"
        /\ stopped' = Adm!Stop(why) /\ UNCHANGED <<input, policy, offset, accepted>>
    BY <1>5, <2>1 DEF Adm!End
  <2>3. offset = Len(input) => step.is # "error"
    BY <1>1
  <2>4. /\ why \in {"clean", "malformed", "truncated"}
        /\ why = "clean" <=> offset = Len(input)
        /\ why \in {"malformed", "truncated"} => step.is # "ok"
    BY <2>1, <2>2, <2>3
  <2> QED
    BY <1>1, <2>2, <2>4, StopStep
<1> QED
  BY <1>2, <1>3, <1>4, <1>5 DEF Adm!Next

\* AdmissionIsExact: whatever the decoder, the catalog, the pieces and their number, no accepted
\* frame of a production profile changes the server and none destroys; everything up to the
\* frame that is blamed is accepted, that frame is why, and success is the whole input.
THEOREM PipesAreAdmittedExactly == Adm!Spec => []AdmissionIsExact
<1>1. Adm!Init => PipeInv
  <2> SUFFICES ASSUME Adm!Init PROVE PipeInv
    OBVIOUS
  <2>1. /\ input \in Adm!Inputs(MaxPieces) /\ offset = 0 /\ accepted = <<>>
        /\ stopped = Adm!Running /\ policy \in {Adm!Policies[p] : p \in DOMAIN Adm!Policies}
    BY DEF Adm!Init
  <2>2. Len(input) \in Nat
    BY <2>1, NextFrameAssumption
  <2>3. <<>> \in Seq({}) /\ Len(<<>>) = 0 /\ DOMAIN <<>> = {}
    OBVIOUS
  <2>4. Taken(accepted) = <<>>
    BY <2>1 DEF Taken
  <2>5. Adm!Reading(Len(accepted)) = Adm!Ok(Taken(accepted), offset + 1)
    BY <2>1, <2>3, <2>4, ReadingNothing
  <2>6. offset \in 0..Len(input) /\ \A i \in 1..Len(accepted) : EntryOK(i)
    BY <2>1, <2>2, <2>3
  <2> QED
    BY <2>1, <2>3, <2>5, <2>6 DEF PipeInv
<1>2. PipeInv /\ [Adm!Next]_(Adm!vars) => PipeInv'
  BY PipeStep
<1>3. PipeInv => AdmissionIsExact
  BY PipeIsExact
<1> QED
  BY <1>1, <1>2, <1>3, PTL DEF Adm!Spec
=============================================================================
