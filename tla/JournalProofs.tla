---------------------------- MODULE JournalProofs ----------------------------
(***************************************************************************)
(* Proofs about the credential journal: no reconciliation, however late,   *)
(* deletes the secret a profile names; and no binding that dies strands a  *)
(* secret.                                                                 *)
(***************************************************************************)
EXTENDS MCProfiles, WellFoundedInduction, TLAPS

-----------------------------------------------------------------------------
(* The journal's lines. *)

States == {"pending", "committed", "cleaned", "malformed"}
Lines == [ref : Nat, supersedes : Nat, state : States]

LEMMA Least ==
    ASSUME NEW T, T \subseteq Nat, T # {}
    PROVE  \E n \in T : \A m \in T : n <= m
<1> DEFINE R == OpToRel(<, Nat)
<1>1. \A x, y \in Nat : <<y, x>> \in R <=> y < x
  BY DEF OpToRel
<1>2. IsWellFoundedOn(R, Nat)
  BY NatLessThanWellFounded
<1> HIDE DEF R
<1>3. PICK x \in T : \A y \in T : ~ (<<y, x>> \in R)
  BY <1>2, WFMin, Zenon
<1>4. \A y \in T : ~ (y < x)
  BY <1>1, <1>3
<1> QED
  BY <1>3, <1>4

\* The last line of the reference r, as `Latest' chooses it.
IsLast(u, r, i) ==
    /\ i \in DOMAIN u
    /\ u[i].ref = r
    /\ \A j \in DOMAIN u : u[j].ref = r => j <= i
Last(u, r) == u[CHOOSE i \in DOMAIN u :
                  u[i].ref = r /\ \A j \in DOMAIN u : u[j].ref = r => j <= i]

LEMMA LastIs ==
    ASSUME NEW u \in Seq(Lines), NEW r, \E i \in DOMAIN u : u[i].ref = r
    PROVE  \E i \in DOMAIN u : IsLast(u, r, i) /\ Last(u, r) = u[i]
<1> DEFINE T == {Len(u) - i : i \in {j \in DOMAIN u : u[j].ref = r}}
<1>1. Len(u) \in Nat /\ DOMAIN u = 1..Len(u)
  OBVIOUS
<1>2. T \subseteq Nat /\ T # {}
  BY <1>1
<1>3. PICK n \in T : \A m \in T : n <= m
  BY <1>2, Least
<1>4. PICK i \in DOMAIN u : u[i].ref = r /\ n = Len(u) - i
  BY <1>3
<1>5. ASSUME NEW j \in DOMAIN u, u[j].ref = r PROVE j <= i
  <2>1. Len(u) - j \in T
    BY <1>5
  <2>2. n <= Len(u) - j
    BY <2>1, <1>3
  <2>3. i \in 1..Len(u) /\ j \in 1..Len(u)
    BY <1>1
  <2> QED
    BY <2>2, <2>3, <1>1, <1>4
<1> QED
  BY <1>4, <1>5 DEF Last, IsLast

LEMMA LastUnique ==
    ASSUME NEW u \in Seq(Lines), NEW r, NEW i \in DOMAIN u, IsLast(u, r, i)
    PROVE  Last(u, r) = u[i]
<1>1. PICK k \in DOMAIN u : IsLast(u, r, k) /\ Last(u, r) = u[k]
  BY LastIs DEF IsLast
<1>2. i <= k /\ k <= i /\ i \in Nat /\ k \in Nat
  BY <1>1 DEF IsLast
<1> QED
  BY <1>1, <1>2

LEMMA AppendedLines ==
    ASSUME NEW e \in Lines, journal \in Seq(Lines), unended => journal # <<>>
    PROVE  /\ Appended(e) \in Seq(Lines)
           /\ Appended(e) # <<>>
           /\ \A i \in DOMAIN Appended(e) :
                \/ Appended(e)[i] \in {e, Malformed}
                \/ i \in DOMAIN journal /\ Appended(e)[i] = journal[i]
<1>0. Malformed \in Lines
  BY DEF Lines, Malformed, States, None
<1>1. CASE unended
  <2>1. Len(journal) \in DOMAIN journal /\ DOMAIN journal = 1..Len(journal)
    BY <1>1
  <2> DEFINE new == [journal EXCEPT ![Len(journal)] = Malformed]
  <2>2. new \in Seq(Lines) /\ DOMAIN new = DOMAIN journal /\ new # <<>>
    BY <1>0, <2>1
  <2>3. \A i \in DOMAIN new : new[i] = Malformed \/ new[i] = journal[i]
    BY <2>1
  <2> QED
    BY <1>1, <2>2, <2>3 DEF Appended
<1>2. CASE ~unended
  <2>1. Append(journal, e) \in Seq(Lines) /\ Append(journal, e) # <<>>
    OBVIOUS
  <2>2. \A i \in DOMAIN Append(journal, e) :
            \/ Append(journal, e)[i] = e
            \/ i \in DOMAIN journal /\ Append(journal, e)[i] = journal[i]
    OBVIOUS
  <2> QED
    BY <1>2, <2>1, <2>2 DEF Appended
<1> QED
  BY <1>1, <1>2

-----------------------------------------------------------------------------
(* A cleanup never takes the secret in use. *)

\* Every reference written down is an older one than the next to be minted, and what a line
\* says was superseded is older still than the reference being bound.
AgesOK ==
    /\ minted \in Nat
    /\ profile \in 0..minted
    /\ supersedes \in Nat
    /\ bind # "idle" => supersedes < minted
    /\ journal \in Seq(Lines)
    /\ unended => journal # <<>>
    /\ \A i \in DOMAIN journal : journal[i].supersedes \in Nat /\ journal[i].supersedes < minted
    /\ cleanups \subseteq Nat
    /\ \A r \in cleanups : r < minted

\* No committed line says that the profile's present reference was superseded, nor will the
\* binding under way write one.
Current ==
    /\ \A i \in DOMAIN journal :
         journal[i].state = "committed" => journal[i].supersedes # profile
    /\ bind = "profile" => supersedes # profile

\* A reconciliation that has read the profile spares what it read; what was bound since then
\* was minted later and has not been superseded yet.
Spared ==
    /\ cleaning = "read" => profile = referenced \/ Current
    /\ cleaning \in {"cleaning", "deleted"} => profile \notin cleanups

KeepInv ==
    /\ AgesOK
    /\ wentBack # TRUE => Spared
    /\ cleaning = "deleted" => cleanups # {}

LEMMA CleanupsAreOld ==
    ASSUME KeepInv, NEW named, NEW r \in RetryableCleanups(named)
    PROVE  /\ r # named
           /\ \E i \in DOMAIN journal :
                journal[i].state = "committed" /\ journal[i].supersedes = r
<1>1. PICK q \in Recorded : /\ Latest(q).state = "committed"
                            /\ Latest(q).supersedes \in store \ {named}
                            /\ r = Latest(q).supersedes
  BY DEF RetryableCleanups
<1>2. \E i \in DOMAIN journal : journal[i].ref = q
  BY DEF Recorded
<1>3. PICK i \in DOMAIN journal : Last(journal, q) = journal[i]
  BY <1>2, LastIs DEF KeepInv, AgesOK
<1>4. Latest(q) = journal[i]
  BY <1>3 DEF Latest, Last
<1> QED
  BY <1>1, <1>4

\* What an append does to the journal: nothing but the lines it brings.
Brings(e) ==
    /\ journal' \in Seq(Lines)
    /\ \A i \in DOMAIN journal' :
         \/ journal'[i] \in {e, Malformed}
         \/ i \in DOMAIN journal /\ journal'[i] = journal[i]

LEMMA AppendBrings ==
    ASSUME NEW e \in Lines, AgesOK, AppendEntry(e) \/ AppendTorn(e)
    PROVE  Brings(e) /\ (unended' => journal' # <<>>)
<1>1. CASE AppendEntry(e)
  BY <1>1, AppendedLines DEF AgesOK, AppendEntry, Brings
<1>2. CASE AppendTorn(e)
  <2>0. Malformed \in Lines
    BY DEF Malformed, Lines, None, States
  <2>1. PICK l \in {e, Malformed} : journal' = Appended(l)
    BY <1>2 DEF AppendTorn, Appended
  <2>2. l \in Lines
    BY <2>0
  <2>3. /\ Appended(l) \in Seq(Lines) /\ Appended(l) # <<>>
        /\ \A i \in DOMAIN Appended(l) :
             \/ Appended(l)[i] \in {l, Malformed}
             \/ i \in DOMAIN journal /\ Appended(l)[i] = journal[i]
    BY <2>2, AppendedLines DEF AgesOK
  <2> QED
    BY <2>1, <2>3 DEF Brings
<1> QED
  BY <1>1, <1>2

LEMMA MalformedOK == Malformed.supersedes = 0 /\ Malformed.state = "malformed"
  BY DEF Malformed, None

LEMMA KeepStep ==
    ASSUME KeepInv, [Next]_vars
    PROVE  KeepInv'
<1> USE DEF None, binding, cleaner, faults, Spared
<1>1. CASE BindPending
  <2> DEFINE next == minted + 1
             e == Record(next, profile, "pending")
  <2>1. /\ minted' = next /\ supersedes' = profile /\ profile' = profile
        /\ cleaning' = cleaning /\ referenced' = referenced /\ cleanups' = cleanups
        /\ AppendEntry(e) \/ AppendTorn(e)
        /\ bind' \in {"pending", "idle"} /\ wentBack' = wentBack
    BY <1>1 DEF BindPending
  <2>2. next \in Nat /\ next > 0 /\ minted < next /\ \A n \in Nat : n < minted => n < next
    BY DEF KeepInv, AgesOK
  <2>3. profile \in Nat /\ profile < next
    BY <2>2 DEF KeepInv, AgesOK
  <2>4. e \in Lines /\ e.supersedes = profile /\ e.state = "pending"
    BY <2>2, <2>3 DEF Record, Lines, States
  <2> HIDE DEF next, e
  <2>5. Brings(e) /\ (unended' => journal' # <<>>)
    BY <2>1, <2>4, AppendBrings DEF KeepInv
  <2>6. \A i \in DOMAIN journal' :
            /\ journal'[i].supersedes \in Nat /\ journal'[i].supersedes < next
            /\ journal'[i].state = "committed" =>
                 i \in DOMAIN journal /\ journal'[i] = journal[i]
    BY <2>2, <2>3, <2>4, <2>5, MalformedOK DEF KeepInv, AgesOK, Brings
  <2>7. AgesOK'
    BY <2>1, <2>2, <2>3, <2>5, <2>6 DEF KeepInv, AgesOK, Brings
  <2>8. Current => Current'
    <3>1. bind' # "profile"
      BY <2>1
    <3> QED
      BY <2>1, <2>6, <3>1 DEF Current
  <2> QED
    BY <2>1, <2>7, <2>8 DEF KeepInv
<1>2. CASE BindSecret
  BY <1>2 DEF BindSecret, KeepInv, AgesOK, Current
<1>3. CASE BindProfile
  <2>0. /\ profile' = minted /\ bind' = "profile" /\ minted' = minted /\ bind = "secret"
        /\ supersedes' = supersedes /\ journal' = journal /\ unended' = unended
        /\ cleanups' = cleanups
    BY <1>3 DEF BindProfile
  <2>1. AgesOK'
    <3>1. profile' \in 0..minted'
      BY <2>0 DEF KeepInv, AgesOK
    <3> QED
      BY <2>0, <3>1 DEF KeepInv, AgesOK
  <2>2. /\ \A i \in DOMAIN journal : journal[i].supersedes # minted
        /\ minted \notin cleanups
        /\ supersedes # minted
    BY <2>0 DEF KeepInv, AgesOK
  <2>3. Current' /\ profile' \notin cleanups'
    BY <2>0, <2>2 DEF Current
  <2>4. cleaning' = "deleted" => cleanups' # {}
    BY <1>3 DEF BindProfile, KeepInv
  <2> QED
    BY <2>1, <2>3, <2>4 DEF KeepInv
<1>4. CASE BindCommitted
  <2> DEFINE e == Record(minted, supersedes, "committed")
  <2>1. /\ minted' = minted /\ supersedes' = supersedes /\ profile' = profile
        /\ cleaning' = cleaning /\ referenced' = referenced /\ cleanups' = cleanups
        /\ AppendEntry(e) \/ AppendTorn(e)
        /\ bind' = "idle" /\ bind = "profile" /\ wentBack' = wentBack
    BY <1>4 DEF BindCommitted
  <2>2. /\ minted \in Nat /\ supersedes \in Nat /\ supersedes < minted
        /\ 0 < minted
    BY <2>1 DEF KeepInv, AgesOK
  <2>3. e \in Lines /\ e.supersedes = supersedes
    BY <2>2 DEF Record, Lines, States
  <2> HIDE DEF e
  <2>4. Brings(e) /\ (unended' => journal' # <<>>)
    BY <2>1, <2>3, AppendBrings DEF KeepInv
  <2>5. \A i \in DOMAIN journal' :
            /\ journal'[i].supersedes \in Nat /\ journal'[i].supersedes < minted
    BY <2>2, <2>3, <2>4, MalformedOK DEF KeepInv, AgesOK, Brings
  <2>6. AgesOK'
    BY <2>1, <2>2, <2>4, <2>5 DEF KeepInv, AgesOK, Brings
  <2>7. Current => Current'
    <3>1. \A i \in DOMAIN journal' :
            \/ journal'[i].supersedes = supersedes \/ journal'[i].state = "malformed"
            \/ i \in DOMAIN journal /\ journal'[i] = journal[i]
      BY <2>3, <2>4, MalformedOK DEF Brings
    <3> QED
      BY <2>1, <3>1 DEF Current
  <2> QED
    BY <2>1, <2>6, <2>7 DEF KeepInv
<1>5. CASE BindDies
  BY <1>5 DEF BindDies, KeepInv, AgesOK, Current
<1>6. CASE ReadReferenced
  BY <1>6 DEF ReadReferenced, KeepInv, AgesOK, Current
<1>7. CASE Reconcile
  <2>1. CASE Readable
    <3>1. /\ cleaning = "read" /\ cleaning' = "cleaning"
          /\ cleanups' = RetryableCleanups(referenced)
          /\ UNCHANGED <<journal, unended, profile, bind, minted, supersedes, wentBack>>
      BY <1>7, <2>1 DEF Reconcile
    <3>2. \A r \in cleanups' :
            r \in Nat /\ r < minted /\ (wentBack # TRUE => r # profile)
      <4> SUFFICES ASSUME NEW r \in cleanups'
                   PROVE  r \in Nat /\ r < minted /\ (wentBack # TRUE => r # profile)
        OBVIOUS
      <4>1. r # referenced
            /\ \E i \in DOMAIN journal :
                journal[i].state = "committed" /\ journal[i].supersedes = r
        BY <3>1, CleanupsAreOld
      <4> QED
        BY <3>1, <4>1 DEF KeepInv, AgesOK, Current
    <3> QED
      BY <3>1, <3>2 DEF KeepInv, AgesOK
  <2>2. CASE ~Readable
    BY <1>7, <2>2 DEF Reconcile, KeepInv, AgesOK
  <2> QED
    BY <2>1, <2>2
<1>8. CASE DeleteSuperseded
  BY <1>8 DEF DeleteSuperseded, KeepInv, AgesOK, Current
<1>9. CASE RecordCleaned
  <2> DEFINE n == NextCleanup
             e == Record(n, 0, "cleaned")
  <2>1. /\ minted' = minted /\ supersedes' = supersedes /\ profile' = profile /\ bind' = bind
        /\ cleaning' \in {"cleaning", "idle"} /\ cleaning = "deleted"
        /\ cleanups' \subseteq cleanups /\ wentBack' = wentBack
        /\ AppendEntry(e) \/ AppendTorn(e)
    BY <1>9 DEF RecordCleaned
  <2>2. cleanups # {} /\ n \in cleanups
    <3>1. cleanups # {} /\ cleanups \subseteq Nat
      BY <1>9 DEF RecordCleaned, KeepInv, AgesOK
    <3>2. \E r \in cleanups : \A q \in cleanups : r <= q
      BY <3>1, Least
    <3> QED
      BY <3>1, <3>2 DEF NextCleanup
  <2>3. n \in Nat /\ n < minted /\ 0 < minted /\ minted \in Nat
    <3> HIDE DEF n
    <3>1. n \in Nat /\ minted \in Nat /\ n < minted
      BY <2>2 DEF KeepInv, AgesOK
    <3> QED
      BY <3>1
  <2>4. e \in Lines /\ e.supersedes = 0
    BY <2>3 DEF Record, Lines, States
  <2> HIDE DEF e, n
  <2>5. Brings(e) /\ (unended' => journal' # <<>>)
    BY <2>1, <2>4, AppendBrings DEF KeepInv
  <2>6. \A i \in DOMAIN journal' :
            /\ journal'[i].supersedes \in Nat /\ journal'[i].supersedes < minted
    BY <2>3, <2>4, <2>5, MalformedOK DEF KeepInv, AgesOK, Brings
  <2>7. AgesOK'
    BY <2>1, <2>5, <2>6 DEF KeepInv, AgesOK, Brings
  <2> QED
    BY <2>1, <2>7 DEF KeepInv
<1>10. CASE CleanupEnds
  BY <1>10 DEF CleanupEnds, KeepInv, AgesOK
<1>11. CASE Truncate
  BY <1>11 DEF Truncate, KeepInv, AgesOK
<1>12. CASE RollBack
  <2>1. PICK r \in 1..minted : profile' = r
    BY <1>12 DEF RollBack
  <2>2. AgesOK'
    BY <1>12, <2>1 DEF RollBack, KeepInv, AgesOK
  <2>3. wentBack' = TRUE /\ UNCHANGED <<cleaning, cleanups>>
    BY <1>12 DEF RollBack
  <2> QED
    BY <2>2, <2>3 DEF KeepInv
<1>13. CASE UNCHANGED vars
  BY <1>13 DEF vars, KeepInv, AgesOK, Current
<1> QED
  BY <1>1, <1>2, <1>3, <1>4, <1>5, <1>6, <1>7, <1>8, <1>9, <1>10, <1>11, <1>12, <1>13 DEF Next

\* LiveSecretIsKept: whatever was bound, abandoned or torn since a reconciliation read the
\* profile, and whatever was put back before it did, finish_cleanups never deletes the secret
\* the profile names.  The list of what to delete is stale when it is used: that references are
\* minted once makes up for newer bindings, and nothing for an older configuration put back
\* meanwhile.
THEOREM LiveSecretsSurvive == Spec => LiveSecretIsKept
<1>1. Init => KeepInv
  BY DEF Init, KeepInv, Spared, AgesOK, None
<1>2. KeepInv /\ [Next]_vars => KeepInv'
  BY KeepStep
<1>3. KeepInv /\ [Next]_vars => [profile' \in store /\ ~wentBack => profile' \in store']_vars
  <2> SUFFICES ASSUME KeepInv, Next, wentBack # TRUE
               PROVE  profile' \in store => profile' \in store'
    BY Zenon DEF vars
  <2>1. CASE DeleteSuperseded
    <3>1. /\ profile' = profile /\ cleaning = "cleaning" /\ cleanups # {}
          /\ store' = store \ {NextCleanup}
      BY <2>1 DEF DeleteSuperseded
    <3>2. NextCleanup \in cleanups
      BY <3>1, Least DEF KeepInv, AgesOK, NextCleanup
    <3> QED
      BY <3>1, <3>2 DEF KeepInv, Spared
  <2>2. CASE ~DeleteSuperseded
    <3>1. store \subseteq store'
      BY <2>2 DEF Next, BindPending, BindSecret, BindProfile, BindCommitted, BindDies,
                  ReadReferenced, Reconcile, RecordCleaned, CleanupEnds, Truncate, RollBack
    <3> QED
      BY <3>1
  <2> QED
    BY <2>1, <2>2
<1> QED
  BY <1>1, <1>2, <1>3, PTL DEF Spec, LiveSecretIsKept

-----------------------------------------------------------------------------
(* No secret is stranded. *)

Has(u, r) == \E i \in DOMAIN u : u[i].ref = r

LEMMA AppendLast ==
    ASSUME NEW u \in Seq(Lines), NEW e \in Lines
    PROVE  /\ Append(u, e) \in Seq(Lines)
           /\ Has(Append(u, e), e.ref) /\ Last(Append(u, e), e.ref) = e
           /\ \A q : q # e.ref =>
                /\ Has(Append(u, e), q) <=> Has(u, q)
                /\ Has(u, q) => Last(Append(u, e), q) = Last(u, q)
<1> DEFINE v == Append(u, e)
           n == Len(u) + 1
<1>1. /\ v \in Seq(Lines) /\ DOMAIN v = 1..n /\ DOMAIN u = 1..Len(u) /\ Len(u) \in Nat
      /\ n \in DOMAIN v /\ v[n] = e
      /\ \A i \in DOMAIN u : i \in DOMAIN v /\ v[i] = u[i]
      /\ \A i \in DOMAIN v : i = n \/ i \in DOMAIN u
      /\ \A i \in DOMAIN v : i <= n
  OBVIOUS
<1> HIDE DEF v, n
<1>2. Has(v, e.ref) /\ Last(v, e.ref) = e
  <2>1. IsLast(v, e.ref, n)
    BY <1>1 DEF IsLast
  <2> QED
    BY <1>1, <2>1, LastUnique DEF Has
<1>3. ASSUME NEW q, q # e.ref
      PROVE  /\ Has(v, q) <=> Has(u, q)
             /\ Has(u, q) => Last(v, q) = Last(u, q)
  <2>1. Has(v, q) <=> Has(u, q)
    BY <1>1, <1>3 DEF Has
  <2>2. ASSUME Has(u, q) PROVE Last(v, q) = Last(u, q)
    <3>1. PICK i \in DOMAIN u : IsLast(u, q, i) /\ Last(u, q) = u[i]
      BY <2>2, LastIs DEF Has
    <3>2. IsLast(v, q, i)
      BY <1>1, <1>3, <3>1 DEF IsLast
    <3>3. Last(v, q) = v[i]
      BY <1>1, <3>2, LastUnique
    <3> QED
      BY <1>1, <3>1, <3>3
  <2> QED
    BY <2>1, <2>2
<1> QED
  BY <1>1, <1>2, <1>3 DEF v

\* How a reconciliation finds the secret r: as an orphan, or as what the line of q superseded.
Orphan(u, st, p, r) == Has(u, r) /\ Last(u, r).state = "pending" /\ r \in st /\ r # p
Retry(u, st, p, r, q) ==
    /\ Has(u, q) /\ Last(u, q).state = "committed" /\ (q \in st \/ q # p)
    /\ Last(u, q).supersedes = r /\ r \in st /\ r # p
Found(u, st, p, r) == Orphan(u, st, p, r) \/ \E q : Retry(u, st, p, r, q)

LEMMA ReportsAre ==
    ASSUME NEW p, NEW r
    PROVE  /\ r \in OrphanedSecrets(p) <=> Orphan(journal, store, p, r)
           /\ r \in RetryableCleanups(p) <=> \E q : Retry(journal, store, p, r, q)
<1>1. \A q : q \in Recorded <=> Has(journal, q)
  BY DEF Recorded, Has
<1>2. \A q : Latest(q) = Last(journal, q)
  BY DEF Latest, Last
<1>3. r \in OrphanedSecrets(p) <=> Orphan(journal, store, p, r)
  BY <1>1, <1>2 DEF OrphanedSecrets, Orphan
<1>4. r \in RetryableCleanups(p) <=> \E q : Retry(journal, store, p, r, q)
  BY <1>1, <1>2 DEF RetryableCleanups, Retry
<1> QED
  BY <1>3, <1>4

\* A secret stays found when a line of another reference is appended.
LEMMA FoundAfterAppend ==
    ASSUME NEW u \in Seq(Lines), NEW e \in Lines, NEW st, NEW p, NEW r, Found(u, st, p, r),
           r # e.ref \/ ~ Orphan(u, st, p, r),
           ~ Retry(u, st, p, r, e.ref)
    PROVE  Found(Append(u, e), st, p, r)
  BY AppendLast DEF Found, Orphan, Retry

\* One process, which does not die between writing the profile and recording that; no older
\* configuration is put back.  It may die inside a write.
Alone ==
    /\ OneProcess = TRUE
    /\ MaxRollbacks = 0
    /\ "profile" \notin CrashPoints

LinesOK ==
    /\ journal \in Seq(Lines)
    /\ rollbacks \in Nat
    /\ minted \in Nat /\ profile \in 0..minted /\ supersedes \in Nat /\ store \subseteq 1..minted
    /\ \A i \in DOMAIN journal :
         journal[i].supersedes < journal[i].ref /\ journal[i].ref <= minted

\* A binding under way: its line is there, its secret and the profile as far as it has come.
BindingOK ==
    /\ bind \in {"idle", "pending", "secret", "profile"}
    /\ bind # "idle" =>
         /\ cleaning = "idle"
         /\ supersedes < minted
         /\ Has(journal, minted)
         /\ Last(journal, minted) = Record(minted, supersedes, "pending")
    /\ bind \in {"pending", "secret"} => profile = supersedes
    /\ bind = "profile" => profile = minted
    /\ bind \in {"secret", "profile"} => minted \in store

\* A cleanup under way: it has on its list all that is to be cleaned up, oldest first.  A line
\* that records a deletion takes the place of the line that says what the deleted secret
\* superseded: by then, that one is gone.
CleaningOK ==
    /\ cleaning # "idle" => referenced = profile
    /\ cleaning \in {"cleaning", "deleted"} =>
         /\ cleanups \subseteq 1..minted
         /\ profile \notin cleanups
         /\ RetryableCleanups(profile) \subseteq cleanups
    /\ cleaning = "deleted" => cleanups # {} /\ NextCleanup \notin store

AllFound ==
    \A r \in store \ {profile} :
        (bind = "profile" /\ r = supersedes) \/ Found(journal, store, profile, r)

StrayInv == LinesOK /\ BindingOK /\ CleaningOK /\ AllFound

\* The line with which a binding begins or commits, or a cleanup ends, as the last of its
\* reference.
LEMMA AppendIs ==
    ASSUME AgesOK, NEW e \in Lines, AppendEntry(e) \/ AppendTorn(e), Readable'
    PROVE  journal' = Append(journal, e)
<1>0. PICK l \in {e, Malformed} : journal' = Appended(l)
  BY DEF AppendEntry, AppendTorn, Appended
<1>1. CASE unended
  <2>1. journal \in Seq(Lines) /\ journal # <<>>
    BY <1>1 DEF AgesOK
  <2>2. Len(journal) \in DOMAIN journal
    BY <2>1
  <2>3. journal' = [journal EXCEPT ![Len(journal)] = Malformed]
    BY <1>0, <1>1 DEF Appended
  <2> QED
    BY <2>2, <2>3 DEF Readable
<1>2. CASE ~unended
  <2>1. journal' = Append(journal, l)
    BY <1>0, <1>2 DEF Appended
  <2>2. /\ journal \in Seq(Lines) /\ Len(journal) + 1 \in DOMAIN Append(journal, l)
        /\ Append(journal, l)[Len(journal) + 1] = l
    BY DEF AgesOK
  <2>3. l # Malformed
    BY <2>1, <2>2 DEF Readable
  <2> QED
    BY <2>1, <2>3
<1> QED
  BY <1>1, <1>2

\* A line that cannot be read stays.
LEMMA UnreadableStays ==
    ASSUME AgesOK, [Next]_vars, ~Readable
    PROVE  ~Readable'
<1>1. PICK i \in DOMAIN journal : journal[i] = Malformed
  BY DEF Readable
<1>2. journal \in Seq(Lines) /\ Len(journal) \in Nat /\ DOMAIN journal = 1..Len(journal)
  BY DEF AgesOK
<1>3. \A l : i \in DOMAIN Appended(l) /\ Appended(l)[i] = Malformed
  <2> SUFFICES ASSUME NEW l PROVE i \in DOMAIN Appended(l) /\ Appended(l)[i] = Malformed
    OBVIOUS
  <2>1. CASE unended
    BY <1>1, <1>2, <2>1 DEF Appended
  <2>2. CASE ~unended
    BY <1>1, <1>2, <2>2 DEF Appended
  <2> QED
    BY <2>1, <2>2
<1>4. journal' = journal \/ \E l : journal' = Appended(l)
  BY DEF Next, BindPending, BindSecret, BindProfile, BindCommitted, BindDies, ReadReferenced,
         Reconcile, DeleteSuperseded, RecordCleaned, CleanupEnds, Truncate, RollBack, vars,
         AppendEntry, AppendTorn, Appended
<1> QED
  BY <1>1, <1>3, <1>4 DEF Readable

LEMMA LinesAfterAppend ==
    ASSUME LinesOK, NEW e \in Lines, NEW n \in Nat, minted <= n, e.ref <= n,
           e.supersedes < e.ref
    PROVE  /\ Append(journal, e) \in Seq(Lines)
           /\ \A i \in DOMAIN Append(journal, e) :
                /\ Append(journal, e)[i].supersedes < Append(journal, e)[i].ref
                /\ Append(journal, e)[i].ref <= n
<1> DEFINE v == Append(journal, e)
<1>1. /\ v \in Seq(Lines)
      /\ \A i \in DOMAIN v : v[i] = e \/ (i \in DOMAIN journal /\ v[i] = journal[i])
  BY DEF LinesOK
<1> HIDE DEF v
<1>2. \A i \in DOMAIN journal : journal[i].ref \in Nat
  <2> SUFFICES ASSUME NEW i \in DOMAIN journal PROVE journal[i].ref \in Nat
    OBVIOUS
  <2>1. journal[i] \in Lines
    BY DEF LinesOK
  <2> QED
    BY <2>1 DEF Lines
<1>3. \A i \in DOMAIN v : v[i].supersedes < v[i].ref /\ v[i].ref <= n
  BY <1>1, <1>2 DEF LinesOK
<1> QED
  BY <1>1, <1>3 DEF v

\* What is recorded has been minted, and superseded an older one.
LEMMA LastOld ==
    ASSUME LinesOK, NEW q, Has(journal, q)
    PROVE  /\ q \in Nat /\ q <= minted
           /\ Last(journal, q).supersedes \in Nat /\ Last(journal, q).supersedes < q
<1>1. PICK i \in DOMAIN journal : IsLast(journal, q, i) /\ Last(journal, q) = journal[i]
  BY LastIs DEF Has, LinesOK
<1>2. journal[i] \in Lines /\ journal[i].ref = q
  BY <1>1 DEF LinesOK, IsLast
<1>3. journal[i].supersedes < journal[i].ref /\ journal[i].ref <= minted
  BY DEF LinesOK
<1> QED
  BY <1>1, <1>2, <1>3 DEF Lines

LEMMA StrayStep ==
    ASSUME Alone, AgesOK, StrayInv, [Next]_vars, Readable'
    PROVE  StrayInv'
<1> USE DEF None, binding, cleaner, faults
<1>0. LinesOK /\ BindingOK /\ CleaningOK /\ AllFound
  BY DEF StrayInv
<1>1. CASE BindPending
  <2> DEFINE next == minted + 1
             e == Record(next, profile, "pending")
  <2>1. /\ bind = "idle" /\ cleaning = "idle"
        /\ minted' = next /\ supersedes' = profile /\ profile' = profile /\ store' = store
        /\ cleaning' = cleaning /\ referenced' = referenced /\ cleanups' = cleanups
        /\ AppendEntry(e) \/ AppendTorn(e)
        /\ bind' \in {"pending", "idle"} /\ rollbacks' = rollbacks
    BY <1>0, <1>1 DEF BindPending, Alone
  <2>2. next \in Nat /\ minted < next /\ profile \in Nat /\ profile < next /\ minted \in Nat
    BY <1>0 DEF LinesOK
  <2>3. e \in Lines /\ e.supersedes = profile /\ e.ref = next
        /\ e = Record(next, profile, "pending")
    BY <2>2 DEF Record, Lines, States
  <2> HIDE DEF next, e
  <2>4. journal' = Append(journal, e)
    BY <2>1, <2>3, AppendIs
  <2>5. LinesOK'
    <3>1. /\ Append(journal, e) \in Seq(Lines)
          /\ \A i \in DOMAIN Append(journal, e) :
               /\ Append(journal, e)[i].supersedes < Append(journal, e)[i].ref
               /\ Append(journal, e)[i].ref <= next
      BY <1>0, <2>2, <2>3, LinesAfterAppend
    <3>2. profile' \in 0..minted'
      BY <2>1, <2>2
    <3>3. rollbacks' \in Nat /\ store' \subseteq 1..minted'
          /\ supersedes' \in Nat
      BY <1>0, <2>1, <2>2 DEF LinesOK
    <3> QED
      BY <2>1, <2>2, <2>4, <3>1, <3>2, <3>3 DEF LinesOK
  <2>6. BindingOK'
    <3>1. Has(journal', next) /\ Last(journal', next) = e
      BY <1>0, <2>3, <2>4, AppendLast DEF LinesOK
    <3> QED
      BY <2>1, <2>2, <2>3, <3>1 DEF BindingOK
  <2>7. CleaningOK'
    BY <2>1 DEF CleaningOK
  <2>8. AllFound'
    <3> SUFFICES ASSUME NEW r \in store \ {profile}
                 PROVE  Found(Append(journal, e), store, profile, r)
      BY <2>1, <2>4 DEF AllFound
    <3>1. Found(journal, store, profile, r)
      BY <1>0, <2>1 DEF AllFound
    <3>2. ~ Has(journal, next)
      BY <1>0, <2>2, LastOld
    <3> QED
      BY <1>0, <2>3, <3>1, <3>2, FoundAfterAppend DEF Orphan, Retry, LinesOK
  <2> QED
    BY <2>5, <2>6, <2>7, <2>8 DEF StrayInv
<1>2. CASE BindSecret
  <2>1. /\ bind = "pending" /\ bind' = "secret" /\ store' = store \cup {minted}
        /\ UNCHANGED <<journal, unended, profile, minted, supersedes, cleaning, referenced,
                       cleanups, rollbacks>>
    BY <1>2 DEF BindSecret
  <2>2. LinesOK'
    <3>1. minted \in 1..minted
      BY <1>0, <2>1 DEF LinesOK, BindingOK
    <3> QED
      BY <1>0, <2>1, <3>1 DEF LinesOK
  <2>3. BindingOK'
    BY <1>0, <2>1 DEF BindingOK
  <2>4. CleaningOK'
    BY <1>0, <2>1 DEF CleaningOK, BindingOK
  <2>5. AllFound'
    <3> SUFFICES ASSUME NEW r \in store', r # profile
                 PROVE  Found(journal, store', profile, r)
      BY <2>1 DEF AllFound
    <3>1. CASE r = minted
      BY <1>0, <2>1, <3>1 DEF Found, Orphan, BindingOK, Record
    <3>2. CASE r # minted
      <4>1. Found(journal, store, profile, r)
        BY <1>0, <2>1, <3>2 DEF AllFound
      <4> QED
        BY <2>1, <4>1 DEF Found, Orphan, Retry
    <3> QED
      BY <3>1, <3>2
  <2> QED
    BY <2>2, <2>3, <2>4, <2>5 DEF StrayInv
<1>3. CASE BindProfile
  <2>1. /\ bind = "secret" /\ bind' = "profile" /\ profile' = minted
        /\ UNCHANGED <<journal, unended, store, minted, supersedes, cleaning, referenced,
                       cleanups, rollbacks>>
    BY <1>3 DEF BindProfile
  <2>2. LinesOK'
    <3>1. profile' \in 0..minted'
      BY <1>0, <2>1 DEF LinesOK
    <3> QED
      BY <1>0, <2>1, <3>1 DEF LinesOK
  <2>3. BindingOK'
    BY <1>0, <2>1 DEF BindingOK
  <2>4. CleaningOK'
    BY <1>0, <2>1 DEF CleaningOK, BindingOK
  <2>5. AllFound'
    <3> SUFFICES ASSUME NEW r \in store, r # minted, r # supersedes
                 PROVE  Found(journal, store, minted, r)
      BY <2>1 DEF AllFound
    <3>1. profile = supersedes /\ Last(journal, minted).state = "pending"
      BY <1>0, <2>1 DEF BindingOK, Record
    <3>2. Found(journal, store, profile, r)
      BY <1>0, <2>1, <3>1 DEF AllFound
    <3> QED
      BY <3>1, <3>2 DEF Found, Orphan, Retry
  <2> QED
    BY <2>2, <2>3, <2>4, <2>5 DEF StrayInv
<1>4. CASE BindCommitted
  <2> DEFINE e == Record(minted, supersedes, "committed")
  <2>1. /\ bind = "profile" /\ bind' = "idle"
        /\ AppendEntry(e) \/ AppendTorn(e)
        /\ UNCHANGED <<store, profile, minted, supersedes, cleaning, referenced, cleanups,
                       rollbacks>>
    BY <1>4 DEF BindCommitted
  <2>2. /\ profile = minted /\ minted \in Nat /\ supersedes \in Nat /\ supersedes < minted
        /\ minted \in store /\ cleaning = "idle"
        /\ Last(journal, minted).state = "pending"
    BY <1>0, <2>1 DEF LinesOK, BindingOK, Record
  <2>3. /\ e \in Lines /\ e.supersedes = supersedes /\ e.ref = minted
        /\ e.state = "committed"
    BY <2>2 DEF Record, Lines, States
  <2> HIDE DEF e
  <2>4. journal' = Append(journal, e)
    BY <2>1, <2>3, AppendIs
  <2>5. LinesOK'
    <3>1. /\ Append(journal, e) \in Seq(Lines)
          /\ \A i \in DOMAIN Append(journal, e) :
               /\ Append(journal, e)[i].supersedes < Append(journal, e)[i].ref
               /\ Append(journal, e)[i].ref <= minted
      BY <1>0, <2>2, <2>3, LinesAfterAppend
    <3> QED
      BY <1>0, <2>1, <2>4, <3>1 DEF LinesOK
  <2>6. BindingOK'
    BY <2>1 DEF BindingOK
  <2>7. CleaningOK'
    BY <2>1, <2>2 DEF CleaningOK
  <2>8. AllFound'
    <3> SUFFICES ASSUME NEW r \in store \ {profile}
                 PROVE  Found(Append(journal, e), store, profile, r)
      BY <2>1, <2>4 DEF AllFound
    <3>1. CASE r = supersedes
      <4>1. Has(Append(journal, e), minted) /\ Last(Append(journal, e), minted) = e
        BY <1>0, <2>3, AppendLast DEF LinesOK
      <4>2. Retry(Append(journal, e), store, profile, r, minted)
        BY <2>2, <2>3, <3>1, <4>1 DEF Retry
      <4> QED
        BY <4>2 DEF Found
    <3>2. CASE r # supersedes
      <4>1. Found(journal, store, profile, r)
        BY <1>0, <3>2 DEF AllFound
      <4>2. r # minted /\ ~ Retry(journal, store, profile, r, minted)
        BY <2>2 DEF Retry
      <4> QED
        BY <1>0, <2>3, <4>1, <4>2, FoundAfterAppend DEF LinesOK
    <3> QED
      BY <3>1, <3>2
  <2> QED
    BY <2>5, <2>6, <2>7, <2>8 DEF StrayInv
<1>5. CASE BindDies
  <2>1. /\ bind # "profile" /\ bind' = "idle"
        /\ UNCHANGED <<journal, unended, store, profile, minted, supersedes, cleaning,
                       referenced, cleanups, rollbacks>>
    BY <1>5 DEF BindDies, Alone
  <2>2. LinesOK' /\ BindingOK'
    BY <1>0, <2>1 DEF LinesOK, BindingOK
  <2>3. CleaningOK'
    <3>1. RetryableCleanups(profile)' = RetryableCleanups(profile)
      BY <2>1 DEF RetryableCleanups, Recorded, Latest
    <3>2. NextCleanup' = NextCleanup
      BY <2>1 DEF NextCleanup
    <3> QED
      BY <1>0, <2>1, <3>1, <3>2 DEF CleaningOK
  <2>4. AllFound'
    BY <1>0, <2>1 DEF AllFound
  <2> QED
    BY <2>2, <2>3, <2>4 DEF StrayInv
<1>6. CASE ReadReferenced
  <2>1. /\ bind = "idle" /\ cleaning' = "read" /\ referenced' = profile
        /\ UNCHANGED <<journal, unended, store, profile, bind, minted, supersedes, cleanups,
                       rollbacks>>
    BY <1>6 DEF ReadReferenced, Alone
  <2>2. LinesOK' /\ BindingOK' /\ CleaningOK'
    BY <1>0, <2>1 DEF LinesOK, BindingOK, CleaningOK
  <2>3. AllFound'
    BY <1>0, <2>1 DEF AllFound
  <2> QED
    BY <2>2, <2>3 DEF StrayInv
<1>7. CASE Reconcile
  <2>1. /\ cleaning = "read" /\ cleaning' \in {"cleaning", "idle"}
        /\ cleaning' = "cleaning" => cleanups' = RetryableCleanups(referenced)
        /\ UNCHANGED <<journal, unended, store, profile, bind, minted, supersedes, referenced,
                       rollbacks>>
    BY <1>7 DEF Reconcile
  <2>2. bind = "idle" /\ referenced = profile
    BY <1>0, <2>1 DEF BindingOK, CleaningOK
  <2>3. LinesOK' /\ BindingOK'
    BY <1>0, <2>1, <2>2 DEF LinesOK, BindingOK
  <2>4. CleaningOK'
    <3>1. \A r \in RetryableCleanups(profile) : r \in store /\ r # profile
      BY ReportsAre DEF Retry
    <3>2. RetryableCleanups(profile)' = RetryableCleanups(profile)
      BY <2>1 DEF RetryableCleanups, Recorded, Latest
    <3> QED
      BY <1>0, <2>1, <2>2, <3>1, <3>2 DEF CleaningOK, LinesOK
  <2>5. AllFound'
    BY <1>0, <2>1 DEF AllFound
  <2> QED
    BY <2>3, <2>4, <2>5 DEF StrayInv
<1>8. CASE DeleteSuperseded
  <2> DEFINE n == NextCleanup
  <2>1. /\ cleaning = "cleaning" /\ cleaning' = "deleted" /\ cleanups # {}
        /\ store' = store \ {n}
        /\ UNCHANGED <<journal, unended, profile, bind, minted, supersedes, referenced, cleanups,
                       rollbacks>>
    BY <1>8 DEF DeleteSuperseded
  <2>2. /\ bind = "idle" /\ referenced = profile /\ profile \notin cleanups
        /\ cleanups \subseteq 1..minted /\ cleanups \subseteq Nat
        /\ RetryableCleanups(profile) \subseteq cleanups
    BY <1>0, <2>1 DEF BindingOK, CleaningOK, LinesOK
  <2>3. n \in cleanups /\ n # profile
    <3>1. \E r \in cleanups : \A q \in cleanups : r <= q
      BY <2>1, <2>2, Least
    <3>2. NextCleanup \in cleanups
      BY <3>1 DEF NextCleanup
    <3> QED
      BY <2>2, <3>2
  <2>4. n' = n
    BY <2>1 DEF NextCleanup
  <2> HIDE DEF n
  <2>5. LinesOK' /\ BindingOK'
    BY <1>0, <2>1, <2>2 DEF LinesOK, BindingOK
  <2>6. CleaningOK'
    <3>1. ASSUME NEW r \in RetryableCleanups(profile)' PROVE r \in cleanups
      <4>1. \E q : Retry(journal', store', profile', r, q)
        <5>1. \A s : /\ s \in Recorded' <=> Has(journal, s)
                     /\ Latest(s)' = Last(journal, s)
          BY <2>1 DEF Recorded, Has, Latest, Last
        <5> QED
          BY <2>1, <3>1, <5>1 DEF RetryableCleanups, Retry
      <4>2. \E q : Retry(journal, store, profile, r, q)
        BY <2>1, <4>1 DEF Retry
      <4> QED
        BY <2>2, <4>2, ReportsAre
    <3>2. NextCleanup' \notin store'
      BY <2>1, <2>4 DEF n
    <3> QED
      BY <2>1, <2>2, <3>1, <3>2 DEF CleaningOK
  <2>7. AllFound'
    <3> SUFFICES ASSUME NEW r \in store, r # n, r # profile
                 PROVE  Found(journal, store', profile, r)
      BY <2>1 DEF AllFound
    <3>1. Found(journal, store, profile, r)
      BY <1>0, <2>2 DEF AllFound
    <3> QED
      BY <2>1, <2>3, <3>1 DEF Found, Orphan, Retry
  <2> QED
    BY <2>5, <2>6, <2>7 DEF StrayInv
<1>9. CASE RecordCleaned
  <2> DEFINE n == NextCleanup
             e == Record(n, 0, "cleaned")
  <2>1. /\ cleaning = "deleted"
        /\ \/ cleaning' = "cleaning" /\ cleanups' = cleanups \ {n}
           \/ cleaning' = "idle"
        /\ AppendEntry(e) \/ AppendTorn(e)
        /\ UNCHANGED <<store, profile, bind, minted, supersedes, referenced, rollbacks>>
    BY <1>9 DEF RecordCleaned
  <2>2. /\ bind = "idle" /\ referenced = profile /\ profile \notin cleanups
        /\ cleanups \subseteq 1..minted /\ cleanups \subseteq Nat /\ cleanups # {}
        /\ n \notin store /\ minted \in Nat
        /\ RetryableCleanups(profile) \subseteq cleanups
    BY <1>0, <2>1 DEF BindingOK, CleaningOK, LinesOK
  <2>3. n \in cleanups /\ \A r \in cleanups : n <= r
    <3>1. \E r \in cleanups : \A q \in cleanups : r <= q
      BY <2>2, Least
    <3> QED
      BY <3>1 DEF NextCleanup
  <2> HIDE DEF n
  <2>4. n \in Nat /\ n > 0 /\ n <= minted
    <3>1. n \in 1..minted
      BY <2>2, <2>3
    <3> QED
      BY <2>2, <3>1
  <2>5. e \in Lines /\ e.supersedes = 0 /\ e.ref = n /\ e.state = "cleaned"
    BY <2>4 DEF Record, Lines, States
  <2> HIDE DEF e
  <2>6. journal' = Append(journal, e)
    BY <2>1, <2>5, AppendIs
  <2>7. /\ Append(journal, e) \in Seq(Lines)
        /\ Has(Append(journal, e), n) /\ Last(Append(journal, e), n) = e
        /\ \A q : q # n =>
                /\ Has(Append(journal, e), q) <=> Has(journal, q)
                /\ Has(journal, q) => Last(Append(journal, e), q) = Last(journal, q)
    BY <1>0, <2>5, AppendLast DEF LinesOK
  <2>8. LinesOK'
    <3>1. \A i \in DOMAIN Append(journal, e) :
               /\ Append(journal, e)[i].supersedes < Append(journal, e)[i].ref
               /\ Append(journal, e)[i].ref <= minted
      <4>1. minted \in Nat /\ minted <= minted
        BY <1>0 DEF LinesOK
      <4> QED
        BY <1>0, <2>4, <2>5, <4>1, LinesAfterAppend
    <3> QED
      BY <1>0, <2>1, <2>6, <2>7, <3>1 DEF LinesOK
  <2>9. BindingOK'
    BY <2>1, <2>2 DEF BindingOK
  <2>10. CleaningOK'
    <3>1. ASSUME NEW r \in RetryableCleanups(profile)' PROVE r \in cleanups \ {n}
      <4>1. PICK q : Retry(journal', store, profile, r, q)
        <5>1. \A s : /\ s \in Recorded' <=> Has(journal', s)
                     /\ Latest(s)' = Last(journal', s)
          BY DEF Recorded, Has, Latest, Last
        <5> QED
          BY <2>1, <3>1, <5>1 DEF RetryableCleanups, Retry
      <4>2. q # n
        BY <2>5, <2>6, <2>7, <4>1 DEF Retry
      <4>3. Retry(journal, store, profile, r, q)
        BY <2>6, <2>7, <4>1, <4>2 DEF Retry
      <4>4. r \in cleanups
        BY <2>2, <4>3, ReportsAre
      <4> QED
        BY <2>2, <4>3, <4>4 DEF Retry
    <3> QED
      BY <2>1, <2>2, <3>1 DEF CleaningOK
  <2>11. AllFound'
    <3> SUFFICES ASSUME NEW r \in store, r # profile
                 PROVE  Found(Append(journal, e), store, profile, r)
      BY <2>1, <2>6 DEF AllFound
    <3>1. Found(journal, store, profile, r) /\ r # n
      BY <1>0, <2>2 DEF AllFound
    <3>2. ASSUME Retry(journal, store, profile, r, n) PROVE FALSE
      <4>1. r \in cleanups
        BY <2>2, <3>2, ReportsAre
      <4>2. r \in Nat /\ r < n
        BY <1>0, <3>2, LastOld DEF Retry
      <4> QED
        BY <2>3, <2>4, <4>1, <4>2
    <3> QED
      BY <1>0, <2>5, <3>1, <3>2, FoundAfterAppend DEF LinesOK
  <2> QED
    BY <2>8, <2>9, <2>10, <2>11 DEF StrayInv
<1>10. CASE CleanupEnds
  <2>1. /\ cleaning' = "idle"
        /\ UNCHANGED <<journal, unended, store, profile, bind, minted, supersedes, referenced,
                       rollbacks>>
    BY <1>10 DEF CleanupEnds
  <2>2. LinesOK' /\ BindingOK' /\ CleaningOK'
    BY <1>0, <2>1 DEF LinesOK, BindingOK, CleaningOK
  <2>3. AllFound'
    BY <1>0, <2>1 DEF AllFound
  <2> QED
    BY <2>2, <2>3 DEF StrayInv
<1>11. CASE Truncate
  <2>1. /\ cleaning = "idle" /\ bind = "idle" /\ journal' = <<>> /\ unended' = FALSE
        /\ OrphanedSecrets(profile) = {} /\ RetryableCleanups(profile) = {}
        /\ UNCHANGED <<store, profile, bind, minted, supersedes, cleaning, referenced,
                       cleanups, rollbacks>>
    BY <1>11 DEF Truncate
  <2>2. LinesOK'
    BY <1>0, <2>1 DEF LinesOK
  <2>3. BindingOK' /\ CleaningOK'
    BY <2>1 DEF BindingOK, CleaningOK
  <2>4. \A r \in store \ {profile} : FALSE
    BY <1>0, <2>1, ReportsAre DEF AllFound, Found
  <2>5. AllFound'
    BY <2>1, <2>4 DEF AllFound
  <2> QED
    BY <2>2, <2>3, <2>5 DEF StrayInv
<1>12. CASE RollBack
  BY <1>0, <1>12 DEF RollBack, Alone, LinesOK
<1>13. CASE UNCHANGED vars
  <2>1. UNCHANGED <<journal, unended, store, profile, bind, minted, supersedes, cleaning,
                    referenced, cleanups, rollbacks>>
    BY <1>13 DEF vars
  <2>2. LinesOK' /\ BindingOK' /\ AllFound'
    BY <1>0, <2>1 DEF LinesOK, BindingOK, AllFound
  <2>3. CleaningOK'
    <3>1. RetryableCleanups(profile)' = RetryableCleanups(profile)
      BY <2>1 DEF RetryableCleanups, Recorded, Latest
    <3>2. NextCleanup' = NextCleanup
      BY <2>1 DEF NextCleanup
    <3> QED
      BY <1>0, <2>1, <3>1, <3>2 DEF CleaningOK
  <2> QED
    BY <2>2, <2>3 DEF StrayInv
<1> QED
  BY <1>1, <1>2, <1>3, <1>4, <1>5, <1>6, <1>7, <1>8, <1>9, <1>10, <1>11, <1>12, <1>13 DEF Next

\* NoStraySecret: however often the process dies while it binds or cleans up, a secret in the
\* store that the profile does not name is reported by the next reconciliation that can read
\* the journal.  Each of the things `Alone' excludes does strand a secret.
THEOREM NothingIsStranded == Alone => (ProfilesSpec => []NoStraySecret)
<1> SUFFICES ASSUME Alone PROVE ProfilesSpec => []NoStraySecret
  OBVIOUS
<1> DEFINE Inv == subject = "journal" => KeepInv /\ (Readable => StrayInv)
<1>1. ProfilesInit => Inv
  <2> SUFFICES ASSUME Init PROVE KeepInv /\ StrayInv
    BY DEF ProfilesInit
  <2>0. KeepInv
    BY DEF Init, KeepInv, Spared, AgesOK, None
  <2>1. LinesOK
    BY DEF Init, LinesOK, None
  <2>2. BindingOK /\ CleaningOK /\ AllFound
    BY DEF Init, BindingOK, CleaningOK, AllFound
  <2> QED
    BY <2>0, <2>1, <2>2 DEF StrayInv
<1>2. Inv /\ [ProfilesNext]_all => Inv'
  <2> SUFFICES ASSUME Inv, [ProfilesNext]_all, subject' = "journal"
               PROVE  KeepInv' /\ (Readable' => StrayInv')
    OBVIOUS
  <2>1. subject = "journal" /\ [Next]_vars
    BY DEF ProfilesNext, OfJournal, OfShared, OfFile, all
  <2>2. KeepInv /\ AgesOK
    BY <2>1 DEF KeepInv
  <2>3. KeepInv'
    BY <2>1, <2>2, KeepStep
  <2>4. ASSUME Readable' PROVE StrayInv'
    <3>1. Readable
      BY <2>1, <2>2, <2>4, UnreadableStays
    <3> QED
      BY <2>1, <2>2, <2>4, <3>1, StrayStep
  <2> QED
    BY <2>3, <2>4
<1>3. Inv => NoStraySecret
  <2> SUFFICES ASSUME Readable => StrayInv, bind = "idle", Readable,
                      NEW r \in store \ {profile}
               PROVE  r \in OrphanedSecrets(profile) \cup RetryableCleanups(profile)
    BY DEF NoStraySecret, StrayDiscovered
  <2> QED
    BY ReportsAre DEF StrayInv, AllFound, Found
<1> HIDE DEF Inv
<1> QED
  BY <1>1, <1>2, <1>3, PTL DEF ProfilesSpec
=============================================================================
