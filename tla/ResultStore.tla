----------------------------- MODULE ResultStore -----------------------------
(***************************************************************************)
(* pr-results/src/store.rs: results kept within a byte budget, the oldest  *)
(* evicted first, and an honest answer for every handle ever given out.    *)
(* A result is its size and the scope epoch it was captured in; `evicted'  *)
(* and `too_large' are only ever searched, so they are sets.               *)
(***************************************************************************)
EXTENDS Integers, Sequences

CONSTANTS
    TotalBytes, SingleBytes,    \* Budget
    Sizes,                      \* the sizes results have
    MaxPuts, MaxScopes          \* bounds: results stored, scopes entered

ASSUME BudgetAssumption ==
    /\ TotalBytes \in Nat /\ SingleBytes \in Nat
    /\ Sizes \subseteq Nat
    /\ MaxPuts \in Nat /\ MaxScopes \in Nat

VARIABLES
    items,      \* retained results by handle
    order,      \* their handles, oldest first
    evicted,    \* handles of results that were stored and dropped
    too_large,  \* handles of results that were never stored
    used,       \* bytes retained
    next_id,
    scope       \* the caller's current scope epoch

vars == <<items, order, evicted, too_large, used, next_id, scope>>

Init ==
    /\ items = <<>>
    /\ order = <<>>
    /\ evicted = {}
    /\ too_large = {}
    /\ used = 0
    /\ next_id = 1
    /\ scope = 0

Drop(f, S) == [h \in DOMAIN f \ S |-> f[h]]

SumOf(f, n) ==
    LET sum[i \in 0..n] == IF i = 0 THEN 0 ELSE sum[i - 1] + f[i]
    IN  sum[n]

\* The bytes of the results S.  Handles are 1, 2, ...
Bytes(S) == SumOf([h \in 1..MaxPuts |-> IF h \in S THEN items[h].size ELSE 0], MaxPuts)

Oldest(k) == {order[i] : i \in 1..k}

\* Vec::retain: the handles that are not in S, in their order.
Retained(handles, S) ==
    LET kept[i \in 0..Len(handles)] ==
            IF i = 0 THEN <<>>
            ELSE IF handles[i] \in S THEN kept[i - 1] ELSE Append(kept[i - 1], handles[i])
    IN  kept[Len(handles)]

\* The while loop of `put': how many of the oldest results it removes.
EvictionsFor(size) ==
    LET Enough(k) == k = Len(order) \/ used - Bytes(Oldest(k)) + size <= TotalBytes
    IN  CHOOSE k \in 0..Len(order) : Enough(k) /\ \A j \in 0..(k - 1) : ~Enough(j)

\* The result is not stored, after k evictions.
Refuse(k) ==
    /\ items' = Drop(items, Oldest(k))
    /\ order' = SubSeq(order, k + 1, Len(order))
    /\ evicted' = evicted \cup Oldest(k)
    /\ used' = used - Bytes(Oldest(k))
    /\ too_large' = too_large \cup {next_id}
    /\ next_id' = next_id + 1
    /\ UNCHANGED scope

\* The result is stored, after k evictions.
Keep(k, size, epoch) ==
    /\ items' = [h \in (DOMAIN items \ Oldest(k)) \cup {next_id} |->
                   IF h = next_id THEN [size |-> size, epoch |-> epoch] ELSE items[h]]
    /\ order' = Append(SubSeq(order, k + 1, Len(order)), next_id)
    /\ evicted' = evicted \cup Oldest(k)
    /\ used' = used - Bytes(Oldest(k)) + size
    /\ next_id' = next_id + 1
    /\ UNCHANGED <<too_large, scope>>

\* ResultStore::put.  A reply may belong to a scope the caller has left.
Put(size, epoch) ==
    LET k == EvictionsFor(size) IN
    /\ next_id <= MaxPuts
    /\ IF size > SingleBytes THEN Refuse(0)
       ELSE IF used - Bytes(Oldest(k)) + size > TotalBytes THEN Refuse(k)
       ELSE Keep(k, size, epoch)

\* Bug: the bytes of what is dropped stay counted.
InvalidateScopeKeepsBytes ==
    LET doomed == {h \in DOMAIN items : items[h].epoch # scope} IN
    /\ doomed # {}
    /\ items' = Drop(items, doomed)
    /\ order' = Retained(order, doomed)
    /\ evicted' = evicted \cup doomed
    /\ UNCHANGED <<too_large, used, next_id, scope>>

\* ResultStore::invalidate_scope with the current scope.
InvalidateScope ==
    LET doomed == {h \in DOMAIN items : items[h].epoch # scope} IN
    /\ doomed # {}
    /\ items' = Drop(items, doomed)
    /\ order' = Retained(order, doomed)
    /\ evicted' = evicted \cup doomed
    /\ used' = used - Bytes(doomed)
    /\ UNCHANGED <<too_large, next_id, scope>>

\* The caller moves to another connection, database or identity.
EnterScope ==
    /\ scope < MaxScopes
    /\ scope' = scope + 1
    /\ UNCHANGED <<items, order, evicted, too_large, used, next_id>>

\* ResultStore::get in the current scope.
Get(h) ==
    IF h \in DOMAIN items
      THEN IF items[h].epoch # scope THEN "scope_expired" ELSE "ok"
    ELSE IF h \in evicted THEN "evicted"
    ELSE IF h \in too_large THEN "too_large"
    ELSE "unknown"

Next ==
    \/ \E size \in Sizes, epoch \in 0..scope : Put(size, epoch)
    \/ InvalidateScope
    \/ EnterScope

Spec == Init /\ [][Next]_vars

-----------------------------------------------------------------------------

Handles == 1..MaxPuts

TypeOK ==
    /\ DOMAIN items \subseteq Handles
    /\ \A h \in DOMAIN items : items[h] \in [size : Sizes, epoch : 0..MaxScopes]
    /\ order \in Seq(Handles)
    /\ evicted \subseteq Handles /\ too_large \subseteq Handles
    /\ used \in Nat
    /\ next_id \in 1..(MaxPuts + 1)
    /\ scope \in 0..MaxScopes

\* The running byte count that evictions are decided by is the sum of what is retained, and
\* never above the budget: through evictions, refusals and scope changes nothing drifts.
UsedIsExact ==
    used = Bytes(DOMAIN items) /\ used <= TotalBytes

\* UX-10: "not retained" and "never existed" are different answers.  A handle that `put' gave out
\* is never answered "unknown" again; one answered "evicted" or "too large" is answered so for
\* ever; until then it names the result it was given for; and `put' takes away no result it could
\* have kept beside the one it stored, going by the bytes that are really held.
AnswersAreFinal ==
    [][LET gone == evicted' \ evicted
           held == Bytes(DOMAIN items)
       IN
       /\ \A h \in Handles :
            /\ h < next_id' => Get(h)' # "unknown"
            /\ Get(h) \in {"evicted", "too_large"} => Get(h)' = Get(h)
            /\ h \in DOMAIN items \cap DOMAIN items' => items'[h] = items[h]
       /\ next_id \in DOMAIN items' =>
            \A h \in gone : held - Bytes({g \in gone : g < h}) + items'[next_id].size > TotalBytes]_vars
=============================================================================
