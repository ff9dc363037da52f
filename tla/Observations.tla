----------------------------- MODULE Observations -----------------------------
(***************************************************************************)
(* The bounded caches of names that completion offers:                     *)
(* pr-intelligence/src/scope.rs, ObservationStore, for keys, and           *)
(* pr-intelligence/src/working_set.rs, BoundedNames, for fields.           *)
(*                                                                         *)
(* A name stands for a name with its parent key; Cost is what it and its   *)
(* scope weigh.  The memory of a cache is its names and the slots of its   *)
(* vector, used or not.                                                    *)
(***************************************************************************)
EXTENDS Integers, Sequences, FiniteSetsExt, SequencesExt

CONSTANTS
    Names, Cost,            \* names, and Cost \in [Names -> Nat]
    Scopes, Origins,
    Slot, FirstSlots,       \* bytes of a slot of the vector; the slots it begins with
    MaxItems, MaxBytes,     \* the limits of a cache
    MaxEvicted              \* bound: names dropped

VARIABLES
    keys,       \* the ObservationStore
    fields      \* the BoundedNames

vars == <<keys, fields>>

Empty == [items |-> <<>>, bytes |-> 0, capacity |-> 0, evicted |-> 0]

Init == keys = Empty /\ fields = Empty

\* Vec::push: a full vector doubles.
Grown(s) == IF Len(s.items) < s.capacity THEN s.capacity
            ELSE IF s.capacity = 0 THEN FirstSlots ELSE 2 * s.capacity

\* bytes(): the names and every slot reserved.
Bytes(s) == s.bytes + s.capacity * Slot

Weight(items) ==
    LET sum[n \in 0..Len(items)] == IF n = 0 THEN 0 ELSE sum[n - 1] + items[n].cost
    IN  sum[Len(items)]

\* Bug: only the count is looked at.
EvictionsByCount(s, cost) == IF Len(s.items) + 1 > MaxItems THEN 1 ELSE 0

\* The loop of record and insert: how many of the oldest go.
Evictions(s, cost) ==
    LET Left(k) == SubSeq(s.items, k + 1, Len(s.items))
        Enough(k) == /\ Len(s.items) - k + 1 <= MaxItems
                     /\ Bytes(s) - Weight(SubSeq(s.items, 1, k)) + cost <= MaxBytes
    IN  Min({k \in 0..Len(s.items) : Left(k) = <<>> \/ Enough(k)})

\* The rest of record and insert: the oldest go, the new one is added.
Admitted(s, o) ==
    LET k == Evictions(s, o.cost) IN
    [items |-> Append(SubSeq(s.items, k + 1, Len(s.items)), o),
     bytes |-> s.bytes - Weight(SubSeq(s.items, 1, k)) + o.cost,
     capacity |-> Grown([s EXCEPT !.items = SubSeq(@, k + 1, Len(@))]),
     evicted |-> s.evicted + k]

\* record: a name known in this scope changes its origin; one too long is refused.
Record(name, scope, origin) ==
    LET o == [name |-> name, scope |-> scope, origin |-> origin, cost |-> Cost[name]]
        known == {i \in DOMAIN keys.items : keys.items[i].name = name /\ keys.items[i].scope = scope}
    IN  /\ keys' = IF known # {}
                     THEN [keys EXCEPT !.items[Min(known)].origin = origin]
                   ELSE IF o.cost > MaxBytes THEN [keys EXCEPT !.evicted = @ + 1]
                   ELSE Admitted(keys, o)
        /\ UNCHANGED fields

\* BoundedNames::insert: the slot is part of the cost, and nothing is looked up.
Insert(name) ==
    LET o == [name |-> name, cost |-> Cost[name] + Slot] IN
    /\ fields' = IF o.cost > MaxBytes THEN fields ELSE Admitted(fields, o)
    /\ UNCHANGED keys

\* Vec::retain.
Retained(items, keep) ==
    LET f[n \in 0..Len(items)] ==
          IF n = 0 THEN <<>>
          ELSE IF items[n].scope = keep THEN Append(f[n - 1], items[n]) ELSE f[n - 1]
    IN  f[Len(items)]

\* invalidate_except: the byte count is left as it was.
InvalidateExcept(keep) ==
    /\ keys' = [keys EXCEPT !.items = Retained(@, keep)]
    /\ UNCHANGED fields

\* clear: the byte count is left as it was.
Clear ==
    /\ keys' = [keys EXCEPT !.items = <<>>]
    /\ UNCHANGED fields

Next ==
    /\ keys.evicted + fields.evicted < MaxEvicted /\ keys.bytes <= 2 * MaxBytes
    /\ \/ \E name \in Names, scope \in Scopes, origin \in Origins : Record(name, scope, origin)
       \/ \E name \in Names : Insert(name)
       \/ \E scope \in Scopes : InvalidateExcept(scope)
       \/ Clear

Spec == Init /\ [][Next]_vars

-----------------------------------------------------------------------------

\* The last slots were added for the last name: but for them the limit holds.
Doubled(s) ==
    LET half == s.capacity \div 2
    IN  Len(s.items) <= half + 1 /\ Bytes(s) - half * Slot <= MaxBytes

\* "5,000 names or 2 MiB, whichever first": both limits hold of the names kept, with the
\* oldest gone first, although the running byte count is not their sum; and bytes(), the slots
\* included, is within the limit, unless the vector doubled for the last name or all others had
\* to go for it.
NamesWithinBudget ==
    \A s \in {keys, fields} :
        /\ Len(s.items) <= MaxItems /\ Weight(s.items) <= MaxBytes
        /\ Bytes(s) <= MaxBytes \/ Doubled(s) \/ Len(s.items) <= 1

\* "evicting oldest-first until both limits hold", of bytes() as the tests ask for it.  Not so:
\* the slots a full vector is about to add are not looked at, nor is a cache that is empty.
BytesWithinBudget == \A s \in {keys, fields} : Bytes(s) <= MaxBytes

\* "Bytes currently held, including the container's own overhead": the count is of the names
\* that are there.
BytesAreHeld == keys.bytes = Weight(keys.items)
=============================================================================
