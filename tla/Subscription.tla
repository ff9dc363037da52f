---------------------------- MODULE Subscription ----------------------------
(***************************************************************************)
(* pr-results/src/subscription.rs: the record of a subscription, bounded   *)
(* by a number of messages and by bytes, that counts what it dropped.      *)
(* A message is its place in the order of arrival and its weight.          *)
(***************************************************************************)
EXTENDS Integers, Sequences

CONSTANTS
    MaxEntries, MaxBytes,   \* the two limits
    Weights,                \* the weights messages have
    MaxMessages             \* bound: messages that arrive

VARIABLES
    entries,    \* retained messages, oldest first
    bytes,      \* their weight, as the code keeps it
    received,   \* messages that arrived
    dropped,    \* how many were dropped, by reason
    arrived     \* history: every message that fits the buffer at all, in order

vars == <<entries, bytes, received, dropped, arrived>>

\* with_limits raises a limit of zero to one.
Limits ==
    /\ MaxEntries \in Nat \ {0} /\ MaxBytes \in Nat \ {0}
    /\ Weights \subseteq Nat

Init ==
    /\ entries = <<>>
    /\ bytes = 0
    /\ received = 0
    /\ dropped = [by_count |-> 0, by_bytes |-> 0, oversized |-> 0]
    /\ arrived = <<>>

\* The weight of a sequence of messages.
Weight(s) ==
    LET f == [i \in DOMAIN s |-> s[i].weight]
        sum[i \in 0..Len(s)] == IF i = 0 THEN 0 ELSE sum[i - 1] + f[i]
    IN  sum[Len(s)]

SaturatingSub(a, b) == IF a >= b THEN a - b ELSE 0

\* The bytes counted after each number of calls of Subscription::evict.
BytesAfter ==
    LET left[i \in 0..Len(entries)] ==
            IF i = 0 THEN bytes ELSE SaturatingSub(left[i - 1], entries[i].weight)
    IN  left

\* Subscription::push of a message heavier than the whole buffer.
Oversized(w) ==
    /\ w > MaxBytes
    /\ received' = received + 1
    /\ dropped' = [dropped EXCEPT !.oversized = @ + 1]
    /\ UNCHANGED <<entries, bytes, arrived>>

\* The first loop of `push': the oldest go until there is room for one more.
EvictedByCount ==
    CHOOSE k \in 0..Len(entries) :
        /\ Len(entries) - k + 1 <= MaxEntries
        /\ \A j \in 0..(k - 1) : Len(entries) - j + 1 > MaxEntries

\* The second loop, after c evictions: more go until the new weight fits or nothing is left.
EvictedByBytes(c, w) ==
    LET Enough(k) == k = Len(entries) \/ BytesAfter[k] + w <= MaxBytes
    IN  (CHOOSE k \in c..Len(entries) : Enough(k) /\ \A j \in c..(k - 1) : ~Enough(j)) - c

\* Bug: the newest retained message is evicted instead of the oldest.
RetainEvictingNewest(w) ==
    LET m == [at |-> received + 1, weight |-> w]
        c == EvictedByCount
        b == EvictedByBytes(c, w)
    IN
    /\ w <= MaxBytes
    /\ received' = received + 1
    /\ dropped' = [dropped EXCEPT !.by_count = @ + c, !.by_bytes = @ + b]
    /\ bytes' = BytesAfter[c + b] + w
    /\ entries' = Append(SubSeq(entries, 1, Len(entries) - (c + b)), m)
    /\ arrived' = Append(arrived, m)

\* Subscription::push of any other message: evict for the count, then for the bytes.
Retain(w) ==
    LET m == [at |-> received + 1, weight |-> w]
        c == EvictedByCount
        b == EvictedByBytes(c, w)
    IN
    /\ w <= MaxBytes
    /\ received' = received + 1
    /\ dropped' = [dropped EXCEPT !.by_count = @ + c, !.by_bytes = @ + b]
    /\ bytes' = BytesAfter[c + b] + w
    /\ entries' = Append(SubSeq(entries, c + b + 1, Len(entries)), m)
    /\ arrived' = Append(arrived, m)

Push(w) == received < MaxMessages /\ (Oversized(w) \/ Retain(w))

Next == \E w \in Weights : Push(w)

Spec == Init /\ [][Next]_vars

-----------------------------------------------------------------------------

\* Dropped::total.
Total == dropped.by_count + dropped.by_bytes + dropped.oversized

\* Subscription::is_complete.
IsComplete == Total = 0

\* §24.3, §25.4: the record has no hole and keeps all it can: it is the longest run of the
\* latest messages within both limits, those no buffer could hold left out; its running weight
\* is the real one; and what is not in it is counted as dropped, so that "am I looking at all
\* of it?" is answered rightly.
RecordHasNoHole ==
    LET Latest(k) == SubSeq(arrived, Len(arrived) - k + 1, Len(arrived))
        Fits(k) == k <= MaxEntries /\ Weight(Latest(k)) <= MaxBytes
    IN  /\ entries = Latest(CHOOSE k \in 0..Len(arrived) :
                               Fits(k) /\ \A j \in (k + 1)..Len(arrived) : ~Fits(j))
        /\ bytes = Weight(entries)
        /\ received = Len(entries) + Total
        /\ IsComplete <=> Len(entries) = received
=============================================================================
