------------------------------- MODULE MCAssist -------------------------------
(***************************************************************************)
(* Assisted editing: the broker of completions, the line buffer, the       *)
(* discovery of keys and the caches of names.  They share no state, so     *)
(* every state of theirs together is made of states each reaches alone:    *)
(* `subject' is the one a behaviour is about, the others stay as they      *)
(* began.                                                                  *)
(***************************************************************************)
EXTENDS Broker

VARIABLE subject

CONSTANTS MaxLen, MaxRevision, Inserts, Offers
VARIABLES buf, offer

CONSTANTS Pages, Fickle, Inputs, MaxScans, MaxDuration, MinGap, MaxBytes, Cooldown, MaxFlying,
          MaxRuns, MaxTime
VARIABLES run, fetching, until, now, runs, refusedAt

CONSTANTS Names, Cost, Origins, Slot, FirstSlots, MaxItems, CacheBytes, MaxEvicted
VARIABLES keys, fields

\* Texts, names and patterns are sequences of bytes; a cache holds at least one name.
ASSUME AssistAssumption ==
    /\ Inserts \subseteq Seq(STRING) /\ Offers \subseteq Seq(STRING)
    /\ Pages \in Seq(SUBSET Seq(STRING)) /\ Pages # <<>>
    /\ Fickle \subseteq Seq(STRING) /\ Inputs \subseteq Seq(STRING)
    /\ Cost \in [Names -> Nat] /\ Slot \in Nat /\ FirstSlots \in Nat \ {0}
    /\ MaxItems \in Nat \ {0} /\ CacheBytes \in Nat

\* A text is a str: it never begins inside a character.
ASSUME TextsAssumption == \A s \in Inserts \cup Offers : s # <<>> => s[1] # "t"

L == INSTANCE LineBuffer
D == INSTANCE Discovery WITH flying <- fetching
O == INSTANCE Observations WITH MaxBytes <- CacheBytes

-----------------------------------------------------------------------------
(* Inputs. *)

CONSTANTS row1, row2

\* Answers of a lookup: two candidates in both orders, one alone, none.
Lists == {<<>>, <<row2>>, <<row1, row2>>, <<row2, row1>>}

\* Texts: a character of two bytes, a combining mark, an ASCII letter and a joiner.
Wide == {<<"h", "t">>}
Mark == {<<"m">>}
Joined == {<<"a">>, <<"z">>}

\* Three pages of keys, one of them empty, and what the user looks for.
KeyPages == << {<<"a", "*">>}, {}, {<<"a", "b">>, <<"\\">>} >>
Passing == {<<"a", "*">>, <<"b">>}
Typed == {<<>>, <<"a", "*">>, <<"\\">>}

\* Names that weigh little, much, and more than a cache holds.
NameCost == [n \in Names |-> CASE n = "s" -> 1 [] n = "m" -> 5 [] n = "l" -> 11]

-----------------------------------------------------------------------------

bufferVars == <<buf, offer>>
discoveryVars == <<run, fetching, until, now, runs, refusedAt>>
cacheVars == <<keys, fields>>
all == <<subject, vars, bufferVars, discoveryVars, cacheVars>>

\* A step of each.
OfBroker(A) == subject = "broker" /\ A /\ UNCHANGED <<subject, bufferVars, discoveryVars, cacheVars>>
OfBuffer(A) == subject = "buffer" /\ A /\ UNCHANGED <<subject, vars, discoveryVars, cacheVars>>
OfDiscovery(A) == subject = "discovery" /\ A /\ UNCHANGED <<subject, vars, bufferVars, cacheVars>>
OfCaches(A) == subject = "caches" /\ A /\ UNCHANGED <<subject, vars, bufferVars, discoveryVars>>

AssistNext ==
    OfBroker(Next) \/ OfBuffer(L!Next) \/ OfDiscovery(D!Next) \/ OfCaches(O!Next)

AssistInit ==
    /\ subject \in {"broker", "buffer", "discovery", "caches"}
    /\ Init /\ L!Init /\ D!Init /\ O!Init

AssistSpec ==
    /\ AssistInit
    /\ [][AssistNext]_all
    /\ WF_all(OfBroker(asked # current /\ Issue))
    /\ WF_all(OfBroker(\E r \in flying : r.seq = issued /\ Answer(r)))

-----------------------------------------------------------------------------

\* "nothing panics": see LineBuffer.
NoPanic == L!NoPanic

\* A late edit is refused, never misplaced: see LineBuffer.
StaleNeverLands == L!StaleNeverLands

\* Undo and redo lead to the very texts that were there: see LineBuffer.
UndoIsExact == L!UndoIsExact

\* A run reported as exhausted lists every key asked for: see Discovery.
ConclusiveMeansWalked == D!ConclusiveMeansWalked

\* Both limits hold of the names kept, and of the slots as far as the code sees: see Observations.
NamesWithinBudget == O!NamesWithinBudget

\* The byte count is of the names that are there: see Observations.
BytesAreHeld == O!BytesAreHeld
=============================================================================
