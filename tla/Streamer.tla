------------------------------ MODULE Streamer ------------------------------
(***************************************************************************)
(* The two decoders of pr-protocol on one wire: the `Decoder' of           *)
(* decoder.rs, which hands back whole values, and the `Streamer' of        *)
(* stream.rs, which walks a frame without holding it, followed by the      *)
(* `Reassembler' that makes values of its events again.                    *)
(*                                                                         *)
(* A step of the streamer that returns no event calls `step' again; here   *)
(* that is the next step, bytes in between or not.                         *)
(***************************************************************************)
EXTENDS Resp

CONSTANTS
    MaxFrame,       \* Budget::max_frame_bytes
    StreamAbove,    \* StreamBudget::stream_above
    MaxStreamed,    \* StreamBudget::max_streamed_bytes
    Alphabets,      \* sets of tokens: the peer sends from one of them
    MaxWire         \* bound: tokens sent

VARIABLES
    sent,           \* what the peer sent
    decoder,        \* the Decoder: its buffer, the values it gave, whether it failed
    streamer,       \* the Streamer: buffer, state, open aggregates, queued events
    reassembler     \* the Reassembler: open aggregates, the scalar in progress, values given

vars == <<sent, decoder, streamer, reassembler>>

Init ==
    /\ sent = <<>>
    /\ decoder = [buf |-> <<>>, values |-> <<>>, failed |-> FALSE]
    /\ streamer = [buf |-> <<>>, state |-> "value", remaining |-> 0, stack |-> <<>>,
                   queued |-> <<>>, streamed |-> 0, failed |-> FALSE]
    /\ reassembler = [stack |-> <<>>, kind |-> "none", data |-> <<>>, done |-> <<>>,
                      values |-> <<>>]

Parsed == ParseValue(decoder.buf, 1, 0)

\* The peer sends one more token, to the one and to the other.  The decoder of whole values is
\* asked after every token (asked later, it reads the same values from the same tokens); the
\* streamer is asked at any time.
Send(t) ==
    /\ Len(sent) < MaxWire
    /\ decoder.failed => ~streamer.failed
    /\ decoder.failed \/ Parsed.is = "incomplete"
    /\ \E A \in Alphabets : Range(sent) \cup {t} \subseteq A
    /\ sent' = Append(sent, t)
    /\ decoder' = [decoder EXCEPT !.buf = Append(@, t)]
    /\ streamer' = [streamer EXCEPT !.buf = Append(@, t)]
    /\ UNCHANGED reassembler

-----------------------------------------------------------------------------
(* The decoder of whole values. *)

\* A framing error or a limit ends the decoder; an incomplete value leaves it as it was.
Decode ==
    /\ ~decoder.failed
    /\ IF Len(decoder.buf) > MaxFrame \/ Parsed.is = "error"
       THEN decoder' = [decoder EXCEPT !.failed = TRUE]
       ELSE /\ Parsed.is = "ok"
            /\ decoder' = [decoder EXCEPT !.buf = SubSeq(@, Parsed.pos, Len(@)),
                                          !.values = Append(@, Parsed.v)]
    /\ UNCHANGED <<sent, streamer, reassembler>>

-----------------------------------------------------------------------------
(* The streamer. *)

Event(is, v) == [is |-> is, v |-> v]

\* A value is finished: the aggregates it completes are closed with it.
RECURSIVE CloseCompleted(_, _)
CloseCompleted(stack, queued) ==
    IF stack = <<>> THEN [stack |-> stack, queued |-> Append(queued, Event("frame end", <<>>))]
    ELSE IF Last(stack).remaining = Open THEN [stack |-> stack, queued |-> queued]
    ELSE IF Last(stack).remaining > 1
    THEN [stack |-> [stack EXCEPT ![Len(stack)].remaining = @ - 1], queued |-> queued]
    ELSE CloseCompleted(Front(stack), Append(queued, Event("aggregate end", <<>>)))

\* The streamer with its first n tokens consumed.
Advanced(n) == [streamer EXCEPT !.buf = SubSeq(@, n + 1, Len(@))]

\* Bug: a streamed aggregate is counted down like one of known length.
FinishValueCounting(s, e) ==
    LET counted(top) == [top EXCEPT !.remaining = IF @ = Open THEN 1 ELSE @]
        closed == CloseCompleted([i \in DOMAIN s.stack |-> counted(s.stack[i])], Append(s.queued, e))
    IN  [s EXCEPT !.state = "value", !.stack = closed.stack, !.queued = closed.queued]

\* The streamer s after event e, with which a value is finished.
FinishValue(s, e) ==
    LET closed == CloseCompleted(s.stack, Append(s.queued, e))
    IN  [s EXCEPT !.state = "value", !.stack = closed.stack, !.queued = closed.queued]

Fail == [streamer EXCEPT !.failed = TRUE]
Queue(s, e) == [s EXCEPT !.queued = Append(@, e)]

First == streamer.buf[1]

\* More of a payload, as much of it as has arrived, or the CRLF that closes it.
ContinuePayload ==
    /\ streamer.state \in {"payload", "chunk"}
    /\ streamer' =
         IF streamer.remaining = 0
         THEN IF First # CrLf THEN Fail
              ELSE IF streamer.state = "chunk" THEN [Advanced(1) EXCEPT !.state = "header"]
              ELSE FinishValue(Advanced(1), Event("scalar end", <<>>))
         ELSE LET take == IF streamer.remaining < Len(streamer.buf)
                          THEN streamer.remaining ELSE Len(streamer.buf)
              IN  Queue([Advanced(take) EXCEPT !.remaining = @ - take],
                        Event("scalar chunk", SubSeq(streamer.buf, 1, take)))

\* The header of a chunk of a streamed string.
ChunkHeader ==
    /\ streamer.state = "header"
    /\ streamer' =
         LET total == streamer.streamed + First.n
         IN  IF First.tag # ";" \/ First.n < 0 \/ total > MaxStreamed THEN Fail
             ELSE IF First.n = 0
             THEN FinishValue([Advanced(1) EXCEPT !.streamed = total], Event("scalar end", <<>>))
             ELSE [Advanced(1) EXCEPT !.streamed = total, !.state = "chunk",
                                      !.remaining = First.n]

\* A value the other decoder can take whole, if all of it is there.
Whole ==
    LET whole == ParseValue(streamer.buf, 1, Len(streamer.stack))
    IN  /\ whole.is # "incomplete"
        /\ streamer' = IF whole.is = "error" THEN Fail
                       ELSE FinishValue(Advanced(whole.pos - 1), Event("whole", whole.v))

InStreamed == streamer.stack # <<>> /\ Last(streamer.stack).remaining = Open

\* The `.' that ends a streamed aggregate.
Terminator ==
    /\ streamer.state = "value" /\ First.tag = "." /\ InStreamed
    /\ streamer' = FinishValue([Advanced(1) EXCEPT !.stack = Front(@)],
                               Event("aggregate end", <<>>))

\* The header of an aggregate.
OpenAggregate ==
    LET tag == First.tag  n == First.n
        begin == Event("aggregate begin", tag)
        push(left) == [Advanced(1) EXCEPT !.stack = Append(@, [kind |-> tag, remaining |-> left])]
    IN  /\ streamer.state = "value" /\ tag \in Listing \cup {"|"}
        /\ streamer' =
             IF Len(streamer.stack) >= MaxDepth THEN Fail
             ELSE IF n = Open THEN IF tag = "|" THEN Fail ELSE Queue(push(Open), begin)
             ELSE IF n = Null
             THEN IF tag = "|" THEN Fail
                  ELSE FinishValue(Advanced(1), Event("whole", <<"null", "*">>))
             ELSE IF n < 0 \/ n > MaxElements THEN Fail
             ELSE IF Children(tag, n) = 0
             THEN FinishValue(Queue(Advanced(1), begin), Event("aggregate end", <<>>))
             ELSE Queue(push(Children(tag, n)), begin)

\* The header of a text: taken whole when it is small, streamed otherwise.
OpenScalar ==
    LET tag == First.tag  n == First.n
        skip == IF tag = "=" THEN 2 ELSE 1
        begin(left) == Queue([Advanced(skip) EXCEPT !.state = "payload", !.remaining = left],
                             Event("scalar begin", tag))
    IN  /\ streamer.state = "value" /\ tag \in Text
        /\ \/ /\ tag = "$" /\ n = Open
              /\ streamer' = Queue([Advanced(1) EXCEPT !.state = "header", !.streamed = 0],
                                   Event("scalar begin", "$"))
           \/ /\ n = Null
              /\ streamer' = FinishValue(Advanced(1), Event("whole", <<"null", "$">>))
           \/ /\ \/ n = Open /\ tag # "$"
                 \/ n > MaxStreamed
              /\ streamer' = Fail
           \/ n \in 0..MaxStreamed /\ n < StreamAbove /\ Whole
           \/ /\ n \in 0..MaxStreamed /\ n >= StreamAbove
              /\ tag = "=" /\ n > 0 => Len(streamer.buf) > 1
              /\ streamer' = IF tag # "=" THEN begin(n)
                             ELSE IF n = 0 THEN Fail
                             ELSE IF streamer.buf[2] # Prefix THEN Fail
                             ELSE begin(n - 1)

\* A value of one line, or a byte no value begins with.
OneLine ==
    /\ streamer.state = "value" /\ First.tag \notin Listing \cup Text \cup {"|"}
    /\ ~(First.tag = "." /\ InStreamed)
    /\ Whole

\* What `step' does with the bytes, no event being queued.
Walk ==
    /\ ~streamer.failed /\ streamer.queued = <<>> /\ streamer.buf # <<>>
    /\ \/ ContinuePayload
       \/ ChunkHeader
       \/ Terminator
       \/ OpenAggregate
       \/ OpenScalar
       \/ OneLine
    /\ UNCHANGED <<sent, decoder, reassembler>>

-----------------------------------------------------------------------------
(* The reassembler. *)

\* The reassembler r with a finished value: a child of what is open, or the frame.
Place(r, v) ==
    IF r.stack = <<>> THEN [r EXCEPT !.done = <<v>>]
    ELSE [r EXCEPT !.stack[Len(r.stack)].items = Append(@, v)]

\* An odd number of entries in a map is an error of the reassembler.
OddMap(top) == top.kind = "%" /\ Len(top.items) % 2 = 1

\* One event, returned by `step' and pushed.
Push ==
    /\ ~streamer.failed /\ streamer.queued # <<>>
    /\ LET e == Head(streamer.queued)
           r == reassembler
           top == Last(r.stack)
           odd == e.is = "aggregate end" /\ OddMap(top)
       IN  /\ streamer' = [streamer EXCEPT !.queued = Tail(@), !.failed = odd]
           /\ reassembler' =
                IF odd THEN r ELSE
                CASE e.is = "whole" -> Place(r, e.v)
                  [] e.is = "scalar begin" -> [r EXCEPT !.kind = e.v, !.data = <<>>]
                  [] e.is = "scalar chunk" -> [r EXCEPT !.data = @ \o e.v]
                  [] e.is = "scalar end" ->
                        Place([r EXCEPT !.kind = "none", !.data = <<>>], <<r.kind, r.data>>)
                  [] e.is = "aggregate begin" ->
                        [r EXCEPT !.stack = Append(@, [kind |-> e.v, items |-> <<>>])]
                  [] e.is = "aggregate end" ->
                        Place([r EXCEPT !.stack = Front(@)], Aggregate(top.kind, top.items))
                  [] e.is = "frame end" ->
                        [r EXCEPT !.done = <<>>, !.values = @ \o r.done]
    /\ UNCHANGED <<sent, decoder>>

-----------------------------------------------------------------------------

Next == (\E t \in UNION Alphabets : Send(t)) \/ Decode \/ Walk \/ Push

Spec == Init /\ [][Next]_vars

-----------------------------------------------------------------------------
(* Properties. *)

\* The streamer answers Step::Incomplete: it has no event, and waits for the rest of a value it
\* takes whole, for the prefix of a verbatim string, or for anything.
StreamerWaits ==
    /\ streamer.queued = <<>>
    /\ \/ streamer.buf = <<>>
       \/ /\ streamer.state = "value" /\ First.tag \in Text /\ First.n \in 0..MaxStreamed
          /\ IF First.n < StreamAbove
             THEN ParseValue(streamer.buf, 1, Len(streamer.stack)).is = "incomplete"
             ELSE First.tag = "=" /\ First.n > 0 /\ Len(streamer.buf) = 1

\* "One semantics, not two" (stream.rs): however the bytes are cut, the values streamed and
\* put together again are those decoded whole, in the same order.  When neither can go on
\* without more bytes, both have given the same values, and what fails one fails the other:
\* the streamer may see the fault in a frame before the frame is whole, and then the decoder
\* never makes a value of it.
SameValues ==
    /\ IsPrefix(decoder.values, reassembler.values) \/ IsPrefix(reassembler.values, decoder.values)
    /\ streamer.failed => IsPrefix(decoder.values, reassembler.values)
    /\ ((streamer.failed \/ StreamerWaits) /\ (decoder.failed \/ Parsed.is = "incomplete")) =>
         /\ decoder.values = reassembler.values
         /\ decoder.failed => streamer.failed

\* `--output resp' is a normalised form of what arrived: decoding what EncodeResp3 writes gives
\* back the same value, whole, with only its nulls spelled anew.
ReencodedIsTheSame ==
    \A i \in DOMAIN decoder.values :
        LET v == decoder.values[i]
            again == EncodeResp3(v)
        IN  ParseValue(again, 1, 0) = Ok(Normal(v), Len(again) + 1)
=============================================================================
