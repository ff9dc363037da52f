-------------------------------- MODULE Resp --------------------------------
(***************************************************************************)
(* RESP values and the wire: `parse_value' of pr-protocol/src/decoder.rs,  *)
(* `encode_resp3' of pr-application/src/output.rs.                         *)
(*                                                                         *)
(* The wire is a sequence of tokens.  A header line with its CRLF is one   *)
(* token [tag, n]: a line that is not all there is not there, which is     *)
(* what `line' makes of it.  A payload is a run of any tokens, for a bulk  *)
(* string may hold what looks like a header, and lengths count tokens;     *)
(* the CRLF that closes a payload is the token CrLf, and the `xxx:' of a   *)
(* verbatim string the token Prefix.  All values of one line (simple       *)
(* strings, errors, numbers, booleans) are the tag ":".  A value is        *)
(* <<type, contents>>.                                                     *)
(***************************************************************************)
EXTENDS Integers, Sequences, SequencesExt

CONSTANTS
    MaxDepth,       \* Budget::max_depth
    MaxElements,    \* Budget::max_elements
    MaxBulk         \* Budget::max_bulk_bytes

Token(tag, n) == [tag |-> tag, n |-> n]
CrLf == Token("crlf", 0)
Prefix == Token("xxx:", 0)

\* Header contents that are not a length: `?', and the null forms.
Open == -2
Null == -1

Listing == {"*", "~", ">", "%"}
Text == {"$", "!", "="}

-----------------------------------------------------------------------------
(* What a parse of a buffer from a position yields. *)

Ok(v, pos) == [is |-> "ok", v |-> v, pos |-> pos]
Incomplete == [is |-> "incomplete", v |-> <<>>, pos |-> 0]
Error == [is |-> "error", v |-> <<>>, pos |-> 0]

\* The entries of a map as pairs, in order.
Pairs(items) == [i \in 1..(Len(items) \div 2) |-> <<items[2 * i - 1], items[2 * i]>>]

\* The value of an aggregate of these children; an attribute decorates its last.
Aggregate(tag, items) ==
    CASE tag = "%" -> <<"%", Pairs(items)>>
      [] tag = "|" -> <<"|", <<Pairs(Front(items)), Last(items)>>>>
      [] OTHER -> <<tag, items>>

\* How many children a header of n announces.
Children(tag, n) == CASE tag = "%" -> 2 * n [] tag = "|" -> 2 * n + 1 [] OTHER -> n

\* The text of a scalar: the prefix of a verbatim string is checked and not part of it.
Scalar(tag, data) == <<tag, IF tag = "=" THEN Tail(data) ELSE data>>

\* The payload of n tokens from pos and its CRLF.
ParseBulk(b, pos, tag, n) ==
    IF pos + n > Len(b) THEN Incomplete
    ELSE LET data == SubSeq(b, pos, pos + n - 1)
         IN  IF \/ b[pos + n] # CrLf
                \/ tag = "=" /\ (n = 0 \/ data[1] # Prefix)
             THEN Error
             ELSE Ok(Scalar(tag, data), pos + n + 1)

\* The chunks of a streamed string, `out' being what came before them.
RECURSIVE ParseChunks(_, _, _)
ParseChunks(b, pos, out) ==
    IF pos > Len(b) THEN Incomplete
    ELSE LET t == b[pos]
         IN  IF t.tag # ";" \/ t.n < 0 \/ t.n > MaxBulk THEN Error
             ELSE IF t.n = 0 THEN Ok(<<"$", out>>, pos + 1)
             ELSE IF Len(out) + t.n > MaxBulk THEN Error
             ELSE LET chunk == ParseBulk(b, pos + 1, "$", t.n)
                  IN  IF chunk.is = "ok" THEN ParseChunks(b, chunk.pos, out \o chunk.v[2])
                      ELSE chunk

RECURSIVE ParseValue(_, _, _), ParseItems(_, _, _, _, _), ParseOpen(_, _, _, _, _)

\* `n' more children, after `items'.
ParseItems(b, pos, depth, n, items) ==
    IF n = 0 THEN Ok(items, pos)
    ELSE LET item == ParseValue(b, pos, depth)
         IN  IF item.is = "ok" THEN ParseItems(b, item.pos, depth, n - 1, Append(items, item.v))
             ELSE item

\* Children up to the `.' that ends a streamed aggregate; a map takes them in twos.
ParseOpen(b, pos, depth, tag, items) ==
    IF pos > Len(b) THEN Incomplete
    ELSE IF b[pos].tag = "." THEN Ok(items, pos + 1)
    ELSE LET width == Children(tag, 1)
             entry == ParseItems(b, pos, depth, width, <<>>)
         IN  IF entry.is # "ok" THEN entry
             ELSE IF Len(items) + width > Children(tag, MaxElements) THEN Error
             ELSE ParseOpen(b, entry.pos, depth, tag, items \o entry.v)

\* One value from pos: nothing is consumed unless all of it is there.
ParseValue(b, pos, depth) ==
    IF depth >= MaxDepth THEN Error
    ELSE IF pos > Len(b) THEN Incomplete
    ELSE
    LET t == b[pos]
        fits == 0 <= t.n /\ t.n <= IF t.tag \in Text THEN MaxBulk ELSE MaxElements
        open == t.tag \in Listing /\ t.n = Open
        items == IF open
                 THEN ParseOpen(b, pos + 1, depth + 1, t.tag, <<>>)
                 ELSE ParseItems(b, pos + 1, depth + 1, Children(t.tag, t.n), <<>>)
    IN  CASE t.tag = ":" -> Ok(<<":", t.n>>, pos + 1)
          [] t.tag = "_" -> Ok(<<"null", "_">>, pos + 1)
          [] t.tag = "$" /\ t.n = Open -> ParseChunks(b, pos + 1, <<>>)
          [] t.tag \in Text /\ t.n = Null -> Ok(<<"null", "$">>, pos + 1)
          [] t.tag \in Text /\ fits -> ParseBulk(b, pos + 1, t.tag, t.n)
          [] t.tag \in Listing /\ t.n = Null -> Ok(<<"null", "*">>, pos + 1)
          [] t.tag \in Listing \cup {"|"} /\ (fits \/ open) ->
                IF items.is = "ok" THEN Ok(Aggregate(t.tag, items.v), items.pos)
                ELSE items
          [] OTHER -> Error

-----------------------------------------------------------------------------
(* Writing a value. *)

\* A text, with the prefix of a verbatim string again.
EncodeText(tag, data) ==
    LET body == IF tag = "=" THEN <<Prefix>> \o data ELSE data
    IN  <<Token(tag, Len(body))>> \o body \o <<CrLf>>

\* Every null becomes the RESP3 one, and nothing is streamed.
RECURSIVE EncodeResp3(_)
EncodeResp3(v) ==
    LET all(items) == FlattenSeq([i \in DOMAIN items |-> EncodeResp3(items[i])])
    IN  CASE v[1] = ":" -> <<Token(":", v[2])>>
          [] v[1] = "null" -> <<Token("_", 0)>>
          [] v[1] \in Text -> EncodeText(v[1], v[2])
          [] v[1] = "%" -> <<Token("%", Len(v[2]))>> \o all(FlattenSeq(v[2]))
          [] v[1] = "|" -> <<Token("|", Len(v[2][1]))>> \o all(FlattenSeq(v[2][1]))
                           \o EncodeResp3(v[2][2])
          [] OTHER -> <<Token(v[1], Len(v[2]))>> \o all(v[2])

\* The value with its nulls in the RESP3 form.
RECURSIVE Normal(_)
Normal(v) ==
    LET all(items) == [i \in DOMAIN items |-> Normal(items[i])]
        pairs(ps) == [i \in DOMAIN ps |-> all(ps[i])]
    IN  CASE v[1] = "null" -> <<"null", "_">>
          [] v[1] = "%" -> <<"%", pairs(v[2])>>
          [] v[1] = "|" -> <<"|", <<pairs(v[2][1]), Normal(v[2][2])>>>>
          [] v[1] \in {"*", "~", ">"} -> <<v[1], all(v[2])>>
          [] OTHER -> v

=============================================================================
