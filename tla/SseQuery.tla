------------------------------ MODULE SseQuery ------------------------------
(* How the SSE transport reads a request (cherenkov-transport-sse lib.rs): *)
(* the channels of a raw query string and the token of a header.  Bytes    *)
(* are numbers; a query is the sequence of its pairs, split at '&', each   *)
(* with the '=' it holds or not.                                           *)
EXTENDS Integers, Sequences, FiniteSets

CONSTANT None

Plus == 43
Space == 32
Percent == 37

HexValue == [b \in (48..57) \union (65..70) \union (97..102) |->
               IF b <= 57 THEN b - 48 ELSE IF b <= 70 THEN b - 55 ELSE b - 87]
IsHex(b) == b \in DOMAIN HexValue

\* u8::from_str_radix(_, 16) of two bytes, which takes a leading '+' for a sign.
from_str_radix(a, b) ==
    IF ~IsHex(b) THEN None
    ELSE IF IsHex(a) THEN HexValue[a] * 16 + HexValue[b]
    ELSE IF a = Plus THEN HexValue[b] ELSE None

\* No byte from 128 on is text in the inputs of a model (255 never is).
IsUtf8(bytes) == \A i \in DOMAIN bytes : bytes[i] < 128

\* Mutant: the escape at the very end of the value is taken for text.
urlencoding_decode_short(s) ==
    LET Escaped(i) == IF s[i] = Percent /\ i + 2 < Len(s) THEN from_str_radix(s[i + 1], s[i + 2]) ELSE None
        Byte(i) == IF s[i] = Plus THEN Space ELSE IF Escaped(i) # None THEN Escaped(i) ELSE s[i]
        rest[i \in 1..(Len(s) + 3)] ==
          IF i > Len(s) THEN <<>>
          ELSE <<Byte(i)>> \o rest[IF Escaped(i) # None THEN i + 3 ELSE i + 1]
    IN  IF IsUtf8(rest[1]) THEN rest[1] ELSE None

\* The while loop over the bytes: '+' is a space, '%' with two hex digits a
\* byte, everything else itself; an error unless the result is UTF-8.
urlencoding_decode(s) ==
    LET Escaped(i) == IF s[i] = Percent /\ i + 2 <= Len(s) THEN from_str_radix(s[i + 1], s[i + 2]) ELSE None
        Byte(i) == IF s[i] = Plus THEN Space ELSE IF Escaped(i) # None THEN Escaped(i) ELSE s[i]
        rest[i \in 1..(Len(s) + 3)] ==
          IF i > Len(s) THEN <<>>
          ELSE <<Byte(i)>> \o rest[IF Escaped(i) # None THEN i + 3 ELSE i + 1]
    IN  IF IsUtf8(rest[1]) THEN rest[1] ELSE None

\* The k-th smallest of a set of numbers.
Kth(S, k) == CHOOSE i \in S : Cardinality({j \in S : j <= i}) = k

\* Pairs without '=', with another key, undecodable or empty are skipped.
channels_from_raw_query(query) ==
    LET Wanted(p) == p.eq /\ p.key = "channel" /\ urlencoding_decode(p.value) \notin {None, <<>>}
        wanted == {i \in DOMAIN query : Wanted(query[i])}
    IN  [k \in 1..Cardinality(wanted) |-> urlencoding_decode(query[Kth(wanted, k)].value)]

-----------------------------------------------------------------------------
(* The client's side: application/x-www-form-urlencoded.                   *)

Bytes == 0..255

\* The part of s from i up to j is a way to write the byte b.
Piece(s, i, j, b) ==
    \/ j = i + 1 /\ s[i] = b /\ b \notin {Plus, Percent}
    \/ j = i + 1 /\ s[i] = Plus /\ b = Space
    \/ /\ j = i + 3 /\ s[i] = Percent /\ IsHex(s[i + 1]) /\ IsHex(s[i + 2])
       /\ b = HexValue[s[i + 1]] * 16 + HexValue[s[i + 2]]

\* Where n consecutive parts of s may begin, and where the last one ends.
Cuts(s, n) == {at \in [1..(n + 1) -> 1..(Len(s) + 1)] : at[1] = 1 /\ at[n + 1] = Len(s) + 1}

Writes(s, name) == \E at \in Cuts(s, Len(name)) : \A k \in DOMAIN name : Piece(s, at[k], at[k + 1], name[k])

\* Well escaped, cut at C, but one of the bytes is not text.
WritesNoText(s) ==
    \E C \in SUBSET (1..(Len(s) + 1)) :
      /\ 1 \in C
      /\ \A i \in C : i = Len(s) + 1 \/ \E j \in C, b \in Bytes : Piece(s, i, j, b) /\ C \cap (i + 1)..(j - 1) = {}
      /\ \E i, j \in C, b \in Bytes : b >= 128 /\ Piece(s, i, j, b)

IsSeq(s) == Len(s) \in Nat /\ s = [i \in 1..Len(s) |-> s[i]]

\* The channels a query names, in order: each pair names one, or is of another
\* key, without '=', empty, or no text.
Names(query, meant) ==
    /\ IsSeq(query) /\ IsSeq(meant)
    /\ \A i \in DOMAIN query : query[i].eq => IsSeq(query[i].value)
    /\ \A k \in DOMAIN meant : meant[k] \in Seq(Bytes) \ {None, <<>>} /\ IsUtf8(meant[k])
    /\ \E at \in [DOMAIN meant -> DOMAIN query] :
         /\ \A k, l \in DOMAIN meant : k < l => at[k] < at[l]
         /\ \A i \in DOMAIN query :
              IF query[i].eq /\ query[i].key = "channel"
                   /\ query[i].value # <<>> /\ ~WritesNoText(query[i].value)
              THEN \E k \in DOMAIN meant : at[k] = i /\ Writes(query[i].value, meant[k])
              ELSE \A k \in DOMAIN meant : at[k] # i

-----------------------------------------------------------------------------
\* Authorization: only the Bearer scheme carries a token.
token_from_headers(header) == IF header.scheme = "Bearer" THEN header.token ELSE None
=============================================================================
