-------------------------------- MODULE Json --------------------------------
(***************************************************************************)
(* json11.cpp: the dump and the parser of the REST interface.              *)
(*                                                                         *)
(* A text is a sequence of bytes.  A value is a record with its type;      *)
(* numbers are kept as the text that atoi and atof convert.  The parser's  *)
(* state is p = [i, failed]: i bytes are consumed.  A parsing function     *)
(* gives its state afterwards and v, which is of no use when it failed.    *)
(***************************************************************************)
EXTENDS Integers, Sequences, SequencesExt

CONSTANT MaxDepth     \* max_depth: 200

Null == [type |-> "null"]
Bool(b) == [type |-> IF b THEN "true" ELSE "false"]
Number(text) == [type |-> "number", v |-> text]
String(bytes) == [type |-> "string", v |-> bytes]
Array(s) == [type |-> "array", elements |-> s]
Object(pairs) == [type |-> "object", members |-> pairs]   \* sorted by key

Quote == 34
Backslash == 92
Literals == [null |-> <<110, 117, 108, 108>>, true |-> <<116, 114, 117, 101>>,
             false |-> <<102, 97, 108, 115, 101>>]
Letter == [b |-> 98, f |-> 102, n |-> 110, r |-> 114, t |-> 116, u |-> 117]
Digit == 48 .. 57
Space == {32, 13, 10, 9}

----------------------------------------------------------------------------
(* dump *)

Hex(n) == IF n < 10 THEN 48 + n ELSE 87 + n

\* What dump writes for the byte or separator at the start of a rest.
Escaped(rest) ==
    LET ch == Head(rest)
        short == (8 :> Letter.b) @@ (12 :> Letter.f) @@ (10 :> Letter.n) @@ (13 :> Letter.r)
                   @@ (9 :> Letter.t) @@ (Quote :> Quote) @@ (Backslash :> Backslash)
    IN  IF ch \in DOMAIN short THEN <<Backslash, short[ch]>>
        ELSE IF ch <= 31 THEN <<Backslash, Letter.u, 48, 48, Hex(ch \div 16), Hex(ch % 16)>>
        ELSE <<ch>>

DumpString(bytes) ==
    LET Separator(i) ==      \* U+2028 or U+2029 in UTF-8
            /\ i + 2 <= Len(bytes) /\ bytes[i] = 226 /\ bytes[i + 1] = 128
            /\ bytes[i + 2] \in {168, 169}
        out[i \in 1 .. Len(bytes) + 1] ==
            IF i > Len(bytes) THEN <<Quote>>
            ELSE IF Separator(i)
              THEN <<Backslash, Letter.u, 50, 48, 50, bytes[i + 2] - 112>> \o out[i + 3]
            ELSE Escaped(<<bytes[i]>>) \o out[i + 1]
    IN  <<Quote>> \o out[1]

\* The members of an array or object, separated by ", "
Joined(texts) ==
    LET out[i \in 0 .. Len(texts)] ==
            IF i = 0 THEN <<>> ELSE out[i - 1] \o (IF i = 1 THEN <<>> ELSE <<44, 32>>) \o texts[i]
    IN  out[Len(texts)]

RECURSIVE Dump(_)
Dump(v) ==
    CASE v.type \in DOMAIN Literals -> Literals[v.type]
      [] v.type = "number" -> v.v
      [] v.type = "string" -> DumpString(v.v)
      [] v.type = "array" -> <<91>> \o Joined([i \in DOMAIN v.elements |-> Dump(v.elements[i])]) \o <<93>>
      [] v.type = "object" ->
            <<123>> \o Joined([i \in DOMAIN v.members |->
                                 DumpString(v.members[i][1]) \o <<58, 32>> \o Dump(v.members[i][2])]) \o <<125>>

----------------------------------------------------------------------------
(* The parser *)

\* str[i]: the byte after the consumed ones, 0 at the end of a std::string.
At(str, i) == IF i < Len(str) THEN str[i + 1] ELSE 0

Fail(i) == [i |-> i, failed |-> TRUE, v |-> Null]
Parsed(i, v) == [i |-> i, failed |-> FALSE, v |-> v]

\* The first position from i on whose byte is not one of a kind.
Skip(str, i, kind) ==
    LET at[j \in i .. Len(str)] == IF j < Len(str) /\ At(str, j) \in kind THEN at[j + 1] ELSE j
    IN  at[i]

\* get_next_token, with the token as v; 0 at the end of the input.
NextToken(str, i) ==
    LET j == Skip(str, i, Space)
    IN  IF j = Len(str) THEN [Fail(j) EXCEPT !.v = 0] ELSE Parsed(j + 1, At(str, j))

EncodeUtf8(pt) ==
    LET Tail6(n) == 128 + (n % 64)
    IN  IF pt < 0 THEN <<>>
        ELSE IF pt < 128 THEN <<pt>>
        ELSE IF pt < 2048 THEN <<192 + pt \div 64, Tail6(pt)>>
        ELSE IF pt < 65536 THEN <<224 + pt \div 4096, Tail6(pt \div 64), Tail6(pt)>>
        ELSE <<240 + pt \div 262144, Tail6(pt \div 4096), Tail6(pt \div 64), Tail6(pt)>>

HexValue(ch) ==
    IF ch \in Digit THEN ch - 48
    ELSE IF ch \in 97 .. 102 THEN ch - 87
    ELSE IF ch \in 65 .. 70 THEN ch - 55 ELSE -1

\* parse_string; last is last_escaped_codepoint.
ParseString(str, start) ==
    LET Plain == (Letter.b :> 8) @@ (Letter.f :> 12) @@ (Letter.n :> 10) @@ (Letter.r :> 13)
                   @@ (Letter.t :> 9) @@ (Quote :> Quote) @@ (Backslash :> Backslash) @@ (47 :> 47)
        RECURSIVE From(_, _, _)
        Unicode(i, out, last) ==
            LET d == [k \in 1 .. 4 |-> HexValue(At(str, i + k - 1))]
                pt == 4096 * d[1] + 256 * d[2] + 16 * d[3] + d[4]
            IN  IF \E k \in 1 .. 4 : d[k] < 0 THEN Fail(i)
                ELSE IF last \in 55296 .. 56319 /\ pt \in 56320 .. 57343
                  THEN From(i + 4, out \o EncodeUtf8((last - 55296) * 1024 + (pt - 56320) + 65536), -1)
                ELSE From(i + 4, out \o EncodeUtf8(last), pt)
        From(i, out, last) ==
            LET ch == At(str, i)
                esc == At(str, i + 1)
                done == out \o EncodeUtf8(last)
            IN  IF i = Len(str) THEN Fail(i)
                ELSE IF ch = Quote THEN Parsed(i + 1, String(done))
                ELSE IF ch \in 0 .. 31 THEN Fail(i + 1)
                ELSE IF ch # Backslash THEN From(i + 1, Append(done, ch), -1)
                ELSE IF i + 1 = Len(str) THEN Fail(i + 1)
                ELSE IF esc = Letter.u THEN Unicode(i + 2, out, last)
                ELSE IF esc \in DOMAIN Plain THEN From(i + 2, Append(done, Plain[esc]), -1)
                ELSE Fail(i + 2)
    IN  From(start, <<>>, -1)

ParseNumber(str, start) ==
    LET i0 == IF At(str, start) = 45 THEN start + 1 ELSE start       \* '-'
        i1 == IF At(str, i0) = 48 THEN i0 + 1 ELSE Skip(str, i0, Digit)
        fraction == At(str, i1) = 46
        i2 == IF fraction THEN Skip(str, i1 + 1, Digit) ELSE i1
        exponent == At(str, i2) \in {69, 101}
        i3 == IF At(str, i2 + 1) \in {43, 45} THEN i2 + 2 ELSE i2 + 1
        i4 == IF exponent THEN Skip(str, i3, Digit) ELSE i2
    IN  IF i1 = i0 THEN Fail(i0)
        ELSE IF At(str, i0) = 48 /\ At(str, i1) \in Digit THEN Fail(i1)
        ELSE IF fraction /\ i2 = i1 + 1 THEN Fail(i2)
        ELSE IF exponent /\ i4 = i3 THEN Fail(i4)
        ELSE Parsed(i4, Number(SubSeq(str, start + 1, i4)))

\* expect: the literal begins at the token that was just read, before i.
Expect(str, i, literal, v) ==
    LET end == i - 1 + Len(literal)
    IN  IF end <= Len(str) /\ SubSeq(str, i, end) = literal THEN Parsed(end, v) ELSE Fail(i - 1)

\* The order of std::map<std::string, Json>, and data[key] = v.
Below(a, b) ==
    \/ IsStrictPrefix(a, b)
    \/ \E k \in 1 .. Len(a) : k <= Len(b) /\ a[k] < b[k] /\ SubSeq(a, 1, k - 1) = SubSeq(b, 1, k - 1)

Assign(pairs, key, v) ==
    SelectSeq(pairs, LAMBDA q : Below(q[1], key)) \o <<<<key, v>>>>
      \o SelectSeq(pairs, LAMBDA q : Below(key, q[1]))

\* data[key] = v before the assignments that gave pairs
AssignedFirst(pairs, key, v) ==
    IF \E k \in DOMAIN pairs : pairs[k][1] = key THEN pairs ELSE Assign(pairs, key, v)

\* What is parsed after p, unless p failed
Then(p, rest) == IF p.failed THEN p ELSE rest

OneOf(p, tokens) == IF p.v \in tokens THEN p ELSE Fail(p.i)

\* The loop of an object, from a key on; parse is parse_json and the loops, at
\* the positions behind.
ParseMembers(parse, str, i, depth) ==
    LET t == OneOf(NextToken(str, i), {Quote})
        key == ParseString(str, t.i)
        colon == OneOf(NextToken(str, key.i), {58})
        v == parse[<<"json", colon.i, depth + 1>>]
        next == OneOf(NextToken(str, v.i), {44, 125})
        rest == IF next.v = 44 THEN parse[<<"members", next.i, depth>>]
                ELSE Parsed(next.i, Object(<<>>))
    IN  Then(t, Then(key, Then(colon, Then(v, Then(next, Then(rest,
            Parsed(rest.i, Object(AssignedFirst(rest.v.members, key.v.v, v.v)))))))))

\* The loop of an array, from an element on; parse_json reads its first token again.
ParseElements(parse, str, i, depth) ==
    LET t == NextToken(str, i)
        v == parse[<<"json", t.i - 1, depth + 1>>]
        next == OneOf(NextToken(str, v.i), {44, 93})
        rest == IF next.v = 44 THEN parse[<<"elements", next.i, depth>>]
                ELSE Parsed(next.i, Array(<<>>))
    IN  Then(t, Then(v, Then(next, Then(rest,
            Parsed(rest.i, Array(<<v.v>> \o rest.v.elements))))))

\* What begins with the token t
ParseFrom(parse, str, t, depth) ==
    LET inner == NextToken(str, t.i)
    IN  CASE t.v = 45 \/ t.v \in Digit -> ParseNumber(str, t.i - 1)
          [] t.v = 116 -> Expect(str, t.i, Literals.true, Bool(TRUE))
          [] t.v = 102 -> Expect(str, t.i, Literals.false, Bool(FALSE))
          [] t.v = 110 -> Expect(str, t.i, Literals.null, Null)
          [] t.v = Quote -> ParseString(str, t.i)
          [] t.v = 123 -> Then(inner, IF inner.v = 125 THEN Parsed(inner.i, Object(<<>>))
                                      ELSE parse[<<"members", t.i, depth>>])
          [] t.v = 91 -> Then(inner, IF inner.v = 93 THEN Parsed(inner.i, Array(<<>>))
                                     ELSE parse[<<"elements", t.i, depth>>])
          [] OTHER -> Fail(t.i)

\* parse_json
ParseJson(parse, str, i, depth) ==
    LET t == NextToken(str, i)
    IN  IF depth > MaxDepth THEN Fail(i) ELSE Then(t, ParseFrom(parse, str, t, depth))

\* Json::parse
Parse(str) ==
    LET parse[q \in {"json", "members", "elements"} \X (0 .. Len(str)) \X (0 .. MaxDepth + 1)] ==
            CASE q[1] = "json" -> ParseJson(parse, str, q[2], q[3])
              [] q[1] = "members" -> ParseMembers(parse, str, q[2], q[3])
              [] q[1] = "elements" -> ParseElements(parse, str, q[2], q[3])
        p == parse[<<"json", 0, 0>>]
    IN  Then(p, IF Skip(str, p.i, Space) = Len(str) THEN p ELSE Fail(p.i))

----------------------------------------------------------------------------
(* The grammar of JSON, by the ways a text splits, for texts without       *)
(* escapes: what the parser is compared with.                              *)

Trim(s) ==
    LET kept == {k \in DOMAIN s : s[k] \notin Space}
    IN  IF kept = {} THEN <<>> ELSE SubSeq(s, Min(kept), Max(kept))

Digits(s) == s # <<>> /\ \A k \in DOMAIN s : s[k] \in Digit
Unsigned(s) == Digits(s) /\ (s[1] = 48 => Len(s) = 1)
Signed(s) == Unsigned(s) \/ (s # <<>> /\ s[1] = 45 /\ Unsigned(Tail(s)))
Decimal(s) ==
    \/ Signed(s)
    \/ \E k \in DOMAIN s : s[k] = 46 /\ Signed(SubSeq(s, 1, k - 1)) /\ Digits(SubSeq(s, k + 1, Len(s)))
Scientific(s) ==
    \/ Decimal(s)
    \/ \E k \in DOMAIN s :
         /\ s[k] = 101 /\ Decimal(SubSeq(s, 1, k - 1))
         /\ \E e \in {SubSeq(s, k + 1, Len(s))} :
              Digits(e) \/ (e # <<>> /\ e[1] \in {43, 45} /\ Digits(Tail(e)))
IsString(s) ==
    /\ Len(s) >= 2 /\ s[1] = Quote /\ s[Len(s)] = Quote
    /\ \A k \in 2 .. Len(s) - 1 : s[k] > 31 /\ s[k] # Quote

RECURSIVE IsValue(_, _), IsList(_, _, _)
IsMember(s, depth) ==
    \E k \in DOMAIN s : s[k] = 58 /\ IsString(Trim(SubSeq(s, 1, k - 1)))
                                  /\ IsValue(SubSeq(s, k + 1, Len(s)), depth)
IsList(s, depth, members) ==
    \/ IF members THEN IsMember(s, depth) ELSE IsValue(s, depth)
    \/ \E k \in DOMAIN s :
         /\ s[k] = 44
         /\ IF members THEN IsMember(SubSeq(s, 1, k - 1), depth) ELSE IsValue(SubSeq(s, 1, k - 1), depth)
         /\ IsList(SubSeq(s, k + 1, Len(s)), depth, members)
IsValue(text, depth) ==
    LET s == Trim(text)
        inside == SubSeq(s, 2, Len(s) - 1)
        Closed(a, b) == Len(s) >= 2 /\ s[1] = a /\ s[Len(s)] = b
    IN  /\ depth <= MaxDepth
        /\ \/ s \in {Literals.null, Literals.true, Literals.false} \/ Scientific(s) \/ IsString(s)
           \/ Closed(91, 93) /\ (Trim(inside) = <<>> \/ IsList(inside, depth + 1, FALSE))
           \/ Closed(123, 125) /\ (Trim(inside) = <<>> \/ IsList(inside, depth + 1, TRUE))

\* The parser (Json::parse) accepts exactly the values of the grammar, nested
\* up to its depth.
AcceptsGrammar(text) == Parse(text).failed <=> ~IsValue(text, 0)

\* What dump writes of a value nested up to that depth is parsed to the value.
ReadsBack(v) == \E p \in {Parse(Dump(v))} : ~p.failed /\ p.v = v
=============================================================================
