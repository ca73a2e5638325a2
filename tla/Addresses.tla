----------------------------- MODULE Addresses -----------------------------
(***************************************************************************)
(* types/ethaddr.cc, IPv4Addr.cc, IPv6Addr.cc: addresses and their texts.  *)
(*                                                                         *)
(* A text is a sequence of characters, which are numbers here: 0 .. 15 are *)
(* the hexadecimal digits.  An address is the sequence of its octets, an   *)
(* IPv6 address that of its hextets.                                       *)
(***************************************************************************)
EXTENDS Integers, Sequences, SequencesExt, FiniteSets

Colon == 16
Dash == 17
Dot == 18
Bad == <<>>                 \* bad_representation is thrown

Xdigit(ch) == ch < 16
Digit(ch) == ch < 10

\* stoi in a base
ValueOf(base, digits) == FoldLeft(LAMBDA n, d : base * n + d, 0, digits)

----------------------------------------------------------------------------
(* MAC addresses *)

\* The positions of the six octets in a text of a notation
Octets(notation) ==
    IF notation = "dots" THEN <<1, 3, 6, 8, 11, 13>> ELSE <<1, 4, 7, 10, 13, 16>>

\* mac_pattern; the dots of the third notation match any character.
MatchesMAC(text, notation) ==
    LET at == Octets(notation)
        digits == UNION {{at[k], at[k] + 1} : k \in 1 .. 6}
    IN  /\ Len(text) = at[6] + 1
        /\ \A i \in DOMAIN text :
             IF i \in digits THEN Xdigit(text[i])
             ELSE CASE notation = "colon" -> text[i] = Colon
                    [] notation = "dash" -> text[i] = Dash
                    [] OTHER -> TRUE

ParseMAC(text) ==
    LET notations == {n \in {"colon", "dash", "dots"} : MatchesMAC(text, n)}
        at == Octets(CHOOSE n \in notations : TRUE)
    IN  IF notations = {} THEN Bad
        ELSE [k \in 1 .. 6 |-> ValueOf(16, SubSeq(text, at[k], at[k] + 1))]

\* operator<<
PrintMAC(mac) ==
    FlattenSeq([k \in 1 .. 6 |->
                  <<mac[k] \div 16, mac[k] % 16>> \o IF k = 6 THEN <<>> ELSE <<Colon>>])

IsBroadcast(mac) == \A k \in 1 .. 6 : mac[k] = 255
IsMulticast(mac) == mac[1] % 2 = 1

----------------------------------------------------------------------------
(* IPv4 addresses *)

\* The ways ipv4_pattern matches: lengths of the four groups of digits.  The
\* unescaped dots match any character, digits included.
MatchesIPv4(text) ==
    LET At(l, k) == l[1] * (IF k > 1 THEN 1 ELSE 0) + l[2] * (IF k > 2 THEN 1 ELSE 0)
                      + l[3] * (IF k > 3 THEN 1 ELSE 0) + k
    IN  {l \in [1 .. 4 -> 1 .. 3] :
           /\ At(l, 4) + l[4] - 1 = Len(text)
           /\ \A k \in 1 .. 4 : \A i \in At(l, k) .. At(l, k) + l[k] - 1 : Digit(text[i])}

\* Groups are greedy: the first one is as long as possible, then the second...
Greedy(lengths) ==
    CHOOSE l \in lengths : \A o \in lengths \ {l} :
        \E k \in 1 .. 4 : l[k] > o[k] /\ \A j \in 1 .. k - 1 : l[j] = o[j]

\* parseIPv4Address; a group is cut to uint8_t.
ParseIPv4(text) ==
    LET l == Greedy(MatchesIPv4(text))
        start == <<1, l[1] + 2, l[1] + l[2] + 3, l[1] + l[2] + l[3] + 4>>
    IN  IF MatchesIPv4(text) = {} THEN Bad
        ELSE [k \in 1 .. 4 |-> ValueOf(10, SubSeq(text, start[k], start[k] + l[k] - 1)) % 256]

Decimal(n) ==
    (IF n > 99 THEN <<n \div 100>> ELSE <<>>) \o (IF n > 9 THEN <<(n \div 10) % 10>> ELSE <<>>)
      \o <<n % 10>>

PrintIPv4(ip) ==
    FlattenSeq([k \in 1 .. 4 |-> Decimal(ip[k]) \o IF k = 4 THEN <<>> ELSE <<Dot>>])

----------------------------------------------------------------------------
(* IPv6 addresses: a text is split at its colons into groups of digits     *)

Groups(text) ==
    LET colons == {0, Len(text) + 1} \cup {i \in DOMAIN text : text[i] = Colon}
        ends == SelectSeq([i \in 1 .. Len(text) + 2 |-> i - 1], LAMBDA i : i \in colons)
    IN  [g \in 1 .. Len(ends) - 1 |-> SubSeq(text, ends[g] + 1, ends[g + 1] - 1)]

\* regex_validation: its nine alternatives are eight groups, or up to seven
\* around one pair of colons.
Validated(g) ==
    LET empty == {k \in DOMAIN g : g[k] = <<>>}
        Full(a, b) == {k \in a .. b : g[k] # <<>>} = a .. b
        n == Len(g)
    IN  /\ \A k \in DOMAIN g : Len(g[k]) <= 4 /\ \A i \in DOMAIN g[k] : Xdigit(g[k][i])
        /\ \/ n = 8 /\ empty = {}
           \/ n \in 3 .. 9 /\ empty = {n - 1, n}                       \* 1::
           \/ n \in 3 .. 9 /\ empty = {1, 2}                           \* ::8
           \/ n = 3 /\ empty = {1, 2, 3}                               \* ::
           \/ n \in 3 .. 8 /\ \E k \in 2 .. n - 1 : empty = {k}        \* 1::8

\* Mutant: the colons are inserted at the end of the text.
ParseIPv6FillsEnd(text) ==
    LET g == Groups(text)
        filled == g \o [k \in 1 .. 8 - Len(g) |-> <<>>]
    IN  IF ~Validated(g) \/ Len(filled) # 8 THEN Bad ELSE [k \in 1 .. 8 |-> ValueOf(16, filled[k])]

\* parseIPv6: colons are inserted until there are seven, empty groups are 0.
ParseIPv6(text) ==
    LET g == Groups(text)
        n == Len(g) - 1
        pair == Min({k \in 2 .. Len(g) : g[k] = <<>>} \cup {Len(g)})
        filled == IF n < 7
                  THEN SubSeq(g, 1, pair - 1) \o [k \in 1 .. 7 - n |-> <<>>] \o SubSeq(g, pair, Len(g))
                  ELSE g
    IN  IF ~Validated(g) \/ Len(filled) # 8 THEN Bad
        ELSE [k \in 1 .. 8 |-> ValueOf(16, filled[k])]

----------------------------------------------------------------------------
(* What the conversions are to achieve                                     *)

\* A printed MAC address (operator<<) reads back as itself, also in the two
\* other notations, and a broadcast address is a multicast one.
MACReadsBack(mac) ==
    LET text == PrintMAC(mac)
        dashes == [i \in DOMAIN text |-> IF text[i] = Colon THEN Dash ELSE text[i]]
        dots == FlattenSeq([k \in 1 .. 3 |-> <<mac[2 * k - 1] \div 16, mac[2 * k - 1] % 16,
                              mac[2 * k] \div 16, mac[2 * k] % 16>> \o IF k = 3 THEN <<>> ELSE <<Dot>>])
        mixed == [text EXCEPT ![3] = Dash]
    IN  /\ ParseMAC(text) = mac /\ ParseMAC(dashes) = mac /\ ParseMAC(dots) = mac
        /\ ParseMAC(mixed) = Bad /\ ParseMAC(Tail(text)) = Bad
        /\ IsBroadcast(mac) => IsMulticast(mac)

\* A printed IPv4 address reads back as itself, although the dots of the
\* pattern match any character.
IPv4ReadsBack(ip) ==
    /\ ParseIPv4(PrintIPv4(ip)) = ip
    /\ ParseIPv4(PrintIPv4(ip) \o <<Dot>>) = Bad

Join(g) == FlattenSeq([k \in DOMAIN g |-> (IF k = 1 THEN <<>> ELSE <<Colon>>) \o g[k]])
Elided(left, right) == Join(left) \o <<Colon, Colon>> \o Join(right)

\* A text with the groups left and right of a pair of colons is the address
\* with zeros between them, and is refused if they are more than seven.  Nothing
\* is claimed of a pair at an end of the text that stands for a single group:
\* the comments IPv6Addr.cc:31 and :45 list 1:2:3:4:5:6:7:: and
\* ::2:3:4:5:6:7:8, the first pattern accepts them, and the second refuses them.
IPv6ReadsBack(left, right) ==
    LET Numbers(g) == [k \in DOMAIN g |-> ValueOf(16, g[k])]
        n == Len(left) + Len(right)
        text == Elided(left, right)
        address == Numbers(left) \o [k \in 1 .. 8 - n |-> 0] \o Numbers(right)
    IN  /\ \/ n = 7 /\ (left = <<>> \/ right = <<>>)
           \/ ParseIPv6(text) = IF n > 7 THEN Bad ELSE address
        /\ ParseIPv6(Join(left \o right)) = IF n = 8 THEN address ELSE Bad
        /\ n > 0 => ParseIPv6(text \o <<Colon, Colon>>) = Bad
=============================================================================
