---------------------------- MODULE PacketParser ----------------------------
(***************************************************************************)
(* PacketParser.cc: where the fields of a packet-in lie, and reading and   *)
(* changing them in place.                                                 *)
(*                                                                         *)
(* A parser p has the data, the bindings (a field's offset in the data),   *)
(* and thrown, which is set by an access to a header that was not found    *)
(* (checked_ptr).  in_port is a member of its own and not of the data.     *)
(***************************************************************************)
EXTENDS Integers, Sequences, TLC, Wire

\* Widths in bits (oxm/openflow_basic.hh)
Width ==
    [f \in {"ETH_SRC", "ETH_DST", "ARP_SHA", "ARP_THA"} |-> 48]
    @@ [f \in {"IPV4_SRC", "IPV4_DST", "ARP_SPA", "ARP_TPA"} |-> 32]
    @@ [f \in {"ETH_TYPE", "ARP_OP", "TCP_SRC", "TCP_DST", "UDP_SRC", "UDP_DST"} |-> 16]
    @@ [f \in {"IP_PROTO", "ICMPV4_TYPE", "ICMPV4_CODE"} |-> 8]
    @@ [f \in {"IPV6_SRC", "IPV6_DST"} |-> 128]
    @@ [f \in {"VLAN_VID"} |-> 12]

\* The headers: their lengths and the offsets of the fields that are bound.
Headers ==
    [eth |-> [length |-> 14, fields |-> [ETH_DST |-> 0, ETH_SRC |-> 6, ETH_TYPE |-> 12]],
     dot1q |-> [length |-> 18,
                fields |-> [ETH_DST |-> 0, ETH_SRC |-> 6, VLAN_VID |-> 14, ETH_TYPE |-> 16]],
     ipv4 |-> [length |-> 20, fields |-> [IP_PROTO |-> 9, IPV4_SRC |-> 12, IPV4_DST |-> 16]],
     arp |-> [length |-> 28, fields |-> [ARP_OP |-> 6, ARP_SHA |-> 8, ARP_SPA |-> 14,
                                         ARP_THA |-> 18, ARP_TPA |-> 24]],
     ipv6 |-> [length |-> 40, fields |-> [IP_PROTO |-> 6, IPV6_SRC |-> 8, IPV6_DST |-> 24]],
     tcp |-> [length |-> 20, fields |-> [TCP_SRC |-> 0, TCP_DST |-> 2]],
     udp |-> [length |-> 8, fields |-> [UDP_SRC |-> 0, UDP_DST |-> 2]],
     icmp |-> [length |-> 4, fields |-> [ICMPV4_TYPE |-> 0, ICMPV4_CODE |-> 1]]]

Byte(p, at) == p.data[at + 1]
Pair(p, at) == 256 * Byte(p, at) + Byte(p, at + 1)

\* A header fits in what is left of the data.
Fits(p, header, at) == at + Headers[header].length <= Len(p.data)

Bind(p, header, at) ==
    LET f == Headers[header].fields
    IN  [p EXCEPT !.bindings = [t \in DOMAIN f |-> at + f[t]] @@ @]

\* Mutant: the length left for the header is not tested.
ParseL4Unchecked(p, protocol, at) ==
    CASE protocol = 6 -> Bind(p, "tcp", at) [] protocol = 17 -> Bind(p, "udp", at)
      [] protocol = 1 -> Bind(p, "icmp", at) [] OTHER -> p

ParseL4(p, protocol, at) ==
    LET header == CASE protocol = 6 -> "tcp" [] protocol = 17 -> "udp" [] protocol = 1 -> "icmp"
                    [] OTHER -> "none"
    IN  IF header # "none" /\ Fits(p, header, at) THEN Bind(p, header, at) ELSE p

ParseL3(p, eth_type, at) ==
    LET payload == at + 4 * (Byte(p, at) % 16)      \* ihl, of any value
    IN  CASE eth_type = 2048 /\ Fits(p, "ipv4", at) ->
               IF Len(p.data) > payload
               THEN ParseL4(Bind(p, "ipv4", at), Byte(p, at + 9), payload)
               ELSE Bind(p, "ipv4", at)
          [] eth_type = 2054 /\ Fits(p, "arp", at) ->
               IF Pair(p, at) = 1 /\ Pair(p, at + 2) = 2048 /\ Byte(p, at + 4) = 6 /\ Byte(p, at + 5) = 4
               THEN Bind(p, "arp", at) ELSE p
          [] eth_type = 34525 ->
               IF ~Fits(p, "ipv6", at) THEN [p EXCEPT !.thrown = TRUE]
               ELSE ParseL4(Bind(p, "ipv6", at), Byte(p, at + 6), at + 40)
          [] OTHER -> p

ParseL2(p) ==
    IF ~Fits(p, "eth", 0) THEN p
    ELSE IF Pair(p, 12) # 33024 THEN ParseL3(Bind(p, "eth", 0), Pair(p, 12), 14)
    ELSE IF Fits(p, "dot1q", 0) THEN ParseL3(Bind(p, "dot1q", 0), Pair(p, 16), 18)
    ELSE p                          \* parse_l3 with type 0

Parser(data) == ParseL2([data |-> data, bindings |-> <<>>, thrown |-> FALSE])

\* load with the exact mask of a bound field, and with another one
Load(p, t, mask) == BitAnd(FromBuffer(Width[t], p.data, p.bindings[t]), mask)

\* modify: the bits of the patch's mask replace those of the packet.  The
\* bindings stay as they are.
Modify(p, t, value, mask) ==
    LET old == Load(p, t, AllOnes(Width[t]))
        new == BitOr(BitAnd(old, BitNot(Width[t], mask)), BitAnd(value, mask))
    IN  [p EXCEPT !.data = ToBuffer(new, @, p.bindings[t])]

----------------------------------------------------------------------------
(* What the parser is to achieve                                           *)

\* An IPv4 header that states a length below its own size
ShortHeader(p) ==
    "IPV4_SRC" \in DOMAIN p.bindings /\ Byte(p, p.bindings["IPV4_SRC"] - 12) % 16 < 5

\* Every bound field lies within the packet, and, unless an IPv4 header states
\* a length below its own size, changing one field changes no other: a patched
\* field reads as the patch under its mask and as before elsewhere, every
\* other field as before.  Only an IPv6 header cut short throws.
FieldsApart(p) ==
    /\ \A t \in DOMAIN p.bindings : p.bindings[t] + Bytes(Width[t]) <= Len(p.data)
    /\ p.thrown => DOMAIN p.bindings \cap {"IP_PROTO", "ARP_OP"} = {}
    /\ ShortHeader(p) \/ \A t \in DOMAIN p.bindings :
         LET w == Width[t]
             all == AllOnes(w)
             half == [k \in 1 .. Bytes(w) |-> IF k = 1 THEN 1 ELSE 240]
         IN  \A mask \in {all, half} :
                LET new == BitNot(w, Load(p, t, all))
                    after == Modify(p, t, new, mask)
                IN  /\ Load(after, t, mask) = BitAnd(new, mask)
                    /\ Load(after, t, BitNot(w, mask)) = Load(p, t, BitNot(w, mask))
                    /\ \A u \in DOMAIN p.bindings \ {t} :
                          Load(after, u, AllOnes(Width[u])) = Load(p, u, AllOnes(Width[u]))
=============================================================================
