---------------------------- MODULE MCConversions ----------------------------
(***************************************************************************)
(* The conversions and the loader, on bounded inputs: a behaviour takes    *)
(* one input and converts it once.                                         *)
(***************************************************************************)
EXTENDS Integers, Sequences, SequencesExt, FiniteSets

CONSTANTS MaxDepth, MaxNumber, Pending

J == INSTANCE Json
L == INSTANCE Loader
S == INSTANCE Serialize
A == INSTANCE Addresses
P == INSTANCE PacketParser
W == INSTANCE Wire
R == INSTANCE RestFlow
F == INSTANCE StaticFlow
O == INSTANCE Fields

VARIABLES
    kind,       \* the conversion
    input,
    output      \* Pending before it

vars == <<kind, input, output>>

UpTo(n, set) == UNION {[1 .. k -> set] : k \in 0 .. n}

----------------------------------------------------------------------------
(* JSON: marks of the grammar, of numbers, and bytes that strings escape   *)

Texts ==
    UpTo(3, {91, 93, 44, 49, 48, 34, 97, 123, 125, 58, 32})
      \cup {<<91>> \o t \o <<93>> : t \in UpTo(3, {91, 93, 44, 49, 32})}
      \cup {<<123, 34>> \o t \o <<125>> : t \in UpTo(4, {34, 58, 49, 44})}
      \cup UpTo(5, {45, 48, 49, 46, 101})
      \cup {<<49, 101>> \o t : t \in UpTo(2, {45, 43, 49})} \cup {J!Literals[l] : l \in DOMAIN J!Literals}

Atoms == {J!Null, J!Bool(TRUE), J!Bool(FALSE), J!Number(<<45, 49, 48>>), J!String(<<34>>)}
Values ==
    Atoms \cup {J!String(b) : b \in UpTo(3, {34, 92, 8, 1, 97, 226, 128, 168, 47})}
      \cup {J!Array(s) : s \in UpTo(2, Atoms)}
      \cup {J!Object(o) : o \in UpTo(1, {<<97>>} \X Atoms) \cup [1 .. 1 -> {<<97>>} \X Atoms]}
      \cup {J!Object(<<<<<<97>>, v>>, <<<<97, 34>>, w>>>>) : v, w \in Atoms}

----------------------------------------------------------------------------
(* The loader: three applications, of which one may need an unknown one    *)

Configs ==
    {[depends |-> [a |-> d, b |-> e, c |-> f], services |-> s, pin |-> [a |-> -1, b |-> 1, c |-> -1],
      threads |-> 2] :
       d, e \in UpTo(2, {"a", "b", "c"}), f \in UpTo(1, {"a", "b", "x"}),
       s \in {<<"a">>, <<"b", "a">>, <<"c", "x">>}}

----------------------------------------------------------------------------
(* Messages of raft servers; a string of two words was one with a blank    *)

Data == {<<"link">>, <<"1">>, <<"two", "words">>}
Headers ==
    {[peer_id |-> <<"1">>, destination_id |-> d, message_id |-> 10, term |-> t,
      commit |-> [index |-> c, term |-> c], uncommit |-> [index |-> 2, term |-> t]] :
       d \in {<<"2">>, <<"server">>}, t, c \in {0, 1, 12}}
Entries == UpTo(2, [info : [index : {1, 12}, term : {0, 1}], data : Data])
Lines ==
    [type : {"VoteRequest"}, header : Headers]
      \cup [type : {"VoteResponse"}, header : Headers, vote_granted : BOOLEAN]
      \cup [type : {"AppendEntriesResponse"}, header : Headers, success : BOOLEAN]
      \cup [type : {"ClientRequest"}, data : Data]
      \cup [type : {"AppendEntriesRequest"}, header : {h \in Headers : h.term = 1},
            previous_entry : {[index |-> 0, term |-> 0]}, entries : Entries]

----------------------------------------------------------------------------
(* Addresses and packets *)

MACs == [1 .. 6 -> {0, 171, 255}]
IPv4s == [1 .. 4 -> {0, 9, 10, 99, 100, 255}]
IPv6s ==
    {[left |-> [i \in 1 .. n |-> <<1, 2, n>>], right |-> r] :
       n \in 0 .. 8, r \in UpTo(4, {<<1>>, <<15, 0, 2>>}) \cup {[i \in 1 .. n |-> <<i>>] : n \in 5 .. 8}}

Pair(n) == <<n \div 256, n % 256>>
Layer3(f) ==
    CASE f.type = 2048 -> <<64 + f.ihl, 0, 0, 60, 1, 2, 3, 4, 64, f.proto, 9, 9, 10, 0, 0, 1, 10, 0, 0, 2>>
      [] f.type = 2054 -> Pair(1) \o Pair(2048) \o <<6, f.ihl - 1>> \o [i \in 1 .. 22 |-> i]
      [] OTHER -> <<96, 0, 0, 0, 0, 60, f.proto, 64>> \o [i \in 1 .. 32 |-> i]
Frame(f) ==
    LET whole == [i \in 1 .. 12 |-> 15 + i] \o (IF f.tag THEN Pair(33024) \o <<227, 8>> ELSE <<>>)
                   \o Pair(f.type) \o Layer3(f) \o [i \in 1 .. 24 |-> 100 + i]
    IN  SubSeq(whole, 1, Len(whole) - f.cut)
Frames ==
    {Frame(f) : f \in [tag : BOOLEAN, type : {2048, 2054, 34525}, ihl : {4, 5, 6}, proto : {1, 6, 17, 2},
                       cut : {0, 4, 5, 16, 21, 24, 25, 45, 60}]}

\* Match fields of one and of several bytes, and of a part of a byte
Fields ==
    {[f |-> [type |-> [ns |-> 32768, id |-> 5, nbits |-> n], value |-> v, mask |-> m], other |-> o] :
       <<n, v, m, o>> \in ({8} \X {<<0>>, <<129>>} \X {<<255>>, <<240>>, <<0>>} \X {<<0>>, <<255>>})
                        \cup ({12} \X {<<0, 0>>, <<9, 130>>} \X {<<15, 255>>, <<7, 240>>} \X {<<0, 0>>, <<15, 255>>})
                        \cup ({1} \X {<<0>>, <<1>>} \X {<<0>>, <<1>>} \X {<<0>>, <<1>>})}

\* Header fields of three types, of which two allow no mask, and sets of them
FieldTypes == <<[ns |-> 1, id |-> 1, nbits |-> 2, maskable |-> TRUE],
                [ns |-> 1, id |-> 2, nbits |-> 2, maskable |-> FALSE],
                [ns |-> 2, id |-> 1, nbits |-> 1, maskable |-> FALSE]>>
TypeFields == UNION {O!FieldsOf(FieldTypes[i]) : i \in 1 .. 3}
FieldPairs == TypeFields \X TypeFields \X UNION {O!MasksOf(FieldTypes[i]) : i \in 1 .. 3}
AtMostOne(i) == {{}} \cup {{f} : f \in O!FieldsOf(FieldTypes[i])}
FieldSets == {s \cup u : s \in AtMostOne(1), u \in AtMostOne(2)}

----------------------------------------------------------------------------
(* Flow entries of the REST interface and of the configuration             *)

MatchTexts ==
    [tcp_src |-> 80, udp_dst |-> 53, ip_proto |-> 6, ipv4_src |-> 7, arp_op |-> 1, arp_spa |-> 9,
     eth_type |-> 2048, eth_src |-> 5, vlan_vid |-> 3, in_port |-> 1]
Odd == [f \in DOMAIN MatchTexts |-> CASE f = "ip_proto" -> 256 [] f = "vlan_vid" -> 65536
                                      [] f = "udp_dst" -> 65536 [] f = "eth_type" -> 2054
                                      [] f = "in_port" -> -5 [] f = "tcp_src" -> -65538 [] OTHER -> -1]
Actions ==
    {[type |-> "OUTPUT", port |-> 1], [type |-> "OUTPUT", port |-> 1, max_len |-> 65536],
     [type |-> "POP_VLAN"], [type |-> "NONE"], [port |-> 1], [type |-> "GROUP", group_id |-> -9],
     [type |-> "SET_FIELD", field |-> "eth_src", value |-> 5],
     [type |-> "SET_FIELD", field |-> "ipv4_src", value |-> 5],
     [type |-> "SET_FIELD", field |-> "vlan_vid", value |-> 65536],
     [type |-> "SET_FIELD", field |-> "mpls_label", value |-> 1]}
Matches ==
    {[f \in d |-> IF f \in odd THEN Odd[f] ELSE MatchTexts[f]] :
       d \in SUBSET DOMAIN MatchTexts, odd \in {{}, {"ip_proto", "arp_op"}, {"eth_type"}, {"udp_dst"}, {"in_port"}, {"tcp_src"}}}
Flows == [match : Matches, actions : {<<>>}] \cup [match : {<<>>}, actions : UpTo(2, Actions)]
Posts ==
    {[dpid |-> 1, table_id |-> t, match |-> m, actions |-> a] :
       t \in {0, 2}, m \in {<<>>, [ip_proto |-> 256]}, a \in UpTo(2, Actions)}
Requests == [first : {r \in Posts : Len(r.actions) < 2 \/ (r.table_id = 0 /\ r.match = <<>>)},
             second : {r \in Posts : Len(r.actions) = 1}, command : {"ADD", "DELETE_STRICT"}]

FlowConfigs == {<<>>, [priority |-> 7], [ip_src |-> 3, out_port |-> -1], [priority |-> 65536, eth_src |-> 2]}
FlowMaps == [0 .. 1 -> UpTo(2, FlowConfigs)] \cup [{1} -> UpTo(2, FlowConfigs)]
Objects ==
    {[f \in d |-> IF f = "in_port" THEN -1 ELSE 4] :
       d \in SUBSET {"in_port", "out_port", "eth_src", "ip_src", "ip_dst", "modify_eth_dst", "modify_ip_src"}}

\* -3 is OFPP_CONTROLLER.
Applicable == {[type |-> "OUTPUT", port |-> 1, max_len |-> 0], [type |-> "POP_VLAN"],
               [type |-> "OUTPUT", port |-> -3, max_len |-> 0],
               [type |-> "SET_FIELD", field |-> "ipv4_src", value |-> 5],
               [type |-> "SET_FIELD", field |-> "arp_op", value |-> 2]}
Instructions ==
    {[GOTO_TABLE |-> t, METER |-> 3, APPLY_ACTIONS |-> a] : t \in {2, 50}, a \in UpTo(2, Applicable)}
      \cup {[WRITE_METADATA |-> <<6, 7>>, WRITE_ACTIONS |-> a] : a \in UpTo(1, Applicable)}
      \cup {[WRITE_ACTIONS |-> w, APPLY_ACTIONS |-> a] : w, a \in UpTo(1, Applicable)}
RuleMatches == {<<>>, [eth_type |-> 2048, ipv4_src |-> 5, ip_proto |-> 6], [in_port |-> 1, eth_dst |-> 3],
                [in_port |-> -3]}
Rules == [match : RuleMatches, instructions : Instructions]

----------------------------------------------------------------------------
(* One action per conversion *)

Inputs ==
    [text |-> Texts, value |-> Values, config |-> Configs, line |-> Lines, mac |-> MACs, ipv4 |-> IPv4s,
     ipv6 |-> IPv6s, frame |-> Frames, field |-> Fields, match |-> Flows, posts |-> Requests,
     clear |-> 0 .. 3, flows |-> FlowMaps \X {1, 65534}, object |-> Objects,
     algebra |-> FieldPairs, changed |-> {s \cup u : s \in FieldSets, u \in AtMostOne(3)} \X TypeFields,
     packet |-> FieldSets \X FieldSets,
     rules |-> UpTo(1, Rules) \cup [1 .. 2 -> {r \in Rules : r.match = <<>>}]]

Init == kind \in DOMAIN Inputs /\ input \in Inputs[kind] /\ output = Pending

Convert(k, result) == kind = k /\ output = Pending /\ output' = result /\ UNCHANGED <<kind, input>>

ParseText == Convert("text", J!Parse(input))
DumpValue == Convert("value", J!Dump(input))
StartAll == Convert("config", L!StartAll(input))
WriteLine == Convert("line", S!Write(input))
PrintMAC == Convert("mac", A!PrintMAC(input))
PrintIPv4 == Convert("ipv4", A!PrintIPv4(input))
ReadIPv6 == Convert("ipv6", A!ParseIPv6(A!Elided(input.left, input.right)))
ParseFrame == Convert("frame", P!Parser(input))
PackField == Convert("field", W!Pack(W!Adapter(input.f)))
AddMatch == Convert("match", R!ProcessMatches(input.match))
AnswerPosts == Convert("posts", R!HandlePOST(<<>>, "ADD", input.first, 2, {1}))
ClearEntries == Convert("clear", R!HandleDELETE(input))
SwitchUp == Convert("flows", F!OnSwitchUp(input[1], 1, input[2]))
PostFlow == Convert("object", F!ReadFlowFromRequest(input))
RewriteField == Convert("algebra", O!FieldRewrite(input[1], input[2]))
ModifySet == Convert("changed", O!SetModify(input[1], input[2]))
MatchPacket == Convert("packet", O!SetMatches(input[1], input[2]))
ShowRules == Convert("rules", R!HandleGET("1", {"1"}, [d \in {"1"} |-> input]))

Next ==
    \/ ParseText \/ DumpValue \/ StartAll \/ WriteLine \/ PrintMAC \/ PrintIPv4 \/ ReadIPv6
    \/ ParseFrame \/ PackField \/ AddMatch \/ AnswerPosts \/ ClearEntries \/ SwitchUp \/ PostFlow
    \/ ShowRules \/ RewriteField \/ ModifySet \/ MatchPacket

Spec == Init /\ [][Next]_vars

Done(k) == kind = k /\ output # Pending

----------------------------------------------------------------------------
(* What the conversions are to achieve, of the modules above               *)

\* What is written is read back: Json::parse accepts the texts of the grammar
\* and no others and reads what Json::dump wrote; a raft message
\* (simple_serialize.cpp) is read as it was written, and never from a line that
\* lost words; addresses are read in their notations (ethaddr.cc, IPv4Addr.cc,
\* IPv6Addr.cc), but for two of IPv6 of which IPv6ReadsBack makes no claim.
TextsReadBack ==
    /\ Done("text") => J!AcceptsGrammar(input)
    /\ Done("value") => J!ReadsBack(input)
    /\ Done("line") => S!ReadAsWritten(input)
    /\ Done("mac") => A!MACReadsBack(input)
    /\ Done("ipv4") => A!IPv4ReadsBack(input)
    /\ Done("ipv6") => A!IPv6ReadsBack(input.left, input.right)

\* The fields that PacketParser binds lie in the packet and apart, and a match
\* field (FluidOXMAdapter.cc) is unpacked as it was packed.
PacketsEncoded ==
    /\ Done("frame") => P!FieldsApart(output)
    /\ Done("field") => W!UnpackedAsPacked(input.f, input.other)

\* The operators of header fields (oxm/field.hh) and of sets of them
\* (oxm/field_set.hh) are those of Oxm, of which the trace trees are built, and
\* fields of different types are kept apart.
FieldsAreOxm ==
    /\ Done("algebra") =>
         /\ O!TypesApart(input[1], input[2])
         /\ {input[1].type, input[2].type} = {input[3].type} =>
               O!OperatorsAreOxm(input[1], input[2], input[3])
    /\ Done("changed") => O!SetIsOxm(input[1], input[2])
    /\ Done("packet") => O!SetMatchIsOxm(input[1], input[2])

\* Flow entries over REST (RestFlowMod.cc, StaticFlowPusher.cc): a match gets
\* the fields that its fields need, an entry that is shown can be added again,
\* an answer tells of the errors of its own request (of those before it only
\* when an action without a type ended one), clearing leaves a way for every
\* packet to the controller, configured flows have rising priorities, and the
\* two ways to show a flow (FlowManager.cc:135, RestStringProcessing.cc:53)
\* mean the same numbers, but for reserved ports and the next table, which a
\* rule shows differently.
FlowsOverRest ==
    /\ Done("match") => R!MatchIsPrepared(input.match) /\ R!ReaddedAsShown(input.match, input.actions)
    /\ Done("posts") => R!AnswersOwn(input.first, input.second, input.command, 2, {1})
    /\ Done("clear") => R!ClearReachesHandler(input)
    /\ Done("flows") => F!FlowsRanked(input[1], 1, input[2])
    /\ Done("object") => F!RequestPrepared(input)
    /\ Done("rules") => R!ViewsAgree(input)

\* Loader::startAll initializes applications after those they depend on, and
\* starts what the services need or finds the cycle.
LoadedInOrder == Done("config") => L!LoadedInOrder(input, output)
=============================================================================
