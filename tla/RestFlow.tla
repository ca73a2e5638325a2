------------------------------ MODULE RestFlow ------------------------------
(***************************************************************************)
(* RestFlowMod.cc and RestStringProcessing.cc: flow entries that are added *)
(* and shown over REST.                                                    *)
(*                                                                         *)
(* A JSON object is a function from names to values.  In a request the     *)
(* text of a number or of an address is the number it is read as, and -1   *)
(* is a text that is none.  -2 - k is the empty text, for which JSON that  *)
(* is no text is taken as well, when the variable that it is read into     *)
(* held k: string_cast does not initialize it, and nothing is read.        *)
(* Numbers of 32 and 64 bits do not overflow in requests.                  *)
(***************************************************************************)
EXTENDS Integers, Sequences, SequencesExt, FiniteSets

IPv4 == 2048
ARP == 2054
TCP == 6
UDP == 17

\* The types that the texts of the fields are cast to
Bits8 == {"ip_proto", "vlan_pcp", "ip_dscp", "ip_ecn", "mpls_ttl", "nw_ttl"}
Bits16 == {"tcp_src", "tcp_dst", "udp_src", "udp_dst", "arp_op", "vlan_vid", "eth_type",
           "ethertype", "max_len"}
Addresses == {"ipv4_src", "ipv4_dst", "arp_spa", "arp_tpa", "arp_sha", "arp_tha", "eth_src", "eth_dst"}

\* string_cast<T>: a text that is no number is 0, the empty text is whatever the
\* variable held; TRUE in Overflows throws.
StringCast(text) == IF text = -1 THEN 0 ELSE IF text < -1 THEN -2 - text ELSE text
Overflows(f, text) ==
    (f \in Bits8 /\ StringCast(text) > 255) \/ (f \in Bits16 /\ StringCast(text) > 65535)

\* chooseValue<uint64_t>, and the setter that cuts the value to its own width
ChooseValue(req, f, alternative) == IF f \in DOMAIN req THEN StringCast(req[f]) ELSE alternative
Cut16(v) == v % 65536

----------------------------------------------------------------------------
(* processMatches *)

\* HANDLE_UINT and HANDLE_STRING for a list of fields: those of the request
\* are added in order, and an overflow stops all.
Handle(m, matches, names) ==
    LET One(acc, f) ==
            IF f \notin DOMAIN matches \/ acc.thrown THEN acc
            ELSE IF Overflows(f, matches[f]) THEN [acc EXCEPT !.thrown = TRUE]
            ELSE [acc EXCEPT !.fields = Append(@, <<f, StringCast(matches[f])>>), !.added = TRUE]
    IN  FoldLeft(One, m, names)

\* if (added): the fields that those added before depend on
Implied(m, ether_type, fields) ==
    IF m.added /\ ~m.thrown
    THEN [m EXCEPT !.fields = @ \o fields, !.added = FALSE, !.ether_type = ether_type]
    ELSE m

NoMatch == [fields |-> <<>>, added |-> FALSE, ether_type |-> 0, thrown |-> FALSE]

Layer4(matches) ==
    LET tcp == Implied(Handle(NoMatch, matches, <<"tcp_src", "tcp_dst">>), IPv4,
                       <<<<"eth_type", IPv4>>, <<"ip_proto", TCP>>>>)
    IN  Implied(Handle(tcp, matches, <<"udp_src", "udp_dst">>), IPv4,
                <<<<"eth_type", IPv4>>, <<"ip_proto", UDP>>>>)

Layer3(m, matches) ==
    LET ip == Implied(Handle(m, matches, <<"ip_proto", "ipv4_src", "ipv4_dst">>), IPv4,
                      <<<<"eth_type", IPv4>>>>)
    IN  IF ip.ether_type # 0 THEN ip
        ELSE Implied(Handle(ip, matches, <<"arp_op", "arp_spa", "arp_tpa", "arp_sha", "arp_tha">>),
                     ARP, <<<<"eth_type", ARP>>>>)

ProcessMatches(matches) ==
    Handle(Layer3(Layer4(matches), matches), matches,
           <<"vlan_vid", "vlan_pcp", "in_port", "in_phy_port", "metadata", "eth_dst", "eth_src",
             "eth_type">>)

\* of13::Match keeps one field of a kind, the last that was added.
Kept(fields) ==
    [f \in {fields[i][1] : i \in DOMAIN fields} |->
       fields[CHOOSE i \in DOMAIN fields :
                fields[i][1] = f /\ \A j \in i + 1 .. Len(fields) : fields[j][1] # f][2]]

----------------------------------------------------------------------------
(* processActions *)

\* The parameters of the actions (SET_ACT); SET_FIELD has field and value.
Parameters ==
    [OUTPUT |-> <<"port", "max_len">>, COPY_TTL_OUT |-> <<>>, COPY_TTL_IN |-> <<>>,
     SET_MPLS_TTL |-> <<"mpls_ttl">>, DEC_MPLS_TTL |-> <<>>, PUSH_VLAN |-> <<"ethertype">>,
     POP_VLAN |-> <<>>, PUSH_MPLS |-> <<"ethertype">>, POP_MPLS |-> <<"ethertype">>,
     SET_QUEUE |-> <<"queue_id">>, GROUP |-> <<"group_id">>, SET_NW_TTL |-> <<"nw_ttl">>,
     DEC_NW_TTL |-> <<>>, PUSH_PBB |-> <<"ethertype">>, POP_PBB |-> <<>>,
     EXPERIMENTER |-> <<"experimenter">>]

\* doSwitch
SettableFields ==
    {"metadata", "eth_src", "eth_dst", "eth_type", "vlan_vid", "ip_dscp", "ip_ecn", "ip_proto",
     "ipv4_src", "ipv4_dst", "tcp_src", "tcp_dst", "udp_src", "udp_dst", "arp_spa", "arp_tpa",
     "arp_sha", "arp_tha", "arp_op"}

\* processAction.  An error is noted in response_, and the action ignored; an
\* action without a type is noted too, but then ends the request.
ProcessAction(acc, action) ==
    IF acc.thrown THEN acc
    ELSE IF "type" \notin DOMAIN action THEN [acc EXCEPT !.thrown = TRUE, !.response = Append(@, action)]
    ELSE IF action.type = "SET_FIELD" THEN
           IF /\ {"field", "value"} \subseteq DOMAIN action /\ action.field \in SettableFields
              /\ ~Overflows(action.field, action.value)
           THEN [acc EXCEPT !.actions = Append(@, [type |-> "SET_FIELD", field |-> action.field,
                                                   value |-> StringCast(action.value)])]
           ELSE [acc EXCEPT !.response = Append(@, action)]
    ELSE IF action.type \in DOMAIN Parameters THEN
           LET names == Parameters[action.type]
               Value(f) == IF f \in DOMAIN action /\ ~Overflows(f, action[f])
                           THEN StringCast(action[f]) ELSE 0
           IN  [acc EXCEPT !.actions =
                  Append(@, [f \in {"type"} \cup ToSet(names) |->
                               IF f = "type" THEN action.type ELSE Value(f)])]
    ELSE acc

ProcessActions(response, actions) ==
    FoldLeft(ProcessAction, [actions |-> <<>>, response |-> response, thrown |-> FALSE], actions)

----------------------------------------------------------------------------
(* The requests.  handler is Controller::handler_table(), switches are the *)
(* known ones, response the member response_.                              *)

\* validateRequest in the mode "full" or "lite"
Valid(req, full, handler, switches) ==
    /\ "dpid" \in DOMAIN req /\ StringCast(req.dpid) \in switches
    /\ full => /\ {"table_id", "match", "actions"} \subseteq DOMAIN req
               /\ StringCast(req.table_id) < handler      \* and no overflow of uint8_t

ProcessInfoAdd(req) ==
    [command |-> "ADD", table_id |-> StringCast(req.table_id),
     cookie |-> ChooseValue(req, "cookie", 0),
     idle_timeout |-> Cut16(ChooseValue(req, "idle_timeout", 10)),
     hard_timeout |-> Cut16(ChooseValue(req, "hard_timeout", 10)),
     priority |-> Cut16(ChooseValue(req, "priority", 0))]

\* table_id is cut to a byte here, without a test.
ProcessInfoDelete(req, command) ==
    [command |-> command, table_id |-> ChooseValue(req, "table_id", 0) % 256,
     cookie |-> ChooseValue(req, "cookie", 0),
     idle_timeout |-> Cut16(ChooseValue(req, "idle_timeout", 0)),
     hard_timeout |-> Cut16(ChooseValue(req, "hard_timeout", 0)),
     priority |-> Cut16(ChooseValue(req, "priority", 0))]

Refused(response) == [response |-> response, reply |-> "error", told |-> <<>>, sent |-> <<>>]

\* Mutant: the noted errors are kept for the next answer.
AnswerKeepsText(response, info, m, a) ==
    IF m.thrown \/ a.thrown THEN Refused(IF m.thrown THEN response ELSE a.response)
    ELSE [response |-> a.response, reply |-> "done", told |-> a.response,
          sent |-> <<[info |-> info, match |-> m.fields, actions |-> a.actions]>>]

\* The end of handlePOST: the flow mod is sent, and response_ becomes part of
\* the answer and empty.  An exception leaves response_ as it is.
Answer(response, info, m, a) ==
    IF m.thrown \/ a.thrown THEN Refused(IF m.thrown THEN response ELSE a.response)
    ELSE [response |-> <<>>, reply |-> "done", told |-> a.response,
          sent |-> <<[info |-> info, match |-> m.fields, actions |-> a.actions]>>]

\* handlePOST of "flowentry", and of "flowentry/delete" or "delete_strict"
HandlePOST(response, command, req, handler, switches) ==
    IF ~Valid(req, command = "ADD", handler, switches) THEN Refused(response)
    ELSE LET m == IF "match" \in DOMAIN req THEN ProcessMatches(req.match) ELSE NoMatch
             a == IF "actions" \in DOMAIN req THEN ProcessActions(response, req.actions)
                  ELSE ProcessActions(response, <<>>)
         IN  Answer(response, IF command = "ADD" THEN ProcessInfoAdd(req)
                              ELSE ProcessInfoDelete(req, command), m, a)

\* handleDELETE of "flowentry/clear": clearTables, installGoto for the tables
\* before the handler's, installTableMissRule; -1 is the controller.
HandleDELETE(handler) ==
    <<[command |-> "DELETE", table_id |-> -1, instruction |-> -1]>>
      \o [k \in 1 .. handler |-> [command |-> "ADD", table_id |-> k - 1, instruction |-> k]]
      \o <<[command |-> "ADD", table_id |-> handler, instruction |-> -1]>>

----------------------------------------------------------------------------
(* What is shown: processMatch, processActions, processSetField.  A number *)
(* is shown as a JSON number (int), or as a text with decimal digits or    *)
(* hexadecimal ones, or as the text of one character with this code.  Of   *)
(* 32 bits, v < 0 stands for v + 2^32: the cast to int shows v.            *)

Number(v) == [form |-> "number", v |-> v]
Dec(v) == [form |-> "dec", v |-> v]
Hex(v) == [form |-> "hex", v |-> v]
Character(v) == [form |-> "char", v |-> v]
Address(v) == [form |-> "address", v |-> v]

\* toString_cast; octets have a specialization, which shows decimal digits only.
ToStringCast(f, v, toHex) ==
    IF f \in Addresses THEN Address(v) ELSE IF toHex /\ f \notin Bits8 THEN Hex(v) ELSE Dec(v)

\* What string_value() and string_cast make of what is shown: a JSON number is
\* no text, and a character is a number if it is a digit.
AsText(shown) ==
    CASE shown.form = "number" -> -2
      [] shown.form = "char" -> IF shown.v \in 48 .. 57 THEN shown.v - 48 ELSE -1
      [] OTHER -> shown.v

\* What a reader takes it for
Meaning(shown) ==
    CASE shown.form = "char" -> <<AsText(shown)>>
      [] shown.form # "number" /\ shown.v < 0 -> <<shown.v, "+ 2^32">>
      [] OTHER -> <<shown.v>>

ShownFields ==
    {"in_port", "in_phy_port", "eth_type", "ip_proto", "tcp_dst", "tcp_src", "udp_dst", "udp_src",
     "metadata", "ipv4_src", "ipv4_dst", "eth_src", "eth_dst", "arp_op", "arp_spa", "arp_tpa",
     "arp_sha", "arp_tha", "vlan_vid", "vlan_pcp"}

ProcessMatch(match) ==
    [f \in DOMAIN match \cap ShownFields |->
       ToStringCast(f, match[f], f \in {"eth_type", "ip_proto", "arp_op"})]

\* The fields of SET_FIELD that have a case of their own, and the names that
\* differ from those that are accepted
ShownSetFields ==
    {"in_port", "eth_src", "eth_dst", "eth_type", "vlan_vid", "ipv4_src", "ipv4_dst", "ip_proto",
     "arp_spa", "arp_tpa", "arp_sha", "arp_tha", "arp_op"}
ShownName(f) == IF f = "ipv4_src" THEN "ip_src" ELSE IF f = "ipv4_dst" THEN "ip_dst" ELSE f

ProcessSetField(action) ==
    IF action.field \in ShownSetFields
    THEN [type |-> "SET_FIELD", field |-> ShownName(action.field),
          value |-> ToStringCast(action.field, action.value, FALSE)]
    ELSE [type |-> "SET_FIELD", unhandled |-> "error"]

ShowAction(action) ==
    IF action.type = "SET_FIELD" THEN ProcessSetField(action)
    ELSE [f \in DOMAIN action \ {"max_len", "experimenter"} |->
            IF f = "type" THEN action.type ELSE ToStringCast(f, action[f], f = "port")]

\* RestMultipart::processMatches: the match of a request for statistics, from
\* the fields it knows and without those they need; an overflow throws.
FilterFields ==
    {"tcp_src", "tcp_dst", "udp_src", "udp_dst", "in_port", "in_phy_port", "metadata", "eth_type",
     "ip_proto", "eth_src", "eth_dst", "ipv4_src", "ipv4_dst"}
ProcessFilter(matches) == [f \in DOMAIN matches \cap FilterFields |-> StringCast(matches[f])]

\* RestMultipart::processInfo; the table is cut to a byte, 255 is OFPTT_ALL.
FilterInfo(req) ==
    [table_id |-> ChooseValue(req, "table_id", 255) % 256, cookie |-> ChooseValue(req, "cookie", 0),
     cookie_mask |-> ChooseValue(req, "cookie_mask", 0)]

----------------------------------------------------------------------------
(* What adding and showing is to achieve                                   *)

\* What OpenFlow asks of a match: the fields that a field needs
Needs(f) ==
    CASE f \in {"tcp_src", "tcp_dst"} -> {<<"eth_type", IPv4>>, <<"ip_proto", TCP>>}
      [] f \in {"udp_src", "udp_dst"} -> {<<"eth_type", IPv4>>, <<"ip_proto", UDP>>}
      [] f \in {"ip_proto", "ipv4_src", "ipv4_dst"} -> {<<"eth_type", IPv4>>}
      [] f \in {"arp_op", "arp_spa", "arp_tpa", "arp_sha", "arp_tha"} -> {<<"eth_type", ARP>>}
      [] OTHER -> {}

IsArp(f) == <<"eth_type", ARP>> \in Needs(f)
IsIP(f) == <<"eth_type", IPv4>> \in Needs(f)

\* The fields a request is about: without those of ARP if there are some of IP
About(matches) ==
    {f \in DOMAIN matches : IsArp(f) => \A g \in DOMAIN matches : ~IsIP(g)}

\* No two fields need different values of a third.
Agreeing(matches) ==
    LET all == UNION {Needs(f) : f \in About(matches)}
                 \cup {<<f, StringCast(matches[f])>> : f \in About(matches) \cap {"eth_type", "ip_proto"}}
    IN  \A p, q \in all : p[1] = q[1] => p = q

\* A request whose fields agree and do not overflow becomes a match with its
\* fields, and no other than those they need, each with one value.
MatchIsPrepared(matches) ==
    LET m == ProcessMatches(matches)
        wanted == {<<f, StringCast(matches[f])>> : f \in About(matches)}
    IN  IF \E f \in About(matches) : Overflows(f, matches[f]) THEN m.thrown
        ELSE Agreeing(matches) => ToSet(m.fields) = wanted \cup UNION {Needs(f) : f \in About(matches)}

\* The match that is shown for an entry, sent as a new entry, is that of the
\* entry; so are its actions, if the display has their parameters and names.
\* Sent as a request for statistics it selects the entry, in every table.
ReaddedAsShown(matches, actions) ==
    LET m == ProcessMatches(matches)
        match == Kept(m.fields)
        a == ProcessActions(<<>>, actions)
        Faithful(x) == IF x.type = "SET_FIELD" THEN x.field \in ShownSetFields /\ ShownName(x.field) = x.field
                       ELSE x.type # "EXPERIMENTER" /\ (x.type = "OUTPUT" => x.max_len = 0)
        shown == ProcessMatch(match)
        again == [f \in DOMAIN shown |-> AsText(shown[f])]
        Again(x) == [f \in DOMAIN x |-> IF f \in {"type", "field"} THEN x[f] ELSE AsText(x[f])]
        filter == ProcessFilter(again)
    IN  /\ ~m.thrown /\ Agreeing(matches) => Kept(ProcessMatches(again).fields) = match
        /\ \A f \in DOMAIN filter : f \in DOMAIN match /\ filter[f] = match[f]
        /\ FilterInfo(match).table_id = 255
        /\ ~a.thrown /\ (\A i \in DOMAIN a.actions : Faithful(a.actions[i])) =>
             ProcessActions(<<>>, [i \in DOMAIN a.actions |-> Again(ShowAction(a.actions[i]))]).actions
               = a.actions

\* An answer tells of the ignored actions of its own request.  The one case in
\* which it also tells of those of the request before it is an action without a
\* type there, and an answer to what was carried out leaves nothing behind.
AnswersOwn(first, second, command, handler, switches) ==
    LET one == HandlePOST(<<>>, "ADD", first, handler, switches)
        two == HandlePOST(one.response, command, second, handler, switches)
        untyped == {i \in DOMAIN first.actions : "type" \notin DOMAIN first.actions[i]}
        left == IF untyped = {} THEN {} ELSE ToSet(first.actions)
    IN  /\ ToSet(two.told) \subseteq ToSet(second.actions) \cup left
        /\ two.reply = "done" => two.response = <<>>

\* After "clear" a packet that matches nothing goes through the tables to the
\* handler's, and from there to the controller.
ClearReachesHandler(handler) ==
    LET mods == HandleDELETE(handler)
        At(t) == CHOOSE i \in 2 .. Len(mods) : mods[i].table_id = t
        path[t \in 0 .. handler] ==
            IF \A i \in 2 .. Len(mods) : mods[i].table_id # t THEN {-2}
            ELSE IF mods[At(t)].instruction = -1 THEN {t}
            ELSE {t} \cup IF mods[At(t)].instruction > handler THEN {-2} ELSE path[mods[At(t)].instruction]
    IN  mods[1].command = "DELETE" /\ path[0] = 0 .. handler

----------------------------------------------------------------------------
(* The two views of the flows of a switch: the rules of FlowManager.cc and *)
(* the statistics of RestStringProcessing.cc.  A flow is a match and a set *)
(* of instructions, one of a type at most: a function from types.          *)

\* Rule::SetField: the fields with a case of their own, ShownName for their names
RuleSetFields ==
    {"in_port", "eth_src", "eth_dst", "eth_type", "vlan_vid", "ipv4_src", "ipv4_dst", "ip_proto"}
RuleValue(f, v) == IF f \in Addresses THEN Address(v) ELSE Number(v)
SetField(action) ==
    IF action.field \in RuleSetFields
    THEN <<ShownName(action.field), RuleValue(action.field, action.value)>>
    ELSE <<"unhandled field", "error">>

OfType(actions, type) == SelectSeq(actions, LAMBDA a : a.type = type)

\* Rule::action_list
ActionList(actions) ==
    [out_port |-> [i \in DOMAIN OfType(actions, "OUTPUT") |-> Number(OfType(actions, "OUTPUT")[i].port)],
     set_field |-> [i \in DOMAIN OfType(actions, "SET_FIELD") |-> SetField(OfType(actions, "SET_FIELD")[i])]]

RuleMatchFields == {"in_port", "eth_src", "eth_dst", "eth_type", "ipv4_src", "ipv4_dst"}
RuleMatch(match) == {<<ShownName(f), RuleValue(f, match[f])>> : f \in DOMAIN match \cap RuleMatchFields}

\* lexical_cast makes a character of a table's number, and digits of metadata.
Instructions(given) ==
    [t \in DOMAIN given \cap {"GOTO_TABLE", "WRITE_METADATA"} |->
       IF t = "GOTO_TABLE" THEN Character(given[t]) ELSE [i \in {1, 2} |-> Dec(given[t][i])]]

\* Rule::to_json; actions that are written are not shown.
RuleToJson(flow) ==
    LET given == flow.instructions
        acts == IF "APPLY_ACTIONS" \in DOMAIN given THEN given["APPLY_ACTIONS"] ELSE <<>>
    IN  [match |-> RuleMatch(flow.match), actions |-> ActionList(acts),
         other |-> Instructions(given)]

\* FlowManager::handleGET: "all" shows nothing; every switch in the manager
\* has its rules, or gets an empty list.
HandleGET(id, switches, rules) ==
    IF id = "all" THEN [reply |-> "nothing"]
    ELSE IF id \notin switches THEN [reply |-> "switch not found"]
    ELSE [reply |-> "rules", rules |-> IF id \in DOMAIN rules
                                       THEN [i \in DOMAIN rules[id] |-> RuleToJson(rules[id][i])] ELSE <<>>]

----------------------------------------------------------------------------

Kinds == {"GOTO_TABLE", "WRITE_METADATA", "WRITE_ACTIONS", "APPLY_ACTIONS", "CLEAR_ACTIONS", "METER"}

\* processInstructions
ProcessInstructions(flow) ==
    LET given == flow.instructions
    IN  [t \in DOMAIN given \cap Kinds |->
           CASE t \in {"WRITE_ACTIONS", "APPLY_ACTIONS"} -> [i \in DOMAIN given[t] |-> ShowAction(given[t][i])]
             [] t = "WRITE_METADATA" -> [i \in {1, 2} |-> Dec(given[t][i])]
             [] t = "CLEAR_ACTIONS" -> "clear_actions"
             [] OTHER -> Dec(given[t])]

\* toJson of flow statistics, without the numbers
StatsToJson(flows) ==
    [i \in DOMAIN flows |-> [match |-> ProcessMatch(flows[i].match), actions |-> ProcessInstructions(flows[i])]]

----------------------------------------------------------------------------

\* What a rule shows of a flow is part of what the statistics show of it, and is
\* taken for the same numbers: the fields of the match, the metadata, and the
\* ports and fields of the actions that are applied, in their order.  Two things
\* are not the same: a rule shows a port from 2^31 on, the reserved ones, as a
\* negative number (FlowManager.cc:121), and the next table as a character
\* (FlowManager.cc:169), of which only the presence is compared.
ViewsAgree(flows) ==
    LET answer == HandleGET("1", {"1"}, [d \in {"1"} |-> flows])
        stats == StatsToJson(flows)
        Same(r, s) == s.v < 0 \/ Meaning(r) = Meaning(s)
    IN  /\ Len(answer.rules) = Len(stats)
        /\ \A i \in DOMAIN flows :
              LET rule == answer.rules[i]
                  stat == stats[i]
                  applied == IF "APPLY_ACTIONS" \in DOMAIN stat.actions
                             THEN stat.actions["APPLY_ACTIONS"] ELSE <<>>
                  sets == OfType(applied, "SET_FIELD")
                  outputs == OfType(applied, "OUTPUT")
              IN  /\ \A shown \in rule.match : \E f \in DOMAIN stat.match :
                        shown[1] = ShownName(f) /\ Same(shown[2], stat.match[f])
                  /\ {"GOTO_TABLE", "WRITE_METADATA"} \cap DOMAIN stat.actions = DOMAIN rule.other
                  /\ "WRITE_METADATA" \in DOMAIN rule.other =>
                        rule.other["WRITE_METADATA"] = stat.actions["WRITE_METADATA"]
                  /\ Len(rule.actions.out_port) = Len(outputs)
                  /\ \A k \in DOMAIN outputs : Same(rule.actions.out_port[k], outputs[k].port)
                  /\ Len(rule.actions.set_field) = Len(sets)
                  /\ \A k \in DOMAIN sets :
                        LET shown == rule.actions.set_field[k]
                        IN  shown[1] # "unhandled field" =>
                               /\ "field" \in DOMAIN sets[k] /\ shown[1] = sets[k].field
                               /\ Same(shown[2], sets[k].value)
=============================================================================
