----------------------------- MODULE StaticFlow -----------------------------
(***************************************************************************)
(* StaticFlowPusher.cc: flows of the configuration and of REST requests.   *)
(*                                                                         *)
(* A description has the fields of FlowDesc; 0 is its value for a field    *)
(* that is not given, and modify the list of fields to set.  Configured    *)
(* values and texts are numbers.                                           *)
(***************************************************************************)
EXTENDS Integers, Sequences, SequencesExt, FiniteSets

IPv4 == 2048
ToController == 2147483645           \* OFPP_CONTROLLER, below 2^31 here

FlowDesc ==
    [in_port |-> 0, out_port |-> 0, eth_type |-> 0, eth_src |-> 0, eth_dst |-> 0, ip_src |-> 0,
     ip_dst |-> 0, idle |-> 0, hard |-> 0, priority |-> 0, modify |-> <<>>]

\* config_get with default 0
ConfigGet(config, key) == IF key \in DOMAIN config THEN config[key] ELSE 0

\* readFlowFromConfig; -1 is the text that stands for the controller.
ReadFlowFromConfig(config) ==
    [key \in DOMAIN FlowDesc |->
       IF key = "modify" THEN <<>>
       ELSE IF key = "eth_type" THEN 0
       ELSE IF key = "out_port" /\ ConfigGet(config, key) = -1 THEN ToController
       ELSE IF key = "priority" THEN ConfigGet(config, key) % 65536
       ELSE ConfigGet(config, key)]

\* handlePOST: ports if they are positive, addresses if they are not empty,
\* and the fields to modify in a fixed order.
ReadFlowFromRequest(object) ==
    LET Sets(f, name) == IF ConfigGet(object, f) # 0 THEN <<<<name, object[f]>>>> ELSE <<>>
    IN  [FlowDesc EXCEPT
           !.in_port = IF ConfigGet(object, "in_port") > 0 THEN object.in_port ELSE 0,
           !.out_port = IF ConfigGet(object, "out_port") > 0 THEN object.out_port ELSE 0,
           !.eth_src = ConfigGet(object, "eth_src"), !.eth_dst = ConfigGet(object, "eth_dst"),
           !.ip_src = ConfigGet(object, "ip_src"), !.ip_dst = ConfigGet(object, "ip_dst"),
           !.modify = Sets("modify_eth_src", "eth_src") \o Sets("modify_eth_dst", "eth_dst")
                        \o Sets("modify_ip_src", "ipv4_src") \o Sets("modify_ip_dst", "ipv4_dst")]

\* formFlowMod; start_prio counts the flows without a priority.
FormFlowMod(fd, start_prio) ==
    LET Field(f, name) == IF fd[f] > 0 THEN <<<<name, fd[f]>>>> ELSE <<>>
        ip == \/ fd.ip_src # 0 \/ fd.ip_dst # 0
              \/ \E i \in DOMAIN fd.modify : fd.modify[i][1] \in {"ipv4_src", "ipv4_dst"}
        eth_type == IF ip THEN IPv4 ELSE fd.eth_type
    IN  [match |-> Field("in_port", "in_port") \o Field("eth_src", "eth_src")
                     \o Field("eth_dst", "eth_dst") \o Field("ip_src", "ipv4_src")
                     \o Field("ip_dst", "ipv4_dst")
                     \o IF eth_type > 0 THEN <<<<"eth_type", eth_type>>>> ELSE <<>>,
         actions |-> fd.modify \o Field("out_port", "output"),
         idle |-> fd.idle % 65536, hard |-> fd.hard % 65536,
         priority |-> IF fd.priority # 0 THEN fd.priority ELSE start_prio % 65536,
         start_prio |-> IF fd.priority # 0 THEN start_prio ELSE start_prio + 1]

\* onSwitchUp: the flows for all switches, then those of the switch, sent in
\* this order.  flows_map has the key 0 for "all".
OnSwitchUp(flows_map, dpid, start_prio) ==
    LET Flows(key) == IF key \in DOMAIN flows_map THEN flows_map[key] ELSE <<>>
        Send(acc, config) ==
            LET fm == FormFlowMod(ReadFlowFromConfig(config), acc.start_prio)
            IN  [sent |-> Append(acc.sent, fm), start_prio |-> fm.start_prio]
    IN  FoldLeft(Send, [sent |-> <<>>, start_prio |-> start_prio], Flows(0) \o Flows(dpid))

----------------------------------------------------------------------------
(* What pushing is to achieve                                              *)

\* A flow that matches or sets an IPv4 address is for IPv4 packets, no other
\* flow is, and no field is matched twice.
Prepared(fm) ==
    LET Names(s) == {s[i][1] : i \in DOMAIN s}
        ip == {"ipv4_src", "ipv4_dst"} \cap (Names(fm.match) \cup Names(fm.actions)) # {}
    IN  /\ ip <=> <<"eth_type", IPv4>> \in ToSet(fm.match)
        /\ Cardinality(Names(fm.match)) = Len(fm.match)

\* The flow of a request (handlePOST) is prepared.
RequestPrepared(object) == Prepared(FormFlowMod(ReadFlowFromRequest(object), 1))

\* The configured flows without a priority are ranked in the order they are
\* sent, those for all switches first, while start_prio is below 2^16
\* (onSwitchUp); all are prepared.
FlowsRanked(flows_map, dpid, start_prio) ==
    LET all == OnSwitchUp(flows_map, dpid, start_prio)
        Counted(i) ==
            all.sent[i].start_prio > (IF i = 1 THEN start_prio ELSE all.sent[i - 1].start_prio)
    IN  /\ \A i \in DOMAIN all.sent : Prepared(all.sent[i])
        /\ all.start_prio <= 65536 =>
             \A i, j \in DOMAIN all.sent :
               i < j /\ Counted(i) /\ Counted(j) => all.sent[i].priority < all.sent[j].priority
=============================================================================
