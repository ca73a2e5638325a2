----------------------------- MODULE MCServices -----------------------------
(***************************************************************************)
(* Instances of Services, RestMultipart, Stats and Startup for TLC.  They  *)
(* share no state; a behaviour is one of one of them.                      *)
(***************************************************************************)
EXTENDS Services

CONSTANT Nothing   \* RestMultipart!None

VARIABLES
    mode,        \* "services", "multipart", "stats" or "startup"
    get, pc, connected, known, requests, replies, response, quit, answered, lost, gets,
    polled, manager, discovered, counters, polls, arrived, stats, thrown,
    config, handlers, flood, isFloodImplementation, handler_table, static_ofresponse, xids,
    min_session_xid, started, refused, pipeline_factory, sent, routed, calls, count

mvars == <<get, pc, connected, known, requests, replies, response, quit, answered, lost, gets>>

M == INSTANCE RestMultipart WITH
        Dpids <- {1, 2}, Kinds <- {"flow", "port"}, PostKinds <- {"flow"}, None <- Nothing,
        MaxGets <- 3, open <- connected, asked <- requests, queue <- replies

svars == <<polled, manager, discovered, counters, polls, arrived, stats, thrown>>

S == INSTANCE Stats WITH
        Dpids <- {1, 2}, Ports <- {1}, MaxCount <- 1, MaxQueue <- 2, open <- polled, asked <- polls,
        replies <- arrived, ended <- thrown

uvars == <<config, handlers, flood, isFloodImplementation, handler_table, static_ofresponse, xids,
           min_session_xid, started, refused, pipeline_factory, sent, routed, calls, count>>

U == INSTANCE Startup WITH
        Handlers <- {<<"forwarding", "learning-switch">>, <<"forwarding", "simple-learning-switch">>,
                     <<"arp-handler", "arp-handler">>},
        Floods <- {"stp", "other"}, Configs <- {<<>>, <<"forwarding">>, <<"arp-handler", "forwarding">>},
        None <- Nothing, MaxCalls <- 3, MaxRequests <- 2, thrown <- refused, requests <- sent

MCPortMac(d) == IF d = 1 THEN "port 1" ELSE "port 2"

Sent(src, ip, in_port) == [src |-> src, ip |-> ip, in_port |-> in_port]
HostA == Sent("a", "none", 1)
HostAWithIp == Sent("a", "ip", 1)
HostB == Sent("b", "none", 2)

\* Packets that are no host: of a port above OFPP_MAX, and of a switch
NoHost == <<Sent("b", "none", 3), Sent("port 1", "none", 1)>>

MCFlows == {[cookie |-> 1, match |-> {}], [cookie |-> 1, match |-> {"eth_src"}]}

All == {"switch-manager", "host-manager", "flow-manager"}

Scene(dpids, apps, timer, packets, faults, changes, deletes) ==
    [dpids |-> dpids, apps |-> apps, timer |-> timer, packets |-> packets, faults |-> faults,
     changes |-> changes, deletes |-> deletes]

MCScenarios == {Scene({1}, All, FALSE, <<HostA, HostAWithIp>>, 1, 0, 0),
                Scene({1}, {"host-manager"}, FALSE, <<HostA, HostB>>, 1, 0, 0),
                Scene({1}, All, FALSE, <<HostA>>, 2, 0, 0),
                Scene({1}, {"switch-manager"}, TRUE, NoHost, 2, 0, 0),
                Scene({1}, {"flow-manager"}, TRUE, <<HostA>>, 0, 1, 0),
                Scene({1}, {"flow-manager"}, TRUE, <<>>, 1, 2, 1),
                Scene({1, 2}, All, FALSE, <<HostA>>, 0, 0, 0),
                Scene({1, 2}, {}, FALSE, <<>>, 1, 0, 0),
                Scene({1, 2}, {}, TRUE, <<>>, 0, 1, 0),
                Scene({}, {}, FALSE, <<>>, 0, 0, 0)}

MCInit ==
    /\ Init /\ M!Init /\ S!Init /\ U!Init
    /\ mode \in IF Dpids = {} THEN {"multipart", "stats", "startup"} ELSE {"services"}
    /\ mode # "startup" => config = <<>>

MCNext ==
    \/ mode = "services" /\ Next /\ UNCHANGED <<mode, mvars, svars, uvars>>
    \/ mode = "multipart" /\ M!Next /\ UNCHANGED <<mode, vars, svars, uvars>>
    \/ mode = "stats" /\ S!Next /\ UNCHANGED <<mode, vars, mvars, uvars>>
    \/ mode = "startup" /\ U!Next /\ UNCHANGED <<mode, vars, mvars, svars>>

MCSpec == MCInit /\ [][MCNext]_<<mode, vars, mvars, svars, uvars>> /\ Fairness /\ M!Fairness

\* The state has its type, a switch that is down has no hosts and no rules, and
\* the rules of another one are those it reported last (HostManager.cc:189,
\* FlowManager.cc:363).
ViewsFollow == TypeOK /\ DownIsEmpty /\ RulesAsReported

\* A client is told the statistics of the switch it asked for
\* (RestMultipart.cc:319); polled counters find their switch, and values are
\* shown for the port they were counted for (Stats.cc:119).
StatisticsAreOwn == M!AnswerIsOwn /\ S!StatsShown

\* A reply is told to the transaction that asked, however transactions were
\* registered (Controller.cc:657); pipeline, flood and tables of a started
\* controller are those of the registrations (Controller.cc:877).
RegistrationsKept == U!RepliesReachOwner /\ U!StartedAsRegistered

\* RestMultipart!GetEnds (RestMultipart.cc:52): a GET whose request and answer
\* are not lost ends.
GetEnds == M!GetEnds
=============================================================================
