----------------------------- MODULE Discovery -----------------------------
(***************************************************************************)
(* Switch manager, link discovery, topology and spanning tree on a network *)
(* of switches (Switch.cc, LinkDiscovery.cc, Topology.cc, STP.cc).         *)
(*                                                                         *)
(* The applications live in one thread and call each other's slots         *)
(* directly.  What the controller thread signals to them is queued, in the *)
(* order in which it was read from the connections.  The connection object *)
(* of a switch is shared: it is alive or not at the moment it is used.     *)
(*                                                                         *)
(* The switches are external.  Each answers and reports in order; nothing  *)
(* orders two switches.  A beacon that was sent may arrive late or never.  *)
(* Reserved ports, which no application uses, are left out; connections of *)
(* one switch do not overlap here (Maple has that).                        *)
(***************************************************************************)
EXTENDS LinkDiscovery, Topology, SpanningTree, TLC

CONSTANTS
    Networks,    \* sets of cables; each is a set of links
    Fresh,       \* those looked at from the start and without bound on polls
    MaxPolls,    \* bound: polls in the other networks
    MaxQueue,    \* bound: switches and beacons add to the queue up to this length
    MaxFaults    \* bound: disconnections and port changes

\* A link is ordered, and a port has at most one cable.
NetworksAssumption ==
    /\ Lifetime \in Nat
    /\ \A N \in Networks :
          /\ N \subseteq (Nat \X Nat) \X (Nat \X Nat)
          /\ \A l \in N : Less(l[1], l[2])
          /\ \A k, l \in N : Ends(k) \cap Ends(l) # {} => k = l

ASSUME NetworksAssumption

VARIABLES
    cables,      \* the network; never changes
    physical,    \* the ports of every switch: port_no -> "up" or "down"
    alive,       \* switches with a connection
    asked,       \* switches that have not answered a port description request
    flying,      \* ports whose last beacon has not arrived
    queue,       \* calls queued for the applications' thread
    switches,    \* SwitchManagerImpl::switches: the known ports of known switches
    ld,          \* LinkDiscovery
    topology,    \* Topology
    stp,         \* STP
    polls,
    faults

external == <<cables, physical, alive>>
applications == <<switches, ld, topology, stp>>
vars == <<cables, physical, alive, asked, flying, queue, switches, ld, topology, stp, polls, faults>>

Ports == EndsOf(cables)
Switches == {p[1] : p \in Ports}
PortsOf(s) == {p[2] : p \in {q \in Ports : q[1] = s}}
States == {"up", "down"}

Running == ld.ok /\ topology.ok /\ stp.ok

----------------------------------------------------------------------------
(* The controller thread and the switches *)

Post(call) == queue' = Append(queue, call)

Room == Running /\ Len(queue) < MaxQueue

Fault == faults < MaxFaults /\ faults' = faults + 1

Connect(s) ==
    /\ Room
    /\ s \notin alive
    /\ alive' = alive \cup {s}
    /\ Post([type |-> "switchUp", dpid |-> s])
    /\ UNCHANGED <<cables, physical, asked, flying, applications, polls, faults>>

Disconnect(s) ==
    /\ Room
    /\ s \in alive
    /\ Fault
    /\ alive' = alive \ {s}
    /\ asked' = asked \ {s}
    /\ Post([type |-> "switchDown", dpid |-> s])
    /\ UNCHANGED <<cables, physical, flying, applications, polls>>

\* state is "up", "down" or "absent".
PortChanges(s, p, state) ==
    LET known == p \in DOMAIN physical[s]
        ports == IF state = "absent" THEN Without(physical[s], {p})
                 ELSE (p :> state) @@ physical[s]
        reason == IF state = "absent" THEN "delete" ELSE IF known THEN "modify" ELSE "add"
    IN  /\ Room
        /\ ports # physical[s]
        /\ Fault
        /\ physical' = [physical EXCEPT ![s] = ports]
        /\ IF s \in alive
           THEN Post([type |-> "portStatus", dpid |-> s, reason |-> reason,
                      port |-> p, state |-> state])
           ELSE UNCHANGED queue
        /\ UNCHANGED <<cables, alive, asked, flying, applications, polls>>

AnswerPortDesc(s) ==
    /\ Room
    /\ s \in asked
    /\ asked' = asked \ {s}
    /\ Post([type |-> "portDesc", dpid |-> s, ports |-> physical[s]])
    /\ UNCHANGED <<external, flying, applications, polls, faults>>

\* A beacon sent from p reaches the other end and comes back as a packet-in.
BeaconArrives(p) ==
    \E link \in cables, q \in Ports :
        /\ Room
        /\ p \in flying /\ Ends(link) = {p, q}
        /\ q[1] \in alive
        /\ q[2] \in DOMAIN physical[q[1]] /\ physical[q[1]][q[2]] = "up"
        /\ flying' = flying \ {p}
        /\ Post([type |-> "beacon", link |-> Link(p, q)])
        /\ UNCHANGED <<external, asked, applications, polls, faults>>

----------------------------------------------------------------------------
(* The applications' thread *)

Call(type) ==
    /\ Running
    /\ queue # <<>>
    /\ Head(queue).type = type
    /\ queue' = Tail(queue)

\* sendLLDP on ports of one switch
SendLLDP(s, ports) ==
    flying' = IF s \in alive THEN flying \cup {<<s, p>> : p \in ports} ELSE flying

\* linkBroken for a set of links, received by Topology and STP
LinksBreak(links) ==
    /\ topology' = LinksBroken(topology, links)
    /\ stp' = OnLinksBroken(stp, links)

\* Mutant: only a new switch is asked for its ports.
RequestOnce(s) == IF s \in alive \ DOMAIN switches THEN asked \cup {s} ELSE asked

RequestPortDescriptions(s) == IF s \in alive THEN asked \cup {s} ELSE asked

\* SwitchManager::onSwitchUp.  A known switch keeps its ports (Switch::setUp).
OnUp ==
    /\ Call("switchUp")
    /\ LET s == Head(queue).dpid
       IN  /\ switches' = IF s \in DOMAIN switches THEN switches ELSE (s :> <<>>) @@ switches
           /\ stp' = IF s \in DOMAIN switches THEN OnSwitchUp(stp, s, alive)
                     ELSE OnSwitchUp(OnSwitchDiscovered(stp, s, alive), s, alive)
           /\ asked' = RequestPortDescriptions(s)
    /\ UNCHANGED <<external, flying, ld, topology, polls, faults>>

\* SwitchManager::onSwitchDown: setDown, then the slots of switchDown
OnDown ==
    /\ Call("switchDown")
    /\ LET s == Head(queue).dpid
           ports == {<<s, p>> : p \in DOMAIN switches[s]}
           broken == LinksAt(ld, ports)
       IN  /\ switches' = [switches EXCEPT ![s] = <<>>]
           /\ ld' = ClearLinksAt(ld, ports)
           /\ topology' = LinksBroken(topology, broken)
           /\ stp' = OnSwitchDown(OnLinksBroken(stp, broken), s)
    /\ UNCHANGED <<external, asked, flying, polls, faults>>

\* clearLinkAt of one port, with the slots of linkBroken
PortDown(port) ==
    /\ ld' = ClearLinksAt(ld, {port})
    /\ LinksBreak(LinksAt(ld, {port}))
    /\ UNCHANGED flying

\* Switch::portStatus and the slots of portUp, portDown and portModified
OnPortStatus ==
    /\ Call("portStatus")
    /\ LET s == Head(queue).dpid
           p == Head(queue).port
           state == Head(queue).state
           reason == Head(queue).reason
           known == p \in DOMAIN switches[s]
           falls == state = "down" /\ switches[s][p] = "up"
       IN  \/ /\ reason = "add"
              /\ switches' = [switches EXCEPT ![s] = @ @@ (p :> state)]
              /\ SendLLDP(s, IF state = "up" THEN {p} ELSE {})
              /\ stp' = OnPortUp(stp, s, p, alive)
              /\ UNCHANGED <<ld, topology>>
           \/ /\ reason = "delete"
              /\ switches' = [switches EXCEPT ![s] = Without(@, {p})]
              /\ PortDown(<<s, p>>)
           \/ /\ reason = "modify" /\ ~known
              /\ UNCHANGED <<applications, flying>>
           \/ /\ reason = "modify" /\ known /\ falls
              /\ switches' = [switches EXCEPT ![s][p] = state]
              /\ PortDown(<<s, p>>)
           \/ /\ reason = "modify" /\ known /\ ~falls
              /\ switches' = [switches EXCEPT ![s][p] = state]
              /\ SendLLDP(s, IF state # switches[s][p] THEN {p} ELSE {})
              /\ UNCHANGED <<ld, topology, stp>>
    /\ UNCHANGED <<external, asked, polls, faults>>

\* Switch::portDescArrived and the slots of portUp
OnPortDescriptions ==
    /\ Call("portDesc")
    /\ LET s == Head(queue).dpid
           described == Head(queue).ports
           new == DOMAIN described \ DOMAIN switches[s]
           PortUp(acc, p) == OnPortUp(acc, s, p, alive)
       IN  /\ switches' = [switches EXCEPT ![s] = @ @@ described]
           /\ SendLLDP(s, {p \in new : described[p] = "up"})
           /\ stp' = FoldLeft(PortUp, stp, SetToSeq(new))
    /\ UNCHANGED <<external, asked, ld, topology, polls, faults>>

\* LinkDiscovery::handleBeacon
OnBeacon ==
    /\ Call("beacon")
    /\ LET link == Head(queue).link
       IN  /\ ld' = HandleBeacon(ld, link)
           /\ topology' = IF IsNew(ld, link) THEN LinkDiscovered(topology, link) ELSE topology
           /\ stp' = IF IsNew(ld, link) THEN OnLinkDiscovered(stp, link, alive) ELSE stp
    /\ UNCHANGED <<external, asked, flying, switches, polls, faults>>

\* LinkDiscovery::timerEvent
TimerEvent ==
    /\ Running
    /\ IF cables \in Fresh THEN UNCHANGED polls ELSE polls < MaxPolls /\ polls' = polls + 1
    /\ ld' = Expire(ld)
    /\ LinksBreak(Expired(ld))
    /\ flying' = flying \cup {p \in Ports : /\ p[1] \in alive \cap DOMAIN switches
                                            /\ p[2] \in DOMAIN switches[p[1]]}
    /\ UNCHANGED <<external, asked, queue, switches, faults>>

\* STP::computeSpanningTree
ComputeTree ==
    /\ Running
    /\ ~stp.computed
    /\ \E tree \in SpanningForests(Edges(topology.graph)) :
          stp' = ComputeSpanningTree(stp, tree, alive)
    /\ UNCHANGED <<external, asked, flying, queue, switches, ld, topology, polls, faults>>

----------------------------------------------------------------------------
\* The controller has just started and no switch has connected.
Started ==
    /\ physical = [s \in Switches |-> [p \in PortsOf(s) |-> "up"]]
    /\ alive = {} /\ asked = {} /\ flying = {} /\ queue = <<>>
    /\ switches = <<>>
    /\ ld = NoLinks
    /\ topology = NoTopology
    /\ stp = [switch_list |-> <<>>, group |-> [s \in Switches |-> {}],
              computed |-> FALSE, ok |-> TRUE]

\* All switches are connected, all links are discovered, the tree is computed.
Settled ==
    /\ physical = [s \in Switches |-> [p \in PortsOf(s) |-> "up"]]
    /\ alive = Switches /\ asked = {} /\ flying = {} /\ queue = <<>>
    /\ switches = physical
    /\ ld = [m_links |-> [l \in cables |-> Lifetime],
             m_out_edges |-> [p \in Ports |-> CHOOSE l \in cables : p \in Ends(l)],
             ok |-> TRUE]
    /\ topology = [graph |-> [p \in {Pair(l) : l \in cables} |->
                                 SetToSeq({l \in cables : Pair(l) = p})],
                   topo |-> SetToBag(cables), ok |-> TRUE]
    /\ \E tree \in SpanningForests(cables) :
          LET On(s, p) == \E e \in tree : <<s, p>> \in Ends(e)
          IN  stp = [switch_list |->
                        [s \in Switches |-> [p \in PortsOf(s) |->
                            [broadcast |-> On(s, p), to_switch |-> TRUE]]],
                     group |-> [s \in Switches |-> {p \in PortsOf(s) : On(s, p)}],
                     computed |-> TRUE, ok |-> TRUE]

Init ==
    /\ cables \in Networks
    /\ Settled \/ (cables \in Fresh /\ Started)
    /\ polls = 0
    /\ faults = 0

Next ==
    \/ \E s \in Switches : Connect(s) \/ Disconnect(s) \/ AnswerPortDesc(s)
    \/ \E port \in Ports, state \in States \cup {"absent"} : PortChanges(port[1], port[2], state)
    \/ \E p \in Ports : BeaconArrives(p)
    \/ OnUp \/ OnDown \/ OnPortStatus \/ OnPortDescriptions \/ OnBeacon
    \/ TimerEvent
    \/ ComputeTree

\* The event loop of the applications goes on and their timers fire.
Fairness ==
    /\ WF_vars(OnUp \/ OnDown \/ OnPortStatus \/ OnPortDescriptions \/ OnBeacon)
    /\ WF_vars(TimerEvent)

Spec == Init /\ [][Next]_vars /\ Fairness

----------------------------------------------------------------------------
(* Properties *)

\* Types of the applications' state.
TypeOK ==
    /\ DOMAIN switches \subseteq Switches
    /\ \A s \in DOMAIN switches : switches[s] \in UNION {[P -> States] : P \in SUBSET PortsOf(s)}
    /\ DOMAIN ld.m_links \subseteq cables
    /\ \A l \in DOMAIN ld.m_links : ld.m_links[l] \in 0 .. Lifetime
    /\ DOMAIN stp.switch_list \subseteq DOMAIN switches
    /\ \A s \in DOMAIN stp.switch_list : DOMAIN stp.switch_list[s] \subseteq PortsOf(s)

\* m_links and m_out_edges describe the same links, so that no CHECK or assert
\* of clearLinkAt and timerEvent fails, however beacons, port events and
\* expiries interleave (LinkDiscovery.cc).
LinkTableSound == Sound(ld)

\* The topology has exactly the links of link discovery, each once, in its
\* graph and in its list: no linkDiscovered or linkBroken is missed or doubled,
\* and getLink finds what broke (LinkDiscovery.cc, Topology.cc).
TopologyFollows ==
    /\ topology.ok
    /\ topology.topo = SetToBag(DOMAIN ld.m_links)
    /\ Edges(topology.graph) = DOMAIN ld.m_links
    /\ \A p \in DOMAIN topology.graph : IsInjective(topology.graph[p])

Quiet == Running /\ queue = <<>> /\ asked = {}

\* When nothing is on the way, the switch manager has exactly the ports that a
\* connected switch has, in their state, and none of another: the order of
\* port status messages and port descriptions does not matter (the FIXME in
\* Switch::portDescArrived).
PortsKnown ==
    Quiet => \A s \in DOMAIN switches :
                switches[s] = IF s \in alive THEN physical[s] ELSE <<>>

\* computeRoute gives a way from switch to switch along known links, and gives
\* one whenever there is one (Topology.cc).
RouteIsPath ==
    \A from, to \in Switches : \A route \in Routes(topology.graph, from, to) :
        IF route = <<>>
        THEN from = to \/ ~Connected(BagToSet(topology.topo), from, to)
        ELSE /\ Head(route)[1] = from /\ route[Len(route)][1] = to
             /\ \A i \in 1 .. Len(route) \div 2 :
                   \E l \in BagToSet(topology.topo) : Ends(l) = {route[2 * i - 1], route[2 * i]}
             /\ \A i \in 1 .. Len(route) \div 2 - 1 : route[2 * i][1] = route[2 * i + 1][1]

Usable(link) ==
    \A p \in Ends(link) : /\ p[1] \in alive
                          /\ p[2] \in DOMAIN physical[p[1]] /\ physical[p[1]][p[2]] = "up"

UsableCables == {link \in cables : Usable(link)}

\* Cables over which some switch floods.
Flooded == {link \in UsableCables : \E p \in Ends(link) : p[2] \in stp.group[p[1]]}

\* STP is up to date: nothing is on the way, all cables are discovered, the
\* tree is computed.
UpToDate == Quiet /\ stp.computed /\ UsableCables = DOMAIN ld.m_links

\* The spanning tree application knows that a port leads to a switch.
Marked(p) ==
    /\ p[1] \in DOMAIN stp.switch_list
    /\ p[2] \in DOMAIN stp.switch_list[p[1]]
    /\ stp.switch_list[p[1]][p[2]].to_switch

\* When STP is up to date and was told of every link since its switches came
\* up, the groups on the switches flood along a spanning tree: no loop, and
\* every switch is reached (STP.cc).
FloodsAlongTree ==
    (UpToDate /\ \A p \in EndsOf(UsableCables) : Marked(p)) =>
        /\ Forest(Flooded)
        /\ \A link \in UsableCables : Joined(Flooded, link)

\* Flooding has no loop once STP is up to date.
FloodHasNoLoop == UpToDate => Forest(Flooded)

\* A link to a switch that is gone for good is forgotten, unless the process
\* ended: the timer expires what late beacons brought back (timerEvent).  Not
\* for networks with a bound on polls.
DeadLinksForgotten ==
    \A s \in {p[1] : p \in EndsOf(UNION Fresh)} :
        (cables \in Fresh /\ <>[](s \notin alive)) =>
            <>(~Running) \/ <>[](\A l \in DOMAIN ld.m_links : s \notin {l[1][1], l[2][1]})

============================================================================
