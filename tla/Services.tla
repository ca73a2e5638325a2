------------------------------ MODULE Services ------------------------------
(***************************************************************************)
(* Host manager, flow manager, switch manager and the REST event interface *)
(* (HostManager.cc, FlowManager.cc, Switch.cc, Event.cc, RestListener.cc). *)
(*                                                                         *)
(* Three threads.  The controller thread reads the connections: it calls   *)
(* the packet handler of the host manager itself and queues everything     *)
(* else.  The thread of the applications takes the queue in order, and     *)
(* their slots call each other directly.  The thread of the HTTP server    *)
(* answers one request at a time.  Nothing keeps the first two apart: the  *)
(* steps of a packet handler and of a slot interleave, and the additions   *)
(* of events are not atomic.                                               *)
(*                                                                         *)
(* The switches and the REST client are external.  Each switch has one     *)
(* port, answers a request with one message, and its connections do not    *)
(* overlap.  Torn accesses to unlocked containers are left out.            *)
(***************************************************************************)
EXTENDS HostManager, FlowManager

CONSTANTS
    Flows,       \* what a table may hold: [cookie, match]
    PortMac(_),  \* the address of the port of a switch
    Scenarios,   \* bounds: [dpids, apps, timer, packets, faults, changes, deletes],
                 \* where packets are what hosts send: [src, ip, in_port]
    MaxAsked,    \* bound: flow requests and answers under way of one switch
    MaxQueue     \* bound: connections and answers add to the queue up to this length

VARIABLES
    scenario,    \* what is left of the bounds
    open,        \* connections that are alive
    asked,       \* open requests of each switch: [ports : BOOLEAN, flows : Nat]
    table,       \* the flow table of each switch
    queue,       \* calls queued for the applications' thread
    switches,    \* SwitchManagerImpl::switches: dpid -> addresses of known ports
    up,          \* switches shown as up
    hm, fm, em,  \* HostManager, FlowManager, EventManager
    reported,    \* the last table reported to the flow manager (history)
    client,      \* the REST client: [last_event, view]
    ended,       \* the process ended
    threads,     \* what each thread still has to do, and the id of the event it adds
    overlapped   \* two threads added events at the same time (history)

work == <<threads, overlapped>>

vars == <<scenario, open, asked, table, queue, switches, up, hm, fm, em, reported, client, ended, work>>

Dpids == scenario.dpids
Apps == <<"switch-manager", "host-manager", "flow-manager">>
Hash == Hashes(Apps)
SwitchObject(d) == <<"switch", d>>
HashMap(apps) == UNION {Hash[a] : a \in apps}

Ready(todo) == [todo |-> todo, stage |-> "next", id |-> 0]
Idle(t) == threads[t].todo = <<>>
Goes(t, todo) == threads' = [threads EXCEPT ![t] = Ready(todo)]

Init ==
    /\ scenario \in Scenarios
    /\ open = {}
    /\ asked = [d \in Dpids |-> [ports |-> FALSE, flows |-> 0]]
    /\ table = [d \in Dpids |-> {}]
    /\ queue = <<>>
    /\ switches = <<>>
    /\ up = {}
    /\ hm = NoHosts
    /\ fm = NoRules(Dpids)
    /\ em = NoEvents
    /\ reported = [d \in Dpids |-> {}]
    /\ client = [last_event |-> 0, view |-> {}]
    /\ ended = FALSE
    /\ threads = [t \in {"controller", "applications"} |-> Ready(<<>>)]
    /\ overlapped = FALSE

----------------------------------------------------------------------------
(* The switches and the controller thread                                  *)

Connect(d) ==
    /\ Idle("controller")
    /\ d \notin open
    /\ Len(queue) < MaxQueue
    /\ open' = open \cup {d}
    /\ queue' = Append(queue, [call |-> "up", dpid |-> d])
    /\ UNCHANGED <<scenario, asked, table, switches, up, hm, fm, em, reported, client, ended, work>>

\* Open requests die with the connection.
Disconnect(d) ==
    /\ Idle("controller")
    /\ d \in open
    /\ scenario.faults > 0
    /\ scenario' = [scenario EXCEPT !.faults = @ - 1]
    /\ open' = open \ {d}
    /\ asked' = [asked EXCEPT ![d] = [ports |-> FALSE, flows |-> 0]]
    /\ queue' = Append(queue, [call |-> "down", dpid |-> d])
    /\ UNCHANGED <<table, switches, up, hm, fm, em, reported, client, ended, work>>

\* Flows come and go by flow mods of other applications and by timeouts.
ChangeTable(d, f) ==
    /\ scenario.changes > 0
    /\ scenario' = [scenario EXCEPT !.changes = @ - 1]
    /\ table' = [table EXCEPT ![d] = IF f \in @ THEN @ \ {f} ELSE @ \cup {f}]
    /\ UNCHANGED <<open, asked, queue, switches, up, hm, fm, em, reported, client, ended, work>>

SendPorts(d) ==
    /\ Idle("controller")
    /\ asked[d].ports
    /\ Len(queue) < MaxQueue
    /\ asked' = [asked EXCEPT ![d].ports = FALSE]
    /\ queue' = Append(queue, [call |-> "ports", dpid |-> d])
    /\ UNCHANGED <<scenario, open, table, switches, up, hm, fm, em, reported, client, ended, work>>

SendFlows(d) ==
    /\ Idle("controller")
    /\ asked[d].flows > 0
    /\ Len(queue) < MaxQueue
    /\ asked' = [asked EXCEPT ![d].flows = @ - 1]
    /\ queue' = Append(queue, [call |-> "flows", dpid |-> d, flows |-> table[d]])
    /\ UNCHANGED <<scenario, open, table, switches, up, hm, fm, em, reported, client, ended, work>>

\* The handler of HostManager starts.
PacketIn(d) ==
    /\ Idle("controller")
    /\ d \in open
    /\ scenario.packets # <<>>
    /\ scenario' = [scenario EXCEPT !.packets = Tail(@)]
    /\ Goes("controller", Handle(hm, d, Head(scenario.packets)))
    /\ UNCHANGED <<open, asked, table, queue, switches, up, hm, fm, em, reported, client, ended, overlapped>>

----------------------------------------------------------------------------
(* The applications' thread                                                *)

Asking(ds, a) == [d \in DOMAIN a |-> IF d \in ds \cap open THEN [a[d] EXCEPT !.flows = @ + 1] ELSE a[d]]

\* SwitchManager::onSwitchUp with FlowManager::onSwitchUp
SlotSwitchUp(d) ==
    /\ switches' = IF d \in DOMAIN switches THEN switches ELSE (d :> <<>>) @@ switches
    /\ up' = up \cup {d}
    /\ asked' = [Asking({d}, asked) EXCEPT ![d].ports = @ \/ d \in open]
    /\ Goes("applications", <<Addition("Add", SwitchObject(d), Hash["switch-manager"])>>)
    /\ UNCHANGED <<hm, fm, reported>>

\* SwitchManager::onSwitchDown: setDown clears the ports before the slots of the
\* host manager and the flow manager run.
SlotSwitchDown(d) ==
    /\ d \in DOMAIN switches
    /\ switches' = [switches EXCEPT ![d] = <<>>]
    /\ up' = up \ {d}
    /\ Goes("applications",
            <<DelHostForSwitch(hm, d)>> \o CleanSwitchRules(fm, Hash["flow-manager"], d)
            \o <<Addition("Delete", SwitchObject(d), Hash["switch-manager"])>>)
    /\ reported' = [reported EXCEPT ![d] = {}]
    /\ UNCHANGED <<asked, hm, fm>>

\* SwitchManager::onPortDescriptions with HostManager::newPort
SlotPortDescriptions(d) ==
    /\ LET new == SelectSeq(<<PortMac(d)>>, LAMBDA mac : mac \notin ToSet(switches[d]))
       IN  /\ switches' = [switches EXCEPT ![d] = @ \o new]
           /\ hm' = NewPorts(hm, new)
    /\ UNCHANGED <<asked, up, fm, reported, threads>>

\* FlowManager::onResponse
SlotResponse(d, flows) ==
    /\ \E update \in {UpdateSwitchRules(fm, Hash["flow-manager"], d, SetToSeq(flows))} :
          /\ Goes("applications", update.steps)
          /\ fm' = [fm EXCEPT !.last_id = update.last_id]
    /\ reported' = [reported EXCEPT ![d] = flows]
    /\ UNCHANGED <<asked, switches, up, hm>>

Slot ==
    /\ Idle("applications")
    /\ queue # <<>>
    /\ queue' = Tail(queue)
    /\ LET c == Head(queue)
       IN  \/ c.call = "up" /\ SlotSwitchUp(c.dpid)
           \/ c.call = "down" /\ SlotSwitchDown(c.dpid)
           \/ c.call = "ports" /\ SlotPortDescriptions(c.dpid)
           \/ c.call = "flows" /\ SlotResponse(c.dpid, c.flows)
    /\ UNCHANGED <<scenario, open, table, em, client, ended, overlapped>>

Answers(d) == Len(SelectSeq(queue, LAMBDA c : c.call = "flows" /\ c.dpid = d))

\* Mutant: the loop ends after the first switch.
TimerEventFirst ==
    /\ scenario.timer
    /\ Idle("applications")
    /\ DOMAIN switches \cap open # {}
    /\ \A d \in Dpids : asked[d].flows + Answers(d) < MaxAsked
    /\ asked' = Asking({Min(DOMAIN switches \cap open)}, asked)
    /\ UNCHANGED <<scenario, open, table, queue, switches, up, hm, fm, em, reported, client, ended, work>>

\* FlowManager::timerEvent: asks the switches whose connection is alive.
TimerEvent ==
    /\ scenario.timer
    /\ Idle("applications")
    /\ DOMAIN switches \cap open # {}
    /\ \A d \in Dpids : asked[d].flows + Answers(d) < MaxAsked
    /\ asked' = Asking(DOMAIN switches, asked)
    /\ UNCHANGED <<scenario, open, table, queue, switches, up, hm, fm, em, reported, client, ended, work>>

----------------------------------------------------------------------------
(* The steps of a packet handler and of the slots                          *)

\* addToEventList gives up without a hash; otherwise the event reads last_event.
Draw(t, add) ==
    /\ threads[t].stage = "next"
    /\ IF add.hash = {}
       THEN Goes(t, Tail(threads[t].todo)) /\ UNCHANGED overlapped
       ELSE /\ threads' = [threads EXCEPT ![t].stage = "read", ![t].id = em.last_event + 1]
            /\ overlapped' = (overlapped \/ \E other \in DOMAIN threads : threads[other].stage # "next")
    /\ UNCHANGED <<hm, fm, em, ended>>

\* getLastID writes it back.
Store(t) ==
    /\ threads[t].stage = "read"
    /\ threads' = [threads EXCEPT ![t].stage = "numbered"]
    /\ em' = [em EXCEPT !.last_event = threads[t].id]
    /\ UNCHANGED <<hm, fm, ended, overlapped>>

\* The rest of addToEventList
Push(t, add) ==
    /\ threads[t].stage = "numbered"
    /\ IF NoBrother(em, add)
       THEN ended' = TRUE /\ UNCHANGED <<em, threads>>
       ELSE /\ em' = Pushed(em, threads[t].id, add)
            /\ Goes(t, Tail(threads[t].todo))
            /\ UNCHANGED ended
    /\ UNCHANGED <<hm, fm, overlapped>>

\* addHost.  getSwitch gives a null pointer while the switch manager has not
\* handled the connection, and addHost follows it.
StepAdd(t, dpid, pkt) ==
    /\ IF dpid \in DOMAIN switches
       THEN /\ hm' = AddHost(hm, dpid, pkt)
            /\ Goes(t, <<Addition("Add", HostObject(hm'.hosts[pkt.src]), Hash["host-manager"])>>)
            /\ UNCHANGED ended
       ELSE ended' = TRUE /\ UNCHANGED <<hm, threads>>
    /\ UNCHANGED <<fm, em, overlapped>>

\* getHost gives a null pointer if the host has been erased since findMac.
StepUpdate(t, mac, ip) ==
    /\ IF FindMac(hm, mac)
       THEN hm' = UpdateHost(hm, mac, ip) /\ Goes(t, <<>>) /\ UNCHANGED ended
       ELSE ended' = TRUE /\ UNCHANGED <<hm, threads>>
    /\ UNCHANGED <<fm, em, overlapped>>

\* The loop of delHostForSwitch comes to a host of the switch, or ends.
StepHosts(t, loop) ==
    /\ \/ /\ \E mac \in HostsOf(hm, loop.dpid) :
                Goes(t, DelHost(hm, mac, Hash["host-manager"])
                        \o <<[loop EXCEPT !.left = @ \ {mac}]>> \o Tail(threads[t].todo))
          /\ UNCHANGED hm
       \/ /\ loop.left = {}
          /\ hm' = ErasePorts(hm, switches[loop.dpid])
          /\ Goes(t, Tail(threads[t].todo))
    /\ UNCHANGED <<fm, em, ended, overlapped>>

StepErase(t, mac) ==
    /\ hm' = EraseHost(hm, mac)
    /\ Goes(t, Tail(threads[t].todo))
    /\ UNCHANGED <<fm, em, ended, overlapped>>

StepRules(t, dpid, rules) ==
    /\ fm' = [fm EXCEPT !.rules[dpid] = rules]
    /\ Goes(t, Tail(threads[t].todo))
    /\ UNCHANGED <<hm, em, ended, overlapped>>

Step(t) ==
    /\ ~Idle(t)
    /\ LET now == Head(threads[t].todo)
       IN  \/ now.op = "event" /\ (Draw(t, now) \/ Store(t) \/ Push(t, now))
           \/ now.op = "add" /\ StepAdd(t, now.dpid, now.pkt)
           \/ now.op = "update" /\ StepUpdate(t, now.mac, now.ip)
           \/ now.op = "hosts" /\ StepHosts(t, now)
           \/ now.op = "erase" /\ StepErase(t, now.mac)
           \/ now.op = "rules" /\ StepRules(t, now.dpid, now.rules)
    /\ UNCHANGED <<scenario, open, asked, table, queue, switches, up, reported, client>>

----------------------------------------------------------------------------
(* The HTTP server                                                         *)

\* FlowManager::handleDELETE: the rules of the view change with an answer.
HandleDelete(d, i) ==
    /\ scenario.deletes > 0
    /\ d \in DOMAIN switches
    /\ i \in DOMAIN fm.rules[d]
    /\ scenario' = [scenario EXCEPT !.deletes = @ - 1]
    /\ table' = IF d \in open
                THEN [table EXCEPT ![d] = @ \ DeletedBy(fm.rules[d][i].flow, @)]
                ELSE table
    /\ UNCHANGED <<open, asked, queue, switches, up, hm, fm, em, reported, client, ended, work>>

\* What a client makes of the events of an answer: the last one of an object counts.
Viewed(view, events) ==
    LET told == {events[i].obj : i \in DOMAIN events}
        Added(obj) == events[Max({i \in DOMAIN events : events[i].obj = obj})].type = "Add"
    IN  (view \ told) \cup {obj \in told : Added(obj)}

\* The timeout resource for the applications the client is interested in
GetTimeout ==
    /\ \E answer \in {Timeout(em, HashMap(scenario.apps), client.last_event)} :
          client' = [last_event |-> answer.last, view |-> Viewed(client.view, answer.events)]
    /\ UNCHANGED <<scenario, open, asked, table, queue, switches, up, hm, fm, em, reported, ended, work>>

----------------------------------------------------------------------------

Next ==
    /\ ~ended
    /\ \/ \E d \in Dpids :
             \/ Connect(d) \/ Disconnect(d) \/ SendPorts(d) \/ SendFlows(d) \/ PacketIn(d)
             \/ \E f \in Flows : ChangeTable(d, f)
             \/ \E i \in DOMAIN fm.rules[d] : HandleDelete(d, i)
       \/ Slot \/ TimerEvent \/ GetTimeout
       \/ \E t \in DOMAIN threads : Step(t)

Run ==
    /\ ~ended
    /\ \/ Slot \/ TimerEvent
       \/ \E d \in Dpids : SendPorts(d) \/ SendFlows(d)
       \/ \E t \in DOMAIN threads : Step(t)

\* ENABLED Run
CanRun ==
    /\ ~ended
    /\ \/ queue # <<>> \/ \E t \in DOMAIN threads : ~Idle(t)
       \/ scenario.timer /\ DOMAIN switches \cap open # {}
       \/ \E d \in Dpids : asked[d].ports \/ asked[d].flows > 0

\* Weak fairness of Run: the threads, the event loop of the applications and the
\* timer of the flow manager run, and a switch answers as long as its connection is open.
Fairness == []<>(~CanRun) \/ []<><<Run>>_vars

Spec == Init /\ [][Next]_vars /\ Fairness

----------------------------------------------------------------------------
(* Properties                                                              *)

\* Hosts are attached to real ports of known switches (HostManager.cc:146-151),
\* rules have ids that were given out, and as long as no two threads added events
\* at the same time the events are numbered in their order (Event.hh:31).
TypeOK ==
    /\ open \subseteq Dpids /\ up \subseteq DOMAIN switches /\ DOMAIN switches \subseteq Dpids
    /\ \A mac \in DOMAIN hm.hosts :
          LET h == hm.hosts[mac]
          IN  h.obj \in 1 .. hm.made /\ h.switchID \in DOMAIN switches /\ h.switchPort \in 1 .. MaxPort
    /\ \A d \in Dpids : \A i \in DOMAIN fm.rules[d] :
          fm.rules[d][i].id \in 1 .. fm.last_id /\ fm.rules[d][i].flow \in Flows
    /\ \A i \in DOMAIN em.events : em.events[i] \in Event /\ (overlapped \/ em.events[i].id = i)
    /\ overlapped \/ client.last_event \in 0 .. em.last_event

Shows(app, objs) == IF app \in scenario.apps THEN objs ELSE {}

\* The objects of the applications that exist now
Live ==
    Shows("switch-manager", {SwitchObject(d) : d \in up})
    \cup Shows("host-manager", {HostObject(hm.hosts[mac]) : mac \in DOMAIN hm.hosts})
    \cup Shows("flow-manager", UNION {ToSet(RuleObjects(fm.rules[d])) : d \in Dpids})

\* Whatever a client has seen, and whenever it saw it, once no operation is under
\* way the next answer of the timeout resource brings its view to the objects
\* that exist, although events that cancel each other are left out
\* (Event.cc:121-161).  This is for as long as no two threads added events at
\* the same time (Event.cc:29, :174): an id that is drawn first and put into the
\* list last may be below what a client has seen, and then it is never shown.
ClientCatchesUp ==
    (~overlapped /\ \A t \in DOMAIN threads : Idle(t)) =>
        Viewed(client.view, Timeout(em, HashMap(scenario.apps), client.last_event).events) = Live

\* When the queue has been handled, a switch without connection has neither
\* hosts nor rules, however packets, answers and disconnections came
\* (HostManager.cc:186, FlowManager.cc:262).
DownIsEmpty ==
    (queue = <<>> /\ Idle("applications")) =>
        \A d \in Dpids \ open :
            /\ fm.rules[d] = <<>>
            /\ \A mac \in DOMAIN hm.hosts : hm.hosts[mac].switchID # d

\* The rules of a switch are the flows it last reported, one rule for each,
\* whenever no slot is under way (FlowManager.cc:272).
RulesAsReported ==
    Idle("applications") =>
        \A d \in Dpids :
            /\ {fm.rules[d][i].flow : i \in DOMAIN fm.rules[d]} = reported[d]
            /\ Len(fm.rules[d]) = Cardinality(reported[d])

\* The view of the flow manager is corrected in the end, after a deletion by
\* REST too (FlowManager.cc:337): once the tables stay as they are, the rules
\* are the tables of the connected switches.
ViewConverges ==
    <>[](\/ ended
         \/ \A d \in Dpids : {fm.rules[d][i].flow : i \in DOMAIN fm.rules[d]}
                             = IF d \in open THEN table[d] ELSE {})
=============================================================================
