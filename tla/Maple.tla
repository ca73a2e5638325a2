------------------------------- MODULE Maple -------------------------------
(***************************************************************************)
(* One switch and its SwitchScope (Controller.cc): the trace tree, the     *)
(* flows and their states, and the messages on the OpenFlow connection.    *)
(*                                                                         *)
(* The switch itself is external.  It applies the rule of the highest      *)
(* priority, sends a packet-in when there is none (the table-miss rule),   *)
(* and a flow-removed for every rule that is deleted or times out.         *)
(* Packets are not buffered by the switch: packet-ins carry them.          *)
(*                                                                         *)
(* Handlers of one connection run one after the other.  Barriers are left  *)
(* out: the switch handles messages in order.                              *)
(***************************************************************************)
EXTENDS PacketHandlers

CONSTANTS Packets,        \* the packets that arrive at the switch
          Pipelines,      \* the pipelines that may be configured
          MaxCookie,      \* bound: flows created
          MaxArrivals,    \* bound: packets that arrive
          MaxQueue,       \* bound: packets arrive only while this much is queued
          MaxFaults       \* bound: timeouts of rules, link changes, disconnections

VARIABLES
    pipeline,    \* names of the handlers, in order
    known,       \* what the handlers have learned
    tree,        \* runtime.trace_tree
    flows,       \* SwitchScope::flows, and miss: cookie -> flow
    next_cookie,
    alive,       \* connection->alive(): the scope has a connection to send on
    linked,      \* the switch has a connection whose messages reach the scope
    old_open,    \* an earlier connection of the switch is not closed yet
    toSwitch,    \* messages sent and not handled by the switch yet
    table,       \* the rules of the switch
    toScope,     \* messages of the switch not handled by the scope yet
    arrivals,
    faults

vars == <<pipeline, known, tree, flows, next_cookie, alive, linked, old_open,
          toSwitch, table, toScope, arrivals, faults>>

Cookies == 1 .. MaxCookie
NoPacket == "no packet"

\* FlowImpl as constructed
NewFlow == [state |-> "Egg", packet_in |-> FALSE, pkt |-> NoPacket, expect |-> 0,
            priority |-> 0, match |-> <<>>, decision |-> Undefined]

MissFlow == [NewFlow EXCEPT !.decision = Inspect(@, 128)]

Live == DOMAIN flows

----------------------------------------------------------------------------
(* Messages *)

AddFlow(c, f) == [type |-> "add", cookie |-> c, priority |-> f.priority,
                  match |-> f.match, decision |-> f.decision]
PacketOut(f) == [type |-> "packet_out", pkt |-> f.pkt, decision |-> f.decision]
RemoveAll == [type |-> "remove"]          \* MapleBackend::remove(field_set{})
ClearTables == [type |-> "clear"]         \* with the table-miss rule that follows
PacketIn(pkt, reason) == [type |-> "packet_in", pkt |-> pkt, reason |-> reason]
FlowRemoved(c, reason) == [type |-> "flow_removed", cookie |-> c, reason |-> reason]

\* SwitchConnection::send does nothing when the connection is not alive.
Send(msgs) == toSwitch' = IF alive THEN toSwitch \o msgs ELSE toSwitch

----------------------------------------------------------------------------
(* FlowImpl *)

\* Mutant: an evicted flow waits for the next commit.
InstallsUnlessEvicted(f) == (f.packet_in /\ f.state # "Evicted") \/ f.state = "Active"

\* install: the early returns, what it leaves behind, what it sends.
Installs(f) == f.packet_in \/ f.state = "Active"

AfterInstall(f) ==
    IF ~Installs(f) THEN f
    ELSE [f EXCEPT !.expect = IF f.state = "Egg" THEN @ ELSE @ + 1,
                   !.packet_in = FALSE,
                   !.pkt = NoPacket,
                   !.state = "Active"]

\* Mutant: the flow-mod goes out with the packet-out only.
InstallSendsOnce(c, f) ==
    IF ~f.packet_in THEN <<>>
    ELSE <<PacketOut(f)>> \o (IF Disposable(f.decision) THEN <<>> ELSE <<AddFlow(c, f)>>)

InstallSends(c, f) ==
    IF ~Installs(f) THEN <<>>
    ELSE (IF f.packet_in THEN <<PacketOut(f)>> ELSE <<>>)
           \o (IF Disposable(f.decision) THEN <<>> ELSE <<AddFlow(c, f)>>)

\* Mutant: a flow keeps the first priority it was given.
PlacedOnce(f, priority, match) ==
    [f EXCEPT !.priority = IF @ = 0 THEN priority ELSE @, !.match = match]

\* The assignments of packet_out, before it calls install.
Placed(f, priority, match) == [f EXCEPT !.priority = priority, !.match = match]

AfterRemoved(f, reason) ==
    CASE reason = "delete" ->
            IF f.expect = 1 THEN [f EXCEPT !.expect = 0]
            ELSE [f EXCEPT !.expect = -1, !.state = "Evicted"]
      [] reason = "idle" -> [f EXCEPT !.state = "Idle"]
      [] reason = "hard" -> [f EXCEPT !.state = "Expired"]

\* TraceTree::commit: remove everything, then packet_out for every install call.
Commit(t, fl) ==
    LET rules == Compile(t, DOMAIN fl)
        Install(acc, i) ==
            LET c == rules[i].flow
                f == Placed(acc.flows[c], i, rules[i].match)
            IN  [flows |-> [acc.flows EXCEPT ![c] = AfterInstall(f)],
                 sent |-> acc.sent \o InstallSends(c, f)]
    IN  FoldLeft(Install, [flows |-> fl, sent |-> <<RemoveAll>>], [i \in DOMAIN rules |-> i])

----------------------------------------------------------------------------
(* SwitchScope::processPacketIn *)

\* runtime(pkt): the flow of the tree, or miss.
Found(pkt) == LET f == Lookup(tree, pkt, Live) IN IF f = NoFlow THEN Miss ELSE f

NeedsNewFlow(c) == c = Miss \/ flows[c].state = "Expired"

\* Egg or Idle: the handlers decide, the tree is augmented.
Augmented(c, f, pkt) ==
    LET run == Process(pipeline, pkt, known)
        decided == [f EXCEPT !.decision = run.decision]
        disposable == Disposable(run.decision)
        t == Augment(tree, run.trace, IF disposable THEN NoFlow ELSE c)
        all == (c :> decided) @@ flows
        commit == Commit(t, all)
    IN  /\ known' = run.known
        /\ tree' = t
        /\ IF disposable
           THEN /\ flows' = Restrict(all, DOMAIN all \ {c})
                /\ Send(run.sent \o InstallSends(c, Placed(decided, 1, <<>>)))
           ELSE /\ flows' = commit.flows
                /\ Send(run.sent \o commit.sent)

Woken(c, f) ==
    /\ flows' = [flows EXCEPT ![c] = AfterInstall(f)]
    /\ Send(InstallSends(c, f))
    /\ UNCHANGED <<known, tree>>

\* Active and a packet-in that is no table miss: the decision is made anew,
\* untraced, and the packet waits for the next commit.
Redecided(c, f, pkt) ==
    LET run == Process(pipeline, pkt, known)
    IN  /\ flows' = [flows EXCEPT ![c] = [f EXCEPT !.decision = run.decision]]
        /\ known' = run.known
        /\ Send(run.sent)
        /\ UNCHANGED tree

ProcessPacketIn ==
    /\ toScope # <<>>
    /\ Head(toScope).type = "packet_in"
    /\ LET pkt == Head(toScope).pkt
           fresh == NeedsNewFlow(Found(pkt))
           c == IF fresh THEN next_cookie ELSE Found(pkt)
           old == IF fresh THEN NewFlow ELSE flows[c]
           f == [old EXCEPT !.packet_in = TRUE, !.pkt = pkt]
       IN  /\ next_cookie <= MaxCookie
           /\ next_cookie' = IF fresh THEN next_cookie + 1 ELSE next_cookie
           /\ CASE f.state \in {"Egg", "Idle"} -> Augmented(c, f, pkt)
                [] f.state = "Evicted" -> Woken(c, f)
                [] f.state = "Active" ->
                      IF Head(toScope).reason = "no_match" THEN Woken(c, f)
                      ELSE Redecided(c, f, pkt)
    /\ toScope' = Tail(toScope)
    /\ UNCHANGED <<pipeline, alive, linked, old_open, table, arrivals, faults>>

\* SwitchScope::processFlowRemoved
ProcessFlowRemoved ==
    /\ toScope # <<>>
    /\ Head(toScope).type = "flow_removed"
    /\ LET c == Head(toScope).cookie
           f == AfterRemoved(flows[c], Head(toScope).reason)
       IN  IF c \notin Live \ {Miss} THEN UNCHANGED flows
           ELSE IF f.state = "Expired" THEN flows' = Restrict(flows, Live \ {c})
           ELSE flows' = [flows EXCEPT ![c] = f]
    /\ toScope' = Tail(toScope)
    /\ UNCHANGED <<pipeline, known, tree, next_cookie, alive, linked, old_open, toSwitch, table, arrivals, faults>>

----------------------------------------------------------------------------
(* Link discovery finds or loses a link; a broken link invalidates all     *)
(* trace trees, an expired one does not (LinkDiscovery.cc).                *)

Fault == faults < MaxFaults /\ faults' = faults + 1

LinkBroken ==
    /\ Fault
    /\ known' = [known EXCEPT !.route = FALSE]
    /\ tree' = Unexplored
    /\ Send(<<RemoveAll>>)
    /\ UNCHANGED <<pipeline, flows, next_cookie, alive, linked, old_open, table, toScope, arrivals>>

LinkExpiredOrDiscovered ==
    /\ Fault
    /\ known' = [known EXCEPT !.route = ~@]
    /\ UNCHANGED <<pipeline, tree, flows, next_cookie, alive, linked, old_open, toSwitch, table, toScope, arrivals>>

\* The handler of another switch learns where A is.
LearnElsewhere ==
    /\ known.db["A"] = 0
    /\ known' = [known EXCEPT !.db["A"] = CorePort]
    /\ UNCHANGED <<pipeline, tree, flows, next_cookie, alive, linked, old_open, toSwitch, table, toScope,
                   arrivals, faults>>

\* connection_callback: EVENT_CLOSED and EVENT_DEAD
ConnectionClosed ==
    /\ alive' = FALSE
    /\ tree' = Unexplored
    /\ flows' = Restrict(flows, {Miss})

Disconnected ==
    /\ linked
    /\ Fault
    /\ ConnectionClosed
    /\ linked' = FALSE
    /\ toSwitch' = <<>>
    /\ toScope' = <<>>
    /\ UNCHANGED <<pipeline, known, next_cookie, old_open, table, arrivals>>

\* The close of a connection that the switch has replaced is noticed late.
OldConnectionClosed ==
    /\ old_open
    /\ ConnectionClosed
    /\ old_open' = FALSE
    /\ UNCHANGED <<pipeline, known, next_cookie, linked, toSwitch, table, toScope, arrivals, faults>>

\* FEATURES_REPLY for a known switch: createSwitchScope and reinit.  When the
\* earlier connection is not closed yet the scope is overwritten.
Reconnected ==
    /\ IF linked THEN ~old_open /\ Fault /\ old_open' = TRUE
                 ELSE UNCHANGED <<old_open, faults>>
    /\ alive' = TRUE
    /\ linked' = TRUE
    /\ toSwitch' = <<ClearTables, RemoveAll>>
    /\ toScope' = <<>>
    /\ UNCHANGED <<pipeline, known, tree, flows, next_cookie, table, arrivals>>

----------------------------------------------------------------------------
(* The switch (external) *)

TopRules(pkt) ==
    LET hits == {r \in table : Matches(r.match, pkt)}
    IN  {r \in hits : \A s \in hits : s.priority <= r.priority}

PacketArrives(pkt) ==
    /\ arrivals < MaxArrivals
    /\ Len(toScope) < MaxQueue /\ Len(toSwitch) < MaxQueue
    /\ arrivals' = arrivals + 1
    /\ \/ /\ TopRules(pkt) = {}
          /\ toScope' = IF linked THEN Append(toScope, PacketIn(pkt, "no_match")) ELSE toScope
       \/ \E r \in TopRules(pkt) :
             toScope' = IF linked /\ r.decision.kind = "inspect"
                        THEN Append(toScope, PacketIn(pkt, "action")) ELSE toScope
    /\ UNCHANGED <<pipeline, known, tree, flows, next_cookie, alive, linked, old_open, toSwitch, table, faults>>

\* A rule of another application (StaticFlowPusher) sends the packet to the controller.
SentByOtherRule(pkt) ==
    /\ Fault
    /\ linked
    /\ Len(toScope) < MaxQueue /\ Len(toSwitch) < MaxQueue
    /\ toScope' = Append(toScope, PacketIn(pkt, "action"))
    /\ UNCHANGED <<pipeline, known, tree, flows, next_cookie, alive, linked, old_open, toSwitch, table, arrivals>>

\* OFPFF_CHECK_OVERLAP: a rule that overlaps one of its priority is refused.
Overlaps(m, r) == r.priority = m.priority /\ Agree(r.match, m.match)

SwitchHandles ==
    /\ toSwitch # <<>>
    /\ LET m == Head(toSwitch)
       IN  CASE m.type = "add" ->
                  /\ table' = IF \E r \in table : Overlaps(m, r) THEN table
                              ELSE table \cup {m}
                  /\ UNCHANGED toScope
             [] m.type \in {"remove", "clear"} ->
                  /\ table' = {}
                  /\ toScope' = toScope \o
                       [i \in 1 .. Cardinality(table) |->
                            FlowRemoved(SetToSeq(table)[i].cookie, "delete")]
             [] OTHER -> UNCHANGED <<table, toScope>>
    /\ toSwitch' = Tail(toSwitch)
    /\ UNCHANGED <<pipeline, known, tree, flows, next_cookie, alive, linked, old_open, arrivals, faults>>

RuleTimesOut(r, reason) ==
    /\ Fault
    /\ IF reason = "idle" THEN r.decision.idle < MaxDuration ELSE r.decision.hard < MaxDuration
    /\ table' = table \ {r}
    /\ toScope' = IF linked THEN Append(toScope, FlowRemoved(r.cookie, reason)) ELSE toScope
    /\ UNCHANGED <<pipeline, known, tree, flows, next_cookie, alive, linked, old_open, toSwitch, arrivals>>

----------------------------------------------------------------------------
Init ==
    /\ pipeline \in Pipelines
    /\ known = [db |-> [m \in {"A", "B"} |-> 0], seen |-> [m \in {"A", "B"} |-> 0],
                route |-> FALSE, hosts |-> {}]
    /\ tree = Unexplored
    /\ flows = (Miss :> MissFlow)
    /\ next_cookie = 1
    /\ alive = TRUE /\ linked = TRUE /\ old_open = FALSE
    /\ toSwitch = <<>>
    /\ table = {}
    /\ toScope = <<>>
    /\ arrivals = 0
    /\ faults = 0

Next ==
    \/ ProcessPacketIn
    \/ ProcessFlowRemoved
    \/ LinkBroken
    \/ LinkExpiredOrDiscovered
    \/ LearnElsewhere
    \/ Disconnected
    \/ OldConnectionClosed
    \/ Reconnected
    \/ \E pkt \in Packets : PacketArrives(pkt) \/ SentByOtherRule(pkt)
    \/ SwitchHandles
    \/ \E r \in table, reason \in {"idle", "hard"} : RuleTimesOut(r, reason)

Spec == Init /\ [][Next]_vars

----------------------------------------------------------------------------
(* Properties *)

\* Types: flows of created cookies in a state of Flow.hh, rules and messages of flows.
TypeOK ==
    /\ pipeline \in Pipelines
    /\ next_cookie \in 1 .. MaxCookie + 1
    /\ Miss \in Live /\ Live \subseteq {Miss} \cup 1 .. next_cookie - 1
    /\ \A c \in Live : /\ flows[c].state \in {"Egg", "Active", "Evicted", "Idle", "Expired"}
                       /\ flows[c].expect \in Int
                       /\ flows[c].decision.kind # "conflict"
    /\ \A r \in table : r.type = "add" /\ r.cookie \in Cookies

\* No run of the handlers on any packet can make the tracer throw
\* inconsistent_trace, whatever the handlers have learned since the tree was
\* built (TracerImpl in maple/TraceTree.cc).  The switch changes neither, so in
\* this and the next two it is enough to look when its queue is empty; here
\* also the scope's, for what is left in it may arrive later just as well.
TraceConsistent ==
    (toSwitch = <<>> /\ toScope = <<>> /\ tree # Unexplored) => \A pkt \in AllPackets :
        LET run == Process(pipeline, pkt, known)
        IN  Consistent(tree, run.trace, IF Disposable(run.decision) THEN NoFlow ELSE Miss)

\* The rules that the compiler hands to the backend, barriers included, treat
\* every packet as the lookup in the tree does: Compiler and Lookup of
\* maple/TraceTree.cc agree.
CompilerAgreesWithLookup ==
    toSwitch = <<>> =>
        LET rules == Compile(tree, Live)
        IN  \A pkt \in AllPackets :
            LET a == Applied(rules, pkt)
            IN  Lookup(tree, pkt, Live) = IF a = Miss THEN NoFlow ELSE a

\* What the tree has for a packet is what the learning switch would decide
\* now, except towards a host at another switch, where the route may have
\* changed (LearningSwitch.cc, HostsDatabase).
FlowsCurrent ==
    (toSwitch = <<>> /\ "learning-switch" \in Range(pipeline)) =>
        \A pkt \in AllPackets :
            LET f == Found(pkt) IN
            \/ f = Miss
            \/ Dst(pkt) = "A" /\ known.db["A"] = CorePort
            \/ flows[f].decision = Process(pipeline, pkt, known).decision

Rank(rules, c) == {i \in DOMAIN rules : rules[i].flow = c}

\* Two overlapping rules on the switch are in the order of the tree, also
\* when one was installed again later (FlowImpl::packet_out and wakeup).
OverlapsInOrder ==
    Cardinality(table) > 1 =>
    LET rules == Compile(tree, Live)
    IN  \A r, s \in table :
            (r.cookie # s.cookie /\ Agree(r.match, s.match)) =>
                \A i \in Rank(rules, r.cookie), j \in Rank(rules, s.cookie) :
                    (r.priority < s.priority) <=> (i < j)

\* Nothing is on the way, and the scope was not overwritten under the old connection.
Quiet == alive /\ ~old_open /\ toSwitch = <<>> /\ toScope = <<>>

\* When nothing is on the way, a flow of the tree that is Active has its rule
\* on the switch: expect_remowed does not lose a removal that nothing follows.
ActiveFlowsInstalled ==
    Quiet => \A c \in Live \ {Miss} :
                (Rank(Compile(tree, Live), c) # {} /\ flows[c].state = "Active") =>
                    \E r \in table : r.cookie = c

\* A packet-in for which the flow is not active, or which is a table miss, is
\* answered at once with exactly one packet-out of its packet, with the
\* decision of the flow that the packet belongs to afterwards
\* (processPacketIn), unless an earlier one waits.
PacketInAnswered ==
    [][(/\ ProcessPacketIn /\ alive
        /\ \A c \in Live : ~flows[c].packet_in
        /\ Head(toScope).reason = "action" => flows[Found(Head(toScope).pkt)].state # "Active") =>
          LET pkt == Head(toScope).pkt
              new == SubSeq(toSwitch', Len(toSwitch) + 1, Len(toSwitch'))
              outs == SelectSeq(new, LAMBDA m : m.type = "packet_out")
              f == Lookup(tree', pkt, DOMAIN flows')
          IN  /\ Len(outs) = 1
              /\ outs[1].pkt = pkt
              /\ f # NoFlow => outs[1].decision = flows'[f].decision]_vars

\* A packet that the tree does not know reaches the controller.
UnexploredReachesController ==
    Quiet => \A pkt \in AllPackets : Lookup(tree, pkt, Live) = NoFlow => TopRules(pkt) = {}

=============================================================================
