--------------------------- MODULE PacketHandlers ---------------------------
(***************************************************************************)
(* The packet-in handlers of the configured pipeline, run on a packet that *)
(* records what they ask of it (maple/TraceablePacketImpl.cc).             *)
(*                                                                         *)
(* Headers are cut down to the bits that tell the cases of the handlers    *)
(* apart: four ethernet types, the ARP operation, senders A and B and the  *)
(* broadcast address, destinations A and broadcast, two ports.  No handler *)
(* modifies a packet.                                                      *)
(***************************************************************************)
EXTENDS TraceTree, Integers, FiniteSets

CONSTANTS MaxDuration,                                \* duration::max(): never
          IdleShort, IdleLong, HardShort, HardLong    \* 30 s, 60 s, 60 s, 30 min

TimeoutAssumption ==
    /\ {IdleShort, IdleLong, HardShort, HardLong, MaxDuration} \subseteq Nat \ {0}
    /\ IdleShort <= IdleLong /\ IdleLong <= HardShort
    /\ HardShort <= HardLong /\ HardLong <= MaxDuration

ASSUME TimeoutAssumption

----------------------------------------------------------------------------
(* What the handlers decide about a packet (Decision.cc): an immutable     *)
(* value that every handler may refine.  A conflict throws                 *)
(* decision_conflict; here it gives Conflict.                              *)

Lesser(a, b) == IF a <= b THEN a ELSE b

Greater(a, b) == IF a >= b THEN a ELSE b

\* DecisionImpl{}: Undefined with the default Base.
Undefined == [kind |-> "undefined", arg |-> 0, return |-> FALSE,
              idle |-> MaxDuration, hard |-> MaxDuration]

Conflict == [Undefined EXCEPT !.kind = "conflict"]

\* The Base of d with other data: how every variant is built from base().
Becomes(d, kind, arg) == [d EXCEPT !.kind = kind, !.arg = arg]

Return(d) == [d EXCEPT !.return = TRUE]

IdleTimeout(d, seconds) == [d EXCEPT !.idle = Lesser(seconds, @)]

HardTimeout(d, seconds) ==
    [d EXCEPT !.hard = Lesser(seconds, @), !.idle = Lesser(seconds, @)]

Unicast(d, port) ==
    IF d.kind = "undefined" \/ (d.kind = "unicast" /\ d.arg = port)
    THEN Becomes(d, "unicast", port)
    ELSE Conflict

Multicast(d, ports) ==
    IF d.kind = "undefined" \/ (d.kind = "multicast" /\ d.arg = ports)
    THEN Becomes(d, "multicast", ports)
    ELSE Conflict

Broadcast(d) ==
    IF d.kind \in {"undefined", "broadcast"} THEN Becomes(d, "broadcast", 0) ELSE Conflict

Inspect(d, bytes) ==
    IF d.kind = "undefined"
    THEN Becomes(d, "inspect", bytes)
    ELSE IF d.kind = "inspect" THEN Becomes(d, "inspect", Greater(bytes, d.arg)) ELSE Conflict

Drop(d) == Becomes(d, "drop", 0)

Clear(d) == Undefined

\* FlowImpl::disposable: the decision is for one packet, not for a flow.
Disposable(d) == d.idle <= 0

----------------------------------------------------------------------------
(* Packets *)

HighType == <<"eth_type", 1>>
LowType == <<"eth_type", 0>>
ArpOp == <<"arp_op", 0>>
EthSrc == {<<"eth_src", 1>>, <<"eth_src", 0>>}
EthDst == <<"eth_dst", 0>>
InPort == <<"in_port", 0>>

EthType(high, low) == (HighType :> high) @@ (LowType :> low)
IP == EthType(0, 0)
ARP == EthType(0, 1)
LLDP == EthType(1, 0)
OtherType == EthType(1, 1)

\* Only ARP packets have an ARP operation; PacketParser knows no other field.
Address(high, low) == (<<"eth_src", 1>> :> high) @@ (<<"eth_src", 0>> :> low)

AllPackets ==
    LET sources == {Address(0, 0), Address(0, 1), Address(1, 1)}
        kinds == {IP, LLDP, OtherType, ARP @@ (ArpOp :> 0), ARP @@ (ArpOp :> 1)}
    IN  {k @@ s @@ r : k \in kinds, s \in sources, r \in [{EthDst, InPort} -> {0, 1}]}

Src(pkt) ==
    CASE Agree(pkt, Address(0, 0)) -> "A"
      [] Agree(pkt, Address(0, 1)) -> "B"
      [] Agree(pkt, Address(1, 1)) -> "broadcast"
Dst(pkt) == IF pkt[EthDst] = 0 THEN "A" ELSE "broadcast"
Port(pkt) == pkt[InPort] + 1
CorePort == 3            \* where the route to another switch starts

----------------------------------------------------------------------------
(* TraceablePacketImpl.  A run c has the packet, the bits known from       *)
(* earlier calls (cache), the calls passed to the tracer (trace), the      *)
(* decision so far, and what the handlers know and send.                   *)

Start(pkt, known) ==
    [pkt |-> pkt, cache |-> <<>>, trace |-> <<>>, decision |-> Undefined,
     known |-> known, sent |-> <<>>]

Unseen(c, mask) == Widen(c.pkt, mask \ DOMAIN c.cache)

TracedLoad(c, mask) ==
    LET unexplored == Unseen(c, mask)
    IN  IF DOMAIN unexplored = {} THEN c
        ELSE [c EXCEPT !.trace = Append(@, [op |-> "load", data |-> unexplored]),
                       !.cache = Modify(@, unexplored)]

TestResult(c, need) ==
    /\ Agree(Load(c.cache, DOMAIN need), need)
    /\ Agree(Unseen(c, DOMAIN need), need)

TracedTest(c, need) ==
    LET unexplored == Unseen(c, DOMAIN need)
        ret == Agree(unexplored, need)
        call == [op |-> "test", need |-> Widen(need, DOMAIN unexplored), ret |-> ret]
    IN  IF ~Agree(Load(c.cache, DOMAIN need), need) \/ DOMAIN unexplored = {} THEN c
        ELSE [c EXCEPT !.trace = Append(@, call),
                       !.cache = IF ret THEN Modify(@, unexplored) ELSE @]

----------------------------------------------------------------------------
(* The handlers.  known.db is the HostsDatabase of the learning switch     *)
(* (port 0: not known, CorePort: seen at another switch), known.route      *)
(* tells if the topology has a route there, known.seen is the map of the   *)
(* simple learning switch, known.hosts are the hosts of the host manager.  *)

LinkDiscoveryHandler(c) ==
    LET t == TracedTest(c, LLDP)
    IN  IF ~TestResult(c, LLDP) THEN t
        ELSE [t EXCEPT !.decision = Return(Drop(IdleTimeout(@, 0)))]

\* Mutant: the sender is read only after the protocol is known.
HostManagerTestsFirst(c) ==
    LET i == TracedTest(c, IP)
        t == IF TestResult(c, IP) THEN i ELSE TracedTest(i, ARP)
        l == IF Src(c.pkt) \in c.known.hosts THEN t ELSE TracedLoad(t, EthSrc)
    IN  [l EXCEPT !.known.hosts = @ \cup {Src(c.pkt)}]

HostManagerHandler(c) ==
    LET l == TracedLoad(c, EthSrc)
        i == TracedTest(l, IP)
        t == IF TestResult(l, IP) THEN i ELSE TracedTest(i, ARP)
    IN  [t EXCEPT !.known.hosts = @ \cup {Src(c.pkt)}]

\* All requests ask for the address of host A.
ArpHandler(c) ==
    LET t == TracedTest(c, ARP)
        request == ArpOp :> 1
        o == TracedTest(t, request)
        silent == [o EXCEPT !.decision = IdleTimeout(@, 0)]
    IN  IF ~TestResult(c, ARP) THEN t
        ELSE IF ~TestResult(t, request) THEN o
        ELSE IF "A" \in c.known.hosts
             THEN [silent EXCEPT !.sent = Append(@, [type |-> "arp_reply", port |-> Port(c.pkt)]),
                                 !.decision = Return(Drop(@))]
             ELSE silent

\* Mutant: the last port wins.
LearnLast(db, mac, port) ==
    IF mac = "broadcast" THEN db ELSE [db EXCEPT ![mac] = port]

\* HostsDatabase::learn keeps what is known already (emplace).
Learn(db, mac, port) ==
    IF mac = "broadcast" \/ db[mac] # 0 THEN db ELSE [db EXCEPT ![mac] = port]

\* LearningSwitch.  No flow for an unknown address: only this packet is flooded.
Forwarding(c) ==
    LET l == TracedLoad(TracedLoad(c, {EthDst}), {InPort})
        k == [l EXCEPT !.known.db = Learn(@, Src(c.pkt), Port(c.pkt))]
        target == IF Dst(c.pkt) = "broadcast" THEN 0 ELSE k.known.db[Dst(c.pkt)]
        Decided(d) ==
            IF target # 0
            THEN IF target # CorePort \/ k.known.route
                 THEN HardTimeout(IdleTimeout(Unicast(d, target), IdleLong), HardLong)
                 ELSE Return(HardTimeout(IdleTimeout(Drop(d), IdleShort), HardShort))
            ELSE IF Dst(c.pkt) # "broadcast"
                 THEN IdleTimeout(Broadcast(d), 0)
                 ELSE Broadcast(d)
    IN  [k EXCEPT !.decision = Decided(@)]

\* SimpleLearningSwitch.  The result of ret.hard_timeout(...) is not used.
SimpleForwarding(c) ==
    LET l == TracedLoad(TracedLoad(c, EthSrc), {EthDst})
        k == [l EXCEPT !.known.seen = [@ EXCEPT ![Src(c.pkt)] = Port(c.pkt)]]
        target == IF Dst(c.pkt) = "broadcast" THEN 0 ELSE k.known.seen[Dst(c.pkt)]
        Decided(d) ==
            IF target # 0
            THEN HardTimeout(IdleTimeout(Unicast(d, target), IdleLong), HardLong)
            ELSE Broadcast(d)
    IN  IF Src(c.pkt) = "broadcast"
        THEN [l EXCEPT !.decision = Return(Drop(@))]
        ELSE [k EXCEPT !.decision = Decided(@)]

----------------------------------------------------------------------------
Handle(handler, c) ==
    CASE handler = "link-discovery" -> LinkDiscoveryHandler(c)
      [] handler = "host-manager" -> HostManagerHandler(c)
      [] handler = "arp-handler" -> ArpHandler(c)
      [] handler = "learning-switch" -> Forwarding(c)
      [] handler = "simple-learning-switch" -> SimpleForwarding(c)

\* SwitchScope::process: the handlers in turn, until one returns.
RECURSIVE ProcessFrom(_, _)
ProcessFrom(handlers, c) ==
    IF handlers = <<>> \/ c.decision.return THEN c
    ELSE ProcessFrom(Tail(handlers), Handle(Head(handlers), c))

Process(pipeline, pkt, known) == ProcessFrom(pipeline, Start(pkt, known))

=============================================================================
