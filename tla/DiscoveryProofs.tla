-------------------------- MODULE DiscoveryProofs --------------------------
(***************************************************************************)
(* The link table of LinkDiscovery.cc stays sound in every network in      *)
(* which a port has at most one cable, and the graph of Topology.cc        *)
(* follows it where moreover no two cables join the same switches.         *)
(***************************************************************************)
EXTENDS Discovery, FiniteSetTheorems, TLAPS

\* Cables as NetworksAssumption describes them.
Matching(C) ==
    /\ C \subseteq (Nat \X Nat) \X (Nat \X Nat)
    /\ \A l \in C : Less(l[1], l[2])
    /\ \A k, l \in C : Ends(k) \cap Ends(l) # {} => k = l

\* A link table over the links of C.
TableOver(t, C) == Sound(t) /\ DOMAIN t.m_links \subseteq C

----------------------------------------------------------------------------
\* Finding the ends of a set of links: p is an end of one of them.
LEMMA EndsOfMember ==
    ASSUME NEW L, NEW p
    PROVE  p \in EndsOf(L) <=> \E l \in L : p \in Ends(l)
BY DEF EndsOf

\* A beacon of a cable keeps the link table sound: the link it replaces, if
\* there is one, is the link itself (handleBeacon).
LEMMA BeaconKeepsSound ==
    ASSUME NEW C, Matching(C), NEW t, TableOver(t, C), NEW link \in C
    PROVE  TableOver(HandleBeacon(t, link), C)
<1> DEFINE older == Older(t, link)
           links == Without(t.m_links, older)
           cut == IF older = {} THEN {} ELSE Ends(link)
           edges == Without(t.m_out_edges, cut)
           new == HandleBeacon(t, link)
<1>1. /\ Sound(t) /\ DOMAIN t.m_links \subseteq C
  BY DEF TableOver
<1>2. /\ t.ok
      /\ DOMAIN t.m_out_edges = EndsOf(DOMAIN t.m_links)
      /\ \A p \in DOMAIN t.m_out_edges : /\ t.m_out_edges[p] \in DOMAIN t.m_links
                                         /\ p \in Ends(t.m_out_edges[p])
  BY <1>1 DEF Sound
<1>3. \A k, l \in C : Ends(k) \cap Ends(l) # {} => k = l
  BY DEF Matching
<1>4. link[1] \in Ends(link) /\ link[2] \in Ends(link)
  BY DEF Ends
<1>5. \A p \in DOMAIN t.m_out_edges : p \in Ends(link) => t.m_out_edges[p] = link
  BY <1>1, <1>2, <1>3
<1>6. CASE link[1] \in DOMAIN t.m_out_edges
  <2>1. older = {link}
    BY <1>4, <1>5, <1>6 DEF Older
  <2>2. link \in DOMAIN t.m_links
    BY <1>2, <1>4, <1>5, <1>6
  <2>3. /\ DOMAIN links = DOMAIN t.m_links \ {link}
        /\ DOMAIN edges = DOMAIN t.m_out_edges \ Ends(link)
        /\ \A p \in DOMAIN t.m_out_edges \ Ends(link) : edges[p] = t.m_out_edges[p]
    <3>1. cut = Ends(link)
      BY <2>1
    <3> QED BY <2>1, <3>1 DEF Without, Restrict
  <2>4. /\ DOMAIN new.m_links = DOMAIN t.m_links
        /\ DOMAIN new.m_out_edges = DOMAIN t.m_out_edges \cup Ends(link)
        /\ new.ok
        /\ \A p \in DOMAIN new.m_out_edges :
              new.m_out_edges[p] = IF p \in Ends(link) THEN link ELSE t.m_out_edges[p]
    <3> HIDE DEF older, links, cut, edges
    <3>1. new = [m_links |-> [l \in DOMAIN links \cup {link} |->
                                 IF l = link THEN Lifetime ELSE links[l]],
                 m_out_edges |-> [p \in DOMAIN edges \cup Ends(link) |->
                                     IF p \in Ends(link) THEN link ELSE edges[p]],
                 ok |-> t.ok /\ older \subseteq DOMAIN t.m_links]
      BY DEF HandleBeacon, older, links, cut, edges
    <3> HIDE DEF new
    <3>2. new.ok
      BY ZenonT(30), <3>1, <2>1, <2>2, <1>2
    <3>3. DOMAIN new.m_links = DOMAIN t.m_links
      BY <3>1, <2>2, <2>3
    <3>4. DOMAIN new.m_out_edges = DOMAIN t.m_out_edges \cup Ends(link)
      BY <3>1, <2>3
    <3>5. ASSUME NEW p \in DOMAIN new.m_out_edges
          PROVE  new.m_out_edges[p] = IF p \in Ends(link) THEN link ELSE t.m_out_edges[p]
      BY <3>1, <3>4, <2>3
    <3> QED BY <3>2, <3>3, <3>4, <3>5
  <2>5. Ends(link) \subseteq DOMAIN t.m_out_edges
    BY <1>2, <2>2, EndsOfMember
  <2>6. Sound(new)
    <3> HIDE DEF new
    <3> QED BY <1>2, <2>2, <2>4, <2>5 DEF Sound
  <2> HIDE DEF new
  <2> QED BY <1>1, <2>4, <2>6 DEF TableOver, new
<1>7. CASE link[1] \notin DOMAIN t.m_out_edges
  <2>1. older = {}
    BY <1>7 DEF Older
  <2>2. link \notin DOMAIN t.m_links
    BY <1>2, <1>4, <1>7, EndsOfMember
  <2>3. Ends(link) \cap DOMAIN t.m_out_edges = {}
    BY <1>2, <1>5, <2>2
  <2>4. /\ DOMAIN links = DOMAIN t.m_links
        /\ DOMAIN edges = DOMAIN t.m_out_edges
        /\ \A p \in DOMAIN t.m_out_edges : edges[p] = t.m_out_edges[p]
    <3>1. cut = {}
      BY <2>1
    <3> QED BY <2>1, <3>1 DEF Without, Restrict
  <2>5. /\ DOMAIN new.m_links = DOMAIN t.m_links \cup {link}
        /\ DOMAIN new.m_out_edges = DOMAIN t.m_out_edges \cup Ends(link)
        /\ new.ok
        /\ \A p \in DOMAIN new.m_out_edges :
              new.m_out_edges[p] = IF p \in Ends(link) THEN link ELSE t.m_out_edges[p]
    <3> HIDE DEF older, links, cut, edges
    <3>1. new = [m_links |-> [l \in DOMAIN links \cup {link} |->
                                 IF l = link THEN Lifetime ELSE links[l]],
                 m_out_edges |-> [p \in DOMAIN edges \cup Ends(link) |->
                                     IF p \in Ends(link) THEN link ELSE edges[p]],
                 ok |-> t.ok /\ older \subseteq DOMAIN t.m_links]
      BY DEF HandleBeacon, older, links, cut, edges
    <3> HIDE DEF new
    <3>2. new.ok
      BY Zenon, <3>1, <2>1, <1>2
    <3>3. DOMAIN new.m_links = DOMAIN t.m_links \cup {link}
      BY <3>1, <2>4
    <3>4. DOMAIN new.m_out_edges = DOMAIN t.m_out_edges \cup Ends(link)
      BY <3>1, <2>4
    <3>5. ASSUME NEW p \in DOMAIN new.m_out_edges
          PROVE  new.m_out_edges[p] = IF p \in Ends(link) THEN link ELSE t.m_out_edges[p]
      BY <3>1, <3>4, <2>4
    <3> QED BY <3>2, <3>3, <3>4, <3>5
  <2>6. EndsOf(DOMAIN new.m_links) = EndsOf(DOMAIN t.m_links) \cup Ends(link)
    BY <2>5 DEF EndsOf
  <2>7. Sound(new)
    <3> HIDE DEF new
    <3> QED BY Zenon, <1>2, <2>5, <2>6 DEF Sound
  <2> HIDE DEF new
  <2> QED BY <1>1, <2>5, <2>7 DEF TableOver, new
<1> QED BY <1>6, <1>7

\* Removing links together with their ends keeps the link table sound, as long
\* as no other link shares an end with them.
LEMMA RemovalKeepsSound ==
    ASSUME NEW C, Matching(C), NEW t, TableOver(t, C), NEW broken \in SUBSET DOMAIN t.m_links,
           NEW u, u.ok,
           DOMAIN u.m_links = DOMAIN t.m_links \ broken,
           u.m_out_edges = Without(t.m_out_edges, EndsOf(broken))
    PROVE  TableOver(u, C)
<1>1. /\ DOMAIN t.m_links \subseteq C
      /\ DOMAIN t.m_out_edges = EndsOf(DOMAIN t.m_links)
      /\ \A p \in DOMAIN t.m_out_edges : /\ t.m_out_edges[p] \in DOMAIN t.m_links
                                         /\ p \in Ends(t.m_out_edges[p])
  BY DEF TableOver, Sound
<1>2. \A k, l \in C : Ends(k) \cap Ends(l) # {} => k = l
  BY DEF Matching
<1>3. /\ DOMAIN u.m_out_edges = DOMAIN t.m_out_edges \ EndsOf(broken)
      /\ \A p \in DOMAIN u.m_out_edges : u.m_out_edges[p] = t.m_out_edges[p]
  BY DEF Without, Restrict
<1>4. ASSUME NEW p \in DOMAIN u.m_out_edges
      PROVE  u.m_out_edges[p] \in DOMAIN u.m_links /\ p \in Ends(u.m_out_edges[p])
  <2>1. p \notin EndsOf(broken)
    BY <1>3
  <2>2. t.m_out_edges[p] \notin broken
    BY <1>1, <1>3, <2>1, EndsOfMember
  <2> QED BY <1>1, <1>3, <2>2
<1>5. DOMAIN u.m_out_edges = EndsOf(DOMAIN u.m_links)
  <2>1. ASSUME NEW p \in DOMAIN u.m_out_edges
        PROVE  p \in EndsOf(DOMAIN u.m_links)
    BY <1>4, EndsOfMember
  <2>2. ASSUME NEW p \in EndsOf(DOMAIN u.m_links)
        PROVE  p \in DOMAIN u.m_out_edges
    <3>1. PICK l \in DOMAIN u.m_links : p \in Ends(l)
      BY EndsOfMember
    <3>2. l \in DOMAIN t.m_links /\ l \notin broken
      OBVIOUS
    <3>3. \A k \in broken : p \notin Ends(k)
      BY <1>1, <1>2, <3>1, <3>2
    <3>4. p \in EndsOf(DOMAIN t.m_links)
      BY <3>1, <3>2, EndsOfMember
    <3>5. p \notin EndsOf(broken)
      BY <3>3, EndsOfMember
    <3> QED BY <1>1, <1>3, <3>4, <3>5
  <2> QED BY <2>1, <2>2
<1> QED BY <1>1, <1>4, <1>5 DEF TableOver, Sound

\* clearLinkAt, on any ports, fails no CHECK and keeps the table sound.
LEMMA ClearKeepsSound ==
    ASSUME NEW C, Matching(C), NEW t, TableOver(t, C), NEW ports
    PROVE  TableOver(ClearLinksAt(t, ports), C)
<1> DEFINE broken == LinksAt(t, ports)
           u == ClearLinksAt(t, ports)
<1>1. /\ t.ok
      /\ DOMAIN t.m_out_edges = EndsOf(DOMAIN t.m_links)
      /\ \A p \in DOMAIN t.m_out_edges : /\ t.m_out_edges[p] \in DOMAIN t.m_links
                                         /\ p \in Ends(t.m_out_edges[p])
  BY DEF TableOver, Sound
<1>2. broken \in SUBSET DOMAIN t.m_links
  BY <1>1 DEF LinksAt
<1>3. EndsOf(broken) \subseteq DOMAIN t.m_out_edges
  BY <1>1, <1>2 DEF EndsOf
<1>4. /\ u.ok
      /\ u.m_links = Without(t.m_links, broken)
      /\ u.m_out_edges = Without(t.m_out_edges, EndsOf(broken))
  BY <1>1, <1>2, <1>3 DEF ClearLinksAt
<1>5. DOMAIN u.m_links = DOMAIN t.m_links \ broken
  BY <1>4 DEF Without, Restrict
<1> HIDE DEF broken, u
<1>6. TableOver(u, C)
  BY <1>2, <1>4, <1>5, RemovalKeepsSound
<1> QED BY <1>6 DEF u

\* The timer fails no assert and keeps the table sound.
LEMMA ExpireKeepsSound ==
    ASSUME NEW C, Matching(C), NEW t, TableOver(t, C)
    PROVE  TableOver(Expire(t), C)
<1> DEFINE broken == Expired(t)
           u == Expire(t)
<1>1. t.ok /\ DOMAIN t.m_out_edges = EndsOf(DOMAIN t.m_links)
  BY DEF TableOver, Sound
<1>2. broken \in SUBSET DOMAIN t.m_links
  BY DEF Expired
<1>3. EndsOf(broken) \subseteq DOMAIN t.m_out_edges
  BY <1>1, <1>2 DEF EndsOf
<1>4. /\ u.ok
      /\ DOMAIN u.m_links = DOMAIN t.m_links \ broken
      /\ u.m_out_edges = Without(t.m_out_edges, EndsOf(broken))
  BY Zenon, <1>1, <1>3 DEF Expire
<1> HIDE DEF broken, u
<1>5. TableOver(u, C)
  BY <1>2, <1>4, RemovalKeepsSound
<1> QED BY <1>5 DEF u

----------------------------------------------------------------------------
(* The queue of calls *)

BeaconOf(call, C) == call.type = "beacon" => call.link \in C

\* A sequence in which every beacon is of a link of C.
BeaconsOf(q, C) ==
    /\ \E S : q \in Seq(S)
    /\ \A i \in 1 .. Len(q) : BeaconOf(q[i], C)

\* Queueing a call that is no beacon, or one of a cable.
LEMMA AppendBeacons ==
    ASSUME NEW q, NEW C, BeaconsOf(q, C), NEW call, BeaconOf(call, C)
    PROVE  BeaconsOf(Append(q, call), C)
<1>1. PICK S : q \in Seq(S)
  BY DEF BeaconsOf
<1>2. q \in Seq(S \cup {call})
  BY <1>1
<1>3. Append(q, call) \in Seq(S \cup {call})
  BY <1>2
<1>4. ASSUME NEW i \in 1 .. Len(Append(q, call))
      PROVE  BeaconOf(Append(q, call)[i], C)
  <2>1. CASE i = Len(q) + 1
    <3>1. Append(q, call)[i] = call
      BY <1>2, <2>1
    <3> QED BY <3>1
  <2>2. CASE i # Len(q) + 1
    <3>1. i \in 1 .. Len(q) /\ Append(q, call)[i] = q[i]
      BY <1>2, <2>2
    <3> QED BY <3>1 DEF BeaconsOf
  <2> QED BY <2>1, <2>2
<1> QED BY <1>3, <1>4 DEF BeaconsOf

\* Taking the first call.
LEMMA TailBeacons ==
    ASSUME NEW q, NEW C, BeaconsOf(q, C), q # << >>
    PROVE  BeaconsOf(Tail(q), C) /\ BeaconOf(Head(q), C)
<1>1. PICK S : q \in Seq(S)
  BY DEF BeaconsOf
<1>2. Tail(q) \in Seq(S)
  BY <1>1
<1>3. Len(q) >= 1 /\ Head(q) = q[1]
  BY <1>1
<1>4. ASSUME NEW i \in 1 .. Len(Tail(q))
      PROVE  BeaconOf(Tail(q)[i], C)
  <2>1. i + 1 \in 1 .. Len(q) /\ Tail(q)[i] = q[i + 1]
    BY <1>1
  <2> QED BY <2>1 DEF BeaconsOf
<1>5. BeaconOf(Head(q), C)
  <2>1. 1 \in 1 .. Len(q)
    BY <1>1, <1>3
  <2> QED BY <1>3, <2>1 DEF BeaconsOf
<1> QED BY <1>2, <1>4, <1>5 DEF BeaconsOf

\* Whichever end a beacon of a cable was sent from, its link is that cable:
\* the handler of LLDP packets orders the ends.
LEMMA LinkIsCable ==
    ASSUME NEW C, Matching(C), NEW link \in C, NEW p, NEW q, Ends(link) = {p, q}
    PROVE  Link(p, q) \in C
<1>1. link \in (Nat \X Nat) \X (Nat \X Nat) /\ Less(link[1], link[2])
  BY DEF Matching
<1>2. link = <<link[1], link[2]>> /\ link[1][1] \in Nat /\ link[1][2] \in Nat
                                /\ link[2][1] \in Nat /\ link[2][2] \in Nat
  BY <1>1
<1>3. ~Less(link[2], link[1]) /\ link[1] # link[2]
  BY <1>1, <1>2 DEF Less
<1>4. \/ p = link[1] /\ q = link[2]
      \/ p = link[2] /\ q = link[1]
  BY <1>3 DEF Ends
<1>5. Link(p, q) = <<link[1], link[2]>>
  BY <1>1, <1>3, <1>4 DEF Link
<1> QED BY <1>2, <1>5

----------------------------------------------------------------------------
\* The inductive invariant: links in the table and in queued beacons are cables.
IInv ==
    /\ Matching(cables)
    /\ TableOver(ld, cables)
    /\ BeaconsOf(queue, cables)

\* It holds at the start, with an empty table or one of all cables (Init).
LEMMA InitSound == Init => IInv
<1> SUFFICES ASSUME Init PROVE IInv
  OBVIOUS
<1>1. Matching(cables)
  BY NetworksAssumption DEF Init, Matching, NetworksAssumption
<1>2. queue = << >>
  BY DEF Init, Settled, Started
<1>3. BeaconsOf(queue, cables)
  BY <1>2 DEF BeaconsOf
<1>4. CASE Started
  <2>1. ld = NoLinks
    BY <1>4 DEF Started
  <2> QED BY <1>1, <1>3, <2>1 DEF IInv, TableOver, Sound, NoLinks, EndsOf
<1>5. CASE Settled
  <2>1. ld = [m_links |-> [l \in cables |-> Lifetime],
              m_out_edges |-> [p \in Ports |-> CHOOSE l \in cables : p \in Ends(l)],
              ok |-> TRUE]
    BY <1>5 DEF Settled
  <2>2. ASSUME NEW p \in Ports
        PROVE  /\ (CHOOSE l \in cables : p \in Ends(l)) \in cables
               /\ p \in Ends(CHOOSE l \in cables : p \in Ends(l))
    <3>1. \E l \in cables : p \in Ends(l)
      BY EndsOfMember DEF Ports
    <3> QED BY <3>1
  <2>3. TableOver(ld, cables)
    BY <2>1, <2>2 DEF TableOver, Sound, Ports
  <2> QED BY <1>1, <1>3, <2>3 DEF IInv
<1> QED BY <1>4, <1>5 DEF Init

\* A call taken from the queue leaves the queue as IInv has it.
LEMMA CallKeepsBeacons ==
    ASSUME IInv, NEW type, Call(type)
    PROVE  BeaconsOf(queue', cables) /\ BeaconOf(Head(queue), cables)
           /\ Head(queue).type = type
BY TailBeacons DEF IInv, Call

\* Every step of the network and of the applications keeps it (Next).
LEMMA NextSound == IInv /\ [Next]_vars => IInv'
<1> SUFFICES ASSUME IInv, [Next]_vars PROVE IInv'
  OBVIOUS
<1>0. Matching(cables) /\ TableOver(ld, cables) /\ BeaconsOf(queue, cables)
  BY DEF IInv
<1> DEFINE Kept == cables' = cables /\ TableOver(ld', cables) /\ BeaconsOf(queue', cables)
<1>Q. SUFFICES Kept
  BY <1>0 DEF IInv
<1>1. ASSUME NEW s, Connect(s) PROVE Kept
  <2> DEFINE call == [type |-> "switchUp", dpid |-> s]
  <2>1. cables' = cables /\ ld' = ld /\ queue' = Append(queue, call)
    BY <1>1 DEF Connect, Post, applications
  <2>2. BeaconOf(call, cables)
    BY DEF BeaconOf
  <2> HIDE DEF call
  <2> QED BY <1>0, <2>1, <2>2, AppendBeacons
<1>2. ASSUME NEW s, Disconnect(s) PROVE Kept
  <2> DEFINE call == [type |-> "switchDown", dpid |-> s]
  <2>1. cables' = cables /\ ld' = ld /\ queue' = Append(queue, call)
    BY <1>2 DEF Disconnect, Post, applications
  <2>2. BeaconOf(call, cables)
    BY DEF BeaconOf
  <2> HIDE DEF call
  <2> QED BY <1>0, <2>1, <2>2, AppendBeacons
<1>3. ASSUME NEW s, AnswerPortDesc(s) PROVE Kept
  <2> DEFINE call == [type |-> "portDesc", dpid |-> s, ports |-> physical[s]]
  <2>1. cables' = cables /\ ld' = ld /\ queue' = Append(queue, call)
    BY <1>3 DEF AnswerPortDesc, Post, applications, external
  <2>2. BeaconOf(call, cables)
    BY DEF BeaconOf
  <2> HIDE DEF call
  <2> QED BY <1>0, <2>1, <2>2, AppendBeacons
<1>4. ASSUME NEW s, NEW p, NEW state, PortChanges(s, p, state) PROVE Kept
  <2>1. PICK reason : /\ cables' = cables /\ ld' = ld
                      /\ \/ queue' = queue
                         \/ queue' = Append(queue, [type |-> "portStatus", dpid |-> s,
                                                   reason |-> reason, port |-> p,
                                                   state |-> state])
    BY Zenon, <1>4 DEF PortChanges, Post, applications
  <2> DEFINE call == [type |-> "portStatus", dpid |-> s, reason |-> reason, port |-> p,
                      state |-> state]
  <2>2. BeaconOf(call, cables)
    BY DEF BeaconOf
  <2>3. cables' = cables /\ ld' = ld /\ (queue' = queue \/ queue' = Append(queue, call))
    BY <2>1
  <2> HIDE DEF call
  <2> QED BY Zenon, <1>0, <2>2, <2>3, AppendBeacons
<1>5. ASSUME NEW p, BeaconArrives(p) PROVE Kept
  <2>1. PICK link \in cables, q \in Ports :
            /\ Ends(link) = {p, q}
            /\ cables' = cables /\ ld' = ld
            /\ queue' = Append(queue, [type |-> "beacon", link |-> Link(p, q)])
    BY <1>5 DEF BeaconArrives, Post, applications, external
  <2> DEFINE call == [type |-> "beacon", link |-> Link(p, q)]
  <2>2. Link(p, q) \in cables
    BY <1>0, <2>1, LinkIsCable
  <2>3. BeaconOf(call, cables)
    BY <2>2 DEF BeaconOf
  <2>4. queue' = Append(queue, call)
    BY <2>1
  <2> HIDE DEF call
  <2> QED BY SMTT(30), <1>0, <2>1, <2>3, <2>4, AppendBeacons
<1>6. ASSUME OnUp PROVE Kept
  <2>1. Call("switchUp") /\ cables' = cables /\ ld' = ld
    BY <1>6 DEF OnUp, external
  <2> QED BY <1>0, <2>1, CallKeepsBeacons
<1>7. ASSUME OnDown PROVE Kept
  <2>1. Call("switchDown") /\ cables' = cables
    BY <1>7 DEF OnDown, external
  <2>2. PICK ports : ld' = ClearLinksAt(ld, ports)
    BY ZenonT(30), <1>7 DEF OnDown
  <2>3. TableOver(ld', cables)
    BY <1>0, <2>2, ClearKeepsSound
  <2> QED BY <2>1, <2>3, CallKeepsBeacons
<1>8. ASSUME OnPortStatus PROVE Kept
  <2>1. Call("portStatus") /\ cables' = cables
    BY <1>8 DEF OnPortStatus, external
  <2>2. ld' = ld \/ \E ports : ld' = ClearLinksAt(ld, ports)
    BY <1>8 DEF OnPortStatus, PortDown, applications
  <2>3. TableOver(ld', cables)
    BY <1>0, <2>2, ClearKeepsSound
  <2> QED BY SMTT(30), <2>1, <2>3, CallKeepsBeacons
<1>9. ASSUME OnPortDescriptions PROVE Kept
  <2>1. Call("portDesc") /\ cables' = cables /\ ld' = ld
    BY Zenon, <1>9 DEF OnPortDescriptions, external
  <2> QED BY <1>0, <2>1, CallKeepsBeacons
<1>10. ASSUME OnBeacon PROVE Kept
  <2>1. Call("beacon") /\ cables' = cables /\ ld' = HandleBeacon(ld, Head(queue).link)
    BY <1>10 DEF OnBeacon, external
  <2>2. BeaconsOf(queue', cables) /\ Head(queue).link \in cables
    BY <2>1, CallKeepsBeacons DEF BeaconOf
  <2>3. TableOver(ld', cables)
    BY <1>0, <2>1, <2>2, BeaconKeepsSound
  <2> QED BY <2>1, <2>2, <2>3
<1>11. ASSUME TimerEvent PROVE Kept
  <2>1. cables' = cables /\ queue' = queue /\ ld' = Expire(ld)
    BY <1>11 DEF TimerEvent, external
  <2> QED BY <1>0, <2>1, ExpireKeepsSound
<1>12. ASSUME ComputeTree PROVE Kept
  <2>1. cables' = cables /\ queue' = queue /\ ld' = ld
    BY <1>12 DEF ComputeTree, external
  <2> QED BY <1>0, <2>1
<1>13. ASSUME UNCHANGED vars PROVE Kept
  <2>1. cables' = cables /\ queue' = queue /\ ld' = ld
    BY <1>13 DEF vars
  <2> QED BY <1>0, <2>1
<1> HIDE DEF Kept
<1> QED BY <1>1, <1>2, <1>3, <1>4, <1>5, <1>6, <1>7, <1>8, <1>9, <1>10, <1>11, <1>12, <1>13
        DEF Next

\* The link table stays sound: no CHECK or assert of LinkDiscovery.cc fails and
\* no stale iterator is used, in every network in which a port has at most one
\* cable, for any number of polls, faults and queued calls.
THEOREM LinkTableStaysSound == Spec => []LinkTableSound
<1>1. IInv => LinkTableSound
  BY DEF IInv, TableOver, LinkTableSound
<1> QED BY <1>1, InitSound, NextSound, PTL DEF Spec

----------------------------------------------------------------------------
(* The topology follows the link table *)

\* No two cables join the same switches and none joins a switch with itself.
Simple(C) ==
    /\ \A k, l \in C : Pair(k) = Pair(l) => k = l
    /\ \A l \in C : l[1][1] # l[2][1]

SimpleNetworks == \A N \in Networks : Simple(N)

\* A topology of the links L, each the only one between its switches.
Follows(t, L) ==
    /\ \E graph : t = [graph |-> graph, topo |-> SetToBag(L), ok |-> TRUE]
    /\ DOMAIN t.graph = {Pair(l) : l \in L}
    /\ \A l \in L : t.graph[Pair(l)] = <<l>>

\* A topology of that kind, made of its parts.
LEMMA FollowsMade ==
    ASSUME NEW L, NEW graph, DOMAIN graph = {Pair(l) : l \in L},
           \A l \in L : graph[Pair(l)] = <<l>>
    PROVE  Follows([graph |-> graph, topo |-> SetToBag(L), ok |-> TRUE], L)
<1> DEFINE t == [graph |-> graph, topo |-> SetToBag(L), ok |-> TRUE]
<1>1. t.graph = graph
  OBVIOUS
<1>2. \E g : t = [graph |-> g, topo |-> SetToBag(L), ok |-> TRUE]
  BY Zenon
<1> HIDE DEF t
<1>3. Follows(t, L)
  BY Zenon, <1>1, <1>2 DEF Follows
<1> QED BY <1>3 DEF t

\* linkDiscovered of a link that is not there.
LEMMA DiscoveredFollows ==
    ASSUME NEW C, Simple(C), NEW L \in SUBSET C, NEW t, Follows(t, L), NEW link \in C \ L
    PROVE  Follows(LinkDiscovered(t, link), L \cup {link})
<1> DEFINE graph == t.graph
           more == AddEdge(graph, link)
           topo == SetToBag(L) (+) SetToBag({link})
<1>1. t = [graph |-> graph, topo |-> SetToBag(L), ok |-> TRUE]
  BY DEF Follows
<1>2. DOMAIN graph = {Pair(l) : l \in L} /\ \A l \in L : graph[Pair(l)] = <<l>>
  BY DEF Follows
<1>3. Pair(link) \notin DOMAIN graph
  BY <1>2 DEF Simple
<1>4. Parallel(graph, link) = << >>
  BY <1>3 DEF Parallel
<1>5. Append(<< >>, link) = <<link>>
  OBVIOUS
<1>6. /\ DOMAIN more = {Pair(l) : l \in L \cup {link}}
      /\ \A l \in L \cup {link} : more[Pair(l)] = <<l>>
  BY <1>2, <1>3, <1>4, <1>5 DEF AddEdge
<1>7. topo = SetToBag(L \cup {link})
  BY DEF (+), SetToBag
<1>8. link[1][1] # link[2][1]
  BY DEF Simple
<1> HIDE DEF graph, more, topo
<1>9. LinkDiscovered(t, link) = [graph |-> more, topo |-> topo, ok |-> TRUE]
  BY Zenon, <1>1, <1>8 DEF LinkDiscovered, more, topo
<1> QED BY SMTT(30), <1>6, <1>7, <1>9, FollowsMade

\* linkBroken of links that are there.
LEMMA BrokenFollows ==
    ASSUME NEW C, Simple(C), NEW L \in SUBSET C, NEW t, Follows(t, L), NEW broken \in SUBSET L
    PROVE  Follows(LinksBroken(t, broken), L \ broken)
<1> DEFINE graph == t.graph
           rest == RemoveEdges(graph, broken)
           topo == SetToBag(L) (-) SetToBag(broken)
<1>1. t = [graph |-> graph, topo |-> SetToBag(L), ok |-> TRUE]
  BY DEF Follows
<1>2. DOMAIN graph = {Pair(l) : l \in L} /\ \A l \in L : graph[Pair(l)] = <<l>>
  BY DEF Follows
<1>3. \A l \in L : Pair(l) \in {Pair(k) : k \in broken} <=> l \in broken
  BY DEF Simple
<1>4. /\ DOMAIN rest = {Pair(l) : l \in L \ broken}
      /\ \A l \in L \ broken : rest[Pair(l)] = <<l>>
  BY <1>2, <1>3 DEF RemoveEdges
<1>5. topo = SetToBag(L \ broken)
  BY DEF (-), SetToBag
<1>6. broken \subseteq BagToSet(SetToBag(L))
  BY DEF SetToBag, BagToSet
<1> HIDE DEF graph, rest, topo
<1>7. LinksBroken(t, broken) = [graph |-> rest, topo |-> topo, ok |-> TRUE]
  BY ZenonT(30), <1>1, <1>6 DEF LinksBroken, rest, topo
<1> QED BY SMTT(30), <1>4, <1>5, <1>7, FollowsMade

\* A beacon is of a new link iff the link is not in the table, and adds it.
LEMMA BeaconLinks ==
    ASSUME NEW C, Matching(C), NEW t, TableOver(t, C), NEW link \in C
    PROVE  /\ IsNew(t, link) <=> link \notin DOMAIN t.m_links
           /\ DOMAIN HandleBeacon(t, link).m_links = DOMAIN t.m_links \cup {link}
<1> DEFINE older == Older(t, link)
<1>1. /\ DOMAIN t.m_links \subseteq C
      /\ DOMAIN t.m_out_edges = EndsOf(DOMAIN t.m_links)
      /\ \A p \in DOMAIN t.m_out_edges : /\ t.m_out_edges[p] \in DOMAIN t.m_links
                                         /\ p \in Ends(t.m_out_edges[p])
  BY DEF TableOver, Sound
<1>2. \A k, l \in C : Ends(k) \cap Ends(l) # {} => k = l
  BY DEF Matching
<1>3. link[1] \in Ends(link)
  BY DEF Ends
<1>4. \A p \in DOMAIN t.m_out_edges : p \in Ends(link) => t.m_out_edges[p] = link
  BY <1>1, <1>2
<1>5. link \in DOMAIN t.m_links => link[1] \in DOMAIN t.m_out_edges
  BY <1>1, <1>3, EndsOfMember
<1>6. older = IF link \in DOMAIN t.m_links THEN {link} ELSE {}
  BY Zenon, <1>1, <1>3, <1>4, <1>5 DEF Older
<1>7. IsNew(t, link) <=> link \notin DOMAIN t.m_links
  BY <1>6 DEF IsNew
<1>8. DOMAIN HandleBeacon(t, link).m_links = (DOMAIN t.m_links \ older) \cup {link}
  BY DEF HandleBeacon, Without, Restrict
<1> HIDE DEF older
<1> QED BY <1>6, <1>7, <1>8

\* The sequence of the only member of a set.
LEMMA SingletonSeq ==
    ASSUME NEW l
    PROVE  SetToSeq({l}) = <<l>>
<1>1. Cardinality({l}) = 1
  BY FS_Singleton
<1>2. SetToSeq({l}) = CHOOSE f \in [1 .. 1 -> {l}] : IsInjective(f)
  BY Zenon, <1>1 DEF SetToSeq
<1>3. <<l>> \in [1 .. 1 -> {l}] /\ IsInjective(<<l>>)
  BY DEF IsInjective
<1>4. \A f \in [1 .. 1 -> {l}] : f = <<l>>
  OBVIOUS
<1> QED BY <1>2, <1>3, <1>4

\* The inductive invariant of the topology, on top of IInv.
TopologyInv == Simple(cables) /\ Follows(topology, DOMAIN ld.m_links)

\* It holds at the start.
LEMMA InitFollows == SimpleNetworks /\ Init => TopologyInv
<1> SUFFICES ASSUME SimpleNetworks, Init PROVE TopologyInv
  OBVIOUS
<1>1. Simple(cables)
  BY DEF SimpleNetworks, Init
<1>2. CASE Started
  <2>1. /\ topology = [graph |-> << >>, topo |-> EmptyBag, ok |-> TRUE]
        /\ DOMAIN ld.m_links = {}
    BY <1>2 DEF Started, NoTopology, NoLinks
  <2>2. EmptyBag = SetToBag({})
    BY DEF EmptyBag, SetToBag
  <2>3. Follows(topology, DOMAIN ld.m_links)
    BY <2>1, <2>2, FollowsMade
  <2> QED BY <1>1, <2>3 DEF TopologyInv
<1>3. CASE Settled
  <2> DEFINE Of(p) == {l \in cables : Pair(l) = p}
             graph == [p \in {Pair(l) : l \in cables} |-> SetToSeq(Of(p))]
  <2>1. /\ topology = [graph |-> graph, topo |-> SetToBag(cables), ok |-> TRUE]
        /\ DOMAIN ld.m_links = cables
    BY <1>3 DEF Settled
  <2>2. ASSUME NEW l \in cables PROVE graph[Pair(l)] = <<l>>
    <3>1. Of(Pair(l)) = {l}
      BY <1>1 DEF Simple
    <3> QED BY <3>1, SingletonSeq
  <2>3. DOMAIN graph = {Pair(l) : l \in cables}
    OBVIOUS
  <2> HIDE DEF graph
  <2> QED BY Zenon, <1>1, <2>1, <2>2, <2>3 DEF TopologyInv, Follows
<1> QED BY <1>2, <1>3 DEF Init

\* Every step keeps it: what leaves or enters the table is told to Topology.
LEMMA NextFollows == IInv /\ TopologyInv /\ [Next]_vars => TopologyInv'
<1> SUFFICES ASSUME IInv, TopologyInv, [Next]_vars PROVE TopologyInv'
  OBVIOUS
<1> DEFINE L == DOMAIN ld.m_links
           Kept == cables' = cables /\ Follows(topology', DOMAIN ld'.m_links)
<1>1. /\ Matching(cables) /\ TableOver(ld, cables) /\ Simple(cables)
      /\ Follows(topology, L) /\ L \in SUBSET cables
  BY DEF IInv, TopologyInv, TableOver
<1>2. SUFFICES Kept
  BY <1>1 DEF TopologyInv
<1>3. ASSUME NEW broken \in SUBSET L, DOMAIN ld'.m_links = L \ broken, cables' = cables,
             topology' = LinksBroken(topology, broken)
      PROVE  Kept
  BY <1>1, <1>3, BrokenFollows
<1>4. ASSUME NEW ports, ld' = ClearLinksAt(ld, ports), cables' = cables,
             topology' = LinksBroken(topology, LinksAt(ld, ports))
      PROVE  Kept
  <2>1. LinksAt(ld, ports) \in SUBSET L
    BY <1>1 DEF LinksAt, TableOver, Sound
  <2>2. DOMAIN ld'.m_links = L \ LinksAt(ld, ports)
    BY <1>4 DEF ClearLinksAt, Without, Restrict
  <2> QED BY SMTT(30), <1>3, <1>4, <2>1, <2>2
<1>5. CASE OnDown
  <2>1. PICK ports : /\ ld' = ClearLinksAt(ld, ports)
                     /\ topology' = LinksBroken(topology, LinksAt(ld, ports))
    BY ZenonT(30), <1>5 DEF OnDown
  <2>2. cables' = cables
    BY <1>5 DEF OnDown, external
  <2> QED BY <1>4, <2>1, <2>2
<1>6. CASE OnPortStatus
  <2>1. cables' = cables
    BY SMTT(30), <1>6 DEF OnPortStatus, external
  <2>2. \/ ld' = ld /\ topology' = topology
        \/ \E ports : /\ ld' = ClearLinksAt(ld, ports)
                      /\ topology' = LinksBroken(topology, LinksAt(ld, ports))
    BY <1>6 DEF OnPortStatus, PortDown, LinksBreak, applications
  <2> QED BY SMTT(30), <1>1, <1>4, <2>1, <2>2
<1>7. CASE OnBeacon
  <2> DEFINE link == Head(queue).link
  <2>1. /\ Call("beacon") /\ cables' = cables /\ ld' = HandleBeacon(ld, link)
        /\ topology' = IF IsNew(ld, link) THEN LinkDiscovered(topology, link) ELSE topology
    BY <1>7 DEF OnBeacon, external
  <2>2. link \in cables
    BY <2>1, CallKeepsBeacons DEF BeaconOf
  <2> HIDE DEF link
  <2>3. /\ IsNew(ld, link) <=> link \notin L
        /\ DOMAIN ld'.m_links = L \cup {link}
    BY SMTT(30), <1>1, <2>1, <2>2, BeaconLinks
  <2>4. CASE link \in L
    <3>1. L \cup {link} = L
      BY <2>4
    <3> QED BY <1>1, <2>1, <2>3, <2>4, <3>1
  <2>5. CASE link \notin L
    <3>1. Follows(LinkDiscovered(topology, link), L \cup {link})
      BY SMTT(30), <1>1, <2>2, <2>5, DiscoveredFollows
    <3> QED BY SMTT(30), <2>1, <2>3, <2>5, <3>1
  <2> QED BY SMTT(30), <2>4, <2>5
<1>8. CASE TimerEvent
  <2>1. /\ cables' = cables /\ ld' = Expire(ld)
        /\ topology' = LinksBroken(topology, Expired(ld))
    BY <1>8 DEF TimerEvent, LinksBreak, external
  <2>2. Expired(ld) \in SUBSET L
    BY DEF Expired
  <2>3. DOMAIN ld'.m_links = L \ Expired(ld)
    BY <2>1 DEF Expire
  <2> QED BY SMTT(30), <1>3, <2>1, <2>2, <2>3
<1>9. CASE UNCHANGED <<cables, ld, topology>>
  BY <1>1, <1>9
<1>10. \/ OnDown \/ OnPortStatus \/ OnBeacon \/ TimerEvent
       \/ UNCHANGED <<cables, ld, topology>>
  BY ZenonT(30) DEF Next, Connect, Disconnect, AnswerPortDesc, PortChanges, BeaconArrives, OnUp,
         OnPortDescriptions, ComputeTree, vars, applications, external
<1> QED BY <1>5, <1>6, <1>7, <1>8, <1>9, <1>10

\* The topology has exactly the links of link discovery, each once, and
\* linkBroken always finds its Link object, in every network in which a port
\* has at most one cable and no two cables join the same switches.
THEOREM TopologyFollowsLinks ==
    ASSUME SimpleNetworks
    PROVE  Spec => []TopologyFollows
<1>1. TopologyInv => TopologyFollows
  <2> SUFFICES ASSUME TopologyInv PROVE TopologyFollows
    OBVIOUS
  <2> DEFINE L == DOMAIN ld.m_links
             graph == topology.graph
  <2>1. /\ topology.ok /\ topology.topo = SetToBag(L)
        /\ DOMAIN graph = {Pair(l) : l \in L}
        /\ \A l \in L : graph[Pair(l)] = <<l>>
    BY DEF TopologyInv, Follows
  <2>2. \A l \in L : ToSet(<<l>>) = {l} /\ IsInjective(<<l>>)
    BY DEF ToSet, IsInjective
  <2> HIDE DEF L, graph
  <2>3. Edges(graph) = L
    <3>1. ASSUME NEW x \in Edges(graph) PROVE x \in L
      <4>1. PICK p \in DOMAIN graph : x \in ToSet(graph[p])
        BY Zenon DEF Edges
      <4>2. PICK l \in L : p = Pair(l)
        BY <2>1
      <4> QED BY Zenon, <2>1, <2>2, <4>1, <4>2
    <3>2. ASSUME NEW l \in L PROVE l \in Edges(graph)
      <4>1. Pair(l) \in DOMAIN graph /\ l \in ToSet(graph[Pair(l)])
        BY <2>1, <2>2
      <4> QED BY Zenon, <4>1 DEF Edges
    <3> QED BY <3>1, <3>2
  <2>4. \A p \in DOMAIN graph : IsInjective(graph[p])
    BY ZenonT(30), <2>1, <2>2
  <2> QED BY <2>1, <2>3, <2>4 DEF TopologyFollows, L, graph
<1>2. Init => TopologyInv
  BY InitFollows
<1> QED BY <1>1, <1>2, NextFollows, InitSound, NextSound, PTL DEF Spec

============================================================================
