------------------------------ MODULE Topology ------------------------------
(***************************************************************************)
(* The graph and the list of links of Topology.cc as a record.             *)
(*                                                                         *)
(* graph has, for two switches, the edges between them in the order in     *)
(* which they were added (edge(u, v, g) gives the first one); topo is the  *)
(* bag of Link objects.  A link is an ordered pair of ports as in          *)
(* LinkDiscovery.  ok becomes FALSE where a null Link is passed to the     *)
(* event manager, which uses it.                                           *)
(***************************************************************************)
EXTENDS Naturals, Sequences, SequencesExt, FiniteSets, Bags

\* The switches that a link joins.
Pair(link) == {link[1][1], link[2][1]}

NoTopology == [graph |-> <<>>, topo |-> EmptyBag, ok |-> TRUE]

\* The edges of a graph.
Edges(graph) == UNION {ToSet(graph[p]) : p \in DOMAIN graph}

\* The edges between the switches of a link.
Parallel(graph, link) == IF Pair(link) \in DOMAIN graph THEN graph[Pair(link)] ELSE <<>>

AddEdge(graph, link) ==
    [p \in DOMAIN graph \cup {Pair(link)} |->
        IF p = Pair(link) THEN Append(Parallel(graph, link), link) ELSE graph[p]]

\* remove_edge(u, v, g) removes all edges between two switches.
RemoveEdges(graph, links) ==
    [p \in DOMAIN graph \ {Pair(l) : l \in links} |-> graph[p]]

LinkDiscovered(t, link) ==
    IF link[1][1] = link[2][1] THEN t         \* a loopback link is ignored
    ELSE [t EXCEPT !.graph = AddEdge(@, link), !.topo = @ (+) SetToBag({link})]

\* Mutant: the edges are removed and the Link objects are kept.
LinksBrokenKeepObjects(t, links) == [t EXCEPT !.graph = RemoveEdges(@, links)]

\* linkBroken for each of a set of links; getLink has to find every one.
LinksBroken(t, links) ==
    [graph |-> RemoveEdges(t.graph, links),
     topo |-> t.topo (-) SetToBag(links),
     ok |-> t.ok /\ links \subseteq BagToSet(t.topo)]

----------------------------------------------------------------------------
(* computeRoute.  Boost's Dijkstra, from the target, gives every reachable *)
(* switch a predecessor on a shortest path; all weights are 1.             *)

Edge(graph, a, b) == Head(graph[{a, b}])

Adjacent(graph, a) == {b \in UNION DOMAIN graph : a # b /\ {a, b} \in DOMAIN graph}

\* The switches at distance n from a switch.
Rings(graph, to) ==
    LET ring[n \in Nat] ==
            IF n = 0 THEN {to}
            ELSE (UNION {Adjacent(graph, a) : a \in ring[n - 1]})
                    \ UNION {ring[i] : i \in 0 .. n - 1}
    IN  ring

\* Mutant: the ends of a hop are not ordered.
HopAsStored(graph, v, p) == Edge(graph, v, p)

Hop(graph, v, p) ==
    LET link == Edge(graph, v, p)
    IN  IF link[1][1] = v THEN <<link[1], link[2]>> ELSE <<link[2], link[1]>>

\* All routes that the walk along the predecessors may return: those of
\* length n from v are routes[n, v].
Routes(graph, from, to) ==
    LET ring == Rings(graph, to)
        all == {to} \cup UNION DOMAIN graph
        routes[n \in Nat, v \in all] ==
            IF n = 0 THEN {<<>>}
            ELSE UNION {{Hop(graph, v, p) \o r : r \in routes[n - 1, p]} :
                           p \in Adjacent(graph, v) \cap ring[n - 1]}
        reached == {n \in 0 .. Cardinality(DOMAIN graph) : from \in ring[n]}
    IN  IF reached = {} THEN {<<>>} ELSE routes[CHOOSE n \in reached : TRUE, from]

=============================================================================
