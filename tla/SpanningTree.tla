---------------------------- MODULE SpanningTree ----------------------------
(***************************************************************************)
(* The flood ports of STP.cc as a record.                                  *)
(*                                                                         *)
(* switch_list has for every SwitchSTP its ports with the flags broadcast  *)
(* and to_switch.  group is the flood group of every switch, as the last   *)
(* group-mod that reached it left it: messages to a switch that is not in  *)
(* `alive` are not sent.  ok becomes FALSE where a null SwitchSTP is used. *)
(***************************************************************************)
EXTENDS Naturals, FiniteSets, Functions

NewPort == [broadcast |-> TRUE, to_switch |-> FALSE]

GetEnabledPorts(ports) == {p \in DOMAIN ports : ports[p].broadcast}

UpdateGroup(stp, s, alive) ==
    IF s \in alive THEN [stp EXCEPT !.group[s] = GetEnabledPorts(stp.switch_list[s])] ELSE stp

AddPort(ports, p) ==
    [q \in DOMAIN ports \cup {p} |-> IF q \in DOMAIN ports THEN ports[q] ELSE NewPort]

SetSwitch(stp, s, ports) ==
    [stp EXCEPT !.switch_list = [t \in DOMAIN @ \cup {s} |-> IF t = s THEN ports ELSE @[t]]]

\* The constructor of SwitchSTP clears and installs the group, without ports.
NewSwitch(stp, s, alive) == UpdateGroup(SetSwitch(stp, s, <<>>), s, alive)

OnSwitchDiscovered(stp, s, alive) == NewSwitch(stp, s, alive)

OnSwitchUp(stp, s, alive) ==
    IF s \in DOMAIN stp.switch_list THEN stp ELSE NewSwitch(stp, s, alive)

OnSwitchDown(stp, s) ==
    [stp EXCEPT !.switch_list = Restrict(@, DOMAIN @ \ {s})]

OnPortUp(stp, s, p, alive) ==
    IF s \notin DOMAIN stp.switch_list THEN stp
    ELSE UpdateGroup(SetSwitch(stp, s, AddPort(stp.switch_list[s], p)), s, alive)

\* One end of onLinkDiscovered: the port is disabled, then marked.
LinkEnd(stp, end, alive) ==
    LET s == end[1]
        ports == AddPort(stp.switch_list[s], end[2])
        disabled == [ports EXCEPT ![end[2]].broadcast = FALSE]
        marked == [disabled EXCEPT ![end[2]].to_switch = TRUE]
    IN  SetSwitch(UpdateGroup(SetSwitch(stp, s, disabled), s, alive), s, marked)

OnLinkDiscovered(stp, link, alive) ==
    IF {link[1][1], link[2][1]} \subseteq DOMAIN stp.switch_list
    THEN [LinkEnd(LinkEnd(stp, link[1], alive), link[2], alive) EXCEPT !.computed = FALSE]
    ELSE stp

\* Mutant: the tree is kept when a link breaks.
OnLinksBrokenKeepTree(stp, links) == stp

OnLinksBroken(stp, links) == IF links = {} THEN stp ELSE [stp EXCEPT !.computed = FALSE]

----------------------------------------------------------------------------
(* computeSpanningTree.  Boost's Kruskal gives some spanning forest of the *)
(* graph, whose edges all weigh 1.                                         *)

\* No cut separates a from b.
Connected(edges, a, b) ==
    LET vertices == {a, b} \cup UNION {{e[1][1], e[2][1]} : e \in edges}
    IN  a = b \/ \A S \in SUBSET vertices :
                    (a \in S /\ b \notin S) =>
                        \E e \in edges : (e[1][1] \in S) # (e[2][1] \in S)

Joined(edges, e) == Connected(edges, e[1][1], e[2][1])

Forest(edges) == \A e \in edges : ~Joined(edges \ {e}, e)

SpanningForests(edges) ==
    {T \in SUBSET edges : Forest(T) /\ \A e \in edges : Joined(T, e)}

ResetBroadcast(ports) ==
    [p \in DOMAIN ports |-> [ports[p] EXCEPT !.broadcast = @ /\ ~ports[p].to_switch]]

ComputeSpanningTree(stp, tree, alive) ==
    LET inTree == UNION {{e[1], e[2]} : e \in tree}
        switches == {p[1] : p \in inTree}
        Flags(s) ==
            LET reset == ResetBroadcast(stp.switch_list[s])
            IN  [p \in DOMAIN reset |-> [reset[p] EXCEPT !.broadcast = @ \/ <<s, p>> \in inTree]]
        switch_list == [s \in DOMAIN stp.switch_list |-> Flags(s)]
    IN  [switch_list |-> switch_list,
         group |-> [s \in DOMAIN stp.group |->
                       IF s \in switches \cap alive \cap DOMAIN switch_list
                       THEN GetEnabledPorts(switch_list[s]) ELSE stp.group[s]],
         computed |-> TRUE,
         ok |-> stp.ok /\ switches \subseteq DOMAIN stp.switch_list]

=============================================================================
