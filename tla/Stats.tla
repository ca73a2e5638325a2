------------------------------- MODULE Stats -------------------------------
(***************************************************************************)
(* Stats.cc: the counters of ports, polled from the known switches and     *)
(* shown over REST.                                                        *)
(*                                                                         *)
(* The switch manager and SwitchStats run in threads of applications, so   *)
(* that switchDiscovered and responses are queued; a GET runs in the       *)
(* thread of the HTTP server.  An exception in a slot ends the process.    *)
(***************************************************************************)
EXTENDS Naturals, Sequences

CONSTANTS
    Dpids, Ports,
    MaxCount,    \* bound: of a counter
    MaxQueue     \* bound: replies under way

VARIABLES
    open,        \* switches with a connection
    manager,     \* SwitchManager::switches()
    discovered,  \* queued calls of newSwitch
    counters,    \* of the switches' ports
    asked,       \* switches that have a request
    replies,     \* queued calls of portStatsArrived: switch and counters
    stats,       \* all_switches_stats: switch -> port -> counter, with its switch
    ended        \* by std::out_of_range

vars == <<open, manager, discovered, counters, asked, replies, stats, ended>>

Put(f, x, v) == [y \in DOMAIN f \cup {x} |-> IF y = x THEN v ELSE f[y]]

\* A value-initialized port_packets_bytes
NoStats == [of |-> 0, port |-> 0, count |-> 0]

Init ==
    /\ open = {} /\ manager = {} /\ discovered = <<>>
    /\ counters = [d \in Dpids |-> [p \in Ports |-> 0]]
    /\ asked = {} /\ replies = <<>>
    /\ stats = <<>>
    /\ ended = FALSE

----------------------------------------------------------------------------
(* The switches and the switch manager *)

Connect(d) ==
    /\ d \notin open
    /\ open' = open \cup {d}
    /\ UNCHANGED <<manager, discovered, counters, asked, replies, stats, ended>>

Disconnect(d) ==
    /\ d \in open
    /\ open' = open \ {d} /\ asked' = asked \ {d}
    /\ UNCHANGED <<manager, discovered, counters, replies, stats, ended>>

Count(d, p) ==
    /\ counters[d][p] < MaxCount
    /\ counters' = [counters EXCEPT ![d][p] = @ + 1]
    /\ UNCHANGED <<open, manager, discovered, asked, replies, stats, ended>>

\* The first switchUp of a switch
Discover(d) ==
    /\ d \in open \ manager
    /\ manager' = manager \cup {d}
    /\ discovered' = Append(discovered, d)
    /\ UNCHANGED <<open, counters, asked, replies, stats, ended>>

Reply(d) ==
    /\ d \in asked /\ Len(replies) < MaxQueue
    /\ asked' = asked \ {d}
    /\ replies' = Append(replies, [dpid |-> d, counters |-> counters[d]])
    /\ UNCHANGED <<open, manager, discovered, counters, stats, ended>>

----------------------------------------------------------------------------
(* SwitchStats *)

\* newSwitch: insert keeps an entry that is there.
NewSwitch ==
    /\ discovered # <<>>
    /\ discovered' = Tail(discovered)
    /\ stats' = IF Head(discovered) \in DOMAIN stats THEN stats
                ELSE Put(stats, Head(discovered), <<>>)
    /\ UNCHANGED <<open, manager, counters, asked, replies, ended>>

\* pollTimeout: a request to a connection that is lost is lost.
PollTimeout ==
    /\ asked' = asked \cup (manager \cap open \cap DOMAIN stats)
    /\ UNCHANGED <<open, manager, discovered, counters, replies, stats, ended>>

\* The elements of a reply replace those of their ports.
Stored(old, d, news) ==
    [p \in DOMAIN old \cup DOMAIN news |->
       IF p \in DOMAIN news THEN [of |-> d, port |-> p, count |-> news[p]] ELSE old[p]]

PortStatsArrived ==
    /\ replies # <<>>
    /\ replies' = Tail(replies)
    /\ LET d == Head(replies).dpid
       IN  /\ ended' = (d \notin DOMAIN stats)
           /\ stats' = IF ended' THEN stats
                       ELSE [stats EXCEPT ![d] = Stored(@, d, Head(replies).counters)]
    /\ UNCHANGED <<open, manager, discovered, counters, asked>>

\* handleGET: operator[] inserts a switch and a port that are not there.
GetAll(d) ==
    /\ d \notin DOMAIN stats
    /\ stats' = Put(stats, d, <<>>)
    /\ UNCHANGED <<open, manager, discovered, counters, asked, replies, ended>>

GetPort(d, p) ==
    /\ LET ports == IF d \in DOMAIN stats THEN stats[d] ELSE <<>>
       IN  /\ p \notin DOMAIN ports
           /\ stats' = Put(stats, d, Put(ports, p, NoStats))
    /\ UNCHANGED <<open, manager, discovered, counters, asked, replies, ended>>

Next ==
    /\ ~ended
    /\ \/ NewSwitch \/ PollTimeout \/ PortStatsArrived
       \/ \E d \in Dpids : Connect(d) \/ Disconnect(d) \/ Discover(d) \/ Reply(d) \/ GetAll(d)
       \/ \E d \in Dpids, p \in Ports : Count(d, p) \/ GetPort(d, p)

Spec == Init /\ [][Next]_vars

----------------------------------------------------------------------------
(* Properties *)

\* portStatsArrived finds the switch of the reply ("find switch in old data",
\* Stats.cc:137) although newSwitch may be late, and each value is shown for
\* the switch and the port it was counted for, never above the counter; a port
\* of which there is no report is shown as port 0.
StatsShown ==
    /\ ~ended
    /\ \A d \in DOMAIN stats : \A p \in DOMAIN stats[d] :
          \/ stats[d][p] = NoStats
          \/ /\ stats[d][p].of = d /\ stats[d][p].port = p
             /\ stats[d][p].count <= counters[d][p]
============================================================================
