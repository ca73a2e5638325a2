--------------------------- MODULE LinkDiscovery ---------------------------
(***************************************************************************)
(* The link table of LinkDiscovery.cc as a record, its methods as          *)
(* operators.                                                              *)
(*                                                                         *)
(* A port is a pair <<dpid, port_no>> (switch_and_port), a link a pair of  *)
(* ports.  m_links has for every link the number of polls it outlives      *)
(* without a beacon (valid_through, in units of c_poll_interval);          *)
(* m_out_edges has the iterator of a port as the link it points at.  ok    *)
(* becomes FALSE where a CHECK or assert fails or an iterator that is not  *)
(* valid any more is used.                                                 *)
(***************************************************************************)
EXTENDS Integers, Functions

CONSTANT Lifetime     \* polls that a link outlives: 2

Less(a, b) == a[1] < b[1] \/ (a[1] = b[1] /\ a[2] < b[2])

\* The handler of LLDP packets orders the ends of a link.
Link(a, b) == IF Less(b, a) THEN <<b, a>> ELSE <<a, b>>

Ends(link) == {link[1], link[2]}

EndsOf(links) == UNION {Ends(l) : l \in links}

Without(f, S) == Restrict(f, DOMAIN f \ S)

NoLinks == [m_links |-> <<>>, m_out_edges |-> <<>>, ok |-> TRUE]

----------------------------------------------------------------------------
\* The link that a beacon makes obsolete: only the lower end is looked up.
Older(ld, link) ==
    IF link[1] \in DOMAIN ld.m_out_edges THEN {ld.m_out_edges[link[1]]} ELSE {}

IsNew(ld, link) == Older(ld, link) = {}

HandleBeacon(ld, link) ==
    LET older == Older(ld, link)
        m_links == Without(ld.m_links, older)
        m_out_edges == Without(ld.m_out_edges, IF older = {} THEN {} ELSE Ends(link))
    IN  [m_links |-> [l \in DOMAIN m_links \cup {link} |->
                         IF l = link THEN Lifetime ELSE m_links[l]],
         m_out_edges |-> [p \in DOMAIN m_out_edges \cup Ends(link) |->
                             IF p \in Ends(link) THEN link ELSE m_out_edges[p]],
         ok |-> ld.ok /\ older \subseteq DOMAIN ld.m_links]

----------------------------------------------------------------------------
\* clearLinkAt for every port of a set: linkBroken is emitted for the links
\* of LinksAt.
LinksAt(ld, ports) == {ld.m_out_edges[p] : p \in ports \cap DOMAIN ld.m_out_edges}

ClearLinksAt(ld, ports) ==
    LET broken == LinksAt(ld, ports)
    IN  [m_links |-> Without(ld.m_links, broken),
         m_out_edges |-> Without(ld.m_out_edges, EndsOf(broken)),
         ok |-> /\ ld.ok
                /\ broken \subseteq DOMAIN ld.m_links
                /\ EndsOf(broken) \subseteq DOMAIN ld.m_out_edges
                /\ \A p \in ports \cap DOMAIN ld.m_out_edges : p \in Ends(ld.m_out_edges[p])]

----------------------------------------------------------------------------
\* timerEvent, first part: one more poll interval has passed.  linkBroken is
\* emitted for the Expired links.
Expired(ld) == {l \in DOMAIN ld.m_links : ld.m_links[l] = 0}

\* Mutants: the erase inside of assert() is compiled out; links do not age.
ExpireWithoutAssert(ld) ==
    [ld EXCEPT !.m_links = [l \in DOMAIN @ \ Expired(ld) |-> @[l] - 1]]

ExpireWithoutAging(ld) ==
    [ld EXCEPT !.m_links = Without(@, Expired(ld)),
               !.m_out_edges = Without(@, EndsOf(Expired(ld)))]

Expire(ld) ==
    LET broken == Expired(ld)
    IN  [m_links |-> [l \in DOMAIN ld.m_links \ broken |-> ld.m_links[l] - 1],
         m_out_edges |-> Without(ld.m_out_edges, EndsOf(broken)),
         ok |-> ld.ok /\ EndsOf(broken) \subseteq DOMAIN ld.m_out_edges]

----------------------------------------------------------------------------
\* The two containers describe the same links: every iterator is valid and
\* every link is found from both of its ends.
Sound(ld) ==
    /\ ld.ok
    /\ DOMAIN ld.m_out_edges = EndsOf(DOMAIN ld.m_links)
    /\ \A p \in DOMAIN ld.m_out_edges : /\ ld.m_out_edges[p] \in DOMAIN ld.m_links
                                        /\ p \in Ends(ld.m_out_edges[p])

============================================================================
