---------------------------- MODULE HostManager ----------------------------
(***************************************************************************)
(* HostManager.cc: the hosts by MAC address and the MAC addresses of       *)
(* switch ports, as operators on hm = [hosts, switch_macs, made].  A Host  *)
(* is never freed: made numbers the objects.  No lock covers the hosts,    *)
(* which two threads use: what a thread is about to do with them is a step *)
(* of its own, a record with its op.                                       *)
(***************************************************************************)
EXTENDS Events, TLC

CONSTANTS
    NoIp,       \* 0.0.0.0
    MaxPort     \* OFPP_MAX

NoHosts == [hosts |-> <<>>, switch_macs |-> <<>>, made |-> 0]

HostObject(host) == <<"host", host.obj>>

IsSwitch(hm, mac) == \E i \in DOMAIN hm.switch_macs : hm.switch_macs[i] = mac

FindMac(hm, mac) == mac \in DOMAIN hm.hosts

\* createHost and attachHost of addHost
AddHost(hm, dpid, pkt) ==
    LET host == [obj |-> hm.made + 1, ip |-> pkt.ip, switchID |-> dpid, switchPort |-> pkt.in_port]
    IN  [hm EXCEPT !.hosts = (pkt.src :> host) @@ @, !.made = @ + 1]

UpdateHost(hm, mac, ip) == [hm EXCEPT !.hosts[mac].ip = ip]

\* The packet handler, up to what it does to the hosts
Handle(hm, dpid, pkt) ==
    IF IsSwitch(hm, pkt.src) \/ pkt.in_port > MaxPort THEN <<>>
    ELSE IF ~FindMac(hm, pkt.src) THEN <<[op |-> "add", dpid |-> dpid, pkt |-> pkt]>>
    ELSE IF pkt.ip = NoIp THEN <<>>
    ELSE <<[op |-> "update", mac |-> pkt.src, ip |-> pkt.ip]>>

\* Slot newPort of Switch::portUp, for the ports that come up
NewPorts(hm, macs) == [hm EXCEPT !.switch_macs = @ \o macs]

HostsOf(hm, dpid) == {mac \in DOMAIN hm.hosts : hm.hosts[mac].switchID = dpid}

\* The loop of delHostForSwitch, which has still to come to the hosts in left;
\* hosts that another thread adds meanwhile may be before the iterator or not.
DelHostForSwitch(hm, dpid) == [op |-> "hosts", dpid |-> dpid, left |-> HostsOf(hm, dpid)]

\* Its body for one host
DelHost(hm, mac, hash) ==
    <<Addition("Delete", HostObject(hm.hosts[mac]), hash), [op |-> "erase", mac |-> mac]>>

EraseHost(hm, mac) == [hm EXCEPT !.hosts = Restrict(@, DOMAIN @ \ {mac})]

\* The end of onSwitchDown; ports are the addresses of dp->ports().
ErasePorts(hm, ports) ==
    LET Erase(macs, mac) == IF mac \in ToSet(macs) THEN RemoveFirst(macs, mac) ELSE macs
    IN  [hm EXCEPT !.switch_macs = FoldLeft(Erase, @, ports)]
=============================================================================
