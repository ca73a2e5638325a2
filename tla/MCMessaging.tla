---------------------------- MODULE MCMessaging ----------------------------
(***************************************************************************)
(* Two instances of Messaging.tla for TLC, which share no state: without   *)
(* and with a restart of the process.  A behaviour is one of the first or  *)
(* one of the second.  There is one link between any two switches.         *)
(***************************************************************************)
EXTENDS Messaging

End(dpid, port) == [dpid |-> dpid, port |-> port]
Link12 == [source |-> End(1, 1), target |-> End(2, 1)]
Link13 == [source |-> End(1, 2), target |-> End(3, 1)]

Discovered(link) == [kind |-> "linkDiscovered", link |-> link]
Broken(link) == [kind |-> "linkBroken", link |-> link]
HostSeen(mac) == [kind |-> "hostDiscovered", host |-> [mac |-> mac, at |-> End(2, 3)]]

OfPeer(id, event) == [client |-> "peer", id |-> id, event |-> event, start |-> 0]

SimpleEvents == {Discovered(Link12), Broken(Link12)}
SimpleForeign == {OfPeer(1, Discovered(Link13))}
HostForeign == {OfPeer(1, HostSeen("mac1"))}

----------------------------------------------------------------------------
VARIABLES
    mode,       \* "running" or "restarting"
    rqueue, rmessage_id, rprocessor, rchecker, rlocal, rtopology, rbackup, ralive, rlog, rcommit,
    rsubmits, rapplied, rrestarts

rvars == <<rqueue, rmessage_id, rprocessor, rchecker, rlocal, rtopology, rbackup, ralive, rlog,
           rcommit, rsubmits, rapplied, rrestarts>>

R == INSTANCE Messaging WITH
        MaxRequests <- 1, MaxSubmits <- 1, MaxLog <- 2, MaxRestarts <- 1, Foreign <- HostForeign,
        request_queue <- rqueue, message_id <- rmessage_id, processor <- rprocessor,
        checker <- rchecker, local_commited_idx <- rlocal, topology <- rtopology,
        backup <- rbackup, alive <- ralive, log <- rlog, commit <- rcommit,
        submits <- rsubmits, applied <- rapplied, restarts <- rrestarts

MCInit == mode \in {"running", "restarting"} /\ Init /\ R!Init

MCNext ==
    \/ mode = "running" /\ Next /\ UNCHANGED <<mode, rvars>>
    \/ mode = "restarting" /\ R!Next /\ UNCHANGED <<mode, msgVars>>

MCSpec == MCInit /\ [][MCNext]_<<mode, msgVars, rvars>> /\ Fairness

\* Messaging!NoDuplicateEdges, over a restart: the whole log is applied again
\* to the graph of the backup file (Messaging.cc:223).
NoDuplicateEdgesAfterRestart == R!NoDuplicateEdges
=============================================================================
