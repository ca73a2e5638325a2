---------------------------- MODULE MCRaftCluster ----------------------------
(***************************************************************************)
(* Two instances of Raft.tla for TLC, which share no state: a cluster with *)
(* competing leaders and logs, and the first election of an even cluster.  *)
(* A behaviour is one of the first or one of the second.                   *)
(***************************************************************************)
EXTENDS MCRaft

CONSTANT Joining        \* more servers, for the even cluster

EvenCluster == Server \union Joining

VARIABLES
    mode,       \* "cluster" or "election"
    estorage, erole, eleader_id, eminimum_timeout_reached, epeers, eaborted, enet, erestarts

evars == <<estorage, erole, eleader_id, eminimum_timeout_reached, epeers, eaborted, enet, erestarts>>

E == INSTANCE Raft WITH
        Server <- EvenCluster, MaxTerm <- 1, MaxLog <- 0, MaxMessageId <- 2, MaxInFlight <- 2,
        MaxRestarts <- 0, storage <- estorage, role <- erole, leader_id <- eleader_id,
        minimum_timeout_reached <- eminimum_timeout_reached, peers <- epeers, aborted <- eaborted,
        net <- enet, restarts <- erestarts

Unused == "unused"

MCInit ==
    /\ Init
    /\ \/ /\ mode = "cluster"
          /\ estorage = Unused /\ erole = Unused /\ eleader_id = Unused
          /\ eminimum_timeout_reached = Unused /\ epeers = Unused /\ eaborted = Unused
          /\ enet = Unused /\ erestarts = Unused
       \/ mode = "election" /\ E!Init

MCNext ==
    \/ mode = "cluster" /\ Next /\ UNCHANGED <<mode, evars>>
    \/ mode = "election" /\ E!Next /\ UNCHANGED <<mode, vars>>

MCSpec == MCInit /\ [][MCNext]_<<mode, vars, evars>>

\* Raft!FirstElectionSafety (raft_server.ipp:264) of four servers: the first
\* election has at most one winner, however the votes are split.
FirstElectionSafetyOfFour == mode = "election" => E!FirstElectionSafety
=============================================================================
