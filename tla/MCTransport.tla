---------------------------- MODULE MCTransport ----------------------------
(***************************************************************************)
(* Instances for TLC: sessions of raft servers with each other, and of one *)
(* with its clients.  A behaviour is one of either.                        *)
(***************************************************************************)
EXTENDS Transport, TLC

CONSTANTS A, B, C

VARIABLES mode, clients, all_clients, accepting, stop, storage, watermark

K == INSTANCE Clients WITH MaxLog <- 2, MaxTerm <- 2, MaxClients <- 2, MaxTogether <- 1,
                           MaxAnswers <- 1, sessions <- clients

kvars == <<clients, all_clients, accepting, stop, storage, watermark>>

\* Two servers call each other; two servers call one; none.
TwoBudgets ==
    {(<<A, B>> :> 1) @@ (<<B, A>> :> 2), (<<B, A>> :> 1) @@ (<<C, A>> :> 1), <<>>}

MCInit == Init /\ K!Init /\ mode = IF budget = <<>> THEN "clients" ELSE "servers"

MCNext ==
    \/ mode = "servers" /\ Next /\ UNCHANGED <<mode, kvars>>
    \/ mode = "clients" /\ K!Next /\ UNCHANGED <<mode, vars>>

MCSpec == MCInit /\ [][MCNext]_<<mode, vars, kvars>> /\ Fairness /\ K!Fairness

\* A session of raft servers has one of the states of the code, and its write
\* queue is being written as long as it is not empty (asio_tcp_session.cpp:105).
SessionsSound == TypeOK /\ QueueIsWritten

\* What a client was told is in the committed log and stays there; committed
\* entries are told one by one and in order, and the current entry is never
\* behind them (asio_tcp_server.cpp:207).
ToldAsCommitted == K!ToldIsCommitted /\ K!ToldInOrder

\* A session that has stopped leaves the peers, and a client whose session has
\* stopped leaves all_clients_ (asio_tcp_session.cpp:41).
AllStoppedLeave == StoppedLeaves /\ K!StoppedClientLeaves
============================================================================
