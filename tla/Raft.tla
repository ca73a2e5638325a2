-------------------------------- MODULE Raft --------------------------------
(***************************************************************************)
(* The cluster of raft servers that the Messaging application runs:        *)
(* raft/raft_server.ipp on every server, the storage of MemStorage.tla,    *)
(* and the TCP sessions between them.                                      *)
(*                                                                         *)
(* The network is a bag of messages.  A send may lose its message (a       *)
(* session that fails to connect or is closed by drop() takes its queue    *)
(* with it); messages of different sessions overtake each other (two sends *)
(* without an identified session open two sessions); TCP duplicates none.  *)
(* callbacks.drop(), whose only effect is to close sessions, is therefore  *)
(* covered by the loss of messages.                                        *)
(*                                                                         *)
(* Timers: one of the three timeouts is always armed and its expiry calls  *)
(* timeout(), and an unreached minimum timeout is always armed, so both    *)
(* may fire in every state.                                                *)
(*                                                                         *)
(* A message carries the fields that its receiver reads.  The term of      *)
(* previous_entry and the term of log_state().uncommit are read by no      *)
(* handler (the check of raft_server.ipp:195 is commented out, and         *)
(* operator== of raft_entry.hpp:43 is false whatever its arguments).       *)
(***************************************************************************)
EXTENDS MemStorage, Bags, FiniteSets

CONSTANTS
  NDEBUG,        \* the build has assert() compiled out
  MaxTerm,       \* bound: no server times out in this term
  MaxLog,        \* bound: length of the log a leader appends to
  MaxMessageId,  \* bound: message ids a leader uses for retries
  MaxInFlight,   \* bound: messages in the network; a send above it is lost
  MaxRestarts    \* bound: crashes of all servers

ASSUME ServerAssumption == IsFiniteSet(Server)
ASSUME BoundsAssumption ==
  /\ NDEBUG \in BOOLEAN
  /\ {MaxTerm, MaxLog, MaxMessageId, MaxInFlight, MaxRestarts} \subseteq Nat

VARIABLES
  storage,                  \* storage[i]: the MemStorage of server i
  role,                     \* State::role
  leader_id,                \* State::leader_id
  minimum_timeout_reached,  \* State::minimum_timeout_reached
  peers,                    \* peers[i][j]: peer_info_t of j in i's known_peers
  aborted,                  \* assert() of raft_server.ipp:219 ended process i
  net,                      \* the bag of messages in flight
  restarts                  \* number of restarts so far

volatile == <<role, leader_id, minimum_timeout_reached, peers>>
vars == <<storage, role, leader_id, minimum_timeout_reached, peers, aborted,
          net, restarts>>

Others(i) == Server \ {i}

\* Mutant: half of the servers is enough.
HalfOfServers == Cardinality(Server) \div 2

Majority == 1 + Cardinality(Server) \div 2
Larger(a, b) == IF a > b THEN a ELSE b
Running(i) == ~aborted[i] /\ ~storage[i].exited

-----------------------------------------------------------------------------
(* Messages (raft_rpc.hpp, raft_entry.hpp). *)

VoteRequest(i, j, term, uncommit) ==
  [type |-> "VoteRequest", from |-> i, to |-> j, term |-> term,
   uncommit |-> uncommit]

VoteResponse(i, j, term, granted) ==
  [type |-> "VoteResponse", from |-> i, to |-> j, term |-> term,
   vote_granted |-> granted]

\* The header of a request of server i carries its term and log state st.
AppendEntriesRequest(i, j, id, st, prev, entries) ==
  [type |-> "AppendEntriesRequest", from |-> i, to |-> j, message_id |-> id,
   term |-> st.current_term, commit |-> st.commit,
   previous_entry |-> prev, entries |-> entries]

AppendEntriesResponse(i, j, id, term, success, uncommit) ==
  [type |-> "AppendEntriesResponse", from |-> i, to |-> j, message_id |-> id,
   term |-> term, success |-> success, uncommit |-> uncommit]

\* A ClientRequest is forwarded without header, client_id and message_id.
ClientRequest(i, j, data) ==
  [type |-> "ClientRequest", from |-> i, to |-> j, data |-> data]

Consume(m) == net (-) SetToBag({m})

\* The messages ms are sent, after the network became b; some may be lost.
Send(b, ms) ==
  \E kept \in SUBSET ms :
    /\ BagCardinality(b) + Cardinality(kept) <= MaxInFlight \/ kept = {}
    /\ net' = b (+) SetToBag(kept)

-----------------------------------------------------------------------------
(* peer_info_t and State (raft_state.hpp). *)

NewPeer ==
  [next_entry |-> 1, match_entry |-> 0, last_message_id |-> 0,
   voted_for_me |-> FALSE, waiting_for_response |-> FALSE]

\* Mutant: the indexes of the peer are cleared too.
ResetIndexes(p) == [p EXCEPT !.voted_for_me = FALSE,
                             !.next_entry = 0, !.match_entry = 0,
                             !.last_message_id = @ + 1,
                             !.waiting_for_response = FALSE]

Reset(p) == [p EXCEPT !.voted_for_me = FALSE,
                      !.last_message_id = @ + 1,
                      !.waiting_for_response = FALSE]

\* A request goes out to a peer: its id is used and a response is awaited.
Asked(p) == [p EXCEPT !.last_message_id = @ + 1,
                      !.waiting_for_response = TRUE]

Answered(p) == [p EXCEPT !.waiting_for_response = FALSE]

Init ==
  /\ storage = [i \in Server |-> NewStorage]
  /\ role = [i \in Server |-> "Follower"]
  /\ leader_id = [i \in Server |-> i]
  /\ minimum_timeout_reached = [i \in Server |-> TRUE]
  /\ peers = [i \in Server |-> [j \in Server |-> NewPeer]]
  /\ aborted = [i \in Server |-> FALSE]
  /\ net = EmptyBag
  /\ restarts = 0

\* Mutant: step_down clears the vote but does not store the new term.
SteppedDownSameTerm(st, term) == SetVote(st, NoServer)

\* step_down(new_term): the storage, and the volatile state of server i whose
\* peers are ps.
SteppedDown(st, term) == SetVote(SetTerm(st, term), NoServer)

StepDownVolatile(i, ps) ==
  /\ role' = [role EXCEPT ![i] = "Follower"]
  /\ peers' = [peers EXCEPT ![i] =
       IF role[i] = "Follower" THEN ps ELSE [j \in Server |-> Reset(ps[j])]]

-----------------------------------------------------------------------------
(* Timers. *)

\* Mutant: a candidate does not vote for itself.
CandidacyWithoutVote(st, i) == SetTerm(st, st.current_term + 1)

\* The storage of server i that becomes a candidate: a new term, its own vote.
Candidacy(st, i) == SetVote(SetTerm(st, st.current_term + 1), i)

\* on(TimeoutRequest): a follower or candidate starts an election.
TimeoutRequest(i) ==
  LET st == Candidacy(storage[i], i)
      asked(j) == [Asked(peers[i][j]) EXCEPT !.voted_for_me = FALSE]
  IN
  /\ Running(i)
  /\ role[i] # "Leader"
  /\ storage[i].current_term < MaxTerm
  /\ role' = [role EXCEPT ![i] = "Candidate"]
  /\ storage' = [storage EXCEPT ![i] = st]
  /\ peers' = [peers EXCEPT ![i] = [j \in Server |->
       IF j = i THEN [peers[i][i] EXCEPT !.voted_for_me = TRUE]
                ELSE asked(j)]]
  /\ Send(net, {VoteRequest(i, j, st.current_term, st.uncommit.index) :
                  j \in Others(i)})
  /\ UNCHANGED <<leader_id, minimum_timeout_reached, aborted, restarts>>

\* on(HeartbeatRequest): the id of the last request is used again.
HeartbeatRequest(i) ==
  /\ Running(i)
  /\ role[i] = "Leader"
  /\ peers' = [peers EXCEPT ![i] = [j \in Server |->
       IF j = i THEN peers[i][i]
                ELSE [peers[i][j] EXCEPT !.waiting_for_response = TRUE]]]
  /\ Send(net, {AppendEntriesRequest(i, j, peers[i][j].last_message_id,
                    storage[i], peers[i][j].match_entry, << >>) :
                  j \in Others(i)})
  /\ UNCHANGED <<storage, role, leader_id, minimum_timeout_reached, aborted,
                 restarts>>

MinimumTimeoutRequest(i) ==
  /\ Running(i)
  /\ ~minimum_timeout_reached[i]
  /\ minimum_timeout_reached' = [minimum_timeout_reached EXCEPT ![i] = TRUE]
  /\ UNCHANGED <<storage, role, leader_id, peers, aborted, net, restarts>>

-----------------------------------------------------------------------------
(* Elections. *)

\* on(VoteRequest)
OnVoteRequest(m) ==
  LET i  == m.to
      j  == m.from
      st == storage[i]
      \* a leader takes the request as a sign that the peer is back
      ps == IF role[i] = "Leader"
            THEN [peers[i] EXCEPT ![j] = Answered(@)] ELSE peers[i]
      granted == m.uncommit >= st.uncommit.index
      response(g) ==
        {VoteResponse(i, j, Larger(st.current_term, m.term), g)}
  IN
  /\ m.type = "VoteRequest"
  /\ UNCHANGED <<minimum_timeout_reached, aborted, restarts>>
  /\ \/ /\ ~minimum_timeout_reached[i]
        /\ peers' = [peers EXCEPT ![i] = ps]
        /\ net' = Consume(m)
        /\ UNCHANGED <<storage, role, leader_id>>
     \/ /\ minimum_timeout_reached[i]
        /\ m.term <= st.current_term
        /\ peers' = [peers EXCEPT ![i] = ps]
        /\ Send(Consume(m), response(FALSE))
        /\ UNCHANGED <<storage, role, leader_id>>
     \/ /\ minimum_timeout_reached[i]
        /\ m.term > st.current_term
        /\ storage' = [storage EXCEPT ![i] =
             SetVote(SteppedDown(st, m.term), IF granted THEN j ELSE NoServer)]
        /\ StepDownVolatile(i, ps)
        /\ leader_id' = [leader_id EXCEPT ![i] = NoServer]
        /\ Send(Consume(m), response(granted))

\* on(VoteResponse)
OnVoteResponse(m) ==
  LET i  == m.to
      j  == m.from
      st == storage[i]
      ps == [peers[i] EXCEPT ![j] =
               [Answered(@) EXCEPT !.voted_for_me = TRUE]]
      wins == Cardinality({k \in Server : ps[k].voted_for_me}) >= Majority
      last == st.uncommit.index
      led(k) == [ps[k] EXCEPT !.waiting_for_response = TRUE,
                              !.next_entry = last + 1,
                              !.match_entry = IF k = i THEN last ELSE 0,
                              !.last_message_id = IF k = i THEN @ ELSE @ + 1]
  IN
  /\ m.type = "VoteResponse"
  /\ UNCHANGED <<aborted, restarts>>
  /\ \/ /\ \/ ~peers[i][j].waiting_for_response
           \/ /\ m.term <= st.current_term
              /\ role[i] # "Candidate" \/ ~m.vote_granted
        /\ net' = Consume(m)
        /\ UNCHANGED <<storage, volatile>>
     \/ /\ peers[i][j].waiting_for_response
        /\ m.term > st.current_term
        /\ storage' = [storage EXCEPT ![i] = SteppedDown(st, m.term)]
        /\ StepDownVolatile(i, peers[i])
        /\ net' = Consume(m)
        /\ UNCHANGED <<leader_id, minimum_timeout_reached>>
     \/ /\ peers[i][j].waiting_for_response
        /\ m.term <= st.current_term
        /\ role[i] = "Candidate"
        /\ m.vote_granted
        /\ ~wins
        /\ peers' = [peers EXCEPT ![i] = ps]
        /\ net' = Consume(m)
        /\ UNCHANGED <<storage, role, leader_id, minimum_timeout_reached>>
     \/ /\ peers[i][j].waiting_for_response
        /\ m.term <= st.current_term
        /\ role[i] = "Candidate"
        /\ m.vote_granted
        /\ wins
        /\ role' = [role EXCEPT ![i] = "Leader"]
        /\ leader_id' = [leader_id EXCEPT ![i] = i]
        /\ peers' = [peers EXCEPT ![i] = [k \in Server |-> led(k)]]
        /\ minimum_timeout_reached' =
             [minimum_timeout_reached EXCEPT ![i] = FALSE]
        /\ Send(Consume(m),
                {AppendEntriesRequest(i, k, led(k).last_message_id, st,
                                      last, << >>) : k \in Others(i)})
        /\ UNCHANGED storage

-----------------------------------------------------------------------------
(* Replication. *)

\* Mutant: every sender of the current term is taken for its leader.
FromAnySender(i, m) == m.term >= storage[i].current_term

\* The sender of m is the leader of a new term, or the one this server follows
\* in its term, or the first one heard of in the term.
FromLeader(i, m) ==
  \/ m.term > storage[i].current_term
  \/ /\ m.term = storage[i].current_term
     /\ leader_id[i] \in {m.from, NoServer}

\* on(AppendEntriesRequest)
OnAppendEntriesRequest(m) ==
  LET i  == m.to
      j  == m.from
      st == storage[i]
      newer == m.term > st.current_term
      response(success, s) ==
        {AppendEntriesResponse(i, j, m.message_id,
           Larger(st.current_term, m.term), success, s.uncommit.index)}
      current  == IF newer THEN SteppedDown(st, m.term) ELSE st
      appended == StorageAppend(current, m.entries)
      advances == m.commit.index > appended.commit.index
      fails    == advances /\ m.commit.term < appended.commit.term /\ ~NDEBUG
      final    == IF advances /\ ~fails
                  THEN CommitUntil(appended, m.commit.index) ELSE appended
      FollowSender ==
        /\ leader_id' = [leader_id EXCEPT ![i] = j]
        /\ IF newer THEN StepDownVolatile(i, peers[i])
                    ELSE UNCHANGED <<role, peers>>
  IN
  /\ m.type = "AppendEntriesRequest"
  /\ UNCHANGED restarts
  /\ \/ /\ m.term < st.current_term
        /\ Send(Consume(m), response(FALSE, st))
        /\ UNCHANGED <<storage, volatile, aborted>>
     \/ /\ m.term = st.current_term
        /\ ~FromLeader(i, m)
        /\ net' = Consume(m)
        /\ UNCHANGED <<storage, volatile, aborted>>
     \/ /\ FromLeader(i, m)
        /\ m.previous_entry < st.commit.index
        /\ FollowSender
        /\ storage' = [storage EXCEPT ![i] = current]
        /\ net' = Consume(m)
        /\ UNCHANGED <<minimum_timeout_reached, aborted>>
     \/ /\ FromLeader(i, m)
        /\ m.previous_entry >= st.commit.index
        /\ m.previous_entry > st.uncommit.index
        /\ FollowSender
        /\ storage' = [storage EXCEPT ![i] = current]
        /\ Send(Consume(m), response(FALSE, st))
        /\ UNCHANGED <<minimum_timeout_reached, aborted>>
     \/ /\ FromLeader(i, m)
        /\ m.previous_entry \in st.commit.index .. st.uncommit.index
        /\ FollowSender
        /\ storage' = [storage EXCEPT ![i] = final]
        /\ aborted' = [aborted EXCEPT ![i] = fails]
        /\ minimum_timeout_reached' =
             [minimum_timeout_reached EXCEPT ![i] = @ /\ fails]
        /\ Send(Consume(m), IF fails THEN {} ELSE response(TRUE, final))

\* n is at position known_peers.size() / 2 of the match indexes of ps sorted in
\* descending order: a majority has reached it, and no majority is beyond it.
MajorityMatch(ps, n) ==
  /\ Cardinality({j \in Server : ps[j].match_entry >= n}) >= Majority
  /\ Cardinality({j \in Server : ps[j].match_entry > n}) < Majority

\* The leader goes one entry further back, but not before the first entry.
BackOff(next) == IF next = 1 THEN 1 ELSE next - 1

\* on(AppendEntriesResponse)
OnAppendEntriesResponse(m) ==
  LET i  == m.to
      j  == m.from
      st == storage[i]
      p  == Answered(peers[i][j])
      expected == /\ peers[i][j].waiting_for_response
                  /\ peers[i][j].last_message_id = m.message_id
                  /\ m.term >= st.current_term
      back   == BackOff(p.next_entry)
      synced == [p EXCEPT !.next_entry = Larger(@, m.uncommit + 1),
                          !.match_entry = m.uncommit]
      ps     == [peers[i] EXCEPT ![j] = synced]
  IN
  /\ m.type = "AppendEntriesResponse"
  /\ UNCHANGED <<leader_id, minimum_timeout_reached, aborted, restarts>>
  /\ \/ /\ ~expected
        /\ net' = Consume(m)
        /\ UNCHANGED <<storage, role, peers>>
     \/ /\ expected
        /\ m.term > st.current_term
        /\ storage' = [storage EXCEPT ![i] = SteppedDown(st, m.term)]
        /\ StepDownVolatile(i, [peers[i] EXCEPT ![j] = p])
        /\ net' = Consume(m)
     \/ /\ expected
        /\ m.term = st.current_term
        /\ role[i] # "Leader" \/ (m.success /\ p.match_entry >= m.uncommit)
        /\ peers' = [peers EXCEPT ![i][j] = p]
        /\ net' = Consume(m)
        /\ UNCHANGED <<storage, role>>
     \/ /\ expected
        /\ m.term = st.current_term
        /\ role[i] = "Leader"
        /\ ~m.success
        /\ p.last_message_id < MaxMessageId
        /\ peers' = [peers EXCEPT ![i][j] =
                       [Asked(p) EXCEPT !.next_entry = back]]
        /\ storage' = [storage EXCEPT ![i] =
                         Checked(Checked(st, back - 1), back)]
        /\ Send(Consume(m),
                {AppendEntriesRequest(i, j, p.last_message_id + 1, st,
                   GetEntryInfo(st, back - 1).index,
                   EntriesSince(st, back - 1))})
        /\ UNCHANGED role
     \/ /\ expected
        /\ m.term = st.current_term
        /\ role[i] = "Leader"
        /\ m.success
        /\ p.match_entry < m.uncommit
        /\ peers' = [peers EXCEPT ![i] = ps]
        /\ \E new_commit \in {ps[k].match_entry : k \in Server} :
             /\ MajorityMatch(ps, new_commit)
             /\ storage' = [storage EXCEPT ![i] =
                  IF new_commit > st.commit.index
                  THEN CommitUntil(st, new_commit) ELSE st]
        /\ net' = Consume(m)
        /\ UNCHANGED role

\* on(ClientRequest) at server i, after the network became b: called by the
\* Messaging application of the server, or for a request a peer forwarded.
OnClientRequest(i, data, b) ==
  LET st    == storage[i]
      new   == st.uncommit.index + 1
      added == StorageAppend(st, <<[index |-> new, term |-> st.current_term,
                                    data |-> data]>>)
      ready(j) == /\ j # i
                  /\ peers[i][j].next_entry = new
                  /\ ~peers[i][j].waiting_for_response
      Updated(j) ==
        IF j = i THEN [peers[i][i] EXCEPT !.match_entry = new,
                                          !.next_entry = new + 1]
        ELSE IF ready(j) THEN [Asked(peers[i][j]) EXCEPT !.next_entry = new + 1]
        ELSE peers[i][j]
  IN
  /\ UNCHANGED <<role, leader_id, minimum_timeout_reached, aborted, restarts>>
  /\ \/ /\ role[i] = "Follower"
        /\ leader_id[i] # NoServer
        /\ Send(b, {ClientRequest(i, leader_id[i], data)})
        /\ UNCHANGED <<storage, peers>>
     \/ /\ role[i] = "Candidate"
           \/ (role[i] = "Follower" /\ leader_id[i] = NoServer)
        /\ net' = b
        /\ UNCHANGED <<storage, peers>>
     \/ /\ role[i] = "Leader"
        /\ Len(st.entries) < MaxLog
        /\ storage' = [storage EXCEPT ![i] =
             IF \E j \in Server : ready(j)
             THEN Checked(Checked(added, new - 1), new) ELSE added]
        /\ peers' = [peers EXCEPT ![i] = [j \in Server |-> Updated(j)]]
        /\ Send(b, {AppendEntriesRequest(i, j, Updated(j).last_message_id,
                       added, new - 1, EntriesSince(added, new - 1)) :
                      j \in {k \in Server : ready(k)}})

-----------------------------------------------------------------------------
(* A crash of the process and its next start: raft_server() is constructed
   again on a fresh MemStorage, which does not read the journal. *)

Restart(i) ==
  /\ restarts < MaxRestarts
  /\ restarts' = restarts + 1
  /\ storage' = [storage EXCEPT ![i] = NewStorage]
  /\ role' = [role EXCEPT ![i] = "Follower"]
  /\ leader_id' = [leader_id EXCEPT ![i] = i]
  /\ minimum_timeout_reached' = [minimum_timeout_reached EXCEPT ![i] = TRUE]
  /\ peers' = [peers EXCEPT ![i] = [j \in Server |-> NewPeer]]
  /\ aborted' = [aborted EXCEPT ![i] = FALSE]
  /\ UNCHANGED net

-----------------------------------------------------------------------------

\* process_server_message: one message is parsed and passed to its handler.
Receive(m) ==
  /\ Running(m.to)
  /\ \/ OnVoteRequest(m)
     \/ OnVoteResponse(m)
     \/ OnAppendEntriesRequest(m)
     \/ OnAppendEntriesResponse(m)
     \/ /\ m.type = "ClientRequest"
        /\ OnClientRequest(m.to, m.data, Consume(m))

\* RequestQueueProcessorThread passes a request to the local server.
LocalClientRequest(i) ==
  /\ Running(i)
  /\ \E data \in Value : OnClientRequest(i, data, net)

Next ==
  \/ \E i \in Server :
       \/ TimeoutRequest(i)
       \/ HeartbeatRequest(i)
       \/ MinimumTimeoutRequest(i)
       \/ LocalClientRequest(i)
       \/ Restart(i)
  \/ \E m \in BagToSet(net) : Receive(m)

Spec == Init /\ [][Next]_vars

-----------------------------------------------------------------------------
(* Properties. *)

Message ==
  [type : {"VoteRequest"}, from : Server, to : Server, term : Nat,
   uncommit : Nat]
  \union
  [type : {"VoteResponse"}, from : Server, to : Server, term : Nat,
   vote_granted : BOOLEAN]
  \union
  [type : {"AppendEntriesRequest"}, from : Server, to : Server,
   message_id : Nat, term : Nat, commit : EntryInfo, previous_entry : Nat,
   entries : Seq(Entry)]
  \union
  [type : {"AppendEntriesResponse"}, from : Server, to : Server,
   message_id : Nat, term : Nat, success : BOOLEAN, uncommit : Nat]
  \union
  [type : {"ClientRequest"}, from : Server, to : Server, data : Value]

Peer == [next_entry : Nat \ {0}, match_entry : Nat, last_message_id : Nat,
         voted_for_me : BOOLEAN, waiting_for_response : BOOLEAN]

\* The type invariant.  The part that is not bookkeeping: next_entry, an
\* unsigned index that failures decrement, never reaches 0.
TypeOK ==
  /\ storage \in [Server -> StorageType]
  /\ role \in [Server -> {"Follower", "Candidate", "Leader"}]
  /\ leader_id \in [Server -> Server \union {NoServer}]
  /\ minimum_timeout_reached \in [Server -> BOOLEAN]
  /\ peers \in [Server -> [Server -> Peer]]
  /\ aborted \in [Server -> BOOLEAN]
  /\ BagToSet(net) \subseteq Message
  /\ restarts \in Nat

\* No server reaches an exit(1) of mem_storage.cpp, which the code marks with
\* "how can this occur? It can't/shouldn't".
NoExit == \A i \in Server : ~storage[i].exited

\* Every log is the sequence of entries 1, 2, ..., the uncommit and commit
\* marks are the index and term of entries of the log (or 0, 0), and commit is
\* not ahead of uncommit.
StorageConsistent == \A i \in Server : WellFormed(storage[i])

\* No server holds an entry of a term it has not reached, although a leader
\* that lost its term may still replicate entries to servers of older terms.
EntryTermsBounded ==
  \A i \in Server : \A k \in 1 .. Len(storage[i].entries) :
    storage[i].entries[k].term <= storage[i].current_term

\* A leader follows nobody else, voted for itself in its term, and counts its
\* whole log as its own match: what the commit rule reads is never stale.
LeaderConsistent ==
  \A i \in Server : role[i] = "Leader" =>
    /\ leader_id[i] = i
    /\ storage[i].voted_for = i
    /\ peers[i][i].voted_for_me
    /\ peers[i][i].match_entry = storage[i].uncommit.index

\* The first election has at most one winner, however the votes are split: no
\* server answers two candidates of its first term, and a majority is more than
\* half of an even cluster too.  (Later elections count late answers of earlier
\* ones.)
FirstElectionSafety ==
  \A i, j \in Server :
    /\ role[i] = "Leader" /\ storage[i].current_term = 1
    /\ role[j] = "Leader" /\ storage[j].current_term = 1
    => i = j

\* A step in which every server that leads before and after it keeps the
\* entries of its log.
LeadersKeepLogs ==
  \A i \in Server :
    role[i] = "Leader" /\ role'[i] = "Leader" =>
      /\ Len(storage[i].entries) <= Len(storage'[i].entries)
      /\ SubSeq(storage'[i].entries, 1, Len(storage[i].entries))
           = storage[i].entries

\* While it leads, a server never erases or overwrites an entry of its own log
\* (StorageAppend in on(AppendEntriesRequest)), even when a second leader of
\* the same term sends it entries.
LeaderAppendOnly == [][LeadersKeepLogs]_vars

Node == INSTANCE RaftNode WITH
  term      <- [i \in Server |-> storage[i].current_term],
  vote      <- [i \in Server |-> storage[i].voted_for],
  committed <- [i \in Server |-> Committed(storage[i])]

\* The cluster implements the promise of RaftNode: on every server, between two
\* starts of its process, terms only grow, there is one vote per term, and the
\* committed prefix of the log is only ever extended.
NodePromise == Node!NodeSpec
=============================================================================
