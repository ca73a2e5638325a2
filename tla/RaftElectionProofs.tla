------------------------- MODULE RaftElectionProofs -------------------------
(***************************************************************************)
(* The first election of a cluster has one leader, for every number of     *)
(* servers, every set of values and all bounds.                            *)
(***************************************************************************)
EXTENDS RaftProofs, FiniteSetTheorems

-----------------------------------------------------------------------------
(* A vote of term 1 is in flight, or was counted by a server that still
   stands in term 1. *)

IsVote(m) == m.type = "VoteResponse" /\ m.vote_granted

\* Server j has voted for server i in term 1, as far as i counts or may still
\* count this vote.
FirstVote(j, i) ==
  \/ /\ role[i] # "Follower"
     /\ storage[i].current_term = 1
     /\ peers[i][j].voted_for_me
  \/ \E m \in BagToSet(net) :
       IsVote(m) /\ m.term = 1 /\ m.from = j /\ m.to = i

Voters(ps) == {k \in Server : ps[k].voted_for_me}

\* Nobody stands in term 0, no vote is of term 0, and a leader has a majority.
ElectionShape ==
  /\ \A i \in Server : role[i] # "Follower" => storage[i].current_term >= 1
  /\ \A m \in BagToSet(net) : IsVote(m) => m.term >= 1
  /\ \A i \in Server :
       role[i] = "Leader" => Cardinality(Voters(peers[i])) >= Majority

\* A server remembers its vote of term 1 while it is in this term, and there is
\* no other vote of it.
VotesOnce ==
  /\ \A i, j \in Server : FirstVote(j, i) =>
       /\ storage[j].current_term >= 1
       /\ storage[j].current_term = 1 => storage[j].voted_for = i
  /\ \A i, j, k \in Server : FirstVote(j, i) /\ FirstVote(j, k) => i = k

\* The inductive invariant of the first election.  A restart forgets a vote.
ElectionInv == ElectionShape /\ (restarts = 0 => VotesOnce)

\* Two majorities have a server in common.
LEMMA MajoritiesMeet ==
  ASSUME NEW P \in SUBSET Server, NEW Q \in SUBSET Server,
         Cardinality(P) >= Majority, Cardinality(Q) >= Majority
  PROVE  P \intersect Q # {}
<1> SUFFICES ASSUME P \intersect Q = {} PROVE FALSE
  OBVIOUS
<1>1. IsFiniteSet(P) /\ IsFiniteSet(Q) /\ IsFiniteSet(P \union Q)
  BY ServerAssumption, FS_Subset, FS_Union
<1>2. Cardinality(P \union Q)
      = Cardinality(P) + Cardinality(Q) - Cardinality(P \intersect Q)
  BY <1>1, FS_Union
<1>3. Cardinality(P \intersect Q) = 0
  BY FS_EmptySet
<1>4. Cardinality(P \union Q) <= Cardinality(Server)
  BY ServerAssumption, FS_Subset
<1>5. /\ Cardinality(P) \in Nat /\ Cardinality(Q) \in Nat
      /\ Cardinality(Server) \in Nat
  BY <1>1, ServerAssumption, FS_CardinalityType
<1> DEFINE n == Cardinality(Server)
<1>6. 2 * (1 + n \div 2) > n
  BY <1>5
<1> QED  BY <1>1, <1>2, <1>3, <1>4, <1>5, <1>6 DEF Majority

\* The invariant gives the property.
LEMMA ElectionInvImplies ==
  ElectionInv => (restarts = 0 => FirstElectionSafety)
<1> SUFFICES ASSUME ElectionInv, restarts = 0,
                    NEW i \in Server, NEW j \in Server,
                    role[i] = "Leader", storage[i].current_term = 1,
                    role[j] = "Leader", storage[j].current_term = 1
             PROVE  i = j
  BY DEF FirstElectionSafety
<1>1. /\ Cardinality(Voters(peers[i])) >= Majority
      /\ Cardinality(Voters(peers[j])) >= Majority
  BY DEF ElectionInv, ElectionShape
<1>2. Voters(peers[i]) \in SUBSET Server /\ Voters(peers[j]) \in SUBSET Server
  BY DEF Voters
<1>3. PICK k \in Server : k \in Voters(peers[i]) /\ k \in Voters(peers[j])
  BY <1>1, <1>2, MajoritiesMeet
<1>4. FirstVote(k, i) /\ FirstVote(k, j)
  BY <1>3 DEF FirstVote, Voters
<1> QED  BY <1>4 DEF ElectionInv, VotesOnce

\* A step of server a after which at most one vote of term 1 is new, which a
\* has given to c when it came into this term.
LEMMA VotesStep ==
  ASSUME VotesOnce, NEW a \in Server, NEW c,
         \A k \in Server : storage[k].current_term \in Nat,
         \A k \in Server \ {a} : storage'[k] = storage[k],
         storage'[a].current_term \in Nat,
         storage'[a].current_term >= storage[a].current_term,
         storage'[a].current_term = storage[a].current_term =>
           storage'[a].voted_for = storage[a].voted_for,
         \A i, j \in Server : FirstVote(j, i)' =>
           \/ FirstVote(j, i)
           \/ /\ j = a /\ i = c /\ storage[a].current_term = 0
              /\ storage'[a].current_term = 1 /\ storage'[a].voted_for = c
  PROVE  VotesOnce'
<1> DEFINE Given(i, j) ==
             /\ j = a /\ i = c /\ storage[a].current_term = 0
             /\ storage'[a].current_term = 1 /\ storage'[a].voted_for = c
<1>1. ASSUME NEW i \in Server, NEW j \in Server, FirstVote(j, i)'
      PROVE  /\ storage'[j].current_term >= 1
             /\ storage'[j].current_term = 1 => storage'[j].voted_for = i
  <2>1. CASE FirstVote(j, i)
    <3>1. /\ storage[j].current_term >= 1
          /\ storage[j].current_term = 1 => storage[j].voted_for = i
      BY <2>1 DEF VotesOnce
    <3>2. CASE j # a
      BY <3>1, <3>2
    <3>3. CASE j = a
      BY <3>1, <3>3
    <3> QED  BY <3>2, <3>3
  <2>2. CASE Given(i, j)
    BY <2>2
  <2> QED  BY <1>1, <2>1, <2>2
<1>2. ASSUME NEW i \in Server, NEW j \in Server, NEW k \in Server,
             FirstVote(j, i)', FirstVote(j, k)'
      PROVE  i = k
  <2>1. /\ FirstVote(j, i) \/ Given(i, j)
        /\ FirstVote(j, k) \/ Given(k, j)
    BY <1>2
  <2>2. FirstVote(j, i) \/ FirstVote(j, k) => storage[j].current_term >= 1
    BY DEF VotesOnce
  <2>3. FirstVote(j, i) /\ FirstVote(j, k) => i = k
    BY DEF VotesOnce
  <2> HIDE DEF FirstVote
  <2> QED  BY <2>1, <2>2, <2>3
<1> QED  BY <1>1, <1>2 DEF VotesOnce

\* Server k is not touched.
Untouched(k) ==
  storage'[k] = storage[k] /\ role'[k] = role[k] /\ peers'[k] = peers[k]

\* A step adds no vote to the network.
NoNewVote == \A m \in BagToSet(net') : m \in BagToSet(net) \/ ~IsVote(m)

\* Server a goes on in the same term with its vote, or in a later one.
TermGoesOn(a) ==
  /\ storage'[a].current_term \in Nat
  /\ storage'[a].current_term >= storage[a].current_term
  /\ storage'[a].current_term = storage[a].current_term =>
       storage'[a].voted_for = storage[a].voted_for

SameVotes(ps, qs) ==
  \A k \in Server : ps[k].voted_for_me = qs[k].voted_for_me

\* The role, term and votes of a server that does not follow are the same.
StandsAsBefore(a) ==
  role'[a] # "Follower" =>
    /\ role'[a] = role[a]
    /\ storage'[a].current_term = storage[a].current_term
    /\ SameVotes(peers'[a], peers[a])

\* A step of one server that gives and counts no vote keeps the invariant.
LEMMA QuietStep ==
  ASSUME IInv, ElectionInv, NEW a \in Server, UNCHANGED restarts,
         \A k \in Server \ {a} : Untouched(k),
         TermGoesOn(a), StandsAsBefore(a), NoNewVote
  PROVE  ElectionInv'
<1>1. \A k \in Server : storage[k].current_term \in Nat
  BY DEF IInv, StorageOK, StorageType
<1>2. ElectionShape
  BY DEF ElectionInv
<1>3. ElectionShape'
  <2>1. ASSUME NEW i \in Server, role'[i] # "Follower"
        PROVE  storage'[i].current_term >= 1
    <3>1. role[i] # "Follower" /\ storage'[i].current_term = storage[i].current_term
      BY <2>1 DEF Untouched, StandsAsBefore
    <3> QED  BY <1>2, <3>1 DEF ElectionShape
  <2>2. \A m \in BagToSet(net') : IsVote(m) => m.term >= 1
    BY <1>2 DEF ElectionShape, NoNewVote
  <2>3. ASSUME NEW i \in Server, role'[i] = "Leader"
        PROVE  Cardinality(Voters(peers'[i])) >= Majority
    <3>1. role[i] = "Leader"
      BY <2>3 DEF Untouched, StandsAsBefore
    <3>2. SameVotes(peers'[i], peers[i])
      BY <2>3 DEF Untouched, StandsAsBefore, SameVotes
    <3>3. Voters(peers'[i]) = Voters(peers[i])
      BY <3>2 DEF Voters, SameVotes
    <3> QED  BY <1>2, <3>1, <3>3 DEF ElectionShape
  <2> QED  BY <2>1, <2>2, <2>3 DEF ElectionShape
<1>4. ASSUME restarts = 0
      PROVE  VotesOnce'
  <2>1. VotesOnce
    BY <1>4 DEF ElectionInv
  <2>2. ASSUME NEW i \in Server, NEW j \in Server, FirstVote(j, i)'
        PROVE  FirstVote(j, i)
    <3>1. ASSUME role'[i] # "Follower", storage'[i].current_term = 1,
                 peers'[i][j].voted_for_me
          PROVE  FirstVote(j, i)
      BY <3>1 DEF FirstVote, Untouched, StandsAsBefore, SameVotes
    <3>2. ASSUME NEW m \in BagToSet(net'), IsVote(m), m.term = 1, m.from = j,
                 m.to = i
          PROVE  FirstVote(j, i)
      BY <3>2 DEF NoNewVote, FirstVote
    <3> QED  BY <2>2, <3>1, <3>2 DEF FirstVote
  <2>3. \A k \in Server \ {a} : storage'[k] = storage[k]
    BY DEF Untouched
  <2> QED  BY <1>1, <2>1, <2>2, <2>3, VotesStep DEF TermGoesOn
<1> QED  BY <1>3, <1>4 DEF ElectionInv

\* Consuming a message, or sending others, adds no vote.
LEMMA NoVoteSent ==
  ASSUME NEW b, BagToSet(b) \subseteq BagToSet(net),
         NEW ms, \A m \in ms : ~IsVote(m),
         net' = b \/ Send(b, ms)
  PROVE  NoNewVote
<1>1. BagToSet(net') \subseteq BagToSet(net) \union ms
  BY SendNet
<1> QED  BY <1>1 DEF NoNewVote

\* Updates of a peer_info_t that leave its vote alone.
LEMMA PeerVotes ==
  ASSUME NEW p \in Peer
  PROVE  /\ Asked(p).voted_for_me = p.voted_for_me
         /\ Answered(p).voted_for_me = p.voted_for_me
         /\ Asked(p) \in Peer /\ Answered(p) \in Peer
  BY PeerUpdates, Zenon DEF Asked, Answered, Peer

\* A server that steps down into a later term gives and counts no vote.
LEMMA StepDownVotes ==
  ASSUME IInv, ElectionInv, NEW a \in Server, UNCHANGED restarts,
         NEW t \in Nat, t > storage[a].current_term,
         NEW s, storage' = [storage EXCEPT ![a] = s], s.current_term = t,
         NEW ps, StepDownVolatile(a, ps), NoNewVote
  PROVE  ElectionInv'
<1>1. /\ storage \in [Server -> StorageType] /\ peers \in [Server -> [Server -> Peer]]
      /\ role \in [Server -> {"Follower", "Candidate", "Leader"}]
      /\ storage[a].current_term \in Nat
  BY DEF IInv, StorageOK, VolatileOK, StorageType
<1>2. storage'[a].current_term = t /\ role'[a] = "Follower"
  BY <1>1 DEF StepDownVolatile
<1>3. \A k \in Server \ {a} : Untouched(k)
  BY <1>1 DEF StepDownVolatile, Untouched
<1>4. TermGoesOn(a) /\ StandsAsBefore(a)
  BY <1>1, <1>2 DEF TermGoesOn, StandsAsBefore
<1> QED  BY <1>3, <1>4, QuietStep

\* A step that leaves storages and roles alone and changes no counted vote.
LEMMA PeersVotes ==
  ASSUME IInv, ElectionInv, NEW a \in Server,
         UNCHANGED <<storage, role, restarts>>,
         NEW ps, peers' = [peers EXCEPT ![a] = ps],
         SameVotes(ps, peers[a]), NoNewVote
  PROVE  ElectionInv'
<1>1. /\ peers \in [Server -> [Server -> Peer]] /\ storage[a].current_term \in Nat
  BY DEF IInv, StorageOK, VolatileOK, StorageType
<1>2. \A k \in Server \ {a} : Untouched(k)
  BY <1>1 DEF Untouched
<1>3. TermGoesOn(a) /\ StandsAsBefore(a)
  BY <1>1 DEF TermGoesOn, StandsAsBefore
<1> QED  BY <1>2, <1>3, QuietStep

\* A restart leaves a follower, and ends what is said about votes.
LEMMA RestartVotes ==
  ASSUME IInv, ElectionInv, NEW i \in Server, Restart(i)
  PROVE  ElectionInv'
<1>1. /\ storage \in [Server -> StorageType] /\ peers \in [Server -> [Server -> Peer]]
      /\ role \in [Server -> {"Follower", "Candidate", "Leader"}]
      /\ restarts \in Nat
  BY DEF IInv, StorageOK, VolatileOK
<1>2. restarts' # 0
  BY <1>1 DEF Restart
<1>3. role'[i] = "Follower" /\ \A k \in Server \ {i} : Untouched(k)
  BY <1>1 DEF Restart, Untouched
<1>4. UNCHANGED net
  BY DEF Restart
<1>5. ElectionShape'
  BY <1>3, <1>4 DEF ElectionInv, ElectionShape, Untouched
<1> QED  BY <1>2, <1>5 DEF ElectionInv

\* The invariant is about these variables only.
LEMMA StutterVotes ==
  ElectionInv /\ UNCHANGED <<storage, role, peers, net, restarts>> => ElectionInv'
<1> SUFFICES ASSUME ElectionInv, UNCHANGED <<storage, role, peers, net, restarts>>
             PROVE  ElectionInv'
  OBVIOUS
<1>1. ElectionShape'
  BY DEF ElectionInv, ElectionShape
<1>2. \A i, j \in Server : FirstVote(j, i)' <=> FirstVote(j, i)
  BY Zenon DEF FirstVote, IsVote
<1>3. VotesOnce => VotesOnce'
  BY Zenon, <1>2 DEF VotesOnce
<1> QED  BY Zenon, <1>1, <1>3 DEF ElectionInv

\* The heartbeat and the minimum timeout touch no vote.
LEMMA HeartbeatVotes ==
  ASSUME IInv, ElectionInv, NEW i \in Server,
         HeartbeatRequest(i) \/ MinimumTimeoutRequest(i)
  PROVE  ElectionInv'
<1>1. CASE MinimumTimeoutRequest(i)
  <2>1. UNCHANGED <<storage, role, peers, net, restarts>>
    BY <1>1 DEF MinimumTimeoutRequest
  <2> QED  BY Zenon, <2>1, StutterVotes
<1>2. CASE HeartbeatRequest(i)
  <2> DEFINE ps == [j \in Server |-> IF j = i THEN peers[i][i]
                      ELSE [peers[i][j] EXCEPT !.waiting_for_response = TRUE]]
             ms == {AppendEntriesRequest(i, j, peers[i][j].last_message_id,
                      storage[i], peers[i][j].match_entry, << >>) :
                      j \in Others(i)}
  <2>1. /\ UNCHANGED <<storage, role, restarts>> /\ Send(net, ms)
        /\ peers' = [peers EXCEPT ![i] = ps]
    BY <1>2 DEF HeartbeatRequest
  <2>2. SameVotes(ps, peers[i])
    BY DEF IInv, VolatileOK, Peer, SameVotes
  <2>3. NoNewVote
    <3>1. \A m \in ms : ~IsVote(m)
      BY DEF AppendEntriesRequest, IsVote
    <3> HIDE DEF ms
    <3> QED  BY <2>1, <3>1, NoVoteSent
  <2> HIDE DEF ps, ms
  <2> QED  BY <2>1, <2>2, <2>3, PeersVotes, Zenon
<1> QED  BY SMTT(30), <1>1, <1>2

\* on(TimeoutRequest): in its first candidacy a server gives its first vote, to
\* itself, and counts none of an earlier one.
LEMMA TimeoutRequestVotes ==
  ASSUME IInv, ElectionInv, NEW i \in Server, TimeoutRequest(i)
  PROVE  ElectionInv'
<1> DEFINE st == Candidacy(storage[i], i)
           ms == {VoteRequest(i, j, st.current_term, st.uncommit.index) :
                    j \in Others(i)}
           ps == [j \in Server |->
                    IF j = i THEN [peers[i][i] EXCEPT !.voted_for_me = TRUE]
                    ELSE [Asked(peers[i][j]) EXCEPT !.voted_for_me = FALSE]]
<1>1. /\ storage \in [Server -> StorageType] /\ peers \in [Server -> [Server -> Peer]]
      /\ role \in [Server -> {"Follower", "Candidate", "Leader"}]
      /\ \A k \in Server : storage[k].current_term \in Nat
  BY DEF IInv, StorageOK, VolatileOK, StorageType
<1>2. /\ role' = [role EXCEPT ![i] = "Candidate"]
      /\ storage' = [storage EXCEPT ![i] = st]
      /\ peers' = [peers EXCEPT ![i] = ps]
      /\ Send(net, ms) /\ UNCHANGED restarts
  BY DEF TimeoutRequest
<1>3. st.current_term = storage[i].current_term + 1 /\ st.voted_for = i
  <2>1. storage[i] \in StorageType
    BY <1>1
  <2> QED  BY <2>1 DEF Candidacy, SetVote, SetTerm, StorageType
<1>4. \A j \in Server \ {i} : ~ps[j].voted_for_me
  <2>1. \A j \in Server : Asked(peers[i][j]) \in Peer
    BY ZenonT(30), <1>1, PeerUpdates
  <2> QED  BY ZenonT(30), <2>1 DEF Peer
<1>5. NoNewVote
  <2>1. \A m \in ms : ~IsVote(m)
    BY DEF VoteRequest, IsVote
  <2> HIDE DEF ms
  <2> QED  BY <1>2, <2>1, NoVoteSent
<1> HIDE DEF st, ms, ps
<1>6. /\ \A k \in Server \ {i} : Untouched(k)
      /\ role'[i] = "Candidate" /\ storage'[i] = st /\ peers'[i] = ps
  BY <1>1, <1>2 DEF Untouched
<1>7. ElectionShape'
  <2>1. ElectionShape
    BY DEF ElectionInv
  <2>2. storage'[i].current_term >= 1
    BY <1>1, <1>3, <1>6
  <2>3. \A m \in BagToSet(net') : IsVote(m) => m.term >= 1
    BY SMTT(30), <1>5, <2>1 DEF ElectionShape, NoNewVote
  <2> QED  BY <1>6, <2>1, <2>2, <2>3 DEF ElectionShape, Untouched
<1>8. ASSUME restarts = 0
      PROVE  VotesOnce'
  <2>1. VotesOnce
    BY SMTT(30), <1>8 DEF ElectionInv
  <2>2. ASSUME NEW k \in Server, NEW j \in Server, FirstVote(j, k)'
        PROVE  \/ FirstVote(j, k)
               \/ /\ j = i /\ k = i /\ storage[i].current_term = 0
                  /\ storage'[i].current_term = 1 /\ storage'[i].voted_for = i
    <3>1. CASE \E m \in BagToSet(net') :
                 IsVote(m) /\ m.term = 1 /\ m.from = j /\ m.to = k
      BY <1>5, <3>1 DEF NoNewVote, FirstVote
    <3>2. CASE /\ role'[k] # "Follower" /\ storage'[k].current_term = 1
               /\ peers'[k][j].voted_for_me /\ k # i
      BY <1>6, <3>2 DEF FirstVote, Untouched
    <3>3. CASE /\ storage'[k].current_term = 1
               /\ peers'[k][j].voted_for_me /\ k = i
      <4>1. j = i
        BY <1>4, <1>6, <3>3, Zenon
      <4>2. st.current_term = 1 /\ storage[i].current_term \in Nat
        BY <1>1, <1>6, <3>3, Zenon
      <4>3. storage[i].current_term = 0
        BY <1>3, <4>2
      <4> QED  BY <1>3, <1>6, <3>3, <4>1, <4>2, <4>3
    <3> QED  BY ZenonT(30), <2>2, <3>1, <3>2, <3>3 DEF FirstVote
  <2>3. /\ storage'[i].current_term \in Nat
        /\ storage'[i].current_term > storage[i].current_term
    BY <1>1, <1>3, <1>6
  <2>4. /\ storage'[i].current_term >= storage[i].current_term
        /\ storage'[i].current_term # storage[i].current_term
    BY <1>1, <2>3
  <2>5. \A k \in Server \ {i} : storage'[k] = storage[k]
    BY <1>6 DEF Untouched
  <2> QED  BY ZenonT(30), <1>1, <2>1, <2>2, <2>3, <2>4, <2>5, VotesStep
<1> QED  BY <1>2, <1>7, <1>8 DEF ElectionInv

\* on(VoteRequest): a vote of term 1 is given by a server that comes into this
\* term from term 0, in which it had given none.
LEMMA OnVoteRequestVotes ==
  ASSUME IInv, ElectionInv, NEW m \in BagToSet(net), OnVoteRequest(m)
  PROVE  ElectionInv'
<1> DEFINE i == m.to
           j == m.from
           st == storage[i]
           ps == IF role[i] = "Leader"
                 THEN [peers[i] EXCEPT ![j] = Answered(@)] ELSE peers[i]
           granted == m.uncommit >= st.uncommit.index
           vote == IF granted THEN j ELSE NoServer
           down == SetVote(SteppedDown(st, m.term), vote)
           answer(g) == VoteResponse(i, j, Larger(st.current_term, m.term), g)
<1>1. i \in Server /\ j \in Server /\ m.term \in Nat
  BY DEF IInv, NetOK, MessageOK, Message, OnVoteRequest
<1>2. /\ storage \in [Server -> StorageType] /\ peers \in [Server -> [Server -> Peer]]
      /\ role \in [Server -> {"Follower", "Candidate", "Leader"}]
      /\ \A k \in Server : storage[k].current_term \in Nat
  BY DEF IInv, StorageOK, VolatileOK, StorageType
<1>3. BagToSet(Consume(m)) \subseteq BagToSet(net)
  BY ConsumeNet
<1>4. ~IsVote(answer(FALSE))
  BY DEF VoteResponse, IsVote
<1>5. CASE /\ peers' = [peers EXCEPT ![i] = ps]
           /\ net' = Consume(m) \/ Send(Consume(m), {answer(FALSE)})
           /\ UNCHANGED <<storage, role, restarts>>
  <2>1. SameVotes(ps, peers[i])
    <3>1. peers[i] \in [Server -> Peer] /\ peers[i][j] \in Peer
      BY <1>1, <1>2
    <3>2. Answered(peers[i][j]).voted_for_me = peers[i][j].voted_for_me
      BY <3>1, PeerVotes
    <3> QED  BY <3>1, <3>2 DEF SameVotes
  <2> DEFINE ms == {answer(FALSE)}
  <2>2. \A r \in ms : ~IsVote(r)
    BY ZenonT(30), <1>4
  <2>3. NoNewVote
    <3>1. net' = Consume(m) \/ Send(Consume(m), ms)
      BY <1>5
    <3> HIDE DEF ms
    <3> QED  BY <1>3, <2>2, <3>1, NoVoteSent
  <2> HIDE DEF ps
  <2> QED  BY <1>1, <1>5, <2>1, <2>3, PeersVotes, Zenon
<1>6. CASE /\ m.term > st.current_term
           /\ storage' = [storage EXCEPT ![i] = down]
           /\ StepDownVolatile(i, ps)
           /\ Send(Consume(m), {answer(granted)})
           /\ UNCHANGED restarts
  <2>0. /\ m.term \in Nat /\ storage[i].current_term \in Nat
        /\ m.term > storage[i].current_term
    BY Zenon, <1>1, <1>2, <1>6
  <2>1. down.current_term = m.term /\ down.voted_for = vote
    <3>1. Sound(st)
      BY <1>1 DEF IInv, StorageOK
    <3>2. /\ SteppedDown(st, m.term) \in StorageType
          /\ SteppedDown(st, m.term).current_term = m.term
      BY SMTT(30), <1>1, <3>1, SteppedDownSound DEF Sound
    <3> HIDE DEF vote, st
    <3> QED  BY <3>2, Zenon DEF SetVote, StorageType
  <2>2. /\ answer(granted).type = "VoteResponse"
        /\ answer(granted).from = i /\ answer(granted).to = j
        /\ answer(granted).term = m.term
        /\ answer(granted).vote_granted = granted
    <3>1. Larger(storage[i].current_term, m.term) = m.term
      BY <2>0 DEF Larger
    <3> QED  BY Zenon, <3>1 DEF VoteResponse
  <2> DEFINE r == answer(granted)
  <2>3. BagToSet(net') \subseteq BagToSet(net) \union {r}
    BY ZenonT(30), <1>3, <1>6, SendNet
  <2>4. /\ \A k \in Server \ {i} : Untouched(k)
        /\ role'[i] = "Follower" /\ storage'[i] = down
    <3> HIDE DEF down, ps
    <3> QED  BY ZenonT(30), <1>1, <1>2, <1>6 DEF StepDownVolatile, Untouched
  <2> HIDE DEF r, down
  <2>5. ElectionShape'
    <3>1. ElectionShape
      BY DEF ElectionInv
    <3>2. r.term >= 1
      <4>1. r.term = m.term
        BY <2>2, Zenon DEF r
      <4> QED  BY <2>0, <4>1
    <3>3. \A q \in BagToSet(net') : IsVote(q) => q.term >= 1
      BY <2>3, <3>1, <3>2 DEF ElectionShape
    <3> QED  BY <2>4, <3>1, <3>3 DEF ElectionShape, Untouched
  <2>6. ASSUME restarts = 0
        PROVE  VotesOnce'
    <3>1. VotesOnce
      BY SMTT(30), <2>6 DEF ElectionInv
    <3>2. ASSUME NEW c \in Server, NEW a \in Server, FirstVote(a, c)'
          PROVE  \/ FirstVote(a, c)
                 \/ /\ a = i /\ c = j /\ storage[i].current_term = 0
                    /\ storage'[i].current_term = 1
                    /\ storage'[i].voted_for = j
      <4>1. CASE \E q \in BagToSet(net) :
                   IsVote(q) /\ q.term = 1 /\ q.from = a /\ q.to = c
        BY <4>1 DEF FirstVote
      <4>2. CASE IsVote(r) /\ r.term = 1 /\ r.from = a /\ r.to = c
        <5>1. a = i /\ c = j /\ m.term = 1 /\ granted
          BY ZenonT(30), <2>2, <4>2 DEF r, IsVote
        <5>2. storage[i].current_term = 0
          BY <2>0, <5>1
        <5>3. vote = j
          BY <5>1
        <5> QED  BY <2>1, <2>4, <5>1, <5>2, <5>3
      <4>3. CASE /\ role'[c] # "Follower" /\ storage'[c].current_term = 1
                 /\ peers'[c][a].voted_for_me
        <5>1. c # i
          BY SMTT(30), <2>4, <4>3
        <5> QED  BY <2>4, <4>3, <5>1 DEF FirstVote, Untouched
      <4> QED  BY ZenonT(30), <2>3, <3>2, <4>1, <4>2, <4>3 DEF FirstVote
    <3>3. /\ storage'[i].current_term \in Nat
          /\ storage'[i].current_term >= storage[i].current_term
          /\ storage'[i].current_term # storage[i].current_term
      BY <2>0, <2>1, <2>4
    <3>4. \A k \in Server \ {i} : storage'[k] = storage[k]
      BY <2>4 DEF Untouched
    <3> HIDE DEF i, j
    <3> QED  BY ZenonT(30), <1>1, <1>2, <3>1, <3>2, <3>3, <3>4, VotesStep
  <2> QED  BY <1>6, <2>5, <2>6 DEF ElectionInv
<1> QED  BY <1>5, <1>6, Zenon DEF OnVoteRequest

\* A candidate i counts the vote m, and leads if it has a majority now.
LEMMA CountVote ==
  ASSUME IInv, ElectionInv, NEW m \in BagToSet(net), IsVote(m),
         NEW i \in Server, i = m.to, m.from \in Server, m.term \in Nat,
         m.term <= storage[i].current_term, role[i] = "Candidate",
         NEW r \in {"Candidate", "Leader"},
         role' = [role EXCEPT ![i] = r],
         NEW ps, \A k \in Server \ {m.from} : ps[k] = peers[i][k],
         r = "Leader" => Cardinality(Voters(ps)) >= Majority,
         NEW qs, SameVotes(qs, ps), peers' = [peers EXCEPT ![i] = qs],
         UNCHANGED <<storage, restarts>>, NoNewVote
  PROVE  ElectionInv'
<1>1. /\ peers \in [Server -> [Server -> Peer]]
      /\ role \in [Server -> {"Follower", "Candidate", "Leader"}]
      /\ \A k \in Server : storage[k].current_term \in Nat
  BY DEF IInv, StorageOK, VolatileOK, StorageType
<1>2. /\ role'[i] = r /\ peers'[i] = qs
      /\ \A k \in Server \ {i} : Untouched(k)
  BY <1>1 DEF Untouched
<1>3. ElectionShape /\ storage[i].current_term >= 1 /\ m.term >= 1
  BY DEF ElectionInv, ElectionShape
<1>4. Voters(qs) = Voters(ps)
  BY DEF Voters, SameVotes
<1>5. ElectionShape'
  <2>1. \A k \in Server : role'[k] # "Follower" => storage'[k].current_term >= 1
    BY <1>2, <1>3 DEF ElectionShape, Untouched
  <2>2. \A q \in BagToSet(net') : IsVote(q) => q.term >= 1
    BY <1>3 DEF ElectionShape, NoNewVote
  <2>3. ASSUME NEW k \in Server, role'[k] = "Leader"
        PROVE  Cardinality(Voters(peers'[k])) >= Majority
    <3>1. CASE k = i
      BY <1>2, <1>4, <2>3, <3>1
    <3>2. CASE k # i
      BY SMTT(30), <1>2, <1>3, <2>3, <3>2 DEF ElectionShape, Untouched
    <3> QED  BY <3>1, <3>2
  <2> QED  BY SMTT(30), <2>1, <2>2, <2>3 DEF ElectionShape
<1>6. ASSUME restarts = 0
      PROVE  VotesOnce'
  <2>1. VotesOnce
    BY SMTT(30), <1>6 DEF ElectionInv
  <2>2. ASSUME NEW c \in Server, NEW a \in Server, FirstVote(a, c)'
        PROVE  FirstVote(a, c)
    <3>1. CASE \E q \in BagToSet(net') :
                 IsVote(q) /\ q.term = 1 /\ q.from = a /\ q.to = c
      BY <3>1 DEF NoNewVote, FirstVote
    <3>2. CASE /\ role'[c] # "Follower" /\ storage'[c].current_term = 1
               /\ peers'[c][a].voted_for_me /\ c # i
      BY SMTT(30), <1>2, <3>2 DEF FirstVote, Untouched
    <3>3. CASE /\ storage'[c].current_term = 1
               /\ peers'[c][a].voted_for_me /\ c = i /\ a # m.from
      <4>1. ps[a] = peers[i][a] /\ ps[a].voted_for_me
        BY SMTT(30), <1>2, <3>3 DEF SameVotes
      <4> QED  BY <3>3, <4>1 DEF FirstVote
    <3>4. CASE storage'[c].current_term = 1 /\ c = i /\ a = m.from
      <4>1. m.term = 1
        BY <1>3, <3>4
      <4> QED  BY SMTT(30), <3>4, <4>1 DEF FirstVote
    <3> QED  BY ZenonT(30), <2>2, <3>1, <3>2, <3>3, <3>4 DEF FirstVote
  <2> QED  BY <2>1, <2>2 DEF VotesOnce
<1> QED  BY SMTT(30), <1>5, <1>6 DEF ElectionInv

\* on(VoteResponse) counts a vote for at most the term of the candidate.
LEMMA OnVoteResponseVotes ==
  ASSUME IInv, ElectionInv, NEW m \in BagToSet(net), OnVoteResponse(m)
  PROVE  ElectionInv'
<1> DEFINE i == m.to
           j == m.from
           st == storage[i]
           ps == [peers[i] EXCEPT ![j] =
                    [Answered(@) EXCEPT !.voted_for_me = TRUE]]
           last == st.uncommit.index
           led(k) == [ps[k] EXCEPT
                        !.waiting_for_response = TRUE,
                        !.next_entry = last + 1,
                        !.match_entry = IF k = i THEN last ELSE 0,
                        !.last_message_id = IF k = i THEN @ ELSE @ + 1]
           qs == [k \in Server |-> led(k)]
           ms == {AppendEntriesRequest(i, k, led(k).last_message_id, st,
                                       last, << >>) : k \in Others(i)}
<1>1. /\ i \in Server /\ j \in Server /\ m.term \in Nat
      /\ m.type = "VoteResponse"
  BY ZenonT(30) DEF IInv, NetOK, MessageOK, Message, OnVoteResponse
<1>2. /\ storage \in [Server -> StorageType] /\ peers[i] \in [Server -> Peer]
      /\ role \in [Server -> {"Follower", "Candidate", "Leader"}]
      /\ st.current_term \in Nat
  BY <1>1 DEF IInv, StorageOK, VolatileOK, StorageType
<1>3. BagToSet(Consume(m)) \subseteq BagToSet(net)
  BY ConsumeNet
<1>4. ASSUME net' = Consume(m) \/ Send(Consume(m), ms)
      PROVE  NoNewVote
  <2>1. \A r \in ms : ~IsVote(r)
    BY DEF AppendEntriesRequest, IsVote
  <2> HIDE DEF ms
  <2> QED  BY SMTT(30), <1>3, <1>4, <2>1, NoVoteSent
<1>5. UNCHANGED <<aborted, restarts>>
  BY Zenon DEF OnVoteResponse
<1>6. CASE UNCHANGED <<storage, volatile>> /\ net' = Consume(m)
  <2>1. NoNewVote /\ UNCHANGED <<storage, role, peers, restarts>>
    BY <1>4, <1>5, <1>6 DEF volatile
  <2>2. \A k \in Server : Untouched(k)
    BY <2>1 DEF Untouched
  <2>3. TermGoesOn(i) /\ StandsAsBefore(i)
    BY <1>2, <2>1 DEF TermGoesOn, StandsAsBefore, SameVotes
  <2> QED  BY <1>1, <1>5, <2>1, <2>2, <2>3, QuietStep
<1>7. CASE /\ m.term > st.current_term
           /\ storage' = [storage EXCEPT ![i] = SteppedDown(st, m.term)]
           /\ StepDownVolatile(i, peers[i])
           /\ net' = Consume(m)
  <2>1. SteppedDown(st, m.term).current_term = m.term
    BY <1>1, SteppedDownSound DEF IInv, StorageOK
  <2> QED  BY ZenonT(30), <1>1, <1>4, <1>5, <1>7, <2>1, StepDownVotes
<1>8. ps \in [Server -> Peer] /\ \A k \in Server \ {j} : ps[k] = peers[i][k]
  <2>1. Answered(peers[i][j]) \in Peer
    BY ZenonT(30), <1>1, <1>2, PeerUpdates
  <2>2. [Answered(peers[i][j]) EXCEPT !.voted_for_me = TRUE] \in Peer
    BY ZenonT(30), <2>1, PeerUpdates
  <2> QED  BY <1>1, <1>2, <2>2
<1>9. CASE /\ m.term <= st.current_term
           /\ role[i] = "Candidate" /\ m.vote_granted
           /\ peers' = [peers EXCEPT ![i] = ps]
           /\ net' = Consume(m)
           /\ UNCHANGED <<storage, role, leader_id, minimum_timeout_reached>>
  <2>1. SameVotes(ps, ps) /\ IsVote(m) /\ NoNewVote
    BY <1>1, <1>4, <1>9 DEF SameVotes, IsVote
  <2>2. role' = [role EXCEPT ![i] = "Candidate"]
    BY SMTT(30), <1>2, <1>9
  <2> HIDE DEF ps
  <2> QED  BY ZenonT(30), <1>1, <1>5, <1>8, <1>9, <2>1, <2>2, CountVote
<1>10. CASE /\ m.term <= st.current_term
            /\ role[i] = "Candidate" /\ m.vote_granted
            /\ Cardinality({k \in Server : ps[k].voted_for_me}) >= Majority
            /\ role' = [role EXCEPT ![i] = "Leader"]
            /\ peers' = [peers EXCEPT ![i] = qs]
            /\ Send(Consume(m), ms)
            /\ UNCHANGED storage
  <2>1. SameVotes(qs, ps)
    <3> HIDE DEF ps, last
    <3>1. ASSUME NEW k \in Server
          PROVE  led(k).voted_for_me = ps[k].voted_for_me
      <4>1. ps[k] \in Peer
        BY <1>8
      <4> DEFINE n == last + 1
                 a == IF k = i THEN last ELSE 0
                 id == IF k = i THEN ps[k].last_message_id
                       ELSE ps[k].last_message_id + 1
      <4>2. led(k) = [ps[k] EXCEPT !.waiting_for_response = TRUE,
                                   !.next_entry = n, !.match_entry = a,
                                   !.last_message_id = id]
        BY SMTT(30)
      <4> HIDE DEF n, a, id, led
      <4> QED  BY <4>1, <4>2, Zenon DEF Peer
    <3> HIDE DEF led
    <3> QED  BY ZenonT(30), <3>1 DEF SameVotes
  <2>2. Cardinality(Voters(ps)) >= Majority /\ IsVote(m) /\ NoNewVote
    BY ZenonT(30), <1>1, <1>4, <1>10 DEF Voters, IsVote
  <2> HIDE DEF ps, qs, ms
  <2> QED  BY ZenonT(30), <1>1, <1>5, <1>8, <1>10, <2>1, <2>2, CountVote
<1> QED  BY <1>6, <1>7, <1>9, <1>10, Zenon DEF OnVoteResponse

\* A step in the same term that changes no role, no vote and no counted vote.
LEMMA SameTermVotes ==
  ASSUME IInv, ElectionInv, NEW a \in Server, UNCHANGED <<role, restarts>>,
         NEW s, storage' = [storage EXCEPT ![a] = s],
         s.current_term = storage[a].current_term,
         s.voted_for = storage[a].voted_for,
         NEW ps, peers' = [peers EXCEPT ![a] = ps],
         SameVotes(ps, peers[a]), NoNewVote
  PROVE  ElectionInv'
<1>1. /\ storage \in [Server -> StorageType]
      /\ peers \in [Server -> [Server -> Peer]]
      /\ storage[a].current_term \in Nat
  BY DEF IInv, StorageOK, VolatileOK, StorageType
<1>2. /\ storage'[a] = s /\ peers'[a] = ps
      /\ \A k \in Server \ {a} : Untouched(k)
  BY <1>1 DEF Untouched
<1>3. TermGoesOn(a) /\ StandsAsBefore(a)
  BY <1>1, <1>2 DEF TermGoesOn, StandsAsBefore
<1> QED  BY SMTT(30), <1>2, <1>3, QuietStep

\* on(AppendEntriesRequest) gives no vote and counts none.
LEMMA OnAppendEntriesRequestVotes ==
  ASSUME IInv, ElectionInv, NEW m \in BagToSet(net), OnAppendEntriesRequest(m)
  PROVE  ElectionInv'
<1> DEFINE i == m.to
           j == m.from
           st == storage[i]
           newer == m.term > st.current_term
           response(success, s) ==
             {AppendEntriesResponse(i, j, m.message_id,
                Larger(st.current_term, m.term), success, s.uncommit.index)}
           current == IF newer THEN SteppedDown(st, m.term) ELSE st
           appended == StorageAppend(current, m.entries)
           advances == m.commit.index > appended.commit.index
           fails == advances /\ m.commit.term < appended.commit.term /\ ~NDEBUG
           final == IF advances /\ ~fails
                    THEN CommitUntil(appended, m.commit.index) ELSE appended
           Follow == IF newer THEN StepDownVolatile(i, peers[i])
                              ELSE UNCHANGED <<role, peers>>
<1>1. MessageOK(m) /\ m.type = "AppendEntriesRequest" /\ UNCHANGED restarts
  BY Zenon DEF IInv, NetOK, OnAppendEntriesRequest
<1>2. /\ i \in Server /\ m.term \in Nat /\ m.commit.index \in Nat
      /\ Continues(m.entries, m.previous_entry)
  BY SMTT(30), <1>1 DEF MessageOK, Message, EntryInfo
<1>3. /\ Sound(st) /\ st.current_term \in Nat
      /\ storage \in [Server -> StorageType]
      /\ peers \in [Server -> [Server -> Peer]]
  BY ZenonT(30), <1>2 DEF IInv, StorageOK, VolatileOK, Sound, StorageType
<1>4. /\ Sound(current)
      /\ current.commit = st.commit /\ current.uncommit = st.uncommit
      /\ newer => current.current_term = m.term
      /\ ~newer => current = st
  BY <1>2, <1>3, SteppedDownSound, Zenon
<1>5. BagToSet(Consume(m)) \subseteq BagToSet(net)
  BY ConsumeNet
<1>6. \A g, s : \A r \in response(g, s) : ~IsVote(r)
  BY DEF AppendEntriesResponse, IsVote
<1>7. ASSUME NEW s, storage' = [storage EXCEPT ![i] = s], Follow,
             s.current_term = current.current_term,
             s.voted_for = current.voted_for, NoNewVote
      PROVE  ElectionInv'
  <2>1. CASE newer
    BY ZenonT(30), <1>1, <1>2, <1>4, <1>7, <2>1, StepDownVotes
  <2>2. CASE ~newer
    <3>1. SameVotes(peers[i], peers[i]) /\ peers' = [peers EXCEPT ![i] = peers[i]]
      BY ZenonT(30), <1>2, <1>3, <1>7, <2>2 DEF SameVotes
    <3>2. /\ s.current_term = storage[i].current_term
          /\ s.voted_for = storage[i].voted_for
          /\ UNCHANGED <<role, restarts>>
      BY ZenonT(30), <1>1, <1>4, <1>7, <2>2
    <3> QED  BY ZenonT(30), <1>2, <1>7, <3>1, <3>2, SameTermVotes
  <2> QED  BY SMTT(30), <2>1, <2>2
<1>8. CASE /\ UNCHANGED <<storage, volatile, aborted>>
           /\ net' = Consume(m) \/ Send(Consume(m), response(FALSE, st))
  <2>1. NoNewVote
    <3> HIDE DEF response
    <3> QED  BY ZenonT(30), <1>5, <1>6, <1>8, NoVoteSent
  <2>2. SameVotes(peers[i], peers[i]) /\ peers' = [peers EXCEPT ![i] = peers[i]]
    BY <1>2, <1>3, <1>8 DEF SameVotes, volatile
  <2>3. UNCHANGED <<storage, role, restarts>>
    BY <1>1, <1>8 DEF volatile
  <2> QED  BY ZenonT(30), <1>2, <2>1, <2>2, <2>3, PeersVotes
<1>9. CASE /\ Follow
           /\ storage' = [storage EXCEPT ![i] = current]
           /\ net' = Consume(m) \/ Send(Consume(m), response(FALSE, st))
  <2>1. NoNewVote
    <3> HIDE DEF response
    <3> QED  BY ZenonT(30), <1>5, <1>6, <1>9, NoVoteSent
  <2> HIDE DEF current, Follow
  <2> QED  BY ZenonT(30), <1>7, <1>9, <2>1
<1>10. CASE /\ Follow
            /\ m.previous_entry \in st.commit.index .. st.uncommit.index
            /\ storage' = [storage EXCEPT ![i] = final]
            /\ Send(Consume(m), IF fails THEN {} ELSE response(TRUE, final))
  <2>1. NoNewVote
    <3> DEFINE ms == IF fails THEN {} ELSE response(TRUE, final)
    <3>1. \A r \in ms : ~IsVote(r)
      BY <1>6, Zenon
    <3>2. Send(Consume(m), ms)
      BY ZenonT(30), <1>10
    <3> HIDE DEF ms
    <3> QED  BY <1>5, <3>1, <3>2, NoVoteSent
  <2>2. m.previous_entry \in current.commit.index .. current.uncommit.index
    BY <1>4, <1>10, Zenon
  <2>3. \/ final = appended
        \/ /\ m.commit.index > appended.commit.index
           /\ final = CommitUntil(appended, m.commit.index)
    BY Zenon
  <2> HIDE DEF current, final, fails, Follow
  <2>4. /\ Sound(appended)
        /\ appended.current_term = current.current_term
        /\ appended.voted_for = current.voted_for
    BY ZenonT(30), <1>2, <1>4, <2>2, AppendSound
  <2> HIDE DEF appended
  <2>5. /\ final.current_term = current.current_term
        /\ final.voted_for = current.voted_for
    BY <1>2, <2>3, <2>4, CommitSound
  <2> QED  BY ZenonT(30), <1>7, <1>10, <2>1, <2>5
<1> HIDE DEF response, current, final, fails
<1> QED  BY <1>8, <1>9, <1>10, Zenon
         DEF OnAppendEntriesRequest, response, current, final, fails

\* on(AppendEntriesResponse) gives no vote and counts none.
LEMMA OnAppendEntriesResponseVotes ==
  ASSUME IInv, ElectionInv, NEW m \in BagToSet(net), OnAppendEntriesResponse(m)
  PROVE  ElectionInv'
<1> DEFINE i == m.to
           j == m.from
           st == storage[i]
           p == Answered(peers[i][j])
           back == BackOff(p.next_entry)
           asked == [Asked(p) EXCEPT !.next_entry = back]
           synced == [p EXCEPT !.next_entry = Larger(@, m.uncommit + 1),
                               !.match_entry = m.uncommit]
           ps == [peers[i] EXCEPT ![j] = synced]
           retry == {AppendEntriesRequest(i, j, p.last_message_id + 1, st,
                       GetEntryInfo(st, back - 1).index,
                       EntriesSince(st, back - 1))}
<1>1. /\ MessageOK(m) /\ m.type = "AppendEntriesResponse"
      /\ UNCHANGED restarts
  BY Zenon DEF IInv, NetOK, OnAppendEntriesResponse
<1>2. i \in Server /\ j \in Server /\ m.term \in Nat /\ m.uncommit \in Nat
  BY SMTT(30), <1>1 DEF MessageOK, Message
<1>3. /\ Sound(st) /\ st.current_term \in Nat
      /\ storage \in [Server -> StorageType]
      /\ peers \in [Server -> [Server -> Peer]]
  BY <1>2 DEF IInv, StorageOK, VolatileOK, Sound, StorageType
<1>4. peers[i] \in [Server -> Peer] /\ peers[i][j] \in Peer
  BY <1>2, <1>3
<1>5. /\ p \in Peer /\ p.voted_for_me = peers[i][j].voted_for_me
      /\ Asked(p) \in Peer /\ Asked(p).voted_for_me = p.voted_for_me
  <2>1. p \in Peer /\ p.voted_for_me = peers[i][j].voted_for_me
    BY <1>4, PeerVotes
  <2> HIDE DEF p
  <2> QED  BY SMTT(30), <2>1, PeerVotes
<1>6. ASSUME net' = Consume(m) \/ Send(Consume(m), retry)
      PROVE  NoNewVote
  <2>1. \A r \in retry : ~IsVote(r)
    BY DEF AppendEntriesRequest, IsVote
  <2> HIDE DEF retry
  <2> QED  BY <1>6, <2>1, ConsumeNet, NoVoteSent
<1>7. ASSUME NEW q, q.voted_for_me = peers[i][j].voted_for_me
      PROVE  SameVotes([peers[i] EXCEPT ![j] = q], peers[i])
  BY <1>4, <1>7 DEF SameVotes
<1>8. ASSUME NEW q, q.voted_for_me = peers[i][j].voted_for_me,
             peers' = [peers EXCEPT ![i] = [peers[i] EXCEPT ![j] = q]],
             NEW s, storage' = [storage EXCEPT ![i] = s],
             s.current_term = st.current_term, s.voted_for = st.voted_for,
             NoNewVote, UNCHANGED role
      PROVE  ElectionInv'
  <2> DEFINE new == [peers[i] EXCEPT ![j] = q]
  <2>1. SameVotes(new, peers[i]) /\ peers' = [peers EXCEPT ![i] = new]
        /\ UNCHANGED <<role, restarts>>
    BY SMTT(30), <1>1, <1>7, <1>8
  <2> HIDE DEF new
  <2> QED  BY ZenonT(30), <1>2, <1>8, <2>1, SameTermVotes
<1>9. CASE net' = Consume(m) /\ UNCHANGED <<storage, role, peers>>
  <2>1. NoNewVote /\ SameVotes(peers[i], peers[i])
    BY SMTT(30), <1>6, <1>9 DEF SameVotes
  <2>2. /\ peers' = [peers EXCEPT ![i] = peers[i]]
        /\ UNCHANGED <<storage, role, restarts>>
    BY <1>1, <1>2, <1>3, <1>9
  <2> QED  BY ZenonT(30), <1>2, <2>1, <2>2, PeersVotes
<1>10. CASE /\ m.term > st.current_term
            /\ storage' = [storage EXCEPT ![i] = SteppedDown(st, m.term)]
            /\ StepDownVolatile(i, [peers[i] EXCEPT ![j] = p])
            /\ net' = Consume(m)
  <2> DEFINE new == [peers[i] EXCEPT ![j] = p]
             down == SteppedDown(st, m.term)
  <2>1. StepDownVolatile(i, new) /\ storage' = [storage EXCEPT ![i] = down]
        /\ NoNewVote
    BY ZenonT(30), <1>6, <1>10
  <2>2. down.current_term = m.term
    BY ZenonT(30), <1>2, <1>3, SteppedDownSound
  <2> HIDE DEF new, down
  <2> QED  BY ZenonT(30), <1>1, <1>2, <1>10, <2>1, <2>2, StepDownVotes
<1>11. CASE /\ peers' = [peers EXCEPT ![i][j] = p]
            /\ net' = Consume(m) /\ UNCHANGED <<storage, role>>
  <2>1. /\ peers' = [peers EXCEPT ![i] = [peers[i] EXCEPT ![j] = p]]
        /\ storage' = [storage EXCEPT ![i] = st] /\ NoNewVote
    BY ZenonT(30), <1>2, <1>3, <1>6, <1>11
  <2> HIDE DEF p
  <2> QED  BY ZenonT(30), <1>5, <1>8, <1>11, <2>1
<1>12. CASE /\ peers' = [peers EXCEPT ![i][j] = asked]
            /\ storage' = [storage EXCEPT ![i] =
                             Checked(Checked(st, back - 1), back)]
            /\ Send(Consume(m), retry)
            /\ UNCHANGED role
  <2>1. asked.voted_for_me = peers[i][j].voted_for_me
    <3> HIDE DEF p, back
    <3> QED  BY <1>5, Zenon DEF Peer
  <2>2. Checked(Checked(st, back - 1), back) = st
    <3> HIDE DEF back
    <3> QED  BY SMTT(30), <1>3, CheckedSame
  <2> HIDE DEF asked, back, retry
  <2>3. /\ peers' = [peers EXCEPT ![i] = [peers[i] EXCEPT ![j] = asked]]
        /\ storage' = [storage EXCEPT ![i] = st] /\ NoNewVote
    BY ZenonT(30), <1>2, <1>3, <1>6, <1>12, <2>2
  <2> QED  BY ZenonT(30), <1>8, <1>12, <2>1, <2>3
<1>13. ASSUME peers' = [peers EXCEPT ![i] = ps],
              NEW new_commit \in {ps[k].match_entry : k \in Server},
              storage' = [storage EXCEPT ![i] =
                IF new_commit > st.commit.index
                THEN CommitUntil(st, new_commit) ELSE st],
              net' = Consume(m), UNCHANGED role
       PROVE  ElectionInv'
  <2> DEFINE s == IF new_commit > st.commit.index
                  THEN CommitUntil(st, new_commit) ELSE st
  <2>1. /\ synced.voted_for_me = peers[i][j].voted_for_me
        /\ synced.match_entry = m.uncommit
    <3> HIDE DEF p
    <3> QED  BY <1>5, Zenon DEF Peer
  <2>2. new_commit \in Nat
    <3> HIDE DEF synced
    <3>1. \A k \in Server : ps[k].match_entry \in Nat
      BY ZenonT(30), <1>2, <1>4, <2>1 DEF Peer
    <3> QED  BY <3>1, <1>13
  <2>3. s.current_term = st.current_term /\ s.voted_for = st.voted_for
    BY SMTT(30), <1>3, <2>2, CommitSound
  <2>4. storage' = [storage EXCEPT ![i] = s] /\ NoNewVote
    BY <1>6, <1>13
  <2> HIDE DEF s, synced
  <2> QED  BY ZenonT(30), <1>8, <1>13, <2>1, <2>3, <2>4
<1> QED  BY <1>9, <1>10, <1>11, <1>12, <1>13, Zenon DEF OnAppendEntriesResponse

\* on(ClientRequest) gives no vote and counts none.
LEMMA OnClientRequestVotes ==
  ASSUME IInv, ElectionInv, NEW i \in Server, NEW data \in Value, NEW b,
         BagToSet(b) \subseteq BagToSet(net), OnClientRequest(i, data, b)
  PROVE  ElectionInv'
<1> DEFINE st == storage[i]
           new == st.uncommit.index + 1
           entry == [index |-> new, term |-> st.current_term, data |-> data]
           added == StorageAppend(st, <<entry>>)
           ready(j) == /\ j # i
                       /\ peers[i][j].next_entry = new
                       /\ ~peers[i][j].waiting_for_response
           Updated(j) ==
             IF j = i THEN [peers[i][i] EXCEPT !.match_entry = new,
                                               !.next_entry = new + 1]
             ELSE IF ready(j)
                  THEN [Asked(peers[i][j]) EXCEPT !.next_entry = new + 1]
             ELSE peers[i][j]
           ms == {AppendEntriesRequest(i, j, Updated(j).last_message_id,
                    added, new - 1, EntriesSince(added, new - 1)) :
                    j \in {k \in Server : ready(k)}}
           forward == {ClientRequest(i, leader_id[i], data)}
<1>1. /\ Sound(st) /\ storage \in [Server -> StorageType]
      /\ peers \in [Server -> [Server -> Peer]]
      /\ UNCHANGED <<role, restarts>>
  BY Zenon DEF IInv, StorageOK, VolatileOK, OnClientRequest
<1>2. /\ st.current_term \in Nat /\ st.commit.index \in Nat
      /\ st.uncommit.index \in Nat /\ st.commit.index <= st.uncommit.index
  BY <1>1 DEF Sound, StorageType, EntryInfo, WellFormed
<1>3. CASE /\ UNCHANGED <<storage, peers>>
           /\ net' = b \/ Send(b, forward)
  <2>1. \A r \in forward : ~IsVote(r)
    BY DEF ClientRequest, IsVote
  <2> HIDE DEF forward
  <2>2. NoNewVote
    BY <1>3, <2>1, NoVoteSent
  <2>3. /\ SameVotes(peers[i], peers[i])
        /\ peers' = [peers EXCEPT ![i] = peers[i]]
        /\ UNCHANGED <<storage, role, restarts>>
    BY <1>1, <1>3 DEF SameVotes
  <2> QED  BY ZenonT(30), <2>2, <2>3, PeersVotes
<1>4. CASE /\ storage' = [storage EXCEPT ![i] =
                IF \E j \in Server : ready(j)
                THEN Checked(Checked(added, new - 1), new) ELSE added]
           /\ peers' = [peers EXCEPT ![i] = [j \in Server |-> Updated(j)]]
           /\ Send(b, ms)
  <2> DEFINE es == <<entry>>
             last == st.uncommit.index
             ps == [j \in Server |-> Updated(j)]
  <2>1. /\ Continues(es, last)
        /\ last \in st.commit.index .. last
        /\ added = StorageAppend(st, es)
    BY <1>2 DEF Continues, Entry
  <2>2. /\ Sound(added) /\ added.current_term = st.current_term
        /\ added.voted_for = st.voted_for
    <3> HIDE DEF es, added, st
    <3> QED  BY <1>1, <2>1, AppendSound
  <2>3. storage' = [storage EXCEPT ![i] = added]
    <3> HIDE DEF added
    <3>1. Checked(Checked(added, new - 1), new) = added
      BY SMTT(30), <2>2, CheckedSame
    <3> QED  BY <1>4, <3>1, Zenon
  <2>4. NoNewVote
    <3>1. \A r \in ms : ~IsVote(r)
      <4> HIDE DEF Updated, ready, added
      <4> QED  BY SMTT(30) DEF AppendEntriesRequest, IsVote
    <3>2. Send(b, ms)
      BY Zenon, <1>4
    <3> HIDE DEF ms
    <3> QED  BY SMTT(30), <3>1, <3>2, NoVoteSent
  <2>5. ASSUME NEW j \in Server
        PROVE  Updated(j).voted_for_me = peers[i][j].voted_for_me
    <3>1. /\ peers[i][j] \in Peer
          /\ Asked(peers[i][j]) \in Peer
          /\ Asked(peers[i][j]).voted_for_me = peers[i][j].voted_for_me
      BY <1>1, PeerVotes
    <3>2. ASSUME NEW q \in Peer, NEW x, NEW y
          PROVE  /\ [q EXCEPT !.next_entry = y].voted_for_me = q.voted_for_me
                 /\ [q EXCEPT !.match_entry = x,
                              !.next_entry = y].voted_for_me = q.voted_for_me
      BY DEF Peer
    <3> HIDE DEF new, ready
    <3> QED  BY <3>1, <3>2
  <2>6. SameVotes(ps, peers[i]) /\ peers' = [peers EXCEPT ![i] = ps]
    <3>1. \A j \in Server : ps[j] = Updated(j)
      BY Zenon
    <3> HIDE DEF Updated
    <3> QED  BY ZenonT(30), <1>4, <2>5, <3>1 DEF SameVotes
  <2> HIDE DEF ps, added
  <2> QED  BY ZenonT(30), <1>1, <2>2, <2>3, <2>4, <2>6, SameTermVotes
<1> QED  BY <1>3, <1>4, Zenon DEF OnClientRequest

\* Every message keeps the invariant of the first election.
LEMMA ReceiveVotes ==
  ASSUME IInv, ElectionInv, NEW m \in BagToSet(net), Receive(m)
  PROVE  ElectionInv'
<1>1. CASE m.type = "ClientRequest" /\ OnClientRequest(m.to, m.data, Consume(m))
  <2>1. m.to \in Server /\ m.data \in Value
    BY <1>1 DEF IInv, NetOK, MessageOK, Message
  <2> QED  BY SMTT(30), <1>1, <2>1, ConsumeNet, OnClientRequestVotes
<1> QED  BY <1>1, OnVoteRequestVotes, OnVoteResponseVotes,
            OnAppendEntriesRequestVotes, OnAppendEntriesResponseVotes
         DEF Receive

\* So does every step.
LEMMA NextVotes == IInv /\ ElectionInv /\ [Next]_vars => ElectionInv'
<1> SUFFICES ASSUME IInv, ElectionInv, [Next]_vars
             PROVE  ElectionInv'
  BY SMTT(30)
<1>1. CASE UNCHANGED vars
  BY Zenon, <1>1, StutterVotes DEF vars
<1>2. ASSUME NEW i \in Server, LocalClientRequest(i)
      PROVE  ElectionInv'
  BY <1>2, OnClientRequestVotes DEF LocalClientRequest
<1>3. ASSUME NEW i \in Server,
             TimeoutRequest(i) \/ HeartbeatRequest(i)
             \/ MinimumTimeoutRequest(i) \/ Restart(i)
      PROVE  ElectionInv'
  BY <1>3, TimeoutRequestVotes, HeartbeatVotes, RestartVotes
<1>4. ASSUME NEW m \in BagToSet(net), Receive(m)
      PROVE  ElectionInv'
  BY <1>4, ReceiveVotes
<1> QED  BY <1>1, <1>2, <1>3, <1>4 DEF Next

\* At most one server of a cluster leads in term 1, as long as no process was
\* restarted: on(VoteRequest) grants a vote only when it comes into a later
\* term (raft_server.ipp), so nobody has two votes of the first term, whatever
\* is lost, delayed or reordered.  A restart forgets the vote that was given.
THEOREM FirstElectionIsSafe == Spec => [](restarts = 0 => FirstElectionSafety)
<1>1. Init => ElectionInv
  BY DEF Init, ElectionInv, ElectionShape, VotesOnce, FirstVote, NewStorage,
         EmptyBag, SetToBag, BagToSet
<1> QED  BY <1>1, InitInv, NextInv, NextVotes, ElectionInvImplies, PTL DEF Spec
=============================================================================
