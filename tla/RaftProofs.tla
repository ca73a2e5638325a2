----------------------------- MODULE RaftProofs -----------------------------
(***************************************************************************)
(* The invariants of Raft.tla for every set of servers, every set of       *)
(* values and all bounds.                                                  *)
(***************************************************************************)
EXTENDS Raft, MemStorageProofs

\* A message in flight: append requests carry entries that continue the entry
\* they name as the previous one, and only client requests go to the sender.
MessageOK(m) ==
  /\ m \in Message
  /\ m.type = "AppendEntriesRequest" => Continues(m.entries, m.previous_entry)
  /\ m.type # "ClientRequest" => m.from # m.to

VolatileOK ==
  /\ role \in [Server -> {"Follower", "Candidate", "Leader"}]
  /\ leader_id \in [Server -> Server \union {NoServer}]
  /\ minimum_timeout_reached \in [Server -> BOOLEAN]
  /\ peers \in [Server -> [Server -> Peer]]
  /\ aborted \in [Server -> BOOLEAN]
  /\ restarts \in Nat

StorageOK == /\ storage \in [Server -> StorageType]
             /\ \A i \in Server : Sound(storage[i])

NetOK == \A m \in BagToSet(net) : MessageOK(m)

\* A server that stands for election or leads has voted for itself.
CandidateConsistent ==
  \A i \in Server : role[i] # "Follower" =>
    storage[i].voted_for = i /\ peers[i][i].voted_for_me

\* The inductive invariant.
IInv == VolatileOK /\ StorageOK /\ NetOK /\ CandidateConsistent
        /\ LeaderConsistent

\* A send adds at most the messages sent.
LEMMA SendNet ==
  ASSUME NEW b, NEW ms, Send(b, ms)
  PROVE  BagToSet(net') \subseteq BagToSet(b) \union ms
  BY DEF Send, BagToSet, SetToBag, (+)

\* Consuming a message adds none.
LEMMA ConsumeNet ==
  ASSUME NEW m
  PROVE  BagToSet(Consume(m)) \subseteq BagToSet(net)
  BY DEF Consume, BagToSet, SetToBag, (-)

\* The initial state satisfies the invariant.
LEMMA InitInv == Init => IInv
<1> SUFFICES ASSUME Init PROVE IInv
  OBVIOUS
<1>1. VolatileOK
  BY DEF Init, VolatileOK, Peer, NewPeer
<1>2. StorageOK
  BY NewStorageSound DEF Init, StorageOK, Sound
<1>3. NetOK
  BY DEF Init, NetOK, EmptyBag, SetToBag, BagToSet
<1>4. CandidateConsistent /\ LeaderConsistent
  BY DEF Init, CandidateConsistent, LeaderConsistent
<1> QED  BY <1>1, <1>2, <1>3, <1>4 DEF IInv

-----------------------------------------------------------------------------
(* Every step changes the state of one server. *)

\* A handler that leaves its server with a sound storage keeps all sound.
LEMMA StorageStep ==
  ASSUME StorageOK, NEW i \in Server, NEW s, Sound(s),
         storage' = [storage EXCEPT ![i] = s]
  PROVE  /\ StorageOK'
         /\ storage'[i] = s
         /\ \A k \in Server \ {i} : storage'[k] = storage[k]
  BY DEF StorageOK, Sound

\* A step that adds only well-formed messages keeps the network well formed.
LEMMA NetStep ==
  ASSUME NetOK, NEW ms, \A m \in ms : MessageOK(m),
         BagToSet(net') \subseteq BagToSet(net) \union ms
  PROVE  NetOK'
  BY DEF NetOK, MessageOK

\* The state of server k is left alone.
SameServer(k) ==
  /\ storage'[k] = storage[k]
  /\ role'[k] = role[k]
  /\ leader_id'[k] = leader_id[k]
  /\ peers'[k] = peers[k]

\* Consistency needs to be shown for the server that takes the step only.
LEMMA ConsistencyStep ==
  ASSUME CandidateConsistent, LeaderConsistent, NEW i \in Server,
         \A k \in Server \ {i} : SameServer(k),
         role'[i] # "Follower" =>
           storage'[i].voted_for = i /\ peers'[i][i].voted_for_me,
         role'[i] = "Leader" =>
           /\ leader_id'[i] = i
           /\ peers'[i][i].match_entry = storage'[i].uncommit.index
  PROVE  CandidateConsistent' /\ LeaderConsistent'
  BY DEF CandidateConsistent, LeaderConsistent, SameServer

\* Updating the peers of one server.
LEMMA PeersStep ==
  ASSUME peers \in [Server -> [Server -> Peer]], NEW i \in Server,
         NEW ps \in [Server -> Peer], peers' = [peers EXCEPT ![i] = ps]
  PROVE  /\ peers' \in [Server -> [Server -> Peer]]
         /\ peers'[i] = ps
         /\ \A k \in Server \ {i} : peers'[k] = peers[k]
  OBVIOUS

\* Updates of a peer_info_t keep its type.
LEMMA PeerUpdates ==
  ASSUME NEW p \in Peer
  PROVE  /\ Asked(p) \in Peer /\ Answered(p) \in Peer /\ Reset(p) \in Peer
         /\ \A v \in BOOLEAN : [p EXCEPT !.voted_for_me = v] \in Peer
         /\ [p EXCEPT !.waiting_for_response = TRUE] \in Peer
         /\ p.next_entry \in Nat \ {0} /\ p.match_entry \in Nat
         /\ p.last_message_id \in Nat
         /\ \A n \in Nat \ {0} : [p EXCEPT !.next_entry = n] \in Peer
<1>1. /\ p.next_entry \in Nat \ {0} /\ p.match_entry \in Nat
      /\ p.last_message_id \in Nat
  BY DEF Peer
<1>2. \A v \in BOOLEAN : [p EXCEPT !.voted_for_me = v] \in Peer
  BY DEF Peer
<1>3. [p EXCEPT !.waiting_for_response = TRUE] \in Peer
  BY Zenon DEF Peer
<1>4. \A n \in Nat \ {0} : [p EXCEPT !.next_entry = n] \in Peer
  BY DEF Peer
<1>5. ASSUME NEW id \in Nat
      PROVE  /\ [p EXCEPT !.last_message_id = id,
                          !.waiting_for_response = TRUE] \in Peer
             /\ [p EXCEPT !.voted_for_me = FALSE, !.last_message_id = id,
                          !.waiting_for_response = FALSE] \in Peer
  BY Zenon DEF Peer
<1>6. p.last_message_id + 1 \in Nat
  BY <1>1
<1>7. Asked(p) \in Peer
  BY <1>5, <1>6, Zenon DEF Asked
<1>8. Answered(p) \in Peer
  BY <1>1, Zenon DEF Peer, Answered
<1>9. Reset(p) \in Peer
  BY <1>5, <1>6, Zenon DEF Reset
<1> QED  BY <1>1, <1>2, <1>3, <1>4, <1>7, <1>8, <1>9

\* An append request of entries that continue the entry it names.
LEMMA RequestOK ==
  ASSUME NEW i \in Server, NEW j \in Server, j # i, NEW id \in Nat, NEW st,
         st.current_term \in Nat, st.commit \in EntryInfo, NEW prev \in Nat,
         NEW es, es \in Seq(Entry), Continues(es, prev)
  PROVE  MessageOK(AppendEntriesRequest(i, j, id, st, prev, es))
<1> DEFINE m == AppendEntriesRequest(i, j, id, st, prev, es)
<1>1. m \in [type : {"AppendEntriesRequest"}, from : Server, to : Server,
            message_id : Nat, term : Nat, commit : EntryInfo,
            previous_entry : Nat, entries : Seq(Entry)]
  BY DEF AppendEntriesRequest
<1>2. /\ m.entries = es /\ m.previous_entry = prev
      /\ m.from = i /\ m.to = j
  BY DEF AppendEntriesRequest
<1> HIDE DEF m
<1>3. m \in Message
  BY Zenon, <1>1 DEF Message
<1>4. MessageOK(m)
  BY <1>2, <1>3 DEF MessageOK
<1> QED  BY <1>4 DEF m

-----------------------------------------------------------------------------
(* Timers and crashes. *)

\* on(TimeoutRequest), the start of a candidacy, keeps the invariant.
LEMMA TimeoutRequestInv ==
  ASSUME IInv, NEW i \in Server, TimeoutRequest(i)
  PROVE  IInv'
<1> DEFINE st == SetVote(SetTerm(storage[i], storage[i].current_term + 1), i)
           ms == {VoteRequest(i, j, st.current_term, st.uncommit.index) :
                    j \in Others(i)}
<1>1. VolatileOK /\ StorageOK /\ NetOK /\ CandidateConsistent
      /\ LeaderConsistent /\ Sound(storage[i])
  BY DEF IInv, StorageOK
<1>2. storage[i] \in StorageType /\ storage[i].current_term \in Nat
  BY <1>1 DEF Sound, StorageType
<1>3. Sound(st)
  BY <1>1, <1>2, TermAndVoteSound
<1>4. st.voted_for = i /\ st.current_term \in Nat /\ st.uncommit.index \in Nat
  BY <1>2 DEF SetVote, SetTerm, StorageType, EntryInfo
<1>5. storage' = [storage EXCEPT ![i] = st] /\ Send(net, ms)
      /\ role' = [role EXCEPT ![i] = "Candidate"]
      /\ UNCHANGED <<leader_id, minimum_timeout_reached, aborted, restarts>>
  BY DEF TimeoutRequest, Candidacy
<1>6. StorageOK' /\ storage'[i] = st
      /\ \A k \in Server \ {i} : storage'[k] = storage[k]
  BY <1>1, <1>3, <1>5, StorageStep, Zenon
<1>7. peers' \in [Server -> [Server -> Peer]] /\ peers'[i][i].voted_for_me
      /\ \A k \in Server \ {i} : peers'[k] = peers[k]
  <2> DEFINE ps == [j \in Server |->
               IF j = i THEN [peers[i][i] EXCEPT !.voted_for_me = TRUE]
               ELSE [Asked(peers[i][j]) EXCEPT !.voted_for_me = FALSE]]
  <2>1. peers \in [Server -> [Server -> Peer]]
    BY <1>1 DEF VolatileOK
  <2>2. ASSUME NEW j \in Server
        PROVE  ps[j] \in Peer
    <3>1. peers[i][j] \in Peer
      BY <2>1
    <3>2. Asked(peers[i][j]) \in Peer
      BY <3>1, PeerUpdates, Zenon
    <3>3. [peers[i][j] EXCEPT !.voted_for_me = TRUE] \in Peer
      BY <3>1, PeerUpdates, Zenon
    <3>4. [Asked(peers[i][j]) EXCEPT !.voted_for_me = FALSE] \in Peer
      BY <3>2, PeerUpdates, Zenon
    <3> QED  BY <3>3, <3>4, Zenon
  <2>3. ps \in [Server -> Peer]
    BY <2>2, Zenon
  <2>4. peers' = [peers EXCEPT ![i] = ps]
    BY DEF TimeoutRequest, Candidacy
  <2>5. ps[i].voted_for_me
    BY <2>1 DEF Peer
  <2> HIDE DEF ps
  <2> QED  BY <2>1, <2>3, <2>4, <2>5, PeersStep
<1>8. VolatileOK'
  BY <1>1, <1>5, <1>7, Zenon DEF VolatileOK
<1>9. NetOK'
  <2>1. \A m \in ms : MessageOK(m)
    BY <1>4 DEF VoteRequest, MessageOK, Message, Others
  <2> QED  BY <1>1, <1>5, <2>1, SendNet, NetStep, Zenon
<1>10. CandidateConsistent' /\ LeaderConsistent'
  BY <1>1, <1>4, <1>5, <1>6, <1>7, ConsistencyStep DEF SameServer, VolatileOK
<1> QED  BY <1>6, <1>8, <1>9, <1>10 DEF IInv

\* on(HeartbeatRequest) keeps the invariant: it only renumbers and sends.
LEMMA HeartbeatRequestInv ==
  ASSUME IInv, NEW i \in Server, HeartbeatRequest(i)
  PROVE  IInv'
<1> DEFINE ps == [j \in Server |-> IF j = i THEN peers[i][i]
                    ELSE [peers[i][j] EXCEPT !.waiting_for_response = TRUE]]
           ms == {AppendEntriesRequest(i, j, peers[i][j].last_message_id,
                    storage[i], peers[i][j].match_entry, << >>) :
                    j \in Others(i)}
<1>1. VolatileOK /\ StorageOK /\ NetOK /\ CandidateConsistent
      /\ LeaderConsistent /\ Sound(storage[i])
  BY DEF IInv, StorageOK
<1>2. storage[i] \in StorageType /\ peers \in [Server -> [Server -> Peer]]
  BY <1>1 DEF Sound, VolatileOK
<1>3. peers' = [peers EXCEPT ![i] = ps] /\ Send(net, ms)
      /\ UNCHANGED <<storage, role, leader_id, minimum_timeout_reached,
                     aborted, restarts>>
  BY DEF HeartbeatRequest
<1>4. ps \in [Server -> Peer]
  <2>1. ASSUME NEW j \in Server
        PROVE  ps[j] \in Peer
    <3>1. peers[i][j] \in Peer
      BY <1>2
    <3> QED  BY <3>1, PeerUpdates
  <2> QED  BY <2>1
<1>5. ps[i] = peers[i][i]
  OBVIOUS
<1>6. NetOK'
  <2>1. ASSUME NEW j \in Others(i)
        PROVE  MessageOK(AppendEntriesRequest(i, j,
                 peers[i][j].last_message_id, storage[i],
                 peers[i][j].match_entry, << >>))
    <3>1. peers[i][j] \in Peer /\ j \in Server /\ j # i
      BY <1>2 DEF Others
    <3>2. peers[i][j].last_message_id \in Nat /\ peers[i][j].match_entry \in Nat
      BY <3>1, PeerUpdates, Zenon
    <3>3. storage[i].current_term \in Nat /\ storage[i].commit \in EntryInfo
      BY <1>2 DEF StorageType
    <3>4. Continues(<< >>, peers[i][j].match_entry)
      BY DEF Continues
    <3>5. << >> \in Seq(Entry)
      OBVIOUS
    <3> QED  BY <3>1, <3>2, <3>3, <3>4, <3>5, RequestOK, Zenon
  <2> HIDE DEF MessageOK
  <2>2. \A m \in ms : MessageOK(m)
    BY <2>1
  <2> QED  BY SMTT(30), <1>1, <1>3, <2>2, SendNet, NetStep
<1> HIDE DEF ps
<1>7. peers' \in [Server -> [Server -> Peer]] /\ peers'[i] = ps
      /\ \A k \in Server \ {i} : peers'[k] = peers[k]
  BY <1>2, <1>3, <1>4, PeersStep, Zenon
<1>8. VolatileOK' /\ StorageOK'
  BY <1>1, <1>3, <1>7 DEF VolatileOK, StorageOK
<1>9. CandidateConsistent' /\ LeaderConsistent'
  BY SMTT(30), <1>1, <1>3, <1>5, <1>7
     DEF CandidateConsistent, LeaderConsistent
<1> QED  BY <1>6, <1>8, <1>9 DEF IInv

\* on(MinimumTimeoutRequest) keeps the invariant.
LEMMA MinimumTimeoutRequestInv ==
  ASSUME IInv, NEW i \in Server, MinimumTimeoutRequest(i)
  PROVE  IInv'
<1>1. VolatileOK'
  BY DEF IInv, VolatileOK, MinimumTimeoutRequest
<1> QED  BY <1>1 DEF IInv, MinimumTimeoutRequest, StorageOK, NetOK,
                     CandidateConsistent, LeaderConsistent

\* A restart, which makes a new storage and state, keeps the invariant.
LEMMA RestartInv ==
  ASSUME IInv, NEW i \in Server, Restart(i)
  PROVE  IInv'
<1>1. VolatileOK /\ StorageOK /\ NetOK /\ CandidateConsistent
      /\ LeaderConsistent
  BY DEF IInv
<1>2. StorageOK' /\ storage'[i] = NewStorage
      /\ \A k \in Server \ {i} : storage'[k] = storage[k]
  BY <1>1, NewStorageSound, StorageStep, Zenon DEF Restart
<1>3. [j \in Server |-> NewPeer] \in [Server -> Peer]
  BY DEF Peer, NewPeer
<1>4. peers' \in [Server -> [Server -> Peer]]
      /\ \A k \in Server \ {i} : peers'[k] = peers[k]
  BY <1>1, <1>3, PeersStep DEF Restart, VolatileOK
<1>5. VolatileOK'
  BY <1>1, <1>4 DEF Restart, VolatileOK
<1>6. NetOK'
  BY <1>1 DEF Restart, NetOK
<1>7. CandidateConsistent' /\ LeaderConsistent'
  BY <1>1, <1>2, <1>4, ConsistencyStep DEF Restart, VolatileOK, SameServer
<1> QED  BY <1>2, <1>5, <1>6, <1>7 DEF IInv

-----------------------------------------------------------------------------
(* Elections. *)

\* step_down() leaves the log and its marks alone.
LEMMA SteppedDownSound ==
  ASSUME NEW st, Sound(st), NEW t \in Nat
  PROVE  LET after == SteppedDown(st, t)
         IN  /\ Sound(after) /\ Committed(after) = Committed(st)
             /\ after.current_term = t /\ after.voted_for = NoServer
             /\ after.entries = st.entries /\ after.commit = st.commit
             /\ after.uncommit = st.uncommit
<1>1. Sound(SetTerm(st, t)) /\ Committed(SetTerm(st, t)) = Committed(st)
  BY TermAndVoteSound
<1>2. Sound(SteppedDown(st, t))
      /\ Committed(SteppedDown(st, t)) = Committed(SetTerm(st, t))
  BY <1>1, TermAndVoteSound DEF SteppedDown
<1> QED  BY <1>1, <1>2 DEF SteppedDown, SetTerm, SetVote, Sound, StorageType

\* step_down() makes its server a follower and touches no other.
LEMMA StepDownStep ==
  ASSUME VolatileOK, NEW i \in Server, NEW ps \in [Server -> Peer],
         StepDownVolatile(i, ps)
  PROVE  /\ role' \in [Server -> {"Follower", "Candidate", "Leader"}]
         /\ peers' \in [Server -> [Server -> Peer]]
         /\ role'[i] = "Follower"
         /\ \A k \in Server \ {i} : role'[k] = role[k] /\ peers'[k] = peers[k]
<1> DEFINE qs == IF role[i] = "Follower" THEN ps
                 ELSE [j \in Server |-> Reset(ps[j])]
<1>1. qs \in [Server -> Peer]
  BY PeerUpdates, Zenon
<1>2. peers' = [peers EXCEPT ![i] = qs]
  BY DEF StepDownVolatile
<1> HIDE DEF qs
<1>3. peers' \in [Server -> [Server -> Peer]]
      /\ \A k \in Server \ {i} : peers'[k] = peers[k]
  BY <1>1, <1>2, PeersStep DEF VolatileOK
<1> QED  BY <1>3 DEF StepDownVolatile, VolatileOK

\* on(VoteRequest) keeps the invariant, whether it grants the vote or not.
LEMMA OnVoteRequestInv ==
  ASSUME IInv, NEW m \in BagToSet(net), OnVoteRequest(m)
  PROVE  IInv'
<1> DEFINE i == m.to
           j == m.from
           st == storage[i]
           ps == IF role[i] = "Leader"
                 THEN [peers[i] EXCEPT ![j] = Answered(@)] ELSE peers[i]
           granted == m.uncommit >= st.uncommit.index
           vote == IF granted THEN j ELSE NoServer
           down == SetVote(SteppedDown(st, m.term), vote)
           response(g) ==
             {VoteResponse(i, j, Larger(st.current_term, m.term), g)}
<1>1. VolatileOK /\ StorageOK /\ NetOK /\ CandidateConsistent
      /\ LeaderConsistent /\ MessageOK(m) /\ m.type = "VoteRequest"
      /\ UNCHANGED <<minimum_timeout_reached, aborted, restarts>>
  BY DEF IInv, NetOK, OnVoteRequest
<1>2. i \in Server /\ j \in Server /\ i # j /\ m.term \in Nat
  BY <1>1 DEF MessageOK, Message
<1>3. Sound(st) /\ st.current_term \in Nat
  BY <1>1, <1>2 DEF StorageOK, Sound, StorageType
<1>4. ps \in [Server -> Peer] /\ ps[i] = peers[i][i]
  <2>1. peers[i] \in [Server -> Peer]
    BY <1>1, <1>2 DEF VolatileOK
  <2>2. Answered(peers[i][j]) \in Peer
    BY <2>1, <1>2, PeerUpdates, Zenon
  <2> QED  BY <2>1, <2>2, <1>2
<1>5. \A g \in BOOLEAN : \A r \in response(g) : MessageOK(r)
  BY <1>2, <1>3 DEF VoteResponse, MessageOK, Message, Larger
<1>6. BagToSet(Consume(m)) \subseteq BagToSet(net)
  BY ConsumeNet
<1>7. ASSUME peers' = [peers EXCEPT ![i] = ps],
             UNCHANGED <<storage, role, leader_id>>,
             NetOK'
      PROVE  IInv'
  <2> HIDE DEF ps
  <2>1. peers' \in [Server -> [Server -> Peer]] /\ peers'[i] = ps
        /\ \A k \in Server \ {i} : peers'[k] = peers[k]
    BY <1>1, <1>2, <1>4, <1>7, PeersStep DEF VolatileOK
  <2>2. VolatileOK' /\ StorageOK'
    BY <1>1, <1>7, <2>1 DEF VolatileOK, StorageOK
  <2>3. CandidateConsistent' /\ LeaderConsistent'
    BY <1>1, <1>2, <1>4, <1>7, <2>1 DEF CandidateConsistent, LeaderConsistent
  <2> QED  BY <1>7, <2>2, <2>3 DEF IInv
<1>8. CASE ~minimum_timeout_reached[i]
  <2>1. /\ peers' = [peers EXCEPT ![i] = ps] /\ net' = Consume(m)
        /\ UNCHANGED <<storage, role, leader_id>>
    BY <1>8 DEF OnVoteRequest
  <2>2. NetOK'
    BY <1>1, <1>6, <2>1 DEF NetOK
  <2> QED  BY SMTT(30), <1>7, <2>1, <2>2
<1>9. CASE minimum_timeout_reached[i] /\ m.term <= st.current_term
  <2>1. /\ peers' = [peers EXCEPT ![i] = ps]
        /\ Send(Consume(m), response(FALSE))
        /\ UNCHANGED <<storage, role, leader_id>>
    BY <1>2, <1>3, <1>9 DEF OnVoteRequest
  <2> HIDE DEF response
  <2>2. NetOK'
    BY <1>1, <1>5, <1>6, <2>1, SendNet, NetStep, Zenon
  <2> QED  BY SMTT(30), <1>7, <2>1, <2>2
<1>10. CASE minimum_timeout_reached[i] /\ m.term > st.current_term
  <2>1. /\ storage' = [storage EXCEPT ![i] = down]
        /\ StepDownVolatile(i, ps)
        /\ leader_id' = [leader_id EXCEPT ![i] = NoServer]
        /\ Send(Consume(m), response(granted))
    BY SMTT(30), <1>2, <1>3, <1>10 DEF OnVoteRequest
  <2>2. Sound(down)
    <3>1. Sound(SteppedDown(st, m.term))
      BY <1>2, <1>3, SteppedDownSound
    <3> QED  BY <1>2, <3>1, TermAndVoteSound
  <2> HIDE DEF down, ps, response
  <2>3. StorageOK' /\ \A k \in Server \ {i} : storage'[k] = storage[k]
    BY <1>1, <1>2, <2>1, <2>2, StorageStep, Zenon
  <2>4. /\ role' \in [Server -> {"Follower", "Candidate", "Leader"}]
        /\ peers' \in [Server -> [Server -> Peer]]
        /\ role'[i] = "Follower"
        /\ \A k \in Server \ {i} : role'[k] = role[k] /\ peers'[k] = peers[k]
    BY <1>1, <1>2, <1>4, <2>1, StepDownStep
  <2>5. VolatileOK'
    BY <1>1, <2>1, <2>4, Zenon DEF VolatileOK
  <2>6. NetOK'
    <3>1. granted \in BOOLEAN
      BY DEF granted
    <3> HIDE DEF granted
    <3> QED  BY <1>1, <1>5, <1>6, <2>1, <3>1, SendNet, NetStep
  <2>7. CandidateConsistent' /\ LeaderConsistent'
    BY <1>1, <1>2, <2>1, <2>3, <2>4, ConsistencyStep
       DEF SameServer, VolatileOK
  <2> QED  BY SMTT(30), <2>3, <2>5, <2>6, <2>7 DEF IInv
<1> QED  BY <1>2, <1>3, <1>8, <1>9, <1>10

\* on(VoteResponse) keeps the invariant, also when it makes a leader.
LEMMA OnVoteResponseInv ==
  ASSUME IInv, NEW m \in BagToSet(net), OnVoteResponse(m)
  PROVE  IInv'
<1> DEFINE i == m.to
           j == m.from
           st == storage[i]
           ps == [peers[i] EXCEPT ![j] =
                    [Answered(@) EXCEPT !.voted_for_me = TRUE]]
           wins == Cardinality({k \in Server : ps[k].voted_for_me}) >= Majority
           last == st.uncommit.index
           led(k) == [ps[k] EXCEPT
                        !.waiting_for_response = TRUE,
                        !.next_entry = last + 1,
                        !.match_entry = IF k = i THEN last ELSE 0,
                        !.last_message_id = IF k = i THEN @ ELSE @ + 1]
           ms == {AppendEntriesRequest(i, k, led(k).last_message_id, st,
                                       last, << >>) : k \in Others(i)}
<1>1. VolatileOK /\ StorageOK /\ NetOK /\ CandidateConsistent
      /\ LeaderConsistent /\ MessageOK(m) /\ m.type = "VoteResponse"
      /\ UNCHANGED <<aborted, restarts>>
  BY Zenon DEF IInv, NetOK, OnVoteResponse
<1>2. i \in Server /\ j \in Server /\ i # j /\ m.term \in Nat
  BY <1>1 DEF MessageOK, Message
<1>3. Sound(st) /\ st.current_term \in Nat /\ last \in Nat
      /\ st.commit \in EntryInfo
  BY <1>1, <1>2 DEF StorageOK, Sound, StorageType, EntryInfo
<1>4. peers[i] \in [Server -> Peer]
  BY <1>1, <1>2 DEF VolatileOK
<1>5. ps \in [Server -> Peer] /\ ps[i] = peers[i][i]
  <2>1. Answered(peers[i][j]) \in Peer
    BY <1>2, <1>4, PeerUpdates, Zenon
  <2>2. [Answered(peers[i][j]) EXCEPT !.voted_for_me = TRUE] \in Peer
    BY <2>1, PeerUpdates, Zenon
  <2> QED  BY <2>2, <1>2, <1>4
<1>6. BagToSet(Consume(m)) \subseteq BagToSet(net)
  BY ConsumeNet
<1>7. ASSUME net' = Consume(m)
      PROVE  NetOK'
  BY SMTT(30), <1>1, <1>6, <1>7 DEF NetOK
<1>8. CASE UNCHANGED <<storage, volatile>> /\ net' = Consume(m)
  BY <1>1, <1>7, <1>8 DEF IInv, VolatileOK, StorageOK, CandidateConsistent,
                          LeaderConsistent, volatile
<1>9. CASE /\ storage' = [storage EXCEPT ![i] = SteppedDown(st, m.term)]
           /\ StepDownVolatile(i, peers[i])
           /\ net' = Consume(m)
           /\ UNCHANGED <<leader_id, minimum_timeout_reached>>
  <2>1. Sound(SteppedDown(st, m.term))
    BY <1>2, <1>3, SteppedDownSound
  <2>2. StorageOK' /\ \A k \in Server \ {i} : storage'[k] = storage[k]
    BY <1>1, <1>2, <1>9, <2>1, StorageStep, Zenon
  <2>3. /\ role' \in [Server -> {"Follower", "Candidate", "Leader"}]
        /\ peers' \in [Server -> [Server -> Peer]]
        /\ role'[i] = "Follower"
        /\ \A k \in Server \ {i} : role'[k] = role[k] /\ peers'[k] = peers[k]
    BY <1>1, <1>2, <1>4, <1>9, StepDownStep
  <2>4. VolatileOK'
    BY SMTT(30), <1>1, <1>9, <2>3 DEF VolatileOK
  <2>5. CandidateConsistent' /\ LeaderConsistent'
    BY <1>1, <1>2, <1>9, <2>2, <2>3, ConsistencyStep DEF SameServer
  <2> QED  BY <1>7, <1>9, <2>2, <2>4, <2>5 DEF IInv
<1>10. CASE /\ peers' = [peers EXCEPT ![i] = ps]
            /\ net' = Consume(m)
            /\ UNCHANGED <<storage, role, leader_id, minimum_timeout_reached>>
  <2> HIDE DEF ps
  <2>1. peers' \in [Server -> [Server -> Peer]] /\ peers'[i] = ps
        /\ \A k \in Server \ {i} : peers'[k] = peers[k]
    BY <1>1, <1>2, <1>5, <1>10, PeersStep DEF VolatileOK
  <2>2. VolatileOK' /\ StorageOK'
    BY SMTT(30), <1>1, <1>10, <2>1 DEF VolatileOK, StorageOK
  <2>3. CandidateConsistent' /\ LeaderConsistent'
    BY <1>1, <1>2, <1>5, <1>10, <2>1 DEF CandidateConsistent, LeaderConsistent
  <2> QED  BY SMTT(30), <1>7, <1>10, <2>2, <2>3 DEF IInv
<1>11. CASE /\ role[i] = "Candidate"
            /\ role' = [role EXCEPT ![i] = "Leader"]
            /\ leader_id' = [leader_id EXCEPT ![i] = i]
            /\ peers' = [peers EXCEPT ![i] = [k \in Server |-> led(k)]]
            /\ minimum_timeout_reached' =
                 [minimum_timeout_reached EXCEPT ![i] = FALSE]
            /\ Send(Consume(m), ms)
            /\ UNCHANGED storage
  <2>1. ASSUME NEW k \in Server
        PROVE  /\ led(k) \in Peer
               /\ led(k).voted_for_me = ps[k].voted_for_me
               /\ led(k).match_entry = IF k = i THEN last ELSE 0
    <3> DEFINE a == IF k = i THEN last ELSE 0
               id == IF k = i THEN ps[k].last_message_id
                     ELSE ps[k].last_message_id + 1
    <3> HIDE DEF ps, last
    <3>1. ps[k] \in Peer /\ ps[k].last_message_id \in Nat
      BY <1>5, PeerUpdates, Zenon
    <3>2. last + 1 \in Nat \ {0} /\ a \in Nat /\ id \in Nat
      BY <1>3, <3>1
    <3>3. led(k) = [ps[k] EXCEPT !.waiting_for_response = TRUE,
                                 !.next_entry = last + 1,
                                 !.match_entry = a,
                                 !.last_message_id = id]
      OBVIOUS
    <3> DEFINE n == last + 1
    <3> HIDE DEF a, id, n, led
    <3>4. /\ led(k) \in Peer /\ led(k).voted_for_me = ps[k].voted_for_me
          /\ led(k).match_entry = a
      <4>1. /\ n \in Nat \ {0}
            /\ led(k) = [ps[k] EXCEPT !.waiting_for_response = TRUE,
                                 !.next_entry = n,
                                 !.match_entry = a,
                                 !.last_message_id = id]
        BY <3>2, <3>3 DEF n
      <4> QED  BY <3>1, <3>2, <4>1, Zenon DEF Peer
    <3> QED  BY <3>4 DEF a
  <2>2. NetOK'
    <3>1. ASSUME NEW k \in Others(i)
          PROVE  MessageOK(AppendEntriesRequest(i, k, led(k).last_message_id,
                                                st, last, << >>))
      <4>1. k \in Server /\ k # i
        BY DEF Others
      <4>2. led(k).last_message_id \in Nat
        BY <2>1, <4>1, PeerUpdates, Zenon
      <4>3. Continues(<< >>, last)
        BY DEF Continues
      <4>4. << >> \in Seq(Entry)
        OBVIOUS
      <4> HIDE DEF led, last
      <4> QED  BY <1>2, <1>3, <4>1, <4>2, <4>3, <4>4, RequestOK, Zenon
    <3>2. \A r \in ms : MessageOK(r)
      BY <3>1
    <3> HIDE DEF ms
    <3> QED  BY <1>1, <1>6, <1>11, <3>2, SendNet, NetStep, Zenon
  <2> DEFINE new == [k \in Server |-> led(k)]
  <2>3. new \in [Server -> Peer] /\ new[i].voted_for_me = peers[i][i].voted_for_me
        /\ new[i].match_entry = last
    BY <1>2, <1>5, <2>1, Zenon
  <2>4. peers' = [peers EXCEPT ![i] = new]
    BY <1>11, Zenon
  <2> HIDE DEF new
  <2>5. peers' \in [Server -> [Server -> Peer]] /\ peers'[i] = new
        /\ \A k \in Server \ {i} : peers'[k] = peers[k]
    BY <1>1, <1>2, <2>3, <2>4, PeersStep DEF VolatileOK
  <2>6. VolatileOK' /\ StorageOK'
    BY <1>1, <1>2, <1>11, <2>5, Zenon DEF VolatileOK, StorageOK
  <2>7. st.voted_for = i /\ peers[i][i].voted_for_me
    BY <1>1, <1>2, <1>11, Zenon DEF CandidateConsistent
  <2>8. \A k \in Server \ {i} : SameServer(k)
    BY <1>1, <1>2, <1>11, <2>5, Zenon DEF SameServer, VolatileOK
  <2>9. /\ storage'[i] = st /\ leader_id'[i] = i
        /\ peers'[i][i].voted_for_me
        /\ peers'[i][i].match_entry = last
    BY <1>1, <1>2, <1>11, <2>3, <2>5, <2>7, ZenonT(30) DEF VolatileOK
  <2>10. CandidateConsistent' /\ LeaderConsistent'
    BY <1>1, <1>2, <2>7, <2>8, <2>9, ConsistencyStep
  <2> QED  BY <2>2, <2>6, <2>10 DEF IInv
<1> QED  BY <1>8, <1>9, <1>10, <1>11, Zenon DEF OnVoteResponse

\* A server that takes the sender of m for its leader is not a leader itself,
\* or stops being one.
LEMMA FollowStep ==
  ASSUME IInv, NEW i \in Server, NEW j \in Server, i # j,
         NEW newer \in BOOLEAN, ~newer => leader_id[i] \in {j, NoServer},
         leader_id' = [leader_id EXCEPT ![i] = j],
         IF newer THEN StepDownVolatile(i, peers[i])
                  ELSE UNCHANGED <<role, peers>>,
         NEW s, Sound(s), ~newer => s.voted_for = storage[i].voted_for,
         storage' = [storage EXCEPT ![i] = s],
         minimum_timeout_reached' \in [Server -> BOOLEAN],
         aborted' \in [Server -> BOOLEAN], UNCHANGED restarts, NetOK'
  PROVE  IInv'
<1>1. VolatileOK /\ StorageOK /\ CandidateConsistent /\ LeaderConsistent
  BY DEF IInv
<1>2. peers[i] \in [Server -> Peer]
  BY <1>1 DEF VolatileOK
<1>3. StorageOK' /\ storage'[i] = s
      /\ \A k \in Server \ {i} : storage'[k] = storage[k]
  BY <1>1, StorageStep, Zenon DEF StorageOK
<1>4. leader_id' \in [Server -> Server \union {NoServer}]
      /\ \A k \in Server \ {i} : leader_id'[k] = leader_id[k]
  BY <1>1 DEF VolatileOK
<1>5. CASE newer
  <2>1. /\ role' \in [Server -> {"Follower", "Candidate", "Leader"}]
        /\ peers' \in [Server -> [Server -> Peer]]
        /\ role'[i] = "Follower"
        /\ \A k \in Server \ {i} : role'[k] = role[k] /\ peers'[k] = peers[k]
    BY SMTT(30), <1>1, <1>2, <1>5, StepDownStep
  <2>2. VolatileOK'
    BY <1>1, <1>4, <2>1 DEF VolatileOK
  <2>3. \A k \in Server \ {i} : SameServer(k)
    BY SMTT(30), <1>3, <1>4, <2>1 DEF SameServer
  <2>4. CandidateConsistent' /\ LeaderConsistent'
    BY <1>1, <2>1, <2>3, ConsistencyStep
  <2> QED  BY <1>3, <2>2, <2>4 DEF IInv
<1>6. CASE ~newer
  <2>1. UNCHANGED <<role, peers>>
    BY <1>6
  <2>2. role[i] # "Leader"
    BY <1>1, <1>6, NoServerAssumption DEF LeaderConsistent
  <2>3. VolatileOK'
    BY SMTT(30), <1>1, <1>4, <2>1 DEF VolatileOK
  <2>4. \A k \in Server \ {i} : SameServer(k)
    BY <1>3, <1>4, <2>1 DEF SameServer
  <2>5. role[i] # "Follower" => s.voted_for = i /\ peers[i][i].voted_for_me
    BY <1>1, <1>6 DEF CandidateConsistent
  <2>6. CandidateConsistent' /\ LeaderConsistent'
    BY <1>1, <1>3, <2>1, <2>2, <2>4, <2>5, ConsistencyStep
  <2> QED  BY <1>3, <2>3, <2>6 DEF IInv
<1> QED  BY <1>5, <1>6

\* What on(AppendEntriesRequest) makes of the storage st of a server for a
\* request with prev between its marks: the log is cut only behind the commit
\* mark, and the commit mark moves forward.
LEMMA ReplicateSound ==
  ASSUME NEW st, Sound(st),
         NEW prev \in st.commit.index .. st.uncommit.index,
         NEW new, Continues(new, prev), NEW n \in Nat, NEW final,
         LET appended == StorageAppend(st, new)
         IN  \/ final = appended
             \/ /\ n > appended.commit.index
                /\ final = CommitUntil(appended, n)
  PROVE  /\ Sound(final)
         /\ final.current_term = st.current_term
         /\ final.voted_for = st.voted_for
         /\ final.uncommit.index \in Nat
         /\ Node!IsExtension(Committed(st), Committed(final))
<1> DEFINE appended == StorageAppend(st, new)
<1>1. /\ Sound(appended) /\ appended.current_term = st.current_term
      /\ appended.voted_for = st.voted_for
      /\ Committed(appended) = Committed(st)
  BY AppendSound
<1>2. \/ final = appended
      \/ n > appended.commit.index /\ final = CommitUntil(appended, n)
  OBVIOUS
<1> HIDE DEF appended
<1>3. /\ Sound(final) /\ final.current_term = st.current_term
      /\ final.voted_for = st.voted_for
  BY <1>1, <1>2, CommitSound
<1>4. final.uncommit.index \in Nat
  BY <1>3 DEF Sound, StorageType, EntryInfo
<1>5. Committed(st) \in Seq(Entry)
  BY DEF Sound, Committed, StorageType, WellFormed, EntryInfo
<1>6. Node!IsExtension(Committed(st), Committed(st))
  BY <1>5 DEF Node!IsExtension
<1>7. n > appended.commit.index =>
        Node!IsExtension(Committed(st), Committed(CommitUntil(appended, n)))
  BY <1>1, CommitSound DEF Node!IsExtension
<1> QED  BY <1>1, <1>2, <1>3, <1>4, <1>6, <1>7

\* on(AppendEntriesRequest) keeps the invariant.
LEMMA OnAppendEntriesRequestInv ==
  ASSUME IInv, NEW m \in BagToSet(net), OnAppendEntriesRequest(m)
  PROVE  IInv'
<1> DEFINE i == m.to
           j == m.from
           st == storage[i]
           newer == m.term > st.current_term
           response(success, s) ==
             {AppendEntriesResponse(i, j, m.message_id,
                Larger(st.current_term, m.term), success, s.uncommit.index)}
           current == IF newer THEN SteppedDown(st, m.term) ELSE st
           appended == StorageAppend(current, m.entries)
           advances == m.commit.index > appended.commit.index
           fails == advances /\ m.commit.term < appended.commit.term /\ ~NDEBUG
           final == IF advances /\ ~fails
                    THEN CommitUntil(appended, m.commit.index) ELSE appended
<1>1. VolatileOK /\ StorageOK /\ NetOK /\ CandidateConsistent
      /\ LeaderConsistent /\ MessageOK(m) /\ m.type = "AppendEntriesRequest"
      /\ UNCHANGED restarts
  BY Zenon DEF IInv, NetOK, OnAppendEntriesRequest
<1>2. /\ i \in Server /\ j \in Server /\ i # j /\ m.term \in Nat
      /\ m.message_id \in Nat /\ m.commit \in EntryInfo
      /\ m.previous_entry \in Nat /\ Continues(m.entries, m.previous_entry)
  BY SMTT(30), <1>1 DEF MessageOK, Message
<1>3. /\ Sound(st) /\ st.current_term \in Nat
      /\ st.commit.index \in Nat /\ st.uncommit.index \in Nat
  BY <1>1, <1>2 DEF StorageOK, Sound, StorageType, EntryInfo
<1>4. /\ Sound(current) /\ current.commit = st.commit
      /\ current.uncommit = st.uncommit /\ (~newer => current = st)
  BY <1>2, <1>3, SteppedDownSound, Zenon
<1>5. ASSUME net' = Consume(m)
      PROVE  NetOK'
  BY <1>1, <1>5, ConsumeNet DEF NetOK
<1>6. ASSUME NEW success \in BOOLEAN, NEW n \in Nat,
             NEW ms, ms \subseteq
               {AppendEntriesResponse(i, j, m.message_id,
                  Larger(st.current_term, m.term), success, n)},
             Send(Consume(m), ms)
      PROVE  NetOK'
  <2>1. Larger(st.current_term, m.term) \in Nat
    BY SMTT(30), <1>2, <1>3 DEF Larger
  <2>2. \A r \in ms : MessageOK(r)
    BY <1>2, <1>6, <2>1 DEF AppendEntriesResponse, MessageOK, Message
  <2>3. BagToSet(net') \subseteq BagToSet(net) \union ms
    BY SMTT(30), <1>6, SendNet, ConsumeNet
  <2> QED  BY SMTT(30), <1>1, <2>2, <2>3, NetStep
<1>7. CASE UNCHANGED <<storage, volatile, aborted>> /\ NetOK'
  BY <1>1, <1>7 DEF IInv, VolatileOK, StorageOK, CandidateConsistent,
                    LeaderConsistent, volatile
<1>8. ASSUME FromLeader(i, m),
             leader_id' = [leader_id EXCEPT ![i] = j],
             IF newer THEN StepDownVolatile(i, peers[i])
                      ELSE UNCHANGED <<role, peers>>,
             NEW s, Sound(s), s.voted_for = current.voted_for,
             storage' = [storage EXCEPT ![i] = s],
             minimum_timeout_reached' \in [Server -> BOOLEAN],
             aborted' \in [Server -> BOOLEAN], NetOK'
      PROVE  IInv'
  <2>1. newer \in BOOLEAN /\ (~newer => leader_id[i] \in {j, NoServer})
    BY SMTT(30), <1>2, <1>3, <1>8 DEF FromLeader
  <2>2. ~newer => s.voted_for = storage[i].voted_for
    BY <1>4, <1>8
  <2> HIDE DEF newer, i, j
  <2> QED  BY <1>1, <1>2, <1>8, <2>1, <2>2, FollowStep, Zenon
<1>9. CASE m.term < st.current_term /\ UNCHANGED <<storage, volatile, aborted>>
           /\ Send(Consume(m), response(FALSE, st))
  BY <1>3, <1>6, <1>7, <1>9, Zenon
<1>10. CASE /\ m.term = st.current_term /\ net' = Consume(m)
            /\ UNCHANGED <<storage, volatile, aborted>>
  BY <1>5, <1>7, <1>10
<1> DEFINE FollowSender ==
             /\ leader_id' = [leader_id EXCEPT ![i] = j]
             /\ IF newer THEN StepDownVolatile(i, peers[i])
                         ELSE UNCHANGED <<role, peers>>
<1>11. CASE /\ FromLeader(i, m) /\ FollowSender
            /\ storage' = [storage EXCEPT ![i] = current]
            /\ net' = Consume(m) \/ Send(Consume(m), response(FALSE, st))
            /\ UNCHANGED <<minimum_timeout_reached, aborted>>
  <2>1. NetOK'
    BY <1>3, <1>5, <1>6, <1>11, Zenon
  <2>2. /\ minimum_timeout_reached' \in [Server -> BOOLEAN]
        /\ aborted' \in [Server -> BOOLEAN]
    BY <1>1, <1>11 DEF VolatileOK
  <2> HIDE DEF current, newer
  <2> QED  BY <1>4, <1>8, <1>11, <2>1, <2>2, Zenon
<1>12. CASE /\ FromLeader(i, m) /\ FollowSender
            /\ m.previous_entry \in st.commit.index .. st.uncommit.index
            /\ storage' = [storage EXCEPT ![i] = final]
            /\ aborted' = [aborted EXCEPT ![i] = fails]
            /\ minimum_timeout_reached' =
                 [minimum_timeout_reached EXCEPT ![i] = @ /\ fails]
            /\ Send(Consume(m), IF fails THEN {} ELSE response(TRUE, final))
  <2>1. fails \in BOOLEAN /\ m.commit.index \in Nat
    BY <1>2 DEF EntryInfo
  <2>2. /\ Sound(final) /\ final.voted_for = current.voted_for
        /\ final.uncommit.index \in Nat
    <3>1. m.previous_entry \in current.commit.index .. current.uncommit.index
      BY <1>4, <1>12, Zenon
    <3>2. \/ final = appended
          \/ /\ m.commit.index > appended.commit.index
             /\ final = CommitUntil(appended, m.commit.index)
      BY Zenon
    <3> DEFINE prev == m.previous_entry
               new  == m.entries
               n    == m.commit.index
    <3>3. /\ Sound(current) /\ Continues(new, prev) /\ n \in Nat
          /\ prev \in current.commit.index .. current.uncommit.index
          /\ \/ final = StorageAppend(current, new)
             \/ /\ n > StorageAppend(current, new).commit.index
                /\ final = CommitUntil(StorageAppend(current, new), n)
      BY <1>2, <1>4, <2>1, <3>1, <3>2, Zenon
    <3> HIDE DEF current, fails, final, prev, new, n
    <3> QED  BY <3>3, ReplicateSound
  <2>3. NetOK'
    <3> HIDE DEF final, fails
    <3> QED  BY <1>6, <1>12, <2>1, <2>2, Zenon
  <2>4. /\ minimum_timeout_reached' \in [Server -> BOOLEAN]
        /\ aborted' \in [Server -> BOOLEAN]
    <3> HIDE DEF fails
    <3>1. (minimum_timeout_reached[i] /\ fails) \in BOOLEAN
      OBVIOUS
    <3> QED  BY <1>1, <1>2, <1>12, <2>1, <3>1, Zenon DEF VolatileOK
  <2> HIDE DEF current, newer, final, fails
  <2> QED  BY <1>8, <1>12, <2>2, <2>3, <2>4, Zenon
<1> QED  BY <1>9, <1>10, <1>11, <1>12, Zenon DEF OnAppendEntriesRequest

\* A step that updates what a server knows of one other server, and moves at
\* most its commit mark.
LEMMA PeerStep ==
  ASSUME IInv, NEW i \in Server, NEW j \in Server, i # j, NEW q \in Peer,
         peers' = [peers EXCEPT ![i] = [peers[i] EXCEPT ![j] = q]],
         NEW s, Sound(s), s.voted_for = storage[i].voted_for,
         s.uncommit = storage[i].uncommit,
         storage' = [storage EXCEPT ![i] = s], NetOK',
         UNCHANGED <<role, leader_id, minimum_timeout_reached, aborted,
                     restarts>>
  PROVE  IInv'
<1>1. VolatileOK /\ StorageOK /\ CandidateConsistent /\ LeaderConsistent
  BY DEF IInv
<1> DEFINE ps == [peers[i] EXCEPT ![j] = q]
<1>2. ps \in [Server -> Peer] /\ ps[i] = peers[i][i]
  BY <1>1 DEF VolatileOK
<1>3. peers' = [peers EXCEPT ![i] = ps]
  OBVIOUS
<1> HIDE DEF ps
<1>4. /\ peers' \in [Server -> [Server -> Peer]] /\ peers'[i] = ps
      /\ \A k \in Server \ {i} : peers'[k] = peers[k]
  BY <1>1, <1>2, <1>3, PeersStep DEF VolatileOK
<1>5. StorageOK' /\ storage'[i] = s
      /\ \A k \in Server \ {i} : storage'[k] = storage[k]
  BY <1>1, StorageStep, Zenon DEF StorageOK
<1>6. VolatileOK'
  BY <1>1, <1>4 DEF VolatileOK
<1>7. \A k \in Server \ {i} : SameServer(k)
  BY <1>4, <1>5 DEF SameServer
<1>8. CandidateConsistent' /\ LeaderConsistent'
  <2>1. /\ role'[i] = role[i] /\ leader_id'[i] = leader_id[i]
        /\ peers'[i][i] = peers[i][i]
        /\ storage'[i].voted_for = storage[i].voted_for
        /\ storage'[i].uncommit = storage[i].uncommit
    BY <1>2, <1>4, <1>5
  <2>2. role[i] # "Follower" =>
          storage[i].voted_for = i /\ peers[i][i].voted_for_me
    BY <1>1 DEF CandidateConsistent
  <2>3. role[i] = "Leader" =>
          /\ leader_id[i] = i
          /\ peers[i][i].match_entry = storage[i].uncommit.index
    BY <1>1 DEF LeaderConsistent
  <2>4. role'[i] # "Follower" =>
          storage'[i].voted_for = i /\ peers'[i][i].voted_for_me
    BY <2>1, <2>2
  <2>5. role'[i] = "Leader" =>
          /\ leader_id'[i] = i
          /\ peers'[i][i].match_entry = storage'[i].uncommit.index
    BY <2>1, <2>3
  <2> QED  BY SMTT(30), <1>1, <1>7, <2>4, <2>5, ConsistencyStep
<1> QED  BY <1>5, <1>6, <1>8 DEF IInv

\* on(AppendEntriesResponse) keeps the invariant.
LEMMA OnAppendEntriesResponseInv ==
  ASSUME IInv, NEW m \in BagToSet(net), OnAppendEntriesResponse(m)
  PROVE  IInv'
<1> DEFINE i == m.to
           j == m.from
           st == storage[i]
           p == Answered(peers[i][j])
           back == BackOff(p.next_entry)
           synced == [p EXCEPT !.next_entry = Larger(@, m.uncommit + 1),
                               !.match_entry = m.uncommit]
           ps == [peers[i] EXCEPT ![j] = synced]
           retry == {AppendEntriesRequest(i, j, p.last_message_id + 1, st,
                       GetEntryInfo(st, back - 1).index,
                       EntriesSince(st, back - 1))}
<1>1. VolatileOK /\ StorageOK /\ NetOK /\ CandidateConsistent
      /\ LeaderConsistent /\ MessageOK(m) /\ m.type = "AppendEntriesResponse"
      /\ UNCHANGED <<leader_id, minimum_timeout_reached, aborted, restarts>>
  BY Zenon DEF IInv, NetOK, OnAppendEntriesResponse
<1>2. /\ i \in Server /\ j \in Server /\ i # j /\ m.term \in Nat
      /\ m.uncommit \in Nat
  BY <1>1 DEF MessageOK, Message
<1>3. /\ Sound(st) /\ st.current_term \in Nat /\ st.commit \in EntryInfo
  BY <1>1, <1>2 DEF StorageOK, Sound, StorageType, EntryInfo
<1>4. peers[i] \in [Server -> Peer]
  BY <1>1, <1>2 DEF VolatileOK
<1>5. /\ p \in Peer /\ p.next_entry \in Nat \ {0} /\ p.last_message_id \in Nat
      /\ Asked(p) \in Peer
  <2>1. p \in Peer
    BY <1>2, <1>4, PeerUpdates, Zenon
  <2> HIDE DEF p
  <2> QED  BY <2>1, PeerUpdates, Zenon
<1>6. ASSUME net' = Consume(m)
      PROVE  NetOK'
  BY SMTT(30), <1>1, <1>6, ConsumeNet DEF NetOK
<1>7. CASE net' = Consume(m) /\ UNCHANGED <<storage, role, peers>>
  BY <1>1, <1>6, <1>7 DEF IInv, VolatileOK, StorageOK, CandidateConsistent,
                          LeaderConsistent
<1>8. CASE /\ storage' = [storage EXCEPT ![i] = SteppedDown(st, m.term)]
           /\ StepDownVolatile(i, [peers[i] EXCEPT ![j] = p])
           /\ net' = Consume(m)
  <2> DEFINE qs == [peers[i] EXCEPT ![j] = p]
  <2>0. qs \in [Server -> Peer] /\ StepDownVolatile(i, qs)
    BY <1>4, <1>5, <1>8, Zenon
  <2> HIDE DEF qs
  <2>1. Sound(SteppedDown(st, m.term))
    BY <1>2, <1>3, SteppedDownSound
  <2>2. StorageOK' /\ \A k \in Server \ {i} : storage'[k] = storage[k]
    BY <1>1, <1>2, <1>8, <2>1, StorageStep, Zenon
  <2>3. /\ role' \in [Server -> {"Follower", "Candidate", "Leader"}]
        /\ peers' \in [Server -> [Server -> Peer]]
        /\ role'[i] = "Follower"
        /\ \A k \in Server \ {i} : role'[k] = role[k] /\ peers'[k] = peers[k]
    BY <1>1, <1>2, <2>0, StepDownStep
  <2>4. VolatileOK'
    BY SMTT(30), <1>1, <2>3 DEF VolatileOK
  <2>5. \A k \in Server \ {i} : SameServer(k)
    BY SMTT(30), <1>1, <2>2, <2>3 DEF SameServer
  <2>6. CandidateConsistent' /\ LeaderConsistent'
    BY <1>1, <1>2, <2>3, <2>5, ConsistencyStep
  <2> QED  BY <1>6, <1>8, <2>2, <2>4, <2>6 DEF IInv
<1>9. CASE /\ peers' = [peers EXCEPT ![i][j] = p]
           /\ net' = Consume(m) /\ UNCHANGED <<storage, role>>
  <2>1. /\ peers' = [peers EXCEPT ![i] = [peers[i] EXCEPT ![j] = p]]
        /\ storage' = [storage EXCEPT ![i] = st]
    BY <1>1, <1>2, <1>9 DEF StorageOK
  <2> HIDE DEF p
  <2> QED  BY <1>1, <1>2, <1>3, <1>5, <1>6, <1>9, <2>1, PeerStep, Zenon
<1>10. CASE /\ peers' = [peers EXCEPT ![i][j] =
                           [Asked(p) EXCEPT !.next_entry = back]]
            /\ storage' = [storage EXCEPT ![i] =
                             Checked(Checked(st, back - 1), back)]
            /\ Send(Consume(m), retry)
            /\ UNCHANGED role
  <2>1. back \in Nat \ {0} /\ back - 1 \in Nat
    BY <1>5 DEF BackOff
  <2> DEFINE q == [Asked(p) EXCEPT !.next_entry = back]
  <2>2. q \in Peer
    <3> HIDE DEF back, p
    <3> QED  BY <1>5, <2>1, PeerUpdates, Zenon
  <2>3. Checked(Checked(st, back - 1), back) = st
    <3> HIDE DEF back
    <3> QED  BY <1>3, CheckedSame
  <2>4. NetOK'
    <3>1. \A r \in retry : MessageOK(r)
      <4> DEFINE k == back - 1
                 id == p.last_message_id + 1
      <4>1. /\ GetEntryInfo(st, k).index \in Nat
            /\ Continues(EntriesSince(st, k), GetEntryInfo(st, k).index)
        BY <1>3, <2>1, RetryContinues, Zenon
      <4>2. EntriesSince(st, k) \in Seq(Entry)
        BY <4>1, Zenon DEF Continues
      <4>3. id \in Nat
        BY SMTT(30), <1>5
      <4> HIDE DEF k, id
      <4>4. MessageOK(AppendEntriesRequest(i, j, id, st,
              GetEntryInfo(st, k).index, EntriesSince(st, k)))
        BY Zenon, <1>2, <1>3, <4>1, <4>2, <4>3, RequestOK
      <4> QED  BY <4>4, Zenon DEF k, id
    <3> HIDE DEF retry
    <3>2. BagToSet(net') \subseteq BagToSet(net) \union retry
      BY <1>10, SendNet, ConsumeNet
    <3> QED  BY <1>1, <3>1, <3>2, NetStep
  <2>5. /\ peers' = [peers EXCEPT ![i] = [peers[i] EXCEPT ![j] = q]]
        /\ storage' = [storage EXCEPT ![i] = st]
    <3> HIDE DEF p, back
    <3> QED  BY <1>1, <1>2, <1>4, <1>10, <2>3, Zenon DEF VolatileOK
  <2>6. UNCHANGED <<role, leader_id, minimum_timeout_reached, aborted,
                    restarts>>
    BY <1>1, <1>10, Zenon
  <2> HIDE DEF q
  <2> QED  BY <1>2, <1>3, <2>2, <2>4, <2>5, <2>6, PeerStep, Zenon
<1>11. ASSUME peers' = [peers EXCEPT ![i] = ps],
              NEW new_commit \in {ps[k].match_entry : k \in Server},
              storage' = [storage EXCEPT ![i] =
                IF new_commit > st.commit.index
                THEN CommitUntil(st, new_commit) ELSE st],
              net' = Consume(m), UNCHANGED role
       PROVE  IInv'
  <2>1. synced \in Peer
    <3> DEFINE n == Larger(p.next_entry, m.uncommit + 1)
    <3>1. n \in Nat \ {0}
      BY <1>2, <1>5 DEF Larger
    <3>2. synced = [p EXCEPT !.next_entry = n, !.match_entry = m.uncommit]
      OBVIOUS
    <3> HIDE DEF n, p
    <3> QED  BY <1>2, <1>5, <3>1, <3>2, Zenon DEF Peer
  <2> DEFINE s == IF new_commit > st.commit.index
                  THEN CommitUntil(st, new_commit) ELSE st
  <2>2. new_commit \in Nat
    <3> HIDE DEF synced
    <3>1. \A k \in Server : ps[k] \in Peer
      BY <1>2, <1>4, <2>1, Zenon
    <3> HIDE DEF ps
    <3> QED  BY <3>1, <1>11, PeerUpdates, Zenon
  <2>3. Sound(s) /\ s.voted_for = st.voted_for /\ s.uncommit = st.uncommit
    BY SMTT(30), <1>3, <2>2, CommitSound
  <2>4. storage' = [storage EXCEPT ![i] = s]
    BY <1>11
  <2> HIDE DEF s, synced
  <2> QED  BY <1>1, <1>2, <1>6, <1>11, <2>1, <2>3, <2>4, PeerStep, Zenon
<1> QED  BY <1>7, <1>8, <1>9, <1>10, <1>11, Zenon DEF OnAppendEntriesResponse

\* on(ClientRequest) keeps the invariant, for a request of the application and
\* for one that a peer forwarded.
LEMMA OnClientRequestInv ==
  ASSUME IInv, NEW i \in Server, NEW data \in Value, NEW b,
         BagToSet(b) \subseteq BagToSet(net), OnClientRequest(i, data, b)
  PROVE  IInv'
<1> DEFINE st == storage[i]
           new == st.uncommit.index + 1
           entry == [index |-> new, term |-> st.current_term, data |-> data]
           added == StorageAppend(st, <<entry>>)
           ready(j) == /\ j # i
                       /\ peers[i][j].next_entry = new
                       /\ ~peers[i][j].waiting_for_response
           Updated(j) ==
             IF j = i THEN [peers[i][i] EXCEPT !.match_entry = new,
                                               !.next_entry = new + 1]
             ELSE IF ready(j)
                  THEN [Asked(peers[i][j]) EXCEPT !.next_entry = new + 1]
             ELSE peers[i][j]
           ms == {AppendEntriesRequest(i, j, Updated(j).last_message_id,
                    added, new - 1, EntriesSince(added, new - 1)) :
                    j \in {k \in Server : ready(k)}}
<1>1. VolatileOK /\ StorageOK /\ NetOK /\ CandidateConsistent
      /\ LeaderConsistent
      /\ UNCHANGED <<role, leader_id, minimum_timeout_reached, aborted,
                     restarts>>
  BY Zenon DEF IInv, OnClientRequest
<1>2. /\ Sound(st) /\ st.current_term \in Nat
      /\ st.uncommit.index \in Nat /\ st.commit.index \in Nat
      /\ st.commit.index <= st.uncommit.index
      /\ new \in Nat /\ new + 1 \in Nat \ {0} /\ new - 1 = st.uncommit.index
  <2>1. Sound(st)
    BY <1>1 DEF StorageOK
  <2> HIDE DEF st
  <2>2. /\ st.current_term \in Nat /\ st.uncommit.index \in Nat
        /\ st.commit.index \in Nat /\ st.commit.index <= st.uncommit.index
    BY <2>1 DEF Sound, StorageType, EntryInfo, WellFormed
  <2> QED  BY <2>1, <2>2
<1>3. peers[i] \in [Server -> Peer] /\ leader_id[i] \in Server \union {NoServer}
  BY SMTT(30), <1>1 DEF VolatileOK
<1>4. ASSUME UNCHANGED <<storage, peers>>, NetOK'
      PROVE  IInv'
  BY <1>1, <1>4 DEF IInv, VolatileOK, StorageOK, CandidateConsistent,
                    LeaderConsistent
<1>5. CASE /\ leader_id[i] # NoServer
           /\ Send(b, {ClientRequest(i, leader_id[i], data)})
           /\ UNCHANGED <<storage, peers>>
  <2>1. MessageOK(ClientRequest(i, leader_id[i], data))
    BY <1>3, <1>5 DEF MessageOK, Message, ClientRequest
  <2> DEFINE rs == {ClientRequest(i, leader_id[i], data)}
  <2>2. \A r \in rs : MessageOK(r)
    BY <2>1
  <2> HIDE DEF rs
  <2>3. BagToSet(net') \subseteq BagToSet(net) \union rs
    BY <1>5, SendNet DEF rs
  <2> QED  BY <1>1, <1>4, <1>5, <2>2, <2>3, NetStep
<1>6. CASE net' = b /\ UNCHANGED <<storage, peers>>
  BY <1>1, <1>4, <1>6 DEF NetOK
<1>7. CASE /\ role[i] = "Leader"
           /\ storage' = [storage EXCEPT ![i] =
                IF \E j \in Server : ready(j)
                THEN Checked(Checked(added, new - 1), new) ELSE added]
           /\ peers' = [peers EXCEPT ![i] = [j \in Server |-> Updated(j)]]
           /\ Send(b, ms)
  <2>1. Continues(<<entry>>, st.uncommit.index)
    BY <1>2 DEF Continues, Entry
  <2>2. /\ Sound(added) /\ added.voted_for = st.voted_for
        /\ added.current_term \in Nat /\ added.commit \in EntryInfo
    <3> DEFINE es == <<entry>>
    <3>1. /\ st.uncommit.index \in st.commit.index .. st.uncommit.index
          /\ Continues(es, st.uncommit.index) /\ added = StorageAppend(st, es)
      BY <1>2, <2>1
    <3> HIDE DEF st, es, added
    <3>2. Sound(added) /\ added.voted_for = st.voted_for
      BY <1>2, <3>1, AppendSound
    <3>3. added.current_term \in Nat /\ added.commit \in EntryInfo
      BY <3>2 DEF Sound, StorageType
    <3> QED  BY SMTT(30), <3>2, <3>3
  <2>3. added.uncommit.index = new
    <3>1. added.uncommit = InfoOf(entry)
      BY <1>2 DEF StorageAppend, Sound, StorageType
    <3>2. InfoOf(entry).index = new
      BY DEF InfoOf
    <3> QED  BY <3>1, <3>2
  <2> HIDE DEF added
  <2>4. /\ \A k : Checked(added, k) = added
        /\ Checked(Checked(added, new - 1), new) = added
    BY <2>2, CheckedSame
  <2>5. storage' = [storage EXCEPT ![i] = added]
    BY <1>7, <2>4, Zenon
  <2>6. ASSUME NEW j \in Server
        PROVE  Updated(j) \in Peer /\ Updated(j).last_message_id \in Nat
    <3>1. peers[i][j] \in Peer /\ Asked(peers[i][j]) \in Peer
      BY <1>3, PeerUpdates, Zenon
    <3> DEFINE next == new + 1
    <3>2. next \in Nat \ {0}
      BY <1>2
    <3> HIDE DEF new, next
    <3>3. [peers[i][j] EXCEPT !.match_entry = new, !.next_entry = next] \in Peer
      BY <1>2, <3>1, <3>2, Zenon DEF Peer
    <3>4. [Asked(peers[i][j]) EXCEPT !.next_entry = next] \in Peer
      BY <3>1, <3>2, PeerUpdates, Zenon
    <3>5. Updated(j) \in Peer
      BY <3>1, <3>3, <3>4, Zenon DEF next
    <3> HIDE DEF Updated
    <3> QED  BY <3>5, PeerUpdates, Zenon
  <2>7. /\ Updated(i).voted_for_me = peers[i][i].voted_for_me
        /\ Updated(i).match_entry = new
    BY <1>3 DEF Peer
  <2>8. NetOK'
    <3> DEFINE prev == new - 1
    <3>1. EntriesSince(added, new - 1) \in Seq(Entry)
          /\ Continues(EntriesSince(added, new - 1), new - 1)
      <4>1. prev \in Nat /\ prev <= added.uncommit.index
        BY <1>2, <2>3
      <4> HIDE DEF prev
      <4>2. Continues(EntriesSince(added, prev), prev)
        BY SMTT(30), <2>2, <4>1, EntriesSinceContinue
      <4> QED  BY <4>2 DEF prev, Continues
    <3>2. ASSUME NEW j \in Server, ready(j)
          PROVE  MessageOK(AppendEntriesRequest(i, j,
                   Updated(j).last_message_id, added, new - 1,
                   EntriesSince(added, new - 1)))
      <4>1. prev \in Nat /\ j # i
        BY SMTT(30), <1>2, <3>2
      <4> HIDE DEF Updated, prev
      <4>2. MessageOK(AppendEntriesRequest(i, j, Updated(j).last_message_id,
                        added, prev, EntriesSince(added, prev)))
        <5>1. EntriesSince(added, prev) \in Seq(Entry)
              /\ Continues(EntriesSince(added, prev), prev)
          BY <3>1 DEF prev
        <5>2. Updated(j).last_message_id \in Nat
          BY <2>6
        <5> QED  BY Zenon, <2>2, <4>1, <5>1, <5>2, RequestOK
      <4> QED  BY SMTT(30), <4>2 DEF prev
    <3>3. \A r \in ms : MessageOK(r)
      BY <3>2
    <3> HIDE DEF ms
    <3>4. BagToSet(net') \subseteq BagToSet(net) \union ms
      BY <1>7, SendNet
    <3> QED  BY SMTT(30), <1>1, <3>3, <3>4, NetStep
  <2> DEFINE ps == [j \in Server |-> Updated(j)]
  <2>9. /\ ps \in [Server -> Peer]
        /\ ps[i].voted_for_me = peers[i][i].voted_for_me
        /\ ps[i].match_entry = new
    BY <2>6, <2>7, Zenon
  <2>10. peers' = [peers EXCEPT ![i] = ps]
    BY SMTT(30), <1>7
  <2> HIDE DEF ps
  <2>11. /\ peers' \in [Server -> [Server -> Peer]] /\ peers'[i] = ps
         /\ \A k \in Server \ {i} : peers'[k] = peers[k]
    BY <1>1, <2>9, <2>10, PeersStep DEF VolatileOK
  <2>12. StorageOK' /\ storage'[i] = added
         /\ \A k \in Server \ {i} : storage'[k] = storage[k]
    BY <1>1, <2>2, <2>5, StorageStep, Zenon DEF StorageOK
  <2>13. VolatileOK'
    BY <1>1, <2>11 DEF VolatileOK
  <2>14. \A k \in Server \ {i} : SameServer(k)
    BY <1>1, <2>11, <2>12 DEF SameServer
  <2>15. /\ added.voted_for = i /\ ps[i].voted_for_me
         /\ leader_id'[i] = i /\ ps[i].match_entry = added.uncommit.index
    BY <1>1, <1>7, <2>2, <2>3, <2>9, Zenon DEF LeaderConsistent
  <2>16. CandidateConsistent' /\ LeaderConsistent'
    BY <1>1, <2>11, <2>12, <2>14, <2>15, ConsistencyStep
  <2> QED  BY SMTT(30), <2>8, <2>12, <2>13, <2>16 DEF IInv
<1> QED  BY <1>5, <1>6, <1>7, Zenon DEF OnClientRequest

\* Every message is handled within the invariant.
LEMMA ReceiveInv ==
  ASSUME IInv, NEW m \in BagToSet(net), Receive(m)
  PROVE  IInv'
<1>1. CASE m.type = "ClientRequest" /\ OnClientRequest(m.to, m.data, Consume(m))
  <2>1. m.to \in Server /\ m.data \in Value
    BY <1>1 DEF IInv, NetOK, MessageOK, Message
  <2> QED  BY SMTT(30), <1>1, <2>1, ConsumeNet, OnClientRequestInv
<1> QED  BY SMTT(30), <1>1, OnVoteRequestInv, OnVoteResponseInv,
            OnAppendEntriesRequestInv, OnAppendEntriesResponseInv DEF Receive

\* The invariant is inductive.
LEMMA NextInv == IInv /\ [Next]_vars => IInv'
<1> SUFFICES ASSUME IInv, [Next]_vars PROVE IInv'
  OBVIOUS
<1>1. CASE UNCHANGED vars
  BY <1>1 DEF IInv, VolatileOK, StorageOK, NetOK, CandidateConsistent,
              LeaderConsistent, vars
<1>2. ASSUME NEW i \in Server, LocalClientRequest(i)
      PROVE  IInv'
  BY <1>2, OnClientRequestInv DEF LocalClientRequest
<1>3. ASSUME NEW i \in Server,
             TimeoutRequest(i) \/ HeartbeatRequest(i)
             \/ MinimumTimeoutRequest(i) \/ Restart(i)
      PROVE  IInv'
  BY <1>3, TimeoutRequestInv, HeartbeatRequestInv, MinimumTimeoutRequestInv,
     RestartInv
<1>4. ASSUME NEW m \in BagToSet(net), Receive(m)
      PROVE  IInv'
  BY <1>4, ReceiveInv
<1> QED  BY <1>1, <1>2, <1>3, <1>4 DEF Next

\* What the invariant says about single properties.
LEMMA InvImplies == IInv => TypeOK /\ NoExit /\ StorageConsistent
<1> SUFFICES ASSUME IInv PROVE TypeOK /\ NoExit /\ StorageConsistent
  OBVIOUS
<1>1. TypeOK
  BY DEF IInv, VolatileOK, StorageOK, NetOK, MessageOK, TypeOK
<1>2. NoExit /\ StorageConsistent
  BY DEF IInv, StorageOK, Sound, NoExit, StorageConsistent
<1> QED  BY <1>1, <1>2

\* The inductive invariant holds in every reachable state of every cluster.
THEOREM Invariance == Spec => []IInv
  BY InitInv, NextInv, PTL DEF Spec

\* The types of all variables; the next_entry of a peer, an unsigned index that
\* failed requests decrement, never reaches 0.
THEOREM TypeCorrect == Spec => []TypeOK
  BY Invariance, InvImplies, PTL

\* No run of any cluster reaches an exit(1) of mem_storage.cpp: the branches
\* commented with "how can this occur?" are dead code.
THEOREM NeverExits == Spec => []NoExit
  BY Invariance, InvImplies, PTL

\* The log, its uncommit mark and its commit mark agree in every storage,
\* whatever is lost, reordered, or restarted.
THEOREM StorageStaysConsistent == Spec => []StorageConsistent
  BY Invariance, InvImplies, PTL

\* A leader has voted for itself and counts its own log up to its end.
THEOREM LeaderStaysConsistent == Spec => []LeaderConsistent
<1>1. IInv => LeaderConsistent
  BY DEF IInv
<1> QED  BY <1>1, Invariance, PTL
=============================================================================
