--------------------------- MODULE RaftRefinement ---------------------------
(***************************************************************************)
(* Every cluster of Raft.tla implements RaftNode.tla: a step of the        *)
(* cluster advances the term, the vote and the committed entries of one    *)
(* server, or restarts it, or changes none of them.                        *)
(***************************************************************************)
EXTENDS RaftProofs

\* A storage moves from st to s within the promise of RaftNode.
Advances(st, s) ==
  /\ s.current_term >= st.current_term
  /\ s.current_term = st.current_term /\ st.voted_for # NoServer =>
       s.voted_for = st.voted_for
  /\ Node!IsExtension(Committed(st), Committed(s))

\* A step that advances the storage of one server.
StorageAdvance ==
  \E i \in Server, s \in StorageType :
    storage' = [storage EXCEPT ![i] = s] /\ Advances(storage[i], s)

\* The committed entries of a sound storage are a sequence.
LEMMA CommittedSeq ==
  ASSUME NEW st, Sound(st)
  PROVE  /\ Committed(st) \in Seq(Entry)
         /\ Node!IsExtension(Committed(st), Committed(st))
<1>1. /\ st.entries \in Seq(Entry) /\ st.commit.index \in Nat
      /\ st.commit.index <= Len(st.entries)
  BY DEF Sound, StorageType, WellFormed, EntryInfo
<1>2. Committed(st) \in Seq(Entry)
  BY <1>1 DEF Committed
<1> HIDE DEF Committed
<1> QED  BY <1>2 DEF Node!IsExtension

\* Staying as it is, and stepping down into a later term (with or without a
\* vote in it), are advances.
LEMMA TermAdvances ==
  ASSUME NEW st, Sound(st)
  PROVE  /\ Advances(st, st)
         /\ \A t \in Nat : t > st.current_term =>
              /\ Advances(st, SteppedDown(st, t))
              /\ \A v \in Server \union {NoServer} :
                   /\ Advances(st, SetVote(SetTerm(st, t), v))
                   /\ SetVote(SetTerm(st, t), v) \in StorageType
                   /\ Advances(st, SetVote(SteppedDown(st, t), v))
                   /\ SetVote(SteppedDown(st, t), v) \in StorageType
<1>1. st \in StorageType /\ st.current_term \in Nat
  BY DEF Sound, StorageType
<1>2. Advances(st, st)
  BY <1>1, CommittedSeq DEF Advances
<1>3. ASSUME NEW t \in Nat, t > st.current_term,
             NEW s, s.current_term = t, Committed(s) = Committed(st)
      PROVE  Advances(st, s)
  BY <1>1, <1>3, CommittedSeq DEF Advances
<1>4. ASSUME NEW t \in Nat, t > st.current_term,
             NEW v \in Server \union {NoServer}
      PROVE  /\ Advances(st, SteppedDown(st, t))
             /\ Advances(st, SetVote(SetTerm(st, t), v))
             /\ SetVote(SetTerm(st, t), v) \in StorageType
             /\ Advances(st, SetVote(SteppedDown(st, t), v))
             /\ SetVote(SteppedDown(st, t), v) \in StorageType
  <2>1. /\ Sound(SteppedDown(st, t)) /\ SteppedDown(st, t).current_term = t
        /\ Committed(SteppedDown(st, t)) = Committed(st)
    BY SteppedDownSound
  <2>2. /\ Sound(SetTerm(st, t)) /\ SetTerm(st, t).current_term = t
        /\ Committed(SetTerm(st, t)) = Committed(st)
    <3>1. SetTerm(st, t).current_term = t
      BY <1>1 DEF SetTerm, StorageType
    <3> QED  BY <3>1, TermAndVoteSound
  <2>3. ASSUME NEW s, Sound(s)
        PROVE  /\ SetVote(s, v) \in StorageType
               /\ SetVote(s, v).current_term = s.current_term
               /\ Committed(SetVote(s, v)) = Committed(s)
    <3>1. Sound(SetVote(s, v)) /\ Committed(SetVote(s, v)) = Committed(s)
      BY <2>3, TermAndVoteSound
    <3>2. SetVote(s, v).current_term = s.current_term
      BY <2>3 DEF SetVote, Sound, StorageType
    <3> QED  BY <3>1, <3>2 DEF Sound
  <2> QED  BY <1>3, <1>4, <2>1, <2>2, <2>3
<1> QED
  <2> SUFFICES ASSUME NEW t \in Nat, t > st.current_term
               PROVE  /\ Advances(st, SteppedDown(st, t))
                      /\ \A v \in Server \union {NoServer} :
                           /\ Advances(st, SetVote(SetTerm(st, t), v))
                           /\ SetVote(SetTerm(st, t), v) \in StorageType
                           /\ Advances(st, SetVote(SteppedDown(st, t), v))
                           /\ SetVote(SteppedDown(st, t), v) \in StorageType
    BY <1>2
  <2>1. NoServer \in Server \union {NoServer}
    OBVIOUS
  <2> QED  BY <1>4, <2>1

\* A commit is an advance.
LEMMA CommitAdvances ==
  ASSUME NEW st, Sound(st), NEW n \in Nat, n > st.commit.index
  PROVE  Advances(st, CommitUntil(st, n)) /\ CommitUntil(st, n) \in StorageType
<1> DEFINE s == CommitUntil(st, n)
<1>1. /\ Sound(s) /\ s.current_term = st.current_term
      /\ s.voted_for = st.voted_for
      /\ Node!IsExtension(Committed(st), Committed(s))
  BY CommitSound DEF Node!IsExtension
<1>2. st.current_term \in Nat
  BY DEF Sound, StorageType
<1> HIDE DEF s
<1> QED  BY <1>1, <1>2 DEF Advances, Sound, s

\* The handlers that change no storage, or only step down or vote.
LEMMA ElectionAdvances ==
  ASSUME IInv,
         \/ \E i \in Server : TimeoutRequest(i)
         \/ \E m \in BagToSet(net) : OnVoteRequest(m) \/ OnVoteResponse(m)
  PROVE  StorageAdvance \/ UNCHANGED storage
<1>1. ASSUME NEW i \in Server
      PROVE  storage[i] \in StorageType /\ Sound(storage[i])
             /\ storage[i].current_term \in Nat
  BY DEF IInv, StorageOK, StorageType
<1>2. ASSUME NEW i \in Server, TimeoutRequest(i)
      PROVE  StorageAdvance
  <2> DEFINE t == storage[i].current_term + 1
             s == SetVote(SetTerm(storage[i], t), i)
  <2>1. t \in Nat /\ t > storage[i].current_term
    BY <1>1
  <2>2. storage' = [storage EXCEPT ![i] = s]
    BY <1>2, Zenon DEF TimeoutRequest, Candidacy
  <2>3. Advances(storage[i], s) /\ s \in StorageType
    <3> HIDE DEF t
    <3> QED  BY <1>1, <2>1, TermAdvances
  <2> HIDE DEF s
  <2> QED  BY <2>2, <2>3, Zenon DEF StorageAdvance
<1>3. ASSUME NEW m \in BagToSet(net)
      PROVE  m.type \in {"VoteRequest", "VoteResponse"} =>
               m.to \in Server /\ m.from \in Server /\ m.term \in Nat
  BY DEF IInv, NetOK, MessageOK, Message
<1>4. ASSUME NEW m \in BagToSet(net), OnVoteRequest(m)
      PROVE  StorageAdvance \/ UNCHANGED storage
  <2>1. m.to \in Server /\ m.from \in Server /\ m.term \in Nat
    BY <1>3, <1>4, Zenon DEF OnVoteRequest
  <2> SUFFICES ASSUME storage' # storage
               PROVE  StorageAdvance
    OBVIOUS
  <2>2. PICK v \in Server \union {NoServer} :
          /\ m.term > storage[m.to].current_term
          /\ storage' = [storage EXCEPT ![m.to] =
                           SetVote(SteppedDown(storage[m.to], m.term), v)]
    BY <1>4, <2>1, Zenon DEF OnVoteRequest
  <2> DEFINE s == SetVote(SteppedDown(storage[m.to], m.term), v)
  <2>3. Advances(storage[m.to], s) /\ s \in StorageType
    BY <1>1, <2>1, <2>2, TermAdvances
  <2> HIDE DEF s
  <2> QED  BY <2>1, <2>2, <2>3, Zenon DEF StorageAdvance, s
<1>5. ASSUME NEW m \in BagToSet(net), OnVoteResponse(m)
      PROVE  StorageAdvance \/ UNCHANGED storage
  <2>1. m.to \in Server /\ m.term \in Nat
    BY <1>3, <1>5, Zenon DEF OnVoteResponse
  <2> SUFFICES ASSUME storage' # storage
               PROVE  StorageAdvance
    OBVIOUS
  <2> DEFINE s == SteppedDown(storage[m.to], m.term)
  <2>2. /\ m.term > storage[m.to].current_term
        /\ storage' = [storage EXCEPT ![m.to] = s]
    BY <1>5, <2>1, Zenon DEF OnVoteResponse
  <2>3. Advances(storage[m.to], s) /\ s \in StorageType
    BY <1>1, <2>1, <2>2, TermAdvances, SteppedDownSound DEF Sound
  <2> HIDE DEF s
  <2> QED  BY <2>1, <2>2, <2>3, Zenon DEF StorageAdvance
<1> QED  BY <1>2, <1>4, <1>5

\* on(AppendEntriesRequest) truncates only entries that are not committed.
LEMMA AppendEntriesRequestAdvances ==
  ASSUME IInv, NEW m \in BagToSet(net), OnAppendEntriesRequest(m)
  PROVE  StorageAdvance \/ UNCHANGED storage
<1> DEFINE i == m.to
           st == storage[i]
           newer == m.term > st.current_term
           current == IF newer THEN SteppedDown(st, m.term) ELSE st
           appended == StorageAppend(current, m.entries)
<1>1. m.type = "AppendEntriesRequest"
  BY Zenon DEF OnAppendEntriesRequest
<1>2. /\ i \in Server /\ m.term \in Nat /\ m.commit.index \in Nat
      /\ Continues(m.entries, m.previous_entry)
  BY <1>1 DEF IInv, NetOK, MessageOK, Message, EntryInfo
<1>3. Sound(st) /\ st.current_term \in Nat
  BY <1>2 DEF IInv, StorageOK, StorageType
<1>4. /\ Sound(current) /\ Advances(st, current)
      /\ current.commit = st.commit /\ current.uncommit = st.uncommit
      /\ Committed(current) = Committed(st)
  BY <1>2, <1>3, SteppedDownSound, TermAdvances, Zenon
<1>5. CASE storage' = [storage EXCEPT ![i] = current]
  <2>1. current \in StorageType
    BY <1>4 DEF Sound
  <2> HIDE DEF current
  <2> QED  BY <1>2, <1>4, <1>5, <2>1, Zenon DEF StorageAdvance
<1>6. ASSUME NEW final,
             \/ final = appended
             \/ /\ m.commit.index > appended.commit.index
                /\ final = CommitUntil(appended, m.commit.index),
             m.previous_entry \in st.commit.index .. st.uncommit.index,
             storage' = [storage EXCEPT ![i] = final]
      PROVE  StorageAdvance
  <2> DEFINE prev == m.previous_entry
             new  == m.entries
             n    == m.commit.index
  <2>1. /\ Continues(new, prev) /\ n \in Nat
        /\ prev \in current.commit.index .. current.uncommit.index
        /\ \/ final = StorageAppend(current, new)
           \/ /\ n > StorageAppend(current, new).commit.index
              /\ final = CommitUntil(StorageAppend(current, new), n)
    BY <1>2, <1>4, <1>6, Zenon
  <2> HIDE DEF current, prev, new, n
  <2>2. /\ Sound(final) /\ final.current_term = current.current_term
        /\ final.voted_for = current.voted_for
        /\ Node!IsExtension(Committed(current), Committed(final))
    BY SMTT(30), <1>4, <2>1, ReplicateSound
  <2>3. Advances(st, final) /\ final \in StorageType
    BY <1>4, <2>2 DEF Advances, Sound
  <2> QED  BY <1>2, <1>6, <2>3, Zenon DEF StorageAdvance
<1>7. \/ UNCHANGED storage
      \/ storage' = [storage EXCEPT ![i] = current]
      \/ /\ m.previous_entry \in st.commit.index .. st.uncommit.index
         /\ \E final :
              /\ \/ final = appended
                 \/ /\ m.commit.index > appended.commit.index
                    /\ final = CommitUntil(appended, m.commit.index)
              /\ storage' = [storage EXCEPT ![i] = final]
  BY Zenon DEF OnAppendEntriesRequest
<1> QED  BY <1>5, <1>6, <1>7, Zenon

\* on(AppendEntriesResponse) steps down or moves the commit mark forward.
LEMMA AppendEntriesResponseAdvances ==
  ASSUME IInv, NEW m \in BagToSet(net), OnAppendEntriesResponse(m)
  PROVE  StorageAdvance \/ UNCHANGED storage
<1> DEFINE i == m.to
           j == m.from
           st == storage[i]
           back == BackOff(Answered(peers[i][j]).next_entry)
<1>1. m.type = "AppendEntriesResponse"
  BY Zenon DEF OnAppendEntriesResponse
<1>2. /\ i \in Server /\ j \in Server /\ m.term \in Nat /\ m.uncommit \in Nat
  BY <1>1 DEF IInv, NetOK, MessageOK, Message
<1>3. /\ Sound(st) /\ st.current_term \in Nat /\ st \in StorageType
      /\ Advances(st, st)
  BY <1>2, TermAdvances DEF IInv, StorageOK, StorageType
<1>4. CASE /\ m.term > st.current_term
           /\ storage' = [storage EXCEPT ![i] = SteppedDown(st, m.term)]
  <2> DEFINE s == SteppedDown(st, m.term)
  <2>1. Advances(st, s) /\ s \in StorageType
    BY <1>2, <1>3, <1>4, TermAdvances, SteppedDownSound DEF Sound
  <2> HIDE DEF s
  <2> QED  BY <1>2, <1>4, <2>1, Zenon DEF StorageAdvance, s
<1>5. CASE storage' = [storage EXCEPT ![i] =
                         Checked(Checked(st, back - 1), back)]
  <2>1. Checked(Checked(st, back - 1), back) = st
    <3> HIDE DEF back
    <3> QED  BY <1>3, CheckedSame
  <2> QED  BY <1>2, <1>3, <1>5, <2>1, Zenon DEF StorageAdvance
<1> DEFINE p == Answered(peers[i][j])
           synced == [p EXCEPT !.next_entry = Larger(@, m.uncommit + 1),
                               !.match_entry = m.uncommit]
           ps == [peers[i] EXCEPT ![j] = synced]
<1>6. ASSUME NEW new_commit \in {ps[k].match_entry : k \in Server},
             storage' = [storage EXCEPT ![i] =
               IF new_commit > st.commit.index
               THEN CommitUntil(st, new_commit) ELSE st]
      PROVE  StorageAdvance
  <2>1. peers[i] \in [Server -> Peer]
    BY <1>2 DEF IInv, VolatileOK
  <2>2. ASSUME NEW k \in Server
        PROVE  ps[k].match_entry \in Nat
    <3>1. p \in Peer
      BY <1>2, <2>1, PeerUpdates, Zenon
    <3>2. synced.match_entry = m.uncommit
      BY <3>1 DEF Peer
    <3> HIDE DEF synced
    <3>3. CASE k = j
      BY <1>2, <2>1, <3>2, <3>3
    <3>4. CASE k # j
      <4>1. ps[k] = peers[i][k]
        BY <2>1, <3>4
      <4> QED  BY <2>1, <4>1, PeerUpdates, Zenon
    <3> QED  BY <3>3, <3>4
  <2>3. new_commit \in Nat
    <3> HIDE DEF ps
    <3> QED  BY <1>6, <2>2
  <2> DEFINE s == IF new_commit > st.commit.index
                  THEN CommitUntil(st, new_commit) ELSE st
  <2>4. Advances(st, s) /\ s \in StorageType
    BY <1>3, <2>3, CommitAdvances
  <2>5. storage' = [storage EXCEPT ![i] = s]
    BY <1>6
  <2> HIDE DEF s
  <2> QED  BY <1>2, <2>4, <2>5, Zenon DEF StorageAdvance
<1>7. \/ UNCHANGED storage
      \/ /\ m.term > st.current_term
         /\ storage' = [storage EXCEPT ![i] = SteppedDown(st, m.term)]
      \/ storage' = [storage EXCEPT ![i] =
                       Checked(Checked(st, back - 1), back)]
      \/ \E new_commit \in {ps[k].match_entry : k \in Server} :
           storage' = [storage EXCEPT ![i] =
             IF new_commit > st.commit.index
             THEN CommitUntil(st, new_commit) ELSE st]
  BY Zenon DEF OnAppendEntriesResponse
<1> QED  BY <1>4, <1>5, <1>6, <1>7

\* on(ClientRequest) appends behind the end of the log.
LEMMA ClientRequestAdvances ==
  ASSUME IInv, NEW i \in Server, NEW data \in Value, NEW b,
         OnClientRequest(i, data, b)
  PROVE  StorageAdvance \/ UNCHANGED storage
<1> DEFINE st == storage[i]
           new == st.uncommit.index + 1
           entry == [index |-> new, term |-> st.current_term, data |-> data]
           added == StorageAppend(st, <<entry>>)
<1>1. Sound(st)
  BY DEF IInv, StorageOK
<1>2. /\ st.current_term \in Nat /\ st.uncommit.index \in Nat
      /\ st.uncommit.index \in st.commit.index .. st.uncommit.index
  <2> HIDE DEF st
  <2> QED  BY <1>1 DEF Sound, StorageType, EntryInfo, WellFormed
<1>3. Continues(<<entry>>, st.uncommit.index)
  <2>1. entry \in Entry /\ entry.index = st.uncommit.index + 1
    BY <1>2 DEF Entry
  <2> HIDE DEF entry
  <2> QED  BY <1>2, <2>1 DEF Continues
<1>4. /\ Sound(added) /\ added.current_term = st.current_term
      /\ added.voted_for = st.voted_for /\ Committed(added) = Committed(st)
  BY SMTT(30), <1>1, <1>2, <1>3, AppendSound
<1> HIDE DEF added
<1>5. Advances(st, added) /\ added \in StorageType
  BY SMTT(30), <1>1, <1>2, <1>4, CommittedSeq DEF Advances, Sound
<1>6. Checked(Checked(added, new - 1), new) = added
  BY <1>4, CheckedSame
<1>7. \/ UNCHANGED storage
      \/ storage' = [storage EXCEPT ![i] = added]
      \/ storage' = [storage EXCEPT ![i] =
                       Checked(Checked(added, new - 1), new)]
  BY Zenon DEF OnClientRequest, added
<1> QED  BY <1>5, <1>6, <1>7 DEF StorageAdvance

\* Every step of the cluster, other than a restart, is an advance.
LEMMA NextAdvances ==
  ASSUME IInv, Next
  PROVE  StorageAdvance \/ UNCHANGED storage \/ \E i \in Server : Restart(i)
<1>1. ASSUME NEW i \in Server, LocalClientRequest(i)
      PROVE  StorageAdvance \/ UNCHANGED storage
  BY <1>1, ClientRequestAdvances DEF LocalClientRequest
<1>2. ASSUME NEW m \in BagToSet(net), Receive(m)
      PROVE  StorageAdvance \/ UNCHANGED storage
  <2>1. CASE /\ m.type = "ClientRequest"
             /\ OnClientRequest(m.to, m.data, Consume(m))
    <3>1. m.to \in Server /\ m.data \in Value
      BY <2>1 DEF IInv, NetOK, MessageOK, Message
    <3> QED  BY <2>1, <3>1, ClientRequestAdvances
  <2> QED  BY <1>2, <2>1, ElectionAdvances, AppendEntriesRequestAdvances,
              AppendEntriesResponseAdvances DEF Receive
<1>3. ASSUME NEW i \in Server, HeartbeatRequest(i) \/ MinimumTimeoutRequest(i)
      PROVE  UNCHANGED storage
  BY <1>3 DEF HeartbeatRequest, MinimumTimeoutRequest
<1> QED  BY <1>1, <1>2, <1>3, ElectionAdvances DEF Next

\* A step of the cluster is a step of RaftNode.
LEMMA NextRefines ==
  ASSUME IInv, [Next]_vars
  PROVE  [Node!NodeNext]_(Node!nodeVars)
<1>0. \A k \in Server : storage[k] \in StorageType
  BY DEF IInv, StorageOK
<1>1. CASE UNCHANGED storage
  BY <1>1 DEF Node!nodeVars
<1>2. CASE StorageAdvance
  <2>1. PICK i \in Server, s \in StorageType :
          storage' = [storage EXCEPT ![i] = s] /\ Advances(storage[i], s)
    BY <1>2, Zenon DEF StorageAdvance
  <2>2. storage'[i] = s /\ \A k \in Server \ {i} : storage'[k] = storage[k]
    BY <2>1 DEF IInv, StorageOK
  <2>3. Node!Advance(i)
    BY <2>1, <2>2 DEF Node!Advance, Advances
  <2> QED  BY <2>3 DEF Node!NodeNext
<1>3. ASSUME NEW i \in Server, Restart(i)
      PROVE  Node!Forget(i)
  <2>1. storage'[i] = NewStorage
        /\ \A k \in Server \ {i} : storage'[k] = storage[k]
    BY <1>3 DEF IInv, StorageOK, Restart
  <2>2. /\ NewStorage.current_term = 0 /\ NewStorage.voted_for = NoServer
        /\ Committed(NewStorage) = << >>
    BY NewStorageSound DEF NewStorage
  <2> HIDE DEF NewStorage
  <2>3. /\ [k \in Server |-> storage'[k].current_term]
             = [[k \in Server |-> storage[k].current_term] EXCEPT ![i] = 0]
        /\ [k \in Server |-> storage'[k].voted_for]
             = [[k \in Server |-> storage[k].voted_for] EXCEPT ![i] = NoServer]
        /\ [k \in Server |-> Committed(storage'[k])]
             = [[k \in Server |-> Committed(storage[k])] EXCEPT ![i] = << >>]
    BY <2>1, <2>2, Zenon
  <2> QED  BY <2>3 DEF Node!Forget
<1>4. CASE UNCHANGED vars
  BY <1>1, <1>4 DEF vars
<1> QED  BY <1>1, <1>2, <1>3, <1>4, NextAdvances DEF Node!NodeNext

\* Every cluster implements RaftNode: on every server, between two starts of
\* its process, terms only grow, there is one vote per term, and what is
\* committed stays as it is.
THEOREM NodeRefinement == Spec => NodePromise
<1>1. Init => Node!NodeInit
  <2> SUFFICES ASSUME Init PROVE Node!NodeInit
    OBVIOUS
  <2>1. /\ NewStorage.current_term = 0 /\ NewStorage.voted_for = NoServer
        /\ Committed(NewStorage) = << >>
    BY NewStorageSound DEF NewStorage
  <2> HIDE DEF NewStorage
  <2> QED  BY <2>1 DEF Init, Node!NodeInit
<1>2. IInv /\ [Next]_vars => [Node!NodeNext]_(Node!nodeVars)
  BY NextRefines
<1> QED  BY <1>1, <1>2, Invariance, PTL DEF Spec, NodePromise, Node!NodeSpec
=============================================================================
