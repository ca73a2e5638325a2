-------------------------- MODULE RaftSafetyProofs --------------------------
(***************************************************************************)
(* Two results on top of the invariant of RaftProofs.tla, for every set of *)
(* servers, every set of values and all bounds: the terms of entries and   *)
(* the log of a leader.                                                    *)
(***************************************************************************)
EXTENDS RaftProofs


-----------------------------------------------------------------------------
(* The terms of entries, and what a step does to the log of a leader. *)

TermsUpTo(entries, t) == \A k \in 1 .. Len(entries) : entries[k].term <= t

\* No request carries an entry of a later term than its sender had.
RequestBounded(m) ==
  m.type = "AppendEntriesRequest" => TermsUpTo(m.entries, m.term)

RequestsBounded == \A m \in BagToSet(net) : RequestBounded(m)

\* The inductive invariant of the terms.
TermsInv == EntryTermsBounded /\ RequestsBounded

\* A log that is the same, or longer.
KeepsLog(old, new) ==
  Len(old) <= Len(new) /\ SubSeq(new, 1, Len(old)) = old

\* The entries of a sequence keep their terms when a part is taken out of it.
LEMMA EntriesSinceTerms ==
  ASSUME NEW st, Sound(st), NEW k \in Nat, NEW t, TermsUpTo(st.entries, t)
  PROVE  TermsUpTo(EntriesSince(st, k), t)
<1>1. st.entries \in Seq(Entry) /\ Len(st.entries) \in Nat
  BY DEF Sound, StorageType
<1>2. CASE k >= Len(st.entries)
  <2>1. EntriesSince(st, k) = << >>
    BY <1>1, <1>2 DEF EntriesSince
  <2> QED  BY <2>1 DEF TermsUpTo
<1>3. CASE k < Len(st.entries)
  <2>1. /\ Len(EntriesSince(st, k)) = Len(st.entries) - k
        /\ \A n \in 1 .. Len(st.entries) - k :
             /\ EntriesSince(st, k)[n] = st.entries[k + n]
             /\ k + n \in 1 .. Len(st.entries)
    BY <1>1, <1>3 DEF EntriesSince
  <2> QED  BY <2>1 DEF TermsUpTo
<1> QED  BY <1>1, <1>2, <1>3

\* append() puts no entry into a log that was neither there nor appended.
LEMMA AppendTerms ==
  ASSUME NEW st, Sound(st),
         NEW prev \in st.commit.index .. st.uncommit.index,
         NEW new, Continues(new, prev),
         NEW t, TermsUpTo(st.entries, t), TermsUpTo(new, t)
  PROVE  TermsUpTo(StorageAppend(st, new).entries, t)
<1>1. CASE new = << >>
  BY <1>1 DEF StorageAppend
<1>2. CASE new # << >>
  <2> DEFINE log == SubSeq(st.entries, 1, prev) \o new
  <2>1. StorageAppend(st, new).entries = log
    <3>1. StorageAppend(st, new) = LogFrom(st, prev, new)
      BY <1>2, AppendLog, Zenon
    <3> QED  BY <3>1, Zenon DEF LogFrom, Sound, StorageType
  <2>2. /\ st.entries \in Seq(Entry) /\ new \in Seq(Entry)
        /\ prev \in 0 .. Len(st.entries)
        /\ Len(st.entries) \in Nat /\ Len(new) \in Nat
    BY DEF Sound, StorageType, EntryInfo, WellFormed, Continues
  <2>3. /\ Len(log) = prev + Len(new)
        /\ \A k \in 1 .. prev : log[k] = st.entries[k]
        /\ \A k \in prev + 1 .. prev + Len(new) :
             k - prev \in 1 .. Len(new) /\ log[k] = new[k - prev]
    BY <2>2
  <2>4. ASSUME NEW k \in 1 .. Len(log)
        PROVE  log[k].term <= t
    <3>1. CASE k <= prev
      BY <2>2, <2>3, <3>1 DEF TermsUpTo
    <3>2. CASE k > prev
      BY <2>2, <2>3, <3>2 DEF TermsUpTo
    <3> QED  BY <2>2, <3>1, <3>2
  <2> HIDE DEF log
  <2> QED  BY <2>1, <2>4 DEF TermsUpTo
<1> QED  BY <1>1, <1>2

\* The requests in the network stay bounded when bounded ones are sent.
LEMMA SendBounded ==
  ASSUME TermsInv, NEW ms, \A m \in ms : RequestBounded(m),
         BagToSet(net') \subseteq BagToSet(net) \union ms
  PROVE  RequestsBounded'
  BY DEF TermsInv, RequestsBounded, RequestBounded

\* The requests in the network stay bounded when messages only go.
LEMMA ConsumeBounded ==
  ASSUME TermsInv, BagToSet(net') \subseteq BagToSet(net)
  PROVE  RequestsBounded'
  BY DEF TermsInv, RequestsBounded, RequestBounded

\* A step of server i that leaves it with the storage s.
LEMMA LogStep ==
  ASSUME IInv, TermsInv, NEW i \in Server, NEW s,
         storage' = [storage EXCEPT ![i] = s],
         TermsUpTo(s.entries, s.current_term),
         RequestsBounded',
         role[i] = "Leader" /\ role'[i] = "Leader" =>
           KeepsLog(storage[i].entries, s.entries)
  PROVE  TermsInv' /\ LeadersKeepLogs
<1>1. storage \in [Server -> StorageType]
  BY DEF IInv, StorageOK
<1>2. storage'[i] = s /\ \A k \in Server \ {i} : storage'[k] = storage[k]
  BY <1>1
<1>3. EntryTermsBounded'
  BY <1>2 DEF TermsInv, EntryTermsBounded, TermsUpTo
<1>4. LeadersKeepLogs
  <2>1. ASSUME NEW k \in Server
        PROVE  KeepsLog(storage[k].entries, storage[k].entries)
    <3>1. storage[k].entries \in Seq(Entry)
      BY <1>1 DEF StorageType
    <3> QED  BY <3>1 DEF KeepsLog
  <2>2. \A k \in Server : role[k] = "Leader" /\ role'[k] = "Leader" =>
          KeepsLog(storage[k].entries, storage'[k].entries)
    BY <1>2, <2>1
  <2> QED  BY <2>2 DEF LeadersKeepLogs, KeepsLog
<1> QED  BY <1>3, <1>4 DEF TermsInv

\* A step of server i that leaves its log alone and does not go back in terms.
LEMMA SameLogStep ==
  ASSUME IInv, TermsInv, NEW i \in Server, NEW s,
         storage' = [storage EXCEPT ![i] = s],
         s.entries = storage[i].entries,
         s.current_term \in Nat, s.current_term >= storage[i].current_term,
         RequestsBounded'
  PROVE  TermsInv' /\ LeadersKeepLogs
<1>0. storage[i].entries \in Seq(Entry) /\ storage[i].current_term \in Nat
  BY DEF IInv, StorageOK, StorageType
<1>1. \A k \in 1 .. Len(storage[i].entries) :
        storage[i].entries[k].term \in Nat
  <2>1. \A k \in 1 .. Len(storage[i].entries) : storage[i].entries[k] \in Entry
    BY <1>0
  <2>2. \A e \in Entry : e.term \in Nat
    BY DEF Entry
  <2> QED  BY <2>1, <2>2
<1>2. TermsUpTo(s.entries, s.current_term)
  BY <1>0, <1>1 DEF TermsInv, EntryTermsBounded, TermsUpTo
<1>3. KeepsLog(storage[i].entries, s.entries)
  BY <1>0 DEF KeepsLog
<1> QED  BY ZenonT(30), <1>2, <1>3, LogStep

\* A step that changes no storage.
LEMMA NoLogStep ==
  ASSUME IInv, TermsInv, UNCHANGED storage,
         RequestsBounded'
  PROVE  TermsInv' /\ LeadersKeepLogs
<1>1. TermsInv'
  BY DEF TermsInv, EntryTermsBounded
<1>2. \A k \in Server : storage[k].entries \in Seq(Entry)
  BY DEF IInv, StorageOK, StorageType
<1>3. LeadersKeepLogs
  BY <1>2 DEF LeadersKeepLogs
<1> QED  BY <1>1, <1>3

\* Heartbeats carry no entries.
LEMMA HeartbeatBounded ==
  ASSUME NEW i, NEW j, NEW id, NEW st, NEW prev
  PROVE  RequestBounded(AppendEntriesRequest(i, j, id, st, prev, << >>))
  BY DEF RequestBounded, AppendEntriesRequest, TermsUpTo

\* A server that steps down into a later term keeps its log.
LEMMA StepDownLog ==
  ASSUME IInv, TermsInv, NEW i \in Server, NEW t \in Nat,
         t > storage[i].current_term,
         NEW v \in Server \union {NoServer},
         \/ storage' = [storage EXCEPT ![i] = SteppedDown(storage[i], t)]
         \/ storage' = [storage EXCEPT ![i] =
                          SetVote(SteppedDown(storage[i], t), v)],
         RequestsBounded'
  PROVE  TermsInv' /\ LeadersKeepLogs
<1> DEFINE down == SteppedDown(storage[i], t)
           voted == SetVote(down, v)
<1>1. Sound(storage[i]) /\ storage[i].current_term \in Nat
  BY DEF IInv, StorageOK, Sound, StorageType
<1>2. down.entries = storage[i].entries /\ down.current_term = t
  BY <1>1, SteppedDownSound, Zenon
<1>3. voted.entries = down.entries /\ voted.current_term = down.current_term
  BY DEF SetVote, SteppedDown, SetTerm
<1>4. storage' = [storage EXCEPT ![i] = down]
      \/ storage' = [storage EXCEPT ![i] = voted]
  OBVIOUS
<1> HIDE DEF down, voted
<1> QED  BY <1>1, <1>2, <1>3, <1>4, SameLogStep

\* Timers do not touch the log.
LEMMA TimersLog ==
  ASSUME IInv, TermsInv, NEW i \in Server,
         TimeoutRequest(i) \/ HeartbeatRequest(i) \/ MinimumTimeoutRequest(i)
  PROVE  TermsInv' /\ LeadersKeepLogs
<1>1. CASE TimeoutRequest(i)
  <2> DEFINE st == Candidacy(storage[i], i)
             ms == {VoteRequest(i, j, st.current_term, st.uncommit.index) :
                      j \in Others(i)}
  <2>1. storage' = [storage EXCEPT ![i] = st] /\ Send(net, ms)
    BY <1>1 DEF TimeoutRequest
  <2>2. storage[i] \in StorageType /\ storage[i].current_term \in Nat
    BY DEF IInv, StorageOK, StorageType
  <2>3. /\ st.entries = storage[i].entries
        /\ st.current_term = storage[i].current_term + 1
    BY <2>2 DEF Candidacy, SetVote, SetTerm, StorageType
  <2>4. \A m \in ms : RequestBounded(m)
    BY DEF VoteRequest, RequestBounded
  <2>5. BagToSet(net') \subseteq BagToSet(net) \union ms
    BY <2>1, SendNet, Zenon
  <2> HIDE DEF st, ms
  <2>6. st.current_term \in Nat /\ st.current_term >= storage[i].current_term
    BY <2>2, <2>3
  <2>7. RequestsBounded'
    BY <2>4, <2>5, SendBounded
  <2> QED  BY ZenonT(30), <2>1, <2>3, <2>6, <2>7, SameLogStep
<1>2. CASE HeartbeatRequest(i)
  <2> DEFINE ms == {AppendEntriesRequest(i, j, peers[i][j].last_message_id,
                      storage[i], peers[i][j].match_entry, << >>) :
                      j \in Others(i)}
  <2>1. UNCHANGED storage /\ Send(net, ms)
    BY <1>2 DEF HeartbeatRequest
  <2>2. \A m \in ms : RequestBounded(m)
    BY HeartbeatBounded
  <2>3. BagToSet(net') \subseteq BagToSet(net) \union ms
    BY <2>1, SendNet, Zenon
  <2> HIDE DEF ms
  <2>4. RequestsBounded'
    BY <2>2, <2>3, SendBounded
  <2> QED  BY <2>1, <2>4, NoLogStep
<1>3. CASE MinimumTimeoutRequest(i)
  <2>1. UNCHANGED <<storage, net>>
    BY <1>3 DEF MinimumTimeoutRequest
  <2>2. RequestsBounded'
    BY <2>1, ConsumeBounded
  <2> QED  BY <2>1, <2>2, NoLogStep
<1> QED  BY <1>1, <1>2, <1>3

\* A restart leaves an empty log, and a follower.
LEMMA RestartLog ==
  ASSUME IInv, TermsInv, NEW i \in Server, Restart(i)
  PROVE  TermsInv' /\ LeadersKeepLogs
<1>1. /\ storage' = [storage EXCEPT ![i] = NewStorage] /\ UNCHANGED net
      /\ role' = [role EXCEPT ![i] = "Follower"]
  BY DEF Restart
<1>2. TermsUpTo(NewStorage.entries, NewStorage.current_term)
  BY DEF NewStorage, TermsUpTo
<1>3. role'[i] # "Leader"
  BY <1>1 DEF IInv, VolatileOK
<1>4. RequestsBounded'
  BY <1>1, ConsumeBounded
<1> QED  BY ZenonT(30), <1>1, <1>2, <1>3, <1>4, LogStep

\* on(VoteRequest) does not touch the log.
LEMMA OnVoteRequestLog ==
  ASSUME IInv, TermsInv, NEW m \in BagToSet(net), OnVoteRequest(m)
  PROVE  TermsInv' /\ LeadersKeepLogs
<1> DEFINE i == m.to
           j == m.from
           st == storage[i]
           granted == m.uncommit >= st.uncommit.index
           vote == IF granted THEN j ELSE NoServer
           response(g) ==
             {VoteResponse(i, j, Larger(st.current_term, m.term), g)}
           ms == response(FALSE) \union response(granted)
<1>1. i \in Server /\ j \in Server /\ m.term \in Nat
  BY DEF IInv, NetOK, MessageOK, Message, OnVoteRequest
<1>2. \A r \in ms : RequestBounded(r)
  BY DEF VoteResponse, RequestBounded
<1>3. \/ /\ UNCHANGED storage
         /\ net' = Consume(m) \/ Send(Consume(m), response(FALSE))
      \/ /\ m.term > st.current_term
         /\ storage' = [storage EXCEPT ![i] =
                          SetVote(SteppedDown(st, m.term), vote)]
         /\ Send(Consume(m), response(granted))
  BY Zenon DEF OnVoteRequest
<1>4. BagToSet(net') \subseteq BagToSet(net) \union ms
  <2> HIDE DEF response
  <2>1. BagToSet(Consume(m)) \subseteq BagToSet(net)
    BY ConsumeNet
  <2>2. ASSUME Send(Consume(m), response(FALSE))
        PROVE  BagToSet(net') \subseteq BagToSet(Consume(m))
                                          \union response(FALSE)
    BY <2>2, SendNet, Zenon
  <2>3. ASSUME Send(Consume(m), response(granted))
        PROVE  BagToSet(net') \subseteq BagToSet(Consume(m))
                                          \union response(granted)
    BY <2>3, SendNet, Zenon
  <2> QED  BY ZenonT(30), <1>3, <2>1, <2>2, <2>3
<1>5. vote \in Server \union {NoServer}
  BY <1>1
<1> HIDE DEF ms, vote, granted, response
<1>6. RequestsBounded'
  BY <1>2, <1>4, SendBounded
<1> QED  BY ZenonT(30), <1>1, <1>3, <1>5, <1>6, NoLogStep, StepDownLog

\* on(VoteResponse) does not touch the log.
LEMMA OnVoteResponseLog ==
  ASSUME IInv, TermsInv, NEW m \in BagToSet(net), OnVoteResponse(m)
  PROVE  TermsInv' /\ LeadersKeepLogs
<1> DEFINE i == m.to
           j == m.from
           st == storage[i]
           ps == [peers[i] EXCEPT ![j] =
                    [Answered(@) EXCEPT !.voted_for_me = TRUE]]
           last == st.uncommit.index
           led(k) == [ps[k] EXCEPT
                        !.waiting_for_response = TRUE,
                        !.next_entry = last + 1,
                        !.match_entry = IF k = i THEN last ELSE 0,
                        !.last_message_id = IF k = i THEN @ ELSE @ + 1]
           ms == {AppendEntriesRequest(i, k, led(k).last_message_id, st,
                                       last, << >>) : k \in Others(i)}
<1>1. i \in Server /\ m.term \in Nat
  BY ZenonT(30) DEF IInv, NetOK, MessageOK, Message, OnVoteResponse
<1>2. BagToSet(Consume(m)) \subseteq BagToSet(net)
  BY ConsumeNet
<1>3. ASSUME net' = Consume(m)
      PROVE  RequestsBounded'
  BY SMTT(30), <1>2, <1>3, ConsumeBounded
<1>4. ASSUME Send(Consume(m), ms)
      PROVE  RequestsBounded'
  <2>1. \A r \in ms : RequestBounded(r)
    BY HeartbeatBounded
  <2> HIDE DEF ms
  <2>2. BagToSet(net') \subseteq BagToSet(net) \union ms
    BY <1>2, <1>4, SendNet
  <2> QED  BY <2>1, <2>2, SendBounded
<1>5. \/ UNCHANGED storage /\ (net' = Consume(m) \/ Send(Consume(m), ms))
      \/ /\ m.term > st.current_term
         /\ storage' = [storage EXCEPT ![i] = SteppedDown(st, m.term)]
         /\ net' = Consume(m)
  BY Zenon DEF OnVoteResponse
<1> HIDE DEF ms
<1> QED  BY <1>1, <1>3, <1>4, <1>5, NoLogStep, StepDownLog

\* on(AppendEntriesRequest): the log of a leader is not touched, since it
\* follows itself and a request comes from somebody else; the entries that are
\* appended are of the term of the request, which is the receiver's now, or of
\* an earlier one.
LEMMA OnAppendEntriesRequestLog ==
  ASSUME IInv, TermsInv, NEW m \in BagToSet(net), OnAppendEntriesRequest(m)
  PROVE  TermsInv' /\ LeadersKeepLogs
<1> DEFINE i == m.to
           j == m.from
           st == storage[i]
           newer == m.term > st.current_term
           response(success, s) ==
             {AppendEntriesResponse(i, j, m.message_id,
                Larger(st.current_term, m.term), success, s.uncommit.index)}
           current == IF newer THEN SteppedDown(st, m.term) ELSE st
           appended == StorageAppend(current, m.entries)
           advances == m.commit.index > appended.commit.index
           fails == advances /\ m.commit.term < appended.commit.term /\ ~NDEBUG
           final == IF advances /\ ~fails
                    THEN CommitUntil(appended, m.commit.index) ELSE appended
<1>1. /\ MessageOK(m) /\ m.type = "AppendEntriesRequest"
      /\ TermsUpTo(m.entries, m.term)
  BY Zenon DEF IInv, NetOK, OnAppendEntriesRequest, TermsInv, RequestsBounded,
               RequestBounded
<1>2. /\ i \in Server /\ j \in Server /\ i # j /\ m.term \in Nat
      /\ m.commit \in EntryInfo
      /\ m.previous_entry \in Nat /\ Continues(m.entries, m.previous_entry)
  BY <1>1 DEF MessageOK, Message
<1>3. /\ Sound(st) /\ st.current_term \in Nat
      /\ storage \in [Server -> StorageType]
      /\ TermsUpTo(st.entries, st.current_term)
  BY <1>2 DEF IInv, StorageOK, Sound, StorageType, TermsInv,
              EntryTermsBounded, TermsUpTo
<1>4. ASSUME NEW ms, \A r \in ms : r.type # "AppendEntriesRequest",
             Send(Consume(m), ms)
      PROVE  RequestsBounded'
  <2>1. \A r \in ms : RequestBounded(r)
    BY <1>4 DEF RequestBounded
  <2>2. BagToSet(net') \subseteq BagToSet(net) \union ms
    BY <1>4, SendNet, ConsumeNet
  <2> QED  BY <2>1, <2>2, SendBounded
<1>5. ASSUME net' = Consume(m)
      PROVE  RequestsBounded'
  BY <1>5, ConsumeNet, ConsumeBounded
<1>6. \A g, s : \A r \in response(g, s) : r.type # "AppendEntriesRequest"
  BY DEF AppendEntriesResponse
<1>7. /\ Sound(current) /\ current.entries = st.entries
      /\ current.commit = st.commit /\ current.uncommit = st.uncommit
      /\ newer => current.current_term = m.term
      /\ ~newer => current = st
  BY <1>2, <1>3, SteppedDownSound, Zenon
<1>8. CASE /\ UNCHANGED storage
           /\ net' = Consume(m) \/ Send(Consume(m), response(FALSE, st))
  <2> HIDE DEF response
  <2> QED  BY ZenonT(30), <1>4, <1>5, <1>6, <1>8, NoLogStep
<1>9. CASE /\ FromLeader(i, m)
           /\ storage' = [storage EXCEPT ![i] = current]
           /\ net' = Consume(m) \/ Send(Consume(m), response(FALSE, st))
  <2>1. RequestsBounded'
    <3> HIDE DEF response
    <3> QED  BY ZenonT(30), <1>4, <1>5, <1>6, <1>9
  <2>2. /\ current.current_term \in Nat
        /\ current.current_term >= st.current_term
    BY <1>2, <1>3, <1>7
  <2> HIDE DEF current
  <2> QED  BY ZenonT(30), <1>2, <1>7, <1>9, <2>1, <2>2, SameLogStep
<1>10. CASE /\ FromLeader(i, m)
            /\ newer => role' = [role EXCEPT ![i] = "Follower"]
            /\ ~newer => UNCHANGED role
            /\ m.previous_entry \in st.commit.index .. st.uncommit.index
            /\ storage' = [storage EXCEPT ![i] = final]
            /\ Send(Consume(m), IF fails THEN {} ELSE response(TRUE, final))
  <2>1. RequestsBounded'
    <3> DEFINE ms == IF fails THEN {} ELSE response(TRUE, final)
    <3>1. \A r \in ms : r.type # "AppendEntriesRequest"
      BY <1>6, Zenon
    <3>2. Send(Consume(m), ms)
      BY ZenonT(30), <1>10
    <3> HIDE DEF ms
    <3> QED  BY <1>4, <3>1, <3>2
  <2>2. ~(role[i] = "Leader" /\ role'[i] = "Leader")
    <3>1. CASE newer
      BY ZenonT(30), <1>2, <1>10, <3>1 DEF IInv, VolatileOK
    <3>2. CASE ~newer
      <4>1. leader_id[i] \in {j, NoServer}
        BY ZenonT(30), <1>2, <1>3, <1>10, <3>2 DEF FromLeader
      <4>2. role[i] = "Leader" => leader_id[i] = i
        BY SMTT(30), <1>2 DEF IInv, LeaderConsistent
      <4> QED  BY <1>2, <4>1, <4>2, NoServerAssumption
    <3> QED  BY SMTT(30), <3>1, <3>2
  <2>3. current.current_term = m.term
    BY ZenonT(30), <1>2, <1>3, <1>7, <1>10 DEF FromLeader
  <2>4. TermsUpTo(current.entries, m.term)
    <3>1. st.current_term <= m.term
      <4>1. FromLeader(i, m)
        BY ZenonT(30), <1>10
      <4> QED  BY SMTT(30), <1>2, <1>3, <4>1 DEF FromLeader
    <3>2. st.entries \in Seq(Entry)
      BY <1>3 DEF Sound, StorageType
    <3>3. \A k \in 1 .. Len(st.entries) : st.entries[k] \in Entry
      BY <3>2
    <3>4. \A e \in Entry : e.term \in Nat
      BY DEF Entry
    <3> HIDE DEF current, st
    <3>5. TermsUpTo(st.entries, m.term)
      BY <1>2, <1>3, <3>1, <3>3, <3>4 DEF TermsUpTo
    <3> QED  BY <1>7, <3>5
  <2>5. /\ m.previous_entry \in current.commit.index .. current.uncommit.index
        /\ Sound(current) /\ Continues(m.entries, m.previous_entry)
        /\ TermsUpTo(m.entries, m.term)
    BY <1>1, <1>2, <1>7, <1>10, Zenon
  <2>6. /\ final = appended
           \/ /\ m.commit.index > appended.commit.index
              /\ final = CommitUntil(appended, m.commit.index)
        /\ m.commit.index \in Nat
    BY ZenonT(30), <1>2 DEF EntryInfo
  <2> HIDE DEF current, final, fails
  <2>7. /\ Sound(appended) /\ appended.current_term = m.term
        /\ TermsUpTo(appended.entries, m.term)
    BY <2>3, <2>4, <2>5, AppendSound, AppendTerms
  <2> HIDE DEF appended
  <2>8. final.entries = appended.entries /\ final.current_term = m.term
    BY SMTT(30), <2>6, <2>7, CommitSound
  <2>9. TermsUpTo(final.entries, final.current_term)
    BY <2>7, <2>8
  <2> HIDE DEF i
  <2> QED  BY ZenonT(30), <1>2, <1>10, <2>1, <2>2, <2>9, LogStep
<1> QED  BY <1>8, <1>9, <1>10, Zenon
         DEF OnAppendEntriesRequest, StepDownVolatile

\* on(AppendEntriesResponse): the leader reads its log to send a part of it.
LEMMA OnAppendEntriesResponseLog ==
  ASSUME IInv, TermsInv, NEW m \in BagToSet(net), OnAppendEntriesResponse(m)
  PROVE  TermsInv' /\ LeadersKeepLogs
<1> DEFINE i == m.to
           j == m.from
           st == storage[i]
           p == Answered(peers[i][j])
           back == BackOff(p.next_entry)
           synced == [p EXCEPT !.next_entry = Larger(@, m.uncommit + 1),
                               !.match_entry = m.uncommit]
           ps == [peers[i] EXCEPT ![j] = synced]
           retry == {AppendEntriesRequest(i, j, p.last_message_id + 1, st,
                       GetEntryInfo(st, back - 1).index,
                       EntriesSince(st, back - 1))}
<1>1. MessageOK(m) /\ m.type = "AppendEntriesResponse"
  BY Zenon DEF IInv, NetOK, OnAppendEntriesResponse
<1>2. i \in Server /\ j \in Server /\ m.term \in Nat /\ m.uncommit \in Nat
  BY <1>1 DEF MessageOK, Message
<1>3. /\ Sound(st) /\ st.current_term \in Nat
      /\ storage \in [Server -> StorageType]
      /\ TermsUpTo(st.entries, st.current_term)
  BY <1>2 DEF IInv, StorageOK, Sound, StorageType, TermsInv,
              EntryTermsBounded, TermsUpTo
<1>4. peers[i] \in [Server -> Peer]
  BY <1>2 DEF IInv, VolatileOK
<1>5. p \in Peer /\ p.next_entry \in Nat \ {0}
  BY <1>2, <1>4, PeerUpdates, Zenon
<1>6. ASSUME net' = Consume(m)
      PROVE  RequestsBounded'
  BY <1>6, ConsumeNet, ConsumeBounded
<1>7. CASE UNCHANGED storage /\ net' = Consume(m)
  BY <1>6, <1>7, NoLogStep
<1>8. CASE /\ m.term > st.current_term
           /\ storage' = [storage EXCEPT ![i] = SteppedDown(st, m.term)]
           /\ net' = Consume(m)
  BY ZenonT(30), <1>2, <1>6, <1>8, StepDownLog
<1>9. CASE /\ storage' = [storage EXCEPT ![i] =
                            Checked(Checked(st, back - 1), back)]
           /\ Send(Consume(m), retry)
  <2> DEFINE k == back - 1
  <2>1. k \in Nat
    BY <1>5 DEF BackOff
  <2>2. \A r \in retry : RequestBounded(r)
    <3> HIDE DEF k
    <3>1. TermsUpTo(EntriesSince(st, k), st.current_term)
      BY <1>3, <2>1, EntriesSinceTerms
    <3> QED  BY <3>1 DEF k, RequestBounded, AppendEntriesRequest
  <2>3. RequestsBounded'
    <3> HIDE DEF retry
    <3>1. BagToSet(net') \subseteq BagToSet(net) \union retry
      BY <1>9, SendNet, ConsumeNet
    <3> QED  BY <2>2, <3>1, SendBounded
  <2>4. Checked(Checked(st, k), back) = st
    <3> HIDE DEF k, back
    <3> QED  BY <1>3, CheckedSame
  <2>5. UNCHANGED storage
    <3> HIDE DEF back
    <3> QED  BY <1>2, <1>3, <1>9, <2>4
  <2> QED  BY <2>3, <2>5, NoLogStep
<1>10. ASSUME NEW new_commit \in {ps[k].match_entry : k \in Server},
              storage' = [storage EXCEPT ![i] =
                IF new_commit > st.commit.index
                THEN CommitUntil(st, new_commit) ELSE st],
              net' = Consume(m)
       PROVE  TermsInv' /\ LeadersKeepLogs
  <2> DEFINE s == IF new_commit > st.commit.index
                  THEN CommitUntil(st, new_commit) ELSE st
  <2>1. new_commit \in Nat
    <3>1. \A k \in Server : ps[k].match_entry \in Nat
      BY ZenonT(30), <1>2, <1>4, <1>5 DEF Peer
    <3> QED  BY <3>1, <1>10
  <2>2. s.entries = st.entries /\ s.current_term = st.current_term
    BY <1>3, <2>1, CommitSound
  <2>3. storage' = [storage EXCEPT ![i] = s]
    BY <1>10
  <2> HIDE DEF s
  <2>4. s.current_term \in Nat /\ s.current_term >= st.current_term
    BY <1>3, <2>2
  <2> QED  BY ZenonT(30), <1>2, <1>6, <1>10, <2>2, <2>3, <2>4, SameLogStep
<1> QED  BY <1>7, <1>8, <1>9, <1>10, Zenon DEF OnAppendEntriesResponse

\* on(ClientRequest): a leader appends at the end of its log, in its own term.
LEMMA OnClientRequestLog ==
  ASSUME IInv, TermsInv, NEW i \in Server, NEW data \in Value, NEW b,
         BagToSet(b) \subseteq BagToSet(net), OnClientRequest(i, data, b)
  PROVE  TermsInv' /\ LeadersKeepLogs
<1> DEFINE st == storage[i]
           new == st.uncommit.index + 1
           entry == [index |-> new, term |-> st.current_term, data |-> data]
           added == StorageAppend(st, <<entry>>)
           ready(j) == /\ j # i
                       /\ peers[i][j].next_entry = new
                       /\ ~peers[i][j].waiting_for_response
           Updated(j) ==
             IF j = i THEN [peers[i][i] EXCEPT !.match_entry = new,
                                               !.next_entry = new + 1]
             ELSE IF ready(j)
                  THEN [Asked(peers[i][j]) EXCEPT !.next_entry = new + 1]
             ELSE peers[i][j]
           ms == {AppendEntriesRequest(i, j, Updated(j).last_message_id,
                    added, new - 1, EntriesSince(added, new - 1)) :
                    j \in {k \in Server : ready(k)}}
           forward == {ClientRequest(i, leader_id[i], data)}
<1>1. /\ Sound(st) /\ TermsUpTo(st.entries, st.current_term)
  BY DEF IInv, StorageOK, TermsInv, EntryTermsBounded, TermsUpTo
<1>2. /\ st.current_term \in Nat /\ st.entries \in Seq(Entry)
      /\ st.uncommit.index = Len(st.entries) /\ st.commit.index \in Nat
      /\ st.uncommit.index \in Nat /\ st.commit.index <= st.uncommit.index
  BY <1>1 DEF Sound, StorageType, EntryInfo, WellFormed
<1>3. CASE UNCHANGED storage /\ (Send(b, forward) \/ net' = b)
  <2>1. \A r \in forward : RequestBounded(r)
    BY DEF ClientRequest, RequestBounded
  <2> HIDE DEF forward
  <2>2. BagToSet(net') \subseteq BagToSet(net) \union forward
    BY <1>3, SendNet
  <2> QED  BY <1>3, <2>1, <2>2, SendBounded, NoLogStep
<1>4. CASE /\ storage' = [storage EXCEPT ![i] =
                IF \E j \in Server : ready(j)
                THEN Checked(Checked(added, new - 1), new) ELSE added]
           /\ Send(b, ms)
  <2> DEFINE es == <<entry>>
             last == st.uncommit.index
  <2>1. /\ Continues(es, last) /\ TermsUpTo(es, st.current_term)
        /\ es # << >> /\ last \in st.commit.index .. last
        /\ es \in Seq(Entry) /\ Len(es) = 1 /\ added = StorageAppend(st, es)
    BY <1>2 DEF Continues, Entry, TermsUpTo
  <2> HIDE DEF es, added
  <2>2. added = LogFrom(st, last, es)
    <3> HIDE DEF st
    <3> QED  BY SMTT(30), <1>1, <2>1, AppendLog
  <2>3. /\ Sound(added) /\ added.current_term = st.current_term
        /\ TermsUpTo(added.entries, st.current_term)
    <3> HIDE DEF st
    <3> QED  BY <1>1, <2>1, AppendSound, AppendTerms
  <2>4. KeepsLog(st.entries, added.entries)
    <3>1. added.entries = SubSeq(st.entries, 1, last) \o es
      BY <1>1, <2>2, Zenon DEF LogFrom, Sound, StorageType
    <3> HIDE DEF st
    <3>2. SubSeq(st.entries, 1, last) = st.entries
      BY <1>2
    <3>3. added.entries = st.entries \o es
      BY ZenonT(30), <3>1, <3>2
    <3> QED  BY <1>2, <2>1, <3>3 DEF KeepsLog
  <2>5. storage' = [storage EXCEPT ![i] = added]
    <3>1. Checked(Checked(added, new - 1), new) = added
      BY <2>3, CheckedSame
    <3> QED  BY <1>4, <3>1, Zenon
  <2>6. RequestsBounded'
    <3> DEFINE k == new - 1
    <3>1. k \in Nat
      BY <1>2
    <3>2. ASSUME NEW j \in Server
          PROVE  RequestBounded(AppendEntriesRequest(i, j,
                   Updated(j).last_message_id, added, k,
                   EntriesSince(added, k)))
      <4> HIDE DEF k, Updated
      <4>1. TermsUpTo(EntriesSince(added, k), added.current_term)
        BY <2>3, <3>1, EntriesSinceTerms
      <4> QED  BY <4>1 DEF RequestBounded, AppendEntriesRequest
    <3>3. \A r \in ms : RequestBounded(r)
      BY <3>2
    <3> HIDE DEF ms
    <3>4. BagToSet(net') \subseteq BagToSet(net) \union ms
      BY <1>4, SendNet
    <3> QED  BY SMTT(30), <3>3, <3>4, SendBounded
  <2>7. TermsUpTo(added.entries, added.current_term)
    BY <2>3
  <2> QED  BY <2>4, <2>5, <2>6, <2>7, LogStep, Zenon
<1> QED  BY <1>3, <1>4, Zenon DEF OnClientRequest

\* Every message is handled within the bounds of its receiver's term.
LEMMA ReceiveLog ==
  ASSUME IInv, TermsInv, NEW m \in BagToSet(net), Receive(m)
  PROVE  TermsInv' /\ LeadersKeepLogs
<1>1. CASE m.type = "ClientRequest" /\ OnClientRequest(m.to, m.data, Consume(m))
  <2>1. m.to \in Server /\ m.data \in Value
    BY <1>1 DEF IInv, NetOK, MessageOK, Message
  <2> QED  BY <1>1, <2>1, ConsumeNet, OnClientRequestLog
<1> QED  BY <1>1, OnVoteRequestLog, OnVoteResponseLog,
            OnAppendEntriesRequestLog, OnAppendEntriesResponseLog DEF Receive

\* The bounds are inductive, and no step rewrites the log of a leader.
LEMMA NextLog == IInv /\ TermsInv /\ [Next]_vars =>
                   TermsInv' /\ (LeadersKeepLogs \/ UNCHANGED vars)
<1> SUFFICES ASSUME IInv, TermsInv, [Next]_vars
             PROVE  TermsInv' /\ (LeadersKeepLogs \/ UNCHANGED vars)
  OBVIOUS
<1>1. CASE UNCHANGED vars
  BY <1>1 DEF TermsInv, EntryTermsBounded, RequestsBounded, vars
<1>2. ASSUME NEW i \in Server, LocalClientRequest(i)
      PROVE  TermsInv' /\ LeadersKeepLogs
  BY <1>2, OnClientRequestLog DEF LocalClientRequest
<1>3. ASSUME NEW i \in Server,
             TimeoutRequest(i) \/ HeartbeatRequest(i)
             \/ MinimumTimeoutRequest(i) \/ Restart(i)
      PROVE  TermsInv' /\ LeadersKeepLogs
  BY <1>3, TimersLog, RestartLog
<1>4. ASSUME NEW m \in BagToSet(net), Receive(m)
      PROVE  TermsInv' /\ LeadersKeepLogs
  BY <1>4, ReceiveLog
<1> QED  BY <1>1, <1>2, <1>3, <1>4 DEF Next

\* Both invariants hold in every reachable state of every cluster.
LEMMA TermsInvariance == Spec => [](IInv /\ TermsInv)
<1>1. Init => TermsInv
  BY DEF Init, TermsInv, EntryTermsBounded, RequestsBounded, NewStorage,
         EmptyBag, SetToBag, BagToSet
<1> QED  BY <1>1, InitInv, NextInv, NextLog, PTL DEF Spec

\* No server of any cluster holds an entry of a term it has not reached,
\* whatever is lost, delayed or restarted.
THEOREM TermsStayBounded == Spec => []EntryTermsBounded
<1>1. TermsInv => EntryTermsBounded
  BY DEF TermsInv
<1> QED  BY <1>1, TermsInvariance, PTL

\* In every cluster, and with any number of leaders of one term, a server that
\* leads only appends to its log.
THEOREM LeadersOnlyAppend == Spec => LeaderAppendOnly
<1>1. IInv /\ TermsInv /\ [Next]_vars => [LeadersKeepLogs]_vars
  BY NextLog
<1> QED  BY <1>1, TermsInvariance, PTL DEF Spec, LeaderAppendOnly
=============================================================================
