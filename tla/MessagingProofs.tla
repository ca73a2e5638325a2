-------------------------- MODULE MessagingProofs --------------------------
(***************************************************************************)
(* What StorageCheckerThread has applied, for every set of events and of   *)
(* requests of other controllers and for all bounds of Messaging.tla.      *)
(*                                                                         *)
(* The thread reads the commit index, then the entries, and applies the    *)
(* entries one by one, while the raft server appends and commits: the      *)
(* invariant says what is known of a batch that is being applied, whose    *)
(* tail may be overwritten meanwhile.                                      *)
(***************************************************************************)
EXTENDS Messaging, TLAPS

-----------------------------------------------------------------------------
(* The inductive invariant. *)

QueueOK ==
  /\ request_queue \in Seq(Requests) /\ message_id \in 0 .. MaxRequests
  /\ processor \in {"check", "on"} /\ alive \in BOOLEAN
  /\ restarts \in 0 .. MaxRestarts
  /\ BagToSet(submits) \subseteq Requests \union {Garbage}

LogOK ==
  /\ log \in Seq(Entries) /\ commit \in 0 .. Len(log)
  /\ local_commited_idx \in 0 .. commit

CheckerType ==
  [pc : {"poll", "entries", "process"}, idx : Nat, at : Nat,
   entries : Seq(Entries)]

\* Some entry was applied at k: the committed one, when idx is the commit index
\* that the thread has read and k is not behind it.
Covered(k, idx, done, entries) ==
  k \in DOMAIN done /\ (k <= idx => done[k] = entries[k])

\* The rest of a batch begins behind what was applied, reaches beyond the
\* commit index that was read, and agrees with the log up to this index.
BatchOK(c) ==
  /\ c.entries # << >>
  /\ c.at > local_commited_idx
  /\ c.idx < c.at + Len(c.entries)
  /\ \A n \in 1 .. Len(c.entries) :
       c.at + n - 1 <= c.idx => c.entries[n] = log[c.at + n - 1]
  /\ \A k \in 1 .. c.at - 1 : Covered(k, c.idx, applied, log)

CheckerOK(c) ==
  /\ c \in CheckerType
  /\ c.pc # "poll" => local_commited_idx < c.idx /\ c.idx <= commit
  /\ c.pc = "process" => BatchOK(c)

MsgInv == QueueOK /\ LogOK /\ CheckerOK(checker) /\ AppliedCommitted

\* The invariant gives the type invariant.
LEMMA MsgInvType == MsgInv => TypeOK
  BY DEF MsgInv, QueueOK, LogOK, CheckerOK, CheckerType, BatchOK, TypeOK

\* A thread that polls has no batch.
LEMMA PollingOK == CheckerOK(Polling)
  BY DEF CheckerOK, CheckerType, Polling

\* The invariant holds when the process starts.
LEMMA MsgInit == Init => MsgInv
<1> SUFFICES ASSUME Init PROVE MsgInv
  OBVIOUS
<1>1. QueueOK
  BY MessagingBounds
     DEF Init, QueueOK, EmptyBag, SetToBag, BagToSet
<1>2. LogOK /\ AppliedCommitted
  BY DEF Init, LogOK, AppliedCommitted
<1> QED  BY <1>1, <1>2, PollingOK DEF Init, MsgInv

-----------------------------------------------------------------------------
(* The steps of the queue. *)

\* Steps that touch neither the log nor the thread that applies it.
LEMMA ApplyingUntouched ==
  ASSUME MsgInv, QueueOK',
         UNCHANGED <<checker, local_commited_idx, log, commit, applied>>
  PROVE  MsgInv'
BY DEF MsgInv, LogOK, CheckerOK, BatchOK, Covered, AppliedCommitted

\* A slot adds a request to the queue.
LEMMA OnEventInv ==
  ASSUME MsgInv, NEW event \in Event, OnEvent(event)
  PROVE  MsgInv'
<1>1. Request(message_id + 1, event) \in Requests
  BY MessagingBounds DEF OnEvent, MsgInv, QueueOK, Request, Requests
<1>2. QueueOK'
  BY <1>1, MessagingBounds DEF OnEvent, MsgInv, QueueOK
<1> QED  BY <1>2, ApplyingUntouched DEF OnEvent

\* RequestQueueProcessorThread passes on a request, or what it takes for one.
LEMMA SubmitType ==
  ASSUME NEW r \in Requests \union {Garbage},
         BagToSet(submits) \subseteq Requests \union {Garbage}, Submit(r)
  PROVE  BagToSet(submits') \subseteq Requests \union {Garbage}
<1>1. submits' = submits (+) SetToBag({r})
  BY DEF Submit
<1>2. DOMAIN submits' = DOMAIN submits \union {r}
  BY <1>1 DEF (+), SetToBag
<1> QED  BY <1>2 DEF BagToSet

\* The steps of RequestQueueProcessorThread.
LEMMA ProcessorInv ==
  ASSUME MsgInv, ProcessorCheck \/ ProcessorOn
  PROVE  MsgInv'
<1>1. CASE ProcessorCheck
  <2>1. QueueOK'
    BY <1>1 DEF ProcessorCheck, MsgInv, QueueOK
  <2> QED  BY <1>1, <2>1, ApplyingUntouched DEF ProcessorCheck
<1>2. CASE ProcessorOn
  <2>1. request_queue # << >> => Head(request_queue) \in Requests
    BY DEF MsgInv, QueueOK
  <2>2. BagToSet(submits') \subseteq Requests \union {Garbage}
    BY Zenon, <1>2, <2>1, SubmitType DEF ProcessorOn, MsgInv, QueueOK
  <2>3. QueueOK'
    BY Zenon, <1>2, <2>2 DEF ProcessorOn, MsgInv, QueueOK
  <2> QED  BY <1>2, <2>3, ApplyingUntouched DEF ProcessorOn
<1> QED  BY <1>1, <1>2

-----------------------------------------------------------------------------
(* The steps of the raft server. *)

\* A log that keeps what is committed keeps what is known of it.
LEMMA LogGrows ==
  ASSUME MsgInv, QueueOK', LogOK', commit <= commit',
         \A k \in 1 .. commit : log'[k] = log[k],
         UNCHANGED <<checker, local_commited_idx, applied>>
  PROVE  MsgInv'
<1>1. /\ commit \in Nat /\ commit' \in Nat /\ local_commited_idx \in 0 .. commit
      /\ checker \in CheckerType
  BY DEF MsgInv, LogOK, CheckerOK
<1>2. AppliedCommitted'
  BY <1>1 DEF MsgInv, AppliedCommitted
<1>3. checker.pc # "poll" => checker.idx <= commit'
  BY <1>1 DEF MsgInv, CheckerOK, CheckerType
<1>4. ASSUME checker.pc = "process" PROVE BatchOK(checker)'
  <2>1. /\ BatchOK(checker) /\ checker.idx <= commit
        /\ checker.idx \in Nat /\ checker.at \in Nat
        /\ checker.at > 0
    BY <1>1, <1>4 DEF MsgInv, CheckerOK, CheckerType, BatchOK
  <2>2. \A k \in 1 .. checker.at - 1 :
          Covered(k, checker.idx, applied, log)
          => Covered(k, checker.idx, applied', log')
    BY <1>1, <2>1 DEF Covered
  <2>3. ASSUME NEW n \in 1 .. Len(checker.entries),
               checker.at + n - 1 <= checker.idx
        PROVE  checker.entries[n] = log'[checker.at + n - 1]
    <3>1. checker.at + n - 1 \in 1 .. commit
      BY <1>1, <2>1, <2>3
    <3> QED  BY SMTT(30), <2>1, <2>3, <3>1 DEF BatchOK
  <2> QED  BY <2>1, <2>2, <2>3 DEF BatchOK
<1>5. CheckerOK(checker)'
  BY <1>1, <1>3, <1>4 DEF MsgInv, CheckerOK
<1> QED  BY <1>2, <1>5 DEF MsgInv

\* The server appends an entry behind its commit index.
LEMMA RaftAppendInv ==
  ASSUME MsgInv, NEW entry \in BagToSet(submits) \union Foreign,
         RaftAppend(entry)
  PROVE  MsgInv'
<1>1. entry \in Entries
  BY DEF MsgInv, QueueOK, Entries
<1>2. PICK keep \in commit .. Len(log) :
         log' = Append(SubSeq(log, 1, keep), entry)
  BY DEF RaftAppend
<1>3. log \in Seq(Entries) /\ commit \in Nat /\ keep \in Nat /\ keep <= Len(log)
      /\ commit <= keep
  BY <1>2 DEF MsgInv, LogOK
<1>4. /\ SubSeq(log, 1, keep) \in Seq(Entries)
      /\ Len(SubSeq(log, 1, keep)) = keep
      /\ \A k \in 1 .. keep : SubSeq(log, 1, keep)[k] = log[k]
  BY <1>3
<1>5. /\ log' \in Seq(Entries) /\ Len(log') = keep + 1
      /\ \A k \in 1 .. keep : log'[k] = log[k]
  BY <1>1, <1>2, <1>3, <1>4
<1>6. LogOK'
  BY <1>3, <1>5 DEF RaftAppend, MsgInv, LogOK
<1>7. QueueOK'
  BY DEF RaftAppend, MsgInv, QueueOK
<1>8. commit <= commit' /\ \A k \in 1 .. commit : log'[k] = log[k]
  BY <1>3, <1>5 DEF RaftAppend
<1> QED  BY Zenon, <1>6, <1>7, <1>8, LogGrows DEF RaftAppend

\* The commit index moves forward.
LEMMA RaftCommitInv ==
  ASSUME MsgInv, RaftCommit
  PROVE  MsgInv'
<1>1. LogOK' /\ commit <= commit'
  BY DEF RaftCommit, MsgInv, LogOK
<1>2. QueueOK'
  BY DEF RaftCommit, MsgInv, QueueOK
<1> QED  BY <1>1, <1>2, LogGrows DEF RaftCommit

-----------------------------------------------------------------------------
(* The steps of StorageCheckerThread. *)

\* The thread's registers when it has read the commit index, and when it has
\* a batch.
IndexRead(c, n) == [c EXCEPT !.pc = "entries", !.idx = n]

BatchRead(c, n, batch) ==
  [c EXCEPT !.pc = "process", !.at = n, !.entries = batch]

NextOfBatch(c, n, batch) == [c EXCEPT !.entries = batch, !.at = n]

\* Reading the commit index gives a thread its index.
LEMMA IndexReadType ==
  ASSUME NEW c \in CheckerType, NEW n \in Nat
  PROVE  /\ IndexRead(c, n) \in CheckerType
         /\ IndexRead(c, n).pc = "entries" /\ IndexRead(c, n).idx = n
  BY Zenon DEF IndexRead, CheckerType

\* Reading the entries, and taking one of them, changes the batch only.
LEMMA BatchReadType ==
  ASSUME NEW c \in CheckerType, NEW n \in Nat, NEW batch \in Seq(Entries)
  PROVE  /\ BatchRead(c, n, batch) \in CheckerType
         /\ BatchRead(c, n, batch).pc = "process"
         /\ BatchRead(c, n, batch).idx = c.idx
         /\ BatchRead(c, n, batch).at = n
         /\ BatchRead(c, n, batch).entries = batch
         /\ NextOfBatch(c, n, batch) \in CheckerType
         /\ NextOfBatch(c, n, batch).pc = c.pc
         /\ NextOfBatch(c, n, batch).idx = c.idx
         /\ NextOfBatch(c, n, batch).at = n
         /\ NextOfBatch(c, n, batch).entries = batch
  BY Zenon DEF BatchRead, NextOfBatch, CheckerType

\* The thread reads the commit index.
LEMMA CheckerPollInv ==
  ASSUME MsgInv, CheckerPoll
  PROVE  MsgInv'
<1>1. QueueOK' /\ LogOK' /\ AppliedCommitted'
  BY DEF CheckerPoll, MsgInv, QueueOK, LogOK, AppliedCommitted
<1>2. /\ checker' \in CheckerType
      /\ checker'.pc = "entries" /\ checker'.idx = commit
  <2>1. checker \in CheckerType /\ commit \in Nat
    BY DEF MsgInv, CheckerOK, LogOK
  <2>2. checker' = IndexRead(checker, commit)
    BY Zenon DEF CheckerPoll, IndexRead
  <2> QED  BY <2>1, <2>2, IndexReadType
<1>3. CheckerOK(checker)'
  BY <1>2 DEF CheckerPoll, CheckerOK, Behind, MsgInv, LogOK
<1> QED  BY <1>1, <1>3 DEF MsgInv

\* The thread reads the entries, which are at least those up to this index.
LEMMA CheckerEntriesInv ==
  ASSUME MsgInv, CheckerEntries
  PROVE  MsgInv'
<1> DEFINE local == local_commited_idx
           es == SubSeq(log, local + 1, Len(log))
<1>1. QueueOK' /\ LogOK' /\ AppliedCommitted'
  BY DEF CheckerEntries, MsgInv, QueueOK, LogOK, AppliedCommitted
<1>2. /\ log \in Seq(Entries) /\ local \in Nat /\ commit \in Nat
      /\ Len(log) \in Nat /\ local < checker.idx /\ checker.idx <= commit
      /\ commit <= Len(log) /\ checker \in CheckerType /\ checker.idx \in Nat
  BY DEF CheckerEntries, MsgInv, LogOK, CheckerOK, CheckerType
<1>3. /\ es \in Seq(Entries) /\ Len(es) = Len(log) - local
      /\ \A n \in 1 .. Len(es) : es[n] = log[local + n]
  <2>1. log \in Seq(Entries) /\ local \in Nat /\ Len(log) \in Nat /\ local < Len(log)
    BY <1>2
  <2> HIDE DEF local
  <2>2. Len(es) = Len(log) - local
    BY SMTT(30), <2>1
  <2>3. es \in Seq(Entries)
    BY SMTT(30), <2>1
  <2>4. \A n \in 1 .. Len(es) : es[n] = log[local + n]
    BY SMTT(30), <2>1, <2>2
  <2> QED  BY <2>2, <2>3, <2>4
<1>4. /\ checker' \in CheckerType
      /\ checker'.pc = "process" /\ checker'.idx = checker.idx
      /\ checker'.at = local + 1 /\ checker'.entries = es
  <2> DEFINE next == local + 1
  <2>1. checker' = BatchRead(checker, next, es)
    BY Zenon DEF CheckerEntries, BatchRead
  <2>2. next \in Nat
    BY <1>2
  <2>3. checker \in CheckerType /\ es \in Seq(Entries)
    BY <1>2, <1>3
  <2> HIDE DEF es, next
  <2>4. checker' \in CheckerType /\ checker'.pc = "process"
        /\ checker'.idx = checker.idx /\ checker'.at = next
        /\ checker'.entries = es
    BY ZenonT(30), <2>1, <2>2, <2>3, BatchReadType
  <2> QED  BY <2>4 DEF next
<1> HIDE DEF es
<1> UNCHANGED <<local_commited_idx, log, commit, applied>>
  BY DEF CheckerEntries
<1>5. /\ checker'.entries # << >>
      /\ checker'.at > local_commited_idx'
      /\ checker'.idx < checker'.at + Len(checker'.entries)
  BY <1>2, <1>3, <1>4
<1>6. \A n \in 1 .. Len(checker'.entries) :
        checker'.entries[n] = log'[checker'.at + n - 1]
  BY SMTT(30), <1>2, <1>3, <1>4
<1>7. \A k \in 1 .. checker'.at - 1 : 
        Covered(k, checker'.idx, applied', log')
  BY <1>2, <1>4 DEF Covered, MsgInv, AppliedCommitted
<1>8. CheckerOK(checker)'
  BY <1>2, <1>4, <1>5, <1>6, <1>7 DEF CheckerOK, BatchOK
<1> QED  BY <1>1, <1>8 DEF MsgInv

\* The thread applies an entry; after the last one of the batch everything up
\* to the index it had read is applied.
LEMMA CheckerProcessInv ==
  ASSUME MsgInv, CheckerProcess
  PROVE  MsgInv'
<1> DEFINE es == checker.entries
           at == checker.at
           idx == checker.idx
           local == local_commited_idx
<1>1. /\ checker \in CheckerType /\ es \in Seq(Entries) /\ es # << >>
      /\ at \in Nat /\ idx \in Nat /\ local \in Nat /\ commit \in Nat
      /\ at > local /\ local < idx /\ idx <= commit
      /\ idx < at + Len(es)
      /\ log \in Seq(Entries) /\ commit <= Len(log)
  BY DEF CheckerProcess, MsgInv, LogOK, CheckerOK, CheckerType, BatchOK
<1>2. /\ Head(es) = es[1] /\ Tail(es) \in Seq(Entries)
      /\ Len(es) \in Nat \ {0} /\ Len(Tail(es)) = Len(es) - 1
      /\ \A n \in 1 .. Len(es) - 1 : Tail(es)[n] = es[n + 1]
  BY <1>1
<1>3. UNCHANGED <<message_id, processor, log, commit, submits, restarts>>
  BY DEF CheckerProcess
<1>4. QueueOK'
  <2>1. request_queue # << >> => Tail(request_queue) \in Seq(Requests)
    BY DEF MsgInv, QueueOK
  <2>2. request_queue' \in Seq(Requests) /\ alive' \in BOOLEAN
    BY Zenon, <2>1 DEF CheckerProcess, MsgInv, QueueOK
  <2> QED  BY <1>3, <2>2 DEF MsgInv, QueueOK
<1>5. CASE UNCHANGED <<checker, local_commited_idx, applied>>
  BY <1>3, <1>4, <1>5, ApplyingUntouched
<1>6. CASE /\ applied' = [k \in (1 .. at) \union DOMAIN applied |->
                            IF k = at THEN Head(es) ELSE applied[k]]
           /\ IF Tail(es) = << >>
              THEN local_commited_idx' = ProcessedUpTo /\ checker' = Polling
              ELSE /\ checker' = [checker EXCEPT !.entries = Tail(es),
                                                 !.at = @ + 1]
                   /\ UNCHANGED local_commited_idx
  <2>1. \A k \in 1 .. at - 1 : Covered(k, idx, applied, log)
    BY DEF CheckerProcess, MsgInv, CheckerOK, BatchOK
  <2>2. \A n \in 1 .. Len(es) : at + n - 1 <= idx => es[n] = log[at + n - 1]
    BY DEF CheckerProcess, MsgInv, CheckerOK, BatchOK
  <2>3. \A k \in 1 .. at : Covered(k, idx, applied', log')
    <3>1. at <= idx => Head(es) = log[at]
      <4>1. 1 \in 1 .. Len(es) /\ at + 1 - 1 = at
        BY <1>1, <1>2
      <4> HIDE DEF es, at, idx
      <4> QED  BY <1>2, <2>2, <4>1
    <3> QED  BY <1>1, <1>3, <1>6, <2>1, <3>1 DEF Covered
  <2>4. CASE Tail(es) = << >>
    <3>1. local_commited_idx' = idx /\ checker' = Polling /\ idx <= at
      <4>1. Len(Tail(es)) = 0
        <5>1. Len(<< >>) = 0
          OBVIOUS
        <5> QED  BY <2>4, <5>1, Zenon
      <4>2. idx <= at
        <5>1. Len(es) = 1
          <6> DEFINE n == Len(es)
                     m == Len(Tail(es))
          <6>1. n \in Nat /\ m = n - 1 /\ m = 0
            BY <1>2, <4>1, Zenon
          <6> HIDE DEF n, m
          <6>2. n = 1
            BY <6>1
          <6> QED  BY <6>2 DEF n
        <5> HIDE DEF es, at, idx
        <5> QED  BY <1>1, <5>1
      <4> QED  BY <1>6, <2>4, <4>2, Zenon DEF ProcessedUpTo
    <3>2. LogOK'
      BY <1>1, <1>3, <3>1 DEF LogOK
    <3>3. AppliedCommitted'
      BY <1>1, <1>3, <2>3, <3>1 DEF AppliedCommitted, Covered
    <3>4. CheckerOK(checker)'
      BY <3>1 DEF CheckerOK, CheckerType, Polling
    <3> QED  BY <1>4, <3>2, <3>3, <3>4 DEF MsgInv
  <2>5. CASE Tail(es) # << >>
    <3>1. UNCHANGED local_commited_idx
      BY <1>6, <2>5
    <3>2. LogOK'
      BY <1>3, <3>1 DEF MsgInv, LogOK
    <3>3. AppliedCommitted'
      <4>1. \A k \in 1 .. local : applied'[k] = applied[k] /\ k \in DOMAIN applied'
        BY <1>1, <1>6
      <4> QED  BY <1>3, <3>1, <4>1 DEF MsgInv, AppliedCommitted
    <3>4. /\ checker' \in CheckerType
          /\ checker'.pc = "process" /\ checker'.idx = idx
          /\ checker'.at = at + 1 /\ checker'.entries = Tail(es)
      <4>1. checker.pc = "process"
        BY DEF CheckerProcess
      <4> DEFINE next == at + 1
                 rest == Tail(es)
      <4>2. checker' = NextOfBatch(checker, next, rest)
        BY <1>6, <2>5, Zenon DEF NextOfBatch
      <4>3. checker \in CheckerType /\ next \in Nat /\ rest \in Seq(Entries)
        BY <1>1, <1>2
      <4> HIDE DEF next, rest
      <4>4. checker' \in CheckerType /\ checker'.pc = "process"
            /\ checker'.idx = checker.idx /\ checker'.at = next
            /\ checker'.entries = rest
        BY ZenonT(30), <4>1, <4>2, <4>3, BatchReadType
      <4> QED  BY <4>4, Zenon DEF next, rest
    <3>5. BatchOK(checker)'
      <4> HIDE DEF es, at, idx
      <4>1. ASSUME NEW n \in 1 .. Len(checker'.entries),
                   checker'.at + n - 1 <= checker'.idx
            PROVE  checker'.entries[n] = log'[checker'.at + n - 1]
        <5>1. /\ n + 1 \in 1 .. Len(es) /\ n \in 1 .. Len(es) - 1
              /\ at + (n + 1) - 1 = checker'.at + n - 1
          BY <1>1, <1>2, <3>4, <4>1
        <5>2. at + (n + 1) - 1 <= idx
          BY <3>4, <4>1, <5>1
        <5>3. es[n + 1] = log[at + (n + 1) - 1]
          BY <2>2, <5>1, <5>2
        <5> QED  BY <1>2, <1>3, <3>4, <5>1, <5>3
      <4>2. /\ checker'.entries # << >>
            /\ checker'.at > local_commited_idx'
            /\ checker'.idx < checker'.at + Len(checker'.entries)
        BY SMTT(30), <1>1, <1>2, <2>5, <3>1, <3>4
      <4>3. \A k \in 1 .. checker'.at - 1 :
              Covered(k, checker'.idx, applied', log')
        BY <1>1, <2>3, <3>4
      <4> QED  BY <4>1, <4>2, <4>3 DEF BatchOK
    <3>6. CheckerOK(checker)'
      BY SMTT(30), <1>1, <1>3, <3>1, <3>4, <3>5 DEF CheckerOK
    <3> QED  BY <1>4, <3>2, <3>3, <3>6 DEF MsgInv
  <2> QED  BY <2>4, <2>5
<1> QED  BY <1>5, <1>6, Zenon DEF CheckerProcess

-----------------------------------------------------------------------------
\* A restart begins with an empty log, of which nothing was applied.
LEMMA RestartInv ==
  ASSUME MsgInv, Restart
  PROVE  MsgInv'
<1>1. QueueOK'
  BY MessagingBounds DEF Restart, MsgInv, QueueOK
<1>2. LogOK' /\ AppliedCommitted'
  BY DEF Restart, LogOK, AppliedCommitted
<1>3. CheckerOK(checker)'
  BY DEF Restart, CheckerOK, CheckerType, Polling
<1> QED  BY <1>1, <1>2, <1>3 DEF MsgInv

\* The invariant is inductive.
LEMMA MsgNext == MsgInv /\ [Next]_msgVars => MsgInv'
<1> SUFFICES ASSUME MsgInv, [Next]_msgVars PROVE MsgInv'
  OBVIOUS
<1>1. CASE UNCHANGED msgVars
  <2>1. QueueOK'
    BY <1>1 DEF msgVars, MsgInv, QueueOK
  <2> QED  BY <1>1, <2>1, ApplyingUntouched DEF msgVars
<1> QED  BY SMTT(30), <1>1, OnEventInv, ProcessorInv, CheckerPollInv, CheckerEntriesInv,
            CheckerProcessInv, RaftAppendInv, RaftCommitInv, RestartInv
         DEF Next

\* It holds in every reachable state.
LEMMA MsgInvariance == Spec => []MsgInv
  BY MsgInit, MsgNext, PTL DEF Spec

\* Every variable of the Messaging application stays in its type, and no batch
\* that process_entries() is given is empty.
THEOREM MessagingTypeCorrect == Spec => []TypeOK
  BY MsgInvType, MsgInvariance, PTL

\* What StorageCheckerThread applied last at every index up to
\* local_commited_idx is the entry that is committed there, however the raft
\* server appends and commits between its reads, and over any restart.
THEOREM AppliedIsCommitted == Spec => []AppliedCommitted
<1>1. MsgInv => AppliedCommitted
  BY DEF MsgInv
<1> QED  BY <1>1, MsgInvariance, PTL

-----------------------------------------------------------------------------
(* The graph, when there is one link between any two switches. *)

Links == {e.event.link : e \in {f \in Entries : f.event.kind = "linkDiscovered"}}

OneLinkBetween == \A k, l \in Links : Joins(k) = Joins(l) => k = l

\* One edge between two switches, which is the link that joins them.
SingleEdges(edges) ==
  \A p \in DOMAIN edges :
    \E link \in Links : Joins(link) = p /\ edges[p] = << link >>

\* A topology of that kind.
SingleTopology(t) ==
  /\ \E edges, hosts : t = [edges |-> edges, hosts |-> hosts]
  /\ SingleEdges(t.edges)

\* The graph of the process and that of the backup file.
GraphInv == SingleTopology(topology) /\ SingleEdges(backup)

\* A topology of that kind, made of its parts.
LEMMA SingleMade ==
  ASSUME NEW edges, NEW hosts, SingleEdges(edges)
  PROVE  SingleTopology([edges |-> edges, hosts |-> hosts])
BY Zenon DEF SingleTopology

\* A link that is there is found as a duplicate (process_link_discovered).
LEMMA DiscoveredSingle ==
  ASSUME OneLinkBetween, NEW t, SingleTopology(t), NEW link \in Links
  PROVE  SingleTopology(ProcessLinkDiscovered(t, link))
<1> DEFINE p == Joins(link)
           new == ProcessLinkDiscovered(t, link)
<1>1. PICK edges, hosts : t = [edges |-> edges, hosts |-> hosts]
  BY Zenon DEF SingleTopology
<1>2. SingleEdges(t.edges) /\ t.edges = edges
  BY <1>1 DEF SingleTopology
<1>3. CASE p \in DOMAIN t.edges
  <2>1. PICK k \in Links : Joins(k) = p /\ t.edges[p] = << k >>
    BY <1>2, <1>3 DEF SingleEdges
  <2>2. k = link
    BY <2>1 DEF OneLinkBetween
  <2>3. Beside(t, link) = << link >>
    BY <1>3, <2>1, <2>2 DEF Beside
  <2>4. Head(<< link >>) = link /\ << link >> # << >>
    OBVIOUS
  <2>5. new = t
    BY <2>3, <2>4 DEF ProcessLinkDiscovered, SharePort
  <2> QED  BY <2>5
<1>4. CASE p \notin DOMAIN t.edges
  <2>1. Beside(t, link) = << >>
    BY <1>4 DEF Beside
  <2>2. Append(<< >>, link) = << link >>
    OBVIOUS
  <2> DEFINE more == [q \in DOMAIN edges \union {p} |->
                        IF q = p THEN << link >> ELSE edges[q]]
  <2>3. AddEdge(t, link) = [edges |-> more, hosts |-> hosts]
    BY <1>1, <1>2, <2>1, <2>2 DEF AddEdge
  <2>4. SingleEdges(more)
    BY <1>2 DEF SingleEdges
  <2>5. new = t \/ new = AddEdge(t, link)
    BY DEF ProcessLinkDiscovered
  <2> HIDE DEF more
  <2>6. SingleTopology([edges |-> more, hosts |-> hosts])
    BY <2>4, SingleMade
  <2> QED  BY <2>3, <2>5, <2>6
<1> QED  BY <1>3, <1>4

\* process_entries() keeps a topology of that kind.
LEMMA ApplyEventSingle ==
  ASSUME OneLinkBetween, NEW t, SingleTopology(t), NEW e \in Entries
  PROVE  SingleTopology(ApplyEvent(t, e.event))
<1>1. PICK edges, hosts : t = [edges |-> edges, hosts |-> hosts]
  BY Zenon DEF SingleTopology
<1>2. SingleEdges(edges)
  BY <1>1 DEF SingleTopology
<1>3. CASE e.event.kind = "linkDiscovered"
  <2>1. e.event.link \in Links
    BY <1>3 DEF Links
  <2>2. ApplyEvent(t, e.event) = ProcessLinkDiscovered(t, e.event.link)
    BY <1>3 DEF ApplyEvent
  <2> QED  BY <2>1, <2>2, DiscoveredSingle
<1>4. CASE e.event.kind = "linkBroken"
  <2> DEFINE rest == [q \in DOMAIN edges \ {Joins(e.event.link)} |-> edges[q]]
  <2>1. ApplyEvent(t, e.event) = ProcessLinkBroken(t, e.event.link)
    BY <1>4 DEF ApplyEvent
  <2>2. ApplyEvent(t, e.event) = [edges |-> rest, hosts |-> hosts]
    BY <1>1, <2>1 DEF ProcessLinkBroken
  <2>3. SingleEdges(rest)
    BY <1>2 DEF SingleEdges
  <2> HIDE DEF rest
  <2> QED  BY <2>2, <2>3, SingleMade
<1>5. CASE e.event.kind = "hostDiscovered"
  <2> DEFINE more == Append(hosts, e.event.host)
  <2>1. ApplyEvent(t, e.event) = ProcessHostDiscovered(t, e.event.host)
    BY <1>5 DEF ApplyEvent
  <2>2. ApplyEvent(t, e.event) = [edges |-> edges, hosts |-> more]
    BY ZenonT(30), <1>1, <2>1 DEF ProcessHostDiscovered
  <2> HIDE DEF more
  <2> QED  BY <1>2, <2>2, SingleMade
<1>6. CASE e.event.kind \notin {"linkDiscovered", "linkBroken", "hostDiscovered"}
  BY <1>6 DEF ApplyEvent
<1> QED  BY <1>3, <1>4, <1>5, <1>6

\* Every step keeps it; a restart reads the graph back from the backup file.
LEMMA GraphNext ==
  ASSUME OneLinkBetween, MsgInv, GraphInv, [Next]_msgVars
  PROVE  GraphInv'
<1> USE DEF GraphInv
<1>1. CASE CheckerProcess
  <2> DEFINE entry == Head(checker.entries)
             new == ApplyEvent(topology, entry.event)
  <2>1. entry \in Entries
    BY <1>1 DEF CheckerProcess, MsgInv, CheckerOK, CheckerType, BatchOK
  <2>2. SingleTopology(new)
    BY <2>1, ApplyEventSingle
  <2>3. SingleEdges(new.edges)
    BY <2>2 DEF SingleTopology
  <2> HIDE DEF new
  <2>4. /\ topology' = topology \/ topology' = new
        /\ backup' = backup \/ backup' = new.edges
    BY Zenon, <1>1 DEF CheckerProcess, new
  <2> QED  BY <2>2, <2>3, <2>4
<1>2. CASE Restart
  <2>1. SingleEdges(<< >>)
    BY DEF SingleEdges
  <2>2. PICK edges \in {backup, << >>} : topology' = [NoTopology EXCEPT !.edges = edges]
    BY <1>2 DEF Restart
  <2>3. topology' = [edges |-> edges, hosts |-> << >>]
    BY <2>2 DEF NoTopology
  <2>4. SingleEdges(edges)
    BY <2>1, <2>2
  <2>5. SingleTopology([edges |-> edges, hosts |-> << >>])
    BY <2>4, SingleMade
  <2> QED  BY Zenon, <1>2, <2>3, <2>5 DEF Restart
<1>3. CASE UNCHANGED <<topology, backup>>
  BY <1>3
<1>4. \/ CheckerProcess \/ Restart \/ UNCHANGED <<topology, backup>>
  BY DEF Next, OnEvent, ProcessorCheck, ProcessorOn, CheckerPoll, CheckerEntries,
         RaftAppend, RaftCommit, msgVars
<1> QED  BY <1>1, <1>2, <1>3, <1>4

\* However often an entry is applied, before it is committed, after it was
\* overwritten, or again after a restart, no link is twice in the graph, as
\* long as there is one link between any two switches.
THEOREM NoLinkTwice ==
  ASSUME OneLinkBetween
  PROVE  Spec => []NoDuplicateEdges
<1>1. Init => GraphInv
  <2>1. SingleEdges(<< >>)
    BY DEF SingleEdges
  <2>2. SingleTopology(NoTopology)
    BY <2>1, SingleMade DEF NoTopology
  <2> QED  BY <2>1, <2>2 DEF Init, GraphInv
<1>2. MsgInv /\ GraphInv /\ [Next]_msgVars => GraphInv'
  BY GraphNext
<1>3. GraphInv => NoDuplicateEdges
  BY DEF GraphInv, SingleTopology, SingleEdges, NoDuplicateEdges
<1> QED  BY <1>1, <1>2, <1>3, MsgInvariance, PTL DEF Spec
=============================================================================
