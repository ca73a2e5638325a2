----------------------------- MODULE Messaging -----------------------------
(***************************************************************************)
(* Messaging.cc on one controller: the application reports link and host   *)
(* events to the raft cluster and applies the entries of the replicated    *)
(* log to its topology.                                                    *)
(*                                                                         *)
(* Three threads share the request queue and the raft server:              *)
(*   - the slots on...Discovered/Broken push requests;                     *)
(*   - RequestQueueProcessorThread passes the front of the queue to the    *)
(*     raft server, again and again until it is popped;                    *)
(*   - StorageCheckerThread polls the commit index, applies the entries    *)
(*     after the last one it knows of and pops the front of the queue when *)
(*     it sees it in the log.                                              *)
(* Reads of the queue are not protected by its mutex, so every read is a   *)
(* step of its own.                                                        *)
(*                                                                         *)
(* The raft server of the controller is the log and the commit index, with *)
(* the promise proved for it in RaftRefinement.tla: what is committed is   *)
(* only extended.  Whether a leader is known, and whether a request that   *)
(* was passed on reaches the log of the leader, is left open.              *)
(*                                                                         *)
(* The topology (ConsistentTopologyImpl) has the edges of the undirected   *)
(* graph and the vector of hosts.  The edges between two switches are kept *)
(* in the order in which they were added, since edge(u, v, graph) gives    *)
(* the first one; nothing depends on the order of others.  The vertices,   *)
(* which are added on demand and never removed, carry no information       *)
(* beyond the edges.  A link is [source, target], each end [dpid, port]; a *)
(* host is [mac, at].                                                      *)
(***************************************************************************)
EXTENDS Integers, Sequences, FiniteSets, Bags

CONSTANTS
  Event,        \* what the applications of this controller report
  Foreign,      \* the requests of the other controllers
  Me,           \* peers[myidx].id
  RECOVERY_FROM_FILE,
  MaxRequests,  \* bound: requests of this controller between two starts
  MaxSubmits,   \* bound: times the front of the queue is passed on
  MaxLog,       \* bound: length of the log
  MaxRestarts   \* bound: starts of the process after the first

ASSUME MessagingBounds ==
  /\ {MaxRequests, MaxSubmits, MaxLog, MaxRestarts} \subseteq Nat
  /\ RECOVERY_FROM_FILE \in BOOLEAN

VARIABLES
  request_queue,       \* the queue of ClientRequests
  message_id,          \* the id of the last request
  processor,           \* RequestQueueProcessorThread: "check" or "on"
  checker,             \* StorageCheckerThread: pc, raft_log_commited_idx, the
                       \* entries to process and the index of the first one
  local_commited_idx,
  topology,            \* *m
  backup,              \* the edges in the backup file
  alive,               \* the process runs
  log, commit,         \* entries and commit index of the local raft storage
  submits,             \* the bag of requests passed to on()
  applied,             \* history: the entry that was applied last at each index
  restarts             \* number of restarts so far

msgVars == <<request_queue, message_id, processor, checker, local_commited_idx,
             topology, backup, alive, log, commit, submits, applied, restarts>>

-----------------------------------------------------------------------------
(* The process_ functions on the topology. *)

NoTopology == [edges |-> << >>, hosts |-> << >>]

\* The two switches that a link joins.
Joins(link) == {link.source.dpid, link.target.dpid}

\* The edges that join the switches of a link.
Beside(t, link) ==
  IF Joins(link) \in DOMAIN t.edges THEN t.edges[Joins(link)] ELSE << >>

SharePort(k, l) == \/ k.source.port = l.source.port
                   \/ k.target.port = l.target.port

AddEdge(t, link) ==
  [t EXCEPT !.edges = [p \in DOMAIN t.edges \union {Joins(link)} |->
     IF p = Joins(link) THEN Append(Beside(t, link), link) ELSE t.edges[p]]]

\* Mutant: the edge is added without the test for a duplicate.
AddAnyEdge(t, link) ==
  IF link.source.dpid = link.target.dpid THEN t ELSE AddEdge(t, link)

\* The new link is compared with edge(u, v, graph), the first edge that joins
\* its switches.
ProcessLinkDiscovered(t, link) ==
  LET beside == Beside(t, link)
      duplicate == beside # << >> /\ SharePort(Head(beside), link)
  IN  IF link.source.dpid = link.target.dpid \/ duplicate THEN t
      ELSE AddEdge(t, link)

\* remove_edge(u, v, graph) removes every edge that joins the two switches.
ProcessLinkBroken(t, link) ==
  [t EXCEPT !.edges = [p \in DOMAIN t.edges \ {Joins(link)} |-> t.edges[p]]]

ProcessHostDiscovered(t, host) == [t EXCEPT !.hosts = Append(@, host)]

\* The topology after process_entries() applied the event of one entry.
ApplyEvent(t, event) ==
  CASE event.kind = "linkDiscovered" -> ProcessLinkDiscovered(t, event.link)
    [] event.kind = "linkBroken"     -> ProcessLinkBroken(t, event.link)
    [] event.kind = "hostDiscovered" -> ProcessHostDiscovered(t, event.host)
    [] OTHER                         -> t

-----------------------------------------------------------------------------
\* A request; start (the start of the process that made it) is not part of the
\* data and only tells requests apart.
Request(id, event) ==
  [client |-> Me, id |-> id, event |-> event, start |-> restarts]

\* What a read of the front of an empty queue may give.
Garbage == [client |-> "", id |-> 0, event |-> [kind |-> ""], start |-> 0]

Requests ==
  [client : {Me}, id : 1 .. MaxRequests, event : Event,
   start : 0 .. MaxRestarts]

Entries == Requests \union Foreign \union {Garbage}

Polling == [pc |-> "poll", idx |-> 0, at |-> 0, entries |-> << >>]

Init ==
  /\ request_queue = << >> /\ message_id = 0
  /\ processor = "check" /\ checker = Polling /\ local_commited_idx = 0
  /\ topology = NoTopology /\ backup = << >> /\ alive = TRUE
  /\ log = << >> /\ commit = 0
  /\ submits = EmptyBag
  /\ applied = << >> /\ restarts = 0

-----------------------------------------------------------------------------
(* The slots. *)

\* onLinkDiscovered, onLinkBroken, onHostDiscovered.
OnEvent(event) ==
  /\ alive
  /\ message_id < MaxRequests
  /\ message_id' = message_id + 1
  /\ request_queue' = Append(request_queue, Request(message_id + 1, event))
  /\ UNCHANGED <<processor, checker, local_commited_idx, topology, backup,
                 alive, log, commit, submits, applied, restarts>>

-----------------------------------------------------------------------------
(* RequestQueueProcessorThread. *)

\* The queue is not empty, and a leader is known.
ProcessorCheck ==
  /\ alive
  /\ processor = "check"
  /\ request_queue # << >>
  /\ processor' = "on"
  /\ UNCHANGED <<request_queue, message_id, checker, local_commited_idx,
                 topology, backup, alive, log, commit, submits, applied,
                 restarts>>

\* How often a request was passed to the server.
PassedOn(request) == IF BagIn(request, submits) THEN submits[request] ELSE 0

Submit(request) ==
  /\ PassedOn(request) < MaxSubmits
  /\ submits' = submits (+) SetToBag({request})

\* The front of the queue, which may be empty by now, is passed to the server.
ProcessorOn ==
  /\ alive
  /\ processor = "on"
  /\ processor' = "check"
  /\ \/ request_queue # << >> /\ Submit(Head(request_queue)) /\ UNCHANGED alive
     \/ request_queue = << >> /\ Submit(Garbage) /\ UNCHANGED alive
     \/ request_queue = << >> /\ alive' = FALSE /\ UNCHANGED submits
  /\ UNCHANGED <<request_queue, message_id, checker, local_commited_idx,
                 topology, backup, log, commit, applied, restarts>>

-----------------------------------------------------------------------------
(* StorageCheckerThread. *)

\* Mutants: a single new entry is not noticed; no new entry is needed.
FarBehind == commit > local_commited_idx + 1
NotAhead == commit >= local_commited_idx

Behind == commit > local_commited_idx

CheckerPoll ==
  /\ alive
  /\ checker.pc = "poll"
  /\ Behind
  /\ checker' = [checker EXCEPT !.pc = "entries", !.idx = commit]
  /\ UNCHANGED <<request_queue, message_id, processor, local_commited_idx,
                 topology, backup, alive, log, commit, submits, applied,
                 restarts>>

\* entries_since(local_commited_idx): all of them, not only the committed ones.
CheckerEntries ==
  /\ alive
  /\ checker.pc = "entries"
  /\ checker' = [checker EXCEPT !.pc = "process",
                   !.at = local_commited_idx + 1,
                   !.entries = SubSeq(log, local_commited_idx + 1, Len(log))]
  /\ UNCHANGED <<request_queue, message_id, processor, local_commited_idx,
                 topology, backup, alive, log, commit, submits, applied,
                 restarts>>

\* The entry names the front of the queue.
Matches(entry, request) ==
  entry.client = request.client /\ entry.id = request.id

\* Mutant: the commit index is read again after the entries were processed.
CommitReadAgain == commit

\* The index up to which the batch that is being processed was committed.
ProcessedUpTo == checker.idx

\* process_entries: one entry is applied; the topology is dumped and the front
\* of the queue popped if the entry names it.  After the last entry the thread
\* polls again.  The comparison with the front of an empty queue, and the
\* parsing of a garbage entry, are undefined: the process ends, or goes on.
CheckerProcess ==
  LET entry == Head(checker.entries)
      rest  == Tail(checker.entries)
      new   == ApplyEvent(topology, entry.event)
      pops  == request_queue # << >> /\ Matches(entry, Head(request_queue))
  IN
  /\ alive
  /\ checker.pc = "process"
  /\ \/ /\ request_queue = << >> \/ entry = Garbage
        /\ alive' = FALSE
        /\ UNCHANGED <<request_queue, checker, local_commited_idx, topology,
                       backup, applied>>
     \/ /\ topology' = new
        /\ applied' = [k \in (1 .. checker.at) \union DOMAIN applied |->
                         IF k = checker.at THEN entry ELSE applied[k]]
        /\ IF pops
           THEN /\ request_queue' = Tail(request_queue)
                /\ backup' = IF RECOVERY_FROM_FILE THEN new.edges ELSE backup
           ELSE UNCHANGED <<request_queue, backup>>
        /\ IF rest = << >>
           THEN local_commited_idx' = ProcessedUpTo /\ checker' = Polling
           ELSE /\ checker' = [checker EXCEPT !.entries = rest, !.at = @ + 1]
                /\ UNCHANGED local_commited_idx
        /\ UNCHANGED alive
  /\ UNCHANGED <<message_id, processor, log, commit, submits, restarts>>

-----------------------------------------------------------------------------
(* RaftThread: the log of the local server. *)

Occurrences(r) == Cardinality({k \in DOMAIN log' : log'[k] = r})

\* As a leader, or for a leader, the server appends a request behind its commit
\* index; a request is in the log at most as often as it was passed on.
RaftAppend(entry) ==
  /\ alive
  /\ \E keep \in commit .. Len(log) :
       /\ keep < MaxLog
       /\ log' = Append(SubSeq(log, 1, keep), entry)
  /\ Occurrences(entry) <= IF entry \in Foreign THEN MaxSubmits
                           ELSE PassedOn(entry)
  /\ UNCHANGED <<request_queue, message_id, processor, checker,
                 local_commited_idx, topology, backup, alive, commit, submits,
                 applied, restarts>>

RaftCommit ==
  /\ alive
  /\ \E k \in commit + 1 .. Len(log) : commit' = k
  /\ UNCHANGED <<request_queue, message_id, processor, checker,
                 local_commited_idx, topology, backup, alive, log, submits,
                 applied, restarts>>

-----------------------------------------------------------------------------
\* The process ends at any time, and init() and startUp() run again: message
\* ids start from 1, the log is empty until the leader sends it again, and the
\* graph (not the hosts) is read from the backup file.
Restart ==
  /\ restarts < MaxRestarts
  /\ restarts' = restarts + 1
  /\ request_queue' = << >> /\ message_id' = 0
  /\ processor' = "check" /\ checker' = Polling /\ local_commited_idx' = 0
  /\ topology' = [NoTopology EXCEPT !.edges =
                    IF RECOVERY_FROM_FILE THEN backup ELSE << >>]
  /\ alive' = TRUE
  /\ log' = << >> /\ commit' = 0 /\ applied' = << >>
  /\ UNCHANGED <<backup, submits>>

Next ==
  \/ \E event \in Event : OnEvent(event)
  \/ ProcessorCheck
  \/ ProcessorOn
  \/ CheckerPoll
  \/ CheckerEntries
  \/ CheckerProcess
  \/ \E entry \in BagToSet(submits) \union Foreign : RaftAppend(entry)
  \/ RaftCommit
  \/ Restart

\* The threads are scheduled: a step that stays possible is taken.
Fairness ==
  /\ WF_msgVars(CheckerPoll)
  /\ WF_msgVars(CheckerEntries)
  /\ WF_msgVars(CheckerProcess)

Spec == Init /\ [][Next]_msgVars /\ Fairness

-----------------------------------------------------------------------------
(* Properties. *)

\* The type invariant; the checker's batch is never empty when it is processed.
TypeOK ==
  /\ request_queue \in Seq(Requests) /\ message_id \in 0 .. MaxRequests
  /\ processor \in {"check", "on"}
  /\ checker.pc \in {"poll", "entries", "process"}
  /\ checker.pc = "process" => checker.entries \in Seq(Entries) \ {<< >>}
  /\ alive \in BOOLEAN
  /\ log \in Seq(Entries) /\ commit \in 0 .. Len(log)
  /\ local_commited_idx \in 0 .. commit

\* What was applied last at each index up to local_commited_idx is the entry
\* committed there, although the commit index and the entries are read in two
\* steps, and entries that are not committed are applied too.
AppliedCommitted ==
  \A k \in 1 .. local_commited_idx : k \in DOMAIN applied /\ applied[k] = log[k]

\* Entries are applied several times (the tail behind the commit index again
\* and again, a request once for each time it got into the log, the whole log
\* after a restart), but no link is twice in the graph, as long as there is one
\* link between any two switches.
NoDuplicateEdges ==
  \A p \in DOMAIN topology.edges : \A k, l \in DOMAIN topology.edges[p] :
    k # l => topology.edges[p][k] # topology.edges[p][l]

\* What is committed is eventually applied, unless the process ends.
CommittedIsApplied ==
  \A k \in 1 .. MaxLog :
    commit >= k ~> (local_commited_idx >= k \/ commit < k \/ ~alive)

-----------------------------------------------------------------------------
(* What comments of the code say and the code does not do. *)

\* Messaging.cc:119, "we can only pop from queue is the request is commited".
PopOnlyCommitted ==
  [][restarts' = restarts /\ Len(request_queue') < Len(request_queue) =>
       \E k \in 1 .. commit : log[k] = Head(request_queue)]_msgVars
=============================================================================
