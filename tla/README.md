# RUNOS with replicated topology: TLA+ models and proofs

The repository is the RUNOS OpenFlow controller with a `messaging` application
that makes several controllers agree on one network topology. Every controller
runs a raft server; discovered links and hosts become client requests; each
controller applies the replicated log to its own copy of the topology.

This directory models the code (not the raft paper): the handlers, their early
returns and their omissions are those of `src/`. `PROJECT.json` has the exact
correspondence of definitions and source lines, the runs, the mutants that show
that every property can fail, the hazards, the findings and the theorems.

## The parts of the system and their modules

Packet-ins and port events of switches reach link discovery, the host manager
and the forwarding pipeline through the controller core. The signals
`linkDiscovered`, `linkBroken` and `hostDiscovered` reach the local topology,
the spanning tree and the messaging application. The last one queues requests
and passes them to the local raft server, which forwards them to the leader it
knows; another thread polls the commit index of the local storage and applies
the entries. A REST interface shows hosts, links, rules, statistics and events,
and adds flow entries.

| part | source | modules |
|---|---|---|
| raft server | `raft/raft_server.ipp` and headers | `Raft`, `RaftNode` (what one server promises) |
| raft storage | `raft/mem_storage.cpp` | `MemStorage` |
| raft transport | `raft/asio_tcp_*.cpp`, `simple_message_processor.cpp` | `Transport`, `Clients` |
| raft serialization | `raft/simple_serialize.cpp` | `Serialize` |
| messaging application | `Messaging.cc`, `Messaging.hh` | `Messaging` |
| link discovery, topology, spanning tree, switch manager | `LinkDiscovery.cc`, `Topology.cc`, `STP.cc`, `Switch.cc` | `LinkDiscovery`, `Topology`, `SpanningTree`, composed by `Discovery` |
| controller core | `Controller.cc`, `Flow.cc`, `Decision.cc`, `OFTransaction.cc` | `Maple`, `Startup` |
| maple trace tree | `maple/` | `TraceTree` |
| packet handlers | `LearningSwitch.cc`, `SimpleLearningSwitch.cc`, `ArpHandler.cc`, handler of `HostManager.cc` | `PacketHandlers` |
| masked header fields | `oxm/field.hh`, `oxm/field_set.hh`, `types/bits.hh` | `Oxm` (partial functions), `Fields` (as stored) |
| host manager, flow manager, REST events | `HostManager.cc`, `FlowManager.cc`, `Event.cc`, `RestListener.cc` | `HostManager`, `FlowManager`, `Events`, composed by `Services` |
| REST statistics | `RestMultipart.cc`, `Stats.cc` | `RestMultipart`, `Stats` |
| REST flow entries, configured flows | `RestFlowMod.cc`, `RestStringProcessing.cc`, `StaticFlowPusher.cc` | `RestFlow`, `StaticFlow` |
| packets, match encoding, addresses, JSON | `PacketParser.cc`, `FluidOXMAdapter.cc`, `types/`, `json11.cpp` | `PacketParser`, `Wire`, `Addresses`, `Json` |
| application loader | `Loader.cc` | `Loader` |
| web interface, CBench | `WebUIManager.cc`, `CBench.cc` | not modelled |

`MC*` modules are the instances for TLC, `*Proofs` and `RaftRefinement` the
proofs. Components without threads of their own are modules of operators on a
record (the storage, the link table, the trees, the managers); the modules that
compose them have the variables, the queues and the actions.

### How state and actions correspond to the code

* `MemStorage`: the storage object as a record, its methods as operators. The
  `exit(1)` branches set `exited`. The journal is written and never read, so it
  is no state; a write error, which also exits, is a crash like any other.
* `Raft`: one action per handler of `raft::Server`, for all servers.
  `TimeoutRequest` and `HeartbeatRequest` are `timeout()` by role; `Receive`
  has one operator per `on()` with one disjunct per way through it;
  `LocalClientRequest` is the call by the messaging application; `Restart` is a
  crash and the next start, which constructs everything again. The network is a
  bag: a send may be lost (a session that cannot connect, or that `drop()`
  closes with its queue), messages of different sessions overtake each other,
  none is duplicated. `assert()` of `raft_server.ipp:219` ends the process
  unless `NDEBUG`.
* `RaftNode`: the term of a server never decreases, it votes once per term, its
  committed prefix is only extended; a restart forgets. `Raft!Node` is the
  refinement mapping.
* `Transport`: a connection has two ends with a session each. Actions are the
  callbacks of asio, `session_send`, and a network that breaks connections; a
  message is two pieces of bytes between which a read or a failing write may
  stop. `Clients`: the client half, with `commit_advanced` and its watermark.
* `Messaging`: the slots, `RequestQueueProcessorThread` (two steps, because the
  queue is tested and read without its mutex), `StorageCheckerThread` (reading
  the commit index, reading the entries, processing one entry), the backup file
  and the restart. `front()` of an empty queue is undefined: it gives a garbage
  request or ends the process. The raft server appears with the promise of
  `RaftNode`: a log whose part behind the commit index may be replaced, and a
  commit index that grows. `ApplyEvent` applies an entry; the edges
  between two switches are kept in the order in which they were added because
  `edge(u, v, g)` returns the first one (so in `Topology`).
* `Discovery`: the applications live in one thread and call each other's slots
  directly, so one action is a queued signal with everything it calls. The
  switches are external: each answers and reports in order, beacons may be late
  or lost, cables and connections break.
* `Maple`: one switch and its `SwitchScope`: the trace tree, the flows in their
  states, and the messages on the connection. A packet-in runs the whole
  pipeline of `PacketHandlers`, whose questions build the tree of `TraceTree`;
  a commit sends the compiled rules. The switch is external: highest priority
  wins, a flow-removed for every rule that goes.
* `Services`: controller thread, application thread and HTTP thread with hosts,
  rules and the event list. A slot or a packet handler is taken apart where the
  other thread can come in between: looking a host up and using it, each host
  and rule that goes, and in `addToEventList` the read and the write of
  `last_event` and the `push_back` (with `setBrother`, between which and the
  `push_back` a poll shows neither event). `threads` holds what each thread has
  still to do. A null pointer that is followed sets `ended`. `RestMultipart`: the HTTP thread waiting in an event
  loop for the application thread; `Stats`, `Startup`: polled counters, and what
  applications register before the start with the numbers of static
  transactions.
* The conversions (`Json`, `Serialize`, `Addresses`, `PacketParser`, `Wire`,
  `RestFlow`, `StaticFlow`, `Fields`, `Loader`) are functions; `MCConversions`
  takes one bounded input and converts it.

## What the runs check

| run | instance | properties |
|---|---|---|
| `RaftCluster` | 3 servers, 2 values, terms to 2, logs of 1, 1 message in flight, symmetry; beside it the first election of 4 servers | `EntryTermsBounded`, `LeaderConsistent`, `LeaderAppendOnly`, `FirstElectionSafetyOfFour` |
| `RaftRestart` | 2 servers, 1 value, terms to 2, logs of 2, 2 messages in flight, 1 restart | `TypeOK`, `StorageConsistent`, `NoExit`, `NodePromise` |
| `Messaging` | 2 requests, each passed on up to 2 times, 1 foreign request, logs of 3; beside it 1 request, logs of 2, 1 restart with the backup file | `TypeOK`, `AppliedCommitted`, `NoDuplicateEdgesAfterRestart`, `CommittedIsApplied` |
| `Transport` | 3 servers, 2 connections: two servers that call each other (1 and 2 messages), two that call one; beside it 2 clients, logs of 2, terms to 2 | `SessionsSound`, `IdentifiedByPeer`, `HandedInOrder`, `ToldAsCommitted`, `AllStoppedLeave` |
| `Maple` | both configured pipelines, 4 packets, 3 arrivals, 3 flows, queues of 2, 1 fault | `TraceConsistent`, `CompilerAgreesWithLookup`, `FlowsCurrent`, `OverlapsInOrder`, `FlowsInstalled`, `PacketInAnswered` |
| `Discovery` | one cable from the start, and a ring of 3 switches already known; queues of 2, 2 faults, links that live 2 polls | `LinkTableSound`, `TopologyFollows`, `SwitchesKnown`, `RouteIsPath`, `FloodsAlongTree`, `DeadLinksForgotten` |
| `Services` | 1 or 2 switches, queues of 2, scenarios that divide faults, packets, the timer, rule changes and deletions; beside it `RestMultipart` (2 switches, 3 GETs), `Stats`, `Startup` | `ViewsFollow`, `ClientCatchesUp`, `StatisticsAreOwn`, `RegistrationsKept`, `ViewConverges`, `GetEnds` |
| `Conversions` | all inputs of the sets in `MCConversions` | `TextsReadBack`, `PacketsEncoded`, `FieldsAreOxm`, `FlowsOverRest`, `LoadedInOrder` |

The comment above each property says what it means and for which code.

Why the bounds are enough to be interesting. Two terms and three servers give
competing leaders, also two of one term (a late vote is counted in a later
candidacy), which is what `LeaderAppendOnly` and `EntryTermsBounded` are about;
two values tell the entries of two leaders apart. Two messages in flight let one
overtake another; with logs of two entries, requests then arrive that leave a
gap or overwrite a tail, which is where the storage could exit. In `Services` a
reconnection while the old connection is still being handled brings the two
threads to the same host. In an even cluster half of the servers is one vote short of a
majority. Two faults in a ring let a link break while a switch reconnects. Two
arrivals of packets with overlapping rules, and a third after a timeout or a
reload, reach every state of a flow. Each bound is a constant named in its
module and occurs in guards only, except `MaxInFlight`: a message beyond it is
lost, as any message may be. Servers and values are symmetric; liveness is
checked without symmetry.

Only the raft runs check deadlock: elsewhere the process may have ended, or
everything within the bounds has happened. It says little there too, since a
follower always takes a request of its application.

### Fairness

`Raft` has none, and no liveness is claimed for it. Elsewhere only steps of the
program itself, or of operations that are bound to finish, are fair:

* `Messaging`: the steps of `StorageCheckerThread`, an endless loop with a sleep
  that waits for no lock held for ever. Nothing is assumed of the network, the
  raft server or the other threads.
* `Transport`, `Clients`: an operation on a broken connection ends with an error
  and `io_service::run` calls its callback.
* `Discovery`: the event loop takes queued signals, and its poll timer fires.
* `Services`, `RestMultipart`: the threads and event loops run, and a switch answers as long
  as its connection is open. `GetEnds` does not cover a switch that answers with
  an error or goes away: then the HTTP thread waits for ever.

`PacketInAnswered` is an action property and needs none.

### Findings: statements of the repository that the code does not keep

| run | statement | what the code does |
|---|---|---|
| `RaftCommittedAgree` | `raft/README:1` | entries of different terms count as matching (the test at `raft_server.ipp:195` is commented out); two servers commit different ones |
| `MessagingPop` | `Messaging.cc:119` | a request is popped for an entry that is not committed |
| `MapleBarrier` | `Controller.cc:793` | barrier rules are never sent, so a packet of a kind never seen is handled by a rule of another kind |
| `FloodLoop` | `STP.hh:82` | a link found while one of its switches reconnects is unknown to the tree, and a ring floods in a loop |

Differences met while modelling that have no run of their own:

* `raft_server.ipp:236`: a late vote of an earlier candidacy counts.
* `raft_server.ipp:164`: a candidate that lost keeps an old `leader_id` and
  drops the winner's requests; `:183`: heartbeats of a new leader start at
  entry 0 and are dropped by followers that have committed; `:219`: the
  assertion fails behind a partition; `:419` describes a test for a request the
  leader has already that is not there.
* `raft_entry.hpp:36`, `:45` compare `lhs.term` with itself.
* `raft_server.hpp:26` calls a storage non-volatile that a restart forgets.
* `Messaging.cc:223`: the duplicate test sees one of several parallel links, so
  `NoDuplicateEdges` is checked with one link between two switches;
  `process_host_discovered` does not replace a host of the same MAC as
  `Messaging.cc:195` describes.
* `asio_tcp_server.cpp:158`, `:184`: after one failing accept the server never
  accepts again. `asio_tcp_session.cpp:49`: the callback of a replaced session
  drops the new session of the same peer too; raft sends again what is lost.
* `Topology.cc:162`: `remove_edge` removes all parallel edges.
* `Event.cc:29`, `:174`: an event gets its id and is put into the list without a
  lock, by the controller's thread and the applications'. In `Services` two
  events get one id, against `Event.hh:31` ("All events in all applications have
  unique id"), and an event that is put into the list after one with a higher id
  was shown is never shown to that client. `ClientCatchesUp` therefore claims
  nothing once two additions have overlapped (`overlapped`).
* `HostManager.cc:153`, `:161`: a host that was found may be erased by
  `onSwitchDown` before it is used, and the null pointer is followed; a host
  that goes before its Add is in the list has no brother, and `Event.cc:192`
  follows a null pointer; so does `addHost` for a switch that the switch manager
  does not know yet. The model ends the process there.
* `HostManager.cc:189`: `onSwitchDown` goes over ports that are cleared already.
* `FlowManager.cc:169` shows the number of the next table as the character with
  that code, where `RestStringProcessing.cc:130` shows digits; `:121` shows the
  reserved ports as negative numbers. `ViewsAgree` leaves out these two.
* `RestStringProcessing.hh:52`: an empty text leaves the number that is read
  uninitialized, so JSON that is no text gives any value; `RestFlow` takes the
  value as part of the input.
* `RestFlowMod.cc:408`: an action without a type ends the request after its text
  was noted, and the next answer tells it (`AnswersOwn` allows this case only).
* `STP.cc:259` follows a null pointer for a link whose switch is not in
  `switch_list`; `SpanningTree` marks it in `stp.ok`, after which nothing
  happens, and no property reports it.
* `Controller.cc:948` indexes `static_ofresponse` by the transaction id instead of
  its place. It runs when an application is destroyed, which is at the exit of
  the process, and is left out.
* `FlowManager.cc:363` ignores the flag MORE of a multipart reply.
* `RestListener.cc:29`: `cur_hash` overflows after 32 applications.
* `Controller.cc:834`: a packet-in with reason ACTION on an active flow waits
  for the next commit. Link expiry invalidates no trace tree.
* `Loader.cc:204`: after a missing dependency a later user is told of a cycle.
* `field_set::modify` with a wildcard stores a wildcard, which
  `field_set.hh:16` excludes.
* `PacketParser.cc:222` takes an IPv4 header length below five words; the forms
  of IPv6 addresses that end or start with `::` for one group, which
  `IPv6Addr.cc:31` and `:45` list, are rejected (`IPv6ReadsBack` claims nothing
  for them); a line of `simple_serialize.cpp` that is cut inside its last word is
  read as a shorter value (`ReadAsWritten` says as which); priorities of configured flows are cut to 16 bits.

## What is proved

With TLAPS, for every value of the constants under the assumptions named in
the modules (`ServerAssumption`: servers are finite and `NoServer` is none;
`BoundsAssumption`, `MessagingBounds`: bounds are numbers; `NetworksAssumption`:
a port has at most one cable):

| theorem | statement |
|---|---|
| `RaftProofs!TypeCorrect` | `TypeOK`, with `next_entry` never 0 |
| `RaftProofs!NeverExits` | no `exit(1)` of the storage is reached |
| `RaftProofs!StorageStaysConsistent` | logs are consecutive, the marks name entries of the log |
| `RaftProofs!LeaderStaysConsistent` | a leader's own vote and match are current |
| `RaftRefinement!NodeRefinement` | `Raft` implements `RaftNode` |
| `RaftSafetyProofs!TermsStayBounded` | no server holds an entry of a later term than its own |
| `RaftSafetyProofs!LeadersOnlyAppend` | no step rewrites or shortens the log of a server that leads before and after it |
| `RaftElectionProofs!FirstElectionIsSafe` | at most one server leads in term 1 as long as none has restarted |
| `MessagingProofs!MessagingTypeCorrect` | `TypeOK`; no batch is empty |
| `MessagingProofs!AppliedIsCommitted` | what was applied last at every index up to `local_commited_idx` is the committed entry |
| `MessagingProofs!NoLinkTwice` | `NoDuplicateEdges`, if there is one link between any two switches (`OneLinkBetween`) |
| `DiscoveryProofs!LinkTableStaysSound` | links and their ends stay in step; no `CHECK` or `assert` of `LinkDiscovery.cc` fails |
| `DiscoveryProofs!TopologyFollowsLinks` | `TopologyFollows`, if no two cables join the same switches and none is a loopback (`SimpleNetworks`) |
| `FieldProofs!OperatorsImplementOxm` | the operators of `oxm/field.hh` throw nothing on fields of one type and are those of `Oxm`, for every width |

### The arguments

*Raft, storage and types.* None of the properties is inductive alone. `IInv` (in
`RaftProofs`) adds to the types: every storage is `Sound` (well formed, and not
exited); every append request in the network has consecutive entries that start
right after its `previous_entry`; a candidate has its own vote. The first is
kept by `append` only because a receiver refuses requests that start behind its
log or before its commit mark, which needs the second; the second is kept by a
leader because the entries it reads from its own, well-formed log are
consecutive (`EntriesSinceContinue`, `RetryContinues`); the third makes
`LeaderConsistent` hold when the candidate wins. `MemStorageProofs` has one
lemma per storage method, `RaftProofs` one per handler.

*Refinement.* A request accepted by a follower starts at or after its commit
mark, so truncation leaves the committed prefix as it is (`AppendSound`), and
`commit_until` only lengthens it (`CommitSound`). Every action advances one
server, restarts it, or stutters.

*Terms and leaders' logs.* `EntryTermsBounded` needs that no request in the
network carries an entry of a later term than its own (`RequestsBounded`): a
sender takes entries from its log, which is bounded, and a receiver has entered
the term of a request before it appends. `LogStep` says for every action what it
does to a log: nothing, or it appends as a leader, or it takes a request as a
follower, or it restarts. `LeadersOnlyAppend` follows, since a leader that gets
a request of its own term drops it, and one of a newer term makes it a follower.

*First election.* `ElectionInv`: a leader counts the votes of a majority, and,
before any restart, a vote of term 1 that is counted or under way is the vote
its sender remembers, and the only one it has given. A second majority would
share a voter (`MajoritiesMeet`). The restriction to term 1 is the code's: in a
later term a vote of an earlier candidacy counts. So is that to no restart: it
forgets the vote.

*Messaging.* The commit index and the entries are read in two steps, and the
batch is applied in several, while the log goes on changing. `MsgInv` says of a
batch in progress (`BatchOK`): it starts behind what was applied, reaches beyond
the commit index that was read, and agrees with the log up to this index, which
stays so because committed entries are never replaced; everything before it is
applied. Entries beyond the index may be applied and be replaced later; they
are applied again, since only the index that was read becomes
`local_commited_idx`. This is where the promise of `RaftNode`, proved above, is
used. `MsgInv` was checked with TLC on two instances first.

*Graph of the log.* Entries are applied more than once by design, so the only
guard against a doubled edge is the comparison in `process_link_discovered`.
`GraphInv` says that there is at most one edge between two switches, in the
graph of the process and in the backup file, from which a restart takes it;
then the edge that `edge(u, v, graph)` gives is the new link itself, and its
ports are equal. With two links between the same switches the comparison looks
at the first one only, and the second is added again and again: the hypothesis
`OneLinkBetween` is needed.

*Link table.* Links in the table and in queued beacons are cables
(`DiscoveryProofs!IInv`); since a port has at most one cable, the two ends of a
link are found by each other.

*Topology.* On top of `IInv`, `TopologyInv`: the graph has exactly one edge for
every link of the table, and the list exactly one object. A beacon adds a link
that is not in the table (`BeaconLinks`), and every link that leaves the table
is announced in the same step. `remove_edge(u, v, g)` takes all edges between
two switches, so the hypothesis `SimpleNetworks` is needed: one of two parallel
links would take the other along.

*Fields.* A field is taken apart into two sets of bit positions; every operator
is computed on these and compared with `Oxm`, where a field is a partial
function from bits to 0 and 1.

### What is only model-checked, and why

* Liveness (`CommittedIsApplied`, `AllStoppedLeave`, `DeadLinksForgotten`,
  `ViewConverges`, `GetEnds`): fairness is out of the prover's reach.
* `HandedInOrder` and what else is about filtered sequences: `SelectSeq` is
  recursive and needs induction over data.
* `TraceTree`, `PacketHandlers`, `Maple`, `Json`, `Loader` and the conversions:
  their definitions are recursive as the code is.
* `RouteIsPath`, `FloodsAlongTree`, the properties of
  `Services` and `IdentifiedByPeer`: paths, spanning forests, folds over queues.

## What is left out

* Torn accesses. `on()` is called by two threads, and the storage is read by a
  third, without locks; maps of the managers are read by the HTTP thread.
  A handler of raft is atomic here, and so is a single access to a container;
  the outcomes of torn accesses to vectors, maps and strings cannot be
  enumerated. Where a lock is missing around a sequence of accesses that are
  whole in themselves (the queue and the storage in `Messaging`, the hosts and
  the event list in `Services`), each access is a step.
* More than one controller thread: `network-settings.json` has one, as the model;
  the default of `Controller.cc:866` is four, with which the handlers of
  different switches would interleave as well.
* The time of timers: any order of expiries is allowed, which includes the
  intervals the code draws.
* `on(ConfigChangeRequest)`, which is empty.
* Texts that are only shown (switch descriptions, the JSON of most statistics),
  logging, the routing of REST paths and the file server, program options, the
  classification of addresses, `OFMsgUnion` (a union of message types), the
  byte level of OpenFlow, which is libfluid's.
* `WebUIManager.cc` and `CBench.cc`: the first counts switches and shows texts,
  the second answers every packet-in alike.
* Connections of one switch that overlap, except in `Maple`; a cable that is
  plugged into another port, except as the loss of one cable.
