------------------------------ MODULE Clients ------------------------------
(***************************************************************************)
(* The clients of one raft server: the client half of                      *)
(* raft/asio_tcp_server.cpp, with raft/asio_tcp_session.cpp and            *)
(* MessageProcessor::process_client_message.                               *)
(*                                                                         *)
(* The raft server calls commit_advanced.  It appears here with its        *)
(* storage and the calls it makes: entries behind the commit mark may be   *)
(* replaced by those of a leader, and a leader announces its own commit    *)
(* index, which may lie behind the log of this server.  TCP is external.   *)
(***************************************************************************)
EXTENDS Integers, Sequences, SequencesExt, FiniteSets

CONSTANTS
    MaxLog,      \* bound: length of the log
    MaxTerm,     \* bound: terms of entries
    MaxClients,  \* bound: connections of clients
    MaxTogether, \* bound: connections at a time
    MaxAnswers   \* bound: requests of a client that are answered

VARIABLES
    sessions,     \* Session objects of clients, by number of their id
    all_clients,  \* all_clients_, the ids
    accepting,    \* async_accept is pending
    stop,         \* stop_ of the server
    storage,      \* the storage of the raft server
    watermark     \* watermark_index_

vars == <<sessions, all_clients, accepting, stop, storage, watermark>>

Store == INSTANCE MemStorage WITH Server <- {}, Value <- {0}, NoServer <- 0

\* stream is all that was given to Session::send; writing: write_queue_, some
\* last part of it, is not empty.
Session == [stop |-> FALSE, cut |-> FALSE, reading |-> TRUE, writing |-> FALSE, stream |-> <<>>]
Stream(c) == sessions[c].stream
Sent(c, what) == SelectSeq(Stream(c), LAMBDA m : m.what = what)
Clients == DOMAIN sessions

----------------------------------------------------------------------------
(* Methods, on the objects that they change: o.sessions, o.all_clients     *)

Objects == [sessions |-> sessions, all_clients |-> all_clients]
Becomes(o) == sessions' = o.sessions /\ all_clients' = o.all_clients

\* Session::send
Send(o, c, messages) ==
    IF o.sessions[c].stop \/ messages = <<>> THEN o
    ELSE [o EXCEPT !.sessions[c].stream = @ \o messages, !.sessions[c].writing = TRUE]

\* client_session_send
ClientSend(o, c, message) ==
    IF stop \/ c \notin o.all_clients THEN o ELSE Send(o, c, <<message>>)

\* Server::drop of a client, with stop_and_close
Drop(o, c) ==
    IF stop \/ c \notin o.all_clients THEN o
    ELSE [o EXCEPT !.all_clients = @ \ {c}, !.sessions[c].stop = TRUE, !.sessions[c].cut = TRUE]

\* Every client is told of the entries from the watermark on and before
\* commit_index.  Entry 0, and one that the log does not have, is told as
\* {0, 0}.
Told(o, st, commit_index) ==
    LET news == IF commit_index <= watermark THEN <<>>
                ELSE [k \in 1 .. commit_index - watermark |->
                        [what |-> "committed", info |-> Store!GetEntryInfo(st, watermark + k - 1)]]
    IN  [c \in Clients |-> IF c \in o.all_clients THEN Send(o, c, news).sessions[c]
                           ELSE o.sessions[c]]

\* Mutant: the watermark is not counted up.
CommitAdvancedNoMark(st, commit_index) ==
    /\ sessions' = IF stop THEN sessions ELSE Told(Objects, st, commit_index)
    /\ UNCHANGED watermark

\* commit_advanced
CommitAdvanced(st, commit_index) ==
    IF stop \/ all_clients = {} THEN UNCHANGED <<sessions, watermark>>
    ELSE /\ sessions' = Told(Objects, st, commit_index)
         /\ watermark' = IF watermark < commit_index THEN commit_index ELSE watermark

----------------------------------------------------------------------------
(* The raft server *)

Entry(k, t) == [index |-> k, term |-> t, data |-> 0]

\* An entry of this server as the leader
Appended(st, t) == Store!StorageAppend(st, <<Entry(st.uncommit.index + 1, t)>>)

LeaderAppends(t) ==
    /\ storage.uncommit.index < MaxLog /\ t >= storage.uncommit.term
    /\ storage' = Appended(storage, t)
    /\ UNCHANGED <<sessions, all_clients, accepting, stop, watermark>>

\* The end of on(AppendEntriesResponse): new_commit is an index of the log.
LeaderCommits(new_commit) ==
    /\ new_commit > storage.commit.index
    /\ storage' = Store!CommitUntil(storage, new_commit)
    /\ CommitAdvanced(storage', new_commit)
    /\ UNCHANGED <<all_clients, accepting, stop>>

\* The end of on(AppendEntriesRequest): the entries are appended, and the commit
\* index of the leader is passed on as it is.
FollowerAppends(new, commit_index) ==
    LET st == Store!StorageAppend(storage, new)
    IN  IF commit_index > st.commit.index
        THEN storage' = Store!CommitUntil(st, commit_index) /\ CommitAdvanced(storage', commit_index)
        ELSE storage' = st /\ UNCHANGED <<sessions, watermark>>

\* A request that passes the tests before it: it starts behind the commit mark
\* and within the log.
OnAppendEntriesRequest ==
    /\ \E first \in storage.commit.index + 1 .. storage.uncommit.index + 1,
          n \in 0 .. 2, t \in 1 .. MaxTerm, commit_index \in 0 .. MaxLog + 1 :
          /\ first + n - 1 <= MaxLog
          /\ first > 1 => t >= storage.entries[first - 1].term
          /\ FollowerAppends([k \in 1 .. n |-> Entry(first + k - 1, t)], commit_index)
    /\ UNCHANGED <<all_clients, accepting, stop>>

----------------------------------------------------------------------------
(* The server and its sessions *)

\* The callback of async_accept: with an error, accepting_client_session_ is
\* kept and do_accept_client returns at once.
Accept ==
    /\ accepting /\ ~stop
    /\ Len(sessions) < MaxClients /\ Cardinality(all_clients) < MaxTogether
    /\ \/ /\ sessions' = Append(sessions, Session)
          /\ all_clients' = all_clients \cup {Len(sessions) + 1}
          /\ UNCHANGED accepting
       \/ accepting' = FALSE /\ UNCHANGED <<sessions, all_clients>>
    /\ UNCHANGED <<stop, storage, watermark>>

\* process_client_message.  A request of the client goes to the raft server
\* (it answers nothing, and appends only as a leader: LeaderAppends).
ProcessClientMessage(o, c, name) ==
    CASE name = "ClientRequest" -> o
      [] name = "CurrentEntryRequest" ->
            ClientSend(o, c, [what |-> "current", info |-> storage.commit])
      [] OTHER -> Drop(o, c)

\* The messages of one read are all processed, also behind one that drops c.
Read(c) ==
    /\ sessions[c].reading /\ ~sessions[c].stop /\ Len(Sent(c, "current")) < MaxAnswers
    /\ \E names \in {<<"CurrentEntryRequest">>, <<"bad", "CurrentEntryRequest">>,
                     <<"ClientRequest", "CurrentEntryRequest">>} :
          LET Process(o, name) == ProcessClientMessage(o, c, name)
              o == FoldLeft(Process, Objects, names)
          IN  Becomes([o EXCEPT !.sessions[c].reading = ~o.sessions[c].stop])
    /\ UNCHANGED <<accepting, stop, storage, watermark>>

\* The client leaves.
Break(c) ==
    /\ ~sessions[c].cut
    /\ sessions' = [sessions EXCEPT ![c].cut = TRUE]
    /\ UNCHANGED <<all_clients, accepting, stop, storage, watermark>>

ReadFails(c) ==
    LET o == [Objects EXCEPT !.sessions[c].reading = FALSE, !.sessions[c].stop = TRUE]
    IN  /\ sessions[c].reading /\ sessions[c].cut
        /\ Becomes(IF sessions[c].writing THEN o ELSE Drop(o, c))
        /\ UNCHANGED <<accepting, stop, storage, watermark>>

\* The callback of async_write, of the last message of the queue
Written(c) ==
    /\ sessions[c].writing /\ ~sessions[c].stop
    /\ sessions' = [sessions EXCEPT ![c].writing = FALSE]
    /\ UNCHANGED <<all_clients, accepting, stop, storage, watermark>>

\* The callback with an error, or of a session that has been stopped meanwhile:
\* the queue is cleared.
WriteEnds(c) ==
    /\ sessions[c].writing /\ (sessions[c].stop \/ sessions[c].cut)
    /\ Becomes(Drop([Objects EXCEPT !.sessions[c].stop = TRUE, !.sessions[c].writing = FALSE], c))
    /\ UNCHANGED <<accepting, stop, storage, watermark>>

\* Server::stop
Stop ==
    /\ ~stop
    /\ stop' = TRUE /\ all_clients' = {}
    /\ sessions' = [c \in Clients |-> IF c \in all_clients
                      THEN [sessions[c] EXCEPT !.stop = TRUE, !.cut = TRUE] ELSE sessions[c]]
    /\ UNCHANGED <<accepting, storage, watermark>>

----------------------------------------------------------------------------
Init ==
    /\ sessions = <<>> /\ all_clients = {}
    /\ accepting = TRUE /\ stop = FALSE
    /\ storage = Store!NewStorage
    /\ watermark = 0

Next ==
    \/ \E t \in 1 .. MaxTerm : LeaderAppends(t)
    \/ \E k \in 1 .. storage.uncommit.index : LeaderCommits(k)
    \/ OnAppendEntriesRequest
    \/ Accept \/ Stop
    \/ \E c \in Clients : Read(c) \/ Break(c) \/ ReadFails(c) \/ Written(c) \/ WriteEnds(c)

\* Operations on a broken connection finish, and io_service calls their
\* callbacks.
Fairness == WF_vars(\E c \in Clients : ReadFails(c) \/ WriteEnds(c))

Spec == Init /\ [][Next]_vars /\ Fairness

----------------------------------------------------------------------------
(* Properties *)

\* What a client was told, as a committed entry or as the current one, is in
\* the committed log and stays there (commit_advanced behind commit_until;
\* mem_storage never replaces what is committed).
ToldIsCommitted ==
    \A c \in Clients : \A m \in ToSet(Stream(c)) :
        m.info = Store!NoEntry
        \/ /\ m.info.index <= storage.commit.index
           /\ m.info = Store!GetEntryInfo(storage, m.info.index)

\* A client is told of committed entries one by one: of none twice and in
\* order, and one that is missing was told as {0, 0} (the loop of
\* commit_advanced).  What it is told on request is never behind that.
ToldInOrder ==
    \A c \in Clients :
        LET news == Sent(c, "committed")
            stream == Stream(c)
        IN  /\ \A i, j \in DOMAIN news :
                  i < j /\ news[i].info.index > 0 /\ news[j].info.index > 0 =>
                     news[j].info.index - news[i].info.index = j - i
            /\ \A i, j \in DOMAIN stream :
                  i < j /\ stream[j].what = "current" => stream[i].info.index <= stream[j].info.index

\* Clients whose sessions have stopped leave all_clients_: again and again
\* there is none in it, so that commit_advanced does not move the watermark on
\* for clients that are gone (do_read, do_write, drop).
StoppedClientLeaves == []<>(\A c \in all_clients : ~sessions[c].stop)
============================================================================
