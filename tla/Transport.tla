----------------------------- MODULE Transport -----------------------------
(***************************************************************************)
(* Sessions between raft servers: raft/asio_tcp_server.cpp,                *)
(* raft/asio_tcp_session.cpp and the reading side of                       *)
(* raft/simple_message_processor.cpp.                                      *)
(*                                                                         *)
(* A connection is opened by one server ("out" end) and accepted by        *)
(* another ("in" end); each end has a Session object.  The raft server is  *)
(* the environment: it sends at any time, and may drop the sender of any   *)
(* message it gets.  TCP is external: bytes arrive in order; a connection  *)
(* may break at any time, and then bytes still under way arrive or not.    *)
(* asio calls the callback of every operation once.                        *)
(*                                                                         *)
(* The bytes of message n are two pieces, <<n, "text">> and <<n, "\n">>: a *)
(* read or a failing write may stop between them.                          *)
(***************************************************************************)
EXTENDS Naturals, Sequences, SequencesExt, FiniteSets

CONSTANTS
    Server,          \* ids of the servers, known to each other
    Budgets,         \* bound: how many messages are sent, by <<from, to>>
    MaxConnections   \* bound: connections opened

VARIABLES
    conns,     \* connections: from, to, first message, accepted, state
    sessions,  \* Session objects by end
    peers,     \* peers_ of every server, a sequence of ends
    next_id,   \* next_id_ of every server
    wire,      \* pieces that have not been read yet, by reading end
    sent,      \* number of messages sent
    budget,    \* of messages that are not sent yet
    written,   \* history: messages given to Session::send, by sending end
    handed     \* history: messages handed to the raft server, by reading end

vars == <<conns, sessions, peers, next_id, wire, sent, budget, written, handed>>

Ends == (1 .. MaxConnections) \X {"out", "in"}
Other(e) == <<e[1], IF e[2] = "out" THEN "in" ELSE "out">>
Message == [num : 1 .. sent, peer_id : Server]

----------------------------------------------------------------------------
(* The objects that callbacks change, as one record o: sessions, peers,    *)
(* conns, written, handed.                                                 *)

Objects == [sessions |-> sessions, peers |-> peers, conns |-> conns,
            written |-> written, handed |-> handed]

Becomes(new) ==
    \E o \in {new} :
        /\ sessions' = o.sessions /\ peers' = o.peers /\ conns' = o.conns
        /\ written' = o.written /\ handed' = o.handed

Session(owner, id) ==
    [owner |-> owner, id |-> id, stop |-> TRUE, write_queue |-> <<>>, writing |-> FALSE,
     reading |-> FALSE, incomplete |-> <<>>]

NoSession == "none"

Start(o, e) ==
    [o EXCEPT !.sessions[e].stop = FALSE, !.sessions[e].reading = TRUE,
              !.peers[o.sessions[e].owner] = Append(@, e)]

\* Session::send.  do_write is pending from the first message on.
SessionSend(o, e, m) ==
    IF o.sessions[e].stop THEN o
    ELSE [o EXCEPT !.sessions[e].write_queue = Append(@, m),
                   !.sessions[e].writing = TRUE,
                   !.written[e] = Append(@, m)]

\* Server::drop: all sessions with an id leave peers_ (stop_and_close).
Drop(o, s, id) ==
    LET Has(e) == o.sessions[e].owner = s /\ o.sessions[e].id = id
        dropped == {e \in ToSet(o.peers[s]) : Has(e)}
    IN  [o EXCEPT !.sessions = [e \in DOMAIN @ |-> IF e \in dropped
                                   THEN [@[e] EXCEPT !.stop = TRUE] ELSE @[e]],
                  !.conns = [c \in DOMAIN @ |-> IF \E e \in dropped : e[1] = c
                                   THEN [@[c] EXCEPT !.state = "cut"] ELSE @[c]],
                  !.peers[s] = SelectSeq(@, LAMBDA e : ~Has(e))]

\* Mutant: every session that has no peer's id yet is identified.
IdentifyAll(o, e, peer_id) ==
    LET s == o.sessions[e].owner
        hits == {f \in ToSet(o.peers[s]) : o.sessions[f].id \notin Server}
    IN  [count |-> 1,
         o |-> [o EXCEPT !.sessions = [f \in DOMAIN @ |->
                   IF f \in hits THEN [@[f] EXCEPT !.id = peer_id] ELSE @[f]]]]

\* Server::identify for the session at end e.  temp_id is a reference to the
\* id that the loop over peers_ changes: behind the session itself, the loop
\* compares with the new id.
Identify(o, e, peer_id) ==
    LET s == o.sessions[e].owner
        temp == o.sessions[e].id
        own == {i \in DOMAIN o.peers[s] : o.peers[s][i] = e}
        Hit(i) == \/ i \in own
                  \/ /\ o.sessions[o.peers[s][i]].id = peer_id
                     /\ \E j \in own : j < i
        hits == {i \in DOMAIN o.peers[s] : Hit(i)}
    IN  [count |-> Cardinality(hits),
         o |-> IF own = {} THEN o ELSE [o EXCEPT !.sessions[e].id = peer_id]]

\* process_impl: the message is handed to the raft server, or the peer it
\* names is dropped.  m.peer_id is in the configuration.  reject: the raft
\* server answers by dropping the peer.
ProcessImpl(o, e, m, reject) ==
    LET s == o.sessions[e].owner
        known == o.sessions[e].id = m.peer_id
        identified == Identify(o, e, m.peer_id)
        on == [(IF known THEN o ELSE identified.o) EXCEPT !.handed[e] = Append(@, m)]
    IN  IF ~known /\ identified.count # 1 THEN Drop(identified.o, s, m.peer_id)
        ELSE IF m \in reject THEN Drop(on, s, m.peer_id)
        ELSE on

----------------------------------------------------------------------------
(* newline_tokenizer *)

Newline(piece) == piece[2] = "\n"

LastNewline(bytes) ==
    LET ends == {i \in DOMAIN bytes : Newline(bytes[i])}
    IN  IF ends = {} THEN 0 ELSE CHOOSE i \in ends : \A j \in ends : j <= i

\* A message is what its text says.
Messages(bytes) ==
    LET text == SelectSeq(bytes, LAMBDA b : ~Newline(b))
    IN  [i \in DOMAIN text |-> text[i][1]]

\* Mutant: bytes behind the last newline are lost.
TokenizeWhole(incomplete, pieces) ==
    [messages |-> Messages(SubSeq(pieces, 1, LastNewline(pieces))), incomplete |-> <<>>]

\* Complete messages of the bytes so far, and the bytes behind the last newline.
Tokenize(incomplete, pieces) ==
    LET bytes == incomplete \o pieces
        last == LastNewline(bytes)
    IN  [messages |-> Messages(SubSeq(bytes, 1, last)),
         incomplete |-> SubSeq(bytes, last + 1, Len(bytes))]

Bytes(m) == <<<<m, "text">>, <<m, "\n">>>>

----------------------------------------------------------------------------
(* The raft server sends: session_send *)

OpenConnection(s, d, m) ==
    /\ Len(conns) < MaxConnections
    /\ conns' = Append(conns, [from |-> s, to |-> d, first |-> m, accepted |-> FALSE,
                               connected |-> FALSE, state |-> "up"])
    /\ sessions' = [sessions EXCEPT ![<<Len(conns) + 1, "out">>] = Session(s, d)]
    /\ UNCHANGED <<peers, written, handed>>

Send(s, d) ==
    LET m == [num |-> sent + 1, peer_id |-> s]
        found == SelectSeq(peers[s], LAMBDA e : sessions[e].id = d)
    IN  /\ budget[<<s, d>>] > 0
        /\ budget' = [budget EXCEPT ![<<s, d>>] = @ - 1]
        /\ sent' = sent + 1
        /\ IF found = <<>> THEN OpenConnection(s, d, m)
           ELSE Becomes(SessionSend(Objects, found[1], m))
        /\ UNCHANGED <<next_id, wire>>

\* The callback of async_connect
Connected(c) ==
    LET e == <<c, "out">>
        up == [Objects EXCEPT !.conns[c].connected = TRUE]
    IN  /\ conns[c].state # "refused" /\ ~conns[c].connected
        /\ Becomes(SessionSend(Start(up, e), e, conns[c].first))
        /\ UNCHANGED <<next_id, wire, sent, budget>>

ConnectFails(c) ==
    /\ conns[c].state = "up" /\ ~conns[c].connected /\ ~conns[c].accepted
    /\ conns' = [conns EXCEPT ![c].state = "refused"]
    /\ UNCHANGED <<sessions, peers, next_id, wire, sent, budget, written, handed>>

\* The callback of async_accept
Accept(c) ==
    LET e == <<c, "in">>
        s == conns[c].to
        up == [Objects EXCEPT !.conns[c].accepted = TRUE,
                              !.sessions[e] = Session(s, next_id[s] + 1)]
    IN  /\ conns[c].state # "refused" /\ ~conns[c].accepted
        /\ Becomes(Start(up, e))
        /\ next_id' = [next_id EXCEPT ![s] = @ + 1]
        /\ UNCHANGED <<wire, sent, budget>>

\* The network breaks a connection.
Break(c) ==
    /\ conns[c].state = "up"
    /\ conns' = [conns EXCEPT ![c].state = "cut"]
    /\ UNCHANGED <<sessions, peers, next_id, wire, sent, budget, written, handed>>

----------------------------------------------------------------------------
(* Callbacks of a session *)

Cut(e) == conns[e[1]].state = "cut"

\* async_read_some gives the next n pieces.
Read(e, n) ==
    LET read == Tokenize(sessions[e].incomplete, SubSeq(wire[e], 1, n))
        kept == [Objects EXCEPT !.sessions[e].incomplete = read.incomplete]
    IN  /\ sessions[e].reading /\ ~sessions[e].stop
        /\ \E reject \in SUBSET ToSet(read.messages) :
             LET Process(o, m) == ProcessImpl(o, e, m, reject)
                 o == FoldLeft(Process, kept, read.messages)
             IN  Becomes([o EXCEPT !.sessions[e].reading = ~o.sessions[e].stop])
        /\ wire' = [wire EXCEPT ![e] = SubSeq(@, n + 1, Len(@))]
        /\ UNCHANGED <<next_id, sent, budget>>

\* Mutant: the drop is always left to the callback of a write.
ReadFailsKeepsSession(e) ==
    /\ sessions[e].reading
    /\ Cut(e)
    /\ Becomes([Objects EXCEPT !.sessions[e].stop = TRUE, !.sessions[e].reading = FALSE])
    /\ UNCHANGED <<next_id, wire, sent, budget>>

ReadFails(e) ==
    LET o == [Objects EXCEPT !.sessions[e].stop = TRUE, !.sessions[e].reading = FALSE]
    IN  /\ sessions[e].reading
        /\ Cut(e)
        /\ Becomes(IF sessions[e].write_queue = <<>>
                   THEN Drop(o, sessions[e].owner, sessions[e].id) ELSE o)
        /\ UNCHANGED <<next_id, wire, sent, budget>>

\* Mutant: the next message waits for the next call of send.
WrittenOnce(e) ==
    /\ sessions[e].writing /\ ~sessions[e].stop
    /\ wire' = [wire EXCEPT ![Other(e)] = @ \o Bytes(Head(sessions[e].write_queue))]
    /\ sessions' = [sessions EXCEPT ![e].write_queue = Tail(@), ![e].writing = FALSE]
    /\ UNCHANGED <<conns, peers, next_id, sent, budget, written, handed>>

Written(e) ==
    /\ sessions[e].writing /\ ~sessions[e].stop
    /\ wire' = [wire EXCEPT ![Other(e)] = @ \o Bytes(Head(sessions[e].write_queue))]
    /\ sessions' = [sessions EXCEPT ![e].write_queue = Tail(@),
                                    ![e].writing = Tail(sessions[e].write_queue) # <<>>]
    /\ UNCHANGED <<conns, peers, next_id, sent, budget, written, handed>>

\* n pieces of the message have been sent.
WriteFails(e, n) ==
    LET o == [Objects EXCEPT !.sessions[e].stop = TRUE, !.sessions[e].writing = FALSE,
                             !.sessions[e].write_queue = <<>>]
        m == Head(sessions[e].write_queue)
    IN  /\ sessions[e].writing
        /\ Cut(e)
        /\ wire' = [wire EXCEPT ![Other(e)] = @ \o SubSeq(Bytes(m), 1, n)]
        /\ Becomes(Drop(o, sessions[e].owner, sessions[e].id))
        /\ UNCHANGED <<next_id, sent, budget>>

----------------------------------------------------------------------------
Init ==
    /\ conns = <<>>
    /\ sessions = [e \in Ends |-> Session(NoSession, NoSession)]
    /\ peers = [s \in Server |-> <<>>]
    /\ next_id = [s \in Server |-> 0]
    /\ wire = [e \in Ends |-> <<>>]
    /\ sent = 0
    /\ budget \in Budgets
    /\ written = [e \in Ends |-> <<>>]
    /\ handed = [e \in Ends |-> <<>>]

Callbacks(e) ==
    \/ \E n \in 1 .. Len(wire[e]) : Read(e, n)
    \/ ReadFails(e)
    \/ Written(e)
    \/ \E n \in 0 .. 2 : WriteFails(e, n)

Next ==
    \/ \E r \in DOMAIN budget : Send(r[1], r[2])
    \/ \E c \in DOMAIN conns : Connected(c) \/ ConnectFails(c) \/ Accept(c) \/ Break(c)
    \/ \E e \in Ends : Callbacks(e)

\* io_service::run goes on calling callbacks of operations that have finished,
\* and an operation on a broken connection finishes.
Failing == \E e \in Ends : ReadFails(e) \/ \E n \in 0 .. 2 : WriteFails(e, n)

Fairness == WF_vars(Failing)

Spec == Init /\ [][Next]_vars /\ Fairness

----------------------------------------------------------------------------
(* Properties *)

\* Types; no two sessions of a server have one temporary id.
TypeOK ==
    /\ \A s \in Server : ToSet(peers[s]) \subseteq Ends /\ IsInjective(peers[s])
    /\ \A s \in Server : \A e, f \in ToSet(peers[s]) :
          sessions[e].id = sessions[f].id => e = f \/ sessions[e].id \in Server
    /\ \A e \in Ends : /\ ToSet(sessions[e].write_queue) \subseteq Message
                       /\ {sessions[e].stop, sessions[e].writing, sessions[e].reading} \subseteq BOOLEAN
    /\ \A s \in Server : \A i \in DOMAIN peers[s] : sessions[peers[s][i]].owner = s

\* A message in a write queue has a write in progress: no message waits for
\* ever in a session that is not writing (Session::send, do_write).
QueueIsWritten ==
    \A e \in Ends : sessions[e].write_queue # <<>> => sessions[e].writing

\* The id of a session in peers_ is that of the server at the other end, or a
\* temporary one: nothing for one server is sent to another, and what is
\* handed to the raft server was sent by the server it names (identify).
IdentifiedByPeer ==
    \A s \in Server, e \in Ends :
        /\ e \in ToSet(peers[s]) /\ sessions[e].id \in Server =>
              sessions[e].id = (IF e[2] = "out" THEN conns[e[1]].to ELSE conns[e[1]].from)
        /\ \A i \in DOMAIN handed[e] : handed[e][i] \in ToSet(written[Other(e)])

\* A session hands over what was sent to it in order, nothing twice and
\* nothing that was cut off; and leaves nothing out before it is closed
\* (newline_tokenizer, process_read).
HandedInOrder ==
    \A e \in Ends :
        /\ \A i, j \in DOMAIN handed[e] : i < j => handed[e][i].num < handed[e][j].num
        /\ ~sessions[e].stop => IsPrefix(handed[e], written[Other(e)])

\* Sessions that have stopped leave peers_: again and again there is none in it.
\* So a later message opens a new connection instead of being dropped by
\* Session::send.
StoppedLeaves == []<>(\A s \in Server : \A e \in ToSet(peers[s]) : ~sessions[e].stop)

============================================================================
