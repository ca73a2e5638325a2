--------------------------- MODULE RestMultipart ---------------------------
(***************************************************************************)
(* RestMultipart.cc: a GET of statistics, or a POST with a filter, sends a *)
(* multipart request and waits in a local event loop until onResponse, in  *)
(* the applications' thread, has stored the answer and signalled.          *)
(*                                                                         *)
(* The thread of the HTTP server handles one request at a time.  The       *)
(* switch is external: it answers in one message, or with an error, or its *)
(* connection is lost.  Kinds of statistics are the multipart types.       *)
(***************************************************************************)
EXTENDS Naturals, Sequences

CONSTANTS
    Dpids,      \* switches that are asked for
    Kinds,      \* multipart types
    PostKinds,  \* those with a filter
    None,       \* nothing asked or answered
    MaxGets     \* bound: requests that are handled

VARIABLES
    get,        \* the request that is handled, or None
    pc,         \* where handleGET or handlePOST is: idle, connected, sent, waiting
    open,       \* switches with a connection
    known,      \* switches the switch manager knows; it forgets none
    asked,      \* requests that switches have
    queue,      \* answers queued for the applications' thread
    response,   \* responseFlow_, responsePort_, ...: the request it answers
    quit,       \* QEventLoop::quit is queued for the loop of this request
    answered,   \* the last answer to the client: [get, refused, with]
    lost,       \* the request or its answer was lost (history)
    gets

vars == <<get, pc, open, known, asked, queue, response, quit, answered, lost, gets>>

\* valid: the body is JSON, and numbers of the path and of the body can be read
Request ==
    [method : {"GET"}, kind : Kinds, dpid : Dpids, valid : BOOLEAN]
      \cup [method : {"POST"}, kind : PostKinds, dpid : Dpids, valid : BOOLEAN]

Init ==
    /\ get = None /\ pc = "idle"
    /\ open = {} /\ known = {}
    /\ asked = {}
    /\ queue = <<>>
    /\ response = [k \in Kinds |-> None]
    /\ quit = FALSE
    /\ answered = None
    /\ lost = FALSE
    /\ gets = 0

\* handleGET (or handlePOST) creates the event loop and connects the signal to it ...
Begin(r) ==
    /\ pc = "idle"
    /\ gets < MaxGets
    /\ gets' = gets + 1
    /\ get' = r
    /\ pc' = "connected"
    /\ quit' = FALSE
    /\ lost' = FALSE
    /\ UNCHANGED <<open, known, asked, queue, response, answered>>

\* ... sends the request, which is lost when the connection is not alive ...
SendGetRequest ==
    /\ pc = "connected" /\ get.method = "GET"
    /\ get.valid /\ get.dpid \in known
    /\ asked' = IF get.dpid \in open THEN asked \cup {get} ELSE asked
    /\ lost' = (get.dpid \notin open)
    /\ pc' = "sent"
    /\ UNCHANGED <<get, open, known, queue, response, quit, answered, gets>>

\* ... or the request with its filter (RestFlow!FilterInfo, ProcessFilter) ...
SendPostRequest ==
    /\ pc = "connected" /\ get.method = "POST"
    /\ get.valid /\ get.dpid \in known
    /\ asked' = IF get.dpid \in open THEN asked \cup {get} ELSE asked
    /\ lost' = (get.dpid \notin open)
    /\ pc' = "sent"
    /\ UNCHANGED <<get, open, known, queue, response, quit, answered, gets>>

\* ... or catches an exception and answers that the request is wrong ...
Refuse ==
    /\ pc = "connected"
    /\ ~get.valid \/ get.dpid \notin known
    /\ answered' = [get |-> get, refused |-> TRUE, with |-> None]
    /\ pc' = "idle"
    /\ get' = None
    /\ quit' = FALSE
    /\ UNCHANGED <<open, known, asked, queue, response, lost, gets>>

\* ... runs the event loop ...
Exec ==
    /\ pc = "sent"
    /\ pc' = "waiting"
    /\ UNCHANGED <<get, open, known, asked, queue, response, quit, answered, lost, gets>>

\* Mutant: handleGET does not wait.
FinishAtOnce ==
    /\ pc = "waiting"
    /\ answered' = [get |-> get, refused |-> FALSE, with |-> response[get.kind]]
    /\ pc' = "idle"
    /\ get' = None
    /\ quit' = FALSE
    /\ UNCHANGED <<open, known, asked, queue, response, lost, gets>>

\* ... and leaves exec() with what is stored then.
Finish ==
    /\ pc = "waiting"
    /\ quit
    /\ answered' = [get |-> get, refused |-> FALSE, with |-> response[get.kind]]
    /\ pc' = "idle"
    /\ get' = None
    /\ quit' = FALSE
    /\ UNCHANGED <<open, known, asked, queue, response, lost, gets>>

Reply(r) ==
    /\ r \in asked
    /\ asked' = asked \ {r}
    /\ queue' = Append(queue, r)
    /\ UNCHANGED <<get, pc, open, known, response, quit, answered, lost, gets>>

\* OFTransaction::error, which has no receiver
ReplyError(r) ==
    /\ r \in asked
    /\ asked' = asked \ {r}
    /\ lost' = TRUE
    /\ UNCHANGED <<get, pc, open, known, queue, response, quit, answered, gets>>

Disconnect(d) ==
    /\ d \in open
    /\ open' = open \ {d}
    /\ asked' = {r \in asked : r.dpid # d}
    /\ lost' = (lost \/ asked' # asked)
    /\ UNCHANGED <<get, pc, known, queue, response, quit, answered, gets>>

Connect(d) ==
    /\ d \notin open
    /\ open' = open \cup {d}
    /\ UNCHANGED <<get, pc, known, asked, queue, response, quit, answered, lost, gets>>

\* SwitchManager::onSwitchUp
Discover(d) ==
    /\ d \in open \ known
    /\ known' = known \cup {d}
    /\ UNCHANGED <<get, pc, open, asked, queue, response, quit, answered, lost, gets>>

\* Mutant: the signal is connected after the request was sent.
ConnectedLate == pc = "waiting"

\* handleGET is between its connect and its return
Connected == pc \in {"connected", "sent", "waiting"}

\* onResponse stores the answer by its type and emits ResponseHandlingFinished.
OnResponse ==
    /\ queue # <<>>
    /\ response' = [response EXCEPT ![Head(queue).kind] = Head(queue)]
    /\ quit' = (quit \/ Connected)
    /\ queue' = Tail(queue)
    /\ UNCHANGED <<get, pc, open, known, asked, answered, lost, gets>>

Run ==
    \/ SendGetRequest \/ SendPostRequest \/ Refuse \/ Exec \/ Finish \/ OnResponse
    \/ \E r \in Request : Reply(r) \/ ReplyError(r)

Next ==
    \/ Run
    \/ \E r \in Request : Begin(r)
    \/ \E d \in Dpids : Connect(d) \/ Disconnect(d) \/ Discover(d)

\* The two threads run, and a switch answers as long as its connection is open.
Fairness == WF_vars(Run)

Spec == Init /\ [][Next]_vars /\ Fairness

----------------------------------------------------------------------------

\* The client is told the statistics it asked for, of the switch, the kind and
\* the filter of its own request, whatever was asked before
\* (RestMultipart.hh:36): each answer is stored in one place that all requests
\* of a kind share.  Or it is told that the request is wrong.
AnswerIsOwn == answered = None \/ answered.refused \/ answered.with = answered.get

\* handleGET is woken up by the response (RestMultipart.hh:44): a request that
\* is not lost, nor its answer, ends, also when the response is handled before
\* the event loop runs.
GetEnds == (pc \in {"connected", "sent"}) ~> (pc = "idle" \/ lost)
=============================================================================
