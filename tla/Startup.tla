------------------------------ MODULE Startup ------------------------------
(***************************************************************************)
(* Controller.cc: what applications register before the controller starts, *)
(* and the static transactions by which replies find the application that  *)
(* asked (OFTransaction.cc).                                               *)
(*                                                                         *)
(* A transaction is the place of its object in static_ofresponse; requests *)
(* and replies are those of one connection.  A transaction is a child of   *)
(* its application, which lives until the process exits, so what happens   *)
(* when one is destroyed (Controller.cc:946) is no step.                   *)
(***************************************************************************)
EXTENDS Naturals, Sequences, SequencesExt, FiniteSetsExt

CONSTANTS
    Handlers,     \* pairs of a handler's name and the application it is of
    Floods,       \* applications that register a flood implementation
    Configs,      \* values of "pipeline": sequences of names
    None,
    MaxCalls,     \* bound: registrations
    MaxRequests   \* bound: requests

VARIABLES
    config, handlers, flood, isFloodImplementation, handler_table,
    static_ofresponse,   \* transactions, in the order of their registration
    xids,                \* m_xid of the transactions
    min_session_xid, started,
    thrown,              \* by handlers.at
    pipeline_factory,
    requests,            \* sent and not answered: xid, and the transaction
    routed,              \* transactions that asked, with those that got the reply
    calls,               \* history: the registrations that were accepted
    count                \* requests so far

vars == <<config, handlers, flood, isFloodImplementation, handler_table, static_ofresponse, xids,
          min_session_xid, started, thrown, pipeline_factory, requests, routed, calls, count>>

min_xid == 4095

Init ==
    /\ config \in Configs
    /\ handlers = <<>>
    /\ flood = None /\ isFloodImplementation = FALSE
    /\ handler_table = 0
    /\ static_ofresponse = <<>> /\ xids = <<>>
    /\ min_session_xid = min_xid
    /\ started = FALSE /\ thrown = FALSE
    /\ pipeline_factory = <<>>
    /\ requests = {} /\ routed = {}
    /\ calls = <<>>
    /\ count = 0

----------------------------------------------------------------------------
(* Registration; a call after the start changes nothing, but for          *)
(* reserveTable, which does not test for it.                              *)

Accepted(call) ==
    /\ ~started
    /\ Len(calls) < MaxCalls
    /\ calls' = Append(calls, call)

RegisterHandler(name, app) ==
    /\ Accepted([call |-> "handler", name |-> name, app |-> app])
    /\ handlers' = [n \in DOMAIN handlers \cup {name} |-> IF n = name THEN app ELSE handlers[n]]
    /\ UNCHANGED <<config, flood, isFloodImplementation, handler_table, static_ofresponse, xids,
                   min_session_xid, started, thrown, pipeline_factory, requests, routed, count>>

\* The first one stays.
RegisterFlood(app) ==
    /\ Accepted([call |-> "flood", app |-> app])
    /\ isFloodImplementation' = TRUE
    /\ flood' = IF isFloodImplementation THEN flood ELSE app
    /\ UNCHANGED <<config, handlers, handler_table, static_ofresponse, xids, min_session_xid, started,
                   thrown, pipeline_factory, requests, routed, count>>

\* Mutant: the counter is incremented before it is read.
NewXidLate == [xid |-> min_session_xid + 1, next |-> min_session_xid + 1]

NewXid == [xid |-> min_session_xid, next |-> min_session_xid + 1]

RegisterStaticTransaction ==
    /\ Accepted([call |-> "transaction"])
    /\ xids' = Append(xids, NewXid.xid)
    /\ min_session_xid' = NewXid.next
    /\ static_ofresponse' = Append(static_ofresponse, Len(xids) + 1)
    /\ UNCHANGED <<config, handlers, flood, isFloodImplementation, handler_table, started, thrown,
                   pipeline_factory, requests, routed, count>>

ReserveTable ==
    /\ Len(calls) < MaxCalls
    /\ calls' = Append(calls, [call |-> "table", number |-> handler_table])
    /\ handler_table' = (handler_table + 1) % 256
    /\ UNCHANGED <<config, handlers, flood, isFloodImplementation, static_ofresponse, xids,
                   min_session_xid, started, thrown, pipeline_factory, requests, routed, count>>

\* Names that no application has registered make handlers.at throw, after
\* the names before them.
StartUp ==
    /\ ~started
    /\ LET unknown == {i \in DOMAIN config : config[i] \notin DOMAIN handlers}
           placed == IF unknown = {} THEN Len(config) ELSE Min(unknown) - 1
       IN  /\ pipeline_factory' = [i \in 1 .. placed |-> <<config[i], handlers[config[i]]>>]
           /\ thrown' = (unknown # {})
           /\ started' = (unknown = {})
           /\ flood' = IF unknown = {} /\ ~isFloodImplementation THEN "default" ELSE flood
    /\ UNCHANGED <<config, handlers, isFloodImplementation, handler_table, static_ofresponse, xids,
                   min_session_xid, requests, routed, calls, count>>

----------------------------------------------------------------------------
(* Requests and replies *)

Sent(request) ==
    /\ started
    /\ count < MaxRequests
    /\ count' = count + 1
    /\ requests' = requests \cup {request}
    /\ UNCHANGED <<config, handlers, flood, isFloodImplementation, handler_table, static_ofresponse, xids,
                   min_session_xid, started, thrown, pipeline_factory, routed, calls>>

\* OFTransaction::request
Request(t) == Sent([xid |-> xids[t], by |-> t])

\* A message that no transaction sends, with an xid of the OpenFlow library
SendPlain == Sent([xid |-> 0, by |-> None])

\* message_callback: a reply or an error
MessageCallback(request) ==
    /\ requests' = requests \ {request}
    /\ LET xid == request.xid
           to == IF xid < min_xid \/ xid >= min_session_xid THEN None
                 ELSE static_ofresponse[xid - min_xid + 1]
       IN  routed' = routed \cup {<<request.by, to>>}
    /\ UNCHANGED <<config, handlers, flood, isFloodImplementation, handler_table, static_ofresponse, xids,
                   min_session_xid, started, thrown, pipeline_factory, calls, count>>

Next ==
    /\ ~thrown
    /\ \/ \E h \in Handlers : RegisterHandler(h[1], h[2])
       \/ \E app \in Floods : RegisterFlood(app)
       \/ RegisterStaticTransaction
       \/ ReserveTable
       \/ StartUp
       \/ \E t \in DOMAIN xids : Request(t)
       \/ SendPlain
       \/ \E request \in requests : MessageCallback(request)

----------------------------------------------------------------------------
(* Properties *)

\* A reply is told to the transaction that sent the request, and to none if
\* there was none (message_callback of Controller.cc), for any order of the
\* registrations.
RepliesReachOwner == \A r \in routed : r[1] = r[2]

LastOf(name) == Max({i \in DOMAIN calls : calls[i].call = "handler" /\ calls[i].name = name})
FloodCalls == SelectSeq(calls, LAMBDA c : c.call = "flood")

\* A started controller has the configured pipeline with the handlers that
\* were registered last, the flood that was registered first, and its own table
\* behind the reserved ones (Controller::startUp, reserveTable); one that
\* was configured with a name nobody registered does not start.
StartedAsRegistered ==
    started =>
       /\ Len(pipeline_factory) = Len(config)
       /\ \A i \in DOMAIN config :
             pipeline_factory[i] = <<config[i], calls[LastOf(config[i])].app>>
       /\ flood = IF FloodCalls = <<>> THEN "default" ELSE FloodCalls[1].app
       /\ \A i, j \in DOMAIN calls :
             calls[i].call = "table" /\ calls[j].call = "table" /\ i < j => calls[i].number < calls[j].number
       /\ \A i \in DOMAIN calls : calls[i].call = "table" => calls[i].number < handler_table
=============================================================================
