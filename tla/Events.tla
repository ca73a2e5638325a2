------------------------------- MODULE Events -------------------------------
(***************************************************************************)
(* The event model of the REST interface: Event.cc, RestHandler::addEvent  *)
(* (Rest.hh) and the registration and the timeout resource of              *)
(* RestListener.cc.                                                        *)
(*                                                                         *)
(* A hash is the set of its bits.  An object is its kind and a number that *)
(* stands for its address; brother is the id of the other event of the     *)
(* object, or 0 for a null pointer.  An event is added in three steps,     *)
(* which the threads of Services take: its id is the read of last_event    *)
(* plus one, that is written back, and the event is put into the list.     *)
(***************************************************************************)
EXTENDS Naturals, Sequences, SequencesExt

CONSTANT HashBits   \* width of RestHandler::_hash

Event == [id : Nat, type : {"Add", "Delete"}, obj : STRING \X Nat,
          hash : SUBSET Nat, brother : Nat]

NoEvents == [events |-> <<>>, last_event |-> 0]

\* cur_hash *= 2
Doubled(hash) == {b + 1 : b \in hash} \cap 0 .. HashBits - 1

\* RestListener::registerRestHandler for eventable applications, in the order
\* in which they are initialized.
Hashes(apps) ==
    LET h[i \in 1 .. Len(apps)] == IF i = 1 THEN {0} \cap 0 .. HashBits - 1 ELSE Doubled(h[i - 1])
    IN  [app \in ToSet(apps) |-> h[CHOOSE i \in DOMAIN apps : apps[i] = app]]

\* What an application has to add: addEvent of Rest.hh
Addition(type, obj, hash) == [op |-> "event", type |-> type, obj |-> obj, hash |-> hash]

\* findBrother: the Adds of the object, of which the last one is meant
Brothers(em, obj) == {i \in DOMAIN em.events : em.events[i].obj = obj /\ em.events[i].type = "Add"}

\* setBrother follows a null pointer.
NoBrother(em, add) == add.type = "Delete" /\ Brothers(em, add.obj) = {}

\* The end of addToEventList, for an event with this id: setBrother and
\* push_back.  An answer between the two shows neither the Add nor the Delete.
Pushed(em, id, add) ==
    LET b == Max(Brothers(em, add.obj))
        new == [id |-> id, type |-> add.type, obj |-> add.obj, hash |-> add.hash,
                brother |-> IF add.type = "Add" THEN 0 ELSE em.events[b].id]
        old == IF add.type = "Add" THEN em.events ELSE [em.events EXCEPT ![b].brother = id]
    IN  [em EXCEPT !.events = Append(old, new)]

\* Mutant: the Delete of what the last answer showed is taken for seen.
CheckOverlapStrict(ev, last) ==
    \/ ev.type = "Add" /\ ev.brother # 0
    \/ ev.type = "Delete" /\ ev.brother >= last

\* TRUE: there is no need to show the event
CheckOverlap(ev, last) ==
    \/ ev.type = "Add" /\ ev.brother # 0
    \/ ev.type = "Delete" /\ ev.brother > last

\* EventManager::timeout
Timeout(em, map, last) ==
    LET Shows(ev) == ev.hash \cap map # {} /\ ev.id > last /\ ~CheckOverlap(ev, last)
        shown == SelectSeq(em.events, Shows)
    IN  [events |-> shown,
         last |-> IF shown = <<>> THEN last ELSE Max({shown[i].id : i \in DOMAIN shown})]
=============================================================================
