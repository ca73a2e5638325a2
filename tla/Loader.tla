------------------------------- MODULE Loader -------------------------------
(***************************************************************************)
(* Loader.cc: the applications of the configured services are initialized  *)
(* after what they depend on, each in its thread, and then started.        *)
(*                                                                         *)
(* The loader waits for every init and startUp (a mutex that the thread of *)
(* the application unlocks), so that loading is sequential.  LOG(FATAL)    *)
(* ends the process.                                                       *)
(***************************************************************************)
EXTENDS Naturals, Sequences, SequencesExt, Relation

\* The loader before startAll; AppInfo::state is that of every registered
\* application, order the calls of init.
Registered(apps) ==
    [state |-> [a \in apps |-> "registered"], order |-> <<>>, last_thread |-> 0,
     thread |-> [a \in apps |-> 0], started |-> {}, found |-> TRUE, fatal |-> FALSE]

\* The thread an application is moved to: the pinned one, if it exists, or the
\* next one.
MoveToThread(l, a, config) ==
    IF config.pin[a] \in 0 .. config.threads - 1
    THEN [l EXCEPT !.thread[a] = config.pin[a]]
    ELSE [l EXCEPT !.thread[a] = l.last_thread,
                   !.last_thread = IF @ + 1 = config.threads THEN 0 ELSE @ + 1]

RECURSIVE Initialize(_, _, _)

\* Mutant: a dependency that is being initialized is taken for ready.
InitializeInCycles(l, a, config) ==
    IF a \notin DOMAIN l.state THEN [l EXCEPT !.found = FALSE]
    ELSE IF l.state[a] # "registered" THEN l
    ELSE LET Depend(acc, d) ==
                 IF acc.fatal \/ ~acc.found THEN acc ELSE Initialize(acc, d, config)
             deps == FoldLeft(Depend, [l EXCEPT !.state[a] = "initializing"], config.depends[a])
         IN  IF deps.fatal \/ ~deps.found THEN deps
             ELSE [MoveToThread(deps, a, config) EXCEPT !.state[a] = "initialized",
                                                        !.order = Append(@, a)]

\* LoaderImpl::initialize.  found is FALSE when it returns a null pointer: an
\* application, or one that it depends on, is not registered.  The state of the
\* application then stays APP_INITIALIZING.
Initialize(l, a, config) ==
    IF a \notin DOMAIN l.state THEN [l EXCEPT !.found = FALSE]
    ELSE IF l.state[a] # "registered" THEN l
    ELSE LET Depend(acc, d) ==
                 IF acc.fatal \/ ~acc.found THEN acc
                 ELSE LET done == Initialize(acc, d, config)
                      IN  IF done.found /\ done.state[d] = "initializing"
                          THEN [done EXCEPT !.fatal = TRUE]
                          ELSE done
             deps == FoldLeft(Depend, [l EXCEPT !.state[a] = "initializing"], config.depends[a])
         IN  IF deps.fatal \/ ~deps.found THEN deps
             ELSE [MoveToThread(deps, a, config) EXCEPT !.state[a] = "initialized",
                                                        !.order = Append(@, a)]

\* Loader::startAll
StartAll(config) ==
    LET Service(acc, s) ==
            IF acc.fatal THEN acc ELSE Initialize([acc EXCEPT !.found = TRUE], s, config)
        l == FoldLeft(Service, Registered(DOMAIN config.depends), config.services)
        ready == {a \in DOMAIN l.state : l.state[a] = "initialized"}
    IN  IF l.fatal THEN l
        ELSE [l EXCEPT !.started = ready,
                       !.state = [a \in DOMAIN @ |-> IF a \in ready THEN "started" ELSE @[a]]]

----------------------------------------------------------------------------
(* What loading is to achieve                                              *)

DependsOn(config) ==
    LET apps == DOMAIN config.depends
    IN  [p \in apps \X apps |-> p[2] \in ToSet(config.depends[p[1]])]

\* Applications are initialized once, and after all they depend on ("all
\* dependencies are ready to start", Application.hh); if the services need no
\* unknown application, the process ends exactly when they need a cycle, and
\* otherwise what they need is started and nothing else.
LoadedInOrder(config, l) ==
    LET apps == DOMAIN config.depends
        roots == ToSet(config.services)
        above == TransitiveClosure(DependsOn(config), apps)
        needed == roots \cup {a \in apps : \E s \in roots \cap apps : above[s, a]}
        complete == roots \subseteq apps /\ \A a \in needed : ToSet(config.depends[a]) \subseteq apps
    IN  /\ \A i \in DOMAIN l.order :
              /\ ToSet(config.depends[l.order[i]]) \subseteq ToSet(SubSeq(l.order, 1, i - 1))
              /\ \A j \in 1 .. i - 1 : l.order[j] # l.order[i]
        /\ complete => /\ l.fatal <=> \E a \in needed : above[a, a]
                       /\ l.fatal \/ l.started = needed
=============================================================================
