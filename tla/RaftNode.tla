------------------------------ MODULE RaftNode ------------------------------
(***************************************************************************)
(* What every raft server promises on its own, whatever the messages it    *)
(* gets: its term never decreases, it votes for at most one server in a    *)
(* term, and the entries it has committed are immutable (raft_storage.hpp, *)
(* "You must keep a log of entries. Once committed, they are immutable").  *)
(* A crash forgets everything, because MemStorage does not read its        *)
(* journal back.                                                           *)
(***************************************************************************)
EXTENDS Integers, Sequences

CONSTANTS Server, NoServer

VARIABLES term, vote, committed

nodeVars == <<term, vote, committed>>

NodeInit ==
  /\ term = [i \in Server |-> 0]
  /\ vote = [i \in Server |-> NoServer]
  /\ committed = [i \in Server |-> << >>]

IsExtension(s, t) == Len(s) <= Len(t) /\ SubSeq(t, 1, Len(s)) = s

Advance(i) ==
  /\ \A k \in Server \ {i} : /\ term'[k] = term[k]
                             /\ vote'[k] = vote[k]
                             /\ committed'[k] = committed[k]
  /\ term'[i] >= term[i]
  /\ term'[i] = term[i] /\ vote[i] # NoServer => vote'[i] = vote[i]
  /\ IsExtension(committed[i], committed'[i])

Forget(i) ==
  /\ term' = [term EXCEPT ![i] = 0]
  /\ vote' = [vote EXCEPT ![i] = NoServer]
  /\ committed' = [committed EXCEPT ![i] = << >>]

NodeNext == \E i \in Server : Advance(i) \/ Forget(i)

NodeSpec == NodeInit /\ [][NodeNext]_nodeVars
=============================================================================
