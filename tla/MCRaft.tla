------------------------------- MODULE MCRaft -------------------------------
(***************************************************************************)
(* Raft.tla on small clusters for TLC, and what the README of the library  *)
(* says of it and its code does not do.                                    *)
(***************************************************************************)
EXTENDS Raft

Symmetry == Permutations(Server) \union Permutations(Value)

\* README:1, "an implementation of the raft concensus algorithm": two servers
\* never commit different entries at the same index (state machine safety).
CommittedAgree ==
  \A i, j \in Server :
    \A k \in 1 .. Len(Committed(storage[i])) :
      k <= Len(Committed(storage[j])) =>
        Committed(storage[i])[k] = Committed(storage[j])[k]
=============================================================================
