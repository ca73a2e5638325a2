----------------------------- MODULE MemStorage -----------------------------
(***************************************************************************)
(* raft/mem_storage.cpp: the storage object of one raft server.            *)
(*                                                                         *)
(* A storage object is a record with the fields of class MemStorage.  Each *)
(* method is an operator from a storage record and the arguments to the    *)
(* storage record after the call (the mutators) or to the value returned   *)
(* (the readers).  The journal log_file_ is written by the mutators and    *)
(* read by no code of the repository, so it is not a part of the record: a *)
(* process that starts again starts from NewStorage.                       *)
(*                                                                         *)
(* exit(1), which the code calls in branches it comments with "how can     *)
(* this occur? It can't/shouldn't", sets the field exited.                 *)
(***************************************************************************)
EXTENDS Integers, Sequences

CONSTANTS Server,   \* the ids of the servers (known_peers)
          Value,    \* the data of a log entry
          NoServer  \* the empty id ""

ASSUME NoServerAssumption == NoServer \notin Server

EntryInfo == [index : Nat, term : Nat]
Entry == [index : Nat, term : Nat, data : Value]

InfoOf(e) == [index |-> e.index, term |-> e.term]
NoEntry == [index |-> 0, term |-> 0]

StorageType ==
  [current_term : Nat,
   voted_for    : Server \union {NoServer},
   entries      : Seq(Entry),
   uncommit     : EntryInfo,
   commit       : EntryInfo,
   exited       : BOOLEAN]

NewStorage ==
  [current_term |-> 0, voted_for |-> NoServer, entries |-> << >>,
   uncommit |-> NoEntry, commit |-> NoEntry, exited |-> FALSE]

SetTerm(st, term) == [st EXCEPT !.current_term = term]
SetVote(st, id) == [st EXCEPT !.voted_for = id]

\* The sanity check of get_entry_info and entries_since: the entry stored at
\* position k carries another index.
Misplaced(st, k) == k \in 1 .. Len(st.entries) /\ st.entries[k].index # k

GetEntryInfo(st, k) ==
  IF k \in 1 .. Len(st.entries) THEN InfoOf(st.entries[k]) ELSE NoEntry

\* Mutant: the index of an entry is taken for its position in the vector, which
\* begins at 0.
EntriesSinceOffByOne(st, k) == SubSeq(st.entries, k + 2, Len(st.entries))

EntriesSince(st, k) == SubSeq(st.entries, k + 1, Len(st.entries))

\* Mutant: append does not erase the conflicting tail.
AppendKeepingTail(st, new) ==
  IF new = << >> THEN st
  ELSE [st EXCEPT !.entries  = @ \o new,
                  !.uncommit = InfoOf(new[Len(new)])]

\* append: entries from the first new index on are erased, then the new ones
\* are inserted at the end of the vector, whatever its length.
StorageAppend(st, new) ==
  LET first == new[1].index
      kept  == IF st.uncommit.index >= first
               THEN SubSeq(st.entries, 1, first - 1) ELSE st.entries
  IN  IF new = << >> THEN st
      ELSE [st EXCEPT !.entries  = kept \o new,
                      !.uncommit = InfoOf(new[Len(new)]),
                      !.exited   = @ \/ /\ st.uncommit.index >= first
                                        /\ Misplaced(st, st.uncommit.index)]

CommitUntil(st, k) ==
  LET index == IF k < st.uncommit.index THEN k ELSE st.uncommit.index
  IN  IF st.commit.index = index THEN st
      ELSE [st EXCEPT !.commit = GetEntryInfo(st, index),
                      !.exited = @ \/ Misplaced(st, index)]

\* The storage with the outcome of a reader's sanity check at position k.
Checked(st, k) == [st EXCEPT !.exited = @ \/ Misplaced(st, k)]

Committed(st) == SubSeq(st.entries, 1, st.commit.index)

WellFormed(st) ==
  /\ \A k \in 1 .. Len(st.entries) : st.entries[k].index = k
  /\ st.uncommit.index = Len(st.entries)
  /\ st.uncommit = GetEntryInfo(st, st.uncommit.index)
  /\ st.commit = GetEntryInfo(st, st.commit.index)
  /\ st.commit.index <= st.uncommit.index
=============================================================================
