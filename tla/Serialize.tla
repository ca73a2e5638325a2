----------------------------- MODULE Serialize -----------------------------
(***************************************************************************)
(* simple_serialize.cpp: messages of the raft servers as lines of text.    *)
(*                                                                         *)
(* operator<< of a stream writes words with blanks between them, and       *)
(* operator>> reads the next word.  A line is therefore a sequence of      *)
(* words, and a std::string is the sequence of its words: a string with a  *)
(* blank is two words, the empty one is none.  Numbers are words too.      *)
(***************************************************************************)
EXTENDS Naturals, Sequences, SequencesExt

CONSTANT MaxNumber      \* the numbers in messages: 0 .. MaxNumber

Word(n) == <<ToString(n)>>

\* A stream that is read: the words left, what has been read, and failbit,
\* which throws std::istringstream::failure.
Stream(words) == [left |-> words, got |-> <<>>, fail |-> FALSE]

ReadString(s) ==
    IF s.fail \/ s.left = <<>> THEN [s EXCEPT !.fail = TRUE]
    ELSE [s EXCEPT !.left = Tail(@), !.got = Append(@, <<Head(s.left)>>)]

ReadNumber(s) ==
    LET numbers == {n \in 0 .. MaxNumber : Word(n) = <<Head(s.left)>>}
    IN  IF s.fail \/ s.left = <<>> \/ numbers = {} THEN [s EXCEPT !.fail = TRUE]
        ELSE [s EXCEPT !.left = Tail(@), !.got = Append(@, CHOOSE n \in numbers : TRUE)]

ReadBool(s) ==
    LET r == ReadNumber(s)
        bit == Last(r.got)
    IN  IF r.fail \/ bit > 1 THEN [r EXCEPT !.fail = TRUE]
        ELSE [r EXCEPT !.got = Append(Front(@), bit = 1)]

\* EntryInfo, MessageHeader and Entry
WriteInfo(info) == Word(info.index) \o Word(info.term)

WriteHeader(h) ==
    h.peer_id \o h.destination_id \o Word(h.message_id) \o Word(h.term)
      \o WriteInfo(h.commit) \o WriteInfo(h.uncommit)

WriteEntry(e) == WriteInfo(e.info) \o e.data

\* The fields read last, as a record
Group(s, names) ==
    IF s.fail THEN s
    ELSE LET k == Len(s.got) - Len(names)
             At(name) == CHOOSE i \in DOMAIN names : names[i] = name
         IN  [s EXCEPT !.got = Append(SubSeq(@, 1, k), [name \in ToSet(names) |-> @[k + At(name)]])]

ReadInfo(s) == Group(ReadNumber(ReadNumber(s)), <<"index", "term">>)

ReadHeader(s) ==
    Group(ReadInfo(ReadInfo(ReadNumber(ReadNumber(ReadString(ReadString(s)))))),
          <<"peer_id", "destination_id", "message_id", "term", "commit", "uncommit">>)

ReadEntry(s) == Group(ReadString(ReadInfo(s)), <<"info", "data">>)

\* std::vector<T>
WriteVector(entries) ==
    Word(Len(entries)) \o FlattenSeq([i \in DOMAIN entries |-> WriteEntry(entries[i])])

ReadVector(s) ==
    LET n == ReadNumber(s)
        after[k \in 0 .. MaxNumber] == IF k = 0 THEN n ELSE ReadEntry(after[k - 1])
        all == after[Last(n.got)]
    IN  IF n.fail THEN n
        ELSE IF all.fail THEN all
        ELSE [all EXCEPT !.got = Append(s.got, SubSeq(@, Len(n.got) + 1, Len(@)))]

\* A message without the newline that ends it.
Write(m) ==
    <<m.type>> \o
    CASE m.type = "AppendEntriesRequest" ->
           WriteHeader(m.header) \o WriteInfo(m.previous_entry) \o WriteVector(m.entries)
      [] m.type = "AppendEntriesResponse" -> WriteHeader(m.header) \o Word(IF m.success THEN 1 ELSE 0)
      [] m.type = "VoteRequest" -> WriteHeader(m.header)
      [] m.type = "VoteResponse" -> WriteHeader(m.header) \o Word(IF m.vote_granted THEN 1 ELSE 0)
      [] m.type = "ClientRequest" -> m.data

\* process_server_message: the message given to the server, or the drop of the
\* session, for an unknown name and for a line that ends too early.
Dropped == [type |-> "drop"]

Read(words) ==
    LET name == IF words = <<>> THEN "" ELSE Head(words)
        s == Stream(Tail(words))
        Given(r, m) == IF r.fail THEN Dropped ELSE m
    IN  CASE words = <<>> -> Dropped
          [] name = "AppendEntriesRequest" ->
               LET r == ReadVector(ReadInfo(ReadHeader(s)))
               IN  Given(r, [type |-> name, header |-> r.got[1], previous_entry |-> r.got[2],
                             entries |-> r.got[3]])
          [] name = "AppendEntriesResponse" ->
               LET r == ReadBool(ReadHeader(s))
               IN  Given(r, [type |-> name, header |-> r.got[1], success |-> r.got[2]])
          [] name = "VoteRequest" ->
               LET r == ReadHeader(s) IN Given(r, [type |-> name, header |-> r.got[1]])
          [] name = "VoteResponse" ->
               LET r == ReadBool(ReadHeader(s))
               IN  Given(r, [type |-> name, header |-> r.got[1], vote_granted |-> r.got[2]])
          [] name = "ClientRequest" ->
               LET r == ReadString(s) IN Given(r, [type |-> name, data |-> r.got[1]])
          [] OTHER -> Dropped

----------------------------------------------------------------------------
(* What the text is to achieve                                             *)

Strings(m) ==
    LET h == IF m.type = "ClientRequest" THEN {m.data} ELSE {m.header.peer_id, m.header.destination_id}
    IN  h \cup IF m.type = "AppendEntriesRequest" THEN {m.entries[i].data : i \in DOMAIN m.entries} ELSE {}

\* What is left of a word that is cut inside: of a number fewer digits, of any
\* other word another one.
CutWord(w) ==
    LET numbers == {n \in 0 .. MaxNumber : Word(n) = <<w>>}
    IN  IF numbers = {} THEN {"part"} ELSE {ToString(n \div 10) : n \in {k \in numbers : k > 9}}

\* A message is what its receiver reads, if its strings are single words, as
\* the requests of the messaging application are.  A line that ends before its
\* last word is never taken for a message.  One that is cut inside its last word
\* is taken for what is left of it: 12 is read as 1.  (Sessions hand on whole
\* lines only.)
ReadAsWritten(m) ==
    (\A w \in Strings(m) : Len(w) = 1) =>
        LET line == Write(m)
            n == Len(line)
        IN  /\ Read(line) = m
            /\ \A k \in 0 .. n - 1 :
                 /\ Read(SubSeq(line, 1, k)) = Dropped
                 /\ \A w \in CutWord(line[k + 1]) :
                      LET cut == Append(SubSeq(line, 1, k), w)
                      IN  Read(cut) = Dropped \/ (k = n - 1 /\ Write(Read(cut)) = cut)
=============================================================================
