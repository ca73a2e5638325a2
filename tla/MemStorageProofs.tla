-------------------------- MODULE MemStorageProofs --------------------------
(***************************************************************************)
(* What the operations of MemStorage.tla preserve: a well-formed storage   *)
(* stays well formed, no sanity check fails on it, and its committed       *)
(* prefix is only ever extended.                                           *)
(***************************************************************************)
EXTENDS MemStorage, TLAPS

\* A storage object that is typed, well formed and whose process has not left.
Sound(st) == st \in StorageType /\ WellFormed(st) /\ ~st.exited

\* Entries that continue a log whose last index is prev.
Continues(new, prev) ==
  /\ new \in Seq(Entry)
  /\ \A k \in 1 .. Len(new) : new[k].index = prev + k

\* The constructor of MemStorage makes a sound storage.
LEMMA NewStorageSound == Sound(NewStorage) /\ Committed(NewStorage) = << >>
<1>1. NewStorage \in StorageType
  BY DEF NewStorage, StorageType, NoEntry, EntryInfo
<1>2. WellFormed(NewStorage)
  BY DEF NewStorage, WellFormed, GetEntryInfo, NoEntry
<1>3. Committed(NewStorage) = << >>
  BY DEF NewStorage, Committed, NoEntry
<1> QED  BY <1>1, <1>2, <1>3 DEF Sound, NewStorage

\* Writing the term and the vote touches neither the log nor its marks.
LEMMA TermAndVoteSound ==
  ASSUME NEW st, Sound(st), NEW t \in Nat, NEW v \in Server \union {NoServer}
  PROVE  /\ Sound(SetTerm(st, t)) /\ Sound(SetVote(st, v))
         /\ Committed(SetTerm(st, t)) = Committed(st)
         /\ Committed(SetVote(st, v)) = Committed(st)
  BY Zenon DEF Sound, SetTerm, SetVote, StorageType, WellFormed, Committed,
         GetEntryInfo

\* The sanity check of a reader does not fail on a sound storage.
LEMMA CheckedSame ==
  ASSUME NEW st, Sound(st), NEW k
  PROVE  Checked(st, k) = st
  BY DEF Sound, Checked, Misplaced, WellFormed, StorageType

\* A storage whose log is cut after prev and goes on with the entries new.
LogFrom(st, prev, new) ==
  [st EXCEPT !.entries  = SubSeq(st.entries, 1, prev) \o new,
             !.uncommit = InfoOf(new[Len(new)])]

\* append() at a place between the commit and the uncommit mark leaves the log
\* up to that place and puts the new entries behind it.
LEMMA AppendLog ==
  ASSUME NEW st, Sound(st),
         NEW prev \in st.commit.index .. st.uncommit.index,
         NEW new, Continues(new, prev), new # << >>
  PROVE  StorageAppend(st, new) = LogFrom(st, prev, new)
<1>1. /\ st \in StorageType /\ st.entries \in Seq(Entry)
      /\ st.uncommit.index = Len(st.entries) /\ Len(st.entries) \in Nat
      /\ st.commit.index \in Nat /\ prev \in Nat /\ prev <= Len(st.entries)
      /\ new[1].index = prev + 1 /\ st.exited = FALSE
  BY DEF Sound, StorageType, EntryInfo, WellFormed, Continues
<1>2. (IF st.uncommit.index >= new[1].index
       THEN SubSeq(st.entries, 1, new[1].index - 1) ELSE st.entries)
      = SubSeq(st.entries, 1, prev)
  <2>1. CASE st.uncommit.index >= new[1].index
    BY <2>1, <1>1
  <2>2. CASE ~(st.uncommit.index >= new[1].index)
    <3>1. prev = Len(st.entries)
      BY <2>2, <1>1
    <3>2. SubSeq(st.entries, 1, prev) = st.entries
      BY <3>1, <1>1
    <3> QED  BY <2>2, <3>2
  <2> QED  BY <2>1, <2>2, Zenon
<1>3. ~Misplaced(st, st.uncommit.index)
  BY DEF Sound, WellFormed, Misplaced
<1> QED  BY <1>1, <1>2, <1>3, Zenon DEF StorageAppend, StorageType, LogFrom

\* append() at a place between the commit and the uncommit mark, which is what
\* the guards of on(AppendEntriesRequest) leave, keeps the storage sound and
\* does not touch the committed entries.
LEMMA AppendSound ==
  ASSUME NEW st, Sound(st),
         NEW prev \in st.commit.index .. st.uncommit.index,
         NEW new, Continues(new, prev)
  PROVE  LET after == StorageAppend(st, new)
         IN  /\ Sound(after)
             /\ after.commit = st.commit
             /\ after.current_term = st.current_term
             /\ after.voted_for = st.voted_for
             /\ Committed(after) = Committed(st)
<1> DEFINE after == StorageAppend(st, new)
           log == SubSeq(st.entries, 1, prev) \o new
<1>0. /\ st \in StorageType /\ st.entries \in Seq(Entry)
      /\ st.commit.index \in Nat /\ st.uncommit.index = Len(st.entries)
      /\ Len(st.entries) \in Nat /\ prev \in Nat /\ prev <= Len(st.entries)
      /\ st.commit.index <= prev /\ new \in Seq(Entry) /\ Len(new) \in Nat
  BY DEF Sound, StorageType, EntryInfo, WellFormed, Continues
<1>1. CASE new = << >>
  BY <1>1 DEF StorageAppend
<1>2. CASE new # << >>
  <2>1. Len(new) > 0 /\ new[1].index = prev + 1
        /\ new[Len(new)].index = prev + Len(new)
    BY <1>0, <1>2 DEF Continues
  <2>2. SubSeq(st.entries, 1, prev) \in Seq(Entry)
        /\ Len(SubSeq(st.entries, 1, prev)) = prev
        /\ \A k \in 1 .. prev :
             SubSeq(st.entries, 1, prev)[k] = st.entries[k]
    BY <1>0
  <2>3. /\ log \in Seq(Entry) /\ Len(log) = prev + Len(new)
        /\ \A k \in 1 .. prev : log[k] = st.entries[k]
        /\ \A k \in 1 .. Len(new) : log[prev + k] = new[k]
    BY <1>0, <2>2
  <2>4. after = [st EXCEPT !.entries = log, !.uncommit = InfoOf(new[Len(new)])]
    <3>1. after = LogFrom(st, prev, new)
      BY <1>2, AppendLog, Zenon
    <3> QED  BY <3>1, Zenon DEF LogFrom
  <2>5. after.entries = log /\ after.commit = st.commit
        /\ after.uncommit = InfoOf(new[Len(new)])
        /\ after.current_term = st.current_term
        /\ after.voted_for = st.voted_for /\ after.exited = st.exited
    BY <2>4, <1>0, Zenon DEF StorageType
  <2>6. new[Len(new)] \in Entry
    BY <1>0, <2>1
  <2>7. after \in StorageType
    <3>1. InfoOf(new[Len(new)]) \in EntryInfo
      BY <2>6 DEF InfoOf, Entry, EntryInfo
    <3> QED  BY <2>4, <2>3, <3>1, <1>0, Zenon DEF StorageType
  <2>8. \A k \in 1 .. Len(log) : log[k].index = k
    <3>1. ASSUME NEW k \in 1 .. Len(log), k <= prev
          PROVE  log[k].index = k
      BY <3>1, <2>3, <1>0 DEF Sound, WellFormed
    <3>2. ASSUME NEW k \in 1 .. Len(log), k > prev
          PROVE  log[k].index = k
      <4>1. k - prev \in 1 .. Len(new) /\ k = prev + (k - prev)
        BY <3>2, <2>3, <1>0
      <4> QED  BY <4>1, <2>3, <1>0 DEF Continues
    <3> QED  BY <3>1, <3>2, <2>3, <1>0
  <2>9. log[Len(log)] = new[Len(new)]
    BY <2>1, <2>3, <1>0
  <2>10. Committed(after) = Committed(st)
    <3>1. SubSeq(log, 1, st.commit.index) = SubSeq(st.entries, 1, st.commit.index)
      BY <2>3, <1>0
    <3> QED  BY <3>1, <2>5, Zenon DEF Committed
  <2>11. GetEntryInfo(after, st.commit.index) = GetEntryInfo(st, st.commit.index)
    BY <2>5, <2>3, <1>0 DEF GetEntryInfo
  <2>12. WellFormed(after)
    <3>1. after.uncommit.index = Len(log)
      BY <2>5, <2>1, <2>3 DEF InfoOf
    <3>2. GetEntryInfo(after, Len(log)) = InfoOf(log[Len(log)])
      BY <2>5, <2>1, <2>3, <1>0 DEF GetEntryInfo
    <3>3. st.commit = GetEntryInfo(st, st.commit.index)
      BY DEF Sound, WellFormed
    <3>4. st.commit.index <= Len(log)
      BY <1>0, <2>3
    <3> QED  BY <3>1, <3>2, <3>3, <3>4, <2>5, <2>8, <2>9, <2>11, Zenon
             DEF WellFormed
  <2> QED  BY <2>5, <2>7, <2>10, <2>12 DEF Sound
<1> QED  BY <1>1, <1>2

\* commit_until() beyond the commit mark keeps the storage sound and extends
\* the committed prefix.
LEMMA CommitSound ==
  ASSUME NEW st, Sound(st), NEW n \in Nat, n > st.commit.index
  PROVE  LET after == CommitUntil(st, n)
         IN  /\ Sound(after)
             /\ after.entries = st.entries
             /\ after.current_term = st.current_term
             /\ after.voted_for = st.voted_for
             /\ after.uncommit = st.uncommit
             /\ Len(Committed(st)) <= Len(Committed(after))
             /\ SubSeq(Committed(after), 1, Len(Committed(st))) = Committed(st)
<1> DEFINE after == CommitUntil(st, n)
           index == IF n < st.uncommit.index THEN n ELSE st.uncommit.index
<1>0. /\ st \in StorageType /\ st.entries \in Seq(Entry)
      /\ st.commit.index \in Nat /\ st.uncommit.index = Len(st.entries)
      /\ Len(st.entries) \in Nat /\ st.commit.index <= Len(st.entries)
  BY DEF Sound, StorageType, EntryInfo, WellFormed
<1>1. index \in Nat /\ st.commit.index <= index /\ index <= Len(st.entries)
  BY <1>0
<1>2. CASE st.commit.index = index
  <2>1. after = st
    BY <1>2 DEF CommitUntil
  <2>2. Committed(st) \in Seq(Entry)
    BY <1>0 DEF Committed
  <2> QED  BY <2>1, <2>2
<1>3. CASE st.commit.index # index
  <2>1. index \in 1 .. Len(st.entries)
    BY <1>0, <1>1, <1>3
  <2>2. ~Misplaced(st, index)
    BY DEF Sound, WellFormed, Misplaced
  <2>3. GetEntryInfo(st, index) = InfoOf(st.entries[index])
        /\ st.entries[index] \in Entry /\ st.entries[index].index = index
    BY <2>1, <1>0 DEF GetEntryInfo, Sound, WellFormed
  <2>4. GetEntryInfo(st, index) \in EntryInfo
        /\ GetEntryInfo(st, index).index = index
    BY <2>3 DEF InfoOf, Entry, EntryInfo
  <2>5. after = [st EXCEPT !.commit = GetEntryInfo(st, index)]
    <3>1. st.exited = FALSE
      BY DEF Sound, StorageType
    <3> QED  BY <1>3, <2>2, <3>1, <1>0, Zenon DEF CommitUntil, StorageType
  <2>6. /\ after.commit = GetEntryInfo(st, index)
        /\ after.entries = st.entries /\ after.uncommit = st.uncommit
        /\ after.current_term = st.current_term
        /\ after.voted_for = st.voted_for /\ after.exited = st.exited
    BY <2>5, <1>0 DEF StorageType
  <2>7. after \in StorageType
    BY <2>4, <2>5, <1>0 DEF StorageType
  <2>8. \A k : GetEntryInfo(after, k) = GetEntryInfo(st, k)
    BY <2>6 DEF GetEntryInfo
  <2>9. WellFormed(after)
    BY <2>4, <2>6, <2>8, <1>0, <1>1 DEF WellFormed, Sound
  <2>10. /\ Committed(after) = SubSeq(st.entries, 1, index)
         /\ Committed(st) = SubSeq(st.entries, 1, st.commit.index)
    BY <2>4, <2>6, Zenon DEF Committed
  <2>11. /\ Len(Committed(st)) = st.commit.index
         /\ Len(Committed(after)) = index
         /\ SubSeq(Committed(after), 1, st.commit.index) = Committed(st)
    BY <2>10, <1>0, <1>1
  <2> QED  BY <2>6, <2>7, <2>9, <2>11, <1>1 DEF Sound
<1> QED  BY <1>2, <1>3

\* The entries that entries_since(k) returns continue a log that ends at k.
LEMMA EntriesSinceContinue ==
  ASSUME NEW st, Sound(st), NEW k \in Nat, k <= st.uncommit.index
  PROVE  Continues(EntriesSince(st, k), k)
<1>1. /\ st.entries \in Seq(Entry) /\ st.uncommit.index = Len(st.entries)
      /\ Len(st.entries) \in Nat
  BY DEF Sound, StorageType, WellFormed
<1>2. /\ EntriesSince(st, k) \in Seq(Entry)
      /\ Len(EntriesSince(st, k)) = Len(st.entries) - k
      /\ \A n \in 1 .. Len(st.entries) - k :
           EntriesSince(st, k)[n] = st.entries[k + n]
  <2> DEFINE log == st.entries
             es == SubSeq(log, k + 1, Len(log))
  <2>1. log \in Seq(Entry) /\ Len(log) \in Nat /\ k <= Len(log)
    BY <1>1
  <2> HIDE DEF log
  <2>2. Len(es) = Len(log) - k
    BY <2>1, SMTT(30)
  <2>3. es \in Seq(Entry)
    BY <2>1, SMTT(30)
  <2>4. \A n \in 1 .. Len(log) - k : es[n] = log[k + n]
    BY <2>1, <2>2, SMTT(30)
  <2>5. EntriesSince(st, k) = es
    BY DEF EntriesSince, log
  <2> HIDE DEF es
  <2> QED  BY <2>2, <2>3, <2>4, <2>5 DEF log
<1>3. \A n \in 1 .. Len(st.entries) - k : k + n \in 1 .. Len(st.entries)
  BY <1>1
<1> QED  BY Zenon, <1>1, <1>2, <1>3 DEF Continues, Sound, WellFormed

\* entries_since() beyond the end of the log returns nothing.
LEMMA EntriesSinceEnd ==
  ASSUME NEW st, Sound(st), NEW k \in Nat, k >= st.uncommit.index
  PROVE  EntriesSince(st, k) = << >>
  BY DEF Sound, StorageType, WellFormed, EntriesSince

\* What a leader sends after a failure continues the entry it names as the
\* previous one, also when that place is beyond the end of its own log.
LEMMA RetryContinues ==
  ASSUME NEW st, Sound(st), NEW k \in Nat
  PROVE  /\ GetEntryInfo(st, k).index \in Nat
         /\ Continues(EntriesSince(st, k), GetEntryInfo(st, k).index)
<1>1. /\ st.entries \in Seq(Entry) /\ st.uncommit.index = Len(st.entries)
      /\ Len(st.entries) \in Nat
  BY DEF Sound, StorageType, WellFormed
<1>2. CASE k \in 1 .. Len(st.entries)
  <2>1. GetEntryInfo(st, k).index = k
    BY <1>1, <1>2 DEF GetEntryInfo, InfoOf, Sound, WellFormed
  <2> QED  BY <1>1, <1>2, <2>1, EntriesSinceContinue
<1>3. CASE k = 0
  <2>1. GetEntryInfo(st, k).index = 0
    BY <1>1, <1>3 DEF GetEntryInfo, NoEntry
  <2> QED  BY <1>1, <1>3, <2>1, EntriesSinceContinue
<1>4. CASE k > Len(st.entries)
  <2>1. GetEntryInfo(st, k).index = 0
    BY <1>1, <1>4 DEF GetEntryInfo, NoEntry
  <2>2. EntriesSince(st, k) = << >>
    BY <1>1, <1>4, EntriesSinceEnd
  <2> QED  BY <2>1, <2>2 DEF Continues
<1> QED  BY <1>1, <1>2, <1>3, <1>4
=============================================================================
