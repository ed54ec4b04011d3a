--------------------------- MODULE JournalProofs ---------------------------
(* The files of the store keep what it promises, for every set of records,   *)
(* every limit of the journal and any number of failed file operations and   *)
(* crashes, as long as the undoing of a failed append and the directory sync *)
(* of a new journal do not fail, too.                                        *)
EXTENDS Journal, FiniteSetTheorems, SequenceTheorems, TLAPS

NoSecondFault == ~RollbackFails /\ ~LinkSyncFails

-----------------------------------------------------------------------------
(* Replaying entries.                                                        *)

LEMMA LatestExists ==
  ASSUME NEW n \in Nat, NEW S, S \subseteq 1 .. n, S # {}
  PROVE  Latest(S) \in S /\ \A m \in S : m <= Latest(S)
<1> DEFINE Above(x) == {m \in S : m > x}
           T == {Above(x) : x \in S}
<1>1. IsFiniteSet(S)
  <2>1. IsFiniteSet(1 .. n)
    BY FS_Interval
  <2> QED
    BY <2>1, FS_Subset
<1>2. IsWellFoundedOn(StrictSubsetOrdering(S), SUBSET S)
  BY <1>1, FS_StrictSubsetOrderingWellFounded, FS_FiniteSubsetsOfFinite
<1>3. T \subseteq SUBSET S /\ T # {}
  OBVIOUS
<1>4. PICK least \in T : \A U \in T : <<U, least>> \notin StrictSubsetOrdering(S)
  <2> HIDE DEF T
  <2> QED
    BY <1>2, <1>3, WFMin
<1>5. PICK x \in S : least = Above(x)
  BY <1>4
<1>6. ASSUME NEW m \in S PROVE m <= x
  <2>1. m \in Nat /\ x \in Nat /\ \A y \in S : y \in Nat
    OBVIOUS
  <2> SUFFICES ASSUME m > x PROVE FALSE
    BY <2>1
  <2>2. Above(m) \subseteq Above(x) /\ m \in Above(x) /\ m \notin Above(m)
    <3>1. ASSUME NEW y \in S, y > m PROVE y > x
      BY <2>1, <3>1
    <3>2. ~(m > m)
      BY <2>1
    <3> QED
      BY <3>1, <3>2
  <2>3. <<Above(m), Above(x)>> \in StrictSubsetOrdering(S)
    <3> HIDE DEF Above
    <3>1. Above(m) \in SUBSET S /\ Above(x) \in SUBSET S
      BY DEF Above
    <3> QED
      BY <2>2, <3>1 DEF StrictSubsetOrdering
  <2>4. Above(m) \in T
    OBVIOUS
  <2> QED
    BY <1>4, <1>5, <2>3, <2>4
<1> QED
  BY <1>6 DEF Latest

LEMMA MentionsBounded ==
  ASSUME NEW lines \in Seq(Entries), NEW k
  PROVE  Len(lines) \in Nat /\ Mentions(lines, k) \subseteq 1 .. Len(lines)
BY DEF Mentions

\* The entry that decides about a record is one that holds it.
LEMMA LatestMentions ==
  ASSUME NEW lines \in Seq(Entries), NEW k, Mentions(lines, k) # {}
  PROVE  /\ Latest(Mentions(lines, k)) \in 1 .. Len(lines)
         /\ k \in DOMAIN lines[Latest(Mentions(lines, k))]
<1>1. Latest(Mentions(lines, k)) \in Mentions(lines, k)
  BY MentionsBounded, LatestExists
<1> QED
  BY <1>1 DEF Mentions

LEMMA ReplayType ==
  ASSUME NEW state \in States, NEW lines \in Seq(Entries)
  PROVE  Replay(state, lines) \in States
<1>1. ASSUME NEW k \in Keys, Mentions(lines, k) # {}
      PROVE  lines[Latest(Mentions(lines, k))][k] \in Contents
  <2> DEFINE e == lines[Latest(Mentions(lines, k))]
  <2>1. e \in Entries /\ k \in DOMAIN e
    BY <1>1, LatestMentions
  <2>2. PICK changed \in SUBSET Keys : e \in [changed -> Contents]
    BY <2>1 DEF Entries
  <2> QED
    BY <2>1, <2>2
<1> QED
  BY <1>1 DEF Replay, States

LEMMA ReplayNothing ==
  ASSUME NEW state \in States
  PROVE  Replay(state, <<>>) = state
<1>1. ASSUME NEW k PROVE Mentions(<<>>, k) = {}
  BY DEF Mentions
<1> QED
  BY <1>1 DEF Replay, States

\* A snapshot taken after the entries makes no difference to replaying them.
LEMMA ReplayAgain ==
  ASSUME NEW state, NEW lines
  PROVE  Replay(Replay(state, lines), lines) = Replay(state, lines)
BY DEF Replay

LEMMA ChangeType ==
  ASSUME NEW old \in States, NEW new \in States
  PROVE  Change(old, new) \in Entries
<1> DEFINE changed == {k \in Keys : old[k] # new[k]}
<1>1. Change(old, new) \in [changed -> Contents]
  BY DEF Change, States
<1> QED
  BY <1>1 DEF Entries

\* The entry of a call brings the files to what the call asked for.
LEMMA ReplayAppend ==
  ASSUME NEW state \in States, NEW lines \in Seq(Entries), NEW new \in States
  PROVE  Replay(state, Append(lines, Change(Replay(state, lines), new))) = new
<1> DEFINE old == Replay(state, lines)
           e == Change(old, new)
           longer == Append(lines, e)
<1>1. old \in States /\ e \in Entries
  BY ReplayType, ChangeType
<1>2. DOMAIN e = {k \in Keys : old[k] # new[k]} /\ \A k \in DOMAIN e : e[k] = new[k]
  BY DEF Change
<1> HIDE DEF old, e
<1>3. /\ Len(longer) = Len(lines) + 1 /\ longer[Len(lines) + 1] = e
      /\ \A i \in 1 .. Len(lines) : longer[i] = lines[i]
      /\ longer \in Seq(Entries) /\ Len(lines) \in Nat
  BY <1>1, AppendProperties
<1> HIDE DEF longer
<1>4. ASSUME NEW k \in Keys PROVE Replay(state, longer)[k] = new[k]
  <2>1. CASE k \in DOMAIN e
    <3>1. Len(lines) + 1 \in Mentions(longer, k)
      BY <1>3, <2>1 DEF Mentions
    <3>2. Latest(Mentions(longer, k)) = Len(lines) + 1
      <4>1. Mentions(longer, k) \subseteq 1 .. (Len(lines) + 1)
        BY <1>3, MentionsBounded
      <4> DEFINE latest == Latest(Mentions(longer, k))
      <4>2. latest \in Mentions(longer, k) /\ Len(lines) + 1 <= latest
        BY <1>3, <3>1, <4>1, LatestExists
      <4> QED
        BY <1>3, <4>1, <4>2
    <3> QED
      BY <1>2, <1>3, <2>1, <3>1, <3>2 DEF Replay
  <2>2. CASE k \notin DOMAIN e
    <3>1. Mentions(longer, k) = Mentions(lines, k)
      BY <1>3, <2>2 DEF Mentions
    <3>2. old[k] = new[k]
      BY <1>2, <2>2
    <3>3. CASE Mentions(lines, k) = {}
      BY <3>1, <3>2, <3>3 DEF Replay, old
    <3>4. CASE Mentions(lines, k) # {}
      <4>1. longer[Latest(Mentions(lines, k))] = lines[Latest(Mentions(lines, k))]
        BY <1>3, <3>4, LatestMentions
      <4> QED
        BY <3>1, <3>2, <3>4, <4>1 DEF Replay, old
    <3> QED
      BY <3>3, <3>4
  <2> QED
    BY <2>1, <2>2
<1>5. DOMAIN Replay(state, longer) = Keys /\ DOMAIN new = Keys
  BY DEF Replay, States
<1>6. Replay(state, longer) \in States
  BY <1>3, ReplayType
<1> QED
  BY <1>4, <1>6 DEF States, longer, e, old

LEMMA SubSeqAppend ==
  ASSUME NEW lines \in Seq(Entries), NEW e \in Entries
  PROVE  SubSeq(Append(lines, e), 1, Len(lines)) = lines
<1> DEFINE longer == Append(lines, e)
<1>1. /\ longer \in Seq(Entries) /\ Len(longer) = Len(lines) + 1 /\ Len(lines) \in Nat
      /\ \A i \in 1 .. Len(lines) : longer[i] = lines[i] /\ longer[i] \in Entries
  BY AppendProperties, ElementOfSeq
<1> HIDE DEF longer
<1>2. /\ SubSeq(longer, 1, Len(lines)) \in Seq(Entries)
      /\ Len(SubSeq(longer, 1, Len(lines))) = Len(lines)
      /\ \A i \in 1 .. Len(lines) : SubSeq(longer, 1, Len(lines))[i] = longer[i]
  BY <1>1, SubSeqProperties
<1>3. \A i \in 1 .. Len(lines) : SubSeq(longer, 1, Len(lines))[i] = lines[i]
  BY <1>1, <1>2
<1>4. SubSeq(longer, 1, Len(lines)) = lines
  BY <1>2, <1>3, SeqEqual
<1> QED
  BY <1>4 DEF longer

-----------------------------------------------------------------------------
(* The invariant.                                                            *)

\* The parts of the type invariant, one fact each.
LEMMA Types ==
  ASSUME TypeOK
  PROVE  /\ records \in States /\ persisted \in States
         /\ snapshot.seen \in States /\ snapshot.safe \in States
         /\ snapshot = [seen |-> snapshot.seen, safe |-> snapshot.safe]
         /\ wal.seen \in Seq(Entries) /\ wal.safe \in Seq(Entries) /\ wal.size \in Nat
         /\ wal = [seen |-> wal.seen, safe |-> wal.safe, size |-> wal.size]
         /\ Len(wal.seen) \in Nat
BY DEF TypeOK

LEMMA BeforeType ==
  ASSUME TypeOK, wal.size <= Len(wal.seen)
  PROVE  BeforeAppend \in Seq(Entries)
<1>1. \A i \in 1 .. wal.size : wal.seen[i] \in Entries
  BY Types, ElementOfSeq
<1> QED
  BY <1>1, Types, SubSeqProperties DEF BeforeAppend

LEMMA Initially == Init => Recoverable
<1> SUFFICES ASSUME Init PROVE Recoverable
  OBVIOUS
<1>1. TypeOK
  BY EmptySeq DEF Init, TypeOK, Tails, Steps
<1>2. TailSound /\ MemorySound
  BY DEF Init, TailSound, MemorySound, Appending
<1>3. FilesSound
  BY ReplayNothing DEF Init, FilesSound, Stored, Appending, Snapshots
<1> QED
  BY <1>1, <1>2, <1>3 DEF Recoverable

LEMMA UpdateKeeps ==
  ASSUME Recoverable, NEW new \in States, Update(new)
  PROVE  Recoverable'
<1> USE DEF Update
<1>1. TypeOK'
  BY DEF Recoverable, TypeOK, Steps
<1>2. TailSound' /\ MemorySound'
  BY DEF Recoverable, TailSound, MemorySound, Appending
<1>3. Stored' = Stored
  BY DEF Recoverable, MemorySound, Stored, Appending
<1>4. FilesSound'
  BY <1>3 DEF Recoverable, FilesSound, Snapshots
<1> QED
  BY <1>1, <1>2, <1>3, <1>4 DEF Recoverable

LEMMA LinkJournalKeeps ==
  ASSUME Recoverable, LinkJournal, NoSecondFault
  PROVE  Recoverable'
<1> USE DEF LinkJournal, FailCall, NoSecondFault, memory
<1>1. TypeOK'
  BY DEF Recoverable, TypeOK, Steps
<1>2. TailSound' /\ MemorySound'
  BY DEF Recoverable, TailSound, MemorySound, Appending
<1>3. Stored' = Stored
  BY DEF Stored, Appending
<1>4. FilesSound'
  BY <1>3 DEF Recoverable, FilesSound, Snapshots
<1> QED
  BY <1>1, <1>2, <1>3, <1>4 DEF Recoverable

LEMMA WriteEntryKeeps ==
  ASSUME Recoverable, WriteEntry
  PROVE  Recoverable'
<1> DEFINE e == Change(persisted, records)
<1>1. /\ step = "write" /\ tail.now = "clean" /\ TypeOK /\ link # "new"
      /\ Stored = persisted /\ e \in Entries
  BY Types, ChangeType DEF Recoverable, WriteEntry, TailSound, Stored, Appending
<1> HIDE DEF e
<1>2. /\ wal'.safe = wal.safe /\ wal'.size = Len(wal.seen)
      /\ wal' = [seen |-> wal'.seen, safe |-> wal.safe, size |-> Len(wal.seen)]
      /\ \/ wal'.seen = Append(wal.seen, e)
         \/ wal'.seen = wal.seen /\ step' = "rollback"
      /\ tail'.now \in {"clean", "bare", "torn"} /\ tail'.before = "clean"
      /\ tail' = [now |-> tail'.now, before |-> "clean"]
      /\ step' \in {"sync", "rollback"} /\ (step' = "sync" => tail'.now = "clean")
      /\ UNCHANGED <<records, persisted, count, opening, snapshot, link>>
  <2> DEFINE grown == [seen |-> Append(wal.seen, e), safe |-> wal.safe, size |-> Len(wal.seen)]
             kept == [seen |-> wal.seen, safe |-> wal.safe, size |-> Len(wal.seen)]
             end(now) == [now |-> now, before |-> "clean"]
  <2>1. [wal EXCEPT !.size = Len(wal.seen)] = kept
    BY <1>1 DEF TypeOK
  <2>2. UNCHANGED <<records, persisted, count, opening, snapshot, link>>
    BY DEF WriteEntry, memory
  <2>3. \/ wal' = grown /\ tail' = end("clean") /\ step' = "sync"
        \/ wal' = grown /\ tail' = end("bare") /\ step' = "rollback"
        \/ wal' = kept /\ tail' \in {end("clean"), end("torn")} /\ step' = "rollback"
    BY <1>1, <2>1 DEF WriteEntry, Joined, e
  <2> QED
    BY <2>2, <2>3
<1>3. Append(wal.seen, e) \in Seq(Entries) /\ Len(Append(wal.seen, e)) = Len(wal.seen) + 1
  BY <1>1, Types, AppendProperties
<1>4. TypeOK'
  BY <1>1, <1>2, <1>3, Types DEF TypeOK, Tails, Steps
<1>5. TailSound' /\ MemorySound'
  BY <1>1, <1>2 DEF TailSound, MemorySound, Appending
<1>6. BeforeAppend' = wal.seen
  BY <1>1, <1>2, Types, SubSeqAppend, SubSeqFull DEF BeforeAppend
<1>7. Stored' = persisted
  BY <1>2 DEF Stored, Appending
<1>8. \A state \in Snapshots :
        Replay(state, wal.safe) = persisted /\ Replay(state, wal.seen) = persisted
  BY <1>1 DEF Recoverable, FilesSound
<1>9. FilesSound'
  BY <1>1, <1>2, <1>3, <1>6, <1>7, <1>8, Types DEF FilesSound, Snapshots, e
<1> QED
  BY <1>4, <1>5, <1>9 DEF Recoverable

\* With the whole entry the files hold what the call asked for.
LEMMA WholeEntry ==
  ASSUME Recoverable, step \in {"sync", "rollback"},
         wal.seen = Append(BeforeAppend, Change(persisted, records))
  PROVE  \A state \in Snapshots : Replay(state, wal.seen) = records
<1>1. /\ TypeOK /\ wal.size <= Len(wal.seen)
      /\ \A state \in Snapshots : Replay(state, BeforeAppend) = persisted
  BY DEF Recoverable, FilesSound
<1>2. BeforeAppend \in Seq(Entries) /\ records \in States /\ Snapshots \subseteq States
  BY <1>1, Types, BeforeType DEF Snapshots
<1> QED
  BY <1>1, <1>2, ReplayAppend

LEMMA SyncEntryKeeps ==
  ASSUME Recoverable, SyncEntry
  PROVE  Recoverable'
<1>1. /\ step = "sync" /\ TypeOK /\ tail.now = "clean" /\ tail.before = "clean"
      /\ link # "new" /\ Stored = persisted
      /\ UNCHANGED <<snapshot, tail, link>>
  BY DEF Recoverable, SyncEntry, TailSound, Stored, Appending
<1>2. \A state \in Snapshots : Replay(state, wal.seen) = records
  BY <1>1, WholeEntry DEF Recoverable, FilesSound
<1>3. CASE step' = "rollback"
  <2>1. UNCHANGED <<records, persisted, count, opening, wal>>
    BY <1>1, <1>3 DEF SyncEntry, memory
  <2>2. TypeOK'
    BY <1>1, <1>3, <2>1 DEF TypeOK, Steps
  <2>3. TailSound' /\ MemorySound'
    BY <1>1, <1>3, <2>1 DEF TailSound, MemorySound, Appending
  <2>4. FilesSound'
    BY <1>1, <1>3, <2>1 DEF Recoverable, FilesSound, Snapshots, Stored, Appending, BeforeAppend
  <2> QED
    BY <2>2, <2>3, <2>4 DEF Recoverable
<1>4. CASE step' # "rollback"
  <2>1. /\ wal' = [wal EXCEPT !.safe = wal.seen] /\ persisted' = records
        /\ count' = count + 1 /\ step' \in {"snapshot", "idle"}
        /\ UNCHANGED <<records, opening>>
    BY <1>1, <1>4 DEF SyncEntry
  <2>2. wal' = [seen |-> wal.seen, safe |-> wal.seen, size |-> wal.size]
    BY <1>1, <2>1, Types
  <2>3. TypeOK'
    <3>1. wal' \in [seen : Seq(Entries), safe : Seq(Entries), size : Nat]
      BY <1>1, <2>2, Types
    <3>2. step' \in Steps
      BY <2>1 DEF Steps
    <3> QED
      BY <1>1, <2>1, <3>1, <3>2, Types DEF TypeOK
  <2>4. TailSound' /\ MemorySound' /\ Stored' = records
    BY <1>1, <2>1 DEF TailSound, MemorySound, Appending, Stored
  <2>5. FilesSound'
    BY <1>1, <1>2, <2>1, <2>2, <2>4 DEF FilesSound, Snapshots
  <2> QED
    BY <2>3, <2>4, <2>5 DEF Recoverable
<1> QED
  BY <1>3, <1>4

LEMMA RollbackKeeps ==
  ASSUME Recoverable, Rollback, NoSecondFault
  PROVE  Recoverable'
<1>1. /\ step = "rollback" /\ TypeOK /\ tail.before = "clean" /\ link # "new"
      /\ Stored = persisted /\ wal.size <= Len(wal.seen)
      /\ \A state \in Snapshots : Replay(state, BeforeAppend) = persisted
  BY DEF Recoverable, Rollback, TailSound, FilesSound, Stored, Appending
<1>2. /\ wal' = [seen |-> BeforeAppend, safe |-> BeforeAppend, size |-> wal.size]
      /\ tail' = [now |-> "clean", before |-> "clean"] /\ step' = "idle"
      /\ records' = persisted /\ UNCHANGED <<persisted, count, opening, snapshot, link>>
  BY <1>1, Types DEF Rollback, NoSecondFault, FailCall, BeforeAppend, TypeOK
<1>3. TypeOK'
  BY <1>1, <1>2, Types, BeforeType DEF TypeOK, Tails, Steps
<1>4. TailSound' /\ MemorySound' /\ Stored' = persisted
  BY <1>1, <1>2 DEF TailSound, MemorySound, Appending, Stored
<1>5. FilesSound'
  BY <1>1, <1>2, <1>4 DEF FilesSound, Snapshots
<1> QED
  BY <1>3, <1>4, <1>5 DEF Recoverable

\* What holds whenever memory and the files agree.
Agree ==
  /\ TypeOK /\ tail.now = "clean" /\ link # "new" /\ records = persisted
  /\ Stored = records
  /\ \A state \in Snapshots :
       Replay(state, wal.safe) = records /\ Replay(state, wal.seen) = records

LEMMA BetweenCalls ==
  ASSUME Recoverable,
         step \in {"idle", "snapshot", "syncSnapshot", "truncate", "syncTruncated"}
  PROVE  Agree
BY DEF Recoverable, TailSound, MemorySound, FilesSound, Stored, Appending, Agree

\* Compaction that stops leaves the files as good as they are.
LEMMA StopKeeps ==
  ASSUME Agree, StopCompacting, UNCHANGED <<snapshot, wal, tail, link>>
  PROVE  Recoverable'
<1>1. step' \in {"idle", "down"} /\ UNCHANGED <<records, persisted, count, opening>>
  BY DEF StopCompacting, memory
<1>2. TypeOK'
  BY <1>1 DEF Agree, TypeOK, Steps
<1>3. TailSound' /\ MemorySound'
  BY <1>1 DEF Agree, TailSound, MemorySound, Appending
<1>4. Stored' = records
  BY <1>1 DEF Agree, Stored, Appending, Snapshots
<1>5. FilesSound'
  BY <1>1, <1>4 DEF Agree, FilesSound, Snapshots
<1> QED
  BY <1>2, <1>3, <1>5 DEF Recoverable

LEMMA WriteSnapshotKeeps ==
  ASSUME Recoverable, WriteSnapshot
  PROVE  Recoverable'
<1>1. Agree /\ step = "snapshot" /\ UNCHANGED <<wal, tail, link>>
  BY BetweenCalls DEF WriteSnapshot
<1>2. CASE StopCompacting /\ UNCHANGED snapshot
  BY <1>1, <1>2, StopKeeps
<1>3. CASE /\ snapshot' = [snapshot EXCEPT !.seen = records]
           /\ step' = "syncSnapshot" /\ UNCHANGED memory
  <2>1. /\ snapshot' = [seen |-> records, safe |-> snapshot.safe]
        /\ UNCHANGED <<records, persisted, count, opening>>
    BY <1>1, <1>3 DEF Agree, TypeOK, memory
  <2>2. TypeOK'
    BY <1>1, <1>3, <2>1 DEF Agree, TypeOK, Steps
  <2>3. TailSound' /\ MemorySound' /\ Stored' = records
    BY <1>1, <1>3, <2>1 DEF Agree, TailSound, MemorySound, Appending, Stored
  <2>4. Replay(records, wal.safe) = records /\ Replay(records, wal.seen) = records
    BY <1>1, ReplayAgain DEF Agree, Snapshots
  <2>5. FilesSound'
    BY <1>1, <1>3, <2>1, <2>3, <2>4 DEF Agree, FilesSound, Snapshots
  <2> QED
    BY <2>2, <2>3, <2>5 DEF Recoverable
<1> QED
  BY <1>2, <1>3 DEF WriteSnapshot

LEMMA SyncSnapshotKeeps ==
  ASSUME Recoverable, SyncSnapshot
  PROVE  Recoverable'
<1>1. /\ Agree /\ step = "syncSnapshot" /\ UNCHANGED <<wal, tail>>
      /\ snapshot.seen = records
  BY BetweenCalls DEF SyncSnapshot, Recoverable, MemorySound
<1>2. CASE StopCompacting /\ UNCHANGED <<snapshot, link>>
  BY <1>1, <1>2, StopKeeps
<1>3. CASE /\ snapshot' = [snapshot EXCEPT !.safe = snapshot.seen]
           /\ link' = (IF link = "new" THEN "safe" ELSE link)
           /\ step' = "truncate" /\ UNCHANGED memory
  <2>1. /\ snapshot' = [seen |-> records, safe |-> records] /\ link' = link
        /\ UNCHANGED <<records, persisted, count, opening>>
    BY <1>1, <1>3 DEF Agree, TypeOK, memory
  <2>2. TypeOK'
    BY <1>1, <1>3, <2>1 DEF Agree, TypeOK, Steps
  <2>3. TailSound' /\ MemorySound' /\ Stored' = records
    BY <1>1, <1>3, <2>1 DEF Agree, TailSound, MemorySound, Appending, Stored, Snapshots
  <2>4. FilesSound'
    BY <1>1, <1>3, <2>1, <2>3 DEF Agree, FilesSound, Snapshots
  <2> QED
    BY <2>2, <2>3, <2>4 DEF Recoverable
<1> QED
  BY <1>2, <1>3 DEF SyncSnapshot

LEMMA TruncateKeeps ==
  ASSUME Recoverable, TruncateJournal
  PROVE  Recoverable'
<1>1. /\ Agree /\ step = "truncate" /\ UNCHANGED <<snapshot, link>>
      /\ Snapshots = {records}
  BY BetweenCalls DEF TruncateJournal, Recoverable, MemorySound
<1>2. CASE StopCompacting /\ UNCHANGED <<wal, tail>>
  BY <1>1, <1>2, StopKeeps
<1>3. CASE /\ wal' = [wal EXCEPT !.seen = <<>>, !.size = 0]
           /\ tail' = [now |-> "clean", before |-> "clean"]
           /\ step' = "syncTruncated" /\ UNCHANGED memory
  <2>1. /\ wal'.seen = <<>> /\ wal'.safe = wal.safe
        /\ wal' \in [seen : Seq(Entries), safe : Seq(Entries), size : Nat]
        /\ UNCHANGED <<records, persisted, count, opening>>
    BY <1>1, <1>3, EmptySeq DEF Agree, TypeOK, memory
  <2>2. TypeOK'
    BY <1>1, <1>3, <2>1 DEF Agree, TypeOK, Steps, Tails
  <2>3. TailSound' /\ MemorySound' /\ Stored' = records
    BY <1>1, <1>3, <2>1 DEF Agree, TailSound, MemorySound, Appending, Stored, Snapshots
  <2>4. Replay(records, <<>>) = records
    BY <1>1, ReplayNothing DEF Agree, TypeOK
  <2>5. FilesSound'
    BY <1>1, <1>3, <2>1, <2>3, <2>4 DEF Agree, FilesSound, Snapshots
  <2> QED
    BY <2>2, <2>3, <2>5 DEF Recoverable
<1> QED
  BY <1>2, <1>3 DEF TruncateJournal

LEMMA SyncTruncatedKeeps ==
  ASSUME Recoverable, SyncTruncated
  PROVE  Recoverable'
<1>1. /\ Agree /\ step = "syncTruncated" /\ UNCHANGED <<snapshot, tail, link>>
      /\ wal.seen = <<>>
  BY BetweenCalls DEF SyncTruncated, Recoverable, MemorySound
<1>2. CASE StopCompacting /\ UNCHANGED wal
  BY <1>1, <1>2, StopKeeps
<1>3. CASE /\ wal' = [wal EXCEPT !.safe = <<>>]
           /\ count' = 0 /\ opening' = FALSE /\ step' = "idle"
           /\ UNCHANGED <<records, persisted>>
  <2>1. /\ wal'.seen = <<>> /\ wal'.safe = <<>>
        /\ wal' \in [seen : Seq(Entries), safe : Seq(Entries), size : Nat]
    BY <1>1, <1>3, EmptySeq DEF Agree, TypeOK
  <2>2. TypeOK'
    BY <1>1, <1>3, <2>1 DEF Agree, TypeOK, Steps
  <2>3. TailSound' /\ MemorySound' /\ Stored' = records
    BY <1>1, <1>3, <2>1 DEF Agree, TailSound, MemorySound, Appending, Stored
  <2>4. FilesSound'
    BY <1>1, <1>3, <2>1, <2>3 DEF Agree, FilesSound, Snapshots
  <2> QED
    BY <2>2, <2>3, <2>4 DEF Recoverable
<1> QED
  BY <1>2, <1>3 DEF SyncTruncated

LEMMA RepairTailKeeps ==
  ASSUME Recoverable, RepairTail
  PROVE  Recoverable'
<1>1. /\ step = "down" /\ step' = "down" /\ UNCHANGED <<snapshot, wal, link>>
      /\ UNCHANGED <<records, persisted, count, opening>>
      /\ tail' = [now |-> "clean", before |-> "clean"]
  BY DEF RepairTail, memory
<1>2. TypeOK'
  BY <1>1 DEF Recoverable, TypeOK, Tails
<1>3. TailSound' /\ MemorySound' /\ Stored' = Stored
  BY <1>1 DEF Recoverable, TailSound, MemorySound, Appending, Stored
<1>4. FilesSound'
  BY <1>1, <1>3 DEF Recoverable, FilesSound, Snapshots
<1> QED
  BY <1>2, <1>3, <1>4 DEF Recoverable

LEMMA LoadKeeps ==
  ASSUME Recoverable, Load
  PROVE  Recoverable' /\ Stored' = Stored /\ Asked' = <<>> /\ Asked = <<>>
<1>1. /\ step = "down" /\ tail.now = "clean" /\ TypeOK /\ link # "new"
      /\ UNCHANGED <<snapshot, wal, tail, link>>
      /\ records' = Stored /\ persisted' = Stored /\ count' = Len(wal.seen)
      /\ step' \in {"snapshot", "idle"} /\ opening' \in BOOLEAN
  BY DEF Load, Recoverable, TailSound, Stored, TypeOK
<1>2. TypeOK'
  BY <1>1, Types, ReplayType DEF TypeOK, Steps, Stored
<1>3. TailSound' /\ MemorySound' /\ Stored' = Stored
  BY <1>1 DEF TailSound, MemorySound, Appending, Stored
<1>4. FilesSound'
  BY <1>1, <1>3 DEF Recoverable, FilesSound, Snapshots
<1> QED
  BY <1>1, <1>2, <1>3, <1>4 DEF Recoverable, Asked, Appending

\* Whatever a crash leaves of the files gives the old records or the new ones.
LEMMA Survivors ==
  ASSUME Recoverable, NEW state \in Snapshots, NEW lines, NEW end, Survives(lines, end)
  PROVE  /\ lines \in Seq(Entries) /\ end # "garbled"
         /\ \/ Replay(state, lines) = Stored
            \/ Appending /\ Replay(state, lines) = records
<1>1. /\ TypeOK /\ Replay(state, wal.safe) = Stored /\ tail.now # "garbled"
      /\ wal.seen \in Seq(Entries) /\ wal.safe \in Seq(Entries)
  BY Types DEF Recoverable, FilesSound, TailSound
<1>2. CASE step \notin {"sync", "rollback"}
  BY <1>1, <1>2 DEF Recoverable, FilesSound, Survives
<1>3. CASE step \in {"sync", "rollback"}
  <2>1. /\ wal.size <= Len(wal.seen) /\ Appending /\ Stored = persisted
        /\ wal.seen \in {BeforeAppend, Append(BeforeAppend, Change(persisted, records))}
        /\ Replay(state, BeforeAppend) = persisted /\ tail.before = "clean"
    BY <1>3 DEF Recoverable, FilesSound, TailSound, Appending, Stored
  <2>2. Replay(state, wal.seen) \in {Stored, records}
    BY <1>3, <2>1, WholeEntry
  <2>3. BeforeAppend \in Seq(Entries)
    BY <1>1, <2>1, BeforeType
  <2>4. lines \in {wal.seen, wal.safe, BeforeAppend} /\ end # "garbled"
    BY <1>1, <2>1 DEF Survives, Joined, BeforeAppend
  <2>5. Replay(state, lines) \in {Stored, records}
    BY <1>1, <2>1, <2>2, <2>4
  <2> QED
    BY <1>1, <2>1, <2>3, <2>4, <2>5
<1> QED
  BY <1>2, <1>3

LEMMA CrashKeeps ==
  ASSUME Recoverable, Crash
  PROVE  /\ Recoverable'
         /\ Asked' = <<>>
         /\ Stored' = Stored \/ (Appending /\ Stored' = records)
<1>1. /\ TypeOK /\ link # "new" /\ step' = "down" /\ opening' = TRUE
      /\ records' = persisted /\ UNCHANGED <<persisted, count>>
  BY DEF Recoverable, TailSound, Crash
<1>2. PICK state \in Snapshots : snapshot' = [seen |-> state, safe |-> state]
  BY DEF Crash, Snapshots
<1>3. PICK lines \in {wal.seen, wal.safe, BeforeAppend}, end \in Tails :
        /\ Survives(lines, end)
        /\ wal' = [seen |-> lines, safe |-> lines, size |-> Len(lines)]
        /\ tail' = [now |-> end, before |-> end] /\ link' = link
  BY <1>1 DEF Crash, BeforeAppend
<1>4. /\ lines \in Seq(Entries) /\ Len(lines) \in Nat /\ end # "garbled"
      /\ \/ Replay(state, lines) = Stored
         \/ Appending /\ Replay(state, lines) = records
  BY <1>3, Survivors
<1>5. state \in States
  BY <1>1, Types DEF Snapshots
<1>6. TypeOK'
  BY <1>1, <1>2, <1>3, <1>4, <1>5 DEF TypeOK, Steps
<1>7. TailSound' /\ MemorySound' /\ Stored' = Replay(state, lines)
  BY <1>1, <1>2, <1>3, <1>4 DEF TailSound, MemorySound, Appending, Stored
<1>8. FilesSound'
  BY <1>1, <1>2, <1>3, <1>7 DEF FilesSound, Snapshots
<1> QED
  BY <1>1, <1>4, <1>6, <1>7, <1>8 DEF Recoverable, Asked, Appending

-----------------------------------------------------------------------------
(* The theorems.                                                             *)

LEMMA StepKeeps ==
  ASSUME NoSecondFault, Recoverable, [Next]_vars
  PROVE  Recoverable'
<1>1. CASE \E new \in States : Update(new)
  BY <1>1, UpdateKeeps
<1>2. CASE LinkJournal \/ WriteEntry \/ SyncEntry \/ Rollback
  BY <1>2, LinkJournalKeeps, WriteEntryKeeps, SyncEntryKeeps, RollbackKeeps
<1>3. CASE WriteSnapshot \/ SyncSnapshot \/ TruncateJournal \/ SyncTruncated
  BY <1>3, WriteSnapshotKeeps, SyncSnapshotKeeps, TruncateKeeps, SyncTruncatedKeeps
<1>4. CASE Crash \/ RepairTail \/ Load
  BY <1>4, CrashKeeps, RepairTailKeeps, LoadKeeps
<1>5. CASE UNCHANGED vars
  <2>1. /\ UNCHANGED <<records, persisted, count, opening>>
        /\ UNCHANGED <<snapshot, wal, tail, link, step>>
    BY <1>5 DEF vars, memory
  <2>2. TypeOK'
    BY <2>1 DEF Recoverable, TypeOK
  <2>3. TailSound' /\ MemorySound' /\ Stored' = Stored
    BY <2>1 DEF Recoverable, TailSound, MemorySound, Appending, Stored, Snapshots
  <2>4. FilesSound'
    BY <2>1, <2>3 DEF Recoverable, FilesSound, Snapshots, BeforeAppend
  <2> QED
    BY <2>2, <2>3, <2>4 DEF Recoverable
<1> QED
  BY <1>1, <1>2, <1>3, <1>4, <1>5 DEF Next

\* However the files are cut off, they hold the records before or after the
\* call in progress (saveLocked, compactLocked, rollbackJournal, loadJournal).
THEOREM AlwaysRecoverable ==
  ASSUME NoSecondFault
  PROVE  Spec => []Recoverable
<1>1. Recoverable /\ [Next]_vars => Recoverable'
  BY StepKeeps
<1> QED
  BY <1>1, Initially, PTL DEF Spec

\* A crash never leaves a journal that the next start cannot decode.
THEOREM AlwaysReopens ==
  ASSUME NoSecondFault
  PROVE  Spec => []Reopens
<1>1. Recoverable => Reopens
  BY DEF Recoverable, TailSound, Reopens
<1> QED
  BY <1>1, AlwaysRecoverable, PTL

\* Every step of the files is a step of the abstract store, or changes
\* nothing a caller or the next start can see.
LEMMA StepRefines ==
  ASSUME NoSecondFault, Recoverable, [Next]_vars
  PROVE  [DS!Next]_(DS!vars)
<1> DEFINE Same == UNCHANGED <<Stored, Asked>>
<1> SUFFICES DS!Next \/ Same
  BY DEF DS!vars
<1> USE DEF DS!None
<1>1. ASSUME NEW new \in States, Update(new) PROVE DS!Ask(new)
  <2>1. Stored' = Stored /\ Asked = <<>> /\ Asked' = <<new>>
    BY <1>1 DEF Update, Recoverable, MemorySound, Stored, Asked, Appending
  <2> QED
    BY <2>1 DEF DS!Ask
<1>2. CASE LinkJournal
  <2>1. CASE step' = "write"
    BY <1>2, <2>1 DEF LinkJournal, FailCall, memory, Stored, Asked, Appending
  <2>2. CASE step' # "write"
    <3>1. Stored' = Stored /\ Asked # <<>> /\ Asked' = <<>>
      BY <1>2, <2>2 DEF LinkJournal, FailCall, Stored, Asked, Appending
    <3> QED
      BY <3>1 DEF DS!Next, DS!Refuse
  <2> QED
    BY <2>1, <2>2
<1>3. CASE WriteEntry
  <2>1. step' \in {"sync", "rollback"} /\ step = "write"
        /\ UNCHANGED <<records, persisted>>
    BY <1>3 DEF WriteEntry, memory
  <2> QED
    BY <2>1 DEF Stored, Asked, Appending
<1>4. CASE SyncEntry
  <2>1. CASE step' = "rollback"
    <3>1. step = "sync" /\ UNCHANGED <<records, persisted>>
      BY <1>4, <2>1 DEF SyncEntry, memory
    <3> QED
      BY <2>1, <3>1 DEF Stored, Asked, Appending
  <2>2. CASE step' # "rollback"
    <3>1. /\ step = "sync" /\ step' \in {"snapshot", "idle"}
          /\ records' = records /\ persisted' = records
      BY <1>4, <2>2 DEF SyncEntry
    <3>2. Asked = <<records>> /\ Asked' = <<>> /\ Stored' = records
      BY <3>1 DEF Stored, Asked, Appending
    <3> QED
      BY <3>2 DEF DS!Next, DS!Succeed
  <2> QED
    BY <2>1, <2>2
<1>5. CASE Rollback
  <2>1. /\ step = "rollback" /\ step' = "idle"
        /\ records' = persisted /\ persisted' = persisted
    BY <1>5 DEF Rollback, FailCall
  <2>2. Asked = <<records>> /\ Asked' = <<>> /\ Stored' = Stored
    BY <2>1 DEF Stored, Asked, Appending
  <2> QED
    BY <2>2 DEF DS!Next, DS!Refuse
<1>6. CASE WriteSnapshot \/ SyncSnapshot \/ TruncateJournal \/ SyncTruncated
  <2>1. Agree
    BY <1>6, BetweenCalls DEF WriteSnapshot, SyncSnapshot, TruncateJournal, SyncTruncated
  <2>2. /\ step \in {"snapshot", "syncSnapshot", "truncate", "syncTruncated"}
        /\ step' \in {"syncSnapshot", "truncate", "syncTruncated", "idle", "down"}
        /\ records' = records
        /\ step' = "down" => UNCHANGED <<snapshot, wal>>
    BY <1>6 DEF WriteSnapshot, SyncSnapshot, TruncateJournal, SyncTruncated,
       StopCompacting, memory
  <2>3. Stored' = records /\ Stored = records
    BY <2>1, <2>2 DEF Agree, Stored, Appending, Snapshots
  <2>4. Asked = <<>> /\ Asked' = <<>>
    BY <2>2 DEF Asked, Appending
  <2> QED
    BY <2>3, <2>4
<1>7. CASE Crash
  <2>1. /\ Asked' = <<>>
        /\ Stored' = Stored \/ (Appending /\ Stored' = records)
    BY <1>7, CrashKeeps
  <2>2. Appending => Asked # <<>> /\ Asked[1] = records
    BY DEF Asked
  <2> QED
    BY <2>1, <2>2 DEF DS!Next, DS!Crash
<1>8. CASE RepairTail
  BY <1>8 DEF RepairTail, memory, Stored, Asked, Appending
<1>9. CASE Load
  BY <1>9, LoadKeeps
<1>10. CASE UNCHANGED vars
  BY <1>10 DEF vars, memory, Stored, Asked, Appending
<1>11. (\E new \in States : Update(new)) => DS!Next
  BY <1>1 DEF DS!Next, DS!States, States
<1> QED
  BY <1>2, <1>3, <1>4, <1>5, <1>6, <1>7, <1>8, <1>9, <1>10, <1>11 DEF Next

\* The files implement the durable store: a call takes effect for good or
\* not at all, whichever operation fails and whenever the process dies.
THEOREM JournalIsDurable ==
  ASSUME NoSecondFault
  PROVE  Spec => Refines
<1>1. Init => DS!Init
  <2> SUFFICES ASSUME Init PROVE DS!Init
    OBVIOUS
  <2>1. Stored = records /\ Asked = <<>> /\ records \in States
    BY DEF Init, Stored, Asked, Appending
  <2> QED
    BY <2>1 DEF DS!Init, DS!None, DS!States, States
<1>2. Recoverable /\ [Next]_vars => [DS!Next]_(DS!vars)
  BY StepRefines
<1> QED
  BY <1>1, <1>2, AlwaysRecoverable, PTL DEF Spec, Refines, DS!Spec
=============================================================================
