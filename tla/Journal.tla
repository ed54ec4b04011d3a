------------------------------ MODULE Journal ------------------------------
(* The files of the store (internal/state/store.go): an append-only journal  *)
(* of changes, a snapshot that replaces it from time to time, and the start  *)
(* that reads both.  One call at a time runs, under the store's mutex; every *)
(* file operation is a step of its own, may fail, and may be the last one    *)
(* before a crash.                                                           *)
(*                                                                           *)
(* Each file has two contents: the one the process sees and the one that is  *)
(* safe.  Syncing makes the first the second; a crash leaves one of the two, *)
(* or, of an entry being appended, a part.  What survived counts as safe.    *)
(* The store has been opened once before, so there is a snapshot.            *)
EXTENDS Naturals, Sequences

CONSTANTS
  Keys,           \* record keys
  Contents,       \* records, with one value that stands for no record
  CompactAt,      \* journalEntries at which the journal is compacted
  MaxLines,       \* bound: journalEntries when a call begins
  RollbackFails,  \* undoing a failed append may fail, too
  LinkSyncFails   \* creating the journal may fail with the file there and the
                  \* directory not synced: at the sync, or at the Chmod before

ASSUME JournalAssumption ==
  /\ CompactAt \in Nat \ {0} /\ MaxLines \in Nat
  /\ {RollbackFails, LinkSyncFails} \subseteq BOOLEAN

VARIABLES
  records,    \* the records in memory
  persisted,  \* the records memory believes to be on disk
  snapshot,   \* [seen, safe]: the content of the snapshot file
  wal,        \* [seen, safe]: the complete entries in the journal; size: how
              \* many there were before the present append
  tail,       \* [now]: what follows them; before: the same, before the append
  link,       \* the journal's directory entry
  count,      \* journalEntries
  step,       \* the next file operation
  opening     \* the store is being opened: an error ends the process

memory == <<records, persisted, count, opening>>
vars == <<memory, snapshot, wal, tail, link, step>>

States == [Keys -> Contents]
\* A journal entry holds the changed keys only.
Entries == UNION {[changed -> Contents] : changed \in SUBSET Keys}

Steps == {"down", "idle", "link", "write", "sync", "rollback", "snapshot",
          "syncSnapshot", "truncate", "syncTruncated"}
\* "bare": the last entry lacks its newline; "torn": a part of an entry
\* follows; "garbled": another entry was appended to such a tail.
Tails == {"clean", "bare", "torn", "garbled"}

TypeOK ==
  /\ records \in States /\ persisted \in States
  /\ snapshot \in [seen : States, safe : States]
  /\ wal \in [seen : Seq(Entries), safe : Seq(Entries), size : Nat]
  /\ tail \in [now : Tails, before : Tails]
  /\ link \in {"absent", "new", "safe"}
  /\ count \in Nat /\ step \in Steps /\ opening \in BOOLEAN

-----------------------------------------------------------------------------
(* Entries.                                                                  *)

Change(old, new) == [k \in {k \in Keys : old[k] # new[k]} |-> new[k]]

\* Replaying entries one after the other: the last one that has a key decides.
Mentions(lines, k) == {n \in 1 .. Len(lines) : k \in DOMAIN lines[n]}
Latest(numbers) == CHOOSE n \in numbers : \A m \in numbers : m <= n
Replay(state, lines) ==
  [k \in Keys |-> IF Mentions(lines, k) = {} THEN state[k]
                  ELSE lines[Latest(Mentions(lines, k))][k]]

-----------------------------------------------------------------------------
(* update and saveLocked.                                                    *)

Init ==
  /\ records \in States /\ persisted = records
  /\ snapshot = [seen |-> records, safe |-> records]
  /\ wal = [seen |-> <<>>, safe |-> <<>>, size |-> 0]
  /\ tail = [now |-> "clean", before |-> "clean"]
  /\ link = "absent" /\ count = 0 /\ step = "idle" /\ opening = FALSE

\* The call reports an error and puts the old records back.
FailCall == records' = persisted /\ step' = "idle" /\ UNCHANGED <<persisted, count, opening>>

Update(new) ==
  /\ step = "idle" /\ new # records /\ count < MaxLines
  /\ records' = new /\ step' = "link"
  /\ UNCHANGED <<persisted, count, opening, snapshot, wal, tail, link>>

\* Opening the journal; a new one is entered into the directory first.
LinkJournal ==
  /\ step = "link"
  /\ \/ /\ step' = "write" /\ link' = (IF link = "absent" THEN "safe" ELSE link)
        /\ UNCHANGED memory
     \/ FailCall /\ UNCHANGED link
     \/ LinkSyncFails /\ link = "absent" /\ link' = "new" /\ FailCall
  /\ UNCHANGED <<snapshot, wal, tail>>

\* What a write that ends with new makes of a tail.
Joined(end, new) == IF end = "clean" THEN new ELSE "garbled"

WriteEntry ==
  LET grown == [seen |-> Append(wal.seen, Change(persisted, records)),
                safe |-> wal.safe, size |-> Len(wal.seen)]
  IN /\ step = "write"
     /\ \/ wal' = grown /\ tail' = [now |-> Joined(tail.now, "clean"), before |-> tail.now]
           /\ step' = "sync"
        \/ wal' = grown /\ tail' = [now |-> Joined(tail.now, "bare"), before |-> tail.now]
           /\ step' = "rollback"
        \/ \E part \in {tail.now, Joined(tail.now, "torn")} :
             /\ wal' = [wal EXCEPT !.size = Len(wal.seen)]
             /\ tail' = [now |-> part, before |-> tail.now]
             /\ step' = "rollback"
     /\ UNCHANGED <<memory, snapshot, link>>

SyncEntry ==
  /\ step = "sync"
  /\ \/ /\ wal' = [wal EXCEPT !.safe = wal.seen]
        /\ persisted' = records /\ count' = count + 1
        /\ step' = (IF count + 1 >= CompactAt THEN "snapshot" ELSE "idle")
        /\ UNCHANGED <<records, opening>>
     \/ step' = "rollback" /\ UNCHANGED <<memory, wal>>
  /\ UNCHANGED <<snapshot, tail, link>>

\* Mutant: a failed append is not undone.
Rollback_Skipped ==
  /\ step = "rollback" /\ FailCall
  /\ UNCHANGED <<snapshot, wal, tail, link>>

\* rollbackJournal cuts the file back to its old size and syncs it.
Rollback ==
  LET old == SubSeq(wal.seen, 1, wal.size)
  IN /\ step = "rollback" /\ FailCall
     /\ \/ /\ wal' = [wal EXCEPT !.seen = old, !.safe = old]
           /\ tail' = [tail EXCEPT !.now = tail.before]
        \/ RollbackFails /\ UNCHANGED <<wal, tail>>
        \/ /\ RollbackFails /\ wal' = [wal EXCEPT !.seen = old]
           /\ tail' = [tail EXCEPT !.now = tail.before]
     /\ UNCHANGED <<snapshot, link>>

-----------------------------------------------------------------------------
(* compactLocked.  Its failure is only logged, unless the store is opening.  *)

StopCompacting == step' = (IF opening THEN "down" ELSE "idle") /\ UNCHANGED memory

\* The temporary file is complete and synced before it is renamed.
WriteSnapshot ==
  /\ step = "snapshot"
  /\ \/ /\ snapshot' = [snapshot EXCEPT !.seen = records]
        /\ step' = "syncSnapshot" /\ UNCHANGED memory
     \/ StopCompacting /\ UNCHANGED snapshot
  /\ UNCHANGED <<wal, tail, link>>

\* Mutant: the journal is cut before the directory is synced.
SyncSnapshot_TooLate ==
  /\ step = "syncSnapshot"
  /\ step' = "truncate" /\ UNCHANGED <<memory, snapshot, wal, tail, link>>

SyncSnapshot ==
  /\ step = "syncSnapshot"
  /\ \/ /\ snapshot' = [snapshot EXCEPT !.safe = snapshot.seen]
        /\ link' = (IF link = "new" THEN "safe" ELSE link)
        /\ step' = "truncate" /\ UNCHANGED memory
     \/ StopCompacting /\ UNCHANGED <<snapshot, link>>
  /\ UNCHANGED <<wal, tail>>

TruncateJournal ==
  /\ step = "truncate"
  /\ \/ /\ wal' = [wal EXCEPT !.seen = <<>>, !.size = 0]
        /\ tail' = [now |-> "clean", before |-> "clean"]
        /\ step' = "syncTruncated" /\ UNCHANGED memory
     \/ StopCompacting /\ UNCHANGED <<wal, tail>>
  /\ UNCHANGED <<snapshot, link>>

SyncTruncated ==
  /\ step = "syncTruncated"
  /\ \/ /\ wal' = [wal EXCEPT !.safe = <<>>]
        /\ count' = 0 /\ opening' = FALSE /\ step' = "idle"
        /\ UNCHANGED <<records, persisted>>
     \/ StopCompacting /\ UNCHANGED wal
  /\ UNCHANGED <<snapshot, tail, link>>

-----------------------------------------------------------------------------
(* Crash and OpenFileStore.                                                  *)

\* What a crash may leave of the journal: one of its contents, or a part of
\* the entry that was being appended.
Survives(lines, end) ==
  \/ lines = wal.seen /\ end = tail.now
  \/ lines = wal.safe /\ end = "clean"
  \/ /\ step \in {"sync", "rollback"} /\ Len(wal.seen) > wal.size
     /\ \/ lines = SubSeq(wal.seen, 1, wal.size) /\ end \in {tail.before, Joined(tail.before, "torn")}
        \/ lines = wal.seen /\ end = Joined(tail.before, "bare")

\* The end of the process, with or without the machine.  What is left counts as
\* safe from then on.
Crash ==
  /\ step' = "down" /\ opening' = TRUE
  /\ records' = persisted /\ UNCHANGED <<persisted, count>>
  /\ \E state \in {snapshot.seen, snapshot.safe} :
       snapshot' = [seen |-> state, safe |-> state]
  /\ \/ \E lines \in {wal.seen, wal.safe, SubSeq(wal.seen, 1, wal.size)}, end \in Tails :
          /\ Survives(lines, end)
          /\ wal' = [seen |-> lines, safe |-> lines, size |-> Len(lines)]
          /\ tail' = [now |-> end, before |-> end]
          /\ link' = (IF link = "new" THEN "safe" ELSE link)
     \/ /\ link = "new" /\ link' = "absent"
        /\ wal' = [seen |-> <<>>, safe |-> <<>>, size |-> 0]
        /\ tail' = [now |-> "clean", before |-> "clean"]

\* loadJournal drops a torn tail and completes a bare one.
RepairTail ==
  /\ step = "down" /\ tail.now \in {"torn", "bare"}
  /\ tail' = [now |-> "clean", before |-> "clean"]
  /\ UNCHANGED <<memory, snapshot, wal, link, step>>

\* Mutant: a last entry without its newline is taken as it is.
Load_WithoutDelimiter ==
  /\ step = "down" /\ tail.now \in {"clean", "bare"}
  /\ records' = Replay(snapshot.seen, wal.seen) /\ persisted' = records'
  /\ count' = Len(wal.seen) /\ step' = "idle" /\ opening' = FALSE
  /\ UNCHANGED <<snapshot, wal, tail, link>>

\* An entry that cannot be decoded anywhere else keeps the store from opening.
Load ==
  /\ step = "down" /\ tail.now = "clean"
  /\ records' = Replay(snapshot.seen, wal.seen) /\ persisted' = records'
  /\ count' = Len(wal.seen)
  /\ IF Len(wal.seen) >= CompactAt THEN step' = "snapshot" /\ UNCHANGED opening
     ELSE step' = "idle" /\ opening' = FALSE
  /\ UNCHANGED <<snapshot, wal, tail, link>>

Next ==
  \/ \E new \in States : Update(new)
  \/ LinkJournal \/ WriteEntry \/ SyncEntry \/ Rollback
  \/ WriteSnapshot \/ SyncSnapshot \/ TruncateJournal \/ SyncTruncated
  \/ Crash \/ RepairTail \/ Load

Spec == Init /\ [][Next]_vars

-----------------------------------------------------------------------------
(* What the files promise.                                                   *)

Appending == step \in {"link", "write", "sync", "rollback"}

\* The records as a reader finds them: after a crash the files decide, during
\* a call its change is not there yet, between calls memory serves them.
Stored == IF step = "down" THEN Replay(snapshot.seen, wal.seen)
          ELSE IF Appending THEN persisted ELSE records
Asked == IF Appending THEN <<records>> ELSE <<>>

DS == INSTANCE DurableStore WITH stored <- Stored, asked <- Asked

\* Whatever file operation fails, and whenever the process dies, a call takes
\* effect for good or not at all (saveLocked, compactLocked, loadJournal).
Refines == DS!Spec

\* What a crash leaves can be opened: an entry is never appended to the
\* remains of another, which loadJournal would refuse to decode.
Reopens == tail.now # "garbled"

-----------------------------------------------------------------------------
(* Why it holds: the inductive invariant.                                    *)

Snapshots == {snapshot.seen, snapshot.safe}
BeforeAppend == SubSeq(wal.seen, 1, wal.size)

\* Only an append in progress, or a crash, leaves a tail.
TailSound ==
  /\ tail.now # "garbled"
  /\ step \notin {"rollback", "down"} => tail.now = "clean"
  /\ step \in {"sync", "rollback"} => tail.before = "clean"
  /\ link # "new"

\* Between calls memory and the files agree, and where the compaction
\* discards something the new snapshot is already safe.
MemorySound ==
  /\ step # "down" /\ ~Appending => records = persisted
  /\ step = "syncSnapshot" => snapshot.seen = records
  /\ step \in {"truncate", "syncTruncated"} => Snapshots = {records}
  /\ step = "syncTruncated" => wal.seen = <<>>

\* Any snapshot with any journal that a crash may leave gives the stored
\* records, or, with the whole new entry, those of the call.
FilesSound ==
  LET appended == step \in {"sync", "rollback"}
  IN /\ \A state \in Snapshots : Replay(state, wal.safe) = Stored
     /\ ~appended => \A state \in Snapshots : Replay(state, wal.seen) = Stored
     /\ appended =>
          /\ wal.size <= Len(wal.seen)
          /\ wal.seen \in {BeforeAppend, Append(BeforeAppend, Change(persisted, records))}
          /\ \A state \in Snapshots : Replay(state, BeforeAppend) = persisted
     /\ step = "sync" =>
          wal.seen = Append(BeforeAppend, Change(persisted, records))

\* However the files are cut off, they hold the records before or after the
\* call in progress (saveLocked, compactLocked, rollbackJournal).
Recoverable == TypeOK /\ TailSound /\ MemorySound /\ FilesSound
=============================================================================
