------------------------------- MODULE Store -------------------------------
(* The durable store (internal/state/store.go) as its callers see it: the    *)
(* record of every job key, the index from runner identity to job key, the   *)
(* completion markers, admission at claim time, completion events and        *)
(* restart.  A critical section of the mutex is a step, and its journal      *)
(* entry is on disk when it ends.  A call is one critical section, except    *)
(* for MarkProvisioned, which indexes the runner in a second one.  A call    *)
(* whose journal write fails changes nothing and returns an error; faults    *)
(* bounds these.                                                             *)
EXTENDS RunnerRecord, FiniteSets

CONSTANTS
  MaxLive,    \* maxLiveRunners: the admission ceiling
  MaxFaults   \* bound: failed journal writes in a behaviour

ASSUME CeilingAssumption == MaxLive \in Nat \ {0}
ASSUME FaultsAssumption == MaxFaults \in Nat

VARIABLES
  records,     \* job -> Record; status "absent" where the map has no entry
  runnerKeys,  \* runner -> job whose record issued it, or NoJob
  markers,     \* runner -> job of an unmatched completion, or NoJob
  faults       \* failed journal writes so far

storeVars == <<records, runnerKeys, markers, faults>>

StoreTypeOK ==
  /\ records \in [Jobs -> Record]
  /\ runnerKeys \in [Runners -> Jobs \cup {NoJob}]
  /\ markers \in [Runners -> Jobs \cup {NoJob}]
  /\ faults \in 0 .. MaxFaults

StoreInit ==
  /\ records = [j \in Jobs |-> Absent]
  /\ runnerKeys = [i \in Runners |-> NoJob]
  /\ markers = [i \in Runners |-> NoJob]
  /\ faults = 0

-----------------------------------------------------------------------------
(* Single-record calls.                                                      *)

\* update: the mutated record is journalled and replaces the old one.
Put(j, r) ==
  /\ records' = [records EXCEPT ![j] = r]
  /\ UNCHANGED <<runnerKeys, markers, faults>>

\* saveLocked fails: the record is put back and the caller gets the error.
PutFails ==
  /\ faults < MaxFaults
  /\ faults' = faults + 1
  /\ UNCHANGED <<records, runnerKeys, markers>>

\* MarkJITCreated: stores the identity, consumes the marker of a completion
\* that overtook it and indexes the runner, unless the record is settled.
PutJIT(j, id) ==
  /\ records' = [records EXCEPT ![j] = MarkJITCreated(@, j, id, markers[id])]
  /\ IF Settled(records[j]) THEN UNCHANGED <<runnerKeys, markers>>
     ELSE /\ runnerKeys' = [runnerKeys EXCEPT ![id] = j]
          /\ markers' = [markers EXCEPT ![id] = NoJob]
  /\ UNCHANGED faults

\* MarkProvisioned, its first critical section: the instance is stored, with
\* the runner identity of the caller.
PutInstance(j, i, id) == Put(j, MarkProvisioned(records[j], i, id))

\* Its second one: the identity is indexed, whatever the record says by now.
IndexInstance(j, id) ==
  /\ runnerKeys' = [runnerKeys EXCEPT ![id] = j]
  /\ UNCHANGED <<records, markers, faults>>

\* Create: a queued delivery for a key that has a record is a duplicate.
CreateRecord(j) ==
  /\ records[j].status = "absent"
  /\ Put(j, NewDemand)

-----------------------------------------------------------------------------
(* ClaimNext.                                                                *)

LiveRunners == Cardinality({j \in Jobs : CountsAsLive(records[j])})

\* Mutant: off by one.
CanProvision_OneMore(r) == LiveRunners <= MaxLive

CanProvision(r) == LiveRunners < MaxLive \/ (LiveRunners = MaxLive /\ HoldsSlot(r))

Claimable(r) == (WantsProvision(r) /\ CanProvision(r)) \/ WantsDelete(r)

Claimed(r) == IF r.status = "pending" THEN ClaimProvision(r) ELSE ClaimDelete(r)

\* One scan in key order: exhausted records met before the first claimable
\* one become terminal, that one is claimed, later ones are not looked at.
ClaimFirst(j) ==
  /\ Claimable(records[j])
  /\ \A k \in Jobs : k < j => ~Claimable(records[k])
  /\ records' = [k \in Jobs |-> IF k = j THEN Claimed(records[k])
                                ELSE IF k < j THEN Backstop(records[k])
                                ELSE records[k]]
  /\ UNCHANGED <<runnerKeys, markers, faults>>

\* A scan that finds nothing to claim still retires the exhausted records.
ScanWithoutClaim ==
  /\ \A k \in Jobs : ~Claimable(records[k])
  /\ \E k \in Jobs : Backstop(records[k]) # records[k]
  /\ records' = [k \in Jobs |-> Backstop(records[k])]
  /\ UNCHANGED <<runnerKeys, markers, faults>>

\* The write for record j fails and ends the scan with an error; the records
\* retired before it stay retired.
ScanStops(j) ==
  /\ faults < MaxFaults
  /\ faults' = faults + 1
  /\ \A k \in Jobs : k < j => ~Claimable(records[k])
  /\ Claimable(records[j]) \/ Backstop(records[j]) # records[j]
  /\ records' = [k \in Jobs |-> IF k < j THEN Backstop(records[k]) ELSE records[k]]
  /\ UNCHANGED <<runnerKeys, markers>>

-----------------------------------------------------------------------------
(* RecordCompletion, OwnsRunner and restart.                                 *)

\* The key whose record issued the runner and still owns it, or NoJob.
MatchedKey(id) ==
  IF id \notin Runners \/ runnerKeys[id] = NoJob THEN NoJob
  ELSE LET r == records[runnerKeys[id]]
       IN IF r.status \notin {"absent", "deleted"} /\ r.runner = id
          THEN runnerKeys[id] ELSE NoJob

OwnsRunner(id) == MatchedKey(id) # NoJob

\* Job k finished on runner id; NoRunner when it was cancelled before it ran,
\* and an id outside Runners when this controller never issued the runner:
\* the marker of such an id can meet no MarkJITCreated and is left out.
RecordCompletion(k, id) ==
  LET matched == MatchedKey(id)
      unmatched == id \in Runners /\ matched = NoJob
  IN /\ records' = [j \in Jobs |->
                     IF j = matched THEN MatchedCompletion(records[j], j = k)
                     ELSE IF j = k THEN EventCompletion(records[j], id)
                     ELSE records[j]]
     /\ markers' = IF unmatched THEN [markers EXCEPT ![id] = k] ELSE markers
     /\ runnerKeys' = IF unmatched THEN [runnerKeys EXCEPT ![id] = NoJob] ELSE runnerKeys
     /\ UNCHANGED faults

\* Mutant: only provisioned records are indexed.
RebuiltIndex_Provisioned(recovered) ==
  [id \in Runners |->
     IF \E j \in Jobs : recovered[j].runner = id /\ recovered[j].status = "provisioned"
     THEN CHOOSE j \in Jobs : recovered[j].runner = id /\ recovered[j].status = "provisioned"
     ELSE NoJob]

\* rebuildRunnerIndexLocked, over the recovered records.
RebuiltIndex(recovered) ==
  [id \in Runners |->
     IF \E j \in Jobs : recovered[j].runner = id
                        /\ recovered[j].status \notin {"absent", "deleted"}
     THEN CHOOSE j \in Jobs : recovered[j].runner = id
                              /\ recovered[j].status \notin {"absent", "deleted"}
     ELSE NoJob]

RecoveredRecords == [j \in Jobs |-> RecoverRecord(records[j])]

\* OpenFileStore after the process has gone: only memory is lost.
Reopen ==
  /\ records' = RecoveredRecords
  /\ runnerKeys' = RebuiltIndex(RecoveredRecords)
  /\ UNCHANGED <<markers, faults>>

-----------------------------------------------------------------------------
(* Time and retention.                                                       *)

\* The retry time of a deferred record passes.
BecomeDue(j) ==
  /\ ~records[j].due
  /\ Put(j, [records[j] EXCEPT !.due = TRUE])

Prunable(r) ==
  \/ r.status = "deleted"
  \/ r.status = "orphaned" /\ r.instance = NoInstance /\ r.runner = NoRunner

\* PruneDeleted, for a record whose retention window has passed.
PruneDeleted(j) ==
  /\ Prunable(records[j])
  /\ Put(j, Absent)
=============================================================================
