----------------------------- MODULE BusyProofs -----------------------------
(* Busy runners are spared, for every set of jobs, instances and workers:    *)
(* short of MAX_RUNNER_AGE, and unless the outcome of a create is lost, no   *)
(* path of provision, delete or the reaper deletes an instance whose runner  *)
(* executes a job.  Nothing in the code looks at the job before it deletes.  *)
(* The argument is that whatever sends a record to deletion has learned that *)
(* the runner of the record is gone, and that it stays gone.                 *)
EXTENDS AdmissionProofs

-----------------------------------------------------------------------------
(* The invariant.                                                            *)

\* No instance of the job can have a job to execute.
Finished(j) == \A i \in Instances : vm[i].job = j => vm[i].runner \notin registered

\* The record is being deleted, or ClaimNext may claim it for that.
Condemned(r) ==
  r.claim = "delete" \/ r.status = "deleting" \/ (r.status = "completed" /\ ~r.defer)

CondemnedFinished == \A j \in Jobs : Condemned(records[j]) => Finished(j)

\* A completion that condemns a record in the hands of a provisioning worker
\* is that of a runner, so its instance is there and no other will be made.
Provided(r) == r.claim = "provision" /\ Condemned(r)

ProvidedTraced == \A j \in Jobs : Provided(records[j]) => Traced(j)

\* Hence no completion can be waiting for an identity that is yet to be stored.
MarkersRan ==
  /\ \A id \in Runners : markers[id] # NoJob => \E i \in Instances : vm[i].runner = id
  /\ \A w \in Workers : At(w, "persistJIT") => worker[w].jit \in Runners

\* A worker deletes by id an instance of the job it works for.
Aimed ==
  \A w \in Workers : At(w, "vmDelete") =>
    LET i == worker[w].rec.instance
    IN i \in Instances /\ vm[i].job = worker[w].job

\* The reaper schedules the deletion of a copy whose runner is gone; and short
\* of MAX_RUNNER_AGE it lists those with an instance that await just that.
ReaperAims ==
  /\ reaper.pc = "schedule" => reaper.rec.runner \notin registered
  /\ \A j \in Jobs : reaper.todo[j].instance # NoInstance => reaper.todo[j].defer

\* What has executed a job is gone.
JobsEnd ==
  \A j \in Jobs :
    /\ jobState[j] = "queued" => ranOn[j] = NoRunner
    /\ jobState[j] = "running" => ranOn[j] # NoRunner
    /\ jobState[j] = "done" => ranOn[j] \notin registered

BInv ==
  /\ CondemnedFinished /\ ProvidedTraced /\ MarkersRan /\ Aimed /\ ReaperAims /\ JobsEnd

LEMMA SparedInitially == Init => BInv
<1> SUFFICES ASSUME Init PROVE BInv
  OBVIOUS
<1>1. \A j \in Jobs : ~Condemned(records[j])
  BY DEF Init, StoreInit, Absent, Condemned, NoClaim
<1>2. \A w \in Workers : ~At(w, "vmDelete") /\ ~At(w, "persistJIT")
  BY DEF Init, WorkerInit, Idle, At
<1>3. MarkersRan
  BY <1>2 DEF Init, StoreInit, MarkersRan
<1>4. ReaperAims
  BY DEF Init, ReaperInit, ReaperIdle, NothingListed, Absent, ReaperAims
<1>5. JobsEnd
  BY DEF Init, GitHubInit, JobsEnd
<1> QED
  BY <1>1, <1>2, <1>3, <1>4, <1>5
     DEF BInv, CondemnedFinished, ProvidedTraced, Provided, Aimed

-----------------------------------------------------------------------------
(* Records.  What no mutator does but those that know the runner is gone:    *)
(* send a record to deletion.                                                *)

Spares(r, s) ==
  (Condemned(s) => Condemned(r)) /\ (Provided(s) => Provided(r))

LEMMA SparesItself == \A r : Spares(r, r)
  BY DEF Spares

LEMMA WorkSpares ==
  ASSUME NEW r \in Record, Orderly(r)
  PROVE  /\ Spares(r, Backstop(r))
         /\ \A kind \in WorkKinds : /\ Spares(r, ReleaseClaim(r, kind))
                                    /\ Spares(r, DeferRateLimitedWork(r, kind))
         /\ Spares(r, DeferProvisioningDemand(r))
         /\ r.claim = "provision" => Spares(r, MarkProvisionFailed(r))
         /\ r.claim = "delete" => Spares(r, MarkDeleteFailed(r))
<1> USE DEF Spares, Provided, Condemned, Orderly, Record, Settled, Refund, NoClaim
<1>1. ASSUME NEW s, s = Backstop(r) PROVE Spares(r, s)
  BY <1>1 DEF Backstop
<1>2. ASSUME NEW kind \in WorkKinds, NEW s, s = ReleaseClaim(r, kind) PROVE Spares(r, s)
  BY <1>2 DEF ReleaseClaim, WorkKinds
<1>3. ASSUME NEW kind \in WorkKinds, NEW s, s = DeferRateLimitedWork(r, kind)
      PROVE  Spares(r, s)
  BY <1>3 DEF DeferRateLimitedWork, WorkKinds
<1>4. ASSUME NEW s, s = DeferProvisioningDemand(r) PROVE Spares(r, s)
  BY <1>4 DEF DeferProvisioningDemand
<1>5. ASSUME NEW s, s = MarkProvisionFailed(r), r.claim = "provision" PROVE Spares(r, s)
  BY <1>5 DEF MarkProvisionFailed
<1>6. ASSUME NEW s, s = MarkDeleteFailed(r), r.claim = "delete" PROVE Spares(r, s)
  BY <1>6 DEF MarkDeleteFailed
<1> HIDE DEF Spares
<1> QED
  BY <1>1, <1>2, <1>3, <1>4, <1>5, <1>6

LEMMA DeletionSpares ==
  ASSUME NEW r \in Record, Orderly(r)
  PROVE  /\ Spares(r, DeferDeletionConfirmation(r))
         /\ Spares(r, DeferReassignmentDemand(r))
         /\ \A i : Spares(r, MarkDeletionAccepted(r, i))
         /\ r.claim = "delete" => \A queued : Spares(r, FinishDeletedRunner(r, queued))
         /\ Spares(r, MarkOrphaned(r)) /\ Spares(r, ClearJIT(r)) /\ Spares(r, MarkDeleted(r))
<1> USE DEF Spares, Provided, Condemned, Orderly, Record, Settled, Refund, NoClaim
<1>1. ASSUME NEW s, s = DeferDeletionConfirmation(r) PROVE Spares(r, s)
  BY <1>1 DEF DeferDeletionConfirmation
<1>2. ASSUME NEW s, s = DeferReassignmentDemand(r) PROVE Spares(r, s)
  BY <1>2 DEF DeferReassignmentDemand
<1>3. ASSUME NEW i, NEW s, s = MarkDeletionAccepted(r, i) PROVE Spares(r, s)
  BY <1>3 DEF MarkDeletionAccepted
<1>4. ASSUME r.claim = "delete", NEW queued, NEW s, s = FinishDeletedRunner(r, queued)
      PROVE  Spares(r, s)
  BY <1>4 DEF FinishDeletedRunner, MarkDeleted
<1>5. ASSUME NEW s, s = MarkOrphaned(r) PROVE Spares(r, s)
  BY <1>5 DEF MarkOrphaned
<1>6. ASSUME NEW s, s = ClearJIT(r) PROVE Spares(r, s)
  BY <1>6 DEF ClearJIT
<1>7. ASSUME NEW s, s = MarkDeleted(r) PROVE Spares(r, s)
  BY <1>7 DEF MarkDeleted
<1> HIDE DEF Spares
<1> QED
  BY <1>1, <1>2, <1>3, <1>4, <1>5, <1>6, <1>7

LEMMA EventsSpare ==
  ASSUME NEW r \in Record, Orderly(r)
  PROVE  /\ Spares(r, [r EXCEPT !.due = TRUE])
         /\ \A id : Spares(r, EventCompletion(r, id))
         /\ Spares(r, RecoverRecord(r))
         /\ Spares(r, Absent) /\ Spares(r, NewDemand)
<1> USE DEF Spares, Provided, Condemned, Orderly, Record, Settled, NoClaim
<1>1. ASSUME NEW s, s = [r EXCEPT !.due = TRUE] PROVE Spares(r, s)
  BY <1>1
<1>2. ASSUME NEW id, NEW s, s = EventCompletion(r, id) PROVE Spares(r, s)
  BY <1>2 DEF EventCompletion, Absent
<1>3. ASSUME NEW s, s = RecoverRecord(r) PROVE Spares(r, s)
  BY <1>3 DEF RecoverRecord, Refund
<1>4. Spares(r, Absent) /\ Spares(r, NewDemand)
  BY DEF NewDemand, Absent
<1> HIDE DEF Spares
<1> QED
  BY <1>1, <1>2, <1>3, <1>4

LEMMA CleanupSpares ==
  ASSUME NEW r \in Record, Orderly(r)
  PROVE  /\ Spares(r, BeginCleanupAttempt(r))
         /\ \A a \in BOOLEAN : Spares(r, DeferRateLimitedCleanup(r, a))
         /\ \A a, b \in BOOLEAN : Spares(r, DeferReconciliation(r, a, b))
<1> USE DEF Spares, Provided, Condemned, Orderly, Record, Settled, NoClaim
<1>1. ASSUME NEW s, s = BeginCleanupAttempt(r) PROVE Spares(r, s)
  BY <1>1 DEF BeginCleanupAttempt, CleanupReady
<1>2. ASSUME NEW a \in BOOLEAN, NEW s, s = DeferRateLimitedCleanup(r, a) PROVE Spares(r, s)
  BY <1>2 DEF DeferRateLimitedCleanup
<1>3. ASSUME NEW a \in BOOLEAN, NEW b \in BOOLEAN, NEW s, s = DeferReconciliation(r, a, b)
      PROVE  Spares(r, s)
  BY <1>3 DEF DeferReconciliation
<1> HIDE DEF Spares
<1> QED
  BY <1>1, <1>2, <1>3

LEMMA ProvisioningSpares ==
  ASSUME NEW r \in Record, Orderly(r), r.claim = "provision"
  PROVE  /\ \A job, id : Spares(r, MarkJITCreated(r, job, id, NoJob))
         /\ \A i, id : Spares(r, MarkProvisioned(r, i, id))
<1> USE DEF Spares, Provided, Condemned, Orderly, Record, Settled, NoClaim
<1>1. ASSUME NEW job, NEW id, NEW s, s = MarkJITCreated(r, job, id, NoJob)
      PROVE  Spares(r, s)
  BY <1>1 DEF MarkJITCreated
<1>2. ASSUME NEW i, NEW id, NEW s, s = MarkProvisioned(r, i, id) PROVE Spares(r, s)
  BY <1>2 DEF MarkProvisioned
<1> HIDE DEF Spares
<1> QED
  BY <1>1, <1>2

LEMMA ClaimedSpares ==
  ASSUME NEW r \in Record, Orderly(r), Claimable(r)
  PROVE  Spares(r, Claimed(r))
<1> SUFFICES ASSUME NEW s, s = Claimed(r) PROVE Spares(r, s)
  OBVIOUS
<1> QED
  BY DEF Spares, Provided, Condemned, Record, Claimable, WantsProvision, WantsDelete, Claimed,
     ClaimProvision, ClaimDelete

LEMMA SchedulingKeepsClaim ==
  ASSUME NEW r \in Record
  PROVE  /\ Provided(ScheduleDeletion(r)) => Provided(r)
         /\ ~Provided(MarkDeleteFailed(r)) \/ MarkDeleteFailed(r) = r
<1>1. ASSUME NEW s, s = ScheduleDeletion(r) PROVE Provided(s) => Provided(r)
  BY <1>1 DEF ScheduleDeletion, Provided, Record, NoClaim
<1>2. ASSUME NEW s, s = MarkDeleteFailed(r) PROVE ~Provided(s) \/ s = r
  BY <1>2 DEF MarkDeleteFailed, Provided, Record, NoClaim
<1> QED
  BY <1>1, <1>2

LEMMA MatchKeepsClaim ==
  ASSUME NEW r \in Record, NEW own \in BOOLEAN
  PROVE  MatchedCompletion(r, own).claim = r.claim
<1> SUFFICES ASSUME NEW s, s = MatchedCompletion(r, own) PROVE s.claim = r.claim
  OBVIOUS
<1> QED
  BY DEF MatchedCompletion, Record

-----------------------------------------------------------------------------
(* Steps.  A record comes to deletion only when its runner is gone.          *)

Spared(j) ==
  /\ Condemned(records'[j]) => Condemned(records[j]) \/ Finished(j)
  /\ Provided(records'[j]) =>
       records[j].claim = "provision" /\ (Condemned(records[j]) \/ Traced(j))

AllSpared == \A j \in Jobs : Spared(j)

\* The record of a job that is not traced can own no living runner.
LEMMA UntracedFinished ==
  ASSUME IInv, OInv, TracedInv, NEW j \in Jobs, ~Traced(j)
  PROVE  Finished(j)
<1> SUFFICES ASSUME NEW i \in Instances, vm[i].job = j, vm[i].runner \in registered
             PROVE  FALSE
  BY DEF Finished
<1>1. records[j].runner = vm[i].runner
  BY DEF OInv, Registrations
<1>2. vm[i].runner # NoRunner
  BY Ids, NothingIsNoId
<1> QED
  BY <1>1, <1>2 DEF TracedInv, StartedTraced

\* Nor can one that names no living runner.
LEMMA ForgottenFinished ==
  ASSUME OInv, NEW j \in Jobs, records[j].runner \notin registered
  PROVE  Finished(j)
  BY DEF Finished, OInv, Registrations

\* Without an instance, a record that nobody has claimed, or whose worker does
\* something else, is not traced.
LEMMA Untraced ==
  ASSUME IInv, NEW j \in Jobs, records[j].instance = NoInstance,
         \A w \in Workers : At(w, "persistVM") => worker[w].job # j
  PROVE  ~Traced(j)
  BY DEF Traced

LEMMA UntrackedFinished ==
  ASSUME IInv, OInv, TracedInv, NEW j \in Jobs, Untracked(records[j])
  PROVE  Finished(j)
<1>1. ASSUME NEW w \in Workers, At(w, "persistVM"), worker[w].job = j PROVE FALSE
  <2>1. Working(w) /\ KindOf(w) = "provision"
    BY <1>1 DEF At, Working, KindOf, ProvisionPcs
  <2> QED
    BY <1>1, <2>1, WorkingFacts DEF Untracked, NoClaim
<1> QED
  BY <1>1, Untraced, UntracedFinished DEF Untracked

\* A provisioning worker that is not about to record an instance has none.
LEMMA ProvisioningFinished ==
  ASSUME IInv, OInv, TracedInv, NEW w \in Workers, Working(w), KindOf(w) = "provision",
         ~At(w, "persistVM")
  PROVE  worker[w].job \in Jobs /\ Finished(worker[w].job) /\ ~Traced(worker[w].job)
<1> DEFINE j == worker[w].job
<1>1. j \in Jobs /\ records[j].instance = NoInstance
  BY WorkingFacts DEF Sound
<1>2. ASSUME NEW v \in Workers, At(v, "persistVM"), worker[v].job = j PROVE FALSE
  <2>1. Working(v) /\ v # w
    BY <1>2 DEF At, Working
  <2> QED
    BY <1>2, <2>1 DEF IInv, ClaimsExclusive
<1> QED
  BY <1>1, <1>2, Untraced, UntracedFinished

LEMMA SparesSpared ==
  ASSUME NEW j \in Jobs, Spares(records[j], records'[j])
  PROVE  Spared(j)
  BY DEF Spares, Spared, Provided

LEMMA SameSpared == records' = records => AllSpared
  BY SparesItself, SparesSpared DEF AllSpared

LEMMA OrderlyRecords ==
  IInv /\ OInv => \A j \in Jobs : records[j] \in Record /\ Orderly(records[j])
  BY Ids DEF OInv, RecordsOrderly

LEMMA PutSpared ==
  ASSUME IInv, NEW j \in Jobs, NEW s, records' = [records EXCEPT ![j] = s],
         Spares(records[j], s)
  PROVE  AllSpared
<1>1. \A k \in Jobs : records'[k] = IF k = j THEN s ELSE records[k]
  BY DEF IInv, TypeOK, StoreTypeOK
<1> QED
  BY <1>1, SparesItself, SparesSpared DEF AllSpared

LEMMA RemoteSpared ==
  ASSUME NEW w \in Workers,
         \/ Deregister(w) \/ Find(w) \/ DropVM(w) \/ CheckDemand(w) \/ AskDemand(w)
         \/ Generate(w) \/ DropJIT(w) \/ Create(w) \/ IndexVM(w) \/ CleanupExhausted(w)
         \/ DeleteInstance(w) \/ ConfirmAbsence(w) \/ CleanupRest(w) \/ Recheck(w)
         \/ AskOriginal(w)
  PROVE  AllSpared
<1>1. records' = records
  BY DEF Deregister, Find, DropVM, CheckDemand, AskDemand, Generate, DropJIT, Create,
     IndexVM, IndexInstance, CleanupExhausted, DeleteInstance, ConfirmAbsence, CleanupRest,
     Recheck, AskOriginal, Local, CallsGitHub, CallsProvider, storeVars
<1> QED
  BY <1>1, SameSpared

LEMMA LastWriteSpares ==
  ASSUME IInv, OInv, NEW w \in Workers, worker[w].pc \in LastWritePcs
  PROVE  Spares(records[worker[w].job], LastWrite(w))
<1> DEFINE r == records[worker[w].job]
<1>1. Working(w)
  BY DEF LastWritePcs, Working
<1>2. r \in Record /\ Orderly(r) /\ r.claim = KindOf(w)
  BY <1>1, WorkingFacts, Owning
<1>3. "provision" \in WorkKinds /\ "delete" \in WorkKinds
  BY DEF WorkKinds
<1>4. \/ LastWrite(w) \in
           {ReleaseClaim(r, "provision"), DeferRateLimitedWork(r, "provision"),
            DeferProvisioningDemand(r), ReleaseClaim(r, "delete"),
            DeferRateLimitedWork(r, "delete"), DeferReassignmentDemand(r), MarkOrphaned(r)}
      \/ KindOf(w) = "provision" /\ LastWrite(w) = MarkProvisionFailed(r)
      \/ KindOf(w) = "delete" /\ LastWrite(w) = MarkDeleteFailed(r)
  BY DEF LastWrite, LastWritePcs, At, KindOf, ProvisionPcs
<1> HIDE DEF r
<1>5. Spares(r, LastWrite(w))
  BY <1>2, <1>3, <1>4, WorkSpares, DeletionSpares
<1> QED
  BY <1>5 DEF r

\* The identity that is stored has not run anything.
LEMMA NoMarkerWaits ==
  ASSUME TracedInv, BInv, NEW w \in Workers, At(w, "persistJIT")
  PROVE  markers[worker[w].jit] = NoJob
  BY DEF TracedInv, NewIdsUnused, BInv, MarkersRan

LEMMA WorkerWritesSpared ==
  ASSUME IInv, OInv, TracedInv, BInv, NEW w \in Workers,
         \/ Clear(w) \/ EndWork(w) \/ Retire(w) \/ PersistJIT(w) \/ PersistVM(w)
         \/ AcceptDeletion(w) \/ AwaitAbsence(w) \/ FinishDeletion(w) \/ FinishFailed(w)
  PROVE  AllSpared
<1> DEFINE j == worker[w].job
           r == records[j]
<1>1. Working(w)
  BY DEF Clear, ClearPcs, EndWork, LastWritePcs, Retire, PersistJIT, PersistVM,
     AcceptDeletion, AwaitAbsence, FinishDeletion, FinishFailed, At, Working
<1>2. j \in Jobs /\ r \in Record /\ Orderly(r) /\ Sound(r) /\ r.claim = KindOf(w)
  BY <1>1, WorkingFacts, Owning
<1>3. PutFails \/ UNCHANGED storeVars => AllSpared
  BY SameSpared DEF PutFails, storeVars
<1>4. ASSUME NEW s, Put(j, s), Spares(r, s) PROVE AllSpared
  BY <1>2, <1>4, PutSpared DEF Put
<1>5. CASE Clear(w)
  BY <1>2, <1>3, <1>4, <1>5, DeletionSpares DEF Clear
<1>6. CASE EndWork(w)
  BY <1>3, <1>4, <1>6, LastWriteSpares DEF EndWork
<1>7. CASE Retire(w)
  <2>1. KindOf(w) = "provision"
    BY <1>7 DEF Retire, At, KindOf, ProvisionPcs
  <2>2. r.instance = NoInstance
    BY <1>2, <2>1 DEF Sound
  <2>3. Put(j, MarkDeleted(r)) \/ PutFails
    BY <1>7, <2>2 DEF Retire
  <2> QED
    BY <1>2, <1>3, <1>4, <2>3, DeletionSpares
<1>8. CASE PersistJIT(w)
  <2>1. r.claim = "provision" /\ markers[worker[w].jit] = NoJob
    BY <1>2, <1>8, NoMarkerWaits DEF PersistJIT, At, KindOf, ProvisionPcs
  <2>2. CASE PutJIT(j, worker[w].jit)
    <3>1. PICK s : s = MarkJITCreated(r, j, worker[w].jit, NoJob)
      OBVIOUS
    <3>2. records' = [records EXCEPT ![j] = s]
      BY <2>1, <2>2, <3>1 DEF PutJIT
    <3> QED
      BY <1>2, <2>1, <3>1, <3>2, ProvisioningSpares, PutSpared
  <2> QED
    BY <1>3, <1>8, <2>2 DEF PersistJIT
<1>9. CASE PersistVM(w)
  <2>1. r.claim = "provision"
    BY <1>2, <1>9 DEF PersistVM, At, KindOf, ProvisionPcs
  <2>2. CASE PutInstance(j, worker[w].inst, worker[w].rec.runner)
    BY <1>2, <2>1, <2>2, ProvisioningSpares, PutSpared DEF PutInstance, Put
  <2> QED
    BY <1>3, <1>9, <2>2 DEF PersistVM
<1>10. CASE AcceptDeletion(w)
  BY <1>2, <1>3, <1>4, <1>10, DeletionSpares DEF AcceptDeletion
<1>11. CASE AwaitAbsence(w)
  BY <1>2, <1>3, <1>4, <1>11, DeletionSpares DEF AwaitAbsence
<1>12. CASE FinishDeletion(w)
  <2>1. r.claim = "delete"
    BY <1>2, <1>12 DEF FinishDeletion, At, KindOf, ProvisionPcs
  <2> QED
    BY <1>2, <1>3, <1>4, <1>12, <2>1, DeletionSpares DEF FinishDeletion
<1>13. CASE FinishFailed(w)
  <2>1. r.claim = "delete"
    BY <1>2, <1>13 DEF FinishFailed, At, KindOf, ProvisionPcs
  <2> QED
    BY <1>2, <1>3, <1>4, <1>13, <2>1, WorkSpares DEF FinishFailed
<1> QED
  BY <1>5, <1>6, <1>7, <1>8, <1>9, <1>10, <1>11, <1>12, <1>13

LEMMA ScansSpared ==
  ASSUME IInv, OInv, NEW w \in Workers, Scan(w) \/ Claim(w)
  PROVE  AllSpared
<1>1. CASE Scan(w)
  <2>1. \A k \in Jobs : records'[k] = records[k] \/ records'[k] = Backstop(records[k])
    BY <1>1 DEF Scan, ScanWithoutClaim, ScanStops
  <2> QED
    BY <2>1, OrderlyRecords, SparesItself, WorkSpares, SparesSpared DEF AllSpared
<1>2. CASE Claim(w)
  <2>1. PICK j \in Jobs : ClaimFirst(j)
    BY <1>2 DEF Claim
  <2>2. /\ Claimable(records[j])
        /\ \A k \in Jobs : \/ records'[k] = records[k] \/ records'[k] = Backstop(records[k])
                           \/ k = j /\ records'[k] = Claimed(records[k])
    BY <2>1 DEF ClaimFirst
  <2> QED
    BY <2>2, OrderlyRecords, SparesItself, WorkSpares, ClaimedSpares, SparesSpared
       DEF AllSpared
<1> QED
  BY <1>1, <1>2

\* The completion of a runner condemns the record that owns it.  The runner has
\* executed its one job and is gone.
LEMMA CompletionSpared ==
  ASSUME IInv, OInv, TracedInv, BInv, NEW j \in Jobs, CompletedWebhook(j)
  PROVE  AllSpared
<1> DEFINE id == ranOn[j]
           m == MatchedKey(id)
<1>1. RecordCompletion(j, id) /\ jobState[j] = "done"
  BY DEF CompletedWebhook
<1>2. ASSUME NEW k \in Jobs, k # m PROVE Spared(k)
  <2>1. records'[k] = records[k] \/ records'[k] = EventCompletion(records[k], id)
    BY <1>1, <1>2 DEF RecordCompletion
  <2> QED
    BY <2>1, OrderlyRecords, SparesItself, EventsSpare, SparesSpared
<1>3. ASSUME m \in Jobs PROVE Spared(m)
  <2>1. PICK own \in BOOLEAN : own = (m = j)
    OBVIOUS
  <2>2. records'[m] = MatchedCompletion(records[m], own)
    BY <1>1, <1>3, <2>1 DEF RecordCompletion
  <2>3. m # NoJob
    BY <1>3, NothingIsNoId
  <2>4. records[m].runner = id /\ id \in Runners
    BY <2>3 DEF MatchedKey
  <2>5. id \notin registered
    BY <1>1 DEF BInv, JobsEnd
  <2>6. Finished(m)
    BY <1>3, <2>4, <2>5, ForgottenFinished
  <2>7. PICK i \in Instances : vm[i].runner = id
    BY <2>4 DEF TracedInv, JobsRanHere
  <2>8. Traced(m)
    BY <1>3, <2>4, <2>7, NothingIsNoId DEF TracedInv, StartedTraced
  <2>9. records'[m].claim = records[m].claim
    BY <1>3, <2>2, OrderlyRecords, MatchKeepsClaim
  <2> QED
    BY <2>6, <2>8, <2>9 DEF Spared, Provided
<1> QED
  BY <1>2, <1>3 DEF AllSpared

LEMMA EventsSpared ==
  ASSUME IInv, OInv, NEW j \in Jobs,
         QueuedWebhook(j) \/ RetryTimePasses(j) \/ RetentionPasses(j)
  PROVE  AllSpared
<1>1. CASE QueuedWebhook(j)
  BY <1>1, OrderlyRecords, EventsSpare, PutSpared DEF QueuedWebhook, CreateRecord, Put
<1>2. CASE RetryTimePasses(j)
  BY <1>2, OrderlyRecords, EventsSpare, PutSpared DEF RetryTimePasses, BecomeDue, Put
<1>3. CASE RetentionPasses(j)
  BY <1>3, OrderlyRecords, EventsSpare, PutSpared DEF RetentionPasses, PruneDeleted, Put
<1> QED
  BY <1>1, <1>2, <1>3

LEMMA RestartSpared ==
  ASSUME IInv, OInv, Restart
  PROVE  AllSpared
<1>1. \A j \in Jobs : records'[j] = RecoverRecord(records[j])
  BY DEF Restart, Reopen, RecoveredRecords
<1> QED
  BY <1>1, OrderlyRecords, EventsSpare, SparesSpared DEF AllSpared

\* The reaper condemns in two places: it schedules a deletion after the runner
\* of its copy has gone, and a failed cleanup leaves a record to be deleted
\* that has no instance.
LEMMA ReaperSpared ==
  ASSUME IInv, OInv, TracedInv, BInv, ReaperStep
  PROVE  AllSpared
<1> DEFINE j == reaper.job
           r == records[j]
<1>1. CASE \/ ListExpired \/ (\E k \in Jobs : ExpireRunner(k)) \/ ReapDeregister \/ ReapVMs
           \/ \E id \in Runners : ReapMarker(id)
  BY <1>1, SameSpared DEF ListExpired, ExpireRunner, ReapDeregister, ReapVMs, ReapMarker,
     storeVars
<1>2. PutFails => AllSpared
  BY SameSpared DEF PutFails
<1>3. ASSUME reaper.pc # "idle"
      PROVE  j \in Jobs /\ r \in Record /\ Orderly(r) /\ r.claim # "provision"
  BY <1>3, Handled
<1>4. ASSUME NEW s, reaper.pc # "idle", Put(j, s), Spares(r, s) PROVE AllSpared
  BY <1>3, <1>4, PutSpared DEF Put
<1>5. CASE BeginCleanup
  BY <1>2, <1>3, <1>4, <1>5, CleanupSpares DEF BeginCleanup
<1>6. CASE ReapClear
  BY <1>2, <1>3, <1>4, <1>6, DeletionSpares DEF ReapClear
<1>7. CASE EndReap
  <2>1. reaper.pc \in ReapWritePcs /\ reaper.pc # "idle"
    BY <1>7 DEF EndReap, ReapWritePcs
  <2>2. CASE reaper.pc \notin {"schedule", "cleanupFailed"}
    <3>1. /\ Spares(r, MarkOrphaned(r)) /\ Spares(r, MarkDeleted(r))
          /\ Spares(r, DeferReconciliation(r, TRUE, FALSE))
          /\ Spares(r, DeferReconciliation(r, FALSE, TRUE))
          /\ Spares(r, DeferReconciliation(r, FALSE, FALSE))
          /\ Spares(r, DeferRateLimitedCleanup(r, TRUE))
          /\ Spares(r, DeferRateLimitedCleanup(r, FALSE))
      BY <1>3, <2>1, DeletionSpares, CleanupSpares
    <3>2. Spares(r, ReapWrite)
      BY <2>1, <2>2, <3>1 DEF ReapWrite, ReapWritePcs
    <3> QED
      BY <1>2, <1>4, <1>7, <2>1, <3>2 DEF EndReap
  <2>3. CASE reaper.pc \in {"schedule", "cleanupFailed"}
    <3>1. Finished(j)
      <4>1. CASE reaper.pc = "schedule"
        <5>1. reaper.rec.runner \notin registered /\ NoRunner \notin registered
          BY <4>1, NothingIsDead DEF BInv, ReaperAims, Dead
        <5>2. r.runner \notin registered
          BY <2>1, <5>1 DEF OInv, ReaperHolds, Remembers
        <5> QED
          BY <1>3, <2>1, <5>2, ForgottenFinished
      <4>2. CASE reaper.pc = "cleanupFailed"
        <5>1. Untracked(r)
          BY <1>3, <4>2
             DEF IInv, ReaperKeepsToUntracked, InReaperHands, UntrackedPcs
        <5> QED
          BY <1>3, <4>2, <5>1, UntrackedFinished
      <4> QED
        BY <2>3, <4>1, <4>2
    <3>2. ASSUME Put(j, ReapWrite) PROVE AllSpared
      <4>1. /\ records'[j] = ReapWrite
            /\ \A k \in Jobs : k # j => records'[k] = records[k]
        BY <1>3, <2>1, <3>2 DEF Put, IInv, TypeOK, StoreTypeOK
      <4>2. ReapWrite \in {ScheduleDeletion(r), MarkDeleteFailed(r)}
        BY <2>3 DEF ReapWrite
      <4>3. ~Provided(records'[j])
        BY <1>3, <2>1, <4>1, <4>2, SchedulingKeepsClaim DEF Provided
      <4> QED
        BY <3>1, <4>1, <4>3, SparesItself, SparesSpared DEF AllSpared, Spared
    <3> QED
      BY <1>2, <1>7, <3>2 DEF EndReap
  <2> QED
    BY <2>2, <2>3
<1> QED
  BY <1>1, <1>5, <1>6, <1>7 DEF ReaperStep

LEMMA NextSpared ==
  ASSUME IInv, OInv, TracedInv, BInv, [Next]_vars
  PROVE  AllSpared
<1>1. CASE UNCHANGED vars
  BY <1>1, SameSpared DEF vars, storeVars
<1>2. ASSUME NEW j \in Jobs, RunnerTakesJob(j) \/ ForeignRunnerTakesJob(j) \/ JobEnds(j)
      PROVE  AllSpared
  BY <1>2, SameSpared DEF RunnerTakesJob, ForeignRunnerTakesJob, JobEnds, storeVars
<1>3. ASSUME NEW i \in Instances, InstanceMoves(i) PROVE AllSpared
  BY <1>3, SameSpared DEF InstanceMoves, storeVars
<1>4. CASE Outside
  BY <1>2, <1>3, <1>4, CompletionSpared, EventsSpared DEF Outside
<1>5. ASSUME NEW w \in Workers, WorkerStep(w) PROVE AllSpared
  <2>1. \/ Scan(w) \/ Claim(w)
        \/ Clear(w) \/ EndWork(w) \/ Retire(w) \/ PersistJIT(w) \/ PersistVM(w)
        \/ AcceptDeletion(w) \/ AwaitAbsence(w) \/ FinishDeletion(w) \/ FinishFailed(w)
        \/ Deregister(w) \/ Find(w) \/ DropVM(w) \/ CheckDemand(w) \/ AskDemand(w)
        \/ Generate(w) \/ DropJIT(w) \/ Create(w) \/ IndexVM(w) \/ CleanupExhausted(w)
        \/ DeleteInstance(w) \/ ConfirmAbsence(w) \/ CleanupRest(w) \/ Recheck(w)
        \/ AskOriginal(w)
    BY <1>5 DEF WorkerStep, ProvisionStep, DeleteStep
  <2> QED
    BY <2>1, ScansSpared, WorkerWritesSpared, RemoteSpared
<1>6. CASE ReaperMoves
  BY <1>6, ReaperSpared, EventsSpared DEF ReaperMoves
<1> QED
  BY <1>1, <1>4, <1>5, <1>6, RestartSpared DEF Next, WorkersMove

-----------------------------------------------------------------------------
(* The parts of the invariant, one after the other.                          *)

\* GitHub forgets no job and issues no id again, and only it assigns and ends
\* jobs.
LEMMA NextSteady ==
  ASSUME IInv, [Next]_vars
  PROVE  /\ IdsStay
         /\ \/ UNCHANGED <<jobState, ranOn>>
            \/ \E j \in Jobs : RunnerTakesJob(j) \/ ForeignRunnerTakesJob(j) \/ JobEnds(j)
<1> DEFINE Steady == IdsStay /\ UNCHANGED <<jobState, ranOn>>
<1>1. /\ UNCHANGED githubVars \/ Issue => Steady
      /\ \A id : RemoveRepoRunner(id) => Steady
      /\ \A id, e : RemovalFails(id, e) => Steady
  BY GitHubSteady DEF RunsStay
<1> HIDE DEF Steady
<1>2. ASSUME NEW w \in Workers, WorkerStep(w) PROVE Steady
  BY <1>1, <1>2 DEF WorkerStep, Claim, Scan, Deregister, Clear, EndWork, ProvisionStep,
     Find, DropVM, CheckDemand, AskDemand, Retire, Generate, GenerateJIT, GenerateJITFails,
     PersistJIT, DropJIT, Create, PersistVM, IndexVM, CleanupExhausted, DeleteStep,
     DeleteInstance, AcceptDeletion, ConfirmAbsence, AwaitAbsence, CleanupRest, Recheck,
     AskOriginal, FinishDeletion, FinishFailed, Local, CallsGitHub, CallsProvider, CallsStore
<1>3. CASE ReaperMoves
  <2>1. ASSUME ReapDeregister PROVE Steady
    <3>1. \/ RemoveRepoRunner(reaper.rec.runner)
          \/ \E e : RemovalFails(reaper.rec.runner, e)
      BY <2>1, Zenon DEF ReapDeregister
    <3> QED
      BY <1>1, <3>1
  <2>2. ASSUME NEW j \in Jobs, ExpireRunner(j) \/ RetentionPasses(j)
        PROVE  UNCHANGED githubVars
    BY <2>2 DEF ExpireRunner, RetentionPasses
  <2>3. ASSUME NEW id \in Runners, ReapMarker(id) PROVE UNCHANGED githubVars
    BY <2>3 DEF ReapMarker
  <2>4. ASSUME ListExpired \/ BeginCleanup \/ ReapVMs \/ ReapClear \/ EndReap
        PROVE  UNCHANGED githubVars
    BY <2>4 DEF ListExpired, BeginCleanup, ReapVMs, ReapClear, EndReap
  <2>5. ReapDeregister \/ UNCHANGED githubVars
    BY <1>3, <2>2, <2>3, <2>4 DEF ReaperMoves, ReaperStep
  <2> QED
    BY <1>1, <2>1, <2>5 DEF Steady
<1>4. ASSUME NEW j \in Jobs, RunnerTakesJob(j) \/ ForeignRunnerTakesJob(j) \/ JobEnds(j)
      PROVE  IdsStay
  BY <1>4 DEF RunnerTakesJob, ForeignRunnerTakesJob, JobEnds, TakeJob, FinishJob,
     CancelQueuedJob, IdsStay, Known, Dead
<1>5. ASSUME NEW j \in Jobs,
             QueuedWebhook(j) \/ CompletedWebhook(j) \/ RetryTimePasses(j)
      PROVE  Steady
  BY <1>1, <1>5 DEF QueuedWebhook, CompletedWebhook, RetryTimePasses
<1>6. ASSUME NEW i \in Instances, InstanceMoves(i) PROVE Steady
  BY <1>1, <1>6 DEF InstanceMoves
<1>7. Restart \/ UNCHANGED vars => Steady
  BY <1>1 DEF Restart, vars
<1> QED
  BY <1>2, <1>3, <1>4, <1>5, <1>6, <1>7 DEF Next, Outside, WorkersMove, Steady

\* Once the runners of a job's instances are gone they stay gone, unless
\* another instance is started for the job.
LEMMA FinishedStays ==
  ASSUME IInv, XInv, OInv, [Next]_vars, NEW j \in Jobs, Finished(j)
  PROVE  \/ Finished(j)'
         \/ \E w \in Workers : Create(w) /\ worker[w].job = j
<1> SUFFICES ASSUME NEW i \in Instances, vm'[i].job = j, vm'[i].runner \in registered',
                    ~\E w \in Workers : Create(w) /\ worker[w].job = j
             PROVE  FALSE
  BY DEF Finished
<1>1. vm'[i].job = vm[i].job /\ vm'[i].runner = vm[i].runner
  BY Tagged
<1>2. Dead(vm[i].runner)
  BY <1>1 DEF Finished, OInv, Carried, Dead
<1>3. vm[i].runner \in AnyId
  BY Ids
<1> QED
  BY <1>1, <1>2, <1>3, NextSteady DEF IdsStay, Dead

\* And none is started: the record would be provided for and condemned.
LEMMA CondemnedStayFinished ==
  ASSUME IInv, XInv, OInv, TracedInv, BInv, [Next]_vars
  PROVE  CondemnedFinished'
<1> SUFFICES ASSUME NEW j \in Jobs, Condemned(records'[j]) PROVE Finished(j)'
  BY DEF CondemnedFinished, Finished
<1>1. Finished(j)
  BY NextSpared DEF AllSpared, Spared, BInv, CondemnedFinished
<1>2. ASSUME NEW w \in Workers, Create(w), worker[w].job = j PROVE FALSE
  <2>1. records' = records
    BY <1>2, CreateKeepsJob
  <2>2. Working(w) /\ KindOf(w) = "provision" /\ ~At(w, "persistVM")
    BY <1>2 DEF Create, At, Working, KindOf, ProvisionPcs
  <2>3. records[j].claim = "provision" /\ ~Traced(j)
    BY <1>2, <2>2, WorkingFacts, ProvisioningFinished
  <2> QED
    BY <2>1, <2>3 DEF BInv, ProvidedTraced, Provided
<1> QED
  BY <1>1, <1>2, FinishedStays

LEMMA ProvidedStayTraced ==
  ASSUME IInv, OInv, TracedInv, BInv, [Next]_vars, ~InstanceLost
  PROVE  ProvidedTraced'
<1> SUFFICES ASSUME NEW j \in Jobs, Provided(records'[j]) PROVE Traced(j)'
  BY DEF ProvidedTraced, Traced
<1>1. records[j].claim = "provision" /\ Traced(j)
  BY NextSpared DEF AllSpared, Spared, BInv, ProvidedTraced, Provided
<1>2. Present(records[j])
  BY <1>1, OrderlyRecords DEF Orderly, Present
<1>3. ASSUME NEW w \in Workers, FinishDeletion(w), worker[w].job = j PROVE FALSE
  <2>1. Working(w) /\ KindOf(w) = "delete"
    BY <1>3 DEF FinishDeletion, At, Working, KindOf, ProvisionPcs
  <2> QED
    BY <1>1, <1>3, <2>1, WorkingFacts
<1> QED
  BY <1>1, <1>2, <1>3, TracedKept DEF LostWith

\* A marker is left by the completion of a runner and by nothing else.
LEMMA MarkersCome ==
  ASSUME IInv, [Next]_vars, NEW id \in Runners, markers'[id] # NoJob
  PROVE  markers[id] # NoJob \/ \E k \in Jobs : CompletedWebhook(k) /\ ranOn[k] = id
<1>1. markers \in [Runners -> Jobs \cup {NoJob}]
  BY DEF IInv, TypeOK, StoreTypeOK
<1>2. (UNCHANGED storeVars \/ UNCHANGED markers \/ PutFails \/ \E j, s : Put(j, s))
        => markers' = markers
  BY DEF storeVars, PutFails, Put
<1>3. ASSUME NEW k \in Jobs, CompletedWebhook(k) PROVE markers[id] # NoJob \/ ranOn[k] = id
  BY <1>1, <1>3 DEF CompletedWebhook, RecordCompletion
<1>4. ASSUME NEW w \in Workers, PersistJIT(w) PROVE markers[id] # NoJob
  BY <1>1, <1>4 DEF PersistJIT, PutJIT, PutFails
<1>5. ASSUME NEW w \in Workers, PersistVM(w) \/ IndexVM(w) PROVE markers' = markers
  BY <1>2, <1>5 DEF PersistVM, PutInstance, IndexVM, IndexInstance
<1>6. ASSUME NEW w \in Workers, WorkerStep(w) PROVE markers[id] # NoJob
  BY <1>2, <1>4, <1>5, <1>6 DEF WorkerStep, Claim, ClaimFirst, Scan, ScanWithoutClaim,
     ScanStops, Deregister, Clear, EndWork, ProvisionStep, Find, DropVM, CheckDemand,
     AskDemand, Retire, Generate, DropJIT, Create, CleanupExhausted, DeleteStep,
     DeleteInstance, AcceptDeletion, ConfirmAbsence, AwaitAbsence, CleanupRest, Recheck,
     AskOriginal, FinishDeletion, FinishFailed, Local, CallsGitHub, CallsProvider
<1>7. CASE ReaperMoves
  BY <1>1, <1>2, <1>7 DEF ReaperMoves, ReaperStep, RetentionPasses, PruneDeleted, ListExpired,
     ExpireRunner, BeginCleanup, ReapDeregister, ReapVMs, ReapClear, EndReap, ReapMarker
<1>8. ASSUME NEW j \in Jobs, QueuedWebhook(j) \/ RunnerTakesJob(j)
             \/ ForeignRunnerTakesJob(j) \/ JobEnds(j) \/ RetryTimePasses(j)
      PROVE  markers' = markers
  BY <1>2, <1>8 DEF QueuedWebhook, CreateRecord, RunnerTakesJob, ForeignRunnerTakesJob,
     JobEnds, RetryTimePasses, BecomeDue
<1>9. ASSUME NEW i \in Instances, InstanceMoves(i) PROVE markers' = markers
  BY <1>2, <1>9 DEF InstanceMoves
<1>10. Restart \/ UNCHANGED vars => markers' = markers
  BY <1>2 DEF Restart, Reopen, vars
<1> QED
  BY <1>3, <1>6, <1>7, <1>8, <1>9, <1>10 DEF Next, Outside, WorkersMove

LEMMA MarkersStayRan ==
  ASSUME IInv, IInv', XInv, OInv, TracedInv, BInv, [Next]_vars
  PROVE  MarkersRan'
<1>1. ASSUME NEW id \in Runners, markers'[id] # NoJob
      PROVE  \E i \in Instances : vm'[i].runner = id
  <2>1. PICK i \in Instances : vm[i].runner = id
    BY <1>1, MarkersCome DEF BInv, MarkersRan, TracedInv, JobsRanHere
  <2>2. vm[i].state # "none"
    BY <2>1, NothingIsNoId DEF OInv, Carried
  <2> QED
    BY <2>1, <2>2, Tagged
<1>2. ASSUME NEW v \in Workers, worker'[v].pc = "persistJIT"
      PROVE  worker'[v].jit \in Runners
  <2>1. worker'[v] = worker[v] \/ Generate(v)
    <3>1. Restart => worker'[v] = Idle
      BY DEF Restart
    <3> QED
      BY <1>2, <3>1, StepMovesAlone DEF MovesAlone, Idle
  <2>2. CASE Generate(v)
    <3>1. "persistJIT" \notin QuietPcs
      BY DEF QuietPcs, DeregisterPcs, LastWritePcs
    <3>2. ~\E e : Goto(v, ProvisionFailed(v, e))
      BY <1>2, <3>1, ErrorsAreQuiet, GotoMoves
    <3>3. worker' = [worker EXCEPT ![v].pc = "persistJIT", ![v].jit = issued + 1]
      BY <2>2, <3>2 DEF Generate
    <3>4. worker'[v].jit = issued + 1 /\ issued \in Nat
      BY <3>3, Ids DEF IInv, TypeOK, WorkerTypeOK, Task
    <3>5. worker'[v].jit \in Runners \cup {NoRunner}
      BY DEF IInv, TypeOK, WorkerTypeOK, Task
    <3> QED
      BY <3>4, <3>5 DEF NoRunner
  <2>3. CASE worker'[v] = worker[v]
    BY <1>2, <2>3 DEF BInv, MarkersRan, At
  <2> QED
    BY <2>1, <2>2, <2>3
<1> QED
  BY <1>1, <1>2 DEF MarkersRan, At

\* Only ClaimNext sends a worker to delete an instance by id.
LEMMA OnlyClaimAims ==
  ASSUME IInv, [Next]_vars, NEW w \in Workers, worker'[w].pc = "vmDelete"
  PROVE  worker'[w] = worker[w] \/ Claim(w)
<1>1. ASSUME WorkerStep(w), ~Claim(w) PROVE NobodyArrives
  <2>1. CASE DeleteInstance(w)
    <3>1. Goto(w, IF ConfirmsAbsence THEN "accept" ELSE "cleanup") => NobodyArrives
      BY GotoAsks
    <3> QED
      BY <2>1, <3>1, DeleteFailedArrives DEF DeleteInstance
  <2>2. CASE AcceptDeletion(w)
    <3>1. Goto(w, "confirm") => NobodyArrives
      BY GotoAsks
    <3> QED
      BY <2>2, <3>1, DeleteFailedArrives DEF AcceptDeletion
  <2> QED
    BY <1>1, <2>1, <2>2, ScanPlain, DeregisterPlain, ClearPlain, EndWorkPlain,
       ProvisionStepPlain, AbsencePlain, CleanupRestPlain, RecheckPlain, FinishPlain
       DEF WorkerStep, DeleteStep, Plain
<1>2. Restart => worker'[w].pc # "vmDelete"
  BY DEF Restart, Idle
<1> QED
  BY <1>1, <1>2, StepMovesAlone DEF MovesAlone, NobodyArrives, At

LEMMA AimsKept ==
  ASSUME IInv, XInv, OInv, BInv, [Next]_vars
  PROVE  Aimed'
<1> SUFFICES ASSUME NEW w \in Workers, worker'[w].pc = "vmDelete"
             PROVE  LET i == worker'[w].rec.instance
                    IN i \in Instances /\ vm'[i].job = worker'[w].job
  BY DEF Aimed, At
<1>1. CASE Claim(w)
  <2>1. PICK j \in Jobs :
          /\ ClaimFirst(j)
          /\ worker' = [worker EXCEPT ![w] =
               [Idle EXCEPT !.pc = FirstStep(Claimed(records[j])),
                            !.job = j, !.rec = Claimed(records[j])]]
    BY <1>1 DEF Claim
  <2>2. PICK c : c = Claimed(records[j])
    OBVIOUS
  <2>3. worker'[w].pc = FirstStep(c) /\ worker'[w].job = j /\ worker'[w].rec = c
    BY <2>1, <2>2 DEF Idle, IInv, TypeOK, WorkerTypeOK
  <2>4. Claimable(records[j]) /\ records[j] \in Record
    BY <2>1, TypeFacts DEF ClaimFirst
  <2>5. ASSUME NEW r \in Record, Claimable(r), c = Claimed(r), FirstStep(c) = "vmDelete"
        PROVE  c.instance = r.instance /\ r.instance \in Instances
    <3>1. c.claim # "provision"
      BY <2>5 DEF FirstStep
    <3> QED
      BY <2>5, <3>1 DEF Claimable, WantsProvision, WantsDelete, Claimed, ClaimProvision,
         ClaimDelete, Record
  <2>6. c.instance = records[j].instance /\ c.instance \in Instances
    BY <2>2, <2>3, <2>4, <2>5
  <2>7. vm' = vm /\ vm[c.instance].job = j
    BY <1>1, <2>6, InstanceFact DEF Claim, CallsStore, OInv, Carried
  <2> QED
    BY <2>3, <2>6, <2>7
<1>2. CASE worker'[w] = worker[w]
  <2>1. PICK i : i = worker[w].rec.instance
    OBVIOUS
  <2>2. i \in Instances /\ vm[i].job = worker[w].job
    BY <1>2, <2>1 DEF BInv, Aimed, At
  <2>3. worker[w].job \in Jobs
    BY <1>2, WorkingFacts DEF Working
  <2>4. vm[i].state # "none"
    BY <2>2, <2>3, NothingIsNoId DEF OInv, Carried
  <2> QED
    BY <1>2, <2>1, <2>2, <2>4, Tagged
<1> QED
  BY <1>1, <1>2, OnlyClaimAims

\* What the reaper goes to "schedule" with is a copy without a runner, or one
\* whose runner it has just removed.
LEMMA ScheduledFrom ==
  ASSUME IInv, [Next]_vars, reaper'.pc = "schedule"
  PROVE  \/ reaper' = reaper
         \/ reaper.pc = "clearPrepared" /\ reaper'.rec = reaper.rec
         \/ \E j \in Jobs : ExpireRunner(j) /\ reaper'.rec = reaper.todo[j]
<1>1. reaper \in [pc : ReaperPcs, job : Jobs \cup {NoJob}, rec : Record,
                  todo : [Jobs -> Record]]
  BY DEF IInv, TypeOK, ReaperTypeOK
<1>2. reaper' # ReaperIdle /\ ~ReapNext
  <2>1. ReapNext => reaper'.pc = "idle"
    BY <1>1 DEF ReapNext
  <2>2. ReaperIdle.pc = "idle"
    BY DEF ReaperIdle
  <2> QED
    BY <2>1, <2>2
<1>3. ASSUME NEW pc, ReapGoto(pc) PROVE pc = "schedule" /\ reaper'.rec = reaper.rec
  BY <1>1, <1>3 DEF ReapGoto
<1>4. ~ListExpired
  BY <1>1 DEF ListExpired, ReaperIdle
<1>5. ASSUME NEW j \in Jobs, ExpireRunner(j) PROVE reaper'.rec = reaper.todo[j]
  BY <1>5 DEF ExpireRunner
<1>6. ~BeginCleanup /\ ~EndReap
  BY <1>2, <1>3 DEF BeginCleanup, EndReap
<1>7. ~ReapDeregister
  <2>1. \A e : CleanupFailed(e) # "schedule" /\ "schedule" \notin Deferral(e)
    BY DEF CleanupFailed, Deferral
  <2> QED
    BY <1>3, <2>1 DEF ReapDeregister
<1>8. ~ReapVMs
  <2>1. \A e : CleanupFailed(e) # "schedule"
    BY DEF CleanupFailed
  <2> QED
    BY <1>3, <2>1 DEF ReapVMs
<1>9. ReapClear => reaper.pc = "clearPrepared" /\ reaper'.rec = reaper.rec
  BY <1>3 DEF ReapClear
<1>10. ASSUME ReaperStep
       PROVE  \/ reaper' = reaper
              \/ reaper.pc = "clearPrepared" /\ reaper'.rec = reaper.rec
              \/ \E j \in Jobs : ExpireRunner(j) /\ reaper'.rec = reaper.todo[j]
  BY <1>4, <1>5, <1>6, <1>7, <1>8, <1>9, <1>10 DEF ReaperStep, ReapMarker
<1>11. CASE Outside \/ WorkersMove \/ UNCHANGED vars
  BY <1>11 DEF Outside, QueuedWebhook, CompletedWebhook, RunnerTakesJob,
     ForeignRunnerTakesJob, JobEnds, RetryTimePasses, InstanceMoves, WorkersMove, WorkerStep,
     vars
<1>12. ~Restart
  BY <1>2 DEF Restart
<1> QED
  BY <1>10, <1>11, <1>12 DEF Next, ReaperMoves, RetentionPasses

\* The copies the reaper holds are those it listed.
LEMMA TodoShrinks ==
  ASSUME IInv, [Next]_vars, NEW j \in Jobs
  PROVE  \/ reaper'.todo[j] \in {reaper.todo[j], Absent}
         \/ /\ reaper'.todo[j] = records[j] /\ records[j] \in Record
            /\ MayExpire(records[j]) \/ MustExpire(records[j])
<1>1. reaper \in [pc : ReaperPcs, job : Jobs \cup {NoJob}, rec : Record,
                  todo : [Jobs -> Record]]
  BY DEF IInv, TypeOK, ReaperTypeOK
<1>2. CASE reaper' = ReaperIdle
  BY <1>2 DEF ReaperIdle, NothingListed
<1>3. ReapNext => reaper'.todo = reaper.todo
  BY <1>1 DEF ReapNext
<1>4. ASSUME NEW pc, ReapGoto(pc) PROVE reaper'.todo = reaper.todo
  BY <1>1, <1>4 DEF ReapGoto
<1>5. CASE ListExpired
  <2>1. PICK old \in SUBSET {k \in Jobs : MayExpire(records[k])} :
          reaper' = [reaper EXCEPT !.todo =
                       [k \in Jobs |-> IF k \in old \cup {h \in Jobs : MustExpire(records[h])}
                                       THEN records[k] ELSE Absent]]
    BY <1>5 DEF ListExpired
  <2>2. reaper'.todo[j] = IF j \in old \cup {h \in Jobs : MustExpire(records[h])}
                          THEN records[j] ELSE Absent
    BY <1>1, <2>1
  <2> QED
    BY <2>2, TypeFacts
<1>6. ASSUME NEW k \in Jobs, ExpireRunner(k)
      PROVE  reaper'.todo[j] \in {reaper.todo[j], Absent}
  <2>1. reaper'.todo = [reaper.todo EXCEPT ![k] = Absent]
    BY <1>6 DEF ExpireRunner
  <2> QED
    BY <1>1, <2>1
<1>7. CASE BeginCleanup \/ ReapDeregister \/ ReapVMs \/ ReapClear \/ EndReap
  BY <1>3, <1>4, <1>7 DEF BeginCleanup, ReapDeregister, ReapVMs, ReapClear, EndReap
<1>8. CASE ReaperStep
  BY <1>5, <1>6, <1>7, <1>8 DEF ReaperStep, ReapMarker
<1>9. CASE Outside \/ WorkersMove \/ UNCHANGED vars
  BY <1>9 DEF Outside, QueuedWebhook, CompletedWebhook, RunnerTakesJob,
     ForeignRunnerTakesJob, JobEnds, RetryTimePasses, InstanceMoves, WorkersMove, WorkerStep,
     vars
<1>10. Restart => reaper' = ReaperIdle
  BY DEF Restart
<1> QED
  BY <1>2, <1>8, <1>9, <1>10 DEF Next, ReaperMoves, RetentionPasses

LEMMA ReaperStillAims ==
  ASSUME ~Aging, IInv, XInv, OInv, BInv, [Next]_vars
  PROVE  ReaperAims'
<1>1. ASSUME reaper'.pc = "schedule" PROVE reaper'.rec.runner \notin registered'
  <2>1. \A id \in AnyId : Dead(id) => id \notin registered'
    BY NextSteady DEF IdsStay, Dead
  <2>2. reaper.rec.runner \in AnyId /\ \A j \in Jobs : reaper.todo[j].runner \in AnyId
    BY Ids
  <2>3. CASE reaper' = reaper
    <3>1. Dead(reaper.rec.runner)
      BY <1>1, <2>3 DEF BInv, ReaperAims, OInv, ReaperHolds, Dead
    <3> QED
      BY <2>1, <2>2, <2>3, <3>1
  <2>4. CASE reaper.pc = "clearPrepared" /\ reaper'.rec = reaper.rec
    <3>1. Dead(reaper.rec.runner)
      BY <2>4 DEF OInv, ReaperHolds, ReapedPcs
    <3> QED
      BY <2>1, <2>2, <2>4, <3>1
  <2>5. ASSUME NEW j \in Jobs, ExpireRunner(j), reaper'.rec = reaper.todo[j]
        PROVE  reaper'.rec.runner \notin registered'
    <3>1. PICK r : r = reaper.todo[j]
      OBVIOUS
    <3>2. reaper'.pc = IF r.instance = NoInstance THEN "begin"
                       ELSE IF r.defer /\ r.runner # NoRunner THEN "prepare" ELSE "schedule"
      BY <2>5, <3>1 DEF ExpireRunner
    <3>3. r.instance # NoInstance /\ ~(r.defer /\ r.runner # NoRunner)
      BY <1>1, <3>2
    <3>4. r.runner = NoRunner
      BY <3>1, <3>3 DEF BInv, ReaperAims
    <3> QED
      BY <2>1, <2>2, <2>5, <3>1, <3>4, NothingIsDead
  <2> QED
    BY <1>1, <2>3, <2>4, <2>5, ScheduledFrom
<1>2. ASSUME NEW j \in Jobs, reaper'.todo[j].instance # NoInstance PROVE reaper'.todo[j].defer
  <2>1. Absent.instance = NoInstance
    BY DEF Absent
  <2>2. MayExpire(records[j]) => records[j].instance = NoInstance
    BY DEF MayExpire
  <2>3. MustExpire(records[j]) => records[j].defer \/ records[j].instance = NoInstance
    BY DEF MustExpire
  <2> QED
    BY <1>2, <2>1, <2>2, <2>3, TodoShrinks DEF BInv, ReaperAims
<1> QED
  BY <1>1, <1>2 DEF ReaperAims

LEMMA JobsStillEnd ==
  ASSUME IInv, IInv', XInv, OInv, TracedInv, BInv, [Next]_vars
  PROVE  JobsEnd'
<1>1. /\ jobState \in [Jobs -> {"queued", "running", "done"}]
      /\ ranOn \in [Jobs -> Runners \cup {NoRunner, Foreign}]
      /\ registered \subseteq Runners /\ registered' \subseteq Runners
  BY DEF IInv, TypeOK, GitHubTypeOK
<1>2. ASSUME NEW j \in Jobs, ranOn[j] \notin registered PROVE ranOn[j] \notin registered'
  <2>1. CASE ranOn[j] \in Runners
    <3>1. PICK i \in Instances : vm[i].runner = ranOn[j]
      BY <2>1 DEF TracedInv, JobsRanHere
    <3>2. Dead(ranOn[j])
      BY <1>2, <3>1 DEF OInv, Carried, Dead
    <3> QED
      BY <2>1, <3>2, NextSteady DEF IdsStay, Dead, AnyId
  <2> QED
    BY <1>1, <2>1
<1>3. CASE UNCHANGED <<jobState, ranOn>>
  BY <1>2, <1>3 DEF BInv, JobsEnd
<1>4. ASSUME NEW j \in Jobs, NEW id, TakeJob(j, id), id # NoRunner PROVE JobsEnd'
  BY <1>1, <1>4 DEF TakeJob, BInv, JobsEnd
<1>5. ASSUME NEW j \in Jobs, RunnerTakesJob(j) PROVE JobsEnd'
  <2>1. PICK i \in Instances : vm[i].runner \in registered /\ TakeJob(j, vm[i].runner)
    BY <1>5 DEF RunnerTakesJob
  <2> QED
    BY <1>1, <1>4, <2>1, NothingIsNoId
<1>6. ASSUME NEW j \in Jobs, ForeignRunnerTakesJob(j) PROVE JobsEnd'
  <2>1. Foreign # NoRunner
    BY BoundsAssumption DEF Foreign, NoRunner
  <2> QED
    BY <1>4, <1>6, <2>1 DEF ForeignRunnerTakesJob
<1>7. ASSUME NEW j \in Jobs, JobEnds(j) PROVE JobsEnd'
  <2>1. CASE FinishJob(j)
    BY <1>1, <2>1 DEF FinishJob, BInv, JobsEnd
  <2>2. CASE CancelQueuedJob(j)
    <3>1. ranOn[j] \notin registered
      BY <1>1, <2>2, NothingIsNoId DEF CancelQueuedJob, BInv, JobsEnd
    <3> QED
      BY <1>1, <2>2, <3>1 DEF CancelQueuedJob, BInv, JobsEnd
  <2> QED
    BY <1>7, <2>1, <2>2 DEF JobEnds
<1> QED
  BY <1>3, <1>5, <1>6, <1>7, NextSteady

LEMMA SparingKept ==
  ~Aging /\ IInv /\ IInv' /\ XInv /\ OInv /\ TracedInv /\ BInv /\ [Next]_vars /\ ~InstanceLost
    => BInv'
  BY CondemnedStayFinished, ProvidedStayTraced, MarkersStayRan, AimsKept, ReaperStillAims,
     JobsStillEnd DEF BInv

LEMMA SparingInvariance == ~Aging => (Spec /\ [][~InstanceLost]_vars => []BInv)
<1> SUFFICES ASSUME ~Aging PROVE Spec /\ [][~InstanceLost]_vars => []BInv
  OBVIOUS
<1>1. IInv /\ IInv' /\ XInv /\ OInv /\ TracedInv /\ BInv /\ [Next]_vars
        /\ [~InstanceLost]_vars => BInv'
  <2>1. IInv /\ UNCHANGED vars => ~InstanceLost
    BY DEF InstanceLost, Restart, PutFails, IInv, TypeOK, StoreTypeOK, vars, storeVars
  <2> QED
    BY <2>1, SparingKept
<1> QED
  BY <1>1, SparedInitially, Invariance, IndexInvariance, OwnershipInvariance,
     TracingInvariance, PTL DEF Spec

-----------------------------------------------------------------------------
(* The theorem.                                                              *)

\* A worker or the reaper deletes an instance for a job all of whose runners are
\* gone.
LEMMA OnlyFinishedDie ==
  ASSUME IInv, OInv, TracedInv, BInv, [Next]_vars,
         worker' # worker \/ reaper' # reaper,
         NEW i \in Instances, Alive(i), ~Alive(i)'
  PROVE  Finished(vm[i].job)
<1>1. vm \in [Instances -> [state : VMStates, job : Jobs \cup {NoJob},
                            runner : Runners \cup {NoRunner}]]
  BY DEF IInv, TypeOK, ProviderTypeOK
<1>2. vm' # vm
  BY DEF Alive
<1>3. ASSUME NEW k, DeleteVM(k) \/ DeleteFails(k) \/ DeleteMismatches(k) PROVE k = i
  BY <1>1, <1>2, <1>3 DEF DeleteVM, DeleteFails, DeleteMismatches, Alive
<1>4. ASSUME NEW j, NEW k,
             CleanupVMs(j, k) \/ CleanupStops(j, k) \/ CleanupMismatches(j, k)
      PROVE  vm[i].job = j
  BY <1>1, <1>4 DEF CleanupVMs, CleanupStops, CleanupMismatches, ListedFor, Alive
<1>5. ASSUME NEW w \in Workers, DropVM(w) \/ CleanupExhausted(w)
      PROVE  vm[i].job = worker[w].job /\ Finished(worker[w].job)
  <2>1. Working(w) /\ KindOf(w) = "provision" /\ ~At(w, "persistVM")
    BY <1>5 DEF DropVM, CleanupExhausted, At, Working, KindOf, ProvisionPcs
  <2>2. CASE DropVM(w)
    <3>1. worker[w].inst = i
      BY <1>3, <2>2 DEF DropVM
    <3>2. vm[i].job = worker[w].job
      BY <2>1, <2>2, <3>1, Owning DEF DropVM, At, WorkerHolds, FoundPcs
    <3> QED
      BY <2>1, <3>2, ProvisioningFinished
  <2>3. CASE CleanupExhausted(w)
    BY <1>4, <2>1, <2>3, ProvisioningFinished DEF CleanupExhausted
  <2> QED
    BY <1>5, <2>2, <2>3
<1>6. ASSUME NEW w \in Workers, DeleteInstance(w) \/ CleanupRest(w)
      PROVE  vm[i].job = worker[w].job /\ Finished(worker[w].job)
  <2>1. Working(w) /\ KindOf(w) = "delete"
    BY <1>6 DEF DeleteInstance, CleanupRest, At, Working, KindOf, ProvisionPcs
  <2>2. Finished(worker[w].job)
    BY <2>1, WorkingFacts DEF BInv, CondemnedFinished, Condemned
  <2>3. CASE DeleteInstance(w)
    <3>1. worker[w].rec.instance = i
      BY <1>3, <2>3 DEF DeleteInstance
    <3> QED
      BY <2>2, <2>3, <3>1 DEF DeleteInstance, BInv, Aimed
  <2>4. CASE CleanupRest(w)
    BY <1>4, <2>2, <2>4 DEF CleanupRest
  <2> QED
    BY <1>6, <2>3, <2>4
<1>7. ASSUME ReapVMs PROVE vm[i].job = reaper.job /\ Finished(reaper.job)
  <2>1. reaper.pc = "reapVMs" /\ reaper.job \in Jobs
    BY <1>7 DEF ReapVMs, IInv, ReaperHasJob
  <2>2. Untracked(records[reaper.job])
    BY <2>1 DEF IInv, ReaperKeepsToUntracked, InReaperHands, UntrackedPcs
  <2> QED
    BY <1>4, <1>7, <2>1, <2>2, UntrackedFinished DEF ReapVMs
<1>8. ASSUME NEW k \in Instances, InstanceMoves(k) PROVE FALSE
  BY <1>8 DEF InstanceMoves
<1>9. ASSUME NEW w \in Workers, Create(w) PROVE FALSE
  BY <1>9, CreateStartsOne DEF Alive
<1> QED
  BY <1>2, <1>5, <1>6, <1>7, <1>8, <1>9, InstanceCalls

\* Neither a worker nor the reaper deletes an instance while its runner executes
\* a job, whichever job that is: not by Handler.delete, by the cleanup of a spent
\* provisioning budget or by the reaper's passes, from records and copies that
\* webhooks, workers and restarts have changed meanwhile, for any number of jobs,
\* instances and workers, any errors of the calls to GitHub and to the provider,
\* any other failed journal writes, lagging listings, instances that disappear by
\* themselves, with or without confirmed absence, as long as no instance is lost
\* between its create and MarkProvisioned (InstanceLost) and no record reaches
\* MAX_RUNNER_AGE.
THEOREM BusyRunnersAreSpared ==
  ~Aging => (Spec /\ [][~InstanceLost]_vars => BusyRunnerSpared)
<1> SUFFICES ASSUME ~Aging PROVE Spec /\ [][~InstanceLost]_vars => BusyRunnerSpared
  OBVIOUS
<1> DEFINE Spare == worker' # worker \/ reaper' # reaper =>
                      \A i \in Instances : Alive(i) /\ ~Alive(i)' => ~Busy(vm[i].runner)
<1>1. IInv /\ OInv /\ TracedInv /\ BInv /\ [Next]_vars => [Spare]_vars
  <2> SUFFICES ASSUME IInv, OInv, TracedInv, BInv, [Next]_vars,
                      worker' # worker \/ reaper' # reaper,
                      NEW i \in Instances, Alive(i), ~Alive(i)', Busy(vm[i].runner)
               PROVE  FALSE
    OBVIOUS
  <2>1. vm[i].runner \notin registered
    BY OnlyFinishedDie DEF Finished
  <2>2. PICK j \in Jobs : jobState[j] = "running" /\ ranOn[j] = vm[i].runner
    BY DEF Busy
  <2>3. ranOn[j] # NoRunner /\ ranOn[j] \in AnyId
    BY <2>2, Ids DEF BInv, JobsEnd
  <2> QED
    BY <2>1, <2>2, <2>3 DEF AnyId, OInv, Runs
<1>2. Spec /\ [][~InstanceLost]_vars => [][Spare]_vars
  BY <1>1, Invariance, OwnershipInvariance, TracingInvariance, SparingInvariance,
     PTL DEF Spec
<1> QED
  BY <1>2, PTL DEF BusyRunnerSpared
=============================================================================
