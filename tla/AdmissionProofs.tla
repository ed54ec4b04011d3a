--------------------------- MODULE AdmissionProofs ---------------------------
(* Admission, for every ceiling, set of jobs, instances and workers: that    *)
(* the count ClaimNext compares with maxLiveRunners grows by nothing but its *)
(* own claims (and one kind of completion), and that it counts every running *)
(* instance, so that the fleet never exceeds the ceiling, unless the outcome *)
(* of a create is lost.                                                      *)
EXTENDS OwnershipProofs

-----------------------------------------------------------------------------
(* What every mutator does to the count.                                     *)

\* What no mutator may do but the one that claims for provisioning: make a
\* record count that did not count.
Lightens(r, s) ==
  /\ CountsAsLive(s) => CountsAsLive(r)
  /\ s.status = "absent" => ~HoldsSlot(s)

\* A key without a record holds nothing.
Tidy(r) == r \in Record /\ Sound(r) /\ (r.status = "absent" => ~HoldsSlot(r))

LEMMA LightensItself == \A r : Tidy(r) => Lightens(r, r)
  BY DEF Tidy, Lightens

LEMMA WorkLightens ==
  ASSUME NEW r, Tidy(r)
  PROVE  /\ Lightens(r, Backstop(r))
         /\ \A kind \in WorkKinds : /\ Lightens(r, ReleaseClaim(r, kind))
                                    /\ Lightens(r, DeferRateLimitedWork(r, kind))
         /\ Lightens(r, DeferProvisioningDemand(r)) /\ Lightens(r, MarkDeleteFailed(r))
         /\ Lightens(r, MarkProvisionFailed(r))
<1> USE DEF Lightens, Tidy, CountsAsLive, HoldsSlot, Sound, Record, Settled, Refund, NoClaim
<1>1. ASSUME NEW s, s = Backstop(r) PROVE Lightens(r, s)
  BY <1>1 DEF Backstop
<1>2. ASSUME NEW kind \in WorkKinds, NEW s, s = ReleaseClaim(r, kind) PROVE Lightens(r, s)
  BY <1>2 DEF ReleaseClaim, WorkKinds
<1>3. ASSUME NEW kind \in WorkKinds, NEW s, s = DeferRateLimitedWork(r, kind)
      PROVE  Lightens(r, s)
  BY <1>3 DEF DeferRateLimitedWork, WorkKinds
<1>4. ASSUME NEW s, s = DeferProvisioningDemand(r) PROVE Lightens(r, s)
  BY <1>4 DEF DeferProvisioningDemand
<1>5. ASSUME NEW s, s = MarkDeleteFailed(r) PROVE Lightens(r, s)
  BY <1>5 DEF MarkDeleteFailed
<1>6. ASSUME NEW s, s = MarkProvisionFailed(r) PROVE Lightens(r, s)
  BY <1>6 DEF MarkProvisionFailed
<1> HIDE DEF Lightens
<1> QED
  BY <1>1, <1>2, <1>3, <1>4, <1>5, <1>6

LEMMA DeletionLightens ==
  ASSUME NEW r, Tidy(r)
  PROVE  /\ Lightens(r, DeferDeletionConfirmation(r))
         /\ Lightens(r, DeferReassignmentDemand(r))
         /\ \A i : Lightens(r, MarkDeletionAccepted(r, i))
         /\ \A queued : Lightens(r, FinishDeletedRunner(r, queued))
         /\ Lightens(r, MarkOrphaned(r)) /\ Lightens(r, ScheduleDeletion(r))
         /\ Lightens(r, ClearJIT(r)) /\ Lightens(r, MarkDeleted(r))
<1> USE DEF Lightens, Tidy, CountsAsLive, HoldsSlot, Sound, Record, Settled, Refund, NoClaim
<1>1. ASSUME NEW s, s = DeferDeletionConfirmation(r) PROVE Lightens(r, s)
  BY <1>1 DEF DeferDeletionConfirmation
<1>2. ASSUME NEW s, s = DeferReassignmentDemand(r) PROVE Lightens(r, s)
  BY <1>2 DEF DeferReassignmentDemand
<1>3. ASSUME NEW i, NEW s, s = MarkDeletionAccepted(r, i) PROVE Lightens(r, s)
  BY <1>3 DEF MarkDeletionAccepted
<1>4. ASSUME NEW queued, NEW s, s = FinishDeletedRunner(r, queued) PROVE Lightens(r, s)
  BY <1>4 DEF FinishDeletedRunner, MarkDeleted, NoInstance, NoRunner
<1>5. ASSUME NEW s, s = MarkOrphaned(r) PROVE Lightens(r, s)
  BY <1>5 DEF MarkOrphaned
<1>6. ASSUME NEW s, s = ScheduleDeletion(r) PROVE Lightens(r, s)
  BY <1>6 DEF ScheduleDeletion
<1>7. ASSUME NEW s, s = ClearJIT(r) PROVE Lightens(r, s)
  BY <1>7 DEF ClearJIT
<1>8. ASSUME NEW s, s = MarkDeleted(r) PROVE Lightens(r, s)
  BY <1>8 DEF MarkDeleted
<1> HIDE DEF Lightens
<1> QED
  BY <1>1, <1>2, <1>3, <1>4, <1>5, <1>6, <1>7, <1>8

\* A completion may revive an orphan that was not counted.
Revived(r, s) ==
  r.status = "orphaned" /\ r.instance = NoInstance /\ s.status = "completed"

LEMMA EventsLighten ==
  ASSUME NEW r, Tidy(r)
  PROVE  /\ Lightens(r, [r EXCEPT !.due = TRUE])
         /\ \A id : Lightens(r, EventCompletion(r, id))
         /\ Lightens(r, RecoverRecord(r))
         /\ Lightens(r, Absent) /\ Lightens(r, NewDemand)
<1> USE DEF Lightens, Tidy, CountsAsLive, HoldsSlot, Sound, Record, Settled, NoClaim
<1>1. ASSUME NEW s, s = [r EXCEPT !.due = TRUE] PROVE Lightens(r, s)
  BY <1>1
<1>2. ASSUME NEW id, NEW s, s = EventCompletion(r, id) PROVE Lightens(r, s)
  BY <1>2 DEF EventCompletion, Absent
<1>3. ASSUME NEW s, s = RecoverRecord(r) PROVE Lightens(r, s)
  BY <1>3 DEF RecoverRecord, Refund
<1>4. Lightens(r, Absent) /\ Lightens(r, NewDemand)
  BY DEF NewDemand, Absent
<1> HIDE DEF Lightens
<1> QED
  BY <1>1, <1>2, <1>3, <1>4

LEMMA MatchLightens ==
  ASSUME NEW r, Tidy(r), r.status \notin {"absent", "deleted"}, NEW own \in BOOLEAN
  PROVE  Lightens(r, MatchedCompletion(r, own)) \/ Revived(r, MatchedCompletion(r, own))
<1> SUFFICES ASSUME NEW s, s = MatchedCompletion(r, own)
             PROVE  Lightens(r, s) \/ Revived(r, s)
  OBVIOUS
<1> QED
  BY DEF Lightens, Tidy, CountsAsLive, HoldsSlot, Sound, Record, NoClaim, Revived,
         MatchedCompletion

LEMMA CleanupLightens ==
  ASSUME NEW r, Tidy(r)
  PROVE  /\ Lightens(r, BeginCleanupAttempt(r))
         /\ \A a \in BOOLEAN : Lightens(r, DeferRateLimitedCleanup(r, a))
         /\ \A a, b \in BOOLEAN : Lightens(r, DeferReconciliation(r, a, b))
<1> USE DEF Lightens, Tidy, CountsAsLive, HoldsSlot, Sound, Record, Settled, NoClaim
<1>1. ASSUME NEW s, s = BeginCleanupAttempt(r) PROVE Lightens(r, s)
  BY <1>1 DEF BeginCleanupAttempt, CleanupReady
<1>2. ASSUME NEW a \in BOOLEAN, NEW s, s = DeferRateLimitedCleanup(r, a)
      PROVE  Lightens(r, s)
  BY <1>2 DEF DeferRateLimitedCleanup
<1>3. ASSUME NEW a \in BOOLEAN, NEW b \in BOOLEAN, NEW s, s = DeferReconciliation(r, a, b)
      PROVE  Lightens(r, s)
  BY <1>3 DEF DeferReconciliation
<1> HIDE DEF Lightens
<1> QED
  BY <1>1, <1>2, <1>3

LEMMA ProvisioningLightens ==
  ASSUME NEW r, Tidy(r), r.claim = "provision"
  PROVE  /\ \A job, id, marker : Lightens(r, MarkJITCreated(r, job, id, marker))
         /\ \A i, id : Lightens(r, MarkProvisioned(r, i, id))
<1> USE DEF Lightens, Tidy, CountsAsLive, HoldsSlot, Sound, Record, Settled, NoClaim
<1>1. ASSUME NEW job, NEW id, NEW marker, NEW s, s = MarkJITCreated(r, job, id, marker)
      PROVE  Lightens(r, s)
  BY <1>1 DEF MarkJITCreated
<1>2. ASSUME NEW i, NEW id, NEW s, s = MarkProvisioned(r, i, id) PROVE Lightens(r, s)
  BY <1>2 DEF MarkProvisioned
<1> HIDE DEF Lightens
<1> QED
  BY <1>1, <1>2

\* A claim for provisioning uses one slot at most.
LEMMA ClaimedWeighs ==
  ASSUME NEW r, Tidy(r), Claimable(r)
  PROVE  /\ LiveRunners < MaxLive \/ Lightens(r, Claimed(r))
         /\ Claimed(r).status # "absent"
<1> SUFFICES ASSUME NEW s, s = Claimed(r)
             PROVE  (LiveRunners < MaxLive \/ Lightens(r, s)) /\ s.status # "absent"
  OBVIOUS
<1> USE DEF Lightens, Tidy, CountsAsLive, HoldsSlot, Sound, Record, NoClaim
<1>1. CASE WantsProvision(r) /\ CanProvision(r)
  BY <1>1 DEF WantsProvision, CanProvision, Claimed, ClaimProvision
<1>2. CASE WantsDelete(r)
  BY <1>2 DEF WantsDelete, Claimed, ClaimDelete
<1> QED
  BY <1>1, <1>2 DEF Claimable

\* The records that count, and how a step may change them.
Live == {j \in Jobs : CountsAsLive(records[j])}

AllLightenBut(j) == \A k \in Jobs \ {j} : Lightens(records[k], records'[k])
AllLighten == \A k \in Jobs : Lightens(records[k], records'[k])

\* The count is a number, and no key without a record is in it.
CountInv ==
  /\ IsFiniteSet(Live)
  /\ \A j \in Jobs : records[j].status = "absent" => ~HoldsSlot(records[j])

\* The completion of a runner brings the orphan that owns it back into the
\* count, which it had left because it names no instance.
Revival ==
  \E k, j \in Jobs : CompletedWebhook(k) /\ Revived(records[j], records'[j])

LEMMA PlainRecords == IInv /\ CountInv => \A j \in Jobs : Tidy(records[j])
  BY DEF IInv, TypeOK, StoreTypeOK, RecordsSound, CountInv, Tidy

LEMMA SameLightens == IInv /\ CountInv /\ records' = records => AllLighten
  BY PlainRecords, LightensItself DEF AllLighten

LEMMA PutLightens ==
  ASSUME IInv, CountInv, NEW j \in Jobs, NEW s, records' = [records EXCEPT ![j] = s],
         Lightens(records[j], s)
  PROVE  AllLighten
<1>1. \A k \in Jobs : records'[k] = IF k = j THEN s ELSE records[k]
  BY DEF IInv, TypeOK, StoreTypeOK
<1> QED
  BY <1>1, PlainRecords, LightensItself DEF AllLighten

\* Steps that write no record.
LEMMA RemoteLightens ==
  ASSUME IInv, CountInv, NEW w \in Workers,
         \/ Deregister(w) \/ Find(w) \/ DropVM(w) \/ CheckDemand(w) \/ AskDemand(w)
         \/ Generate(w) \/ DropJIT(w) \/ Create(w) \/ IndexVM(w) \/ CleanupExhausted(w)
         \/ DeleteInstance(w) \/ ConfirmAbsence(w) \/ CleanupRest(w) \/ Recheck(w)
         \/ AskOriginal(w)
  PROVE  AllLighten
<1>1. records' = records
  BY DEF Deregister, Find, DropVM, CheckDemand, AskDemand, Generate, DropJIT, Create,
     IndexVM, IndexInstance, CleanupExhausted, DeleteInstance, ConfirmAbsence, CleanupRest,
     Recheck, AskOriginal, Local, CallsGitHub, CallsProvider, storeVars
<1> QED
  BY <1>1, SameLightens

LEMMA LastWriteLightens ==
  ASSUME IInv, CountInv, NEW w \in Workers, worker[w].pc \in LastWritePcs
  PROVE  Lightens(records[worker[w].job], LastWrite(w))
<1> DEFINE r == records[worker[w].job]
<1>1. Working(w)
  BY DEF LastWritePcs, Working
<1>2. Tidy(r)
  BY <1>1, WorkingFacts, PlainRecords
<1>3. "provision" \in WorkKinds /\ "delete" \in WorkKinds
  BY DEF WorkKinds
<1>4. LastWrite(w) \in
        {ReleaseClaim(r, "provision"), DeferRateLimitedWork(r, "provision"),
         DeferProvisioningDemand(r), MarkProvisionFailed(r), ReleaseClaim(r, "delete"),
         DeferRateLimitedWork(r, "delete"), MarkDeleteFailed(r),
         DeferReassignmentDemand(r), MarkOrphaned(r)}
  BY DEF LastWrite, LastWritePcs, At
<1> HIDE DEF r
<1>5. Lightens(r, LastWrite(w))
  BY <1>2, <1>3, <1>4, WorkLightens, DeletionLightens
<1> QED
  BY <1>5 DEF r

LEMMA WorkerWritesLighten ==
  ASSUME IInv, CountInv, NEW w \in Workers,
         \/ Clear(w) \/ EndWork(w) \/ Retire(w) \/ PersistJIT(w) \/ PersistVM(w)
         \/ AcceptDeletion(w) \/ AwaitAbsence(w) \/ FinishDeletion(w) \/ FinishFailed(w)
  PROVE  AllLighten
<1> DEFINE j == worker[w].job
           r == records[j]
<1>1. Working(w)
  BY DEF Clear, ClearPcs, EndWork, LastWritePcs, Retire, PersistJIT, PersistVM,
     AcceptDeletion, AwaitAbsence, FinishDeletion, FinishFailed, At, Working
<1>2. j \in Jobs /\ Tidy(r) /\ r.claim = KindOf(w)
  BY <1>1, WorkingFacts, PlainRecords
<1>3. PutFails \/ UNCHANGED storeVars => AllLighten
  BY SameLightens DEF PutFails, storeVars
<1>4. ASSUME NEW s, Put(j, s), Lightens(r, s) PROVE AllLighten
  BY <1>2, <1>4, PutLightens DEF Put
<1>5. CASE Clear(w)
  BY <1>2, <1>3, <1>4, <1>5, DeletionLightens DEF Clear
<1>6. CASE EndWork(w)
  BY <1>3, <1>4, <1>6, LastWriteLightens DEF EndWork
<1>7. CASE Retire(w)
  <2>1. KindOf(w) = "provision"
    BY <1>7 DEF Retire, At, KindOf, ProvisionPcs
  <2>2. r.instance = NoInstance
    BY <1>2, <2>1 DEF Tidy, Sound
  <2>3. Put(j, MarkDeleted(r)) \/ PutFails
    BY <1>7, <2>2 DEF Retire
  <2> QED
    BY <1>2, <1>3, <1>4, <2>3, DeletionLightens
<1>8. CASE PersistJIT(w)
  <2>1. r.claim = "provision"
    BY <1>2, <1>8 DEF PersistJIT, At, KindOf, ProvisionPcs
  <2>2. CASE PutJIT(j, worker[w].jit)
    <3>1. PICK s : s = MarkJITCreated(r, j, worker[w].jit, markers[worker[w].jit])
      OBVIOUS
    <3>2. records' = [records EXCEPT ![j] = s]
      BY <2>2, <3>1 DEF PutJIT
    <3> QED
      BY <1>2, <2>1, <3>1, <3>2, ProvisioningLightens, PutLightens
  <2> QED
    BY <1>3, <1>8, <2>2 DEF PersistJIT
<1>9. CASE PersistVM(w)
  <2>1. r.claim = "provision"
    BY <1>2, <1>9 DEF PersistVM, At, KindOf, ProvisionPcs
  <2>2. CASE PutInstance(j, worker[w].inst, worker[w].rec.runner)
    BY <1>2, <2>1, <2>2, ProvisioningLightens, PutLightens DEF PutInstance, Put
  <2> QED
    BY <1>3, <1>9, <2>2 DEF PersistVM
<1>10. CASE AcceptDeletion(w)
  BY <1>2, <1>3, <1>4, <1>10, DeletionLightens DEF AcceptDeletion
<1>11. CASE AwaitAbsence(w)
  BY <1>2, <1>3, <1>4, <1>11, DeletionLightens DEF AwaitAbsence
<1>12. CASE FinishDeletion(w)
  BY <1>2, <1>3, <1>4, <1>12, DeletionLightens DEF FinishDeletion
<1>13. CASE FinishFailed(w)
  BY <1>2, <1>3, <1>4, <1>13, WorkLightens DEF FinishFailed
<1> QED
  BY <1>5, <1>6, <1>7, <1>8, <1>9, <1>10, <1>11, <1>12, <1>13

LEMMA ScanLightens ==
  ASSUME IInv, CountInv, NEW w \in Workers, Scan(w)
  PROVE  AllLighten
<1>1. \A k \in Jobs : records'[k] = records[k] \/ records'[k] = Backstop(records[k])
  BY DEF Scan, ScanWithoutClaim, ScanStops
<1> QED
  BY <1>1, PlainRecords, LightensItself, WorkLightens DEF AllLighten

\* A claim adds one record to the count, and only below the ceiling.
LEMMA ClaimAdds ==
  ASSUME IInv, CountInv, NEW w \in Workers, Claim(w)
  PROVE  \E j \in Jobs : /\ AllLightenBut(j) /\ records'[j].status # "absent"
                         /\ LiveRunners < MaxLive \/ Lightens(records[j], records'[j])
<1>1. PICK j \in Jobs : ClaimFirst(j)
  BY DEF Claim
<1>2. /\ records'[j] = Claimed(records[j])
      /\ \A k \in Jobs \ {j} :
           records'[k] = records[k] \/ records'[k] = Backstop(records[k])
  BY <1>1 DEF ClaimFirst
<1>3. AllLightenBut(j)
  BY <1>2, PlainRecords, LightensItself, WorkLightens DEF AllLightenBut
<1>4. Claimable(records[j])
  BY <1>1 DEF ClaimFirst
<1> QED
  BY <1>2, <1>3, <1>4, PlainRecords, ClaimedWeighs

LEMMA CompletionLightens ==
  ASSUME IInv, CountInv, NEW j \in Jobs, CompletedWebhook(j)
  PROVE  \/ AllLighten
         \/ \E k \in Jobs : /\ AllLightenBut(k) /\ Revived(records[k], records'[k])
<1> DEFINE id == ranOn[j]
           m == MatchedKey(id)
<1>1. RecordCompletion(j, id)
  BY DEF CompletedWebhook
<1>2. ASSUME NEW k \in Jobs, k # m PROVE Lightens(records[k], records'[k])
  <2>1. records'[k] = records[k] \/ records'[k] = EventCompletion(records[k], id)
    BY <1>1, <1>2 DEF RecordCompletion
  <2> QED
    BY <2>1, PlainRecords, LightensItself, EventsLighten
<1>3. CASE m \in Jobs
  <2>1. PICK own \in BOOLEAN : own = (m = j)
    OBVIOUS
  <2>2. records'[m] = MatchedCompletion(records[m], own)
    BY <1>1, <1>3, <2>1 DEF RecordCompletion
  <2>3. m # NoJob
    BY <1>3, JobsAssumption DEF NoJob
  <2>4. records[m].status \notin {"absent", "deleted"}
    BY <2>3 DEF MatchedKey
  <2>5. Lightens(records[m], records'[m]) \/ Revived(records[m], records'[m])
    BY <1>3, <2>2, <2>4, PlainRecords, MatchLightens
  <2> QED
    BY <1>2, <1>3, <2>5 DEF AllLighten, AllLightenBut
<1>4. CASE m \notin Jobs
  BY <1>2, <1>4 DEF AllLighten
<1> QED
  BY <1>3, <1>4

LEMMA EventsLightenAll ==
  ASSUME IInv, CountInv, NEW j \in Jobs,
         QueuedWebhook(j) \/ RetryTimePasses(j) \/ RetentionPasses(j)
  PROVE  AllLighten
<1>1. CASE QueuedWebhook(j)
  BY <1>1, PlainRecords, EventsLighten, PutLightens DEF QueuedWebhook, CreateRecord, Put
<1>2. CASE RetryTimePasses(j)
  BY <1>2, PlainRecords, EventsLighten, PutLightens DEF RetryTimePasses, BecomeDue, Put
<1>3. CASE RetentionPasses(j)
  BY <1>3, PlainRecords, EventsLighten, PutLightens DEF RetentionPasses, PruneDeleted, Put
<1> QED
  BY <1>1, <1>2, <1>3

LEMMA RestartLightens ==
  ASSUME IInv, CountInv, Restart
  PROVE  AllLighten
<1>1. \A j \in Jobs : records'[j] = RecoverRecord(records[j])
  BY DEF Restart, Reopen, RecoveredRecords
<1> QED
  BY <1>1, PlainRecords, EventsLighten DEF AllLighten

LEMMA ReaperLightens ==
  ASSUME IInv, CountInv, ReaperStep
  PROVE  AllLighten
<1> DEFINE r == records[reaper.job]
<1>1. CASE \/ ListExpired \/ (\E j \in Jobs : ExpireRunner(j)) \/ ReapDeregister \/ ReapVMs
           \/ \E id \in Runners : ReapMarker(id)
  BY <1>1, SameLightens DEF ListExpired, ExpireRunner, ReapDeregister, ReapVMs, ReapMarker,
     storeVars
<1>2. PutFails => AllLighten
  BY SameLightens DEF PutFails
<1>3. ASSUME NEW s, reaper.pc # "idle", Put(reaper.job, s), Lightens(r, s) PROVE AllLighten
  BY <1>3, PutLightens DEF Put, IInv, ReaperHasJob
<1>4. reaper.pc # "idle" => Tidy(r)
  BY PlainRecords DEF IInv, ReaperHasJob
<1>5. CASE BeginCleanup
  BY <1>2, <1>3, <1>4, <1>5, CleanupLightens DEF BeginCleanup
<1>6. CASE ReapClear
  BY <1>2, <1>3, <1>4, <1>6, DeletionLightens DEF ReapClear
<1>7. CASE EndReap
  <2>1. reaper.pc \in ReapWritePcs /\ reaper.pc # "idle"
    BY <1>7 DEF EndReap, ReapWritePcs
  <2>2. /\ Lightens(r, ScheduleDeletion(r)) /\ Lightens(r, MarkOrphaned(r))
        /\ Lightens(r, MarkDeleted(r)) /\ Lightens(r, MarkDeleteFailed(r))
        /\ Lightens(r, DeferReconciliation(r, TRUE, FALSE))
        /\ Lightens(r, DeferReconciliation(r, FALSE, TRUE))
        /\ Lightens(r, DeferReconciliation(r, FALSE, FALSE))
        /\ Lightens(r, DeferRateLimitedCleanup(r, TRUE))
        /\ Lightens(r, DeferRateLimitedCleanup(r, FALSE))
    BY <1>4, <2>1, WorkLightens, DeletionLightens, CleanupLightens
  <2>3. Lightens(r, ReapWrite)
    BY <2>1, <2>2 DEF ReapWrite, ReapWritePcs
  <2> QED
    BY <1>2, <1>3, <1>7, <2>1, <2>3 DEF EndReap
<1> QED
  BY <1>1, <1>5, <1>6, <1>7 DEF ReaperStep

LEMMA NextLightens ==
  ASSUME IInv, CountInv, [Next]_vars
  PROVE  \/ AllLighten
         \/ \E j \in Jobs : /\ AllLightenBut(j) /\ records'[j].status # "absent"
                            /\ \/ LiveRunners < MaxLive
                               \/ Lightens(records[j], records'[j])
                               \/ Revival
<1>1. CASE UNCHANGED vars
  BY <1>1, SameLightens DEF vars, storeVars
<1>2. ASSUME NEW j \in Jobs, RunnerTakesJob(j) \/ ForeignRunnerTakesJob(j) \/ JobEnds(j)
      PROVE  AllLighten
  BY <1>2, SameLightens DEF RunnerTakesJob, ForeignRunnerTakesJob, JobEnds, storeVars
<1>3. ASSUME NEW i \in Instances, InstanceMoves(i) PROVE AllLighten
  BY <1>3, SameLightens DEF InstanceMoves, storeVars
<1>4. ASSUME NEW k \in Jobs, CompletedWebhook(k)
      PROVE  \/ AllLighten
             \/ \E j \in Jobs : /\ AllLightenBut(j) /\ records'[j].status # "absent"
                                /\ Revival
  BY <1>4, CompletionLightens DEF Revived, Revival
<1>5. CASE Outside
  BY <1>2, <1>3, <1>4, <1>5, EventsLightenAll DEF Outside
<1>6. ASSUME NEW w \in Workers, WorkerStep(w), ~Claim(w) PROVE AllLighten
  <2>1. \/ Scan(w) \/ Clear(w) \/ EndWork(w) \/ Retire(w) \/ PersistJIT(w) \/ PersistVM(w)
        \/ AcceptDeletion(w) \/ AwaitAbsence(w) \/ FinishDeletion(w) \/ FinishFailed(w)
        \/ Deregister(w) \/ Find(w) \/ DropVM(w) \/ CheckDemand(w) \/ AskDemand(w)
        \/ Generate(w) \/ DropJIT(w) \/ Create(w) \/ IndexVM(w) \/ CleanupExhausted(w)
        \/ DeleteInstance(w) \/ ConfirmAbsence(w) \/ CleanupRest(w) \/ Recheck(w)
        \/ AskOriginal(w)
    BY <1>6 DEF WorkerStep, ProvisionStep, DeleteStep
  <2> QED
    BY <2>1, ScanLightens, WorkerWritesLighten, RemoteLightens
<1>7. CASE WorkersMove
  BY <1>6, <1>7, ClaimAdds DEF WorkersMove
<1>8. CASE ReaperMoves
  BY <1>8, ReaperLightens, EventsLightenAll DEF ReaperMoves
<1> QED
  BY <1>1, <1>5, <1>7, <1>8, RestartLightens DEF Next

\* The count afterwards, when no record but perhaps one has been added to it.
LEMMA CountAfter ==
  ASSUME IInv, CountInv, NEW added, Live' \subseteq Live \cup added,
         added = {} \/ \E j : added = {j}
  PROVE  /\ IsFiniteSet(Live') /\ LiveRunners \in Nat /\ LiveRunners' \in Nat
         /\ LiveRunners' <= LiveRunners + 1
         /\ added = {} => LiveRunners' <= LiveRunners
<1>1. LiveRunners = Cardinality(Live) /\ LiveRunners' = Cardinality(Live')
  BY DEF LiveRunners, Live
<1>2. IsFiniteSet(Live) /\ Cardinality(Live) \in Nat
  BY FS_CardinalityType DEF CountInv
<1>3. CASE added = {}
  <2>1. Live' \in SUBSET Live
    BY <1>3
  <2>2. /\ IsFiniteSet(Live') /\ Cardinality(Live') <= Cardinality(Live)
    BY <1>2, <2>1, FS_Subset
  <2>3. Cardinality(Live') \in Nat
    BY <2>2, FS_CardinalityType
  <2> QED
    BY <1>1, <1>2, <2>2, <2>3
<1>4. ASSUME NEW j, added = {j}
      PROVE  /\ IsFiniteSet(Live') /\ Cardinality(Live') \in Nat
             /\ Cardinality(Live') <= Cardinality(Live) + 1
  <2> DEFINE more == Live \cup {j}
  <2>1. IsFiniteSet(more) /\ Cardinality(more) \in {Cardinality(Live), Cardinality(Live) + 1}
    BY <1>2, FS_AddElement
  <2>2. Live' \in SUBSET more
    BY <1>4
  <2> HIDE DEF more
  <2>3. IsFiniteSet(Live') /\ Cardinality(Live') <= Cardinality(more)
    BY <2>1, <2>2, FS_Subset
  <2>4. Cardinality(Live') \in Nat
    BY <2>3, FS_CardinalityType
  <2> QED
    BY <1>2, <2>1, <2>3, <2>4
<1>5. ASSUME NEW j, added = {j} PROVE added # {}
  BY <1>5
<1> QED
  BY <1>1, <1>2, <1>3, <1>4, <1>5

LEMMA CountKept ==
  ASSUME IInv, CountInv, [Next]_vars
  PROVE  /\ CountInv'
         /\ CeilingHolds => CeilingHolds' \/ Revival
<1>1. MaxLive \in Nat
  BY CeilingAssumption
<1>2. CASE AllLighten
  <2>1. Live' \subseteq Live \cup {}
    BY <1>2 DEF Live, AllLighten, Lightens
  <2>2. /\ IsFiniteSet(Live') /\ LiveRunners \in Nat /\ LiveRunners' \in Nat
        /\ LiveRunners' <= LiveRunners
    BY <2>1, CountAfter
  <2>3. CountInv'
    BY <1>2, <2>2 DEF CountInv, AllLighten, Lightens
  <2>4. CeilingHolds => CeilingHolds'
    BY <1>1, <2>2 DEF CeilingHolds
  <2> QED
    BY <2>3, <2>4
<1>3. ASSUME NEW j \in Jobs, AllLightenBut(j), records'[j].status # "absent",
             \/ LiveRunners < MaxLive
             \/ Lightens(records[j], records'[j])
             \/ Revival
      PROVE  CountInv' /\ (CeilingHolds => CeilingHolds' \/ Revival)
  <2>1. Live' \subseteq Live \cup {j}
    BY <1>3 DEF Live, AllLightenBut, Lightens
  <2>2. /\ IsFiniteSet(Live') /\ LiveRunners \in Nat /\ LiveRunners' \in Nat
        /\ LiveRunners' <= LiveRunners + 1
    BY <2>1, CountAfter
  <2>3. CountInv'
    BY <1>3, <2>2 DEF CountInv, AllLightenBut, Lightens
  <2>4. CASE LiveRunners < MaxLive
    BY <1>1, <2>2, <2>3, <2>4 DEF CeilingHolds
  <2>5. CASE Lightens(records[j], records'[j])
    <3>1. AllLighten
      BY <1>3, <2>5 DEF AllLighten, AllLightenBut
    <3> QED
      BY <1>2, <3>1
  <2> QED
    BY <1>3, <2>3, <2>4, <2>5
<1> QED
  BY <1>2, <1>3, NextLightens

LEMMA CountInitially == Init => CountInv /\ CeilingHolds
<1> SUFFICES ASSUME Init PROVE CountInv /\ CeilingHolds
  OBVIOUS
<1>1. \A j \in Jobs : records[j] = Absent
  BY DEF Init, StoreInit
<1>2. Live = {}
  BY <1>1 DEF Live, CountsAsLive, Absent
<1>3. ~HoldsSlot(Absent)
  BY DEF HoldsSlot, Absent
<1>4. IsFiniteSet(Live) /\ Cardinality(Live) = 0
  BY <1>2, FS_EmptySet
<1>5. LiveRunners = 0
  BY <1>4 DEF LiveRunners, Live
<1> QED
  BY <1>1, <1>3, <1>4, <1>5, CeilingAssumption DEF CountInv, CeilingHolds

LEMMA CountInvariance == Spec => []CountInv
<1>1. IInv /\ CountInv /\ [Next]_vars => CountInv'
  BY CountKept
<1> QED
  BY <1>1, CountInitially, Invariance, PTL DEF Spec

\* The only step that can take the live count above maxLiveRunners is the
\* completion of a runner whose record was orphaned without an instance id:
\* no claim, failed create, restored demand, reaper step, failed write or
\* restart does, for any number of jobs and workers and any failures.
THEOREM OnlyRevivalsExceed ==
  Spec => [][CeilingHolds => CeilingHolds' \/ Revival]_vars
<1>1. IInv /\ CountInv /\ [Next]_vars => [CeilingHolds => CeilingHolds' \/ Revival]_vars
  BY CountKept
<1> QED
  BY <1>1, CountInvariance, Invariance, PTL DEF Spec

\* Hence the admission ceiling of ClaimNext (liveRunnerCountLocked compared
\* with maxLiveRunners) holds for as long as no such orphan is revived.
THEOREM CeilingIsKept == Spec /\ [][~Revival]_vars => []CeilingHolds
<1>1. IInv /\ CountInv /\ CeilingHolds /\ [Next]_vars /\ [~Revival]_vars => CeilingHolds'
  <2>1. UNCHANGED vars => (CeilingHolds => CeilingHolds')
    BY DEF vars, storeVars, CeilingHolds, LiveRunners
  <2> QED
    BY <2>1, CountKept
<1> QED
  BY <1>1, CountInitially, CountInvariance, Invariance, PTL DEF Spec

-----------------------------------------------------------------------------
(* Nothing is lost.  The ceiling and the fleet are held together by the      *)
(* record of each instance; what follows shows that it is there, unless the  *)
(* outcome of a successful create has been lost.                             *)

\* The three ways to lose it: the create itself reports an error although its
\* instance has started, the write that records the instance fails, or the
\* process dies between the two.
InstanceLost ==
  \E w \in Workers :
    \/ Create(w) /\ vm' # vm /\ worker'[w].pc # "persistVM"
    \/ PersistVM(w) /\ PutFails
    \/ At(w, "persistVM") /\ Restart

\* The instance of the job is recorded, or a worker is about to record it.
Traced(j) ==
  \/ records[j].instance # NoInstance
  \/ \E w \in Workers : At(w, "persistVM") /\ worker[w].job = j

\* A registration that an instance was started with is held by a traced record.
StartedTraced ==
  \A i \in Instances, j \in Jobs :
    vm[i].runner # NoRunner /\ records[j].runner = vm[i].runner => Traced(j)

\* No instance was started with a registration that is not stored yet.
NewIdsUnused ==
  \A w \in Workers, i \in Instances :
    At(w, "persistJIT") => vm[i].runner # worker[w].jit

\* A job that ran here ran on an instance.
JobsRanHere ==
  \A j \in Jobs : ranOn[j] \in Runners => \E i \in Instances : vm[i].runner = ranOn[j]

TracedInv == StartedTraced /\ NewIdsUnused /\ JobsRanHere

LEMMA TracedInitially == Init => TracedInv
<1> SUFFICES ASSUME Init PROVE TracedInv
  OBVIOUS
<1>1. \A i \in Instances : vm[i].runner = NoRunner
  BY DEF Init, ProviderInit
<1>2. \A w \in Workers : ~At(w, "persistJIT")
  BY DEF Init, WorkerInit, Idle, At
<1>3. \A j \in Jobs : ranOn[j] \notin Runners
  BY NothingIsNoId DEF Init, GitHubInit
<1> QED
  BY <1>1, <1>2, <1>3 DEF TracedInv, StartedTraced, NewIdsUnused, JobsRanHere

\* Apart from the two calls that store an identity, records only lose theirs.
LEMMA NextFades ==
  ASSUME IInv, [Next]_vars
  PROVE  RecordsFade \/ \E w \in Workers : PersistJIT(w) \/ PersistVM(w)
<1>1. records' = records => RecordsFade
  BY FadesItself DEF RecordsFade
<1>2. ASSUME NEW j \in Jobs,
             QueuedWebhook(j) \/ CompletedWebhook(j) \/ RunnerTakesJob(j)
             \/ ForeignRunnerTakesJob(j) \/ JobEnds(j) \/ RetryTimePasses(j)
      PROVE  RecordsFade
  BY <1>2, CompletedWebhookFades, OutsideQuiet DEF Quiet
<1>3. CASE Outside
  BY <1>1, <1>2, <1>3 DEF Outside, InstanceMoves, storeVars
<1>4. ASSUME NEW w \in Workers, WorkerStep(w), ~PersistJIT(w), ~PersistVM(w)
      PROVE  RecordsFade
  <2>1. CASE Claim(w)
    BY <2>1, ClaimFades
  <2>2. CASE Generate(w)
    BY <1>1, <2>2 DEF Generate, CallsGitHub, storeVars
  <2>3. CASE IndexVM(w)
    BY <1>1, <2>3 DEF IndexVM, IndexInstance
  <2>4. CASE ~Claim(w) /\ ~Generate(w) /\ ~IndexVM(w)
    BY <1>4, <2>4, ScanQuiet, DeregisterQuiet, ClearQuiet, EndWorkQuiet, FindQuiet,
       DemandQuiet, RetireQuiet, DropJITQuiet, CreateQuiet, DeleteStepQuiet
       DEF WorkerStep, ProvisionStep, Quiet
  <2> QED
    BY <2>1, <2>2, <2>3, <2>4
<1>5. CASE ReaperMoves
  BY <1>5, ReaperQuiet DEF Quiet
<1>6. CASE Restart
  BY <1>6, TypeFacts, RecoverRecordFades DEF RecordsFade, Restart, Reopen, RecoveredRecords
<1>7. CASE UNCHANGED vars
  BY <1>1, <1>7 DEF vars, storeVars
<1> QED
  BY <1>3, <1>4, <1>5, <1>6, <1>7 DEF Next, WorkersMove

-----------------------------------------------------------------------------
(* A step of a worker moves no other worker, takes it from the call that     *)
(* keeps an instance only by this call, and gives it a registration to store *)
(* only from GitHub.                                                         *)

MovesAlone(w) ==
  /\ \A v \in Workers : v # w => worker'[v] = worker[v]
  /\ worker'[w].pc = "persistJIT" => Generate(w)
  /\ At(w, "persistVM") => PersistVM(w)

Alone(w) ==
  /\ \A v \in Workers : v # w => worker'[v] = worker[v]
  /\ worker'[w].pc # "persistJIT"

LEMMA EditAlone ==
  ASSUME IInv, NEW w \in Workers, NEW t, worker' = [worker EXCEPT ![w] = t],
         t.pc # "persistJIT"
  PROVE  Alone(w)
  BY DEF IInv, TypeOK, WorkerTypeOK, Alone

LEMMA GotoAlone ==
  ASSUME IInv, NEW w \in Workers, NEW pc, Goto(w, pc), pc # "persistJIT"
  PROVE  Alone(w)
  BY GotoMoves DEF Alone

LEMMA FinishAlone ==
  ASSUME IInv, NEW w \in Workers, Finish(w)
  PROVE  Alone(w)
<1>1. Idle.pc # "persistJIT"
  BY DEF Idle
<1> QED
  BY <1>1, EditAlone DEF Finish

\* Errors do not lead there.
LEMMA FailingAlone ==
  ASSUME IInv, NEW w \in Workers, NEW e,
         \/ Goto(w, ProvisionFailed(w, e)) \/ Goto(w, DeleteFailed(w, e))
         \/ Goto(w, OrphanProvision(w)) \/ Goto(w, OrphanDelete(w))
         \/ \E pc \in DeferDemandCheck(w, e) : Goto(w, pc)
  PROVE  Alone(w)
<1>1. "persistJIT" \notin QuietPcs
  BY DEF QuietPcs, DeregisterPcs, LastWritePcs
<1> QED
  BY <1>1, ErrorsAreQuiet, GotoAlone

LEMMA IdleAlone ==
  ASSUME IInv, NEW w \in Workers, Claim(w) \/ Scan(w)
  PROVE  Alone(w)
<1>1. CASE Claim(w)
  <2>1. PICK j \in Jobs :
          worker' = [worker EXCEPT ![w] = [Idle EXCEPT !.pc = FirstStep(Claimed(records[j])),
                                           !.job = j, !.rec = Claimed(records[j])]]
    BY <1>1 DEF Claim
  <2> DEFINE t == [Idle EXCEPT !.pc = FirstStep(Claimed(records[j])),
                               !.job = j, !.rec = Claimed(records[j])]
  <2>2. FirstStep(Claimed(records[j])) # "persistJIT"
    BY DEF FirstStep
  <2>3. t.pc # "persistJIT"
    BY <2>2 DEF Idle
  <2>4. worker' = [worker EXCEPT ![w] = t]
    BY <2>1
  <2> HIDE DEF t
  <2> QED
    BY <2>3, <2>4, EditAlone
<1>2. CASE Scan(w)
  BY <1>2 DEF Scan, At, Alone
<1> QED
  BY <1>1, <1>2

LEMMA SharedAlone ==
  ASSUME IInv, NEW w \in Workers, Deregister(w) \/ Clear(w) \/ EndWork(w)
  PROVE  Alone(w)
<1>1. CASE Deregister(w)
  <2>1. AfterRemoval(w) # "persistJIT"
    BY <1>1 DEF Deregister, DeregisterPcs, AfterRemoval, At
  <2>2. ASSUME NEW e, NEW pc \in AfterRefusal(w, e), Goto(w, pc) PROVE Alone(w)
    <3>1. \/ pc \in DeferDemandCheck(w, e) \/ pc = ProvisionFailed(w, e)
          \/ pc = DeleteFailed(w, e)
          \/ pc \in {"markFailed", "markOrphanProvision", "markOrphanDelete"}
      BY <1>1, <2>2 DEF Deregister, DeregisterPcs, AfterRefusal, At
    <3> QED
      BY <2>2, <3>1, FailingAlone, GotoAlone
  <2> QED
    BY <1>1, <2>1, <2>2, GotoAlone DEF Deregister
<1>2. CASE Clear(w)
  <2>1. AfterClear(w) # "persistJIT"
    BY <1>2 DEF Clear, ClearPcs, AfterClear, At
  <2>2. ASSUME NEW pc \in AfterClearFails(w), Goto(w, pc) PROVE Alone(w)
    <3>1. \/ pc \in DeferDemandCheck(w, "other") \/ pc = ProvisionFailed(w, "other")
          \/ pc \in {"markFailed", "markOrphanProvision", "markOrphanDelete"}
      BY <1>2, <2>2 DEF Clear, ClearPcs, AfterClearFails, At
    <3> QED
      BY <2>2, <3>1, FailingAlone, GotoAlone
  <2> QED
    BY <1>2, <2>1, <2>2, GotoAlone DEF Clear
<1>3. CASE EndWork(w)
  BY <1>3, FinishAlone DEF EndWork
<1> QED
  BY <1>1, <1>2, <1>3

LEMMA ProvisionAlone ==
  ASSUME IInv, NEW w \in Workers, ProvisionStep(w), ~Generate(w)
  PROVE  Alone(w)
<1>1. \A pc : Goto(w, pc) /\ pc # "persistJIT" => Alone(w)
  BY GotoAlone
<1>2. \A e : Goto(w, ProvisionFailed(w, e)) => Alone(w)
  BY FailingAlone
<1>3. CASE Find(w)
  <2>1. PICK pc : pc = IF worker[w].rec.runner = NoRunner THEN "dropVM" ELSE "persistVM"
    OBVIOUS
  <2>2. \/ \E i : worker' = [worker EXCEPT ![w].inst = i, ![w].pc = pc]
        \/ Goto(w, "demand") \/ \E e : Goto(w, ProvisionFailed(w, e))
    BY <1>3, <2>1 DEF Find
  <2>3. ASSUME NEW i, worker' = [worker EXCEPT ![w].inst = i, ![w].pc = pc] PROVE Alone(w)
    BY <2>1, <2>3 DEF Alone, IInv, TypeOK, WorkerTypeOK, Task
  <2> QED
    BY <1>1, <1>2, <2>2, <2>3
<1>4. CASE DropVM(w) \/ CleanupExhausted(w) \/ DropJIT(w)
  BY <1>1, <1>4, FailingAlone DEF DropVM, CleanupExhausted, DropJIT
<1>5. CASE CheckDemand(w) \/ AskDemand(w)
  BY <1>1, <1>5, FailingAlone DEF CheckDemand, AskDemand, GiveUpDemand
<1>6. CASE Retire(w) \/ IndexVM(w)
  BY <1>2, <1>6, FinishAlone DEF Retire, IndexVM
<1>7. CASE PersistJIT(w)
  <2>1. ASSUME worker' = [worker EXCEPT ![w].pc = "demand", ![w].rec.runner = worker[w].jit]
        PROVE  Alone(w)
    BY <2>1 DEF Alone, IInv, TypeOK, WorkerTypeOK, Task
  <2> QED
    BY <1>1, <1>7, <2>1 DEF PersistJIT
<1>8. CASE Create(w)
  <2>1. \/ \E e : Goto(w, ProvisionFailed(w, e))
        \/ \E i : worker' = [worker EXCEPT ![w].pc = "persistVM", ![w].inst = i]
    BY <1>8 DEF Create
  <2>2. ASSUME NEW i, worker' = [worker EXCEPT ![w].pc = "persistVM", ![w].inst = i]
        PROVE  Alone(w)
    BY <2>2 DEF Alone, IInv, TypeOK, WorkerTypeOK, Task
  <2> QED
    BY <1>2, <2>1, <2>2
<1>9. CASE PersistVM(w)
  <2>1. HalfDone(w).pc # "persistJIT"
    BY DEF HalfDone, Idle
  <2>2. worker' = [worker EXCEPT ![w] = HalfDone(w)] => Alone(w)
    BY <2>1, EditAlone
  <2> QED
    BY <1>2, <1>9, <2>2 DEF PersistVM
<1> QED
  BY <1>3, <1>4, <1>5, <1>6, <1>7, <1>8, <1>9 DEF ProvisionStep

LEMMA DeleteAlone ==
  ASSUME IInv, NEW w \in Workers, DeleteStep(w)
  PROVE  Alone(w)
<1>1. \A pc : Goto(w, pc) /\ pc # "persistJIT" => Alone(w)
  BY GotoAlone
<1>2. \A e : Goto(w, DeleteFailed(w, e)) => Alone(w)
  BY FailingAlone
<1>3. CASE DeleteInstance(w) \/ AcceptDeletion(w) \/ ConfirmAbsence(w)
  BY <1>1, <1>2, <1>3 DEF DeleteInstance, AcceptDeletion, ConfirmAbsence
<1>4. CASE CleanupRest(w) \/ Recheck(w)
  BY <1>1, <1>2, <1>4 DEF CleanupRest, Recheck
<1>5. CASE AwaitAbsence(w) \/ FinishDeletion(w) \/ FinishFailed(w)
  BY <1>1, <1>5, FinishAlone DEF AwaitAbsence, FinishDeletion, FinishFailed
<1>6. CASE AskOriginal(w)
  <2>1. \/ \E pc : Goto(w, pc) /\ pc # "persistJIT"
        \/ \E q : worker' = [worker EXCEPT ![w].pc = "finish", ![w].queued = q]
    BY <1>6 DEF AskOriginal
  <2>2. ASSUME NEW q, worker' = [worker EXCEPT ![w].pc = "finish", ![w].queued = q]
        PROVE  Alone(w)
    BY <2>2 DEF Alone, IInv, TypeOK, WorkerTypeOK, Task
  <2> QED
    BY <1>1, <2>1, <2>2
<1> QED
  BY <1>3, <1>4, <1>5, <1>6 DEF DeleteStep

\* What moves a worker is its own step, or the end of the process.
LEMMA StepMovesAlone ==
  ASSUME IInv, [Next]_vars
  PROVE  \/ worker' = worker \/ Restart
         \/ \E w \in Workers : WorkerStep(w) /\ MovesAlone(w)
<1>1. ASSUME NEW w \in Workers, WorkerStep(w) PROVE MovesAlone(w)
  <2>1. Alone(w) \/ Generate(w)
    BY <1>1, IdleAlone, SharedAlone, ProvisionAlone, DeleteAlone DEF WorkerStep
  <2>2. ASSUME Generate(w), NEW v \in Workers, v # w PROVE worker'[v] = worker[v]
    BY <2>2, GotoMoves DEF Generate, IInv, TypeOK, WorkerTypeOK
  <2>3. At(w, "persistVM") => PersistVM(w)
    BY <1>1 DEF WorkerStep, Claim, Scan, Deregister, DeregisterPcs, Clear, ClearPcs,
       EndWork, LastWritePcs, ProvisionStep, Find, DropVM, CheckDemand, AskDemand, Retire,
       Generate, PersistJIT, DropJIT, Create, IndexVM, CleanupExhausted, DeleteStep,
       DeleteInstance, AcceptDeletion, ConfirmAbsence, AwaitAbsence, CleanupRest, Recheck,
       AskOriginal, FinishDeletion, FinishFailed, At
  <2> QED
    BY <2>1, <2>2, <2>3 DEF Alone, MovesAlone
<1>2. CASE Outside \/ ReaperMoves
  BY <1>2 DEF Outside, QueuedWebhook, CompletedWebhook, RunnerTakesJob,
     ForeignRunnerTakesJob, JobEnds, RetryTimePasses, InstanceMoves, ReaperMoves,
     RetentionPasses
<1> QED
  BY <1>1, <1>2 DEF Next, WorkersMove, vars

-----------------------------------------------------------------------------
(* A traced job stays traced.                                                *)

\* An instance that was created or adopted is recorded in the next step of its
\* worker: the record is still claimed for provisioning, so MarkProvisioned
\* does not find it settled.
LEMMA InstanceIsStored ==
  ASSUME IInv, OInv, [Next]_vars, ~InstanceLost,
         NEW w \in Workers, At(w, "persistVM")
  PROVE  \/ worker'[w] = worker[w]
         \/ records'[worker[w].job].instance # NoInstance
<1> DEFINE j == worker[w].job
<1>1. Working(w) /\ KindOf(w) = "provision" /\ worker[w].pc \in FoundPcs
  BY DEF At, Working, KindOf, ProvisionPcs, FoundPcs
<1>2. /\ j \in Jobs /\ records[j] \in Record /\ ~Settled(records[j])
      /\ worker[w].inst # NoInstance
  BY <1>1, WorkingFacts, Owning, InstanceFact DEF Orderly, Settled, WorkerHolds
<1>3. CASE PersistVM(w)
  <2>1. ~PutFails
    BY <1>3 DEF InstanceLost
  <2>2. PutInstance(j, worker[w].inst, worker[w].rec.runner)
    BY <1>3, <2>1 DEF PersistVM
  <2>3. records'[j] = MarkProvisioned(records[j], worker[w].inst, worker[w].rec.runner)
    BY <1>2, <2>2 DEF PutInstance, Put, IInv, TypeOK, StoreTypeOK
  <2> QED
    BY <1>2, <2>3 DEF MarkProvisioned, Record
<1>4. worker' = worker \/ \E v \in Workers : MovesAlone(v)
  BY StepMovesAlone DEF InstanceLost
<1> QED
  BY <1>3, <1>4 DEF MovesAlone

LEMMA ClaimKeepsInstances ==
  ASSUME IInv, NEW w \in Workers, Claim(w), NEW j \in Jobs
  PROVE  records'[j].instance = records[j].instance
<1>1. PICK k \in Jobs : ClaimFirst(k)
  BY DEF Claim
<1>2. records'[j] \in {Claimed(records[j]), Backstop(records[j]), records[j]}
  BY <1>1 DEF ClaimFirst
<1>3. records[j] \in Record
  BY TypeFacts
<1>4. ASSUME NEW r \in Record, NEW s, s \in {Claimed(r), Backstop(r), r}
      PROVE  s.instance = r.instance
  BY <1>4 DEF Claimed, ClaimProvision, ClaimDelete, Backstop, Record
<1> QED
  BY <1>2, <1>3, <1>4

\* A record loses its instance when it goes, or when its deletion ends.
LostWith(j) ==
  /\ records'[j].runner = NoRunner
  /\ ~Present(records[j]) \/ \E w \in Workers : FinishDeletion(w) /\ worker[w].job = j

LEMMA InstanceKept ==
  ASSUME IInv, OInv, [Next]_vars, NEW j \in Jobs, records[j].instance # NoInstance
  PROVE  records'[j].instance # NoInstance \/ LostWith(j)
<1>1. CASE AllRest
  BY <1>1 DEF AllRest, Rests, LostWith
<1>2. ASSUME NEW w \in Workers, Claim(w) PROVE records'[j].instance # NoInstance
  BY <1>2, ClaimKeepsInstances
<1>3. ASSUME NEW w \in Workers, FinishDeletion(w)
      PROVE  records'[j].instance # NoInstance \/ LostWith(j)
  <2>1. CASE PutFails \/ j # worker[w].job
    BY <1>3, <2>1 DEF FinishDeletion, Put, PutFails, IInv, TypeOK, StoreTypeOK
  <2>2. CASE ~PutFails /\ j = worker[w].job
    <3>1. records'[j] = FinishDeletedRunner(records[j], worker[w].queued)
      BY <1>3, <2>2 DEF FinishDeletion, Put, IInv, TypeOK, StoreTypeOK
    <3>2. ASSUME NEW r \in Record, NEW s, s = FinishDeletedRunner(r, worker[w].queued)
          PROVE  s.instance = r.instance \/ s.runner = NoRunner
      BY <3>2 DEF FinishDeletedRunner, MarkDeleted, Record
    <3> QED
      BY <1>3, <2>2, <3>1, <3>2, TypeFacts DEF LostWith
  <2> QED
    BY <2>1, <2>2
<1> QED
  BY <1>1, <1>2, <1>3, NextRests

LEMMA TracedKept ==
  ASSUME IInv, OInv, [Next]_vars, ~InstanceLost,
         NEW j \in Jobs, Traced(j)
  PROVE  Traced(j)' \/ LostWith(j)
<1>1. CASE records[j].instance # NoInstance
  BY <1>1, InstanceKept DEF Traced
<1>2. ASSUME NEW w \in Workers, At(w, "persistVM"), worker[w].job = j PROVE Traced(j)'
  BY <1>2, InstanceIsStored DEF Traced, At
<1> QED
  BY <1>1, <1>2 DEF Traced

\* A create starts one instance at most and leaves the others alone.
LEMMA CreateStartsOne ==
  ASSUME IInv, NEW w \in Workers, Create(w), NEW i \in Instances
  PROVE  vm'[i] = vm[i] \/ (vm[i].state = "none" /\ vm'[i].state # "none")
<1>1. ASSUME NEW k \in Instances, NEW j, NEW id, StartVM(k, j, id)
      PROVE  vm'[i] = vm[i] \/ (vm[i].state = "none" /\ vm'[i].state # "none")
  BY <1>1 DEF StartVM, IInv, TypeOK, ProviderTypeOK
<1> QED
  BY <1>1 DEF Create, CreateReuses, CreateStarts, CreateFails

\* A step keeps an instance as it was tagged, or a worker has just started it.
LEMMA Tagged ==
  ASSUME IInv, XInv, OInv, [Next]_vars, NEW i \in Instances
  PROVE  \/ vm'[i].job = vm[i].job /\ vm'[i].runner = vm[i].runner
         \/ \E w \in Workers :
              /\ Create(w) /\ vm[i].state = "none" /\ vm'[i].state # "none"
              /\ vm'[i].job = worker[w].job /\ vm'[i].runner = worker[w].jit
              /\ worker[w].job \in Jobs /\ worker[w].jit \in Runners
              /\ records[worker[w].job].runner = worker[w].jit
<1>1. CASE TagsStay
  BY <1>1 DEF TagsStay
<1>2. ASSUME NEW w \in Workers, Create(w), vm[i].state = "none", vm'[i].state # "none"
      PROVE  /\ vm'[i].job = worker[w].job /\ vm'[i].runner = worker[w].jit
             /\ worker[w].job \in Jobs /\ worker[w].jit \in Runners
             /\ records[worker[w].job].runner = worker[w].jit
  BY <1>2, StartedWith
<1>3. ASSUME NEW w \in Workers, Create(w)
      PROVE  \/ vm'[i] = vm[i]
             \/ vm[i].state = "none" /\ vm'[i].state # "none"
  BY <1>3, CreateStartsOne
<1> QED
  BY <1>1, <1>2, <1>3, OnlyCreateStarts

LEMMA CreateKeepsJob ==
  ASSUME IInv, NEW w \in Workers, Create(w)
  PROVE  worker'[w].job = worker[w].job /\ records' = records
<1>1. \/ \E pc : Goto(w, pc)
      \/ \E i : worker' = [worker EXCEPT ![w].pc = "persistVM", ![w].inst = i]
  BY DEF Create
<1>2. worker'[w].job = worker[w].job
  BY <1>1, GotoMoves DEF IInv, TypeOK, WorkerTypeOK, Task
<1> QED
  BY <1>2 DEF Create, CallsProvider, storeVars

LEMMA StartedStayTraced ==
  ASSUME IInv, XInv, OInv, TracedInv, [Next]_vars, ~InstanceLost
  PROVE  StartedTraced'
<1> SUFFICES ASSUME NEW i \in Instances, NEW j \in Jobs, vm'[i].runner # NoRunner,
                    records'[j].runner = vm'[i].runner
             PROVE  Traced(j)'
  BY DEF StartedTraced, Traced
<1>1. CASE Traced(j)
  BY <1>1, TracedKept DEF LostWith
<1>2. CASE ~Traced(j) /\ vm'[i].runner = vm[i].runner
  <2>1. records[j].runner # records'[j].runner
    BY <1>2 DEF TracedInv, StartedTraced
  <2>2. ~RecordsFade
    BY <2>1 DEF RecordsFade, Fades
  <2>3. ASSUME NEW w \in Workers, PersistJIT(w) PROVE FALSE
    <3>1. j = worker[w].job /\ records'[j].runner = worker[w].jit
      <4>1. PutJIT(worker[w].job, worker[w].jit)
        BY <2>1, <2>3 DEF PersistJIT, PutFails
      <4>2. j = worker[w].job
        BY <2>1, <4>1 DEF PutJIT, IInv, TypeOK, StoreTypeOK
      <4>3. records'[j] = MarkJITCreated(records[j], j, worker[w].jit, markers[worker[w].jit])
        BY <4>1, <4>2 DEF PutJIT, IInv, TypeOK, StoreTypeOK
      <4>4. ASSUME NEW r \in Record, NEW id, NEW m, NEW s, s = MarkJITCreated(r, j, id, m)
            PROVE  s.runner \in {r.runner, id}
        BY <4>4 DEF MarkJITCreated, Record
      <4> QED
        BY <2>1, <4>2, <4>3, <4>4, TypeFacts
    <3> QED
      BY <1>2, <2>3, <3>1 DEF PersistJIT, TracedInv, NewIdsUnused
  <2>4. ASSUME NEW w \in Workers, PersistVM(w) PROVE FALSE
    <3>1. j = worker[w].job
      BY <2>1, <2>4 DEF PersistVM, PutFails, PutInstance, Put, IInv, TypeOK, StoreTypeOK
    <3> QED
      BY <1>2, <2>4, <3>1 DEF PersistVM, Traced
  <2> QED
    BY <2>2, <2>3, <2>4, NextFades
<1>3. ASSUME NEW w \in Workers,
             /\ Create(w) /\ vm[i].state = "none" /\ vm'[i].state # "none"
             /\ vm'[i].job = worker[w].job /\ vm'[i].runner = worker[w].jit
             /\ worker[w].job \in Jobs /\ worker[w].jit \in Runners
             /\ records[worker[w].job].runner = worker[w].jit
      PROVE  Traced(j)'
  <2>1. records' = records /\ worker'[w].job = worker[w].job
    BY <1>3, CreateKeepsJob
  <2>2. Held(j, worker[w].jit) /\ Held(worker[w].job, worker[w].jit)
    BY <1>3, <2>1 DEF Held
  <2>3. j = worker[w].job
    BY <1>3, <2>2 DEF XInv, RunnersExclusive
  <2>4. worker'[w].pc = "persistVM"
    BY <1>3 DEF InstanceLost
  <2> QED
    BY <2>1, <2>3, <2>4 DEF Traced, At
<1> QED
  BY <1>1, <1>2, <1>3, Tagged

LEMMA NewIdsStayUnused ==
  ASSUME IInv, XInv, OInv, TracedInv, [Next]_vars, ~InstanceLost
  PROVE  NewIdsUnused'
<1> SUFFICES ASSUME NEW v \in Workers, NEW i \in Instances, worker'[v].pc = "persistJIT",
                    vm'[i].runner = worker'[v].jit
             PROVE  FALSE
  BY DEF NewIdsUnused, At
<1>1. worker'[v] = worker[v] \/ Generate(v)
  <2>1. Restart => worker'[v] = Idle
    BY DEF Restart
  <2> QED
    BY <2>1, StepMovesAlone DEF MovesAlone, Idle
<1>2. CASE Generate(v)
  <2>1. "persistJIT" \notin QuietPcs
    BY DEF QuietPcs, DeregisterPcs, LastWritePcs
  <2>2. ~\E e : Goto(v, ProvisionFailed(v, e))
    BY <2>1, ErrorsAreQuiet, GotoMoves
  <2>3. worker' = [worker EXCEPT ![v].pc = "persistJIT", ![v].jit = issued + 1]
    BY <1>2, <2>2 DEF Generate
  <2>4. worker'[v].jit = issued + 1
    BY <2>3 DEF IInv, TypeOK, WorkerTypeOK, Task
  <2>5. vm' = vm /\ vm[i].runner <= issued /\ issued \in Nat
    BY <1>2, Ids DEF Generate, CallsGitHub, OInv, Carried, Known
  <2> QED
    BY <2>4, <2>5
<1>3. CASE worker'[v] = worker[v]
  <2>1. vm'[i].runner # vm[i].runner
    BY <1>3 DEF TracedInv, NewIdsUnused, At
  <2>2. PICK w \in Workers : /\ Create(w) /\ vm'[i].runner = worker[w].jit
                             /\ worker[w].job \in Jobs /\ worker[w].jit \in Runners
    BY <2>1, Tagged
  <2>3. w # v /\ Working(w) /\ Working(v)
    BY <1>3, <2>2 DEF Create, At, Working
  <2>4. worker[v].job \in Jobs /\ worker[v].job # worker[w].job
    BY <2>3, WorkingFacts DEF IInv, ClaimsExclusive
  <2>5. Held(worker[v].job, worker[w].jit) /\ Held(worker[w].job, worker[w].jit)
    BY <1>3, <2>2 DEF Held
  <2> QED
    BY <2>2, <2>4, <2>5 DEF XInv, RunnersExclusive
<1> QED
  BY <1>1, <1>2, <1>3

\* Only GitHub gives a job to a runner.
LEMMA OnlyTakersAssign ==
  ASSUME [Next]_vars
  PROVE  ranOn' = ranOn \/ \E j \in Jobs : RunnerTakesJob(j) \/ ForeignRunnerTakesJob(j)
<1>1. UNCHANGED githubVars \/ (\E id : RemoveRepoRunner(id)) \/ Issue => ranOn' = ranOn
  BY DEF githubVars, RemoveRepoRunner, Issue
<1>2. ASSUME NEW id, NEW e, RemovalFails(id, e) PROVE ranOn' = ranOn
  BY <1>1, <1>2 DEF RemovalFails
<1>3. ASSUME NEW w \in Workers, WorkerStep(w) PROVE ranOn' = ranOn
  BY <1>1, <1>2, <1>3 DEF WorkerStep, Claim, Scan, Deregister, Clear, EndWork, ProvisionStep,
     Find, DropVM, CheckDemand, AskDemand, Retire, Generate, GenerateJIT, GenerateJITFails,
     PersistJIT, DropJIT, Create, PersistVM, IndexVM, CleanupExhausted, DeleteStep,
     DeleteInstance, AcceptDeletion, ConfirmAbsence, AwaitAbsence, CleanupRest, Recheck,
     AskOriginal, FinishDeletion, FinishFailed, Local, CallsGitHub, CallsProvider, CallsStore, githubVars
<1>4. CASE ReaperMoves
  BY <1>1, <1>2, <1>4 DEF ReaperMoves, ReaperStep, RetentionPasses, ListExpired, ExpireRunner,
     BeginCleanup, ReapDeregister, ReapVMs, ReapClear, EndReap, ReapMarker, githubVars
<1>5. CASE Outside
  BY <1>1, <1>5 DEF Outside, QueuedWebhook, CompletedWebhook, JobEnds, FinishJob,
     CancelQueuedJob, RetryTimePasses, InstanceMoves
<1>6. CASE Restart
  BY <1>1, <1>6 DEF Restart
<1> QED
  BY <1>1, <1>3, <1>4, <1>5, <1>6 DEF Next, WorkersMove, vars

LEMMA JobsStayHere ==
  ASSUME IInv, XInv, OInv, TracedInv, [Next]_vars
  PROVE  JobsRanHere'
<1> SUFFICES ASSUME NEW j \in Jobs, ranOn'[j] \in Runners
             PROVE  \E i \in Instances : vm'[i].runner = ranOn'[j]
  BY DEF JobsRanHere
<1>1. CASE ranOn'[j] = ranOn[j]
  <2>1. PICK i \in Instances : vm[i].runner = ranOn[j]
    BY <1>1 DEF TracedInv, JobsRanHere
  <2>2. vm[i].runner # NoRunner
    BY <1>1, <2>1, NothingIsNoId
  <2>3. vm[i].state # "none"
    BY <2>2 DEF OInv, Carried
  <2> QED
    BY <1>1, <2>1, <2>3, Tagged
<1>2. ASSUME NEW k \in Jobs, RunnerTakesJob(k), ranOn'[j] # ranOn[j]
      PROVE  \E i \in Instances : vm'[i].runner = ranOn'[j]
  BY <1>2 DEF RunnerTakesJob, TakeJob, IInv, TypeOK, GitHubTypeOK
<1>3. ASSUME NEW k \in Jobs, ForeignRunnerTakesJob(k), ranOn'[j] # ranOn[j]
      PROVE  FALSE
  <2>1. ranOn'[j] = Foreign
    BY <1>3 DEF ForeignRunnerTakesJob, TakeJob, IInv, TypeOK, GitHubTypeOK
  <2> QED
    BY <2>1, BoundsAssumption DEF Foreign, Runners
<1> QED
  BY <1>1, <1>2, <1>3, OnlyTakersAssign

LEMMA TracingKept ==
  IInv /\ XInv /\ OInv /\ TracedInv /\ [Next]_vars /\ ~InstanceLost => TracedInv'
  BY StartedStayTraced, NewIdsStayUnused, JobsStayHere DEF TracedInv

\* The completion of a runner does not revive an orphan: the record that owns
\* the runner has a traced instance.
LEMMA NoRevival ==
  ASSUME IInv, OInv, TracedInv
  PROVE  ~Revival
<1> SUFFICES ASSUME NEW k \in Jobs, NEW j \in Jobs, CompletedWebhook(k),
                    Revived(records[j], records'[j])
             PROVE  FALSE
  BY DEF Revival
<1>1. records[j].status = "orphaned" /\ records[j].instance = NoInstance
      /\ records'[j].status = "completed"
  BY DEF Revived
<1>2. RecordCompletion(k, ranOn[k])
  BY DEF CompletedWebhook
<1>3. j = MatchedKey(ranOn[k])
  <2>1. ASSUME NEW r \in Record, NEW s, r.status = "orphaned",
               s = EventCompletion(r, ranOn[k]) \/ s = r
        PROVE  s.status = "orphaned"
    BY <2>1 DEF EventCompletion, Settled, Record
  <2>2. j # MatchedKey(ranOn[k]) =>
          records'[j] = EventCompletion(records[j], ranOn[k]) \/ records'[j] = records[j]
    BY <1>2 DEF RecordCompletion
  <2> QED
    BY <1>1, <2>1, <2>2, TypeFacts
<1>4. ranOn[k] \in Runners /\ records[j].runner = ranOn[k]
  BY <1>3, NothingIsNoId DEF MatchedKey
<1>5. Traced(j)
  BY <1>4, NothingIsNoId DEF TracedInv, JobsRanHere, StartedTraced
<1>6. PICK w \in Workers : At(w, "persistVM") /\ worker[w].job = j
  BY <1>1, <1>5 DEF Traced
<1>7. Working(w) /\ KindOf(w) = "provision"
  BY <1>6 DEF At, Working, KindOf, ProvisionPcs
<1>8. records[j].claim = "provision" /\ Orderly(records[j])
  BY <1>6, <1>7, WorkingFacts, Owning
<1> QED
  BY <1>1, <1>8 DEF Orderly

LEMMA TracingInvariance == ~Aging => (Spec /\ [][~InstanceLost]_vars => []TracedInv)
<1> SUFFICES ASSUME ~Aging PROVE Spec /\ [][~InstanceLost]_vars => []TracedInv
  OBVIOUS
<1>1. IInv /\ XInv /\ OInv /\ TracedInv /\ [Next]_vars /\ [~InstanceLost]_vars => TracedInv'
  <2>1. IInv /\ UNCHANGED vars => ~InstanceLost
    BY DEF InstanceLost, Restart, PutFails, IInv, TypeOK, StoreTypeOK, vars, storeVars
  <2> QED
    BY <2>1, TracingKept
<1> QED
  BY <1>1, TracedInitially, Invariance, IndexInvariance, OwnershipInvariance, PTL DEF Spec

\* The admission ceiling of ClaimNext (liveRunnerCountLocked compared with
\* maxLiveRunners) is not exceeded by what happens after a claim either, for
\* any number of jobs and workers, any errors of the calls to GitHub and to the
\* provider, any other failed journal writes and restarts, as long as no
\* instance is lost between its create and MarkProvisioned (InstanceLost) and
\* no record reaches MAX_RUNNER_AGE.
THEOREM CeilingIsNotExceeded ==
  ~Aging => (Spec /\ [][~InstanceLost]_vars => []CeilingHolds)
<1> SUFFICES ASSUME ~Aging PROVE Spec /\ [][~InstanceLost]_vars => []CeilingHolds
  OBVIOUS
<1>1. IInv /\ OInv /\ TracedInv => [~Revival]_vars
  BY NoRevival
<1> QED
  BY <1>1, TracingInvariance, Invariance, OwnershipInvariance, CeilingIsKept, PTL DEF Spec

-----------------------------------------------------------------------------
(* The fleet.  Every running instance has a record that counts.              *)

AliveTraced == \A i \in Instances : Alive(i) => Traced(vm[i].job)

\* Only a create brings instances to life.
LEMMA OnlyCreateRevives ==
  ASSUME IInv, [Next]_vars
  PROVE  Fading \/ \E w \in Workers : Create(w)
<1>1. ProviderTypeOK
  BY DEF IInv, TypeOK
<1>2. ASSUME NEW i \in Instances, InstanceMoves(i) PROVE Fading
  BY <1>1, <1>2 DEF InstanceMoves, Appear, Disappear, Preempted, ProviderTypeOK, Fading, Alive
<1>3. ASSUME NEW w \in Workers,
             DropVM(w) \/ CleanupExhausted(w) \/ DeleteInstance(w) \/ CleanupRest(w)
      PROVE  Fading
  BY <1>1, <1>3, DeletionFading, CleanupFading DEF DropVM, CleanupExhausted, DeleteInstance,
     CleanupRest
<1>4. CASE ReapVMs
  BY <1>1, <1>4, CleanupFading DEF ReapVMs
<1> QED
  BY <1>2, <1>3, <1>4, SameFading, InstanceCalls

\* A traced job has a record; and if it names no instance, it is claimed.
LEMMA TracedCounts ==
  ASSUME IInv, OInv, CountInv, NEW j \in Jobs, Traced(j), records[j].status # "deleted"
  PROVE  Present(records[j]) /\ CountsAsLive(records[j])
<1>1. CASE records[j].instance # NoInstance
  BY <1>1 DEF CountInv, HoldsSlot, CountsAsLive, Present
<1>2. ASSUME NEW w \in Workers, At(w, "persistVM"), worker[w].job = j
      PROVE  Present(records[j]) /\ CountsAsLive(records[j])
  <2>1. Working(w) /\ KindOf(w) = "provision"
    BY <1>2 DEF At, Working, KindOf, ProvisionPcs
  <2>2. records[j].claim = "provision" /\ Orderly(records[j])
    BY <1>2, <2>1, WorkingFacts, Owning
  <2>3. records[j].status \in {"provisioning", "completed"}
    BY <2>2 DEF Orderly
  <2> QED
    BY <2>2, <2>3 DEF CountsAsLive, Present
<1> QED
  BY <1>1, <1>2 DEF Traced

\* What is alive has a record that is not deleted.
LEMMA AliveHasJob ==
  ASSUME OInv, CInv, NEW i \in Instances, Alive(i)
  PROVE  vm[i].job \in Jobs /\ records[vm[i].job].status # "deleted"
<1>1. vm[i].job \in Jobs
  BY DEF Alive, OInv, Carried
<1> QED
  BY <1>1 DEF CInv, DeletedFree

LEMMA AliveStaysTraced ==
  ASSUME IInv, XInv, OInv, CInv, CountInv, AliveTraced, [Next]_vars, ~InstanceLost
  PROVE  AliveTraced'
<1> SUFFICES ASSUME NEW i \in Instances, Alive(i)', NEW j, j = vm'[i].job
             PROVE  Traced(j)'
  BY DEF AliveTraced, Alive, Traced
<1>1. CASE j = vm[i].job /\ Alive(i)
  <2>1. j \in Jobs /\ Traced(j) /\ records[j].status # "deleted"
    BY <1>1, AliveHasJob DEF AliveTraced
  <2>2. Present(records[j])
    BY <2>1, TracedCounts
  <2>3. ASSUME NEW w \in Workers, FinishDeletion(w), worker[w].job = j PROVE FALSE
    BY <1>1, <2>3 DEF FinishDeletion, At, CInv, WorkersFree, WorkerFree, FreePcs
  <2>4. ~LostWith(j)
    BY <2>2, <2>3 DEF LostWith
  <2> QED
    BY <2>1, <2>4, TracedKept
<1>2. ASSUME NEW w \in Workers, Create(w), vm[i].state = "none", vm'[i].state # "none",
             j = worker[w].job
      PROVE  Traced(j)'
  <2>1. worker'[w].pc = "persistVM" /\ worker'[w].job = worker[w].job
    BY <1>2, CreateKeepsJob DEF InstanceLost
  <2> QED
    BY <1>2, <2>1 DEF Traced, At
<1>3. CASE j = vm[i].job /\ ~Alive(i)
  <2>1. PICK w \in Workers : Create(w)
    BY <1>3, OnlyCreateRevives DEF Fading
  <2>2. vm[i].state = "none" /\ vm'[i].state # "none"
    BY <1>3, <2>1, CreateStartsOne DEF Alive
  <2> QED
    BY <1>2, <2>1, <2>2, StartedWith
<1> QED
  BY <1>1, <1>2, <1>3, Tagged

\* No two instances share a record, so there are at most as many as count.
LEMMA FleetCounts ==
  ASSUME IInv, OInv, CInv, CountInv, AliveTraced, CeilingHolds
  PROVE  FleetWithinCeiling
<1> DEFINE A == {i \in Instances : Alive(i)}
           f == [i \in A |-> vm[i].job]
<1>1. ASSUME NEW i \in A PROVE f[i] \in Live
  <2>1. f[i] = vm[i].job /\ vm[i].job \in Jobs /\ records[vm[i].job].status # "deleted"
    BY AliveHasJob
  <2>2. CountsAsLive(records[vm[i].job])
    BY <2>1, TracedCounts DEF AliveTraced
  <2> QED
    BY <2>1, <2>2 DEF Live
<1>2. \A i, k \in A : f[i] = f[k] => i = k
  BY DEF CInv, NoTwins
<1>3. f \in Injection(A, Live)
  BY <1>1, <1>2 DEF Injection, IsInjective
<1>4. IsFiniteSet(Live) /\ Cardinality(Live) = LiveRunners /\ Cardinality(Live) \in Nat
  BY FS_CardinalityType DEF CountInv, LiveRunners, Live
<1>5. IsFiniteSet(A) /\ Cardinality(A) <= Cardinality(Live)
  BY <1>3, <1>4, FS_Injection
<1>6. Cardinality(A) \in Nat
  BY <1>5, FS_CardinalityType
<1> QED
  BY <1>4, <1>5, <1>6, CeilingAssumption DEF FleetWithinCeiling, CeilingHolds

LEMMA AliveTracedInitially == Init => AliveTraced
  BY DEF Init, ProviderInit, AliveTraced, Alive

\* The ceiling does what it is for: never do more than maxLiveRunners
\* instances run at the provider, recorded or not, for any number of jobs,
\* instances and workers, any errors of the calls to GitHub and to the
\* provider, any other failed journal writes and restarts, as long as no
\* instance is lost between its create and MarkProvisioned (InstanceLost),
\* tag listings do not lag, and no record reaches MAX_RUNNER_AGE.
THEOREM FleetIsBounded ==
  ~Aging /\ ~ListingLag => (Spec /\ [][~InstanceLost]_vars => []FleetWithinCeiling)
<1> SUFFICES ASSUME ~Aging, ~ListingLag
             PROVE  Spec /\ [][~InstanceLost]_vars => []FleetWithinCeiling
  OBVIOUS
<1>1. IInv /\ XInv /\ OInv /\ CInv /\ CountInv /\ AliveTraced /\ [Next]_vars
        /\ [~InstanceLost]_vars => AliveTraced'
  <2>1. IInv /\ UNCHANGED vars => ~InstanceLost
    BY DEF InstanceLost, Restart, PutFails, IInv, TypeOK, StoreTypeOK, vars, storeVars
  <2> QED
    BY <2>1, AliveStaysTraced
<1>2. Spec /\ [][~InstanceLost]_vars => []AliveTraced
  BY <1>1, AliveTracedInitially, Invariance, IndexInvariance, OwnershipInvariance,
     CleanInvariance, CountInvariance, PTL DEF Spec
<1>3. IInv /\ OInv /\ CInv /\ CountInv /\ AliveTraced /\ CeilingHolds => FleetWithinCeiling
  BY FleetCounts
<1> QED
  BY <1>2, <1>3, Invariance, OwnershipInvariance, CleanInvariance, CountInvariance,
     CeilingIsNotExceeded, PTL
=============================================================================
