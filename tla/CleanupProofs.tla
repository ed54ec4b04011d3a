---------------------------- MODULE CleanupProofs ----------------------------
(* What is deleted leaves nothing behind, no job runs twice, and no deletion *)
(* is requested twice once its acceptance has been stored, for every set of  *)
(* jobs and workers, every retry budget, any errors of the calls, any failed *)
(* writes, ages, ambiguous creates and restarts, with or without a provider  *)
(* that confirms absence.  One thing is assumed of the provider for the      *)
(* first two: a tag listing shows an instance from its start on              *)
(* (~ListingLag); without it they fail.                                      *)
EXTENDS ControllerProofs, FiniteSetTheorems

-----------------------------------------------------------------------------
(* The inductive invariant.                                                  *)

NoneHidden == \A i \in Instances : vm[i].state # "hidden"

NoTwins ==
  \A i, k \in Instances : Alive(i) /\ Alive(k) /\ vm[i].job = vm[k].job => i = k

\* Nothing runs for the job of worker w.
WorkerFree(w) == \A i \in Instances : Alive(i) => vm[i].job # worker[w].job

\* Between a listing that showed nothing and the creation, and between the
\* cleanup by job tag and the end of a deletion, nothing runs for the job.
FreePcs == {"demand", "ask", "stale", "clearStale", "generate", "persistJIT",
            "unregister", "clearIdle", "retire",
            "deregister", "recheck", "askOriginal", "finish"}

WorkersFree == \A w \in Workers : worker[w].pc \in FreePcs => WorkerFree(w)

\* The cleanup by job tag spares the instance whose absence was confirmed.
SparesGone ==
  \A w \in Workers : At(w, "cleanup") =>
    \/ ~ConfirmsAbsence
    \/ \A i \in Instances : i = worker[w].rec.instance => vm[i].state = "gone"

ReaperFree ==
  reaper.pc = "markDeleted" => \A i \in Instances : Alive(i) => vm[i].job # reaper.job

DeletedFree ==
  \A j \in Jobs : records[j].status = "deleted" =>
    /\ records[j].claim = NoClaim
    /\ \A i \in Instances : Alive(i) => vm[i].job # j

CInv == NoneHidden /\ NoTwins /\ WorkersFree /\ SparesGone /\ ReaperFree /\ DeletedFree

LEMMA FreeInitially == Init => CInv
<1> SUFFICES ASSUME Init PROVE CInv
  OBVIOUS
<1>1. \A i \in Instances : vm[i].state = "none"
  BY DEF Init, ProviderInit
<1>2. NoneHidden /\ NoTwins
  BY <1>1 DEF NoneHidden, NoTwins, Alive
<1>3. WorkersFree /\ SparesGone
  BY DEF Init, WorkerInit, Idle, WorkersFree, SparesGone, FreePcs, At
<1>4. ReaperFree
  BY DEF Init, ReaperInit, ReaperIdle, ReaperFree
<1>5. DeletedFree
  BY DEF Init, StoreInit, Absent, DeletedFree
<1> QED
  BY <1>2, <1>3, <1>4, <1>5 DEF CInv

-----------------------------------------------------------------------------
(* Calm steps: no instance starts, and nobody claims more than holds.        *)

\* Instances only go.
Fading ==
  \A i \in Instances :
    /\ vm'[i].job = vm[i].job
    /\ Alive(i)' => Alive(i)
    /\ vm'[i].state = "hidden" => vm[i].state = "hidden"
    /\ vm[i].state = "gone" => vm'[i].state = "gone"

JobFree(j) == \A i \in Instances : Alive(i) => vm[i].job # j

\* A record is marked deleted only when nothing runs for its job.
RecordsFree ==
  \A j \in Jobs : records'[j].status = "deleted" =>
    \/ records[j].status = "deleted" /\ records'[j].claim \in {records[j].claim, NoClaim}
    \/ JobFree(j) /\ records'[j].claim = NoClaim

ArrivesFree ==
  \A w \in Workers :
    /\ worker'[w].pc \in FreePcs =>
         \/ worker[w].pc \in FreePcs /\ worker'[w].job = worker[w].job
         \/ WorkerFree(w)'
    /\ worker'[w].pc = "cleanup" =>
         \/ worker'[w] = worker[w]
         \/ ~ConfirmsAbsence
         \/ \A i \in Instances : i = worker'[w].rec.instance => vm'[i].state = "gone"

ReaperArrives ==
  reaper'.pc = "markDeleted" =>
    \/ reaper.pc = "markDeleted" /\ reaper'.job = reaper.job
    \/ \A i \in Instances : Alive(i)' => vm'[i].job # reaper'.job

LEMMA CalmStep ==
  ASSUME CInv, Fading, RecordsFree, ArrivesFree, ReaperArrives
  PROVE  CInv'
<1>1. NoneHidden' /\ NoTwins'
  BY DEF CInv, NoneHidden, NoTwins, Fading
<1>2. WorkersFree'
  BY DEF CInv, WorkersFree, WorkerFree, Fading, ArrivesFree
<1>3. SparesGone'
  BY DEF CInv, SparesGone, Fading, ArrivesFree, At
<1>4. ReaperFree'
  BY DEF CInv, ReaperFree, Fading, ReaperArrives
<1>5. DeletedFree'
  BY DEF CInv, DeletedFree, Fading, RecordsFree, JobFree
<1> QED
  BY <1>1, <1>2, <1>3, <1>4, <1>5 DEF CInv

-----------------------------------------------------------------------------
(* Instances.                                                                *)

LEMMA SameFading ==
  ASSUME UNCHANGED vm
  PROVE  Fading
  BY DEF Fading, Alive

LEMMA DeletionFading ==
  ASSUME ProviderTypeOK, NEW i,
         DeleteVM(i) \/ DeleteFails(i) \/ DeleteMismatches(i)
  PROVE  Fading
  BY DEF ProviderTypeOK, DeleteVM, DeleteFails, DeleteMismatches, Leave, Fading, Alive

LEMMA CleanupFading ==
  ASSUME ProviderTypeOK, NEW j, NEW except,
         \/ CleanupVMs(j, except) \/ CleanupStops(j, except)
         \/ CleanupMismatches(j, except)
  PROVE  Fading
<1>1. \E some \in SUBSET ListedFor(j) :
        vm' = [i \in Instances |->
                 IF i \in some THEN [vm[i] EXCEPT !.state = Leave] ELSE vm[i]]
  <2>1. CASE CleanupVMs(j, except)
    <3> DEFINE some == {i \in ListedFor(j) : i # except}
    <3>1. vm' = [i \in Instances |->
                   IF i \in some THEN [vm[i] EXCEPT !.state = Leave] ELSE vm[i]]
      BY <2>1 DEF CleanupVMs
    <3> QED
      BY <3>1
  <2>2. CASE CleanupStops(j, except)
    BY <2>2 DEF CleanupStops
  <2> QED
    BY <2>1, <2>2 DEF CleanupMismatches
<1>2. PICK some \in SUBSET ListedFor(j) :
        vm' = [i \in Instances |->
                 IF i \in some THEN [vm[i] EXCEPT !.state = Leave] ELSE vm[i]]
  BY <1>1
<1>3. ASSUME NEW i \in Instances
      PROVE  /\ vm'[i].job = vm[i].job
             /\ i \in some => vm[i].state = "running" /\ vm'[i].state = Leave
             /\ i \notin some => vm'[i] = vm[i]
  BY <1>2 DEF ProviderTypeOK, ListedFor
<1> QED
  BY <1>3 DEF Fading, Alive, Leave

\* After a complete cleanup nothing runs for the job but what was spared.
LEMMA CleanupFrees ==
  ASSUME ProviderTypeOK, NoneHidden, NEW j, NEW except, CleanupVMs(j, except)
  PROVE  \A i \in Instances : Alive(i)' /\ i # except => vm'[i].job # j
<1>1. ASSUME NEW i \in Instances, i # except, vm[i].job = j, Alive(i)
      PROVE  ~Alive(i)'
  <2>1. i \in ListedFor(j)
    BY <1>1 DEF NoneHidden, Alive, ListedFor
  <2>2. vm'[i].state = Leave
    BY <1>1, <2>1 DEF CleanupVMs, ProviderTypeOK
  <2> QED
    BY <2>2 DEF Alive, Leave
<1> QED
  BY <1>1, CleanupFading DEF Fading

-----------------------------------------------------------------------------
(* Records.                                                                  *)

\* No mutator but MarkDeleted and FinishDeletedRunner marks a record deleted.
Survives(r, s) ==
  s.status = "deleted" => r.status = "deleted" /\ s.claim \in {r.claim, NoClaim}

LEMMA WorkSurvives ==
  ASSUME NEW r \in Record
  PROVE  /\ Survives(r, Backstop(r))
         /\ Survives(r, ClaimProvision(r)) /\ Survives(r, ClaimDelete(r))
         /\ \A kind \in WorkKinds : Survives(r, ReleaseClaim(r, kind))
         /\ \A kind \in WorkKinds : Survives(r, DeferRateLimitedWork(r, kind))
         /\ Survives(r, DeferProvisioningDemand(r))
         /\ Survives(r, DeferReassignmentDemand(r))
         /\ Survives(r, RecoverRecord(r))
<1> USE DEF Survives, Record, NoClaim
<1>1. Survives(r, Backstop(r))
  BY DEF Backstop
<1>2. Survives(r, ClaimProvision(r)) /\ Survives(r, ClaimDelete(r))
  BY DEF ClaimProvision, ClaimDelete
<1>3. ASSUME NEW kind \in WorkKinds
      PROVE  Survives(r, ReleaseClaim(r, kind)) /\ Survives(r, DeferRateLimitedWork(r, kind))
  BY DEF ReleaseClaim, DeferRateLimitedWork, Refund
<1>4. Survives(r, DeferProvisioningDemand(r))
  BY DEF DeferProvisioningDemand, Refund
<1>5. Survives(r, DeferReassignmentDemand(r))
  BY DEF DeferReassignmentDemand, Refund
<1>6. Survives(r, RecoverRecord(r))
  BY DEF RecoverRecord, Refund
<1> QED
  BY <1>1, <1>2, <1>3, <1>4, <1>5, <1>6

LEMMA ProvisioningSurvives ==
  ASSUME NEW r \in Record
  PROVE  /\ Survives(r, ClearJIT(r)) /\ Survives(r, MarkCompleted(r))
         /\ Survives(r, MarkProvisionFailed(r))
         /\ \A job, id, marker : Survives(r, MarkJITCreated(r, job, id, marker))
         /\ \A i, id : Survives(r, MarkProvisioned(r, i, id))
<1> USE DEF Survives, Record, NoClaim
<1>1. Survives(r, ClearJIT(r)) /\ Survives(r, MarkCompleted(r))
  BY DEF ClearJIT, MarkCompleted
<1>2. Survives(r, MarkProvisionFailed(r))
  BY DEF MarkProvisionFailed
<1>3. ASSUME NEW job, NEW id, NEW marker
      PROVE  Survives(r, MarkJITCreated(r, job, id, marker))
  BY DEF MarkJITCreated, Settled
<1>4. ASSUME NEW i, NEW id
      PROVE  Survives(r, MarkProvisioned(r, i, id))
  BY DEF MarkProvisioned, Settled
<1> QED
  BY <1>1, <1>2, <1>3, <1>4

LEMMA DeletionSurvives ==
  ASSUME NEW r \in Record
  PROVE  /\ Survives(r, ScheduleDeletion(r)) /\ Survives(r, MarkOrphaned(r))
         /\ \A i : Survives(r, MarkDeletionAccepted(r, i))
         /\ Survives(r, DeferDeletionConfirmation(r))
         /\ Survives(r, MarkDeleteFailed(r))
<1> USE DEF Survives, Record, NoClaim
<1>1. Survives(r, ScheduleDeletion(r)) /\ Survives(r, MarkOrphaned(r))
  BY DEF ScheduleDeletion, MarkOrphaned
<1>2. ASSUME NEW i PROVE Survives(r, MarkDeletionAccepted(r, i))
  BY DEF MarkDeletionAccepted
<1>3. Survives(r, DeferDeletionConfirmation(r))
  BY DEF DeferDeletionConfirmation, Refund
<1>4. Survives(r, MarkDeleteFailed(r))
  BY DEF MarkDeleteFailed
<1> QED
  BY <1>1, <1>2, <1>3, <1>4

LEMMA EventsSurvive ==
  ASSUME NEW r \in Record
  PROVE  /\ Survives(r, [r EXCEPT !.due = TRUE])
         /\ \A own \in BOOLEAN : Survives(r, MatchedCompletion(r, own))
         /\ \A id : Survives(r, EventCompletion(r, id))
         /\ Survives(r, BeginCleanupAttempt(r))
         /\ \A a \in BOOLEAN : Survives(r, DeferRateLimitedCleanup(r, a))
         /\ \A a, b \in BOOLEAN : Survives(r, DeferReconciliation(r, a, b))
<1> USE DEF Survives, Record, NoClaim
<1>1. Survives(r, [r EXCEPT !.due = TRUE]) /\ Survives(r, BeginCleanupAttempt(r))
  BY DEF BeginCleanupAttempt
<1>2. ASSUME NEW own \in BOOLEAN PROVE Survives(r, MatchedCompletion(r, own))
  BY DEF MatchedCompletion
<1>3. ASSUME NEW id PROVE Survives(r, EventCompletion(r, id))
  BY DEF EventCompletion, Absent, Settled
<1>4. ASSUME NEW a \in BOOLEAN PROVE Survives(r, DeferRateLimitedCleanup(r, a))
  BY DEF DeferRateLimitedCleanup
<1>5. ASSUME NEW a \in BOOLEAN, NEW b \in BOOLEAN
      PROVE  Survives(r, DeferReconciliation(r, a, b))
  BY DEF DeferReconciliation
<1> QED
  BY <1>1, <1>2, <1>3, <1>4, <1>5

LEMMA SameFree ==
  ASSUME records' = records
  PROVE  RecordsFree
  BY DEF RecordsFree

LEMMA EditFree ==
  ASSUME IInv, NEW j \in Jobs, NEW s, records' = [records EXCEPT ![j] = s],
         \/ Survives(records[j], s)
         \/ JobFree(j) /\ (s.status = "deleted" => s.claim = NoClaim)
  PROVE  RecordsFree
<1>1. records \in [Jobs -> Record]
  BY DEF IInv, TypeOK, StoreTypeOK
<1>2. records'[j] = s /\ \A k \in Jobs : k # j => records'[k] = records[k]
  BY <1>1
<1> QED
  BY <1>2 DEF RecordsFree, Survives

LEMMA CallFree ==
  ASSUME UNCHANGED storeVars \/ PutFails
  PROVE  RecordsFree
  BY SameFree DEF storeVars, PutFails

LEMMA PutFree ==
  ASSUME IInv, NEW j \in Jobs, NEW s, Put(j, s),
         \/ Survives(records[j], s)
         \/ JobFree(j) /\ (s.status = "deleted" => s.claim = NoClaim)
  PROVE  RecordsFree
  BY EditFree DEF Put

LEMMA Recorded == IInv => \A j \in Jobs : records[j] \in Record
  BY DEF IInv, TypeOK, StoreTypeOK

-----------------------------------------------------------------------------
(* Workers.                                                                  *)

Calm == Fading /\ RecordsFree /\ ArrivesFree /\ ReaperArrives

LEMMA TaskArrives ==
  ASSUME IInv, NEW w \in Workers, NEW t, worker' = [worker EXCEPT ![w] = t],
         t.pc \in FreePcs =>
           \/ worker[w].pc \in FreePcs /\ t.job = worker[w].job
           \/ \A i \in Instances : Alive(i)' => vm'[i].job # t.job,
         t.pc = "cleanup" =>
           \/ ~ConfirmsAbsence
           \/ \A i \in Instances : i = t.rec.instance => vm'[i].state = "gone"
  PROVE  ArrivesFree
<1>1. worker \in [Workers -> Task]
  BY DEF IInv, TypeOK, WorkerTypeOK
<1>2. worker'[w] = t /\ \A v \in Workers : v # w => worker'[v] = worker[v]
  BY <1>1
<1> QED
  BY <1>2 DEF ArrivesFree, WorkerFree

\* A worker goes on within the free steps, or to none of them.
LEMMA GotoArrives ==
  ASSUME IInv, NEW w \in Workers, NEW pc, Goto(w, pc),
         pc \in FreePcs => worker[w].pc \in FreePcs, pc # "cleanup"
  PROVE  ArrivesFree
<1>1. PICK t : t = [worker[w] EXCEPT !.pc = pc]
  OBVIOUS
<1>2. worker[w] \in Task
  BY DEF IInv, TypeOK, WorkerTypeOK
<1>3. t.pc = pc /\ t.job = worker[w].job
  BY <1>1, <1>2 DEF Task
<1>4. worker' = [worker EXCEPT ![w] = t]
  BY <1>1 DEF Goto
<1> QED
  BY <1>3, <1>4, TaskArrives

\* A worker comes to a free step when nothing runs for its job.
LEMMA GotoFree ==
  ASSUME IInv, NEW w \in Workers, NEW pc, Goto(w, pc), pc # "cleanup",
         \A i \in Instances : Alive(i)' => vm'[i].job # worker[w].job
  PROVE  ArrivesFree
<1>1. PICK t : t = [worker[w] EXCEPT !.pc = pc]
  OBVIOUS
<1>2. worker[w] \in Task
  BY DEF IInv, TypeOK, WorkerTypeOK
<1>3. t.pc = pc /\ t.job = worker[w].job
  BY <1>1, <1>2 DEF Task
<1>4. worker' = [worker EXCEPT ![w] = t]
  BY <1>1 DEF Goto
<1> QED
  BY <1>3, <1>4, TaskArrives

LEMMA FinishArrives ==
  ASSUME IInv, NEW w \in Workers, Finish(w)
  PROVE  ArrivesFree
<1>1. Idle.pc \notin FreePcs /\ Idle.pc # "cleanup"
  BY DEF Idle, FreePcs
<1> QED
  BY <1>1, TaskArrives DEF Finish

\* A worker that gives up its record comes to none of the free steps.
LEMMA RestingArrives ==
  ASSUME IInv, NEW w \in Workers, NEW t, Resting(t), worker' = [worker EXCEPT ![w] = t]
  PROVE  ArrivesFree
<1>1. t.pc \notin FreePcs /\ t.pc # "cleanup"
  BY DEF Resting, FreePcs
<1> QED
  BY <1>1, TaskArrives

LEMMA StayArrives ==
  ASSUME UNCHANGED worker
  PROVE  ArrivesFree
  BY DEF ArrivesFree

\* Errors lead to none of the free steps.
LEMMA FailedPcs ==
  ASSUME NEW w \in Workers, NEW e
  PROVE  /\ {ProvisionFailed(w, e), DeleteFailed(w, e), OrphanProvision(w),
             OrphanDelete(w)} \cap (FreePcs \cup {"cleanup"}) = {}
         /\ DeferDemandCheck(w, e) \cap (FreePcs \cup {"cleanup"}) = {}
<1>1. OrphanProvision(w) \in {"markOrphanProvision", "orphanProvision"}
  BY DEF OrphanProvision
<1>2. OrphanDelete(w) \in {"markOrphanDelete", "orphanDelete"}
  BY DEF OrphanDelete
<1>3. ProvisionFailed(w, e) \in {"releaseProvision", "deferProvision", OrphanProvision(w),
                                 "exhausted", "markFailed"}
  BY DEF ProvisionFailed
<1>4. DeleteFailed(w, e) \in {"releaseDelete", "deferDelete", OrphanDelete(w), "failDelete"}
  BY DEF DeleteFailed
<1>5. DeferDemandCheck(w, e) \subseteq {"deferDemand", ProvisionFailed(w, e)}
  BY DEF DeferDemandCheck
<1> QED
  BY <1>1, <1>2, <1>3, <1>4, <1>5 DEF FreePcs

LEMMA FailedArrives ==
  ASSUME IInv, NEW w \in Workers, NEW e,
         \/ Goto(w, ProvisionFailed(w, e)) \/ Goto(w, DeleteFailed(w, e))
         \/ \E pc \in DeferDemandCheck(w, e) : Goto(w, pc)
  PROVE  ArrivesFree
  BY FailedPcs, GotoArrives

LEMMA ReaperStays ==
  ASSUME UNCHANGED reaper
  PROVE  ReaperArrives
  BY DEF ReaperArrives

\* The calls that do not start an instance.
LEMMA RemoteCalm ==
  ASSUME IInv, Fading, ArrivesFree, UNCHANGED storeVars, UNCHANGED reaper
  PROVE  Calm
  BY CallFree, ReaperStays DEF Calm

LEMMA StoreCalm ==
  ASSUME IInv, RecordsFree, ArrivesFree, UNCHANGED vm, UNCHANGED reaper
  PROVE  Calm
  BY SameFading, ReaperStays DEF Calm

-----------------------------------------------------------------------------
(* The steps that workers share.                                             *)

LEMMA EndWorkCalm ==
  ASSUME IInv, NEW w \in Workers, EndWork(w), UNCHANGED reaper
  PROVE  Calm
<1> DEFINE r == records[worker[w].job]
<1>1. worker[w].pc \in LastWritePcs /\ worker[w].job \in Jobs
  BY WorkingFacts DEF EndWork, LastWritePcs, Working
<1>2. r \in Record /\ {"provision", "delete"} \subseteq WorkKinds
  BY <1>1, Recorded DEF WorkKinds
<1>3. Survives(r, LastWrite(w))
  <2>1. CASE worker[w].pc \in {"releaseProvision", "deferProvision", "deferDemand",
                                "releaseDelete", "deferDelete", "deferReassigned"}
    BY <1>2, <2>1, WorkSurvives DEF LastWrite, At
  <2>2. CASE worker[w].pc \in {"markFailed", "failDelete", "markOrphanProvision",
                                "markOrphanDelete"}
    BY <1>2, <2>2, ProvisioningSurvives, DeletionSurvives DEF LastWrite, At
  <2> QED
    BY <1>1, <2>1, <2>2 DEF LastWritePcs
<1>4. RecordsFree
  BY <1>1, <1>3, PutFree, CallFree DEF EndWork
<1>5. ArrivesFree
  BY FinishArrives DEF EndWork
<1> QED
  BY <1>4, <1>5, StoreCalm DEF EndWork, CallsStore

LEMMA DeregisterCalm ==
  ASSUME IInv, NEW w \in Workers, Deregister(w), UNCHANGED reaper
  PROVE  Calm
<1>1. worker[w].pc \in DeregisterPcs /\ UNCHANGED storeVars /\ Fading
  BY SameFading DEF Deregister, CallsGitHub
<1>2. CASE Goto(w, AfterRemoval(w))
  <2>1. /\ AfterRemoval(w) \in FreePcs => worker[w].pc \in FreePcs
        /\ AfterRemoval(w) # "cleanup"
    BY <1>1 DEF AfterRemoval, At, DeregisterPcs, FreePcs
  <2> QED
    BY <1>1, <1>2, <2>1, GotoArrives, RemoteCalm
<1>3. CASE \E e : \E pc \in AfterRefusal(w, e) : Goto(w, pc)
  <2>1. PICK e : \E pc \in AfterRefusal(w, e) : Goto(w, pc)
    BY <1>3
  <2>2. PICK pc \in AfterRefusal(w, e) : Goto(w, pc)
    BY <2>1
  <2>3. pc \in DeferDemandCheck(w, e) \cup {ProvisionFailed(w, e), DeleteFailed(w, e),
               "markFailed", "markOrphanProvision", "markOrphanDelete"}
    BY <1>1, <2>2 DEF AfterRefusal, At, DeregisterPcs
  <2>4. pc \notin FreePcs /\ pc # "cleanup"
    BY <2>3, FailedPcs DEF FreePcs
  <2> QED
    BY <1>1, <2>2, <2>4, GotoArrives, RemoteCalm
<1> QED
  BY <1>2, <1>3 DEF Deregister

LEMMA ClearCalm ==
  ASSUME IInv, NEW w \in Workers, Clear(w), UNCHANGED reaper
  PROVE  Calm
<1> DEFINE r == records[worker[w].job]
<1>1. worker[w].pc \in ClearPcs /\ worker[w].job \in Jobs /\ r \in Record
  BY ClearLeads, SameKindWorks, WorkingFacts, Recorded DEF Clear
<1>2. RecordsFree
  BY <1>1, ProvisioningSurvives, PutFree, CallFree DEF Clear
<1>3. CASE Goto(w, AfterClear(w))
  <2>1. /\ AfterClear(w) \in FreePcs => worker[w].pc \in FreePcs
        /\ AfterClear(w) # "cleanup"
    BY <1>1 DEF AfterClear, At, ClearPcs, FreePcs
  <2> QED
    BY <1>2, <1>3, <2>1, GotoArrives, StoreCalm DEF Clear, CallsStore
<1>4. CASE \E pc \in AfterClearFails(w) : Goto(w, pc)
  <2>1. PICK pc \in AfterClearFails(w) : Goto(w, pc)
    BY <1>4
  <2>2. pc \in DeferDemandCheck(w, "other") \cup {ProvisionFailed(w, "other"),
               "markFailed", "markOrphanProvision", "markOrphanDelete"}
    BY <1>1, <2>1 DEF AfterClearFails, At, ClearPcs
  <2>3. pc \notin FreePcs /\ pc # "cleanup"
    BY <2>2, FailedPcs DEF FreePcs
  <2> QED
    BY <1>2, <2>1, <2>3, GotoArrives, StoreCalm DEF Clear, CallsStore
<1> QED
  BY <1>3, <1>4 DEF Clear

-----------------------------------------------------------------------------
(* Provisioning.                                                             *)

\* A listing that shows nothing: nothing runs.
LEMMA EmptyListing ==
  ASSUME NoneHidden, NEW j, {} \in Listings(j)
  PROVE  JobFree(j)
  BY DEF NoneHidden, Listings, ListedFor, JobFree, Alive

LEMMA FindCalm ==
  ASSUME IInv, CInv, NEW w \in Workers, Find(w), UNCHANGED reaper
  PROVE  Calm
<1>1. UNCHANGED storeVars /\ Fading /\ UNCHANGED vm
  BY SameFading DEF Find, Local
<1>2. CASE {} \in Listings(worker[w].job) /\ Goto(w, "demand")
  <2>1. \A i \in Instances : Alive(i)' => vm'[i].job # worker[w].job
    BY <1>1, <1>2, EmptyListing DEF CInv, JobFree, Alive
  <2> QED
    BY <1>1, <1>2, <2>1, GotoFree, RemoteCalm
<1>3. CASE \E i : worker' = [worker EXCEPT ![w].inst = i,
              ![w].pc = IF worker[w].rec.runner = NoRunner THEN "dropVM" ELSE "persistVM"]
  <2>1. worker \in [Workers -> Task]
    BY DEF IInv, TypeOK, WorkerTypeOK
  <2>2. PICK t : t = worker'[w]
    OBVIOUS
  <2>3. t.pc \in {"dropVM", "persistVM"} /\ worker' = [worker EXCEPT ![w] = t]
    BY <1>3, <2>1, <2>2 DEF Task
  <2>4. ArrivesFree
    BY <2>3, TaskArrives DEF FreePcs
  <2> QED
    BY <1>1, <2>4, RemoteCalm
<1>4. CASE \E e : Goto(w, ProvisionFailed(w, e))
  BY <1>1, <1>4, FailedArrives, RemoteCalm
<1> QED
  BY <1>2, <1>3, <1>4 DEF Find

LEMMA DropVMCalm ==
  ASSUME IInv, NEW w \in Workers, DropVM(w) \/ DropJIT(w), UNCHANGED reaper
  PROVE  Calm
<1>1. \E e : Goto(w, ProvisionFailed(w, e))
  BY DEF DropVM, DropJIT
<1>2. UNCHANGED storeVars
  BY DEF DropVM, DropJIT, CallsProvider, CallsGitHub
<1>3. Fading
  BY DeletionFading, SameFading DEF DropVM, DropJIT, CallsGitHub, IInv, TypeOK
<1> QED
  BY <1>1, <1>2, <1>3, FailedArrives, RemoteCalm

LEMMA DemandCalm ==
  ASSUME IInv, NEW w \in Workers, CheckDemand(w) \/ AskDemand(w), UNCHANGED reaper
  PROVE  Calm
<1>1. UNCHANGED storeVars /\ Fading /\ worker[w].pc \in FreePcs
  BY SameFading DEF CheckDemand, AskDemand, Local, At, FreePcs
<1>2. \/ \E pc \in {"ask", "create", "generate", "stale", GiveUpDemand(w)} : Goto(w, pc)
      \/ \E e : \E pc \in DeferDemandCheck(w, e) : Goto(w, pc)
  BY DEF CheckDemand, AskDemand
<1>3. GiveUpDemand(w) # "cleanup"
  BY DEF GiveUpDemand
<1> QED
  BY <1>1, <1>2, <1>3, GotoArrives, FailedArrives, RemoteCalm

\* Demand that nobody needs any more is marked deleted: nothing runs for it.
LEMMA RetireCalm ==
  ASSUME IInv, CInv, NEW w \in Workers, Retire(w), UNCHANGED reaper
  PROVE  Calm
<1> DEFINE j == worker[w].job
           r == records[j]
<1>1. At(w, "retire") /\ worker[w].pc \in ProvisionPcs /\ worker[w].pc \in FreePcs
  BY DEF Retire, At, ProvisionPcs, FreePcs
<1>2. j \in Jobs /\ Sound(r) /\ r.claim = "provision"
  BY <1>1, AtProvision, WorkingFacts
<1>3. r.instance = NoInstance
  BY <1>2 DEF Sound
<1>4. JobFree(j)
  BY <1>1 DEF CInv, WorkersFree, WorkerFree, JobFree
<1>5. MarkDeleted(r).claim = NoClaim
  BY <1>2 DEF Sound, Record, MarkDeleted
<1>6. CASE Put(j, MarkDeleted(r)) /\ Finish(w)
  BY <1>2, <1>4, <1>5, <1>6, PutFree, FinishArrives, StoreCalm DEF Retire, CallsStore
<1>7. CASE PutFails /\ Goto(w, ProvisionFailed(w, "other"))
  BY <1>7, CallFree, FailedArrives, StoreCalm DEF Retire, CallsStore
<1> QED
  BY <1>3, <1>6, <1>7 DEF Retire

LEMMA GenerateCalm ==
  ASSUME IInv, NEW w \in Workers, Generate(w), UNCHANGED reaper
  PROVE  Calm
<1>1. UNCHANGED storeVars /\ Fading /\ worker[w].pc \in FreePcs
  BY SameFading DEF Generate, CallsGitHub, At, FreePcs
<1>2. CASE worker' = [worker EXCEPT ![w].pc = "persistJIT", ![w].jit = issued + 1]
  <2>1. worker \in [Workers -> Task]
    BY DEF IInv, TypeOK, WorkerTypeOK
  <2>2. PICK t : t = worker'[w]
    OBVIOUS
  <2>3. /\ t.pc = "persistJIT" /\ t.job = worker[w].job
        /\ worker' = [worker EXCEPT ![w] = t]
    BY <1>2, <2>1, <2>2 DEF Task
  <2> QED
    BY <1>1, <2>3, TaskArrives, RemoteCalm
<1>3. CASE \E e : Goto(w, ProvisionFailed(w, e))
  BY <1>1, <1>3, FailedArrives, RemoteCalm
<1> QED
  BY <1>2, <1>3 DEF Generate

LEMMA PersistJITCalm ==
  ASSUME IInv, NEW w \in Workers, PersistJIT(w), UNCHANGED reaper
  PROVE  Calm
<1> DEFINE j == worker[w].job
           id == worker[w].jit
           s == MarkJITCreated(records[j], j, id, markers[id])
<1>1. j \in Jobs /\ worker[w].pc \in FreePcs
  BY WorkingFacts DEF PersistJIT, At, Working, FreePcs
<1>2. CASE PutFails /\ Goto(w, "dropJIT")
  <2>1. ArrivesFree
    BY <1>2, GotoArrives DEF FreePcs
  <2> QED
    BY <1>2, <2>1, CallFree, StoreCalm DEF PersistJIT, CallsStore
<1>3. CASE /\ PutJIT(j, id)
           /\ worker' = [worker EXCEPT ![w].pc = "demand", ![w].rec.runner = id]
  <2>1. Survives(records[j], s)
    BY <1>1, Recorded, ProvisioningSurvives
  <2>2. records' = [records EXCEPT ![j] = s]
    BY <1>3 DEF PutJIT
  <2> HIDE DEF s
  <2>3. RecordsFree
    BY <1>1, <2>1, <2>2, EditFree
  <2>4. worker \in [Workers -> Task]
    BY DEF IInv, TypeOK, WorkerTypeOK
  <2>5. PICK t : t = worker'[w]
    OBVIOUS
  <2>6. /\ t.pc = "demand" /\ t.job = worker[w].job
        /\ worker' = [worker EXCEPT ![w] = t]
    BY <1>3, <2>4, <2>5 DEF Task
  <2> QED
    BY <1>1, <2>3, <2>6, TaskArrives, StoreCalm DEF PersistJIT, CallsStore
<1> QED
  BY <1>2, <1>3 DEF PersistJIT

LEMMA PersistVMCalm ==
  ASSUME IInv, NEW w \in Workers, PersistVM(w), UNCHANGED reaper
  PROVE  Calm
<1> DEFINE j == worker[w].job
           s == MarkProvisioned(records[j], worker[w].inst, worker[w].rec.runner)
<1>1. j \in Jobs /\ Resting(HalfDone(w))
  BY HalfDoneRests, WorkingFacts DEF PersistVM, At, Working, Record
<1>2. CASE /\ PutInstance(j, worker[w].inst, worker[w].rec.runner)
           /\ worker' = [worker EXCEPT ![w] = HalfDone(w)]
  <2>1. Survives(records[j], s)
    BY <1>1, Recorded, ProvisioningSurvives
  <2>2. records' = [records EXCEPT ![j] = s]
    BY <1>2 DEF PutInstance, Put
  <2>3. ArrivesFree
    BY <1>1, <1>2, RestingArrives
  <2> HIDE DEF s
  <2> QED
    BY <1>1, <2>1, <2>2, <2>3, EditFree, StoreCalm DEF PersistVM, CallsStore
<1>3. CASE PutFails /\ Goto(w, ProvisionFailed(w, "other"))
  BY <1>3, CallFree, FailedArrives, StoreCalm DEF PersistVM, CallsStore
<1> QED
  BY <1>2, <1>3 DEF PersistVM

LEMMA IndexVMCalm ==
  ASSUME IInv, NEW w \in Workers, IndexVM(w), UNCHANGED reaper
  PROVE  Calm
<1>1. UNCHANGED records
  BY DEF IndexVM, IndexInstance
<1> QED
  BY <1>1, SameFree, FinishArrives, StoreCalm DEF IndexVM, CallsStore

LEMMA CleanupExhaustedCalm ==
  ASSUME IInv, NEW w \in Workers, CleanupExhausted(w), UNCHANGED reaper
  PROVE  Calm
<1>1. UNCHANGED storeVars
  BY DEF CleanupExhausted, CallsProvider
<1>2. Fading
  BY CleanupFading DEF CleanupExhausted, IInv, TypeOK
<1>3. \E pc \in {"markFailed", "exhaustedJIT", OrphanProvision(w)} : Goto(w, pc)
  BY DEF CleanupExhausted
<1>4. ArrivesFree
  BY <1>3, FailedPcs, GotoArrives DEF FreePcs
<1> QED
  BY <1>1, <1>2, <1>4, RemoteCalm

-----------------------------------------------------------------------------
(* Creation: the one step that starts an instance.  The provider lists for   *)
(* the job first, and the job is this worker's alone.                        *)

LEMMA StartFrees ==
  ASSUME ProviderTypeOK, NoneHidden, ~ListingLag, NEW j \in Jobs, NEW i \in Instances,
         NEW id, CreateStarts(j, i, id)
  PROVE  /\ JobFree(j) /\ vm[i].state = "none"
         /\ vm'[i].state = "running" /\ vm'[i].job = j
         /\ \A k \in Instances : k # i => vm'[k] = vm[k]
<1>1. JobFree(j) /\ vm[i].state = "none"
  BY EmptyListing DEF CreateStarts, StartVM
<1>2. vm' = [vm EXCEPT ![i] = [state |-> "running", job |-> j, runner |-> id]]
  BY DEF CreateStarts, StartVM
<1> QED
  BY <1>1, <1>2 DEF ProviderTypeOK

LEMMA StartKeepsClean ==
  ASSUME IInv, CInv, ~ListingLag, NEW w \in Workers, At(w, "create"),
         NEW i \in Instances, NEW id, CreateStarts(worker[w].job, i, id),
         UNCHANGED <<storeVars, reaper>>,
         worker'[w].pc \notin FreePcs, worker'[w].pc # "cleanup",
         \A v \in Workers : v # w => worker'[v] = worker[v]
  PROVE  CInv'
<1> DEFINE j == worker[w].job
<1>1. /\ Working(w) /\ j \in Jobs /\ records[j].claim = "provision"
      /\ records' = records
  BY AtProvision, WorkingFacts DEF At, ProvisionPcs, storeVars
<1>2. /\ JobFree(j) /\ vm[i].state = "none"
      /\ vm'[i].state = "running" /\ vm'[i].job = j
      /\ \A k \in Instances : k # i => vm'[k] = vm[k]
  BY <1>1, StartFrees DEF CInv, IInv, TypeOK
<1>3. NoneHidden' /\ NoTwins'
  BY <1>2 DEF CInv, NoneHidden, NoTwins, Alive, JobFree
<1>4. WorkersFree'
  <2>1. ASSUME NEW v \in Workers, worker'[v].pc \in FreePcs
        PROVE  WorkerFree(v)'
    <3>1. v # w /\ worker'[v] = worker[v] /\ Working(v)
      BY <2>1 DEF Working, FreePcs
    <3>2. worker[v].job # j
      BY <1>1, <3>1 DEF IInv, ClaimsExclusive
    <3>3. WorkerFree(v)
      BY <2>1, <3>1 DEF CInv, WorkersFree
    <3> QED
      BY <1>2, <3>1, <3>2, <3>3 DEF WorkerFree, Alive
  <2> QED
    BY <2>1 DEF WorkersFree
<1>5. SparesGone'
  <2>1. ASSUME NEW v \in Workers, worker'[v].pc = "cleanup", ConfirmsAbsence,
               NEW k \in Instances, k = worker'[v].rec.instance
        PROVE  vm'[k].state = "gone"
    <3>1. v # w /\ worker'[v] = worker[v]
      BY <2>1
    <3>2. vm[k].state = "gone"
      BY <2>1, <3>1 DEF CInv, SparesGone, At
    <3> QED
      BY <1>2, <3>2
  <2> QED
    BY <2>1 DEF SparesGone, At
<1>6. ReaperFree'
  <2>1. ASSUME reaper.pc = "markDeleted" PROVE reaper.job # j
    <3>1. reaper.job \in Jobs /\ InReaperHands(reaper.job)
      BY <2>1 DEF IInv, ReaperHasJob, InReaperHands, UntrackedPcs
    <3>2. records[reaper.job].claim = NoClaim
      BY <3>1 DEF IInv, ReaperKeepsToUntracked, Untracked
    <3> QED
      BY <1>1, <3>2 DEF NoClaim
  <2> QED
    BY <1>2, <2>1 DEF CInv, ReaperFree, Alive
<1>7. DeletedFree'
  <2>1. ASSUME NEW k \in Jobs, records[k].status = "deleted"
        PROVE  k # j /\ records[k].claim = NoClaim
    BY <1>1, <2>1 DEF CInv, DeletedFree, NoClaim
  <2> QED
    BY <1>1, <1>2, <2>1 DEF CInv, DeletedFree, Alive
<1> QED
  BY <1>3, <1>4, <1>5, <1>6, <1>7 DEF CInv

LEMMA CreateKeepsClean ==
  ASSUME IInv, CInv, ~ListingLag, NEW w \in Workers, Create(w), UNCHANGED reaper
  PROVE  CInv'
<1> DEFINE id == worker[w].jit
<1>1. At(w, "create") /\ UNCHANGED storeVars /\ worker \in [Workers -> Task]
  BY DEF Create, CallsProvider, IInv, TypeOK, WorkerTypeOK
<1>2. PICK t : t = worker'[w]
  OBVIOUS
<1>3. t.pc = "persistVM" \/ \E e : t.pc = ProvisionFailed(w, e)
  BY <1>1, <1>2 DEF Create, Goto, Task
<1>4. t.pc \notin FreePcs /\ t.pc # "cleanup"
  BY <1>3, FailedPcs DEF FreePcs
<1>5. /\ worker' = [worker EXCEPT ![w] = t]
      /\ \A v \in Workers : v # w => worker'[v] = worker[v]
  BY <1>1, <1>2 DEF Create, Goto
<1>6. UNCHANGED vm \/ \E i \in Instances : CreateStarts(worker[w].job, i, id)
  BY DEF Create, CreateReuses, CreateFails
<1>7. CASE UNCHANGED vm
  BY <1>1, <1>4, <1>5, <1>7, TaskArrives, SameFading, RemoteCalm, CalmStep DEF Calm
<1>8. CASE \E i \in Instances : CreateStarts(worker[w].job, i, id)
  BY <1>1, <1>2, <1>4, <1>5, <1>8, StartKeepsClean
<1> QED
  BY <1>6, <1>7, <1>8

LEMMA ProvisionStepKeepsClean ==
  ASSUME IInv, CInv, ~ListingLag, NEW w \in Workers, ProvisionStep(w), UNCHANGED reaper
  PROVE  CInv'
  BY FindCalm, DropVMCalm, DemandCalm, RetireCalm, GenerateCalm, PersistJITCalm,
     PersistVMCalm, IndexVMCalm, CleanupExhaustedCalm, CreateKeepsClean, CalmStep
     DEF ProvisionStep, Calm

-----------------------------------------------------------------------------
(* Deletion.                                                                 *)

\* Where absence is not confirmed, the cleanup by tag spares nothing.
LEMMA DeleteInstanceCalm ==
  ASSUME IInv, NEW w \in Workers, DeleteInstance(w), UNCHANGED reaper
  PROVE  Calm
<1>1. UNCHANGED storeVars
  BY DEF DeleteInstance, CallsProvider
<1>2. Fading
  BY DeletionFading DEF DeleteInstance, IInv, TypeOK
<1>3. CASE Goto(w, IF ConfirmsAbsence THEN "accept" ELSE "cleanup")
  <2>1. PICK t : t = [worker[w] EXCEPT !.pc = IF ConfirmsAbsence THEN "accept" ELSE "cleanup"]
    OBVIOUS
  <2>2. worker[w] \in Task
    BY DEF IInv, TypeOK, WorkerTypeOK
  <2>3. t.pc = IF ConfirmsAbsence THEN "accept" ELSE "cleanup"
    BY <2>1, <2>2 DEF Task
  <2>4. worker' = [worker EXCEPT ![w] = t]
    BY <1>3, <2>1 DEF Goto
  <2>5. t.pc \notin FreePcs /\ (t.pc = "cleanup" => ~ConfirmsAbsence)
    BY <2>3 DEF FreePcs
  <2> QED
    BY <1>1, <1>2, <2>4, <2>5, TaskArrives, RemoteCalm
<1>4. CASE \E e : Goto(w, DeleteFailed(w, e))
  BY <1>1, <1>2, <1>4, FailedArrives, RemoteCalm
<1> QED
  BY <1>3, <1>4 DEF DeleteInstance

LEMMA AcceptDeletionCalm ==
  ASSUME IInv, NEW w \in Workers, AcceptDeletion(w), UNCHANGED reaper
  PROVE  Calm
<1> DEFINE r == records[worker[w].job]
           i == worker[w].rec.instance
<1>1. worker[w].job \in Jobs /\ r \in Record
  BY WorkingFacts, Recorded DEF AcceptDeletion, At, Working
<1>2. RecordsFree
  BY <1>1, DeletionSurvives, PutFree, CallFree DEF AcceptDeletion
<1>3. ArrivesFree
  BY GotoArrives, FailedArrives DEF AcceptDeletion, FreePcs
<1> QED
  BY <1>2, <1>3, StoreCalm DEF AcceptDeletion, CallsStore

\* Only the confirmed absence of the instance leads on to the cleanup by tag.
LEMMA ConfirmAbsenceCalm ==
  ASSUME IInv, NEW w \in Workers, ConfirmAbsence(w), UNCHANGED reaper
  PROVE  Calm
<1>1. UNCHANGED storeVars /\ UNCHANGED vm /\ Fading
  BY SameFading DEF ConfirmAbsence, Local
<1>2. CASE vm[worker[w].rec.instance].state = "gone" /\ Goto(w, "cleanup")
  <2>1. PICK t : t = [worker[w] EXCEPT !.pc = "cleanup"]
    OBVIOUS
  <2>2. worker[w] \in Task
    BY DEF IInv, TypeOK, WorkerTypeOK
  <2>3. t.pc = "cleanup" /\ t.rec = worker[w].rec
    BY <2>1, <2>2 DEF Task
  <2>4. worker' = [worker EXCEPT ![w] = t]
    BY <1>2, <2>1 DEF Goto
  <2>5. "cleanup" \notin FreePcs
    BY DEF FreePcs
  <2> QED
    BY <1>1, <1>2, <2>3, <2>4, <2>5, TaskArrives, RemoteCalm
<1>3. CASE \E pc \in {"await", "releaseDelete"} : Goto(w, pc)
  BY <1>1, <1>3, GotoArrives, RemoteCalm DEF FreePcs
<1> QED
  BY <1>2, <1>3 DEF ConfirmAbsence

LEMMA AwaitAbsenceCalm ==
  ASSUME IInv, NEW w \in Workers, AwaitAbsence(w), UNCHANGED reaper
  PROVE  Calm
<1>1. worker[w].job \in Jobs /\ records[worker[w].job] \in Record
  BY WorkingFacts, Recorded DEF AwaitAbsence, At, Working
<1>2. RecordsFree
  BY <1>1, DeletionSurvives, PutFree, CallFree DEF AwaitAbsence
<1>3. ArrivesFree
  BY FinishArrives, GotoArrives DEF AwaitAbsence, FreePcs
<1> QED
  BY <1>2, <1>3, StoreCalm DEF AwaitAbsence, CallsStore

\* After the cleanup by tag nothing runs for the job: what it spares is gone.
LEMMA CleanupRestCalm ==
  ASSUME IInv, CInv, NEW w \in Workers, CleanupRest(w), UNCHANGED reaper
  PROVE  Calm
<1> DEFINE j == worker[w].job
           except == IF ConfirmsAbsence THEN worker[w].rec.instance ELSE NoInstance
<1>1. UNCHANGED storeVars /\ At(w, "cleanup") /\ ProviderTypeOK
  BY DEF CleanupRest, CallsProvider, IInv, TypeOK
<1>2. Fading
  BY <1>1, CleanupFading DEF CleanupRest
<1>3. CASE CleanupVMs(j, except) /\ \E pc \in {"recheck", "deregister"} : Goto(w, pc)
  <2>1. \A i \in Instances : Alive(i)' /\ i # except => vm'[i].job # j
    BY <1>1, <1>3, CleanupFrees DEF CInv
  <2>2. ASSUME NEW i \in Instances, i = except PROVE ~Alive(i)'
    <3>1. ConfirmsAbsence /\ i = worker[w].rec.instance
      BY <2>2, InstanceFact
    <3>2. vm[i].state = "gone"
      BY <1>1, <3>1 DEF CInv, SparesGone
    <3> QED
      BY <1>2, <3>2 DEF Fading, Alive
  <2>3. \A i \in Instances : Alive(i)' => vm'[i].job # j
    BY <2>1, <2>2
  <2> QED
    BY <1>1, <1>2, <1>3, <2>3, GotoFree, RemoteCalm
<1>4. CASE \E e : Goto(w, DeleteFailed(w, e))
  BY <1>1, <1>2, <1>4, FailedArrives, RemoteCalm
<1> QED
  BY <1>3, <1>4 DEF CleanupRest

LEMMA RecheckCalm ==
  ASSUME IInv, NEW w \in Workers, Recheck(w) \/ AskOriginal(w), UNCHANGED reaper
  PROVE  Calm
<1>1. UNCHANGED storeVars /\ Fading /\ worker[w].pc \in FreePcs
  BY SameFading DEF Recheck, AskOriginal, Local, At, FreePcs
<1>2. CASE \E pc : Goto(w, pc) /\ pc # "cleanup"
  BY <1>1, <1>2, GotoArrives, RemoteCalm
<1>3. CASE \E q : worker' = [worker EXCEPT ![w].pc = "finish", ![w].queued = q]
  <2>1. worker \in [Workers -> Task]
    BY DEF IInv, TypeOK, WorkerTypeOK
  <2>2. PICK t : t = worker'[w]
    OBVIOUS
  <2>3. /\ t.pc = "finish" /\ t.job = worker[w].job
        /\ worker' = [worker EXCEPT ![w] = t]
    BY <1>3, <2>1, <2>2 DEF Task
  <2> QED
    BY <1>1, <2>3, TaskArrives, RemoteCalm
<1>4. CASE Recheck(w)
  BY <1>2, <1>4 DEF Recheck
<1>5. CASE AskOriginal(w)
  BY <1>2, <1>3, <1>5 DEF AskOriginal
<1> QED
  BY <1>4, <1>5

\* A deletion ends in a deleted record only when nothing runs for the job.
LEMMA FinishDeletionCalm ==
  ASSUME IInv, CInv, NEW w \in Workers, FinishDeletion(w), UNCHANGED reaper
  PROVE  Calm
<1> DEFINE j == worker[w].job
           r == records[j]
           s == FinishDeletedRunner(r, worker[w].queued)
<1>1. worker[w].pc \in FreePcs /\ worker[w].pc \in DeletePcs /\ Working(w)
  BY DEF FinishDeletion, At, FreePcs, DeletePcs, Working
<1>2. j \in Jobs /\ r \in Record /\ r.claim = "delete"
  BY <1>1, AtDelete, WorkingFacts, Recorded
<1>3. JobFree(j) /\ r.status # "deleted"
  BY <1>1, <1>2 DEF CInv, WorkersFree, WorkerFree, JobFree, DeletedFree, NoClaim
<1>4. s.status = "deleted" => s.claim = NoClaim
  BY <1>2, <1>3 DEF FinishDeletedRunner, Settled, MarkDeleted, Record
<1> HIDE DEF s
<1>5. RecordsFree
  BY <1>2, <1>3, <1>4, PutFree, CallFree DEF FinishDeletion, s
<1>6. ArrivesFree
  BY FinishArrives, GotoArrives DEF FinishDeletion, FreePcs
<1> QED
  BY <1>5, <1>6, StoreCalm DEF FinishDeletion, CallsStore

LEMMA FinishFailedCalm ==
  ASSUME IInv, NEW w \in Workers, FinishFailed(w), UNCHANGED reaper
  PROVE  Calm
<1>1. worker[w].job \in Jobs /\ records[worker[w].job] \in Record
  BY WorkingFacts, Recorded DEF FinishFailed, At, Working
<1>2. RecordsFree
  BY <1>1, DeletionSurvives, PutFree, CallFree DEF FinishFailed
<1>3. ArrivesFree
  BY FinishArrives, GotoArrives DEF FinishFailed, FreePcs
<1> QED
  BY <1>2, <1>3, StoreCalm DEF FinishFailed, CallsStore

LEMMA DeleteStepCalm ==
  ASSUME IInv, CInv, NEW w \in Workers, DeleteStep(w), UNCHANGED reaper
  PROVE  Calm
  BY DeleteInstanceCalm, AcceptDeletionCalm, ConfirmAbsenceCalm, AwaitAbsenceCalm,
     CleanupRestCalm, RecheckCalm, FinishDeletionCalm, FinishFailedCalm DEF DeleteStep

-----------------------------------------------------------------------------
(* Claiming.                                                                 *)

LEMMA ClaimCalm ==
  ASSUME IInv, NEW w \in Workers, Claim(w), UNCHANGED reaper
  PROVE  Calm
<1>1. PICK j \in Jobs :
        /\ ClaimFirst(j)
        /\ worker' = [worker EXCEPT ![w] =
             [Idle EXCEPT !.pc = FirstStep(Claimed(records[j])),
                          !.job = j, !.rec = Claimed(records[j])]]
  BY DEF Claim
<1> DEFINE t == [Idle EXCEPT !.pc = FirstStep(Claimed(records[j])),
                             !.job = j, !.rec = Claimed(records[j])]
<1>2. t.pc = FirstStep(Claimed(records[j]))
  BY DEF Idle
<1>3. t.pc \notin FreePcs /\ t.pc # "cleanup"
  BY <1>2 DEF FirstStep, FreePcs
<1> HIDE DEF t
<1>4. ArrivesFree
  BY <1>1, <1>3, TaskArrives DEF t
<1>5. \A k \in Jobs : records'[k] = IF k = j THEN Claimed(records[k])
                                    ELSE IF k < j THEN Backstop(records[k])
                                    ELSE records[k]
  BY <1>1 DEF ClaimFirst
<1>6. \A k \in Jobs : Survives(records[k], records'[k])
  BY <1>5, Recorded, WorkSurvives DEF Claimed, Survives
<1>7. RecordsFree
  BY <1>6 DEF RecordsFree, Survives
<1> QED
  BY <1>4, <1>7, StoreCalm DEF Claim, CallsStore

LEMMA ScanCalm ==
  ASSUME IInv, NEW w \in Workers, Scan(w), UNCHANGED reaper
  PROVE  Calm
<1>1. \A k \in Jobs : records'[k] \in {records[k], Backstop(records[k])}
  BY DEF Scan, ScanWithoutClaim, ScanStops
<1>2. RecordsFree
  BY <1>1, Recorded, WorkSurvives DEF RecordsFree, Survives
<1> QED
  BY <1>2, StayArrives, StoreCalm DEF Scan, CallsStore

LEMMA WorkerStepKeepsClean ==
  ASSUME IInv, CInv, ~ListingLag, NEW w \in Workers, WorkerStep(w)
  PROVE  CInv'
<1>1. UNCHANGED reaper
  BY DEF WorkerStep
<1> QED
  BY <1>1, ClaimCalm, ScanCalm, DeregisterCalm, ClearCalm, EndWorkCalm,
     ProvisionStepKeepsClean, DeleteStepCalm, CalmStep DEF WorkerStep, Calm

-----------------------------------------------------------------------------
(* Webhooks, the world outside, the reaper and restarts.                     *)

LEMMA OutsideCalm ==
  ASSUME IInv, Outside
  PROVE  Calm
<1>1. UNCHANGED worker /\ UNCHANGED reaper
  BY DEF Outside, QueuedWebhook, CompletedWebhook, RunnerTakesJob,
     ForeignRunnerTakesJob, JobEnds, RetryTimePasses, InstanceMoves
<1>2. ASSUME NEW j \in Jobs, QueuedWebhook(j) PROVE RecordsFree
  <2>1. Put(j, NewDemand) /\ NewDemand.status # "deleted"
    BY <1>2 DEF QueuedWebhook, CreateRecord, NewDemand, Absent
  <2> QED
    BY <2>1, PutFree DEF Survives
<1>3. ASSUME NEW j \in Jobs, CompletedWebhook(j) PROVE RecordsFree
  <2> DEFINE id == ranOn[j]
             matched == MatchedKey(id)
  <2>1. \A k \in Jobs :
          records'[k] = IF k = matched THEN MatchedCompletion(records[k], k = j)
                        ELSE IF k = j THEN EventCompletion(records[k], id)
                        ELSE records[k]
    BY <1>3 DEF CompletedWebhook, RecordCompletion
  <2> HIDE DEF matched
  <2>2. ASSUME NEW k \in Jobs PROVE Survives(records[k], records'[k])
    <3>1. records[k] \in Record /\ (k = j) \in BOOLEAN
      BY Recorded
    <3>2. /\ Survives(records[k], MatchedCompletion(records[k], k = j))
          /\ Survives(records[k], EventCompletion(records[k], id))
          /\ Survives(records[k], records[k])
      BY <3>1, EventsSurvive DEF Survives
    <3>3. records'[k] \in {MatchedCompletion(records[k], k = j),
                           EventCompletion(records[k], id), records[k]}
      BY <2>1, Zenon
    <3> QED
      BY <3>2, <3>3
  <2> QED
    BY <2>2 DEF RecordsFree, Survives
<1>4. ASSUME NEW j \in Jobs, RetryTimePasses(j) PROVE RecordsFree
  BY <1>4, Recorded, EventsSurvive, PutFree DEF RetryTimePasses, BecomeDue
<1>5. ASSUME NEW j \in Jobs, RunnerTakesJob(j) \/ ForeignRunnerTakesJob(j) \/ JobEnds(j)
      PROVE  RecordsFree
  BY <1>5, CallFree DEF RunnerTakesJob, ForeignRunnerTakesJob, JobEnds
<1>6. ASSUME NEW i \in Instances, InstanceMoves(i) PROVE RecordsFree /\ Fading
  <2>1. vm \in [Instances -> [state : VMStates, job : Jobs \cup {NoJob},
                              runner : Runners \cup {NoRunner}]]
    BY DEF IInv, TypeOK, ProviderTypeOK
  <2>2. PICK s : /\ s \in {"running", "gone"} /\ vm' = [vm EXCEPT ![i].state = s]
                 /\ s = "running" => vm[i].state = "hidden"
    BY <1>6 DEF InstanceMoves, Appear, Disappear, Preempted
  <2>3. /\ vm'[i].state = s /\ vm'[i].job = vm[i].job
        /\ \A k \in Instances : k # i => vm'[k] = vm[k]
    BY <2>1, <2>2
  <2>4. Fading
    BY <2>2, <2>3 DEF Fading, Alive
  <2> QED
    BY <1>6, <2>4, CallFree DEF InstanceMoves
<1>7. RecordsFree
  BY <1>2, <1>3, <1>4, <1>5, <1>6 DEF Outside
<1>8. Fading
  <2>1. CASE UNCHANGED vm
    BY <2>1, SameFading
  <2>2. CASE \E i \in Instances : InstanceMoves(i)
    BY <1>6, <2>2
  <2> QED
    BY <2>1, <2>2 DEF Outside, QueuedWebhook, CompletedWebhook, RunnerTakesJob,
       ForeignRunnerTakesJob, JobEnds, RetryTimePasses
<1> QED
  BY <1>1, <1>7, <1>8, StayArrives, ReaperStays DEF Calm

LEMMA ReapGotoArrives ==
  ASSUME IInv, NEW pc, ReapGoto(pc), pc # "markDeleted"
  PROVE  ReaperArrives
  BY DEF IInv, TypeOK, ReaperTypeOK, ReapGoto, ReaperArrives

LEMMA ReapNextArrives ==
  ASSUME IInv, ReapNext
  PROVE  ReaperArrives
  BY DEF IInv, TypeOK, ReaperTypeOK, ReapNext, ReaperArrives

\* The reaper marks an untracked record deleted after a complete cleanup.
LEMMA ReapVMsCalm ==
  ASSUME IInv, CInv, ReapVMs, UNCHANGED worker
  PROVE  Calm
<1>1. ProviderTypeOK /\ UNCHANGED storeVars
  BY DEF ReapVMs, IInv, TypeOK
<1>2. Fading
  BY <1>1, CleanupFading DEF ReapVMs
<1>3. CASE CleanupVMs(reaper.job, NoInstance) /\ ReapGoto("markDeleted")
  <2>1. \A i \in Instances : Alive(i)' => vm'[i].job # reaper.job
    BY <1>1, <1>3, CleanupFrees, InstanceFact DEF CInv
  <2>2. reaper'.job = reaper.job
    BY <1>3 DEF IInv, TypeOK, ReaperTypeOK, ReapGoto
  <2>3. ReaperArrives
    BY <2>1, <2>2 DEF ReaperArrives
  <2> QED
    BY <1>1, <1>2, <2>3, StayArrives, CallFree DEF Calm
<1>4. CASE \E pc : ReapGoto(pc) /\ pc # "markDeleted"
  BY <1>1, <1>2, <1>4, ReapGotoArrives, StayArrives, CallFree DEF Calm
<1> QED
  BY <1>3, <1>4 DEF ReapVMs, CleanupFailed

LEMMA ReapDeregisterCalm ==
  ASSUME IInv, ReapDeregister, UNCHANGED worker
  PROVE  Calm
<1>1. \A e : CleanupFailed(e) # "markDeleted" /\ "markDeleted" \notin Deferral(e)
  BY DEF CleanupFailed, Deferral
<1>2. \E pc : ReapGoto(pc) /\ pc # "markDeleted"
  BY <1>1 DEF ReapDeregister
<1>3. UNCHANGED storeVars /\ UNCHANGED vm
  BY DEF ReapDeregister
<1> QED
  BY <1>2, <1>3, ReapGotoArrives, StayArrives, CallFree, SameFading DEF Calm

LEMMA EndReapCalm ==
  ASSUME IInv, CInv, EndReap, UNCHANGED worker
  PROVE  Calm
<1> DEFINE j == reaper.job
           r == records[j]
<1>1. reaper.pc \in ReapWritePcs /\ j \in Jobs /\ r \in Record
  BY Recorded DEF EndReap, ReapWritePcs, IInv, ReaperHasJob
<1>2. \/ Survives(r, ReapWrite)
      \/ JobFree(j) /\ (ReapWrite.status = "deleted" => ReapWrite.claim = NoClaim)
  <2>1. CASE reaper.pc = "markDeleted"
    <3>1. ReapWrite = MarkDeleted(r)
      BY <2>1 DEF ReapWrite
    <3>2. ReapWrite.claim = NoClaim
      BY <1>1, <3>1 DEF MarkDeleted, Record
    <3> QED
      BY <2>1, <3>2 DEF CInv, ReaperFree, JobFree
  <2>2. CASE reaper.pc \in {"schedule", "markOrphan", "cleanupFailed"}
    BY <1>1, <2>2, DeletionSurvives DEF ReapWrite
  <2>3. CASE reaper.pc \in {"deferClientError", "deferLimited", "deferOther",
                             "cleanupLimited", "cleanupTimeout"}
    BY <1>1, <2>3, EventsSurvive DEF ReapWrite
  <2> QED
    BY <1>1, <2>1, <2>2, <2>3 DEF ReapWritePcs
<1>3. RecordsFree
  BY <1>1, <1>2, PutFree, CallFree DEF EndReap
<1> QED
  BY <1>3, ReapNextArrives, StayArrives, SameFading DEF EndReap, Calm

LEMMA ReaperCalm ==
  ASSUME IInv, CInv, ReaperStep, UNCHANGED worker
  PROVE  Calm
<1>1. CASE ListExpired \/ \E j \in Jobs : ExpireRunner(j)
  <2>1. reaper'.pc # "markDeleted"
    BY <1>1 DEF ListExpired, ExpireRunner, ReaperIdle, IInv, TypeOK, ReaperTypeOK
  <2>2. UNCHANGED storeVars /\ UNCHANGED vm
    BY <1>1 DEF ListExpired, ExpireRunner
  <2> QED
    BY <2>1, <2>2, CallFree, StayArrives, SameFading DEF Calm, ReaperArrives
<1>2. CASE BeginCleanup
  <2>1. reaper.job \in Jobs /\ records[reaper.job] \in Record
    BY <1>2, Recorded DEF BeginCleanup, IInv, ReaperHasJob
  <2>2. RecordsFree
    BY <1>2, <2>1, EventsSurvive, PutFree, CallFree DEF BeginCleanup
  <2>3. ReaperArrives
    BY <1>2, ReapNextArrives, ReapGotoArrives DEF BeginCleanup
  <2> QED
    BY <1>2, <2>2, <2>3, StayArrives, SameFading DEF BeginCleanup, Calm
<1>3. CASE ReapClear
  <2>1. reaper.job \in Jobs /\ records[reaper.job] \in Record
    BY <1>3, Recorded DEF ReapClear, IInv, ReaperHasJob
  <2>2. RecordsFree
    BY <1>3, <2>1, ProvisioningSurvives, PutFree, CallFree DEF ReapClear
  <2>3. ReaperArrives
    BY <1>3, ReapGotoArrives DEF ReapClear
  <2> QED
    BY <1>3, <2>2, <2>3, StayArrives, SameFading DEF ReapClear, Calm
<1>4. CASE \E id \in Runners : ReapMarker(id)
  BY <1>4, SameFree, StayArrives, ReaperStays, SameFading DEF ReapMarker, Calm
<1> QED
  BY <1>1, <1>2, <1>3, <1>4, ReapVMsCalm, ReapDeregisterCalm, EndReapCalm DEF ReaperStep

LEMMA RetentionCalm ==
  ASSUME IInv, NEW j \in Jobs, RetentionPasses(j)
  PROVE  Calm
<1>1. Put(j, Absent) /\ Absent.status # "deleted" /\ UNCHANGED worker
  BY DEF RetentionPasses, PruneDeleted, Absent
<1>2. RecordsFree
  BY <1>1, PutFree DEF Survives
<1> QED
  BY <1>1, <1>2, StayArrives, StoreCalm DEF RetentionPasses

LEMMA RestartCalm ==
  ASSUME IInv, Restart
  PROVE  Calm
<1>1. \A j \in Jobs : records'[j] = RecoverRecord(records[j])
  BY DEF Restart, Reopen, RecoveredRecords
<1>2. RecordsFree
  BY <1>1, Recorded, WorkSurvives DEF RecordsFree, Survives
<1>3. ArrivesFree
  BY DEF Restart, Idle, FreePcs, ArrivesFree
<1>4. ReaperArrives
  BY DEF Restart, ReaperIdle, ReaperArrives
<1> QED
  BY <1>2, <1>3, <1>4, SameFading DEF Restart, Calm

-----------------------------------------------------------------------------
(* The theorems.                                                             *)

LEMMA CleanKept == ~ListingLag /\ IInv /\ CInv /\ [Next]_vars => CInv'
<1> SUFFICES ASSUME ~ListingLag, IInv, CInv, [Next]_vars PROVE CInv'
  OBVIOUS
<1>1. CASE Outside
  BY <1>1, OutsideCalm, CalmStep DEF Calm
<1>2. CASE WorkersMove
  BY <1>2, WorkerStepKeepsClean DEF WorkersMove
<1>3. CASE ReaperMoves
  BY <1>3, ReaperCalm, RetentionCalm, CalmStep DEF ReaperMoves, Calm
<1>4. CASE Restart
  BY <1>4, RestartCalm, CalmStep DEF Calm
<1>5. CASE UNCHANGED vars
  BY <1>5, CallFree, StayArrives, ReaperStays, SameFading, CalmStep DEF vars
<1> QED
  BY <1>1, <1>2, <1>3, <1>4, <1>5 DEF Next

LEMMA CleanInvariance == ~ListingLag => (Spec => []CInv)
<1> SUFFICES ASSUME ~ListingLag PROVE Spec => []CInv
  OBVIOUS
<1>1. IInv /\ CInv /\ [Next]_vars => CInv'
  BY CleanKept
<1> QED
  BY <1>1, FreeInitially, Invariance, PTL DEF Spec

\* Attempts to provision a job are repeated after failed, interrupted and
\* ambiguous creates, by any worker and across restarts; still no job has two
\* running instances, as long as a tag listing shows an instance from its start
\* (Handler.provision adopts what FindRunner finds, CreateRunner lists again).
THEOREM NoJobRunsTwice == ~ListingLag => (Spec => []OneInstancePerJob)
<1> SUFFICES ASSUME ~ListingLag PROVE Spec => []OneInstancePerJob
  OBVIOUS
<1>1. CInv => OneInstancePerJob
  <2>1. ASSUME CInv, NEW j \in Jobs PROVE Cardinality(AliveFor(j)) <= 1
    <3>1. CASE AliveFor(j) = {}
      BY <3>1, FS_EmptySet
    <3>2. CASE AliveFor(j) # {}
      <4>1. PICK i \in AliveFor(j) : TRUE
        BY <3>2
      <4>2. AliveFor(j) = {i}
        BY <2>1, <4>1 DEF CInv, NoTwins, AliveFor
      <4>3. Cardinality({i}) = 1
        BY FS_Singleton, Zenon
      <4>4. Cardinality(AliveFor(j)) = 1
        BY <4>2, <4>3
      <4> QED
        BY <4>4
    <3> QED
      BY <3>1, <3>2
  <2> QED
    BY <2>1 DEF OneInstancePerJob
<1> QED
  BY <1>1, CleanInvariance, PTL

\* A record becomes deleted only when nothing runs for its job any more, on all
\* three ways there (retireProvisioning, FinishDeletedRunner and the reaper's
\* MarkDeleted), and nothing is started for a deleted record afterwards.
THEOREM DeletionLeavesNothing == ~ListingLag => (Spec => []DeletedLeavesNothing)
<1> SUFFICES ASSUME ~ListingLag PROVE Spec => []DeletedLeavesNothing
  OBVIOUS
<1>1. CInv => DeletedLeavesNothing
  BY DEF CInv, DeletedFree, DeletedLeavesNothing, AliveFor
<1> QED
  BY <1>1, CleanInvariance, PTL

-----------------------------------------------------------------------------
(* No deletion is requested twice.  What a worker decided on its copy when   *)
(* it claimed the record still holds when it calls the provider.             *)

\* Acceptances are stored only where the provider confirms absence later.
OnlyConfirmedAccepted ==
  \/ ConfirmsAbsence
  \/ /\ \A j \in Jobs : records[j].accepted = NoInstance
     /\ \A w \in Workers : ~At(w, "accept")

\* A worker about to ask for a deletion asks for the first time.
AsksOnce ==
  \A w \in Workers : At(w, "vmDelete") =>
    /\ worker[w].rec.instance # NoInstance
    /\ records[worker[w].job].accepted # worker[w].rec.instance

AInv == OnlyConfirmedAccepted /\ AsksOnce

LEMMA AcceptedInitially == Init => AInv
<1> SUFFICES ASSUME Init PROVE AInv
  OBVIOUS
<1>1. \A j \in Jobs : records[j].accepted = NoInstance
  BY DEF Init, StoreInit, Absent
<1>2. \A w \in Workers : ~At(w, "accept") /\ ~At(w, "vmDelete")
  BY DEF Init, WorkerInit, Idle, At
<1> QED
  BY <1>1, <1>2 DEF AInv, OnlyConfirmedAccepted, AsksOnce

-----------------------------------------------------------------------------
(* Plain steps: an acceptance is kept or forgotten, and no worker comes to   *)
(* the point where it asks or stores.                                        *)

RecordsFollow ==
  \A j \in Jobs : records'[j].accepted \in {records[j].accepted, NoInstance}

NobodyArrives ==
  \A w \in Workers :
    /\ At(w, "vmDelete")' => worker'[w] = worker[w]
    /\ At(w, "accept")' => At(w, "accept") \/ ConfirmsAbsence

Plain == RecordsFollow /\ NobodyArrives

LEMMA PlainStep ==
  ASSUME IInv, AInv, Plain
  PROVE  AInv'
<1>1. OnlyConfirmedAccepted'
  BY DEF AInv, OnlyConfirmedAccepted, Plain, RecordsFollow, NobodyArrives
<1>2. ASSUME NEW w \in Workers, At(w, "vmDelete")'
      PROVE  /\ worker'[w].rec.instance # NoInstance
             /\ records'[worker'[w].job].accepted # worker'[w].rec.instance
  <2>1. worker'[w] = worker[w] /\ At(w, "vmDelete")
    BY <1>2 DEF Plain, NobodyArrives, At
  <2>2. worker[w].job \in Jobs
    BY <2>1, WorkingFacts DEF At, Working
  <2> QED
    BY <2>1, <2>2 DEF AInv, AsksOnce, Plain, RecordsFollow
<1> QED
  BY <1>1, <1>2 DEF AInv, AsksOnce

-----------------------------------------------------------------------------
(* Records.                                                                  *)

LEMMA RespectedFollow ==
  ASSUME AllRespected
  PROVE  RecordsFollow
  BY DEF AllRespected, RecordsFollow, Respects, Follows

LEMMA SameFollow ==
  ASSUME records' = records
  PROVE  RecordsFollow
  BY DEF RecordsFollow

LEMMA CallFollow ==
  ASSUME UNCHANGED storeVars \/ PutFails
  PROVE  RecordsFollow
  BY SameFollow DEF storeVars, PutFails

LEMMA EditFollow ==
  ASSUME IInv, NEW j \in Jobs, NEW r,
         records' = [records EXCEPT ![j] = r], Follows(records[j], r)
  PROVE  RecordsFollow
<1>1. records \in [Jobs -> Record]
  BY DEF IInv, TypeOK, StoreTypeOK
<1>2. records'[j] = r /\ \A k \in Jobs : k # j => records'[k] = records[k]
  BY <1>1
<1> QED
  BY <1>2 DEF RecordsFollow, Follows

LEMMA PutFollow ==
  ASSUME IInv, NEW j \in Jobs, NEW r, Put(j, r), Follows(records[j], r)
  PROVE  RecordsFollow
  BY EditFollow DEF Put

-----------------------------------------------------------------------------
(* Workers.                                                                  *)

LEMMA TaskAsks ==
  ASSUME IInv, NEW w \in Workers, NEW t, worker' = [worker EXCEPT ![w] = t],
         t.pc # "vmDelete", t.pc = "accept" => ConfirmsAbsence
  PROVE  NobodyArrives
<1>1. worker \in [Workers -> Task]
  BY DEF IInv, TypeOK, WorkerTypeOK
<1>2. worker'[w] = t /\ \A v \in Workers : v # w => worker'[v] = worker[v]
  BY <1>1
<1> QED
  BY <1>2 DEF NobodyArrives, At

LEMMA GotoAsks ==
  ASSUME IInv, NEW w \in Workers, NEW pc, Goto(w, pc),
         pc # "vmDelete", pc = "accept" => ConfirmsAbsence
  PROVE  NobodyArrives
<1>1. PICK t : t = [worker[w] EXCEPT !.pc = pc]
  OBVIOUS
<1>2. worker[w] \in Task
  BY DEF IInv, TypeOK, WorkerTypeOK
<1>3. t.pc = pc
  BY <1>1, <1>2 DEF Task
<1>4. worker' = [worker EXCEPT ![w] = t]
  BY <1>1 DEF Goto
<1> QED
  BY <1>3, <1>4, TaskAsks

LEMMA FinishAsks ==
  ASSUME IInv, NEW w \in Workers, Finish(w)
  PROVE  NobodyArrives
<1>1. Idle.pc # "vmDelete" /\ Idle.pc # "accept"
  BY DEF Idle
<1> QED
  BY <1>1, TaskAsks DEF Finish

LEMMA RestingAsks ==
  ASSUME IInv, NEW w \in Workers, NEW t, Resting(t), worker' = [worker EXCEPT ![w] = t]
  PROVE  NobodyArrives
<1>1. t.pc # "vmDelete" /\ t.pc # "accept"
  BY DEF Resting
<1> QED
  BY <1>1, TaskAsks

LEMMA StayAsks ==
  ASSUME UNCHANGED worker
  PROVE  NobodyArrives
  BY DEF NobodyArrives, At

\* Provisioning does not lead to deletion, nor do the errors of deletion.
LEMMA ProvisioningArrives ==
  ASSUME IInv, NEW w \in Workers, NEW pc \in ProvisionPcs, Goto(w, pc)
  PROVE  NobodyArrives
<1>1. pc # "vmDelete" /\ pc # "accept"
  BY DEF ProvisionPcs
<1> QED
  BY <1>1, GotoAsks

LEMMA ProvisionFailedArrives ==
  ASSUME IInv, NEW w \in Workers, NEW e, Goto(w, ProvisionFailed(w, e))
  PROVE  NobodyArrives
  BY ProvisionFailedPc, ProvisioningArrives

LEMMA DeleteFailedArrives ==
  ASSUME IInv, NEW w \in Workers, NEW e, Goto(w, DeleteFailed(w, e))
  PROVE  NobodyArrives
<1>1. DeleteFailed(w, e) # "vmDelete" /\ DeleteFailed(w, e) # "accept"
  BY DEF DeleteFailed, OrphanDelete
<1> QED
  BY <1>1, GotoAsks

-----------------------------------------------------------------------------
(* What a worker's step writes.                                              *)

LEMMA LastWriteFollows ==
  ASSUME IInv, NEW w \in Workers, worker[w].pc \in LastWritePcs
  PROVE  Follows(records[worker[w].job], LastWrite(w))
<1> DEFINE r == records[worker[w].job]
<1>1. Working(w) /\ Sound(r) /\ r.claim = KindOf(w)
  BY WorkingFacts DEF LastWritePcs, Working
<1>2. {"provision", "delete"} \subseteq WorkKinds
  BY DEF WorkKinds
<1>3. CASE At(w, "markFailed")
  <2>1. KindOf(w) = "provision"
    BY <1>3 DEF KindOf, At, ProvisionPcs
  <2> QED
    BY <1>1, <1>3, <2>1, MarkProvisionFailedFollows DEF LastWrite, At
<1>4. CASE worker[w].pc \in {"releaseProvision", "deferProvision", "deferDemand"}
  BY <1>1, <1>2, <1>4, ReleaseClaimFollows, DeferRateLimitedWorkFollows,
     DeferProvisioningDemandFollows DEF LastWrite, At
<1>5. CASE worker[w].pc \in {"releaseDelete", "deferDelete", "failDelete"}
  BY <1>1, <1>2, <1>5, ReleaseClaimFollows, DeferRateLimitedWorkFollows,
     MarkDeleteFailedFollows DEF LastWrite, At
<1>6. CASE worker[w].pc \in {"deferReassigned", "markOrphanProvision",
                              "markOrphanDelete"}
  BY <1>1, <1>6, DeferReassignmentDemandFollows, MarkOrphanedFollows DEF LastWrite, At
<1> QED
  BY <1>3, <1>4, <1>5, <1>6 DEF LastWritePcs, At

LEMMA EndWorkPlain ==
  ASSUME IInv, NEW w \in Workers, EndWork(w)
  PROVE  Plain
<1>1. worker[w].pc \in LastWritePcs /\ worker[w].job \in Jobs
  BY WorkingFacts DEF EndWork, LastWritePcs, Working
<1>2. RecordsFollow
  BY <1>1, LastWriteFollows, PutFollow, CallFollow DEF EndWork
<1> QED
  BY <1>2, FinishAsks DEF EndWork, Plain

LEMMA DeregisterPlain ==
  ASSUME IInv, NEW w \in Workers, Deregister(w)
  PROVE  Plain
<1> DEFINE Elsewhere == {"vmDelete", "accept"}
<1>1. worker[w].pc \in DeregisterPcs /\ RecordsFollow
  BY CallFollow DEF Deregister, CallsGitHub
<1>2. AfterRemoval(w) \notin Elsewhere
  BY <1>1 DEF AfterRemoval, At, DeregisterPcs
<1>3. CASE Goto(w, AfterRemoval(w))
  BY <1>1, <1>2, <1>3, GotoAsks DEF Plain
<1>4. CASE \E e : \E pc \in AfterRefusal(w, e) : Goto(w, pc)
  <2>1. PICK e : \E pc \in AfterRefusal(w, e) : Goto(w, pc)
    BY <1>4
  <2>2. PICK pc \in AfterRefusal(w, e) : Goto(w, pc)
    BY <2>1
  <2>3. CASE At(w, "deregister")
    <3>1. pc = DeleteFailed(w, e)
      BY <2>2, <2>3 DEF AfterRefusal, At
    <3> QED
      BY <1>1, <2>2, <3>1, DeleteFailedArrives DEF Plain
  <2>4. CASE worker[w].pc \in {"unregister", "stale"}
    <3>1. pc \in ProvisionPcs
      BY <2>2, <2>4, ProvisionFailedPc DEF AfterRefusal, At
    <3> QED
      BY <1>1, <2>2, <3>1, ProvisioningArrives DEF Plain
  <2>5. CASE worker[w].pc \in {"exhaustedJIT", "orphanProvision", "orphanDelete"}
    <3>1. pc \notin Elsewhere
      BY <2>2, <2>5 DEF AfterRefusal, At
    <3> QED
      BY <1>1, <2>2, <3>1, GotoAsks DEF Plain
  <2> QED
    BY <1>1, <2>3, <2>4, <2>5 DEF DeregisterPcs, At
<1> QED
  BY <1>3, <1>4 DEF Deregister

LEMMA ClearPlain ==
  ASSUME IInv, NEW w \in Workers, Clear(w)
  PROVE  Plain
<1> DEFINE r == records[worker[w].job]
           Elsewhere == {"vmDelete", "accept"}
<1>1. worker[w].pc \in ClearPcs /\ worker[w].job \in Jobs /\ Sound(r)
  BY ClearLeads, SameKindWorks, WorkingFacts DEF Clear
<1>2. RecordsFollow
  BY <1>1, ClearJITRespects, PutFollow, CallFollow DEF Clear, Respects
<1>3. AfterClear(w) \notin Elsewhere
  BY <1>1 DEF AfterClear, At, ClearPcs
<1>4. CASE Goto(w, AfterClear(w))
  BY <1>2, <1>3, <1>4, GotoAsks DEF Plain
<1>5. CASE \E pc \in AfterClearFails(w) : Goto(w, pc)
  <2>1. PICK pc \in AfterClearFails(w) : Goto(w, pc)
    BY <1>5
  <2>2. CASE worker[w].pc \in {"clearIdle", "clearStale"}
    <3>1. pc \in ProvisionPcs
      BY <2>1, <2>2, ProvisionFailedPc DEF AfterClearFails, At
    <3> QED
      BY <1>2, <2>1, <3>1, ProvisioningArrives DEF Plain
  <2>3. CASE worker[w].pc \in {"clearExhausted", "clearOrphanProvision",
                                "clearOrphanDelete"}
    <3>1. pc \notin Elsewhere
      BY <2>1, <2>3 DEF AfterClearFails, At
    <3> QED
      BY <1>2, <2>1, <3>1, GotoAsks DEF Plain
  <2> QED
    BY <1>1, <2>2, <2>3 DEF ClearPcs
<1> QED
  BY <1>4, <1>5 DEF Clear

-----------------------------------------------------------------------------
(* Provisioning.                                                             *)

\* A provisioning step that calls GitHub or the provider.
LEMMA RemotePlain ==
  ASSUME IInv, NEW w \in Workers, UNCHANGED storeVars,
         \/ \E pc \in ProvisionPcs : Goto(w, pc)
         \/ \E e : Goto(w, ProvisionFailed(w, e))
  PROVE  Plain
  BY CallFollow, ProvisioningArrives, ProvisionFailedArrives DEF Plain

\* A provisioning step that also notes an instance or a registration.
LEMMA NotePlain ==
  ASSUME IInv, NEW w \in Workers, UNCHANGED storeVars, NEW pc \in ProvisionPcs, NEW n,
         \/ worker' = [worker EXCEPT ![w].inst = n, ![w].pc = pc]
         \/ worker' = [worker EXCEPT ![w].pc = pc, ![w].inst = n]
         \/ worker' = [worker EXCEPT ![w].pc = pc, ![w].jit = n]
  PROVE  Plain
<1>1. worker \in [Workers -> Task] /\ worker[w] \in Task
  BY DEF IInv, TypeOK, WorkerTypeOK
<1>2. PICK t : t = worker'[w]
  OBVIOUS
<1>3. t.pc = pc
  BY <1>1, <1>2 DEF Task
<1>4. worker' = [worker EXCEPT ![w] = t]
  BY <1>1, <1>2
<1>5. pc # "vmDelete" /\ pc # "accept"
  BY DEF ProvisionPcs
<1> QED
  BY <1>3, <1>4, <1>5, TaskAsks, CallFollow DEF Plain

LEMMA FindPlain ==
  ASSUME IInv, NEW w \in Workers, Find(w)
  PROVE  Plain
<1>1. UNCHANGED storeVars /\ {"demand", "dropVM", "persistVM"} \subseteq ProvisionPcs
  BY DEF Find, Local, ProvisionPcs
<1>2. CASE Goto(w, "demand") \/ \E e : Goto(w, ProvisionFailed(w, e))
  BY <1>1, <1>2, RemotePlain
<1>3. CASE \E i : worker' = [worker EXCEPT ![w].inst = i,
              ![w].pc = IF worker[w].rec.runner = NoRunner THEN "dropVM" ELSE "persistVM"]
  BY <1>1, <1>3, NotePlain
<1> QED
  BY <1>2, <1>3 DEF Find

LEMMA DemandPlain ==
  ASSUME IInv, NEW w \in Workers, DropVM(w) \/ CheckDemand(w) \/ AskDemand(w)
                                  \/ DropJIT(w) \/ CleanupExhausted(w)
  PROVE  Plain
<1>1. UNCHANGED storeVars
  BY DEF DropVM, CheckDemand, AskDemand, DropJIT, CleanupExhausted, Local,
     CallsProvider, CallsGitHub
<1>2. {"ask", "create", "generate", "stale", "markFailed", "exhaustedJIT",
       GiveUpDemand(w)} \subseteq ProvisionPcs
  BY DEF ProvisionPcs, GiveUpDemand
<1>3. CASE CheckDemand(w) \/ AskDemand(w)
  <2>1. \E pc \in ProvisionPcs : Goto(w, pc)
    BY <1>2, <1>3, ProvisionFailedPc DEF CheckDemand, AskDemand
  <2> QED
    BY <1>1, <2>1, RemotePlain
<1>4. CASE DropVM(w) \/ DropJIT(w)
  BY <1>1, <1>4, RemotePlain DEF DropVM, DropJIT
<1>5. CASE CleanupExhausted(w)
  <2>1. \E pc \in ProvisionPcs : Goto(w, pc)
    BY <1>2, <1>5, ProvisionFailedPc DEF CleanupExhausted
  <2> QED
    BY <1>1, <2>1, RemotePlain
<1> QED
  BY <1>3, <1>4, <1>5

LEMMA GeneratePlain ==
  ASSUME IInv, NEW w \in Workers, Generate(w)
  PROVE  Plain
<1>1. UNCHANGED storeVars /\ "persistJIT" \in ProvisionPcs
  BY DEF Generate, CallsGitHub, ProvisionPcs
<1>2. CASE worker' = [worker EXCEPT ![w].pc = "persistJIT", ![w].jit = issued + 1]
  BY <1>1, <1>2, NotePlain
<1>3. CASE \E e : Goto(w, ProvisionFailed(w, e))
  BY <1>1, <1>3, RemotePlain
<1> QED
  BY <1>2, <1>3 DEF Generate

LEMMA CreatePlain ==
  ASSUME IInv, NEW w \in Workers, Create(w)
  PROVE  Plain
<1>1. UNCHANGED storeVars /\ "persistVM" \in ProvisionPcs
  BY DEF Create, CallsProvider, ProvisionPcs
<1>2. CASE \E i : worker' = [worker EXCEPT ![w].pc = "persistVM", ![w].inst = i]
  BY <1>1, <1>2, NotePlain
<1>3. CASE \E e : Goto(w, ProvisionFailed(w, e))
  BY <1>1, <1>3, RemotePlain
<1> QED
  BY <1>2, <1>3 DEF Create

LEMMA RetirePlain ==
  ASSUME IInv, NEW w \in Workers, Retire(w)
  PROVE  Plain
<1> DEFINE r == records[worker[w].job]
           done == MarkCompleted(r)
           freed == ReleaseClaim(done, "provision")
           over == ScheduleDeletion(freed)
<1>1. worker[w].job \in Jobs /\ Sound(r) /\ "provision" \in WorkKinds
  BY WorkingFacts DEF Retire, At, Working, WorkKinds
<1>2. Follows(r, MarkDeleted(r)) /\ Follows(r, done)
  BY <1>1, MarkDeletedFollows, MarkCompletedFollows
<1> HIDE DEF done
<1>3. Follows(done, freed)
  BY <1>1, <1>2, ReleaseClaimFollows DEF Follows
<1> HIDE DEF freed
<1>4. Follows(freed, over)
  BY <1>3, ScheduleDeletionRespects DEF Follows, Respects
<1> HIDE DEF over
<1>5. Follows(r, over)
  BY <1>2, <1>3, <1>4 DEF Follows
<1>6. CASE /\ \/ Put(worker[w].job, MarkDeleted(r)) \/ Put(worker[w].job, over)
           /\ Finish(w)
  BY <1>1, <1>2, <1>5, <1>6, PutFollow, FinishAsks DEF Plain
<1>7. CASE PutFails /\ Goto(w, ProvisionFailed(w, "other"))
  BY <1>7, CallFollow, ProvisionFailedArrives DEF Plain
<1> QED
  BY <1>6, <1>7 DEF Retire, over, freed, done

LEMMA PersistJITPlain ==
  ASSUME IInv, NEW w \in Workers, PersistJIT(w)
  PROVE  Plain
<1> DEFINE j == worker[w].job
           id == worker[w].jit
           s == MarkJITCreated(records[j], j, id, markers[id])
<1>1. {"demand", "dropJIT"} \subseteq ProvisionPcs
  BY DEF ProvisionPcs
<1>2. j \in Jobs /\ Sound(records[j]) /\ id \in Runners \cup {NoRunner}
  BY WorkingFacts DEF PersistJIT, At, Working, Task
<1>3. CASE PutFails /\ Goto(w, "dropJIT")
  BY <1>1, <1>3, CallFollow, ProvisioningArrives DEF Plain
<1>4. CASE /\ PutJIT(j, id)
           /\ worker' = [worker EXCEPT ![w].pc = "demand", ![w].rec.runner = id]
  <2>1. Follows(records[j], s)
    BY <1>2, MarkJITCreatedFollows
  <2>2. records' = [records EXCEPT ![j] = s]
    BY <1>4 DEF PutJIT
  <2> HIDE DEF s
  <2>3. RecordsFollow
    BY <1>2, <2>1, <2>2, EditFollow
  <2>4. worker \in [Workers -> Task] /\ worker[w] \in Task
    BY DEF IInv, TypeOK, WorkerTypeOK
  <2>5. PICK t : t = worker'[w]
    OBVIOUS
  <2>6. t.pc = "demand"
    BY <1>4, <2>4, <2>5 DEF Task
  <2>7. worker' = [worker EXCEPT ![w] = t]
    BY <1>4, <2>4, <2>5
  <2> QED
    BY <2>3, <2>6, <2>7, TaskAsks DEF Plain
<1> QED
  BY <1>3, <1>4 DEF PersistJIT

LEMMA PersistVMPlain ==
  ASSUME IInv, NEW w \in Workers, PersistVM(w)
  PROVE  Plain
<1> DEFINE j == worker[w].job
           i == worker[w].inst
           id == worker[w].rec.runner
           s == MarkProvisioned(records[j], i, id)
<1>1. Working(w) /\ At(w, "persistVM")
  BY DEF PersistVM, At, Working
<1>2. j \in Jobs /\ Sound(records[j])
  BY <1>1, WorkingFacts
<1>3. i \in Instances /\ id \in Runners \cup {NoRunner}
  BY <1>1, WorkingFacts DEF IInv, HoldsInstance, Record
<1>4. CASE PutInstance(j, i, id) /\ worker' = [worker EXCEPT ![w] = HalfDone(w)]
  <2>1. Follows(records[j], s)
    BY <1>2, <1>3, MarkProvisionedFollows
  <2>2. records' = [records EXCEPT ![j] = s]
    BY <1>4 DEF PutInstance, Put
  <2>3. NobodyArrives
    BY <1>2, <1>3, <1>4, HalfDoneRests, RestingAsks
  <2> HIDE DEF s
  <2> QED
    BY <1>2, <2>1, <2>2, <2>3, EditFollow DEF Plain
<1>5. CASE PutFails /\ Goto(w, ProvisionFailed(w, "other"))
  BY <1>5, CallFollow, ProvisionFailedArrives DEF Plain
<1> QED
  BY <1>4, <1>5 DEF PersistVM

LEMMA IndexVMPlain ==
  ASSUME IInv, NEW w \in Workers, IndexVM(w)
  PROVE  Plain
<1>1. UNCHANGED records
  BY DEF IndexVM, IndexInstance
<1> QED
  BY <1>1, SameFollow, FinishAsks DEF IndexVM, Plain

LEMMA ProvisionStepPlain ==
  ASSUME IInv, NEW w \in Workers, ProvisionStep(w)
  PROVE  Plain
  BY FindPlain, DemandPlain, RetirePlain, GeneratePlain, PersistJITPlain, CreatePlain,
     PersistVMPlain, IndexVMPlain DEF ProvisionStep

-----------------------------------------------------------------------------
(* Deletion.  Only here may a worker come to store an acceptance.            *)

LEMMA DeleteInstanceKeepsOnce ==
  ASSUME IInv, AInv, NEW w \in Workers, DeleteInstance(w)
  PROVE  AInv'
<1>1. RecordsFollow
  BY CallFollow DEF DeleteInstance, CallsProvider
<1>2. NobodyArrives
  <2>1. CASE Goto(w, IF ConfirmsAbsence THEN "accept" ELSE "cleanup")
    BY <2>1, GotoAsks
  <2>2. CASE \E e : Goto(w, DeleteFailed(w, e))
    BY <2>2, DeleteFailedArrives
  <2> QED
    BY <2>1, <2>2 DEF DeleteInstance
<1> QED
  BY <1>1, <1>2, PlainStep DEF Plain

\* The acceptance of an instance touches no worker that is about to ask: that
\* one has claimed another record.
LEMMA AcceptDeletionKeepsOnce ==
  ASSUME IInv, AInv, NEW w \in Workers, AcceptDeletion(w)
  PROVE  AInv'
<1> DEFINE j == worker[w].job
           i == worker[w].rec.instance
           s == MarkDeletionAccepted(records[j], i)
<1>1. At(w, "accept") /\ Working(w)
  BY DEF AcceptDeletion, At, Working
<1>2. CASE Put(j, s) /\ Goto(w, "confirm")
  <2>1. records \in [Jobs -> Record] /\ worker \in [Workers -> Task]
    BY DEF IInv, TypeOK, StoreTypeOK, WorkerTypeOK
  <2>2. \A k \in Jobs : k # j => records'[k] = records[k]
    BY <1>2, <2>1 DEF Put
  <2>3. worker'[w].pc = "confirm" /\ \A v \in Workers : v # w => worker'[v] = worker[v]
    BY <1>2, <2>1 DEF Goto, Task
  <2>4. ConfirmsAbsence
    BY <1>1 DEF AInv, OnlyConfirmedAccepted
  <2>5. ASSUME NEW v \in Workers, At(v, "vmDelete")'
        PROVE  /\ worker'[v].rec.instance # NoInstance
               /\ records'[worker'[v].job].accepted # worker'[v].rec.instance
    <3>1. v # w
      BY <2>3, <2>5 DEF At
    <3>2. worker'[v] = worker[v] /\ At(v, "vmDelete") /\ Working(v)
      BY <2>3, <2>5, <3>1 DEF At, Working
    <3>3. worker[v].job \in Jobs /\ worker[v].job # j
      BY <1>1, <3>1, <3>2 DEF IInv, ClaimsExclusive
    <3> QED
      BY <2>2, <3>2, <3>3 DEF AInv, AsksOnce
  <2> QED
    BY <2>4, <2>5 DEF AInv, AsksOnce, OnlyConfirmedAccepted
<1>3. CASE (UNCHANGED storeVars \/ PutFails) /\ \E e : Goto(w, DeleteFailed(w, e))
  BY <1>3, CallFollow, DeleteFailedArrives, PlainStep DEF Plain
<1> QED
  BY <1>2, <1>3 DEF AcceptDeletion

LEMMA AbsencePlain ==
  ASSUME IInv, NEW w \in Workers, ConfirmAbsence(w) \/ AwaitAbsence(w)
  PROVE  Plain
<1> DEFINE r == records[worker[w].job]
<1>1. CASE ConfirmAbsence(w)
  <2>1. \E pc : Goto(w, pc) /\ pc # "vmDelete" /\ pc # "accept"
    BY <1>1 DEF ConfirmAbsence
  <2> QED
    BY <1>1, <2>1, CallFollow, GotoAsks DEF ConfirmAbsence, Local, Plain
<1>2. CASE AwaitAbsence(w)
  <2>1. worker[w].job \in Jobs /\ Sound(r)
    BY <1>2, WorkingFacts DEF AwaitAbsence, At, Working
  <2>2. RecordsFollow
    BY <1>2, <2>1, DeferDeletionConfirmationFollows, PutFollow, CallFollow DEF AwaitAbsence
  <2>3. NobodyArrives
    BY <1>2, FinishAsks, GotoAsks DEF AwaitAbsence
  <2> QED
    BY <2>2, <2>3 DEF Plain
<1> QED
  BY <1>1, <1>2

LEMMA CleanupRestPlain ==
  ASSUME IInv, NEW w \in Workers, CleanupRest(w)
  PROVE  Plain
<1>1. RecordsFollow
  BY CallFollow DEF CleanupRest, CallsProvider
<1>2. CASE \E pc \in {"recheck", "deregister"} : Goto(w, pc)
  BY <1>1, <1>2, GotoAsks DEF Plain
<1>3. CASE \E e : Goto(w, DeleteFailed(w, e))
  BY <1>1, <1>3, DeleteFailedArrives DEF Plain
<1> QED
  BY <1>2, <1>3 DEF CleanupRest

LEMMA RecheckPlain ==
  ASSUME IInv, NEW w \in Workers, Recheck(w) \/ AskOriginal(w)
  PROVE  Plain
<1>1. RecordsFollow
  BY CallFollow DEF Recheck, AskOriginal, Local
<1>2. CASE \E pc : Goto(w, pc) /\ pc # "vmDelete" /\ pc # "accept"
  BY <1>1, <1>2, GotoAsks DEF Plain
<1>3. CASE \E q : worker' = [worker EXCEPT ![w].pc = "finish", ![w].queued = q]
  <2>1. worker \in [Workers -> Task] /\ worker[w] \in Task
    BY DEF IInv, TypeOK, WorkerTypeOK
  <2>2. PICK t : t = worker'[w]
    OBVIOUS
  <2>3. t.pc = "finish"
    BY <1>3, <2>1, <2>2 DEF Task
  <2>4. worker' = [worker EXCEPT ![w] = t]
    BY <1>3, <2>1, <2>2
  <2> QED
    BY <1>1, <2>3, <2>4, TaskAsks DEF Plain
<1>4. CASE Recheck(w)
  BY <1>2, <1>4 DEF Recheck
<1>5. CASE AskOriginal(w)
  BY <1>2, <1>3, <1>5 DEF AskOriginal
<1> QED
  BY <1>4, <1>5

LEMMA FinishPlain ==
  ASSUME IInv, NEW w \in Workers, FinishDeletion(w) \/ FinishFailed(w)
  PROVE  Plain
<1> DEFINE r == records[worker[w].job]
           s == FinishDeletedRunner(r, worker[w].queued)
<1>1. worker[w].job \in Jobs /\ Sound(r) /\ worker[w].queued \in BOOLEAN
  BY WorkingFacts DEF FinishDeletion, FinishFailed, At, Working, Task
<1>2. Follows(r, s) /\ Follows(r, MarkDeleteFailed(r))
  BY <1>1, FinishDeletedRunnerFollows, MarkDeleteFailedFollows
<1>3. RecordsFollow
  BY <1>1, <1>2, PutFollow, CallFollow DEF FinishDeletion, FinishFailed
<1>4. NobodyArrives
  BY FinishAsks, GotoAsks DEF FinishDeletion, FinishFailed
<1> QED
  BY <1>3, <1>4 DEF Plain

LEMMA DeleteStepKeepsOnce ==
  ASSUME IInv, AInv, NEW w \in Workers, DeleteStep(w)
  PROVE  AInv'
  BY DeleteInstanceKeepsOnce, AcceptDeletionKeepsOnce, AbsencePlain, CleanupRestPlain,
     RecheckPlain, FinishPlain, PlainStep DEF DeleteStep

-----------------------------------------------------------------------------
(* Claiming: the one step that sends a worker to ask for a deletion.  The    *)
(* copy it decides on is the record as it is.                                *)

LEMMA FirstStepOnce ==
  ASSUME NEW r, Sound(r), Claimable(r),
         ConfirmsAbsence \/ r.accepted = NoInstance
  PROVE  LET c == Claimed(r)
         IN  /\ c.accepted \in {r.accepted, NoInstance}
             /\ FirstStep(c) # "accept"
             /\ FirstStep(c) = "vmDelete" =>
                  c.instance # NoInstance /\ c.accepted # c.instance
<1>1. FirstStep(Claimed(r)) # "accept"
  BY DEF FirstStep
<1>2. CASE r.status = "pending"
  <2>1. WantsProvision(r) /\ Claimed(r) = ClaimProvision(r)
    BY <1>2 DEF Claimable, WantsDelete, Claimed
  <2>2. FirstStep(Claimed(r)) = "find"
    BY <2>1, ClaimProvisionFollows DEF FirstStep
  <2> QED
    BY <1>1, <2>1, <2>2, ClaimProvisionFollows DEF Follows
<1>3. CASE r.status # "pending"
  <2>1. WantsDelete(r) /\ Claimed(r) = ClaimDelete(r)
    BY <1>3 DEF Claimable, WantsProvision, Claimed
  <2>2. /\ Claimed(r).instance = r.instance /\ Claimed(r).accepted = r.accepted
        /\ r.instance # NoInstance
    BY <2>1 DEF ClaimDelete, WantsDelete, Sound, Record
  <2>3. FirstStep(Claimed(r)) = "vmDelete" => Claimed(r).accepted # Claimed(r).instance
    BY <2>2 DEF FirstStep
  <2> QED
    BY <1>1, <2>2, <2>3
<1> QED
  BY <1>2, <1>3

LEMMA ClaimKeepsOnce ==
  ASSUME IInv, AInv, NEW w \in Workers, Claim(w)
  PROVE  AInv'
<1>1. PICK j \in Jobs :
        /\ ClaimFirst(j)
        /\ worker' = [worker EXCEPT ![w] =
             [Idle EXCEPT !.pc = FirstStep(Claimed(records[j])),
                          !.job = j, !.rec = Claimed(records[j])]]
  BY DEF Claim
<1> DEFINE r == records[j]
           c == Claimed(r)
           t == [Idle EXCEPT !.pc = FirstStep(c), !.job = j, !.rec = c]
<1>2. /\ Sound(r) /\ Claimable(r)
      /\ ConfirmsAbsence \/ r.accepted = NoInstance
  BY <1>1 DEF ClaimFirst, IInv, RecordsSound, AInv, OnlyConfirmedAccepted
<1>3. /\ c.accepted \in {r.accepted, NoInstance}
      /\ FirstStep(c) # "accept"
      /\ FirstStep(c) = "vmDelete" => c.instance # NoInstance /\ c.accepted # c.instance
  BY <1>2, FirstStepOnce
<1>4. t.pc = FirstStep(c) /\ t.job = j /\ t.rec = c
  BY DEF Idle
<1>5. worker' = [worker EXCEPT ![w] = t]
  BY <1>1
<1>6. records'[j] = c
  BY <1>1 DEF ClaimFirst
<1>7. \A k \in Jobs : k # j => records'[k].accepted \in {records[k].accepted, NoInstance}
  BY <1>1, BackstopRespects DEF ClaimFirst, IInv, RecordsSound, Respects, Follows
<1> HIDE DEF t, c
<1>8. RecordsFollow
  BY <1>3, <1>6, <1>7 DEF RecordsFollow
<1>9. worker'[w] = t /\ \A v \in Workers : v # w => worker'[v] = worker[v]
  BY <1>5 DEF IInv, TypeOK, WorkerTypeOK
<1>10. OnlyConfirmedAccepted'
  BY <1>3, <1>4, <1>8, <1>9 DEF AInv, OnlyConfirmedAccepted, RecordsFollow, At
<1>11. ASSUME NEW v \in Workers, At(v, "vmDelete")'
       PROVE  /\ worker'[v].rec.instance # NoInstance
              /\ records'[worker'[v].job].accepted # worker'[v].rec.instance
  <2>1. CASE v = w
    BY <1>3, <1>4, <1>6, <1>9, <1>11, <2>1 DEF At
  <2>2. CASE v # w
    <3>1. worker'[v] = worker[v] /\ At(v, "vmDelete")
      BY <1>9, <1>11, <2>2 DEF At
    <3>2. worker[v].job \in Jobs
      BY <3>1, WorkingFacts DEF At, Working
    <3> QED
      BY <1>8, <3>1, <3>2 DEF AInv, AsksOnce, RecordsFollow
  <2> QED
    BY <2>1, <2>2
<1> QED
  BY <1>10, <1>11 DEF AInv, AsksOnce

LEMMA ScanPlain ==
  ASSUME IInv, NEW w \in Workers, Scan(w)
  PROVE  Plain
<1>1. \A k \in Jobs : records'[k] \in {records[k], Backstop(records[k])}
  BY DEF Scan, ScanWithoutClaim, ScanStops
<1>2. \A k \in Jobs : Follows(records[k], Backstop(records[k]))
  BY BackstopRespects DEF IInv, RecordsSound, Respects
<1>3. RecordsFollow
  BY <1>1, <1>2 DEF RecordsFollow, Follows
<1> QED
  BY <1>3, StayAsks DEF Scan, Plain

LEMMA WorkerStepKeepsOnce ==
  ASSUME IInv, AInv, NEW w \in Workers, WorkerStep(w)
  PROVE  AInv'
  BY ClaimKeepsOnce, ScanPlain, DeregisterPlain, ClearPlain, EndWorkPlain,
     ProvisionStepPlain, DeleteStepKeepsOnce, PlainStep DEF WorkerStep

-----------------------------------------------------------------------------
(* Webhooks, the world outside, the reaper and restarts.                     *)

LEMMA OutsidePlain ==
  ASSUME IInv, Outside
  PROVE  Plain
<1>1. UNCHANGED worker
  BY DEF Outside, QueuedWebhook, CompletedWebhook, RunnerTakesJob,
     ForeignRunnerTakesJob, JobEnds, RetryTimePasses, InstanceMoves
<1>2. ASSUME NEW j \in Jobs, QueuedWebhook(j) PROVE RecordsFollow
  <2>1. Put(j, NewDemand) /\ NewDemand.accepted = NoInstance
    BY <1>2 DEF QueuedWebhook, CreateRecord, NewDemand, Absent
  <2> QED
    BY <2>1, NewDemandSound, PutFollow DEF Follows
<1>3. ASSUME NEW j \in Jobs, CompletedWebhook(j) PROVE RecordsFollow
  <2> DEFINE id == ranOn[j]
             matched == MatchedKey(id)
  <2>1. \A k \in Jobs :
          records'[k] = IF k = matched THEN MatchedCompletion(records[k], k = j)
                        ELSE IF k = j THEN EventCompletion(records[k], id)
                        ELSE records[k]
    BY <1>3 DEF CompletedWebhook, RecordCompletion
  <2> HIDE DEF matched
  <2>2. ASSUME NEW k \in Jobs
        PROVE  records'[k].accepted \in {records[k].accepted, NoInstance}
    <3>1. Sound(records[k]) /\ (k = j) \in BOOLEAN
      BY DEF IInv, RecordsSound
    <3>2. Follows(records[k], MatchedCompletion(records[k], k = j))
      BY <3>1, MatchedCompletionRespects DEF Respects
    <3>3. Follows(records[k], EventCompletion(records[k], id))
      BY <3>1, EventCompletionRespects DEF Respects
    <3>4. CASE k = matched
      <4>1. records'[k] = MatchedCompletion(records[k], k = j)
        BY <2>1, <3>4, Zenon
      <4> QED
        BY <3>2, <4>1 DEF Follows
    <3>5. CASE k # matched
      <4>1. records'[k] \in {EventCompletion(records[k], id), records[k]}
        BY <2>1, <3>5, Zenon
      <4> QED
        BY <3>3, <4>1 DEF Follows
    <3> QED
      BY <3>4, <3>5
  <2> QED
    BY <2>2 DEF RecordsFollow
<1>4. ASSUME NEW j \in Jobs, RetryTimePasses(j) PROVE RecordsFollow
  <2>1. Follows(records[j], [records[j] EXCEPT !.due = TRUE])
    BY BecomeDueRespects DEF IInv, RecordsSound, Respects
  <2> QED
    BY <1>4, <2>1, PutFollow DEF RetryTimePasses, BecomeDue
<1>5. ASSUME NEW j \in Jobs, RunnerTakesJob(j) \/ ForeignRunnerTakesJob(j) \/ JobEnds(j)
      PROVE  RecordsFollow
  BY <1>5, CallFollow DEF RunnerTakesJob, ForeignRunnerTakesJob, JobEnds
<1>6. ASSUME NEW i \in Instances, InstanceMoves(i) PROVE RecordsFollow
  BY <1>6, CallFollow DEF InstanceMoves
<1>7. RecordsFollow
  BY <1>2, <1>3, <1>4, <1>5, <1>6 DEF Outside
<1> QED
  BY <1>1, <1>7, StayAsks DEF Plain

LEMMA ReaperStorePlain ==
  ASSUME IInv, reaper.pc # "idle", UNCHANGED worker,
         PutFails \/ \E r : Put(reaper.job, r) /\ Respects(records[reaper.job], r)
  PROVE  Plain
<1>1. reaper.job \in Jobs
  BY DEF IInv, ReaperHasJob
<1> QED
  BY <1>1, CallFollow, PutFollow, StayAsks DEF Plain, Respects

LEMMA ReaperPlain ==
  ASSUME IInv, ReaperStep, UNCHANGED worker
  PROVE  Plain
<1>1. CASE UNCHANGED storeVars
  BY <1>1, CallFollow, StayAsks DEF Plain
<1>2. CASE ListExpired \/ (\E j \in Jobs : ExpireRunner(j)) \/ ReapDeregister \/ ReapVMs
  BY <1>1, <1>2 DEF ListExpired, ExpireRunner, ReapDeregister, ReapVMs
<1>3. ASSUME reaper.pc # "idle" PROVE Sound(records[reaper.job])
  BY <1>3 DEF IInv, ReaperHasJob, RecordsSound
<1>4. CASE BeginCleanup
  BY <1>3, <1>4, BeginCleanupRespects, ReaperStorePlain DEF BeginCleanup
<1>5. CASE ReapClear
  BY <1>3, <1>5, ClearJITRespects, ReaperStorePlain DEF ReapClear
<1>6. CASE EndReap
  BY <1>6, ReapWriteRespects, ReaperStorePlain DEF EndReap, ReapWritePcs
<1>7. CASE \E id \in Runners : ReapMarker(id)
  BY <1>7, SameFollow, StayAsks DEF ReapMarker, Plain
<1> QED
  BY <1>2, <1>4, <1>5, <1>6, <1>7 DEF ReaperStep

LEMMA RetentionPlain ==
  ASSUME IInv, NEW j \in Jobs, RetentionPasses(j)
  PROVE  Plain
<1>1. Put(j, Absent) /\ Absent.accepted = NoInstance /\ UNCHANGED worker
  BY DEF RetentionPasses, PruneDeleted, Absent
<1> QED
  BY <1>1, AbsentSound, PutFollow, StayAsks DEF Plain, Follows

LEMMA RestartPlain ==
  ASSUME IInv, Restart
  PROVE  Plain
<1>1. RecordsFollow
  BY RecoverRecordFollows DEF Restart, Reopen, RecoveredRecords, IInv, RecordsSound,
     RecordsFollow, Follows
<1>2. \A w \in Workers : ~At(w, "vmDelete")' /\ ~At(w, "accept")'
  BY DEF Restart, At, Idle
<1> QED
  BY <1>1, <1>2 DEF Plain, NobodyArrives

-----------------------------------------------------------------------------
(* The theorem.                                                              *)

LEMMA OnceKept == IInv /\ AInv /\ [Next]_vars => AInv'
<1> SUFFICES ASSUME IInv, AInv, [Next]_vars PROVE AInv'
  OBVIOUS
<1>1. CASE Outside
  BY <1>1, OutsidePlain, PlainStep
<1>2. CASE WorkersMove
  BY <1>2, WorkerStepKeepsOnce DEF WorkersMove
<1>3. CASE ReaperMoves
  BY <1>3, ReaperPlain, RetentionPlain, PlainStep DEF ReaperMoves
<1>4. CASE Restart
  BY <1>4, RestartPlain, PlainStep
<1>5. CASE UNCHANGED vars
  BY <1>5, CallFollow, StayAsks, PlainStep DEF vars, Plain
<1> QED
  BY <1>1, <1>2, <1>3, <1>4, <1>5 DEF Next

\* Across workers, deferrals, failed writes and restarts, a worker that asks the
\* provider to delete an instance does so only while no acceptance of that
\* deletion is stored (Handler.delete skips DeleteRunner otherwise).
THEOREM DeletionIsNotRepeated == Spec => NoSecondDelete
<1> DEFINE Asks == \A w \in Workers : At(w, "vmDelete") /\ ~At(w, "vmDelete")' =>
                     records[worker[w].job].accepted # worker[w].rec.instance
<1>1. AInv => Asks
  BY DEF AInv, AsksOnce
<1>2. Spec => []AInv
  BY AcceptedInitially, OnceKept, Invariance, PTL DEF Spec
<1> QED
  BY <1>1, <1>2, PTL DEF NoSecondDelete
=============================================================================
