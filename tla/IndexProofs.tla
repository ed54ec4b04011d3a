---------------------------- MODULE IndexProofs ----------------------------
(* The index from runner ids to job keys (runnerKeys in the store) is        *)
(* complete in every reachable state but for the runners MarkProvisioned is  *)
(* about to enter, for all values of the constants.  It rests on the fact    *)
(* that no two records ever hold the same runner.                            *)
EXTENDS ControllerProofs

-----------------------------------------------------------------------------
(* What a mutator may do to the identity in a record: keep or forget it, and *)
(* a deleted record that comes back has forgotten it.                        *)

Fades(r, s) ==
  /\ s.runner \in {r.runner, NoRunner}
  /\ s.status = "absent" => r.status = "absent" \/ s.runner = NoRunner
  /\ r.status = "deleted" => s.status = "deleted" \/ s.runner = NoRunner

LEMMA FadesItself == \A r : Fades(r, r)
  BY DEF Fades

LEMMA FadesOn ==
  ASSUME NEW r, NEW s, NEW t, Fades(r, s), Fades(s, t)
  PROVE  Fades(r, t)
  BY DEF Fades

\* A mutator that keeps the identity and neither revives nor removes a record.
LEMMA KeepsIdentity ==
  ASSUME NEW r, NEW s, s.runner = r.runner,
         s.status = r.status \/ (r.status # "deleted" /\ s.status # "absent")
  PROVE  Fades(r, s)
  BY DEF Fades

LEMMA AbsentFades == \A r : Fades(r, Absent)
  BY DEF Fades, Absent, NoRunner

LEMMA NewDemandFades == \A r : Fades(r, NewDemand)
  BY DEF Fades, NewDemand, Absent, NoRunner

LEMMA DueFades ==
  ASSUME NEW r \in Record
  PROVE  Fades(r, [r EXCEPT !.due = TRUE])
<1> SUFFICES ASSUME NEW s, s = [r EXCEPT !.due = TRUE] PROVE Fades(r, s)
  OBVIOUS
<1>1. s.runner = r.runner /\ s.status = r.status
  BY DEF Record
<1> QED
  BY <1>1, KeepsIdentity

LEMMA BackstopFades ==
  ASSUME NEW r \in Record
  PROVE  Fades(r, Backstop(r))
<1> SUFFICES ASSUME NEW s, s = Backstop(r) PROVE Fades(r, s)
  OBVIOUS
<1>1. /\ s.runner = r.runner
      /\ s.status = r.status \/ (r.status # "deleted" /\ s.status # "absent")
  BY DEF Backstop, Record
<1> QED
  BY <1>1, KeepsIdentity

LEMMA ClaimedFades ==
  ASSUME NEW r \in Record, Claimable(r)
  PROVE  Fades(r, Claimed(r))
<1> SUFFICES ASSUME NEW s, s = Claimed(r) PROVE Fades(r, s)
  OBVIOUS
<1>1. r.status \in {"pending", "completed"}
  BY DEF Claimable, WantsProvision, WantsDelete
<1>2. s.runner = r.runner /\ s.status # "absent"
  BY DEF Claimed, ClaimProvision, ClaimDelete, Record
<1> QED
  BY <1>1, <1>2, KeepsIdentity

LEMMA ClearJITFades ==
  ASSUME NEW r \in Record
  PROVE  Fades(r, ClearJIT(r))
<1> SUFFICES ASSUME NEW s, s = ClearJIT(r) PROVE Fades(r, s)
  OBVIOUS
<1>1. s = r \/ s.runner = NoRunner
  BY DEF ClearJIT, Record
<1> QED
  BY <1>1, FadesItself DEF Fades
LEMMA MarkDeletionAcceptedFades ==
  ASSUME NEW r \in Record, NEW i
  PROVE  Fades(r, MarkDeletionAccepted(r, i))
<1> SUFFICES ASSUME NEW s, s = MarkDeletionAccepted(r, i) PROVE Fades(r, s)
  OBVIOUS
<1>1. /\ s.runner = r.runner
      /\ s.status = r.status \/ (r.status # "deleted" /\ s.status # "absent")
  BY DEF MarkDeletionAccepted, Record
<1> QED
  BY <1>1, KeepsIdentity

LEMMA ScheduleDeletionFades ==
  ASSUME NEW r \in Record
  PROVE  Fades(r, ScheduleDeletion(r))
<1> SUFFICES ASSUME NEW s, s = ScheduleDeletion(r) PROVE Fades(r, s)
  OBVIOUS
<1>1. /\ s.runner = r.runner
      /\ s.status = r.status \/ (r.status # "deleted" /\ s.status # "absent")
  BY DEF ScheduleDeletion, Settled, Record
<1> QED
  BY <1>1, KeepsIdentity

LEMMA MarkCompletedFades ==
  ASSUME NEW r \in Record
  PROVE  Fades(r, MarkCompleted(r))
<1> SUFFICES ASSUME NEW s, s = MarkCompleted(r) PROVE Fades(r, s)
  OBVIOUS
<1>1. /\ s.runner = r.runner
      /\ s.status = r.status \/ (r.status # "deleted" /\ s.status # "absent")
  BY DEF MarkCompleted, Settled, Record
<1> QED
  BY <1>1, KeepsIdentity

LEMMA MarkOrphanedFades ==
  ASSUME NEW r \in Record
  PROVE  Fades(r, MarkOrphaned(r))
<1> SUFFICES ASSUME NEW s, s = MarkOrphaned(r) PROVE Fades(r, s)
  OBVIOUS
<1>1. /\ s.runner = r.runner
      /\ s.status = r.status \/ (r.status # "deleted" /\ s.status # "absent")
  BY DEF MarkOrphaned, Record
<1> QED
  BY <1>1, KeepsIdentity

LEMMA MarkDeletedFades ==
  ASSUME NEW r \in Record
  PROVE  Fades(r, MarkDeleted(r))
<1> SUFFICES ASSUME NEW s, s = MarkDeleted(r) PROVE Fades(r, s)
  OBVIOUS
<1>1. s.runner = r.runner /\ s.status = "deleted"
  BY DEF MarkDeleted, Record
<1> QED
  BY <1>1 DEF Fades

LEMMA BeginCleanupFades ==
  ASSUME NEW r \in Record
  PROVE  Fades(r, BeginCleanupAttempt(r))
<1> SUFFICES ASSUME NEW s, s = BeginCleanupAttempt(r) PROVE Fades(r, s)
  OBVIOUS
<1>1. /\ s.runner = r.runner
      /\ s.status = r.status \/ (r.status # "deleted" /\ s.status # "absent")
  BY DEF BeginCleanupAttempt, CleanupReady, Settled, Record
<1> QED
  BY <1>1, KeepsIdentity

LEMMA RefundFades ==
  ASSUME NEW r \in Record, NEW kind
  PROVE  Fades(r, Refund(r, kind))
<1> SUFFICES ASSUME NEW s, s = Refund(r, kind) PROVE Fades(r, s)
  OBVIOUS
<1>1. /\ s.runner = r.runner
      /\ s.status = r.status \/ (r.status # "deleted" /\ s.status # "absent")
  BY DEF Refund, Record
<1> QED
  BY <1>1, KeepsIdentity

LEMMA DeferDeletionConfirmationFades ==
  ASSUME NEW r \in Record
  PROVE  Fades(r, DeferDeletionConfirmation(r))
<1> SUFFICES ASSUME NEW s, s = DeferDeletionConfirmation(r) PROVE Fades(r, s)
  OBVIOUS
<1>1. /\ s.runner = r.runner
      /\ s.status = r.status \/ (r.status # "deleted" /\ s.status # "absent")
  BY DEF DeferDeletionConfirmation, Refund, Record
<1> QED
  BY <1>1, KeepsIdentity

LEMMA DeferReassignmentDemandFades ==
  ASSUME NEW r \in Record
  PROVE  Fades(r, DeferReassignmentDemand(r))
<1> SUFFICES ASSUME NEW s, s = DeferReassignmentDemand(r) PROVE Fades(r, s)
  OBVIOUS
<1>1. /\ s.runner = r.runner
      /\ s.status = r.status \/ (r.status # "deleted" /\ s.status # "absent")
  BY DEF DeferReassignmentDemand, Refund, Record
<1> QED
  BY <1>1, KeepsIdentity

LEMMA ReleaseClaimFades ==
  ASSUME NEW r \in Record, NEW kind
  PROVE  Fades(r, ReleaseClaim(r, kind))
<1> SUFFICES ASSUME NEW s, s = ReleaseClaim(r, kind) PROVE Fades(r, s)
  OBVIOUS
<1>1. /\ s.runner = r.runner
      /\ s.status = r.status \/ (r.status # "deleted" /\ s.status # "absent")
  BY DEF ReleaseClaim, Refund, Settled, Record
<1> QED
  BY <1>1, KeepsIdentity

LEMMA RecoverRecordFades ==
  ASSUME NEW r \in Record
  PROVE  Fades(r, RecoverRecord(r))
<1> SUFFICES ASSUME NEW s, s = RecoverRecord(r) PROVE Fades(r, s)
  OBVIOUS
<1>1. /\ s.runner = r.runner
      /\ s.status = r.status \/ (r.status # "deleted" /\ s.status # "absent")
  BY DEF RecoverRecord, Refund, Record
<1> QED
  BY <1>1, KeepsIdentity

LEMMA MarkDeleteFailedFades ==
  ASSUME NEW r \in Record
  PROVE  Fades(r, MarkDeleteFailed(r))
<1> SUFFICES ASSUME NEW s, s = MarkDeleteFailed(r) PROVE Fades(r, s)
  OBVIOUS
<1>1. /\ s.runner = r.runner
      /\ s.status = r.status \/ (r.status # "deleted" /\ s.status # "absent")
  BY DEF MarkDeleteFailed, Settled, Record
<1> QED
  BY <1>1, KeepsIdentity

LEMMA MarkProvisionFailedFades ==
  ASSUME NEW r \in Record
  PROVE  Fades(r, MarkProvisionFailed(r))
<1> SUFFICES ASSUME NEW s, s = MarkProvisionFailed(r) PROVE Fades(r, s)
  OBVIOUS
<1>1. /\ s.runner = r.runner
      /\ s.status = r.status \/ (r.status # "deleted" /\ s.status # "absent")
  BY DEF MarkProvisionFailed, Settled, Record
<1> QED
  BY <1>1, KeepsIdentity

LEMMA DeferCleanupFades ==
  ASSUME NEW r \in Record, NEW count \in BOOLEAN
  PROVE  Fades(r, DeferRateLimitedCleanup(r, count))
<1> SUFFICES ASSUME NEW s, s = DeferRateLimitedCleanup(r, count) PROVE Fades(r, s)
  OBVIOUS
<1>1. /\ s.runner = r.runner
      /\ s.status = r.status \/ (r.status # "deleted" /\ s.status # "absent")
  BY DEF DeferRateLimitedCleanup, Settled, Record
<1> QED
  BY <1>1, KeepsIdentity

LEMMA DeferReconciliationFades ==
  ASSUME NEW r \in Record, NEW failure \in BOOLEAN, NEW throttle \in BOOLEAN
  PROVE  Fades(r, DeferReconciliation(r, failure, throttle))
<1> SUFFICES ASSUME NEW s, s = DeferReconciliation(r, failure, throttle) PROVE Fades(r, s)
  OBVIOUS
<1>1. /\ s.runner = r.runner
      /\ s.status = r.status \/ (r.status # "deleted" /\ s.status # "absent")
  BY DEF DeferReconciliation, Settled, Record
<1> QED
  BY <1>1, KeepsIdentity

LEMMA DeferRateLimitedWorkFades ==
  ASSUME NEW r \in Record, NEW kind
  PROVE  Fades(r, DeferRateLimitedWork(r, kind))
<1> SUFFICES ASSUME NEW s, s = DeferRateLimitedWork(r, kind) PROVE Fades(r, s)
  OBVIOUS
<1>1. /\ s.runner = r.runner
      /\ s.status = r.status \/ (r.status # "deleted" /\ s.status # "absent")
  BY DEF DeferRateLimitedWork, Refund, Settled, Record
<1> QED
  BY <1>1, KeepsIdentity

LEMMA DeferProvisioningDemandFades ==
  ASSUME NEW r \in Record
  PROVE  Fades(r, DeferProvisioningDemand(r))
<1> SUFFICES ASSUME NEW s, s = DeferProvisioningDemand(r) PROVE Fades(r, s)
  OBVIOUS
<1>1. /\ s.runner = r.runner
      /\ s.status = r.status \/ (r.status # "deleted" /\ s.status # "absent")
  BY DEF DeferProvisioningDemand, Refund, Settled, Record
<1> QED
  BY <1>1, KeepsIdentity

LEMMA FinishDeletedRunnerFades ==
  ASSUME NEW r \in Record, NEW queued
  PROVE  Fades(r, FinishDeletedRunner(r, queued))
<1> SUFFICES ASSUME NEW s, s = FinishDeletedRunner(r, queued) PROVE Fades(r, s)
  OBVIOUS
<1>1. CASE Settled(r)
  BY <1>1, FadesItself DEF FinishDeletedRunner
<1>2. CASE ~Settled(r) /\ RestoresDemand(r, queued)
  <2>1. s.runner = NoRunner /\ s.status = "pending"
    BY <1>2 DEF FinishDeletedRunner, Record
  <2> QED
    BY <2>1 DEF Fades
<1>3. CASE ~Settled(r) /\ ~RestoresDemand(r, queued)
  <2>1. s.runner = r.runner /\ s.status = "deleted"
    BY <1>3 DEF FinishDeletedRunner, MarkDeleted, Record
  <2> QED
    BY <2>1 DEF Fades
<1> QED
  BY <1>1, <1>2, <1>3

LEMMA MatchedCompletionFades ==
  ASSUME NEW r \in Record, NEW own \in BOOLEAN, r.status # "deleted"
  PROVE  Fades(r, MatchedCompletion(r, own))
<1> DEFINE done == r.jobCompleted \/ own
           other == ~own /\ ~r.jobCompleted
           told == [r EXCEPT !.jobCompleted = done, !.recheck = other, !.defer = FALSE]
           over == [told EXCEPT !.status = "completed", !.due = TRUE]
<1>1. MatchedCompletion(r, own) = IF r.claim = "delete" THEN told ELSE over
  BY DEF MatchedCompletion
<1> HIDE DEF done, other
<1>2. told.runner = r.runner /\ told.status = r.status
  BY DEF Record
<1>3. over.runner = r.runner /\ over.status = "completed"
  BY DEF Record
<1> HIDE DEF told, over
<1> QED
  BY <1>1, <1>2, <1>3, KeepsIdentity

LEMMA EventCompletionFades ==
  ASSUME NEW r \in Record, NEW id
  PROVE  Fades(r, EventCompletion(r, id))
<1> SUFFICES ASSUME NEW s, s = EventCompletion(r, id) PROVE Fades(r, s)
  OBVIOUS
<1>1. CASE r.status = "absent"
  <2>1. s.runner = NoRunner /\ s.status = "completed"
    BY <1>1 DEF EventCompletion, Absent
  <2> QED
    BY <1>1, <2>1 DEF Fades
<1>2. CASE r.status # "absent"
  <2>1. /\ s.runner = r.runner
        /\ s.status = r.status \/ (r.status # "deleted" /\ s.status # "absent")
    BY <1>2 DEF EventCompletion, Settled, Record
  <2> QED
    BY <2>1, KeepsIdentity
<1> QED
  BY <1>1, <1>2

-----------------------------------------------------------------------------
(* Who holds a runner id: a record, or a worker on its way to store it.      *)

Held(j, id) ==
  \/ records[j].runner = id
  \/ \E w \in Workers : /\ worker[w].job = j
                        /\ worker[w].rec.runner = id \/ worker[w].jit = id

\* GitHub gives every registration a new id, and each id stays with one job.
RunnersExclusive ==
  \A j, k \in Jobs, id \in Runners : Held(j, id) /\ Held(k, id) => j = k

RunnersIssued == \A j \in Jobs, id \in Runners : Held(j, id) => id <= issued

AbsentHoldsNothing ==
  \A j \in Jobs : records[j].status = "absent" => records[j].runner = NoRunner

XInv == RunnersExclusive /\ RunnersIssued /\ AbsentHoldsNothing

\* What a step other than the first half of MarkProvisioned does: a record that
\* is indexed stays so, and one that gets a runner is indexed at once.
KeyKept(j) ==
  /\ Keyed(j) => Keyed(j)'
  /\ records'[j].runner \in {records[j].runner, NoRunner} \/ Keyed(j)'

KeysKept == \A j \in Jobs : KeyKept(j)

LEMMA TypeFacts ==
  ASSUME IInv
  PROVE  /\ \A j \in Jobs : records[j] \in Record
         /\ worker \in [Workers -> Task]
         /\ runnerKeys \in [Runners -> Jobs \cup {NoJob}]
         /\ issued \in Nat
  BY BoundsAssumption DEF IInv, TypeOK, StoreTypeOK, WorkerTypeOK, GitHubTypeOK

LEMMA IdleHoldsNothing ==
  Idle.rec.runner = NoRunner /\ Idle.jit = NoRunner /\ Idle.job = NoJob
  BY DEF Idle, Absent

LEMMA NothingIsNoId == NoRunner \notin Runners /\ NoJob \notin Jobs
  BY JobsAssumption DEF NoRunner, NoJob, Runners

\* Nobody comes to hold an id: workers keep what they hold or drop it, and so
\* do records.
WorkersKeep ==
  \A w \in Workers : \/ worker'[w] = Idle
                     \/ /\ worker'[w].job = worker[w].job
                        /\ worker'[w].rec.runner = worker[w].rec.runner
                        /\ worker'[w].jit = worker[w].jit

RecordsFade == \A j \in Jobs : Fades(records[j], records'[j])

Quiet == RecordsFade /\ WorkersKeep /\ UNCHANGED runnerKeys /\ issued' >= issued

LEMMA FadingHeld ==
  ASSUME RecordsFade, WorkersKeep, NEW j \in Jobs, NEW id \in Runners, Held(j, id)'
  PROVE  Held(j, id)
<1>1. CASE records'[j].runner = id
  BY <1>1, NothingIsNoId DEF RecordsFade, Fades, Held
<1>2. CASE records'[j].runner # id
  <2>1. PICK w \in Workers : /\ worker'[w].job = j
                             /\ worker'[w].rec.runner = id \/ worker'[w].jit = id
    BY <1>2 DEF Held
  <2>2. worker'[w] # Idle
    BY <2>1, IdleHoldsNothing, NothingIsNoId
  <2> QED
    BY <2>1, <2>2 DEF WorkersKeep, Held
<1> QED
  BY <1>1, <1>2

LEMMA HeldKeeps ==
  ASSUME IInv, IInv', XInv, issued' >= issued,
         \A j \in Jobs, id \in Runners : Held(j, id)' => Held(j, id)
  PROVE  RunnersExclusive' /\ RunnersIssued'
<1>1. RunnersExclusive'
  BY DEF XInv, RunnersExclusive
<1>2. RunnersIssued'
  <2> SUFFICES ASSUME NEW j \in Jobs, NEW id \in Runners, Held(j, id)'
               PROVE  id <= issued'
    BY DEF RunnersIssued
  <2>1. id <= issued
    BY DEF XInv, RunnersIssued
  <2>2. id \in Nat /\ issued \in Nat /\ issued' \in Nat
    BY TypeFacts, BoundsAssumption DEF Runners, IInv, TypeOK, GitHubTypeOK
  <2> QED
    BY <2>1, <2>2
<1> QED
  BY <1>1, <1>2

\* The invariant but for the index.
LEMMA FadingKeeps ==
  ASSUME IInv, IInv', XInv, RecordsFade, WorkersKeep, issued' >= issued
  PROVE  RunnersExclusive' /\ RunnersIssued' /\ AbsentHoldsNothing'
<1>1. AbsentHoldsNothing'
  BY DEF XInv, AbsentHoldsNothing, RecordsFade, Fades
<1> QED
  BY <1>1, FadingHeld, HeldKeeps

LEMMA QuietKeeps ==
  ASSUME IInv, IInv', XInv, Quiet
  PROVE  XInv' /\ KeysKept
<1>1. RunnersExclusive' /\ RunnersIssued' /\ AbsentHoldsNothing'
  BY FadingKeeps DEF Quiet
<1>2. KeysKept
  BY DEF KeysKept, KeyKept, Keyed, Quiet, RecordsFade, Fades
<1> QED
  BY <1>1, <1>2 DEF XInv

LEMMA XInitially == Init => XInv /\ IndexComplete
<1> SUFFICES ASSUME Init PROVE XInv /\ IndexComplete
  OBVIOUS
<1>1. \A j \in Jobs : records[j] = Absent
  BY DEF Init, StoreInit
<1>2. \A w \in Workers : worker[w] = Idle
  BY DEF Init, WorkerInit
<1>3. Absent.runner = NoRunner
  BY DEF Absent
<1>4. \A j \in Jobs, id \in Runners : ~Held(j, id)
  BY <1>1, <1>2, <1>3, IdleHoldsNothing, NothingIsNoId DEF Held
<1> QED
  BY <1>1, <1>3, <1>4 DEF XInv, RunnersExclusive, RunnersIssued,
     AbsentHoldsNothing, IndexComplete, Keyed

-----------------------------------------------------------------------------
(* Parts of quiet steps.                                                     *)

StoreQuiet == RecordsFade /\ UNCHANGED runnerKeys

LEMMA UnchangedQuiet ==
  /\ UNCHANGED storeVars => StoreQuiet
  /\ PutFails => StoreQuiet
  BY FadesItself DEF StoreQuiet, RecordsFade, storeVars, PutFails

LEMMA PutQuiet ==
  ASSUME IInv, NEW j \in Jobs, NEW r, Fades(records[j], r), Put(j, r)
  PROVE  StoreQuiet
  BY FadesItself DEF IInv, TypeOK, StoreTypeOK, Put, StoreQuiet, RecordsFade

LEMMA MovesKeep ==
  ASSUME IInv, NEW w \in Workers
  PROVE  /\ Finish(w) => WorkersKeep
         /\ UNCHANGED worker => WorkersKeep
         /\ \A pc : Goto(w, pc) => WorkersKeep
<1>1. worker \in [Workers -> Task]
  BY TypeFacts
<1>2. Finish(w) => WorkersKeep
  BY <1>1 DEF Finish, WorkersKeep
<1>3. UNCHANGED worker => WorkersKeep
  BY DEF WorkersKeep
<1>4. ASSUME NEW pc, Goto(w, pc) PROVE WorkersKeep
  <2>1. worker[w] \in Task
    BY <1>1
  <2>2. worker' = [worker EXCEPT ![w] = [worker[w] EXCEPT !.pc = pc]]
    BY <1>4 DEF Goto
  <2>3. \A v \in Workers : v # w => worker'[v] = worker[v]
    BY <1>1, <2>2
  <2>4. worker'[w] = [worker[w] EXCEPT !.pc = pc]
    BY <1>1, <2>2
  <2>5. /\ worker'[w].job = worker[w].job /\ worker'[w].jit = worker[w].jit
        /\ worker'[w].rec.runner = worker[w].rec.runner
    BY <2>1, <2>4 DEF Task
  <2> QED
    BY <2>3, <2>5 DEF WorkersKeep
<1> QED
  BY <1>2, <1>3, <1>4

LEMMA IssuedGrows ==
  ASSUME IInv
  PROVE  /\ UNCHANGED githubVars => issued' >= issued
         /\ Issue => issued' >= issued
         /\ \A id : RemoveRepoRunner(id) => issued' >= issued
         /\ \A id, e : RemovalFails(id, e) => issued' >= issued
  BY TypeFacts DEF githubVars, Issue, RemoveRepoRunner, RemovalFails

-----------------------------------------------------------------------------
(* Quiet steps of a worker.                                                  *)

LEMMA DeregisterQuiet ==
  ASSUME IInv, NEW w \in Workers, Deregister(w)
  PROVE  Quiet
<1>1. StoreQuiet
  BY UnchangedQuiet DEF Deregister, CallsGitHub
<1>2. WorkersKeep
  BY MovesKeep DEF Deregister
<1>3. issued' >= issued
  BY IssuedGrows DEF Deregister
<1> QED
  BY <1>1, <1>2, <1>3 DEF Quiet, StoreQuiet

LEMMA ClearQuiet ==
  ASSUME IInv, NEW w \in Workers, Clear(w)
  PROVE  Quiet
<1>1. Working(w)
  BY DEF Clear, ClearPcs, Working
<1>2. worker[w].job \in Jobs /\ records[worker[w].job] \in Record
  BY <1>1, WorkingFacts
<1>3. StoreQuiet
  <2>1. CASE Put(worker[w].job, ClearJIT(records[worker[w].job]))
    BY <1>2, <2>1, ClearJITFades, PutQuiet
  <2>2. CASE PutFails
    BY <2>2, UnchangedQuiet
  <2> QED
    BY <2>1, <2>2 DEF Clear
<1>4. WorkersKeep
  BY MovesKeep DEF Clear
<1>5. issued' >= issued
  BY IssuedGrows DEF Clear, CallsStore
<1> QED
  BY <1>3, <1>4, <1>5 DEF Quiet, StoreQuiet

LEMMA LastWriteFades ==
  ASSUME IInv, NEW w \in Workers, worker[w].pc \in LastWritePcs
  PROVE  /\ worker[w].job \in Jobs
         /\ Fades(records[worker[w].job], LastWrite(w))
<1>1. Working(w)
  BY DEF LastWritePcs, Working
<1> DEFINE r == records[worker[w].job]
<1>2. worker[w].job \in Jobs /\ r \in Record
  BY <1>1, WorkingFacts
<1> HIDE DEF r
<1>3. /\ \A kind : Fades(r, ReleaseClaim(r, kind)) /\ Fades(r, DeferRateLimitedWork(r, kind))
      /\ Fades(r, DeferProvisioningDemand(r)) /\ Fades(r, MarkProvisionFailed(r))
      /\ Fades(r, MarkDeleteFailed(r)) /\ Fades(r, DeferReassignmentDemand(r))
      /\ Fades(r, MarkOrphaned(r))
  BY <1>2, ReleaseClaimFades, DeferRateLimitedWorkFades, DeferProvisioningDemandFades,
     MarkProvisionFailedFades, MarkDeleteFailedFades, DeferReassignmentDemandFades,
     MarkOrphanedFades
<1>4. LastWrite(w) \in
        {ReleaseClaim(r, "provision"), DeferRateLimitedWork(r, "provision"),
         DeferProvisioningDemand(r), MarkProvisionFailed(r),
         ReleaseClaim(r, "delete"), DeferRateLimitedWork(r, "delete"),
         MarkDeleteFailed(r), DeferReassignmentDemand(r), MarkOrphaned(r)}
  BY DEF LastWrite, LastWritePcs, At, r
<1>5. Fades(r, LastWrite(w))
  BY <1>3, <1>4
<1> QED
  BY <1>2, <1>5 DEF r

LEMMA EndWorkQuiet ==
  ASSUME IInv, NEW w \in Workers, EndWork(w)
  PROVE  Quiet
<1>1. StoreQuiet
  BY LastWriteFades, PutQuiet, UnchangedQuiet DEF EndWork
<1>2. WorkersKeep
  BY MovesKeep DEF EndWork
<1>3. issued' >= issued
  BY IssuedGrows DEF EndWork, CallsStore
<1> QED
  BY <1>1, <1>2, <1>3 DEF Quiet, StoreQuiet

LEMMA ScanQuiet ==
  ASSUME IInv, NEW w \in Workers, Scan(w)
  PROVE  Quiet
<1>1. \A j \in Jobs : records[j] \in Record
  BY TypeFacts
<1>2. \A j \in Jobs : Fades(records[j], Backstop(records[j]))
  BY <1>1, BackstopFades
<1>3. StoreQuiet
  BY <1>2, FadesItself DEF Scan, ScanWithoutClaim, ScanStops, StoreQuiet, RecordsFade
<1>4. WorkersKeep
  BY MovesKeep DEF Scan
<1>5. issued' >= issued
  BY IssuedGrows DEF Scan, CallsStore
<1> QED
  BY <1>3, <1>4, <1>5 DEF Quiet, StoreQuiet

LEMMA EditKeeps ==
  ASSUME IInv, NEW w \in Workers, NEW t, worker' = [worker EXCEPT ![w] = t],
         t.job = worker[w].job, t.rec.runner = worker[w].rec.runner,
         t.jit = worker[w].jit
  PROVE  WorkersKeep
  BY TypeFacts DEF WorkersKeep

\* Calls of the provider, and decisions.
LEMMA ProviderCallQuiet ==
  ASSUME IInv, UNCHANGED <<storeVars, githubVars>>, WorkersKeep
  PROVE  Quiet
  BY UnchangedQuiet, IssuedGrows DEF Quiet, StoreQuiet

LEMMA FindQuiet ==
  ASSUME IInv, NEW w \in Workers, Find(w)
  PROVE  Quiet
<1> DEFINE next == IF worker[w].rec.runner = NoRunner THEN "dropVM" ELSE "persistVM"
<1>1. CASE \E pc : Goto(w, pc)
  BY <1>1, MovesKeep, ProviderCallQuiet DEF Find, Local
<1>2. CASE \E i : worker' = [worker EXCEPT ![w].inst = i, ![w].pc = next]
  <2>1. PICK i : worker' = [worker EXCEPT ![w].inst = i, ![w].pc = next]
    BY <1>2
  <2> HIDE DEF next
  <2>2. worker[w] \in Task /\ worker \in [Workers -> Task]
    BY TypeFacts
  <2>3. PICK t : t = [worker[w] EXCEPT !.inst = i, !.pc = next]
    OBVIOUS
  <2>4. worker' = [worker EXCEPT ![w] = t]
    BY <2>1, <2>2, <2>3
  <2>5. t.job = worker[w].job /\ t.rec.runner = worker[w].rec.runner /\ t.jit = worker[w].jit
    BY <2>2, <2>3 DEF Task
  <2>6. WorkersKeep
    BY <2>4, <2>5, EditKeeps
  <2> QED
    BY <2>6, ProviderCallQuiet DEF Find, Local
<1> QED
  BY <1>1, <1>2 DEF Find

LEMMA DemandQuiet ==
  ASSUME IInv, NEW w \in Workers, DropVM(w) \/ CheckDemand(w) \/ AskDemand(w)
                                  \/ CleanupExhausted(w)
  PROVE  Quiet
<1>1. \E pc : Goto(w, pc)
  BY DEF DropVM, CheckDemand, AskDemand, CleanupExhausted
<1> QED
  BY <1>1, MovesKeep, ProviderCallQuiet DEF DropVM, CheckDemand, AskDemand,
     CleanupExhausted, Local, CallsProvider

LEMMA RetireQuiet ==
  ASSUME IInv, NEW w \in Workers, Retire(w)
  PROVE  Quiet
<1> DEFINE r == records[worker[w].job]
           done == MarkCompleted(r)
           freed == ReleaseClaim(done, "provision")
<1>1. Working(w)
  BY DEF Retire, At, Working
<1>2. worker[w].job \in Jobs /\ r \in Record /\ Sound(r) /\ r.claim = "provision"
  BY <1>1, WorkingFacts DEF Retire, At, KindOf, ProvisionPcs
<1> HIDE DEF r
<1>3. Fades(r, MarkDeleted(r))
  BY <1>2, MarkDeletedFades
<1>4. Fades(r, ScheduleDeletion(freed))
  <2>1. done \in Record /\ freed \in Record
    <3>1. "provision" \in WorkKinds
      BY DEF WorkKinds
    <3>2. Sound(done)
      BY <1>2, MarkCompletedFollows DEF Follows
    <3>3. Sound(freed)
      BY <3>1, <3>2, ReleaseClaimFollows DEF Follows
    <3> QED
      BY <3>2, <3>3 DEF Sound
  <2>2. Fades(r, done)
    BY <1>2, MarkCompletedFades
  <2>3. Fades(done, freed)
    BY <2>1, ReleaseClaimFades
  <2>4. Fades(freed, ScheduleDeletion(freed))
    BY <2>1, ScheduleDeletionFades
  <2> HIDE DEF done, freed
  <2> QED
    BY <2>2, <2>3, <2>4, FadesOn
<1>5. StoreQuiet
  BY <1>2, <1>3, <1>4, PutQuiet, UnchangedQuiet DEF Retire, r
<1>6. WorkersKeep
  BY MovesKeep DEF Retire
<1>7. issued' >= issued
  BY IssuedGrows DEF Retire, CallsStore
<1> QED
  BY <1>5, <1>6, <1>7 DEF Quiet, StoreQuiet

LEMMA DropJITQuiet ==
  ASSUME IInv, NEW w \in Workers, DropJIT(w)
  PROVE  Quiet
<1>1. StoreQuiet
  BY UnchangedQuiet DEF DropJIT, CallsGitHub
<1>2. WorkersKeep
  BY MovesKeep DEF DropJIT
<1>3. issued' >= issued
  BY IssuedGrows DEF DropJIT
<1> QED
  BY <1>1, <1>2, <1>3 DEF Quiet, StoreQuiet

LEMMA CreateQuiet ==
  ASSUME IInv, NEW w \in Workers, Create(w)
  PROVE  Quiet
<1>1. CASE \E pc : Goto(w, pc)
  BY <1>1, MovesKeep, ProviderCallQuiet DEF Create, CallsProvider
<1>2. CASE \E i \in Instances :
             worker' = [worker EXCEPT ![w].pc = "persistVM", ![w].inst = i]
  <2>1. PICK i \in Instances :
          worker' = [worker EXCEPT ![w].pc = "persistVM", ![w].inst = i]
    BY <1>2
  <2>2. worker[w] \in Task /\ worker \in [Workers -> Task]
    BY TypeFacts
  <2>3. PICK t : t = [worker[w] EXCEPT !.pc = "persistVM", !.inst = i]
    OBVIOUS
  <2>4. worker' = [worker EXCEPT ![w] = t]
    BY <2>1, <2>2, <2>3
  <2>5. t.job = worker[w].job /\ t.rec.runner = worker[w].rec.runner /\ t.jit = worker[w].jit
    BY <2>2, <2>3 DEF Task
  <2>6. WorkersKeep
    BY <2>4, <2>5, EditKeeps
  <2> QED
    BY <2>6, ProviderCallQuiet DEF Create, CallsProvider
<1> QED
  BY <1>1, <1>2 DEF Create

-----------------------------------------------------------------------------
(* Deletion.                                                                 *)

LEMMA DeleteCallQuiet ==
  ASSUME IInv, NEW w \in Workers,
         DeleteInstance(w) \/ ConfirmAbsence(w) \/ CleanupRest(w) \/ Recheck(w)
  PROVE  Quiet
<1>1. \E pc : Goto(w, pc)
  BY DEF DeleteInstance, ConfirmAbsence, CleanupRest, Recheck
<1> QED
  BY <1>1, MovesKeep, ProviderCallQuiet DEF DeleteInstance, ConfirmAbsence,
     CleanupRest, Recheck, Local, CallsProvider

LEMMA AskOriginalQuiet ==
  ASSUME IInv, NEW w \in Workers, AskOriginal(w)
  PROVE  Quiet
<1>1. CASE \E pc : Goto(w, pc)
  BY <1>1, MovesKeep, ProviderCallQuiet DEF AskOriginal, Local
<1>2. CASE \E queued \in BOOLEAN :
             worker' = [worker EXCEPT ![w].pc = "finish", ![w].queued = queued]
  <2>1. PICK queued \in BOOLEAN :
          worker' = [worker EXCEPT ![w].pc = "finish", ![w].queued = queued]
    BY <1>2
  <2>2. worker[w] \in Task /\ worker \in [Workers -> Task]
    BY TypeFacts
  <2>3. PICK t : t = [worker[w] EXCEPT !.pc = "finish", !.queued = queued]
    OBVIOUS
  <2>4. worker' = [worker EXCEPT ![w] = t]
    BY <2>1, <2>2, <2>3
  <2>5. t.job = worker[w].job /\ t.rec.runner = worker[w].rec.runner /\ t.jit = worker[w].jit
    BY <2>2, <2>3 DEF Task
  <2>6. WorkersKeep
    BY <2>4, <2>5, EditKeeps
  <2> QED
    BY <2>6, ProviderCallQuiet DEF AskOriginal, Local
<1>3. (jobState[worker[w].job] = "queued") \in BOOLEAN
  OBVIOUS
<1> QED
  BY <1>1, <1>2, <1>3 DEF AskOriginal

LEMMA DeleteStoreQuiet ==
  ASSUME IInv, NEW w \in Workers,
         AcceptDeletion(w) \/ AwaitAbsence(w) \/ FinishDeletion(w) \/ FinishFailed(w)
  PROVE  Quiet
<1> DEFINE r == records[worker[w].job]
<1>1. Working(w)
  BY DEF AcceptDeletion, AwaitAbsence, FinishDeletion, FinishFailed, At, Working
<1>2. worker[w].job \in Jobs /\ r \in Record
  BY <1>1, WorkingFacts
<1> HIDE DEF r
<1>3. /\ \A i : Fades(r, MarkDeletionAccepted(r, i))
      /\ Fades(r, DeferDeletionConfirmation(r))
      /\ \A queued : Fades(r, FinishDeletedRunner(r, queued))
      /\ Fades(r, MarkDeleteFailed(r))
  BY <1>2, MarkDeletionAcceptedFades, DeferDeletionConfirmationFades,
     FinishDeletedRunnerFades, MarkDeleteFailedFades
<1>4. \/ \E s : Fades(r, s) /\ Put(worker[w].job, s)
      \/ PutFails \/ UNCHANGED storeVars
  BY <1>3 DEF AcceptDeletion, AwaitAbsence, FinishDeletion, FinishFailed, r
<1>5. StoreQuiet
  BY <1>2, <1>4, PutQuiet, UnchangedQuiet DEF r
<1>6. WorkersKeep
  BY MovesKeep DEF AcceptDeletion, AwaitAbsence, FinishDeletion, FinishFailed
<1>7. issued' >= issued
  BY IssuedGrows DEF AcceptDeletion, AwaitAbsence, FinishDeletion, FinishFailed, CallsStore
<1> QED
  BY <1>5, <1>6, <1>7 DEF Quiet, StoreQuiet

LEMMA DeleteStepQuiet ==
  ASSUME IInv, NEW w \in Workers, DeleteStep(w)
  PROVE  Quiet
  BY DeleteCallQuiet, AskOriginalQuiet, DeleteStoreQuiet DEF DeleteStep

-----------------------------------------------------------------------------
(* The reaper and the world outside.                                         *)

LEMMA ReaperReadsQuiet ==
  ASSUME IInv, ListExpired \/ (\E j \in Jobs : ExpireRunner(j)) \/ ReapDeregister
               \/ ReapVMs \/ (\E id \in Runners : ReapMarker(id)),
         UNCHANGED worker
  PROVE  Quiet
<1>1. StoreQuiet
  BY UnchangedQuiet, FadesItself DEF ListExpired, ExpireRunner, ReapDeregister, ReapVMs,
     ReapMarker, StoreQuiet, RecordsFade
<1>2. WorkersKeep
  BY DEF WorkersKeep
<1>3. issued' >= issued
  BY IssuedGrows DEF ListExpired, ExpireRunner, ReapDeregister, ReapVMs, ReapMarker
<1> QED
  BY <1>1, <1>2, <1>3 DEF Quiet, StoreQuiet

LEMMA ReapWriteFades ==
  ASSUME NEW r \in Record, r = records[reaper.job], reaper.pc \in ReapWritePcs
  PROVE  Fades(r, ReapWrite)
<1>1. /\ \A a, b \in BOOLEAN : Fades(r, DeferReconciliation(r, a, b))
      /\ \A a \in BOOLEAN : Fades(r, DeferRateLimitedCleanup(r, a))
      /\ Fades(r, ScheduleDeletion(r)) /\ Fades(r, MarkDeleted(r))
      /\ Fades(r, MarkOrphaned(r)) /\ Fades(r, MarkDeleteFailed(r))
  BY DeferReconciliationFades, DeferCleanupFades, ScheduleDeletionFades,
     MarkDeletedFades, MarkOrphanedFades, MarkDeleteFailedFades
<1>2. ReapWrite \in
        {ScheduleDeletion(r), MarkDeleted(r), MarkOrphaned(r),
         DeferReconciliation(r, TRUE, FALSE), DeferReconciliation(r, FALSE, TRUE),
         DeferReconciliation(r, FALSE, FALSE), DeferRateLimitedCleanup(r, TRUE),
         DeferRateLimitedCleanup(r, FALSE), MarkDeleteFailed(r)}
  BY DEF ReapWrite, ReapWritePcs
<1> QED
  BY <1>1, <1>2

LEMMA ReaperStoresQuiet ==
  ASSUME IInv, BeginCleanup \/ ReapClear \/ EndReap, UNCHANGED worker
  PROVE  Quiet
<1> DEFINE r == records[reaper.job]
<1>1. reaper.job \in Jobs /\ r \in Record
  BY TypeFacts DEF BeginCleanup, ReapClear, EndReap, ReapWritePcs, IInv, ReaperHasJob
<1> HIDE DEF r
<1>2. Fades(r, BeginCleanupAttempt(r)) /\ Fades(r, ClearJIT(r))
  BY <1>1, BeginCleanupFades, ClearJITFades
<1>3. reaper.pc \in ReapWritePcs => Fades(r, ReapWrite)
  BY <1>1, ReapWriteFades DEF r
<1>4. StoreQuiet
  <2>1. (\E s : Fades(r, s) /\ Put(reaper.job, s)) \/ PutFails
    BY <1>2, <1>3 DEF BeginCleanup, ReapClear, EndReap, r
  <2> QED
    BY <1>1, <2>1, PutQuiet, UnchangedQuiet DEF r
<1>5. WorkersKeep
  BY DEF WorkersKeep
<1>6. issued' >= issued
  BY IssuedGrows DEF BeginCleanup, ReapClear, EndReap
<1> QED
  BY <1>4, <1>5, <1>6 DEF Quiet, StoreQuiet

LEMMA ReaperQuiet ==
  ASSUME IInv, ReaperMoves
  PROVE  Quiet
<1>1. CASE ReaperStep /\ UNCHANGED worker
  BY <1>1, ReaperReadsQuiet, ReaperStoresQuiet DEF ReaperStep
<1>2. ASSUME NEW j \in Jobs, RetentionPasses(j) PROVE Quiet
  <2>1. StoreQuiet
    BY <1>2, AbsentFades, PutQuiet DEF RetentionPasses, PruneDeleted
  <2>2. WorkersKeep
    BY <1>2 DEF RetentionPasses, WorkersKeep
  <2>3. issued' >= issued
    BY <1>2, IssuedGrows DEF RetentionPasses
  <2> QED
    BY <2>1, <2>2, <2>3 DEF Quiet, StoreQuiet
<1> QED
  BY <1>1, <1>2 DEF ReaperMoves

LEMMA WorldQuiet ==
  ASSUME IInv, UNCHANGED <<storeVars, worker>>, issued' >= issued
  PROVE  Quiet
  BY UnchangedQuiet DEF Quiet, StoreQuiet, WorkersKeep

LEMMA OutsideQuiet ==
  ASSUME IInv, NEW j \in Jobs,
         QueuedWebhook(j) \/ RunnerTakesJob(j) \/ ForeignRunnerTakesJob(j)
         \/ JobEnds(j) \/ RetryTimePasses(j)
  PROVE  Quiet
<1>1. CASE RunnerTakesJob(j) \/ ForeignRunnerTakesJob(j) \/ JobEnds(j)
  <2>1. issued' = issued /\ UNCHANGED <<storeVars, worker>>
    BY <1>1 DEF RunnerTakesJob, ForeignRunnerTakesJob, JobEnds, TakeJob, FinishJob,
       CancelQueuedJob
  <2> QED
    BY <2>1, TypeFacts, WorldQuiet
<1>2. CASE QueuedWebhook(j) \/ RetryTimePasses(j)
  <2>1. records[j] \in Record
    BY TypeFacts
  <2>2. Fades(records[j], NewDemand) /\ Fades(records[j], [records[j] EXCEPT !.due = TRUE])
    BY <2>1, NewDemandFades, DueFades
  <2>3. StoreQuiet
    BY <1>2, <2>2, PutQuiet DEF QueuedWebhook, CreateRecord, RetryTimePasses, BecomeDue
  <2>4. WorkersKeep
    BY <1>2 DEF QueuedWebhook, RetryTimePasses, WorkersKeep
  <2>5. issued' >= issued
    BY <1>2, IssuedGrows DEF QueuedWebhook, RetryTimePasses
  <2> QED
    BY <2>3, <2>4, <2>5 DEF Quiet, StoreQuiet
<1> QED
  BY <1>1, <1>2

-----------------------------------------------------------------------------
(* The steps that change who holds what.                                     *)

LEMMA CompletedWebhookFades ==
  ASSUME IInv, NEW k \in Jobs, CompletedWebhook(k)
  PROVE  RecordsFade
<1> DEFINE id == ranOn[k]
           matched == MatchedKey(id)
<1>1. matched # NoJob => records[matched].status \notin {"absent", "deleted"}
  BY DEF MatchedKey
<1> SUFFICES ASSUME NEW j \in Jobs PROVE Fades(records[j], records'[j])
  BY DEF RecordsFade
<1>2. records[j] \in Record /\ (j = k) \in BOOLEAN
  BY TypeFacts
<1>3. CASE j = matched
  <2>1. records[j].status # "deleted" /\ records'[j] = MatchedCompletion(records[j], j = k)
    BY <1>1, <1>3, NothingIsNoId DEF CompletedWebhook, RecordCompletion
  <2> QED
    BY <1>2, <2>1, MatchedCompletionFades
<1>4. CASE j # matched /\ j = k
  <2>1. records'[j] = EventCompletion(records[j], id)
    BY <1>4 DEF CompletedWebhook, RecordCompletion
  <2> QED
    BY <1>2, <2>1, EventCompletionFades
<1>5. CASE j # matched /\ j # k
  BY <1>5, FadesItself DEF CompletedWebhook, RecordCompletion
<1> QED
  BY <1>3, <1>4, <1>5

\* A completion whose runner no record owns removes that runner from the index:
\* no record that is not deleted holds it.
LEMMA CompletedWebhookIndexes ==
  ASSUME IInv, IInv', XInv, NEW k \in Jobs, CompletedWebhook(k)
  PROVE  XInv' /\ KeysKept
<1> DEFINE id == ranOn[k]
           matched == MatchedKey(id)
<1>1. RecordsFade
  BY CompletedWebhookFades
<1>2. WorkersKeep /\ issued' >= issued
  BY IssuedGrows DEF CompletedWebhook, WorkersKeep
<1>3. RunnersExclusive' /\ RunnersIssued' /\ AbsentHoldsNothing'
  BY <1>1, <1>2, FadingKeeps
<1>4. KeysKept
  <2> SUFFICES ASSUME NEW j \in Jobs, Keyed(j), records'[j].runner # NoRunner,
                      records'[j].status # "deleted"
               PROVE  runnerKeys'[records'[j].runner] = j
    BY <1>1 DEF KeysKept, KeyKept, Keyed, RecordsFade, Fades
  <2>1. records'[j].runner = records[j].runner /\ records[j].status # "deleted"
    BY <1>1 DEF RecordsFade, Fades
  <2>2. records[j].runner \in Runners /\ records[j].status # "absent"
    BY <2>1, TypeFacts DEF Record, XInv, AbsentHoldsNothing
  <2>3. runnerKeys[records[j].runner] = j
    BY <2>1 DEF Keyed
  <2>4. records[j].runner = id => matched = j
    BY <2>1, <2>2, <2>3, NothingIsNoId DEF MatchedKey
  <2>5. CASE runnerKeys' = runnerKeys
    BY <2>1, <2>3, <2>5
  <2>6. CASE matched = NoJob /\ runnerKeys' = [runnerKeys EXCEPT ![id] = NoJob]
    <3>1. records[j].runner # id
      BY <2>4, <2>6, NothingIsNoId
    <3> QED
      BY <2>1, <2>2, <2>3, <2>6, <3>1, TypeFacts
  <2> QED
    BY <2>5, <2>6 DEF CompletedWebhook, RecordCompletion
<1> QED
  BY <1>3, <1>4 DEF XInv

LEMMA ClaimFades ==
  ASSUME IInv, NEW w \in Workers, Claim(w)
  PROVE  RecordsFade
<1>1. PICK j \in Jobs : ClaimFirst(j)
  BY DEF Claim
<1>2. Fades(records[j], Claimed(records[j]))
  BY <1>1, TypeFacts, ClaimedFades DEF ClaimFirst
<1>3. \A k \in Jobs : Fades(records[k], Backstop(records[k]))
  BY TypeFacts, BackstopFades
<1> QED
  BY <1>1, <1>2, <1>3, FadesItself DEF RecordsFade, ClaimFirst

\* A worker that claims a record holds what the record holds.
LEMMA ClaimIndexes ==
  ASSUME IInv, IInv', XInv, NEW w \in Workers, Claim(w)
  PROVE  XInv' /\ KeysKept
<1>1. PICK j \in Jobs :
        /\ ClaimFirst(j)
        /\ worker' = [worker EXCEPT ![w] =
             [Idle EXCEPT !.pc = FirstStep(Claimed(records[j])),
                          !.job = j, !.rec = Claimed(records[j])]]
  BY DEF Claim
<1>2. records[j] \in Record /\ Fades(records[j], Claimed(records[j]))
  BY <1>1, TypeFacts, ClaimedFades DEF ClaimFirst
<1>3. RecordsFade
  BY ClaimFades
<1>4. /\ worker'[w].job = j /\ worker'[w].rec = Claimed(records[j])
      /\ worker'[w].jit = NoRunner
      /\ \A v \in Workers : v # w => worker'[v] = worker[v]
  BY <1>1, TypeFacts DEF Idle
<1>5. issued' = issued /\ UNCHANGED runnerKeys
  BY <1>1 DEF Claim, CallsStore, githubVars, ClaimFirst
<1>6. ASSUME NEW k \in Jobs, NEW id \in Runners, Held(k, id)'
      PROVE  Held(k, id)
  <2>1. CASE records'[k].runner = id
    BY <1>3, <2>1, NothingIsNoId DEF RecordsFade, Fades, Held
  <2>2. CASE \E v \in Workers : v # w /\ worker'[v].job = k
                               /\ (worker'[v].rec.runner = id \/ worker'[v].jit = id)
    BY <1>4, <2>2 DEF Held
  <2>3. CASE worker'[w].job = k /\ (worker'[w].rec.runner = id \/ worker'[w].jit = id)
    BY <1>2, <1>4, <2>3, NothingIsNoId DEF Fades, Held
  <2> QED
    BY <1>6, <2>1, <2>2, <2>3 DEF Held
<1>7. RunnersExclusive' /\ RunnersIssued'
  BY <1>5, <1>6, TypeFacts, HeldKeeps
<1>8. AbsentHoldsNothing' /\ KeysKept
  BY <1>3, <1>5 DEF XInv, AbsentHoldsNothing, KeysKept, KeyKept, Keyed, RecordsFade, Fades
<1> QED
  BY <1>7, <1>8 DEF XInv

\* A new registration has an id nobody holds.
LEMMA GenerateIndexes ==
  ASSUME IInv, IInv', XInv, NEW w \in Workers, Generate(w)
  PROVE  XInv' /\ KeysKept
<1>1. CASE GenerateJITFails /\ \E pc : Goto(w, pc)
  <2>1. StoreQuiet
    BY UnchangedQuiet DEF Generate, CallsGitHub
  <2>2. WorkersKeep
    BY <1>1, MovesKeep
  <2>3. issued' >= issued
    BY <1>1, IssuedGrows DEF GenerateJITFails
  <2> QED
    BY <2>1, <2>2, <2>3, QuietKeeps DEF Quiet, StoreQuiet
<1>2. CASE Issue /\ worker' = [worker EXCEPT ![w].pc = "persistJIT", ![w].jit = issued + 1]
  <2>1. worker[w] \in Task /\ worker \in [Workers -> Task] /\ issued \in Nat
    BY TypeFacts
  <2>2. PICK t : t = [worker[w] EXCEPT !.pc = "persistJIT", !.jit = issued + 1]
    OBVIOUS
  <2>3. worker' = [worker EXCEPT ![w] = t]
    BY <1>2, <2>1, <2>2
  <2>4. /\ t.job = worker[w].job /\ t.rec.runner = worker[w].rec.runner
        /\ t.jit = issued + 1
    BY <2>1, <2>2 DEF Task
  <2>5. /\ worker'[w] = t
        /\ \A v \in Workers : v # w => worker'[v] = worker[v]
    BY <2>1, <2>3
  <2>6. issued' = issued + 1 /\ UNCHANGED <<records, runnerKeys>>
    BY <1>2 DEF Issue, Generate, CallsGitHub, storeVars
  <2>7. ASSUME NEW k \in Jobs, NEW id \in Runners, Held(k, id)'
        PROVE  Held(k, id) \/ (k = worker[w].job /\ id = issued + 1)
    BY <2>4, <2>5, <2>6, <2>7 DEF Held
  <2>8. \A k \in Jobs, id \in Runners : Held(k, id) => id # issued + 1 /\ id <= issued + 1
    <3> SUFFICES ASSUME NEW k \in Jobs, NEW id \in Runners, Held(k, id)
                 PROVE  id # issued + 1 /\ id <= issued + 1
      OBVIOUS
    <3>1. id <= issued
      BY DEF XInv, RunnersIssued
    <3>2. id \in Nat
      BY BoundsAssumption DEF Runners
    <3> QED
      BY <2>1, <3>1, <3>2
  <2>9. RunnersExclusive'
    BY <2>7, <2>8 DEF XInv, RunnersExclusive
  <2>10. RunnersIssued'
    BY <2>1, <2>6, <2>7, <2>8 DEF RunnersIssued
  <2>11. AbsentHoldsNothing' /\ KeysKept
    BY <2>6 DEF XInv, AbsentHoldsNothing, KeysKept, KeyKept, Keyed
  <2> QED
    BY <2>9, <2>10, <2>11 DEF XInv
<1> QED
  BY <1>1, <1>2 DEF Generate, GenerateJIT

\* Storing an identity that the worker holds, and indexing it.
LEMMA IndexedKeeps ==
  ASSUME IInv, IInv', XInv, NEW w \in Workers, Working(w), NEW id,
         records'[worker[w].job].runner = id,
         records'[worker[w].job].status # "absent",
         \A k \in Jobs : k # worker[w].job => records'[k] = records[k],
         id \in Runners => Held(worker[w].job, id),
         \A k \in Jobs, i \in Runners : Held(k, i)' => Held(k, i),
         issued' = issued,
         \A i \in Runners :
           runnerKeys'[i] = IF i = id THEN worker[w].job ELSE runnerKeys[i]
  PROVE  XInv' /\ KeysKept
<1>1. worker[w].job \in Jobs
  BY WorkingFacts
<1>2. RunnersExclusive' /\ RunnersIssued'
  BY TypeFacts, HeldKeeps
<1>3. AbsentHoldsNothing'
  BY DEF XInv, AbsentHoldsNothing
<1>4. ASSUME NEW j \in Jobs, Keyed(j) \/ j = worker[w].job
      PROVE  Keyed(j)'
  <2> SUFFICES ASSUME records'[j].runner # NoRunner, records'[j].status # "deleted"
               PROVE  runnerKeys'[records'[j].runner] = j
    BY DEF Keyed
  <2>1. records'[j].runner \in Runners /\ runnerKeys \in [Runners -> Jobs \cup {NoJob}]
    <3>1. records'[j] \in Record
      BY DEF IInv, TypeOK, StoreTypeOK
    <3> QED
      BY <3>1, TypeFacts DEF Record
  <2>2. CASE j = worker[w].job
    BY <2>1, <2>2
  <2>3. CASE j # worker[w].job
    <3>1. records'[j] = records[j] /\ runnerKeys[records[j].runner] = j
      BY <1>4, <2>3 DEF Keyed
    <3>2. records[j].runner # id
      BY <1>1, <2>1, <2>3, <3>1 DEF XInv, RunnersExclusive, Held
    <3> QED
      BY <2>1, <3>1, <3>2
  <2> QED
    BY <2>2, <2>3
<1>5. KeysKept
  BY <1>4 DEF KeysKept, KeyKept
<1> QED
  BY <1>2, <1>3, <1>5 DEF XInv

\* The record of a worker that is provisioning exists.
LEMMA ProvisionedExists ==
  ASSUME IInv, NEW w \in Workers, worker[w].pc \in ProvisionPcs
  PROVE  /\ Working(w) /\ worker[w].job \in Jobs
         /\ records[worker[w].job] \in Record
         /\ records[worker[w].job].status # "absent"
  BY PcFacts, WorkingFacts DEF Working, KindOf, Sound, NoClaim

LEMMA IdentityStored ==
  ASSUME NEW r \in Record, ~Settled(r), r.status # "absent", NEW j, NEW id, NEW m
  PROVE  /\ MarkJITCreated(r, j, id, m).runner = id
         /\ MarkJITCreated(r, j, id, m).status # "absent"
<1> DEFINE same == m = j
           done == r.jobCompleted \/ same
           other == ~same /\ ~r.jobCompleted
           plain == [r EXCEPT !.runner = id]
           over == [r EXCEPT !.runner = id, !.status = "completed",
                             !.jobCompleted = done, !.recheck = other,
                             !.defer = FALSE, !.due = TRUE]
<1>1. MarkJITCreated(r, j, id, m) = IF m = NoJob THEN plain ELSE over
  BY DEF MarkJITCreated
<1> HIDE DEF same, done, other
<1>2. plain.runner = id /\ plain.status = r.status
  BY DEF Record
<1>3. over.runner = id /\ over.status = "completed"
  BY DEF Record
<1> HIDE DEF plain, over
<1> QED
  BY <1>1, <1>2, <1>3

LEMMA PersistJITIndexes ==
  ASSUME IInv, IInv', XInv, NEW w \in Workers, PersistJIT(w)
  PROVE  XInv' /\ KeysKept
<1> DEFINE j == worker[w].job
           id == worker[w].jit
<1>1. worker[w].pc \in ProvisionPcs
  BY DEF PersistJIT, At, ProvisionPcs
<1>2. issued' = issued
  BY DEF PersistJIT, CallsStore, githubVars
<1>3. CASE PutFails /\ Goto(w, "dropJIT")
  BY <1>2, <1>3, TypeFacts, UnchangedQuiet, MovesKeep, QuietKeeps DEF Quiet, StoreQuiet
<1>4. CASE /\ PutJIT(j, id)
           /\ worker' = [worker EXCEPT ![w].pc = "demand", ![w].rec.runner = id]
  <2>1. worker[w] \in Task /\ worker \in [Workers -> Task]
    BY TypeFacts
  <2>2. PICK t : t = [worker[w] EXCEPT !.pc = "demand", !.rec.runner = id]
    OBVIOUS
  <2>3. worker' = [worker EXCEPT ![w] = t]
    BY <1>4, <2>1, <2>2
  <2>4. t.job = j /\ t.rec.runner = id /\ t.jit = id
    BY <2>1, <2>2 DEF Task, Record
  <2>5. /\ worker'[w] = t
        /\ \A v \in Workers : v # w => worker'[v] = worker[v]
    BY <2>1, <2>3
  <2>6. /\ Working(w) /\ j \in Jobs /\ records[j] \in Record
        /\ records[j].status # "absent"
    BY <1>1, ProvisionedExists
  <2>7. \A k \in Jobs : k # j => records'[k] = records[k]
    BY <1>4, <2>6 DEF PutJIT, IInv, TypeOK, StoreTypeOK
  <2>8. ASSUME records'[j].runner \in {id, records[j].runner},
               NEW k \in Jobs, NEW i \in Runners, Held(k, i)'
        PROVE  Held(k, i)
    <3>1. CASE records'[k].runner = i
      BY <2>7, <2>8, <3>1 DEF Held
    <3>2. CASE \E v \in Workers : v # w /\ worker'[v].job = k
                                 /\ (worker'[v].rec.runner = i \/ worker'[v].jit = i)
      BY <2>5, <3>2 DEF Held
    <3>3. CASE worker'[w].job = k /\ (worker'[w].rec.runner = i \/ worker'[w].jit = i)
      BY <2>4, <2>5, <3>3 DEF Held
    <3> QED
      BY <2>8, <3>1, <3>2, <3>3 DEF Held
  <2>9. CASE Settled(records[j])
    <3>1. UNCHANGED runnerKeys /\ records'[j] = records[j]
      BY <1>4, <2>6, <2>9 DEF PutJIT, MarkJITCreated, IInv, TypeOK, StoreTypeOK
    <3>2. RunnersExclusive' /\ RunnersIssued'
      BY <1>2, <2>8, <3>1, TypeFacts, HeldKeeps
    <3>3. AbsentHoldsNothing' /\ KeysKept
      BY <2>7, <3>1 DEF XInv, AbsentHoldsNothing, KeysKept, KeyKept, Keyed
    <3> QED
      BY <3>2, <3>3 DEF XInv
  <2>10. CASE ~Settled(records[j])
    <3>1. records'[j].runner = id /\ records'[j].status # "absent"
      <4>1. records'[j] = MarkJITCreated(records[j], j, id, markers[id])
        BY <1>4, <2>6 DEF PutJIT, IInv, TypeOK, StoreTypeOK
      <4> QED
        BY <2>6, <2>10, <4>1, IdentityStored
    <3>2. \A i \in Runners : runnerKeys'[i] = IF i = id THEN j ELSE runnerKeys[i]
      BY <1>4, <2>10, TypeFacts DEF PutJIT
    <3>3. Held(j, id)
      BY DEF Held
    <3>4. \A k \in Jobs, i \in Runners : Held(k, i)' => Held(k, i)
      BY <2>8, <3>1
    <3> QED
      BY <1>2, <2>6, <2>7, <3>1, <3>2, <3>3, <3>4, IndexedKeeps
  <2> QED
    BY <2>9, <2>10
<1> QED
  BY <1>3, <1>4 DEF PersistJIT

LEMMA InstanceStored ==
  ASSUME NEW r \in Record, ~Settled(r), r.status # "absent", NEW i, NEW id
  PROVE  /\ MarkProvisioned(r, i, id).runner = id
         /\ MarkProvisioned(r, i, id).status # "absent"
  BY DEF MarkProvisioned, Record

\* The gap of MarkProvisioned: the record of worker w has got a runner back that
\* may be missing from the index.
Gap(w, j) ==
  /\ worker[w].pc = "persistVM" /\ worker[w].job = j
  /\ records[j].runner # worker[w].rec.runner
  /\ Indexing(w, j)'

LEMMA PersistVMIndexes ==
  ASSUME IInv, IInv', XInv, NEW w \in Workers, PersistVM(w)
  PROVE  XInv' /\ \A j \in Jobs : KeyKept(j) \/ Gap(w, j)
<1> DEFINE j == worker[w].job
           id == worker[w].rec.runner
           i == worker[w].inst
<1>1. worker[w].pc \in ProvisionPcs /\ worker[w].pc = "persistVM"
  BY DEF PersistVM, At, ProvisionPcs
<1>2. issued' = issued /\ UNCHANGED runnerKeys
  BY DEF PersistVM, PutInstance, Put, PutFails, CallsStore, githubVars
<1>3. CASE PutFails /\ Goto(w, ProvisionFailed(w, "other"))
  <2>1. XInv' /\ KeysKept
    BY <1>2, <1>3, TypeFacts, UnchangedQuiet, MovesKeep, QuietKeeps DEF Quiet, StoreQuiet
  <2> QED
    BY <2>1 DEF KeysKept
<1>4. CASE PutInstance(j, i, id) /\ worker' = [worker EXCEPT ![w] = HalfDone(w)]
  <2>1. /\ Working(w) /\ j \in Jobs /\ records[j] \in Record
        /\ records[j].status # "absent" /\ worker[w] \in Task
    BY <1>1, ProvisionedExists, TypeFacts
  <2>2. /\ \A k \in Jobs : k # j => records'[k] = records[k]
        /\ records'[j] = MarkProvisioned(records[j], i, id)
    BY <1>4, <2>1 DEF PutInstance, Put, IInv, TypeOK, StoreTypeOK
  <2>3. /\ worker'[w] = HalfDone(w)
        /\ \A v \in Workers : v # w => worker'[v] = worker[v]
    BY <1>4, TypeFacts
  <2>4. CASE Settled(records[j])
    <3>1. records'[j] = records[j] /\ worker'[w] = Idle
      BY <2>2, <2>3, <2>4 DEF MarkProvisioned, HalfDone
    <3>2. RecordsFade /\ WorkersKeep
      BY <2>2, <2>3, <3>1, FadesItself DEF RecordsFade, WorkersKeep
    <3>3. XInv' /\ KeysKept
      BY <1>2, <3>1, <3>2, TypeFacts, QuietKeeps DEF Quiet
    <3> QED
      BY <3>3 DEF KeysKept
  <2>5. CASE ~Settled(records[j])
    <3>1. records'[j].runner = id /\ records'[j].status # "absent"
      BY <2>1, <2>2, <2>5, InstanceStored
    <3>2. /\ id # NoRunner => /\ worker'[w].pc = "indexVM" /\ worker'[w].job = j
                              /\ worker'[w].jit = id /\ worker'[w].rec = Absent
          /\ id = NoRunner => worker'[w] = Idle
      BY <2>3, <2>5 DEF HalfDone, Idle
    <3>3. Held(j, id)
      BY DEF Held
    <3>4. ASSUME NEW k \in Jobs, NEW n \in Runners, Held(k, n)' PROVE Held(k, n)
      <4>1. CASE records'[k].runner = n
        BY <2>2, <3>1, <3>3, <4>1 DEF Held
      <4>2. CASE \E v \in Workers : v # w /\ worker'[v].job = k
                                   /\ (worker'[v].rec.runner = n \/ worker'[v].jit = n)
        BY <2>3, <4>2 DEF Held
      <4>3. CASE worker'[w].job = k /\ (worker'[w].rec.runner = n \/ worker'[w].jit = n)
        BY <3>2, <3>3, <4>3, IdleHoldsNothing, NothingIsNoId DEF Absent
      <4> QED
        BY <3>4, <4>1, <4>2, <4>3 DEF Held
    <3>5. RunnersExclusive' /\ RunnersIssued'
      BY <1>2, <3>4, TypeFacts, HeldKeeps
    <3>6. AbsentHoldsNothing'
      BY <2>2, <3>1 DEF XInv, AbsentHoldsNothing
    <3>7. ASSUME NEW k \in Jobs PROVE KeyKept(k) \/ Gap(w, k)
      <4>1. CASE k # j
        BY <1>2, <2>2, <4>1 DEF KeyKept, Keyed
      <4>2. CASE k = j /\ (id = NoRunner \/ records[j].runner = id)
        <5>1. records'[j].status = "deleted" => records[j].status = "deleted"
          BY <2>1, <2>2 DEF MarkProvisioned, Record
        <5> QED
          BY <1>2, <2>5, <3>1, <4>2, <5>1 DEF KeyKept, Keyed, Settled
      <4>3. CASE k = j /\ id # NoRunner /\ records[j].runner # id
        BY <1>1, <3>1, <3>2, <4>3 DEF Gap, Indexing, At
      <4> QED
        BY <4>1, <4>2, <4>3
    <3> QED
      BY <3>5, <3>6, <3>7 DEF XInv
  <2> QED
    BY <2>4, <2>5
<1> QED
  BY <1>3, <1>4 DEF PersistVM

\* The second half of MarkProvisioned closes the gap, and opens none: no other
\* record holds the runner it enters.
LEMMA IndexVMIndexes ==
  ASSUME IInv, IInv', XInv, NEW w \in Workers, IndexVM(w)
  PROVE  XInv' /\ KeysKept /\ \A j \in Jobs : Indexing(w, j) => Keyed(j)'
<1> DEFINE j == worker[w].job
           id == worker[w].jit
<1>1. j \in Jobs /\ id \in Runners \cup {NoRunner} /\ worker[w] \in Task
  BY TypeFacts DEF IndexVM, IInv, HoldsInstance, Task
<1>2. /\ records' = records /\ runnerKeys' = [runnerKeys EXCEPT ![id] = j]
      /\ issued' = issued
  BY DEF IndexVM, IndexInstance, CallsStore, githubVars
<1>3. RunnersExclusive' /\ RunnersIssued' /\ AbsentHoldsNothing'
  <2>1. RecordsFade
    BY <1>2, FadesItself DEF RecordsFade
  <2>2. WorkersKeep
    BY MovesKeep DEF IndexVM
  <2> QED
    BY <1>2, <2>1, <2>2, TypeFacts, FadingKeeps
<1>4. ASSUME NEW k \in Jobs, Keyed(k) \/ Indexing(w, k) PROVE Keyed(k)'
  <2> SUFFICES ASSUME records[k].runner # NoRunner, records[k].status # "deleted"
               PROVE  runnerKeys'[records[k].runner] = k
    BY <1>2 DEF Keyed
  <2>1. records[k].runner \in Runners
    BY TypeFacts DEF Record
  <2>2. CASE records[k].runner = id
    <3>1. Held(k, id) /\ Held(j, id)
      BY <2>2 DEF Held
    <3>2. k = j
      BY <1>1, <2>1, <2>2, <3>1 DEF XInv, RunnersExclusive
    <3> QED
      BY <1>2, <2>1, <2>2, <3>2, TypeFacts
  <2>3. CASE records[k].runner # id
    BY <1>2, <1>4, <2>1, <2>3, TypeFacts DEF Keyed, Indexing
  <2> QED
    BY <2>2, <2>3
<1> QED
  BY <1>2, <1>3, <1>4 DEF XInv, KeysKept, KeyKept

\* A restart rebuilds the index from the records, of which one at most holds
\* a given runner.
LEMMA RestartIndexes ==
  ASSUME IInv, IInv', XInv, Restart
  PROVE  XInv' /\ IndexComplete'
<1>1. RecordsFade
  BY TypeFacts, RecoverRecordFades DEF RecordsFade, Restart, Reopen, RecoveredRecords
<1>2. WorkersKeep
  BY DEF Restart, WorkersKeep
<1>3. issued' >= issued
  BY IssuedGrows DEF Restart
<1>4. RunnersExclusive' /\ RunnersIssued' /\ AbsentHoldsNothing'
  BY <1>1, <1>2, <1>3, FadingKeeps
<1>5. IndexComplete'
  <2> SUFFICES ASSUME NEW j \in Jobs, records'[j].runner # NoRunner,
                      records'[j].status # "deleted"
               PROVE  runnerKeys'[records'[j].runner] = j
    BY DEF IndexComplete, Keyed
  <2> DEFINE id == records'[j].runner
             Holds(k) == /\ records'[k].runner = id
                         /\ records'[k].status \notin {"absent", "deleted"}
  <2>1. id \in Runners
    <3>1. records'[j] \in Record
      BY DEF IInv, TypeOK, StoreTypeOK
    <3> QED
      BY <3>1 DEF Record
  <2>2. Holds(j)
    BY <1>4 DEF AbsentHoldsNothing
  <2>3. \A k \in Jobs : Holds(k) => k = j
    BY <1>4, <2>1 DEF RunnersExclusive, Held
  <2>4. runnerKeys'[id] = IF \E k \in Jobs : Holds(k)
                          THEN CHOOSE k \in Jobs : Holds(k) ELSE NoJob
    BY <2>1 DEF Restart, Reopen, RebuiltIndex
  <2> HIDE DEF id, Holds
  <2>5. runnerKeys'[id] = j
    BY <2>2, <2>3, <2>4
  <2> QED
    BY <2>5 DEF id
<1> QED
  BY <1>4, <1>5 DEF XInv

-----------------------------------------------------------------------------
(* The theorem.                                                              *)

LEMMA WorkerStepIndexes ==
  ASSUME IInv, IInv', XInv, NEW w \in Workers, WorkerStep(w)
  PROVE  XInv' /\ \A j \in Jobs : KeyKept(j) \/ Gap(w, j)
<1>1. CASE Claim(w)
  BY <1>1, ClaimIndexes DEF KeysKept
<1>2. CASE Scan(w) \/ Deregister(w) \/ Clear(w) \/ EndWork(w)
  BY <1>2, ScanQuiet, DeregisterQuiet, ClearQuiet, EndWorkQuiet, QuietKeeps DEF KeysKept
<1>3. CASE PersistVM(w)
  BY <1>3, PersistVMIndexes
<1>4. CASE ProvisionStep(w) /\ ~PersistVM(w)
  BY <1>4, FindQuiet, DemandQuiet, RetireQuiet, GenerateIndexes, PersistJITIndexes,
     DropJITQuiet, CreateQuiet, IndexVMIndexes, QuietKeeps DEF ProvisionStep, KeysKept
<1>5. CASE DeleteStep(w)
  BY <1>5, DeleteStepQuiet, QuietKeeps DEF KeysKept
<1> QED
  BY <1>1, <1>2, <1>3, <1>4, <1>5 DEF WorkerStep

LEMMA NextIndexes ==
  ASSUME IInv, IInv', XInv, [Next]_vars
  PROVE  /\ XInv'
         /\ \A j \in Jobs : \/ KeyKept(j) \/ Keyed(j)'
                            \/ \E w \in Workers : Gap(w, j)
<1>1. ASSUME NEW j \in Jobs, CompletedWebhook(j) PROVE XInv' /\ KeysKept
  BY <1>1, CompletedWebhookIndexes
<1>2. ASSUME NEW j \in Jobs,
             QueuedWebhook(j) \/ RunnerTakesJob(j) \/ ForeignRunnerTakesJob(j)
             \/ JobEnds(j) \/ RetryTimePasses(j)
      PROVE  XInv' /\ KeysKept
  BY <1>2, OutsideQuiet, QuietKeeps
<1>3. ASSUME NEW i \in Instances, InstanceMoves(i) PROVE XInv' /\ KeysKept
  <2>1. UNCHANGED <<storeVars, worker>> /\ issued' = issued
    BY <1>3 DEF InstanceMoves, githubVars
  <2> QED
    BY <2>1, TypeFacts, WorldQuiet, QuietKeeps
<1>4. CASE Outside
  BY <1>1, <1>2, <1>3, <1>4 DEF Outside, KeysKept
<1>5. CASE WorkersMove
  BY <1>5, WorkerStepIndexes DEF WorkersMove
<1>6. CASE ReaperMoves
  BY <1>6, ReaperQuiet, QuietKeeps DEF KeysKept
<1>7. CASE Restart
  BY <1>7, RestartIndexes DEF IndexComplete
<1>8. CASE UNCHANGED vars
  <2>1. UNCHANGED <<storeVars, worker>> /\ issued' = issued
    BY <1>8 DEF vars, githubVars
  <2> QED
    BY <2>1, TypeFacts, WorldQuiet, QuietKeeps DEF KeysKept
<1> QED
  BY <1>4, <1>5, <1>6, <1>7, <1>8 DEF Next

LEMMA IndexInvariance == Spec => []XInv
<1>1. IInv /\ IInv' /\ XInv /\ [Next]_vars => XInv'
  BY NextIndexes
<1> QED
  BY <1>1, XInitially, Invariance, PTL DEF Spec

-----------------------------------------------------------------------------
(* The gap of MarkProvisioned is closed by the worker that has opened it.    *)

\* A step of one worker leaves the others alone.
LEMMA OthersIdle ==
  ASSUME IInv, NEW v \in Workers, WorkerStep(v), NEW w \in Workers, w # v
  PROVE  worker'[w] = worker[w]
<1> USE DEF Goto, Finish
<1>1. worker \in [Workers -> Task]
  BY TypeFacts
<1>2. CASE Claim(v) \/ Scan(v) \/ Deregister(v) \/ Clear(v) \/ EndWork(v)
  BY <1>1, <1>2 DEF Claim, Scan, Deregister, Clear, EndWork
<1>3. CASE Find(v) \/ DropVM(v) \/ CheckDemand(v) \/ AskDemand(v) \/ Retire(v)
  BY <1>1, <1>3 DEF Find, DropVM, CheckDemand, AskDemand, Retire
<1>4. CASE Generate(v) \/ PersistJIT(v) \/ DropJIT(v) \/ Create(v)
  BY <1>1, <1>4 DEF Generate, PersistJIT, DropJIT, Create
<1>5. CASE PersistVM(v) \/ IndexVM(v) \/ CleanupExhausted(v)
  BY <1>1, <1>5 DEF PersistVM, IndexVM, CleanupExhausted
<1>6. CASE DeleteStep(v)
  BY <1>1, <1>6 DEF DeleteStep, DeleteInstance, AcceptDeletion, ConfirmAbsence,
     AwaitAbsence, CleanupRest, Recheck, AskOriginal, FinishDeletion, FinishFailed
<1> QED
  BY <1>2, <1>3, <1>4, <1>5, <1>6 DEF WorkerStep, ProvisionStep

\* A worker that is about to index a runner does just that, unless the process
\* ends first.
LEMMA IndexersWait ==
  ASSUME IInv, [Next]_vars, NEW w \in Workers, At(w, "indexVM")
  PROVE  worker'[w] = worker[w] \/ IndexVM(w) \/ Restart
<1>1. CASE Outside
  BY <1>1 DEF Outside, QueuedWebhook, CompletedWebhook, RunnerTakesJob,
     ForeignRunnerTakesJob, JobEnds, InstanceMoves, RetryTimePasses
<1>2. ASSUME NEW v \in Workers, WorkerStep(v) PROVE worker'[w] = worker[w] \/ IndexVM(w)
  <2>1. CASE v = w
    BY <1>2, <2>1 DEF At, WorkerStep, Claim, Scan, Deregister, DeregisterPcs, Clear,
       ClearPcs, EndWork, LastWritePcs, ProvisionStep, Find, DropVM, CheckDemand, AskDemand,
       Retire, Generate, PersistJIT, DropJIT, Create, PersistVM, CleanupExhausted,
       DeleteStep, DeleteInstance, AcceptDeletion, ConfirmAbsence, AwaitAbsence,
       CleanupRest, Recheck, AskOriginal, FinishDeletion, FinishFailed
  <2> QED
    BY <1>2, <2>1, OthersIdle
<1>3. CASE ReaperMoves
  BY <1>3 DEF ReaperMoves, RetentionPasses
<1> QED
  BY <1>1, <1>2, <1>3 DEF Next, WorkersMove, vars

LEMMA IndexFollows ==
  ASSUME IInv, IInv', XInv, IndexCaughtUp, [Next]_vars
  PROVE  IndexCaughtUp'
<1> SUFFICES ASSUME NEW j \in Jobs, ~Keyed(j)'
             PROVE  \E w \in Workers : Indexing(w, j)'
  BY DEF IndexCaughtUp
<1>1. CASE \E w \in Workers : Gap(w, j)
  BY <1>1 DEF Gap
<1>2. CASE KeyKept(j)
  <2>1. PICK w \in Workers : Indexing(w, j)
    BY <1>2 DEF KeyKept, IndexCaughtUp
  <2>2. CASE worker'[w] = worker[w]
    <3>1. records'[j].runner = records[j].runner
      BY <1>2 DEF KeyKept, Keyed
    <3> QED
      BY <2>1, <2>2, <3>1 DEF Indexing, At
  <2>3. CASE IndexVM(w)
    BY <2>1, <2>3, IndexVMIndexes
  <2>4. CASE Restart
    BY <2>4, RestartIndexes DEF IndexComplete
  <2> QED
    BY <2>1, <2>2, <2>3, <2>4, IndexersWait DEF Indexing
<1> QED
  BY <1>1, <1>2, NextIndexes

\* The completion of a runner finds the record that holds its registration,
\* whatever runners GitHub gave to whatever jobs, whatever became of the
\* identities that could not be stored, and also after a restart has rebuilt
\* the index; but for a record that MarkProvisioned has just given a runner
\* back: this one is missing until the worker that did so takes the lock again.
THEOREM IndexCatchesUp == Spec => []IndexCaughtUp
<1>1. IndexComplete => IndexCaughtUp
  BY DEF IndexComplete, IndexCaughtUp
<1>2. IInv /\ IInv' /\ XInv /\ IndexCaughtUp /\ [Next]_vars => IndexCaughtUp'
  BY IndexFollows
<1> QED
  BY <1>1, <1>2, XInitially, Invariance, IndexInvariance, PTL DEF Spec
=============================================================================
