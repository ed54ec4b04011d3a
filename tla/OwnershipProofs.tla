--------------------------- MODULE OwnershipProofs ---------------------------
(* Who owns a registration, for every set of jobs and workers, every ceiling *)
(* and retry budget, any errors of the calls, any failed writes, lagging     *)
(* listings, ambiguous creates and restarts, with or without a provider that *)
(* confirms absence.  One thing is assumed: no record reaches MAX_RUNNER_AGE *)
(* (~Aging).  Beyond it the reaper lists records whatever their state and,   *)
(* from a stale copy, may forget the registration of a later attempt.  The   *)
(* last two theorems assume more: DemandIsRestoredCleanly that listings do   *)
(* not lag, NoClaimIsAbandoned that absence is not confirmed.                *)
EXTENDS IndexProofs, CleanupProofs

-----------------------------------------------------------------------------
(* Records.                                                                  *)

\* What a claimed record may look like; and a record whose deletion waits,
\* while there is something to delete, is one whose own job is over.
Orderly(r) ==
  /\ r.claim = "provision" => r.status \in {"provisioning", "completed"}
  /\ r.claim = "delete" => r.status \in {"deleting", "completed", "orphaned"}
  /\ /\ r.status \in {"completed", "deleting"} /\ r.defer
     /\ r.instance # NoInstance \/ r.claim # NoClaim
     => r.jobCompleted

\* The job is over and no attempt to provide for it is made any more.
Over(r) ==
  /\ r.jobCompleted /\ r.claim # "provision"
  /\ r.status \notin {"absent", "pending", "provisioning"}

Present(r) == r.status \notin {"absent", "deleted"}

Advances(r, s) == Orderly(s) /\ (Over(r) => Over(s))

\* The record keeps its registration, and is not given up.
Stands(r, s) == s.runner = r.runner /\ (Present(r) => Present(s))

Tends(r, s) ==
  Advances(r, s) /\ Stands(r, s) /\ s.instance \in {r.instance, NoInstance}

LEMMA TendsItself == \A r : Orderly(r) => Tends(r, r)
  BY DEF Tends, Advances, Stands

LEMMA BackstopTends ==
  ASSUME NEW r \in Record, Sound(r), Orderly(r)
  PROVE  Tends(r, Backstop(r))
<1> SUFFICES ASSUME NEW s, s = Backstop(r) PROVE Tends(r, s)
  OBVIOUS
<1> QED
  BY DEF Sound, Tends, Advances, Stands, Orderly, Over, Present, Backstop, Record

LEMMA ClaimedTends ==
  ASSUME NEW r \in Record, Orderly(r), r.claim = NoClaim, r.runner \in Runners \cup {NoRunner},
         r.status = "pending" \/ (r.status = "completed" /\ ~r.defer)
  PROVE  Tends(r, Claimed(r))
<1> SUFFICES ASSUME NEW s, s = Claimed(r) PROVE Tends(r, s)
  OBVIOUS
<1> QED
  BY DEF Tends, Advances, Stands, Orderly, Over, Present, Claimed, ClaimProvision,
     ClaimDelete, Record, NoClaim

LEMMA ReleaseClaimTends ==
  ASSUME NEW r \in Record, Orderly(r), NEW kind \in WorkKinds
  PROVE  Tends(r, ReleaseClaim(r, kind))
<1> SUFFICES ASSUME NEW s, s = ReleaseClaim(r, kind) PROVE Tends(r, s)
  OBVIOUS
<1> QED
  BY DEF Tends, Advances, Stands, Orderly, Over, Present, ReleaseClaim, Refund, Settled,
     Record, WorkKinds, NoClaim

LEMMA DeferRateLimitedWorkTends ==
  ASSUME NEW r \in Record, Orderly(r), NEW kind \in WorkKinds
  PROVE  Tends(r, DeferRateLimitedWork(r, kind))
<1> SUFFICES ASSUME NEW s, s = DeferRateLimitedWork(r, kind) PROVE Tends(r, s)
  OBVIOUS
<1> QED
  BY DEF Tends, Advances, Stands, Orderly, Over, Present, DeferRateLimitedWork, Refund,
     Settled, Record, WorkKinds, NoClaim

LEMMA DeferProvisioningDemandTends ==
  ASSUME NEW r \in Record, Orderly(r)
  PROVE  Tends(r, DeferProvisioningDemand(r))
<1> SUFFICES ASSUME NEW s, s = DeferProvisioningDemand(r) PROVE Tends(r, s)
  OBVIOUS
<1> QED
  BY DEF Tends, Advances, Stands, Orderly, Over, Present, DeferProvisioningDemand, Refund,
     Settled, Record, NoClaim

LEMMA MarkProvisionFailedTends ==
  ASSUME NEW r \in Record, Orderly(r), r.claim = "provision"
  PROVE  Tends(r, MarkProvisionFailed(r))
<1> SUFFICES ASSUME NEW s, s = MarkProvisionFailed(r) PROVE Tends(r, s)
  OBVIOUS
<1> QED
  BY DEF Tends, Advances, Stands, Orderly, Over, Present, MarkProvisionFailed,
     Settled, Record, NoClaim

LEMMA MarkDeleteFailedTends ==
  ASSUME NEW r \in Record, Orderly(r), r.claim = "delete" \/ Untracked(r)
  PROVE  Tends(r, MarkDeleteFailed(r))
<1> SUFFICES ASSUME NEW s, s = MarkDeleteFailed(r) PROVE Tends(r, s)
  OBVIOUS
<1> QED
  BY DEF Tends, Advances, Stands, Orderly, Over, Present, MarkDeleteFailed, Untracked,
     Settled, Record, NoClaim

LEMMA DeletionTends ==
  ASSUME NEW r \in Record, Orderly(r)
  PROVE  /\ Tends(r, DeferDeletionConfirmation(r)) /\ Tends(r, DeferReassignmentDemand(r))
         /\ \A i : Tends(r, MarkDeletionAccepted(r, i))
         /\ Tends(r, MarkOrphaned(r)) /\ Tends(r, ScheduleDeletion(r))
<1> USE DEF Tends, Advances, Stands, Orderly, Over, Present, Record, NoClaim
<1>1. ASSUME NEW s, s = DeferDeletionConfirmation(r) PROVE Tends(r, s)
  BY <1>1 DEF DeferDeletionConfirmation, Refund
<1>2. ASSUME NEW s, s = DeferReassignmentDemand(r) PROVE Tends(r, s)
  BY <1>2 DEF DeferReassignmentDemand, Refund
<1>3. ASSUME NEW i, NEW s, s = MarkDeletionAccepted(r, i) PROVE Tends(r, s)
  BY <1>3 DEF MarkDeletionAccepted
<1>4. ASSUME NEW s, s = MarkOrphaned(r) PROVE Tends(r, s)
  BY <1>4 DEF MarkOrphaned
<1>5. ASSUME NEW s, s = ScheduleDeletion(r) PROVE Tends(r, s)
  BY <1>5 DEF ScheduleDeletion, Settled
<1> HIDE DEF Tends
<1> QED
  BY <1>1, <1>2, <1>3, <1>4, <1>5

LEMMA EventsTend ==
  ASSUME NEW r \in Record, Orderly(r), r.status = "absent" => r.runner = NoRunner
  PROVE  /\ Tends(r, [r EXCEPT !.due = TRUE])
         /\ \A own \in BOOLEAN : Tends(r, MatchedCompletion(r, own))
         /\ \A id : Tends(r, EventCompletion(r, id))
         /\ Tends(r, RecoverRecord(r))
         /\ r.status = "absent" => Tends(r, NewDemand)
<1> USE DEF Tends, Advances, Stands, Orderly, Over, Present, Record, NoClaim
<1>1. ASSUME NEW s, s = [r EXCEPT !.due = TRUE] PROVE Tends(r, s)
  BY <1>1
<1>2. ASSUME NEW own \in BOOLEAN, NEW s, s = MatchedCompletion(r, own) PROVE Tends(r, s)
  BY <1>2 DEF MatchedCompletion
<1>3. ASSUME NEW id, NEW s, s = EventCompletion(r, id) PROVE Tends(r, s)
  BY <1>3 DEF EventCompletion, Absent, Settled
<1>4. ASSUME NEW s, s = RecoverRecord(r) PROVE Tends(r, s)
  BY <1>4 DEF RecoverRecord, Refund
<1>5. ASSUME NEW s, s = NewDemand, r.status = "absent" PROVE Tends(r, s)
  BY <1>5 DEF NewDemand, Absent
<1> HIDE DEF Tends
<1> QED
  BY <1>1, <1>2, <1>3, <1>4, <1>5

LEMMA CleanupTends ==
  ASSUME NEW r \in Record, Orderly(r), r.claim # "provision"
  PROVE  /\ Tends(r, BeginCleanupAttempt(r))
         /\ \A a \in BOOLEAN : Tends(r, DeferRateLimitedCleanup(r, a))
         /\ \A a, b \in BOOLEAN : Tends(r, DeferReconciliation(r, a, b))
<1> USE DEF Tends, Advances, Stands, Orderly, Over, Present, Record, NoClaim, Settled
<1>1. ASSUME NEW s, s = BeginCleanupAttempt(r) PROVE Tends(r, s)
  BY <1>1 DEF BeginCleanupAttempt, CleanupReady
<1>2. ASSUME NEW a \in BOOLEAN, NEW s, s = DeferRateLimitedCleanup(r, a) PROVE Tends(r, s)
  BY <1>2 DEF DeferRateLimitedCleanup
<1>3. ASSUME NEW a \in BOOLEAN, NEW b \in BOOLEAN, NEW s, s = DeferReconciliation(r, a, b)
      PROVE  Tends(r, s)
  BY <1>3 DEF DeferReconciliation
<1> HIDE DEF Tends
<1> QED
  BY <1>1, <1>2, <1>3

\* The mutators that change the registration or give the record up.
LEMMA EndsAdvance ==
  ASSUME NEW r \in Record, Orderly(r)
  PROVE  /\ Advances(r, ClearJIT(r)) /\ Advances(r, MarkDeleted(r))
         /\ \A queued \in BOOLEAN : Advances(r, FinishDeletedRunner(r, queued))
<1> USE DEF Advances, Orderly, Over, Record, NoClaim
<1>1. ASSUME NEW s, s = ClearJIT(r) PROVE Advances(r, s)
  BY <1>1 DEF ClearJIT
<1>2. ASSUME NEW s, s = MarkDeleted(r) PROVE Advances(r, s)
  BY <1>2 DEF MarkDeleted
<1>3. ASSUME NEW queued \in BOOLEAN, NEW s, s = FinishDeletedRunner(r, queued)
      PROVE  Advances(r, s)
  BY <1>3 DEF FinishDeletedRunner, RestoresDemand, MarkDeleted, Settled
<1> HIDE DEF Advances
<1> QED
  BY <1>1, <1>2, <1>3

LEMMA ProvisioningAdvances ==
  ASSUME NEW r \in Record, Orderly(r), r.claim = "provision"
  PROVE  /\ \A job, id, marker : Advances(r, MarkJITCreated(r, job, id, marker))
         /\ \A i, id : Advances(r, MarkProvisioned(r, i, id))
<1> USE DEF Advances, Orderly, Over, Record, NoClaim, Settled
<1>1. ASSUME NEW job, NEW id, NEW marker, NEW s, s = MarkJITCreated(r, job, id, marker)
      PROVE  Advances(r, s)
  <2> DEFINE same == marker = job
  <2>1. PICK b \in BOOLEAN : b = (r.jobCompleted \/ same)
    BY DEF Record
  <2> QED
    BY <1>1, <2>1 DEF MarkJITCreated
<1>2. ASSUME NEW i, NEW id, NEW s, s = MarkProvisioned(r, i, id) PROVE Advances(r, s)
  BY <1>2 DEF MarkProvisioned
<1> HIDE DEF Advances
<1> QED
  BY <1>1, <1>2

-----------------------------------------------------------------------------
(* The inductive invariant.                                                  *)

Known(id) == id <= issued

\* GitHub has issued the id and does not know it any more, or it is no id.
Dead(id) == id \notin registered /\ Known(id)

RecordsOrderly == \A j \in Jobs : Orderly(records[j])

\* The reaper's copies with an instance are of records whose job is over.
HandledWithInstance(j) ==
  \/ reaper.todo[j].status # "absent" /\ reaper.todo[j].instance # NoInstance
  \/ reaper.job = j /\ reaper.pc \notin UntrackedPcs \cup {"idle"}

HandledOver == \A j \in Jobs : HandledWithInstance(j) => Over(records[j])

\* Since the reaper or a worker copied a record, its registration has at most
\* been forgotten; and where they go on to forget it, it is gone.  A worker that
\* provides for a record is the only one to forget the registration of it.
Remembers(j, copy) == records[j].runner \in {copy.runner, NoRunner}

ReapedPcs == {"reapVMs", "markDeleted", "clearPrepared", "clearOrphan"}

ReaperHolds ==
  /\ \A j \in Jobs : /\ reaper.todo[j].status # "absent" => Remembers(j, reaper.todo[j])
                     /\ Known(reaper.todo[j].runner)
  /\ reaper.pc # "idle" => Remembers(reaper.job, reaper.rec)
  /\ Known(reaper.rec.runner)
  /\ reaper.pc \in ReapedPcs => Dead(reaper.rec.runner)

RemovedPcs == {"clearIdle", "clearStale", "clearExhausted", "clearOrphanProvision",
               "retire", "recheck", "askOriginal", "finish", "finishFailed",
               "clearOrphanDelete"}

BarePcs == {"generate", "persistJIT", "dropJIT"}
ReadyPcs == {"demand", "ask", "create"}
FoundPcs == {"persistVM", "dropVM"}
KeptPcs == {"find", "persistVM"}

WorkerHolds(w) ==
  LET t == worker[w]
      r == records[t.job]
  IN /\ Remembers(t.job, t.rec)
     /\ t.pc \in RemovedPcs => Dead(t.rec.runner)
     /\ t.pc \in BarePcs => r.runner = NoRunner
     /\ t.pc \in ReadyPcs /\ t.jit # NoRunner => r.runner = t.jit /\ t.rec.runner = t.jit
     /\ t.pc = "find" => t.jit = NoRunner
     /\ t.pc = "create" => t.jit # NoRunner
     /\ t.pc \in FoundPcs => t.inst \in Instances /\ vm[t.inst].job = t.job
     /\ t.pc \in KeptPcs => r.runner = t.rec.runner

WorkersHold == \A w \in Workers : Working(w) => WorkerHolds(w)

\* An instance keeps its tag and its registration, and a record names none of
\* another job.
Carried ==
  /\ \A i \in Instances :
       /\ vm[i].state = "none" => vm[i].runner = NoRunner /\ vm[i].job = NoJob
       /\ vm[i].state # "none" => vm[i].job \in Jobs
       /\ Known(vm[i].runner)
  /\ \A j \in Jobs : records[j].instance # NoInstance => vm[records[j].instance].job = j

\* As long as GitHub knows the runner of an instance, the record of the job the
\* instance was made for is there and names it.
Registrations ==
  \A i \in Instances : vm[i].runner \in registered =>
    /\ records[vm[i].job].runner = vm[i].runner
    /\ Present(records[vm[i].job])

\* A runner executes one job, keeps its registration meanwhile, and runs on an
\* instance of this controller.
Runs ==
  /\ \A j, k \in Jobs : ranOn[j] = ranOn[k] /\ ranOn[j] \in Runners => j = k
  /\ \A j \in Jobs : jobState[j] = "running" /\ ranOn[j] \in Runners =>
       ranOn[j] \in registered /\ \E i \in Instances : vm[i].runner = ranOn[j]

OInv ==
  /\ RecordsOrderly /\ HandledOver /\ ReaperHolds /\ WorkersHold
  /\ Carried /\ Registrations /\ Runs

LEMMA OwnedInitially == Init => OInv
<1> SUFFICES ASSUME Init PROVE OInv
  OBVIOUS
<1> USE DEF Init, StoreInit, GitHubInit, ProviderInit, WorkerInit, ReaperInit
<1>1. \A j \in Jobs : records[j] = Absent
  OBVIOUS
<1>2. RecordsOrderly
  BY <1>1 DEF RecordsOrderly, Orderly, Absent, NoClaim
<1>3. reaper.pc = "idle" /\ reaper.rec = Absent /\ reaper.job = NoJob
      /\ \A j \in Jobs : reaper.todo[j] = Absent
  BY DEF ReaperIdle, NothingListed
<1>4. HandledOver
  BY <1>3 DEF HandledOver, HandledWithInstance, Absent
<1>5. ReaperHolds
  BY <1>3 DEF ReaperHolds, Absent, Known, ReapedPcs, NoRunner
<1>6. WorkersHold
  BY DEF WorkersHold, Working, Idle
<1>7. Carried
  BY <1>1 DEF Carried, Known, Absent, NoRunner
<1>8. Registrations
  BY DEF Registrations
<1>9. Runs
  BY NothingIsNoId DEF Runs
<1> QED
  BY <1>2, <1>4, <1>5, <1>6, <1>7, <1>8, <1>9 DEF OInv

-----------------------------------------------------------------------------
(* How the parts of the state may move.                                      *)

AnyId == Runners \cup {NoRunner}

\* Ids are not issued again.
IdsStay == \A id \in AnyId : (Known(id) => Known(id)') /\ (Dead(id) => Dead(id)')

\* Instances keep what they were started with.
TagsStay ==
  \A i \in Instances : /\ vm'[i].job = vm[i].job /\ vm'[i].runner = vm[i].runner
                       /\ vm'[i].state = "none" <=> vm[i].state = "none"

\* Nobody is interrupted.
RunsStay ==
  /\ UNCHANGED <<jobState, ranOn>>
  /\ \A j \in Jobs : jobState[j] = "running" /\ ranOn[j] \in registered
                     => ranOn[j] \in registered'

\* A record changes its registration, or is given up, only when that
\* registration does not exist; and it gains none but from its own worker.
Moves(r, s) ==
  /\ Advances(r, s)
  /\ Stands(r, s) \/ ~Present(r) \/ r.runner \notin registered
  /\ r.claim # "provision" => s.runner \in {r.runner, NoRunner}

NamesOwn(j) ==
  \/ records'[j].instance \in {records[j].instance, NoInstance}
  \/ vm'[records'[j].instance].job = j

\* own: the jobs whose worker makes the step.
RecordsMove(own) ==
  \A j \in Jobs :
    /\ Moves(records[j], records'[j]) /\ NamesOwn(j)
    /\ records[j].claim = "provision" /\ j \notin own
         => records'[j].runner = records[j].runner

\* What of it matters to everybody but the reaper.
RecordsKeep(own) ==
  \A j \in Jobs :
    /\ Orderly(records'[j]) /\ NamesOwn(j)
    /\ \/ Stands(records[j], records'[j])
       \/ ~Present(records[j]) \/ records[j].runner \notin registered
    /\ records[j].claim # "provision" => records'[j].runner \in {records[j].runner, NoRunner}
    /\ records[j].claim = "provision" /\ j \notin own
         => records'[j].runner = records[j].runner

LEMMA MovingKeeps == \A own : RecordsMove(own) => RecordsKeep(own)
  BY DEF RecordsMove, Moves, Advances, RecordsKeep

LEMMA Ids ==
  ASSUME IInv
  PROVE  /\ \A j \in Jobs : records[j] \in Record /\ records[j].runner \in AnyId
         /\ \A i \in Instances : vm[i].runner \in AnyId
         /\ \A w \in Workers : worker[w].rec.runner \in AnyId /\ worker[w].jit \in AnyId
         /\ reaper.rec.runner \in AnyId
         /\ \A j \in Jobs : reaper.todo[j].runner \in AnyId
         /\ issued \in Nat /\ registered \subseteq Runners
  BY BoundsAssumption DEF IInv, TypeOK, StoreTypeOK, ProviderTypeOK, WorkerTypeOK, Task,
     ReaperTypeOK, GitHubTypeOK, Record, AnyId

LEMMA TendsMoves ==
  ASSUME NEW r, NEW s, Tends(r, s)
  PROVE  Moves(r, s)
  BY DEF Tends, Moves, Stands

LEMMA SameMoves ==
  ASSUME OInv, records' = records, NEW own
  PROVE  RecordsMove(own)
  BY TendsItself, TendsMoves DEF OInv, RecordsOrderly, RecordsMove, NamesOwn

LEMMA TendingMoves ==
  ASSUME \A j \in Jobs : Tends(records[j], records'[j]), NEW own
  PROVE  RecordsMove(own)
  BY TendsMoves DEF RecordsMove, NamesOwn, Tends, Stands

\* The parts of the invariant that no worker and no copy is about.
LEMMA WorldKeeps ==
  ASSUME IInv, IInv', OInv, IdsStay, TagsStay, NEW own, RecordsKeep(own)
  PROVE  RecordsOrderly' /\ Carried' /\ Registrations'
<1>1. RecordsOrderly'
  BY DEF RecordsKeep, RecordsOrderly
<1>2. Carried'
  <2>1. ASSUME NEW i \in Instances
        PROVE  /\ vm'[i].state = "none" => vm'[i].runner = NoRunner /\ vm'[i].job = NoJob
               /\ vm'[i].state # "none" => vm'[i].job \in Jobs
               /\ Known(vm[i].runner)'
    <3>1. vm'[i].runner = vm[i].runner /\ vm[i].runner \in AnyId
      BY Ids DEF TagsStay
    <3>2. Known(vm[i].runner)
      BY DEF OInv, Carried
    <3>3. vm[i].runner <= issued'
      BY <3>1, <3>2 DEF IdsStay, Known
    <3> QED
      BY <3>1, <3>3 DEF OInv, Carried, TagsStay, Known
  <2>2. ASSUME NEW j \in Jobs, records'[j].instance # NoInstance
        PROVE  vm'[records'[j].instance].job = j
    <3>1. records'[j].instance \in Instances
      BY <2>2, Ids DEF IInv, TypeOK, StoreTypeOK, Record
    <3> QED
      BY <2>2, <3>1 DEF OInv, Carried, RecordsKeep, NamesOwn, TagsStay
  <2> QED
    BY <2>1, <2>2 DEF Carried
<1>3. Registrations'
  <2> SUFFICES ASSUME NEW i \in Instances, vm'[i].runner \in registered'
               PROVE  /\ records'[vm'[i].job].runner = vm'[i].runner
                      /\ Present(records'[vm'[i].job])
    BY DEF Registrations
  <2>1. vm'[i].runner = vm[i].runner /\ vm'[i].job = vm[i].job
    BY DEF TagsStay
  <2>2. vm[i].runner \in registered
    BY <2>1, Ids DEF OInv, Carried, IdsStay, Dead
  <2>3. vm[i].runner # NoRunner
    BY <2>2, Ids, NothingIsNoId
  <2>4. vm[i].job \in Jobs
    BY <2>3 DEF OInv, Carried
  <2>5. records[vm[i].job].runner = vm[i].runner /\ Present(records[vm[i].job])
    BY <2>2 DEF OInv, Registrations
  <2> QED
    BY <2>1, <2>2, <2>4, <2>5 DEF RecordsKeep, Stands
<1> QED
  BY <1>1, <1>2, <1>3

LEMMA RunsKeep ==
  ASSUME OInv, TagsStay, RunsStay
  PROVE  Runs'
  BY DEF OInv, Runs, TagsStay, RunsStay

\* Whoever is not the one to move still holds what it held.
LEMMA OthersHold ==
  ASSUME IInv, OInv, IdsStay, TagsStay, NEW own, RecordsKeep(own),
         NEW v \in Workers, Working(v), worker'[v] = worker[v], worker[v].job \notin own
  PROVE  WorkerHolds(v)'
<1> DEFINE t == worker[v]
<1>1. /\ t.job \in Jobs /\ t.rec.runner \in AnyId /\ t.jit \in AnyId
      /\ WorkerHolds(v) /\ records[t.job].runner \in AnyId
  BY WorkingFacts, Ids DEF OInv, WorkersHold
<1>2. records'[t.job].runner \in {records[t.job].runner, NoRunner}
  BY <1>1 DEF RecordsKeep
<1>3. t.pc \in ReadyPcs \cup KeptPcs => records'[t.job].runner = records[t.job].runner
  BY <1>1, WorkingFacts DEF RecordsKeep, KindOf, ReadyPcs, KeptPcs, ProvisionPcs
<1>4. Dead(t.rec.runner) => Dead(t.rec.runner)'
  BY <1>1 DEF IdsStay
<1> QED
  BY <1>1, <1>2, <1>3, <1>4 DEF WorkerHolds, Remembers, Dead, Known, TagsStay

\* No worker provides for what the reaper has a copy of.
LEMMA HandledIsNotProvided ==
  ASSUME IInv, OInv, NEW j \in Jobs,
         reaper.todo[j].status # "absent" \/ (reaper.pc # "idle" /\ reaper.job = j)
  PROVE  records[j].claim # "provision"
<1>1. InReaperHands(j) \/ HandledWithInstance(j)
  BY DEF InReaperHands, HandledWithInstance
<1>2. CASE InReaperHands(j)
  BY <1>2 DEF IInv, ReaperKeepsToUntracked, Untracked, NoClaim
<1>3. CASE HandledWithInstance(j)
  BY <1>3 DEF OInv, HandledOver, Over
<1> QED
  BY <1>1, <1>2, <1>3

\* What is true of the reaper's copies stays true of them.
LEMMA CopiesHold ==
  ASSUME IInv, OInv, IdsStay, NEW own, RecordsMove(own)
  PROVE  /\ \A j \in Jobs : /\ HandledWithInstance(j) => Over(records'[j])
                            /\ reaper.todo[j].status # "absent" =>
                                 records'[j].runner \in {reaper.todo[j].runner, NoRunner}
                            /\ reaper.todo[j].runner <= issued'
         /\ reaper.pc # "idle" =>
              records'[reaper.job].runner \in {reaper.rec.runner, NoRunner}
         /\ reaper.rec.runner <= issued'
         /\ Dead(reaper.rec.runner) => reaper.rec.runner \notin registered'
<1>1. ASSUME NEW j \in Jobs, HandledWithInstance(j) PROVE Over(records'[j])
  BY <1>1 DEF OInv, HandledOver, RecordsMove, Moves, Advances
<1>2. ASSUME NEW j \in Jobs, reaper.todo[j].status # "absent"
      PROVE  records'[j].runner \in {reaper.todo[j].runner, NoRunner}
  <2>1. records[j].claim # "provision"
    BY <1>2, HandledIsNotProvided
  <2> QED
    BY <1>2, <2>1 DEF OInv, ReaperHolds, Remembers, RecordsMove, Moves
<1>3. ASSUME reaper.pc # "idle"
      PROVE  records'[reaper.job].runner \in {reaper.rec.runner, NoRunner}
  <2>1. reaper.job \in Jobs
    BY <1>3 DEF IInv, ReaperHasJob
  <2>2. records[reaper.job].claim # "provision"
    BY <1>3, <2>1, HandledIsNotProvided
  <2> QED
    BY <1>3, <2>1, <2>2 DEF OInv, ReaperHolds, Remembers, RecordsMove, Moves
<1>4. ASSUME NEW j \in Jobs PROVE reaper.todo[j].runner <= issued'
  BY Ids DEF OInv, ReaperHolds, IdsStay, Known
<1>5. /\ reaper.rec.runner <= issued'
      /\ Dead(reaper.rec.runner) => reaper.rec.runner \notin registered'
  BY Ids DEF OInv, ReaperHolds, IdsStay, Known, Dead
<1> QED
  BY <1>1, <1>2, <1>3, <1>4, <1>5

LEMMA ReaperKeepsHold ==
  ASSUME IInv, OInv, IdsStay, NEW own, RecordsMove(own), UNCHANGED reaper
  PROVE  HandledOver' /\ ReaperHolds'
<1>1. HandledOver'
  BY CopiesHold DEF HandledOver, HandledWithInstance
<1>2. ReaperHolds'
  BY CopiesHold DEF OInv, ReaperHolds, Remembers, Known, Dead
<1> QED
  BY <1>1, <1>2

\* A step of a worker.
LEMMA OwnStep ==
  ASSUME IInv, IInv', OInv, IdsStay, TagsStay, RunsStay, UNCHANGED reaper,
         NEW w \in Workers, Working(w), RecordsMove({worker[w].job}),
         \A v \in Workers : v # w => worker'[v] = worker[v],
         Working(w)' => WorkerHolds(w)'
  PROVE  OInv'
<1>1. RecordsOrderly' /\ Carried' /\ Registrations'
  BY MovingKeeps, WorldKeeps
<1>2. Runs'
  BY RunsKeep
<1>3. HandledOver' /\ ReaperHolds'
  BY ReaperKeepsHold
<1>4. WorkersHold'
  <2> SUFFICES ASSUME NEW v \in Workers, Working(v)' PROVE WorkerHolds(v)'
    BY DEF WorkersHold
  <2>1. CASE v = w
    BY <2>1
  <2>2. CASE v # w
    <3>1. Working(v) /\ worker'[v] = worker[v]
      BY <2>2 DEF Working
    <3>2. worker[v].job \notin {worker[w].job}
      BY <2>2, <3>1 DEF IInv, ClaimsExclusive
    <3> QED
      BY <3>1, <3>2, MovingKeeps, OthersHold
  <2> QED
    BY <2>1, <2>2
<1> QED
  BY <1>1, <1>2, <1>3, <1>4 DEF OInv

\* A step outside the workers, on which the reaper's part is shown.
LEMMA OutsideStep ==
  ASSUME IInv, IInv', OInv, IdsStay, TagsStay, Runs', RecordsMove({}),
         UNCHANGED worker, HandledOver' /\ ReaperHolds'
  PROVE  OInv'
<1>1. RecordsOrderly' /\ Carried' /\ Registrations'
  BY MovingKeeps, WorldKeeps
<1>2. WorkersHold'
  BY MovingKeeps, OthersHold DEF WorkersHold, Working
<1> QED
  BY <1>1, <1>2 DEF OInv

-----------------------------------------------------------------------------
(* Calls of GitHub and of the provider.                                      *)

LEMMA GitHubSteady ==
  ASSUME IInv
  PROVE  /\ UNCHANGED githubVars => IdsStay /\ RunsStay
         /\ Issue => IdsStay /\ RunsStay
         /\ \A id : RemoveRepoRunner(id) => IdsStay /\ RunsStay
         /\ \A id, e : RemovalFails(id, e) => IdsStay /\ RunsStay
<1>1. issued \in Nat /\ AnyId \subseteq Nat
  BY Ids, BoundsAssumption DEF AnyId, Runners, NoRunner
<1>2. UNCHANGED githubVars => IdsStay /\ RunsStay
  BY DEF githubVars, IdsStay, RunsStay, Known, Dead
<1>3. Issue => IdsStay /\ RunsStay
  BY <1>1 DEF Issue, IdsStay, RunsStay, Known, Dead
<1>4. ASSUME NEW id, RemoveRepoRunner(id) PROVE IdsStay /\ RunsStay
  BY <1>4 DEF RemoveRepoRunner, Busy, IdsStay, RunsStay, Known, Dead
<1> QED
  BY <1>2, <1>3, <1>4 DEF RemovalFails

LEMMA RemovalKills ==
  ASSUME NEW id, Known(id), RemoveRepoRunner(id)
  PROVE  id \notin registered' /\ id <= issued'
  BY DEF RemoveRepoRunner, Known

LEMMA NothingIsDead ==
  ASSUME IInv
  PROVE  Dead(NoRunner)
  BY Ids, NothingIsNoId DEF Dead, Known, NoRunner

LEMMA InstancesSteady ==
  ASSUME IInv
  PROVE  /\ UNCHANGED vm => TagsStay
         /\ \A i : DeleteVM(i) \/ DeleteFails(i) \/ DeleteMismatches(i) => TagsStay
         /\ \A i \in Instances : Appear(i) \/ Disappear(i) \/ Preempted(i) => TagsStay
         /\ \A j, k : CleanupVMs(j, k) => TagsStay
         /\ \A j, k : CleanupStops(j, k) \/ CleanupMismatches(j, k) => TagsStay
<1> USE DEF TagsStay, IInv, TypeOK, ProviderTypeOK
<1>1. UNCHANGED vm => TagsStay
  OBVIOUS
<1>2. ASSUME NEW i, DeleteVM(i) PROVE TagsStay
  BY <1>2 DEF DeleteVM, Alive, Leave
<1>3. ASSUME NEW i \in Instances, Appear(i) \/ Disappear(i) \/ Preempted(i) PROVE TagsStay
  BY <1>3 DEF Appear, Disappear, Preempted, Alive
<1>4. ASSUME NEW j, NEW k, CleanupVMs(j, k) PROVE TagsStay
  BY <1>4 DEF CleanupVMs, ListedFor, Leave
<1>5. ASSUME NEW j, NEW k, CleanupStops(j, k) PROVE TagsStay
  BY <1>5 DEF CleanupStops, ListedFor, Leave
<1> QED
  BY <1>1, <1>2, <1>3, <1>4, <1>5 DEF DeleteFails, DeleteMismatches, CleanupMismatches

-----------------------------------------------------------------------------
(* What workers hold.                                                        *)

LEMMA WorkerKnows ==
  ASSUME IInv, XInv, NEW w \in Workers, Working(w)
  PROVE  Known(worker[w].rec.runner) /\ Known(worker[w].jit)
<1>1. worker[w].job \in Jobs
  BY WorkingFacts
<1>2. \A id \in Runners : worker[w].rec.runner = id \/ worker[w].jit = id => Known(id)
  BY <1>1 DEF XInv, RunnersIssued, Held, Known
<1> QED
  BY <1>2, Ids DEF AnyId, Known, NoRunner

LEMMA RecordKnown ==
  ASSUME IInv, XInv, NEW j \in Jobs
  PROVE  Known(records[j].runner)
<1>1. \A id \in Runners : records[j].runner = id => Known(id)
  BY DEF XInv, RunnersIssued, Held, Known
<1> QED
  BY <1>1, Ids DEF AnyId, Known, NoRunner

LEMMA GotoMoves ==
  ASSUME IInv, NEW w \in Workers, NEW pc, Goto(w, pc)
  PROVE  /\ worker'[w].pc = pc /\ worker'[w].job = worker[w].job
         /\ worker'[w].rec = worker[w].rec /\ worker'[w].jit = worker[w].jit
         /\ worker'[w].inst = worker[w].inst
         /\ \A v \in Workers : v # w => worker'[v] = worker[v]
  BY DEF IInv, TypeOK, WorkerTypeOK, Task, Goto

\* The worker goes on where more may be expected of it.
LEMMA GotoHolds ==
  ASSUME IInv, OInv, NEW w \in Workers, Working(w), NEW pc, Goto(w, pc),
         records'[worker[w].job].runner \in {records[worker[w].job].runner, NoRunner},
         pc \in RemovedPcs =>
           worker[w].rec.runner \notin registered' /\ worker[w].rec.runner <= issued',
         pc \in BarePcs => records'[worker[w].job].runner = NoRunner,
         pc \in ReadyPcs =>
           \/ worker[w].jit = NoRunner /\ pc # "create"
           \/ /\ worker[w].jit # NoRunner
              /\ records'[worker[w].job].runner = worker[w].jit
              /\ worker[w].rec.runner = worker[w].jit,
         pc \notin FoundPcs /\ pc # "find"
  PROVE  WorkerHolds(w)'
<1>1. WorkerHolds(w)
  BY DEF OInv, WorkersHold
<1>2. records'[worker[w].job].runner \in {worker[w].rec.runner, NoRunner}
  BY <1>1 DEF WorkerHolds, Remembers
<1> QED
  BY <1>2, GotoMoves DEF WorkerHolds, Remembers, Dead, Known, ReadyPcs, FoundPcs, KeptPcs

\* The worker goes on where nothing more is expected of it.
QuietPcs == DeregisterPcs \cup LastWritePcs
              \cup {"exhausted", "vmDelete", "accept", "confirm", "await", "cleanup"}

LEMMA QuietHolds ==
  ASSUME IInv, OInv, NEW w \in Workers, Working(w), NEW pc \in QuietPcs, Goto(w, pc),
         records'[worker[w].job].runner \in {records[worker[w].job].runner, NoRunner}
  PROVE  WorkerHolds(w)'
<1>1. /\ pc \notin RemovedPcs /\ pc \notin BarePcs /\ pc \notin ReadyPcs
      /\ pc \notin FoundPcs /\ pc # "find"
  BY DEF QuietPcs, RemovedPcs, BarePcs, ReadyPcs, FoundPcs, DeregisterPcs, LastWritePcs
<1> QED
  BY <1>1, GotoHolds

LEMMA Owning ==
  ASSUME IInv, OInv, NEW w \in Workers, Working(w)
  PROVE  /\ WorkerHolds(w) /\ Orderly(records[worker[w].job])
         /\ records[worker[w].job].runner \in {worker[w].rec.runner, NoRunner}
         /\ worker[w].pc \in RemovedPcs => Dead(worker[w].rec.runner)
         /\ worker[w].pc \in RemovedPcs => records[worker[w].job].runner \notin registered
<1>1. worker[w].job \in Jobs
  BY WorkingFacts
<1>2. WorkerHolds(w) /\ Orderly(records[worker[w].job])
  BY <1>1 DEF OInv, WorkersHold, RecordsOrderly
<1>3. NoRunner \notin registered
  BY NothingIsDead DEF Dead
<1> QED
  BY <1>2, <1>3 DEF WorkerHolds, Remembers, Dead

LEMMA GotoStep ==
  ASSUME IInv, IInv', OInv, IdsStay, TagsStay, RunsStay, UNCHANGED reaper,
         NEW w \in Workers, Working(w), RecordsMove({worker[w].job}),
         NEW pc, Goto(w, pc), WorkerHolds(w)'
  PROVE  OInv'
  BY GotoMoves, OwnStep

\* The worker gives up its record.
LEMMA LeaveStep ==
  ASSUME IInv, IInv', OInv, IdsStay, TagsStay, RunsStay, UNCHANGED reaper,
         NEW w \in Workers, Working(w), RecordsMove({worker[w].job}),
         NEW t, Resting(t), worker' = [worker EXCEPT ![w] = t]
  PROVE  OInv'
<1>1. \A v \in Workers : v # w => worker'[v] = worker[v]
  BY DEF IInv, TypeOK, WorkerTypeOK
<1>2. ~Working(w)'
  BY DEF Resting, IInv, TypeOK, WorkerTypeOK, Working
<1> QED
  BY <1>1, <1>2, OwnStep

LEMMA FinishStep ==
  ASSUME IInv, IInv', OInv, IdsStay, TagsStay, RunsStay, UNCHANGED reaper,
         NEW w \in Workers, Working(w), RecordsMove({worker[w].job}), Finish(w)
  PROVE  OInv'
  BY IdleRests, LeaveStep DEF Finish

\* A call that is not a store call.
LEMMA RemoteStep ==
  ASSUME IInv, IInv', OInv, IdsStay, TagsStay, RunsStay, UNCHANGED <<storeVars, reaper>>,
         NEW w \in Workers, Working(w), NEW pc, Goto(w, pc), WorkerHolds(w)'
  PROVE  OInv'
<1>1. RecordsMove({worker[w].job})
  BY SameMoves DEF storeVars
<1> QED
  BY <1>1, GotoStep

LEMMA QuietRemoteStep ==
  ASSUME IInv, IInv', OInv, IdsStay, TagsStay, RunsStay, UNCHANGED <<storeVars, reaper>>,
         NEW w \in Workers, Working(w), NEW pc \in QuietPcs, Goto(w, pc)
  PROVE  OInv'
<1>1. records' = records
  BY DEF storeVars
<1> QED
  BY <1>1, QuietHolds, RemoteStep

LEMMA StoreCallSteady ==
  ASSUME IInv, CallsStore
  PROVE  IdsStay /\ RunsStay /\ TagsStay
  BY GitHubSteady, InstancesSteady DEF CallsStore

LEMMA PutMoves ==
  ASSUME IInv, OInv, NEW j \in Jobs, NEW s, Put(j, s), Moves(records[j], s),
         s.instance \in {records[j].instance, NoInstance}
  PROVE  /\ RecordsMove({j}) /\ records'[j] = s
         /\ (records[j].claim = "provision" => s.runner = records[j].runner)
              => RecordsMove({})
<1>1. records'[j] = s /\ \A k \in Jobs : k # j => records'[k] = records[k]
  BY DEF Put, IInv, TypeOK, StoreTypeOK
<1>2. \A k \in Jobs : Tends(records[k], records[k])
  BY TendsItself DEF OInv, RecordsOrderly
<1>3. \A k \in Jobs : Moves(records[k], records'[k])
  BY <1>1, <1>2, TendsMoves
<1> QED
  BY <1>1, <1>3 DEF RecordsMove, NamesOwn

LEMMA PutTends ==
  ASSUME IInv, OInv, NEW j \in Jobs, NEW s, Put(j, s), Tends(records[j], s)
  PROVE  RecordsMove({j}) /\ RecordsMove({}) /\ records'[j] = s /\ s.runner = records[j].runner
<1>1. s.runner = records[j].runner /\ s.instance \in {records[j].instance, NoInstance}
  BY DEF Tends, Stands
<1> QED
  BY <1>1, PutMoves, TendsMoves

\* A store call that fails.
LEMMA FailedStep ==
  ASSUME IInv, IInv', OInv, CallsStore, PutFails, UNCHANGED reaper,
         NEW w \in Workers, Working(w), NEW pc, Goto(w, pc), pc \in QuietPcs \/ WorkerHolds(w)'
  PROVE  OInv'
<1>1. records' = records
  BY DEF PutFails
<1>2. RecordsMove({worker[w].job})
  BY <1>1, SameMoves
<1>3. WorkerHolds(w)'
  BY <1>1, QuietHolds
<1> QED
  BY <1>2, <1>3, GotoStep, StoreCallSteady

LEMMA ErrorsAreQuiet ==
  ASSUME NEW w \in Workers
  PROVE  /\ OrphanProvision(w) \in QuietPcs /\ OrphanDelete(w) \in QuietPcs
         /\ \A e : ProvisionFailed(w, e) \in QuietPcs
         /\ \A e : DeferDemandCheck(w, e) \subseteq QuietPcs
         /\ \A e : DeleteFailed(w, e) \in QuietPcs
<1> USE DEF QuietPcs, DeregisterPcs, LastWritePcs
<1>1. OrphanProvision(w) \in QuietPcs /\ OrphanDelete(w) \in QuietPcs
  BY DEF OrphanProvision, OrphanDelete
<1>2. ASSUME NEW e PROVE ProvisionFailed(w, e) \in QuietPcs
  BY <1>1 DEF ProvisionFailed
<1>3. ASSUME NEW e PROVE DeferDemandCheck(w, e) \subseteq QuietPcs
  BY <1>2 DEF DeferDemandCheck
<1>4. ASSUME NEW e PROVE DeleteFailed(w, e) \in QuietPcs
  BY <1>1 DEF DeleteFailed
<1> HIDE DEF QuietPcs
<1> QED
  BY <1>1, <1>2, <1>3, <1>4

-----------------------------------------------------------------------------
(* Steps that provisioning and deletion share.                               *)

LEMMA DeregisterOwned ==
  ASSUME IInv, IInv', XInv, OInv, NEW w \in Workers, Deregister(w), UNCHANGED reaper
  PROVE  OInv'
<1> DEFINE id == worker[w].rec.runner
<1>1. Working(w) /\ worker[w].pc \in DeregisterPcs
  BY DEF Deregister, DeregisterPcs, Working
<1>2. IdsStay /\ RunsStay /\ TagsStay
  BY GitHubSteady, InstancesSteady DEF Deregister, CallsGitHub
<1>3. UNCHANGED <<storeVars, reaper>> /\ records' = records
  BY DEF Deregister, CallsGitHub, storeVars
<1>4. CASE RemoveRepoRunner(id) /\ Goto(w, AfterRemoval(w))
  <2>1. AfterRemoval(w) \in RemovedPcs \ {"retire"}
    BY <1>1 DEF AfterRemoval, RemovedPcs, DeregisterPcs, At
  <2>2. id \notin registered' /\ id <= issued'
    BY <1>1, <1>4, WorkerKnows, RemovalKills
  <2>3. /\ AfterRemoval(w) \notin BarePcs /\ AfterRemoval(w) \notin ReadyPcs
        /\ AfterRemoval(w) \notin FoundPcs /\ AfterRemoval(w) # "find"
    BY <2>1 DEF RemovedPcs, BarePcs, ReadyPcs, FoundPcs
  <2>4. WorkerHolds(w)'
    BY <1>1, <1>3, <1>4, <2>2, <2>3, GotoHolds
  <2> QED
    BY <1>1, <1>2, <1>3, <1>4, <2>4, RemoteStep
<1>5. ASSUME NEW e, NEW pc \in AfterRefusal(w, e), Goto(w, pc) PROVE OInv'
  <2>1. pc \in QuietPcs
    <3>1. AfterRefusal(w, e) \subseteq QuietPcs
      BY <1>1, ErrorsAreQuiet DEF AfterRefusal, DeregisterPcs, At, QuietPcs, LastWritePcs
    <3> QED
      BY <3>1
  <2> QED
    BY <1>1, <1>2, <1>3, <1>5, <2>1, QuietRemoteStep
<1> QED
  BY <1>4, <1>5 DEF Deregister

LEMMA ClearOwned ==
  ASSUME IInv, IInv', OInv, NEW w \in Workers, Clear(w), UNCHANGED reaper
  PROVE  OInv'
<1> DEFINE j == worker[w].job
           r == records[j]
<1>1. Working(w) /\ worker[w].pc \in ClearPcs /\ worker[w].pc \in RemovedPcs
  BY DEF Clear, ClearPcs, RemovedPcs, Working
<1>2. /\ j \in Jobs /\ r \in Record /\ Orderly(r) /\ r.runner \notin registered
      /\ Dead(worker[w].rec.runner) /\ r.claim = KindOf(w)
  BY <1>1, Owning, WorkingFacts
<1>3. IdsStay /\ RunsStay /\ TagsStay /\ CallsStore
  BY StoreCallSteady DEF Clear
<1>4. CASE Put(j, ClearJIT(r)) /\ Goto(w, AfterClear(w))
  <2>1. PICK s : s = ClearJIT(r)
    OBVIOUS
  <2>2. /\ s.runner \in {r.runner, NoRunner} /\ s.instance = r.instance
        /\ r.status # "deleted" => s.runner = NoRunner
    BY <1>2, <2>1 DEF ClearJIT, Record
  <2>3. Moves(r, s)
    BY <1>2, <2>1, <2>2, EndsAdvance DEF Moves
  <2>4. RecordsMove({j}) /\ records'[j] = s
    BY <1>2, <1>4, <2>1, <2>2, <2>3, PutMoves
  <2>5. worker[w].rec.runner \notin registered' /\ worker[w].rec.runner <= issued'
    BY <1>2, <1>3 DEF CallsStore, githubVars, Dead, Known
  <2>6. AfterClear(w) \in {"retire", "generate", "markFailed", "markOrphanProvision",
                           "markOrphanDelete"}
    BY <1>1 DEF AfterClear, ClearPcs, At
  <2>7. AfterClear(w) = "generate" => r.status # "deleted"
    <3>1. AfterClear(w) = "generate" => r.claim = "provision"
      BY <1>1, <1>2 DEF AfterClear, ClearPcs, At, KindOf, ProvisionPcs
    <3> QED
      BY <1>2, <3>1 DEF Orderly
  <2>8. WorkerHolds(w)'
    BY <1>1, <1>4, <2>2, <2>4, <2>5, <2>6, <2>7, GotoHolds
       DEF RemovedPcs, BarePcs, ReadyPcs, FoundPcs
  <2> QED
    BY <1>1, <1>3, <1>4, <2>4, <2>8, GotoStep
<1>5. ASSUME PutFails, NEW pc \in AfterClearFails(w), Goto(w, pc) PROVE OInv'
  <2>1. AfterClearFails(w) \subseteq QuietPcs
    BY <1>1, ErrorsAreQuiet DEF AfterClearFails, ClearPcs, At, QuietPcs, LastWritePcs
  <2> QED
    BY <1>1, <1>3, <1>5, <2>1, FailedStep
<1> QED
  BY <1>4, <1>5 DEF Clear

LEMMA LastWriteTends ==
  ASSUME IInv, OInv, NEW w \in Workers, worker[w].pc \in LastWritePcs
  PROVE  Tends(records[worker[w].job], LastWrite(w))
<1> DEFINE r == records[worker[w].job]
<1>1. Working(w)
  BY DEF LastWritePcs, Working
<1>2. r \in Record /\ Orderly(r) /\ r.claim = KindOf(w)
  BY <1>1, WorkingFacts, Owning
<1>3. At(w, "markFailed") => r.claim = "provision"
  BY <1>2 DEF KindOf, At, ProvisionPcs
<1>4. At(w, "failDelete") => r.claim = "delete"
  BY <1>2 DEF KindOf, At, ProvisionPcs
<1> HIDE DEF r
<1>5. \A kind \in WorkKinds : /\ Tends(r, ReleaseClaim(r, kind))
                              /\ Tends(r, DeferRateLimitedWork(r, kind))
  BY <1>2, ReleaseClaimTends, DeferRateLimitedWorkTends
<1>6. /\ Tends(r, DeferProvisioningDemand(r)) /\ Tends(r, DeferReassignmentDemand(r))
      /\ Tends(r, MarkOrphaned(r))
      /\ At(w, "markFailed") => Tends(r, MarkProvisionFailed(r))
      /\ At(w, "failDelete") => Tends(r, MarkDeleteFailed(r))
  BY <1>2, <1>3, <1>4, DeferProvisioningDemandTends, DeletionTends, MarkProvisionFailedTends,
     MarkDeleteFailedTends
<1>7. \/ LastWrite(w) \in {ReleaseClaim(r, "provision"), DeferRateLimitedWork(r, "provision"),
                           DeferProvisioningDemand(r), ReleaseClaim(r, "delete"),
                           DeferRateLimitedWork(r, "delete"), DeferReassignmentDemand(r),
                           MarkOrphaned(r)}
      \/ At(w, "markFailed") /\ LastWrite(w) = MarkProvisionFailed(r)
      \/ At(w, "failDelete") /\ LastWrite(w) = MarkDeleteFailed(r)
  BY DEF LastWrite, LastWritePcs, At, r
<1>8. "provision" \in WorkKinds /\ "delete" \in WorkKinds
  BY DEF WorkKinds
<1>9. Tends(r, LastWrite(w))
  BY <1>5, <1>6, <1>7, <1>8
<1> QED
  BY <1>9 DEF r

LEMMA EndWorkOwned ==
  ASSUME IInv, IInv', OInv, NEW w \in Workers, EndWork(w), UNCHANGED reaper
  PROVE  OInv'
<1>1. Working(w) /\ worker[w].pc \in LastWritePcs
  BY DEF EndWork, LastWritePcs, Working
<1>2. IdsStay /\ RunsStay /\ TagsStay
  BY StoreCallSteady DEF EndWork
<1>3. RecordsMove({worker[w].job})
  <2>1. CASE Put(worker[w].job, LastWrite(w))
    BY <1>1, <2>1, LastWriteTends, PutTends, WorkingFacts
  <2>2. CASE PutFails
    BY <2>2, SameMoves DEF PutFails
  <2> QED
    BY <2>1, <2>2 DEF EndWork
<1> QED
  BY <1>1, <1>2, <1>3, FinishStep DEF EndWork

-----------------------------------------------------------------------------
(* Provisioning.                                                             *)

\* The worker has an instance in hand.
LEMMA FoundHolds ==
  ASSUME IInv, OInv, NEW w \in Workers, Working(w), NEW i \in Instances, NEW pc \in FoundPcs,
         worker' = [worker EXCEPT ![w].pc = pc, ![w].inst = i],
         records' = records, vm'[i].job = worker[w].job,
         records[worker[w].job].runner = worker[w].rec.runner
  PROVE  /\ WorkerHolds(w)'
         /\ \A v \in Workers : v # w => worker'[v] = worker[v]
<1>1. /\ worker'[w].pc = pc /\ worker'[w].job = worker[w].job /\ worker'[w].inst = i
      /\ worker'[w].rec = worker[w].rec
      /\ \A v \in Workers : v # w => worker'[v] = worker[v]
  BY DEF IInv, TypeOK, WorkerTypeOK, Task
<1>2. /\ pc \notin RemovedPcs /\ pc \notin BarePcs /\ pc \notin ReadyPcs
      /\ pc # "find" /\ pc # "create"
  BY DEF FoundPcs, RemovedPcs, BarePcs, ReadyPcs
<1>3. Remembers(worker[w].job, worker[w].rec)
  BY DEF OInv, WorkersHold, WorkerHolds
<1> QED
  BY <1>1, <1>2, <1>3 DEF WorkerHolds, Remembers

LEMMA FindOwned ==
  ASSUME IInv, IInv', OInv, NEW w \in Workers, Find(w), UNCHANGED reaper
  PROVE  OInv'
<1>1. /\ Working(w) /\ worker[w].pc = "find" /\ worker[w].jit = NoRunner
      /\ records[worker[w].job].runner = worker[w].rec.runner
  BY DEF Find, At, Working, OInv, WorkersHold, WorkerHolds, KeptPcs
<1>2. IdsStay /\ RunsStay /\ TagsStay
  BY GitHubSteady, InstancesSteady DEF Find, Local
<1>3. UNCHANGED <<storeVars, reaper>> /\ records' = records /\ vm' = vm
  BY DEF Find, Local, storeVars
<1>4. ASSUME Goto(w, "demand") PROVE OInv'
  <2>1. WorkerHolds(w)'
    BY <1>1, <1>3, <1>4, GotoHolds DEF RemovedPcs, BarePcs, FoundPcs
  <2> QED
    BY <1>1, <1>2, <1>3, <1>4, <2>1, RemoteStep
<1>5. ASSUME NEW i \in Instances, vm[i].job = worker[w].job,
             worker' = [worker EXCEPT ![w].inst = i,
                    ![w].pc = IF worker[w].rec.runner = NoRunner
                              THEN "dropVM" ELSE "persistVM"]
      PROVE  OInv'
  <2> DEFINE next == IF worker[w].rec.runner = NoRunner THEN "dropVM" ELSE "persistVM"
  <2>1. next \in FoundPcs
    BY DEF FoundPcs
  <2>2. worker' = [worker EXCEPT ![w].pc = next, ![w].inst = i]
    BY <1>5 DEF IInv, TypeOK, WorkerTypeOK, Task
  <2> HIDE DEF next
  <2>3. /\ WorkerHolds(w)'
        /\ \A v \in Workers : v # w => worker'[v] = worker[v]
    BY <1>1, <1>3, <1>5, <2>1, <2>2, FoundHolds
  <2>4. RecordsMove({worker[w].job})
    BY <1>3, SameMoves
  <2> QED
    BY <1>1, <1>2, <1>3, <2>3, <2>4, OwnStep
<1>6. ASSUME NEW e, Goto(w, ProvisionFailed(w, e)) PROVE OInv'
  BY <1>1, <1>2, <1>3, <1>6, ErrorsAreQuiet, QuietRemoteStep
<1>7. ASSUME NEW seen \in Listings(worker[w].job), NEW i \in seen
      PROVE  i \in Instances /\ vm[i].job = worker[w].job
  BY <1>7 DEF Listings, ListedFor, LeavingFor
<1> QED
  BY <1>4, <1>5, <1>6, <1>7 DEF Find

LEMMA DropVMOwned ==
  ASSUME IInv, IInv', OInv, NEW w \in Workers, DropVM(w), UNCHANGED reaper
  PROVE  OInv'
<1>1. Working(w)
  BY DEF DropVM, At, Working
<1>2. IdsStay /\ RunsStay
  BY GitHubSteady DEF DropVM, CallsProvider
<1>3. TagsStay
  BY InstancesSteady DEF DropVM, DeleteFails
<1>4. UNCHANGED <<storeVars, reaper>>
  BY DEF DropVM, CallsProvider
<1>5. \E pc \in QuietPcs : Goto(w, pc)
  BY ErrorsAreQuiet DEF DropVM
<1> QED
  BY <1>1, <1>2, <1>3, <1>4, <1>5, QuietRemoteStep

\* A worker that has made a registration goes on with it or gives it up.
LEMMA DemandOwned ==
  ASSUME IInv, IInv', OInv, NEW w \in Workers, CheckDemand(w) \/ AskDemand(w),
         UNCHANGED reaper
  PROVE  OInv'
<1>1. Working(w) /\ worker[w].pc \in {"demand", "ask"} /\ WorkerHolds(w)
  BY DEF CheckDemand, AskDemand, At, Working, OInv, WorkersHold
<1>2. IdsStay /\ RunsStay /\ TagsStay
  BY GitHubSteady, InstancesSteady DEF CheckDemand, AskDemand, Local
<1>3. UNCHANGED <<storeVars, reaper>> /\ records' = records /\ UNCHANGED githubVars
  BY DEF CheckDemand, AskDemand, Local, storeVars
<1>4. \/ worker[w].jit = NoRunner
      \/ /\ worker[w].jit # NoRunner
         /\ records[worker[w].job].runner = worker[w].jit
         /\ worker[w].rec.runner = worker[w].jit
  BY <1>1 DEF WorkerHolds, ReadyPcs
<1>5. ASSUME NEW pc \in QuietPcs, Goto(w, pc) PROVE OInv'
  BY <1>1, <1>2, <1>3, <1>5, QuietRemoteStep
<1>6. ASSUME Goto(w, GiveUpDemand(w)) PROVE OInv'
  <2>1. CASE worker[w].rec.runner # NoRunner
    BY <1>5, <1>6, <2>1 DEF GiveUpDemand, QuietPcs, DeregisterPcs
  <2>2. CASE worker[w].rec.runner = NoRunner
    <3>1. Goto(w, "retire")
      BY <1>6, <2>2 DEF GiveUpDemand
    <3>2. worker[w].rec.runner \notin registered' /\ worker[w].rec.runner <= issued'
      BY <1>3, <2>2, NothingIsDead DEF Dead, Known, githubVars
    <3>3. WorkerHolds(w)'
      BY <1>1, <1>3, <3>1, <3>2, GotoHolds DEF BarePcs, ReadyPcs, FoundPcs
    <3> QED
      BY <1>1, <1>2, <1>3, <3>1, <3>3, RemoteStep
  <2> QED
    BY <2>1, <2>2
<1>7. ASSUME Goto(w, "ask") PROVE OInv'
  <2>1. WorkerHolds(w)'
    BY <1>1, <1>3, <1>4, <1>7, GotoHolds DEF RemovedPcs, BarePcs, FoundPcs
  <2> QED
    BY <1>1, <1>2, <1>3, <1>7, <2>1, RemoteStep
<1>8. ASSUME Goto(w, "create"), SecondCheck(w) PROVE OInv'
  <2>1. WorkerHolds(w)'
    BY <1>1, <1>3, <1>4, <1>8, GotoHolds DEF RemovedPcs, BarePcs, FoundPcs, SecondCheck
  <2> QED
    BY <1>1, <1>2, <1>3, <1>8, <2>1, RemoteStep
<1>9. ASSUME Goto(w, "generate"), worker[w].rec.runner = NoRunner PROVE OInv'
  <2>1. records'[worker[w].job].runner = NoRunner
    BY <1>1, <1>3, <1>9 DEF WorkerHolds, Remembers
  <2>2. WorkerHolds(w)'
    BY <1>1, <1>3, <1>9, <2>1, GotoHolds DEF RemovedPcs, ReadyPcs, FoundPcs
  <2> QED
    BY <1>1, <1>2, <1>3, <1>9, <2>2, RemoteStep
<1>10. ASSUME Goto(w, "stale") PROVE OInv'
  BY <1>5, <1>10 DEF QuietPcs, DeregisterPcs
<1>11. ASSUME NEW e, NEW pc \in DeferDemandCheck(w, e), Goto(w, pc) PROVE OInv'
  BY <1>5, <1>11, ErrorsAreQuiet
<1> QED
  BY <1>6, <1>7, <1>8, <1>9, <1>10, <1>11 DEF CheckDemand, AskDemand

LEMMA RetireOwned ==
  ASSUME IInv, IInv', OInv, NEW w \in Workers, Retire(w), UNCHANGED reaper
  PROVE  OInv'
<1> DEFINE j == worker[w].job
           r == records[j]
<1>1. /\ Working(w) /\ worker[w].pc = "retire" /\ worker[w].pc \in RemovedPcs
      /\ KindOf(w) = "provision"
  BY DEF Retire, At, Working, RemovedPcs, KindOf, ProvisionPcs
<1>2. /\ j \in Jobs /\ r \in Record /\ Orderly(r) /\ r.runner \notin registered
      /\ r.instance = NoInstance
  BY <1>1, Owning, WorkingFacts DEF Sound
<1>3. IdsStay /\ RunsStay /\ TagsStay
  BY StoreCallSteady DEF Retire
<1>4. CASE Put(j, MarkDeleted(r)) /\ Finish(w)
  <2>1. PICK s : s = MarkDeleted(r)
    OBVIOUS
  <2>2. s.runner = r.runner /\ s.instance = r.instance
    BY <1>2, <2>1 DEF MarkDeleted, Record
  <2>3. Moves(r, s)
    BY <1>2, <2>1, <2>2, EndsAdvance DEF Moves
  <2>4. RecordsMove({j})
    BY <1>2, <1>4, <2>1, <2>2, <2>3, PutMoves
  <2> QED
    BY <1>1, <1>3, <1>4, <2>4, FinishStep
<1>5. CASE PutFails /\ Goto(w, ProvisionFailed(w, "other"))
  BY <1>1, <1>5, ErrorsAreQuiet, FailedStep DEF Retire
<1> QED
  BY <1>2, <1>4, <1>5 DEF Retire

LEMMA GenerateOwned ==
  ASSUME IInv, IInv', OInv, NEW w \in Workers, Generate(w), UNCHANGED reaper
  PROVE  OInv'
<1>1. Working(w) /\ WorkerHolds(w) /\ worker[w].pc = "generate"
  BY DEF Generate, At, Working, OInv, WorkersHold
<1>2. IdsStay /\ RunsStay /\ TagsStay
  BY GitHubSteady, InstancesSteady DEF Generate, CallsGitHub, GenerateJIT, GenerateJITFails
<1>3. UNCHANGED <<storeVars, reaper>> /\ records' = records
  BY DEF Generate, CallsGitHub, storeVars
<1>4. CASE worker' = [worker EXCEPT ![w].pc = "persistJIT", ![w].jit = issued + 1]
  <2>1. /\ worker'[w].pc = "persistJIT" /\ worker'[w].job = worker[w].job
        /\ worker'[w].rec = worker[w].rec
        /\ \A v \in Workers : v # w => worker'[v] = worker[v]
    BY <1>4 DEF IInv, TypeOK, WorkerTypeOK, Task
  <2>2. WorkerHolds(w)'
    BY <1>1, <1>3, <2>1
       DEF WorkerHolds, Remembers, RemovedPcs, BarePcs, ReadyPcs, FoundPcs, KeptPcs
  <2>3. RecordsMove({worker[w].job})
    BY <1>3, SameMoves
  <2> QED
    BY <1>1, <1>2, <1>3, <2>1, <2>2, <2>3, OwnStep
<1>5. ASSUME NEW e, Goto(w, ProvisionFailed(w, e)) PROVE OInv'
  BY <1>1, <1>2, <1>3, <1>5, ErrorsAreQuiet, QuietRemoteStep
<1> QED
  BY <1>4, <1>5 DEF Generate

\* The record is not settled, because it is claimed, and has no registration.
LEMMA PersistJITOwned ==
  ASSUME IInv, IInv', OInv, NEW w \in Workers, PersistJIT(w), UNCHANGED reaper
  PROVE  OInv'
<1> DEFINE j == worker[w].job
           r == records[j]
           id == worker[w].jit
<1>1. Working(w) /\ WorkerHolds(w) /\ worker[w].pc = "persistJIT" /\ KindOf(w) = "provision"
  BY DEF PersistJIT, At, Working, OInv, WorkersHold, KindOf, ProvisionPcs
<1>2. /\ j \in Jobs /\ r \in Record /\ Orderly(r) /\ r.claim = "provision"
      /\ r.runner = NoRunner /\ worker[w] \in Task
  BY <1>1, Owning, WorkingFacts DEF WorkerHolds, BarePcs
<1>3. IdsStay /\ RunsStay /\ TagsStay /\ ~Settled(r) /\ r.status # "absent"
  BY <1>2, StoreCallSteady DEF PersistJIT, Orderly, Settled
<1>4. CASE PutFails /\ Goto(w, "dropJIT")
  <2>1. records' = records
    BY <1>4 DEF PutFails
  <2>2. WorkerHolds(w)'
    BY <1>1, <1>2, <1>4, <2>1, GotoHolds DEF RemovedPcs, ReadyPcs, FoundPcs
  <2> QED
    BY <1>1, <1>4, <2>2, FailedStep DEF PersistJIT
<1>5. CASE /\ PutJIT(j, id)
           /\ worker' = [worker EXCEPT ![w].pc = "demand", ![w].rec.runner = id]
  <2>1. PICK s : s = MarkJITCreated(r, j, id, markers[id])
    OBVIOUS
  <2>2. /\ records'[j] = s
        /\ \A k \in Jobs : k # j => records'[k] = records[k]
    BY <1>2, <1>5, <2>1 DEF PutJIT, IInv, TypeOK, StoreTypeOK
  <2>3. s.runner = id
    BY <1>2, <1>3, <2>1, IdentityStored
  <2>4. s.instance = r.instance
    <3> DEFINE same == markers[id] = j
               done == r.jobCompleted \/ same
               other == ~same /\ ~r.jobCompleted
               plain == [r EXCEPT !.runner = id]
               over == [r EXCEPT !.runner = id, !.status = "completed",
                                 !.jobCompleted = done, !.recheck = other,
                                 !.defer = FALSE, !.due = TRUE]
    <3>1. s = IF markers[id] = NoJob THEN plain ELSE over
      BY <1>3, <2>1 DEF MarkJITCreated
    <3> HIDE DEF same, done, other
    <3>2. plain.instance = r.instance /\ over.instance = r.instance
      BY <1>2 DEF Record
    <3> HIDE DEF plain, over
    <3> QED
      BY <3>1, <3>2
  <2>5. Moves(r, s)
    <3>1. r.runner \notin registered
      BY <1>2, NothingIsDead DEF Dead
    <3> QED
      BY <1>2, <2>1, <3>1, ProvisioningAdvances DEF Moves
  <2>6. RecordsMove({j})
    <3>1. \A k \in Jobs : Tends(records[k], records[k])
      BY TendsItself DEF OInv, RecordsOrderly
    <3>2. \A k \in Jobs : Moves(records[k], records'[k])
      BY <2>2, <2>5, <3>1, TendsMoves
    <3> QED
      BY <2>2, <2>4, <3>2 DEF RecordsMove, NamesOwn
  <2>7. PICK t : t = [worker[w] EXCEPT !.pc = "demand", !.rec.runner = id]
    OBVIOUS
  <2>8. worker' = [worker EXCEPT ![w] = t]
    BY <1>5, <2>7, TypeFacts
  <2>9. t.pc = "demand" /\ t.job = j /\ t.jit = id /\ t.rec.runner = id
    BY <1>2, <2>7 DEF Task, Record
  <2>10. worker'[w] = t /\ \A v \in Workers : v # w => worker'[v] = worker[v]
    BY <2>8, TypeFacts
  <2>11. WorkerHolds(w)'
    BY <2>2, <2>3, <2>9, <2>10
       DEF WorkerHolds, Remembers, RemovedPcs, BarePcs, ReadyPcs, FoundPcs, KeptPcs
  <2> QED
    BY <1>1, <1>3, <2>6, <2>10, <2>11, OwnStep
<1> QED
  BY <1>4, <1>5 DEF PersistJIT

LEMMA DropJITOwned ==
  ASSUME IInv, IInv', OInv, NEW w \in Workers, DropJIT(w), UNCHANGED reaper
  PROVE  OInv'
<1>1. Working(w)
  BY DEF DropJIT, At, Working
<1>2. IdsStay /\ RunsStay /\ TagsStay
  BY GitHubSteady, InstancesSteady DEF DropJIT, CallsGitHub
<1> QED
  BY <1>1, <1>2, ErrorsAreQuiet, QuietRemoteStep DEF DropJIT, CallsGitHub

LEMMA PersistVMOwned ==
  ASSUME IInv, IInv', OInv, NEW w \in Workers, PersistVM(w), UNCHANGED reaper
  PROVE  OInv'
<1> DEFINE j == worker[w].job
           r == records[j]
           i == worker[w].inst
           id == worker[w].rec.runner
<1>1. Working(w) /\ WorkerHolds(w) /\ worker[w].pc = "persistVM" /\ KindOf(w) = "provision"
  BY DEF PersistVM, At, Working, OInv, WorkersHold, KindOf, ProvisionPcs
<1>2. /\ j \in Jobs /\ r \in Record /\ Orderly(r) /\ r.claim = "provision"
      /\ r.runner \in {id, NoRunner} /\ i \in Instances /\ vm[i].job = j
  BY <1>1, Owning, WorkingFacts DEF WorkerHolds, FoundPcs
<1>3. IdsStay /\ RunsStay /\ TagsStay /\ ~Settled(r) /\ r.status # "absent" /\ vm' = vm
  BY <1>2, StoreCallSteady DEF PersistVM, Orderly, Settled, CallsStore
<1>4. CASE PutFails /\ Goto(w, ProvisionFailed(w, "other"))
  BY <1>1, <1>4, ErrorsAreQuiet, FailedStep DEF PersistVM
<1>5. CASE PutInstance(j, i, id) /\ worker' = [worker EXCEPT ![w] = HalfDone(w)]
  <2>1. PICK s : s = MarkProvisioned(r, i, id)
    OBVIOUS
  <2>2. /\ records'[j] = s
        /\ \A k \in Jobs : k # j => records'[k] = records[k]
    BY <1>2, <1>5, <2>1 DEF PutInstance, Put, IInv, TypeOK, StoreTypeOK
  <2>3. s.runner = id /\ s.instance = i /\ s.status \in {"completed", "provisioned"}
    BY <1>2, <1>3, <2>1 DEF MarkProvisioned, Record
  <2>4. Moves(r, s)
    <3>1. NoRunner \notin registered
      BY NothingIsDead DEF Dead
    <3> QED
      BY <1>2, <2>1, <2>3, <3>1, ProvisioningAdvances DEF Moves, Stands, Present
  <2>5. RecordsMove({j})
    <3>1. \A k \in Jobs : Tends(records[k], records[k])
      BY TendsItself DEF OInv, RecordsOrderly
    <3>2. \A k \in Jobs : Moves(records[k], records'[k])
      BY <2>2, <2>4, <3>1, TendsMoves
    <3> QED
      BY <1>2, <1>3, <2>2, <2>3, <3>2 DEF RecordsMove, NamesOwn
  <2>6. Resting(HalfDone(w))
    BY <1>2, HalfDoneRests, Ids DEF AnyId
  <2> QED
    BY <1>1, <1>3, <1>5, <2>5, <2>6, LeaveStep
<1> QED
  BY <1>4, <1>5 DEF PersistVM

\* The index is in no record, and the worker has left its own.
LEMMA IndexVMOwned ==
  ASSUME IInv, IInv', OInv, NEW w \in Workers, IndexVM(w), UNCHANGED reaper
  PROVE  OInv'
<1>1. IdsStay /\ RunsStay /\ TagsStay /\ RecordsMove({})
  BY StoreCallSteady, SameMoves DEF IndexVM, IndexInstance
<1>2. RecordsOrderly' /\ Carried' /\ Registrations' /\ Runs'
  BY <1>1, MovingKeeps, WorldKeeps, RunsKeep
<1>3. HandledOver' /\ ReaperHolds'
  BY <1>1, ReaperKeepsHold
<1>4. WorkersHold'
  <2> SUFFICES ASSUME NEW v \in Workers, Working(v)' PROVE WorkerHolds(v)'
    BY DEF WorkersHold
  <2>1. Working(v) /\ worker'[v] = worker[v]
    BY DEF IndexVM, Finish, Idle, Working, IInv, TypeOK, WorkerTypeOK
  <2> QED
    BY <1>1, <2>1, MovingKeeps, OthersHold
<1> QED
  BY <1>2, <1>3, <1>4 DEF OInv

LEMMA CleanupExhaustedOwned ==
  ASSUME IInv, IInv', OInv, NEW w \in Workers, CleanupExhausted(w), UNCHANGED reaper
  PROVE  OInv'
<1>1. Working(w)
  BY DEF CleanupExhausted, At, Working
<1>2. IdsStay /\ RunsStay /\ TagsStay
  BY GitHubSteady, InstancesSteady DEF CleanupExhausted, CallsProvider
<1>3. \E pc \in QuietPcs : Goto(w, pc)
  BY ErrorsAreQuiet DEF CleanupExhausted, QuietPcs, DeregisterPcs, LastWritePcs
<1> QED
  BY <1>1, <1>2, <1>3, QuietRemoteStep DEF CleanupExhausted, CallsProvider

\* An instance starts with the registration of the record it is started for.
LEMMA StartOwned ==
  ASSUME IInv, IInv', OInv, UNCHANGED <<storeVars, githubVars, reaper>>,
         NEW w \in Workers, Working(w), NEW i \in Instances, NEW id \in AnyId, NEW s,
         s # "none", vm[i].state = "none",
         vm' = [vm EXCEPT ![i] = [state |-> s, job |-> worker[w].job, runner |-> id]],
         records[worker[w].job].runner = id, Present(records[worker[w].job]), Known(id),
         \A v \in Workers : v # w => worker'[v] = worker[v],
         Working(w)' => WorkerHolds(w)'
  PROVE  OInv'
<1> DEFINE j == worker[w].job
<1>1. /\ vm'[i].state = s /\ vm'[i].job = j /\ vm'[i].runner = id
      /\ \A k \in Instances : k # i => vm'[k] = vm[k]
  BY DEF IInv, TypeOK, ProviderTypeOK
<1>2. j \in Jobs /\ records' = records /\ registered' = registered /\ issued' = issued
      /\ jobState' = jobState /\ ranOn' = ranOn
  BY WorkingFacts DEF storeVars, githubVars
<1>3. vm[i].runner = NoRunner /\ vm[i].job = NoJob
  BY DEF OInv, Carried
<1>4. RecordsOrderly'
  BY <1>2 DEF OInv, RecordsOrderly
<1>5. Carried'
  <2>1. ASSUME NEW k \in Instances
        PROVE  /\ vm'[k].state = "none" => vm'[k].runner = NoRunner /\ vm'[k].job = NoJob
               /\ vm'[k].state # "none" => vm'[k].job \in Jobs
               /\ Known(vm[k].runner)'
    BY <1>1, <1>2 DEF OInv, Carried, Known
  <2>2. ASSUME NEW k \in Jobs, records'[k].instance # NoInstance
        PROVE  vm'[records'[k].instance].job = k
    <3>1. records[k].instance \in Instances /\ vm[records[k].instance].job = k
      BY <1>2, <2>2, Ids DEF OInv, Carried, Record
    <3> QED
      BY <1>1, <1>2, <1>3, <3>1, NothingIsNoId
  <2> QED
    BY <2>1, <2>2 DEF Carried
<1>6. Registrations'
  BY <1>1, <1>2 DEF OInv, Registrations
<1>7. Runs'
  <2>1. ASSUME NEW k \in Instances, vm[k].runner \in Runners PROVE vm'[k].runner = vm[k].runner
    BY <1>1, <1>3, <2>1, NothingIsNoId
  <2> QED
    BY <1>2, <2>1 DEF OInv, Runs
<1>8. HandledOver' /\ ReaperHolds'
  <2>1. IdsStay /\ RecordsMove({})
    BY <1>2, GitHubSteady, SameMoves
  <2> QED
    BY <2>1, ReaperKeepsHold
<1>9. WorkersHold'
  <2> SUFFICES ASSUME NEW v \in Workers, v # w, Working(v)' PROVE WorkerHolds(v)'
    BY DEF WorkersHold
  <2>1. Working(v) /\ worker'[v] = worker[v]
    BY DEF Working
  <2>2. WorkerHolds(v) /\ worker[v].job \in Jobs
    BY <2>1, WorkingFacts DEF OInv, WorkersHold
  <2>3. worker[v].pc \in FoundPcs => worker[v].inst # i
    BY <1>3, <2>2, NothingIsNoId DEF WorkerHolds
  <2> QED
    BY <1>1, <1>2, <2>1, <2>2, <2>3 DEF WorkerHolds, Remembers, Dead, Known
<1> QED
  BY <1>4, <1>5, <1>6, <1>7, <1>8, <1>9 DEF OInv

LEMMA CreateOwned ==
  ASSUME IInv, IInv', XInv, OInv, NEW w \in Workers, Create(w), UNCHANGED reaper
  PROVE  OInv'
<1> DEFINE j == worker[w].job
           id == worker[w].jit
<1>1. Working(w) /\ worker[w].pc = "create" /\ KindOf(w) = "provision"
  BY DEF Create, At, Working, KindOf, ProvisionPcs
<1>2. /\ j \in Jobs /\ id \in AnyId /\ Known(id)
      /\ records[j].runner = id /\ Present(records[j])
      /\ records[j].runner = worker[w].rec.runner
  <2>1. WorkerHolds(w)
    BY <1>1, Owning
  <2>2. records[j].runner = id /\ worker[w].rec.runner = id
    BY <1>1, <2>1 DEF WorkerHolds, ReadyPcs
  <2>3. Present(records[j])
    BY <1>1, Owning, WorkingFacts DEF Orderly, Present
  <2> QED
    BY <1>1, <2>2, <2>3, WorkingFacts, Ids, WorkerKnows
<1>3. UNCHANGED <<storeVars, githubVars, reaper>> /\ records' = records
  BY DEF Create, CallsProvider, storeVars
<1>4. IdsStay /\ RunsStay
  BY <1>3, GitHubSteady
<1>5. ASSUME NEW i \in Instances, CreateStarts(j, i, id)
      PROVE  \E s : /\ s # "none" /\ vm[i].state = "none"
                    /\ vm' = [vm EXCEPT ![i] = [state |-> s, job |-> j, runner |-> id]]
  <2>1. "hidden" # "none" /\ "running" # "none"
    OBVIOUS
  <2> QED
    BY <1>5, <2>1 DEF CreateStarts, StartVM
<1>6. ASSUME NEW i \in Instances, CreateReuses(j, i) \/ CreateStarts(j, i, id),
             worker' = [worker EXCEPT ![w].pc = "persistVM", ![w].inst = i]
      PROVE  OInv'
  <2>1. "persistVM" \in FoundPcs
    BY DEF FoundPcs
  <2>2. CASE CreateReuses(j, i)
    <3>1. vm' = vm /\ vm[i].job = j
      BY <2>2 DEF CreateReuses, Listings, ListedFor, LeavingFor
    <3>2. TagsStay
      BY <3>1, InstancesSteady
    <3>3. /\ WorkerHolds(w)'
          /\ \A v \in Workers : v # w => worker'[v] = worker[v]
      BY <1>1, <1>2, <1>3, <1>6, <2>1, <3>1, FoundHolds
    <3>4. RecordsMove({j})
      BY <1>3, SameMoves
    <3> QED
      BY <1>1, <1>3, <1>4, <3>2, <3>3, <3>4, OwnStep
  <2>3. CASE CreateStarts(j, i, id)
    <3>1. PICK s : /\ s # "none" /\ vm[i].state = "none"
                   /\ vm' = [vm EXCEPT ![i] = [state |-> s, job |-> j, runner |-> id]]
      BY <1>5, <2>3
    <3>2. vm'[i].job = j
      BY <3>1 DEF IInv, TypeOK, ProviderTypeOK
    <3>3. /\ WorkerHolds(w)'
          /\ \A v \in Workers : v # w => worker'[v] = worker[v]
      BY <1>1, <1>2, <1>3, <1>6, <2>1, <3>2, FoundHolds
    <3> QED
      BY <1>1, <1>2, <1>3, <3>1, <3>3, StartOwned
  <2> QED
    BY <1>6, <2>2, <2>3
<1>7. ASSUME NEW e, CreateFails(j, id, e), Goto(w, ProvisionFailed(w, e)) PROVE OInv'
  <2>1. CASE UNCHANGED vm
    <3>1. TagsStay
      BY <2>1, InstancesSteady
    <3> QED
      BY <1>1, <1>3, <1>4, <1>7, <3>1, ErrorsAreQuiet, QuietRemoteStep
  <2>2. ASSUME NEW i \in Instances, CreateStarts(j, i, id) PROVE OInv'
    <3>1. PICK s : /\ s # "none" /\ vm[i].state = "none"
                   /\ vm' = [vm EXCEPT ![i] = [state |-> s, job |-> j, runner |-> id]]
      BY <2>2, <1>5
    <3>2. WorkerHolds(w)'
      BY <1>1, <1>3, <1>7, ErrorsAreQuiet, QuietHolds
    <3> QED
      BY <1>1, <1>2, <1>3, <1>7, <3>1, <3>2, GotoMoves, StartOwned
  <2> QED
    BY <1>7, <2>1, <2>2 DEF CreateFails
<1> QED
  BY <1>6, <1>7 DEF Create

LEMMA ProvisionStepOwned ==
  ASSUME IInv, IInv', XInv, OInv, NEW w \in Workers, ProvisionStep(w), UNCHANGED reaper
  PROVE  OInv'
  BY FindOwned, DropVMOwned, DemandOwned, RetireOwned, GenerateOwned, PersistJITOwned,
     DropJITOwned, CreateOwned, PersistVMOwned, IndexVMOwned, CleanupExhaustedOwned
     DEF ProvisionStep

-----------------------------------------------------------------------------
(* Deletion.                                                                 *)

LEMMA DeleteInstanceOwned ==
  ASSUME IInv, IInv', OInv, NEW w \in Workers, DeleteInstance(w), UNCHANGED reaper
  PROVE  OInv'
<1>1. Working(w)
  BY DEF DeleteInstance, At, Working
<1>2. IdsStay /\ RunsStay /\ TagsStay
  BY GitHubSteady, InstancesSteady DEF DeleteInstance, CallsProvider, DeleteFails
<1>3. \E pc \in QuietPcs : Goto(w, pc)
  BY ErrorsAreQuiet DEF DeleteInstance, QuietPcs
<1> QED
  BY <1>1, <1>2, <1>3, QuietRemoteStep DEF DeleteInstance, CallsProvider

LEMMA ConfirmAbsenceOwned ==
  ASSUME IInv, IInv', OInv, NEW w \in Workers, ConfirmAbsence(w), UNCHANGED reaper
  PROVE  OInv'
<1>1. Working(w)
  BY DEF ConfirmAbsence, At, Working
<1>2. IdsStay /\ RunsStay /\ TagsStay
  BY GitHubSteady, InstancesSteady DEF ConfirmAbsence, Local
<1>3. \E pc \in QuietPcs : Goto(w, pc)
  BY DEF ConfirmAbsence, QuietPcs, LastWritePcs
<1> QED
  BY <1>1, <1>2, <1>3, QuietRemoteStep DEF ConfirmAbsence, Local

\* A store call of the worker that keeps the registration of its record.
LEMMA TendingPut ==
  ASSUME IInv, IInv', OInv, CallsStore, UNCHANGED reaper,
         NEW w \in Workers, Working(w), NEW s, Put(worker[w].job, s),
         Tends(records[worker[w].job], s),
         Finish(w) \/ \E pc \in QuietPcs : Goto(w, pc)
  PROVE  OInv'
<1>1. worker[w].job \in Jobs
  BY WorkingFacts
<1>2. /\ RecordsMove({worker[w].job}) /\ records'[worker[w].job] = s
      /\ s.runner = records[worker[w].job].runner
  BY <1>1, PutTends
<1>3. IdsStay /\ RunsStay /\ TagsStay
  BY StoreCallSteady
<1>4. CASE Finish(w)
  BY <1>2, <1>3, <1>4, FinishStep
<1>5. ASSUME NEW pc \in QuietPcs, Goto(w, pc) PROVE OInv'
  <2>1. WorkerHolds(w)'
    BY <1>2, <1>5, QuietHolds
  <2> QED
    BY <1>2, <1>3, <1>5, <2>1, GotoStep
<1> QED
  BY <1>4, <1>5

LEMMA AcceptDeletionOwned ==
  ASSUME IInv, IInv', OInv, NEW w \in Workers, AcceptDeletion(w), UNCHANGED reaper
  PROVE  OInv'
<1> DEFINE j == worker[w].job
           r == records[j]
           i == worker[w].rec.instance
<1>1. Working(w)
  BY DEF AcceptDeletion, At, Working
<1>2. r \in Record /\ Orderly(r) /\ CallsStore
  BY <1>1, Owning, WorkingFacts DEF AcceptDeletion
<1>3. CASE Put(j, MarkDeletionAccepted(r, i)) /\ Goto(w, "confirm")
  <2>1. Tends(r, MarkDeletionAccepted(r, i)) /\ "confirm" \in QuietPcs
    BY <1>2, DeletionTends DEF QuietPcs
  <2> QED
    BY <1>1, <1>2, <1>3, <2>1, TendingPut
<1>4. ASSUME NEW e, UNCHANGED storeVars, Goto(w, DeleteFailed(w, e)) PROVE OInv'
  <2>1. IdsStay /\ RunsStay /\ TagsStay
    BY <1>2, StoreCallSteady
  <2> QED
    BY <1>1, <1>4, <2>1, ErrorsAreQuiet, QuietRemoteStep
<1>5. ASSUME NEW e, PutFails, Goto(w, DeleteFailed(w, e)) PROVE OInv'
  BY <1>1, <1>2, <1>5, ErrorsAreQuiet, FailedStep
<1> QED
  BY <1>3, <1>4, <1>5 DEF AcceptDeletion

LEMMA AwaitAbsenceOwned ==
  ASSUME IInv, IInv', OInv, NEW w \in Workers, AwaitAbsence(w), UNCHANGED reaper
  PROVE  OInv'
<1> DEFINE j == worker[w].job
           r == records[j]
<1>1. Working(w)
  BY DEF AwaitAbsence, At, Working
<1>2. r \in Record /\ Orderly(r) /\ CallsStore
  BY <1>1, Owning, WorkingFacts DEF AwaitAbsence
<1>3. CASE Put(j, DeferDeletionConfirmation(r)) /\ Finish(w)
  <2>1. Tends(r, DeferDeletionConfirmation(r))
    BY <1>2, DeletionTends
  <2> QED
    BY <1>1, <1>2, <1>3, <2>1, TendingPut
<1>4. CASE PutFails /\ Goto(w, "releaseDelete")
  <2>1. "releaseDelete" \in QuietPcs
    BY DEF QuietPcs, LastWritePcs
  <2> QED
    BY <1>1, <1>2, <1>4, <2>1, FailedStep
<1> QED
  BY <1>3, <1>4 DEF AwaitAbsence

LEMMA CleanupRestOwned ==
  ASSUME IInv, IInv', OInv, NEW w \in Workers, CleanupRest(w), UNCHANGED reaper
  PROVE  OInv'
<1> DEFINE next == IF worker[w].rec.runner = NoRunner THEN "recheck" ELSE "deregister"
<1>1. Working(w)
  BY DEF CleanupRest, At, Working
<1>2. IdsStay /\ RunsStay /\ TagsStay /\ UNCHANGED githubVars
  BY GitHubSteady, InstancesSteady DEF CleanupRest, CallsProvider
<1>3. UNCHANGED <<storeVars, reaper>> /\ records' = records
  BY DEF CleanupRest, CallsProvider, storeVars
<1>4. CASE Goto(w, next)
  <2>1. CASE worker[w].rec.runner # NoRunner
    <3>1. next \in QuietPcs
      BY <2>1 DEF QuietPcs, DeregisterPcs
    <3> QED
      BY <1>1, <1>2, <1>3, <1>4, <3>1, QuietRemoteStep
  <2>2. CASE worker[w].rec.runner = NoRunner
    <3>1. Goto(w, "recheck")
      BY <1>4, <2>2
    <3>2. worker[w].rec.runner \notin registered' /\ worker[w].rec.runner <= issued'
      BY <1>2, <2>2, NothingIsDead DEF Dead, Known, githubVars
    <3>3. WorkerHolds(w)'
      BY <1>1, <1>3, <3>1, <3>2, GotoHolds DEF BarePcs, ReadyPcs, FoundPcs
    <3> QED
      BY <1>1, <1>2, <1>3, <3>1, <3>3, RemoteStep
  <2> QED
    BY <2>1, <2>2
<1>5. ASSUME NEW e, Goto(w, DeleteFailed(w, e)) PROVE OInv'
  BY <1>1, <1>2, <1>3, <1>5, ErrorsAreQuiet, QuietRemoteStep
<1> QED
  BY <1>4, <1>5 DEF CleanupRest

\* The registration is gone, whatever is found out about the original job.
LEMMA RecheckOwned ==
  ASSUME IInv, IInv', OInv, NEW w \in Workers, Recheck(w) \/ AskOriginal(w), UNCHANGED reaper
  PROVE  OInv'
<1>1. /\ Working(w) /\ worker[w].pc \in RemovedPcs /\ WorkerHolds(w)
      /\ worker[w].rec.runner \notin registered' /\ worker[w].rec.runner <= issued'
  BY Owning DEF Recheck, AskOriginal, At, Working, RemovedPcs, Local, githubVars, OInv,
     WorkersHold, WorkerHolds, Dead, Known
<1>2. IdsStay /\ RunsStay /\ TagsStay
  BY GitHubSteady, InstancesSteady DEF Recheck, AskOriginal, Local
<1>3. UNCHANGED <<storeVars, reaper>> /\ records' = records
  BY DEF Recheck, AskOriginal, Local, storeVars
<1>4. ASSUME NEW pc \in {"askOriginal", "finish"}, Goto(w, pc) PROVE OInv'
  <2>1. WorkerHolds(w)'
    BY <1>1, <1>3, <1>4, GotoHolds DEF BarePcs, ReadyPcs, FoundPcs
  <2> QED
    BY <1>1, <1>2, <1>3, <1>4, <2>1, RemoteStep
<1>5. ASSUME NEW pc \in {"releaseDelete", "deferReassigned"}, Goto(w, pc) PROVE OInv'
  <2>1. pc \in QuietPcs
    BY <1>5 DEF QuietPcs, LastWritePcs
  <2> QED
    BY <1>1, <1>2, <1>3, <1>5, <2>1, QuietRemoteStep
<1>6. ASSUME NEW b, worker' = [worker EXCEPT ![w].pc = "finish", ![w].queued = b] PROVE OInv'
  <2>1. /\ worker'[w].pc = "finish" /\ worker'[w].job = worker[w].job
        /\ worker'[w].rec = worker[w].rec
        /\ \A v \in Workers : v # w => worker'[v] = worker[v]
    BY <1>6 DEF IInv, TypeOK, WorkerTypeOK, Task
  <2>2. WorkerHolds(w)'
    BY <1>1, <1>3, <2>1
       DEF WorkerHolds, Remembers, Dead, Known, BarePcs, ReadyPcs, FoundPcs, KeptPcs
  <2>3. RecordsMove({worker[w].job})
    BY <1>3, SameMoves
  <2> QED
    BY <1>1, <1>2, <1>3, <2>1, <2>2, <2>3, OwnStep
<1> QED
  BY <1>4, <1>5, <1>6 DEF Recheck, AskOriginal

LEMMA FinishDeletionOwned ==
  ASSUME IInv, IInv', OInv, NEW w \in Workers, FinishDeletion(w), UNCHANGED reaper
  PROVE  OInv'
<1> DEFINE j == worker[w].job
           r == records[j]
<1>1. /\ Working(w) /\ worker[w].pc \in RemovedPcs /\ worker[w].queued \in BOOLEAN
      /\ worker[w].pc = "finish" /\ KindOf(w) = "delete"
  BY TypeFacts
     DEF FinishDeletion, At, Working, RemovedPcs, Task, KindOf, ProvisionPcs
<1>2. /\ j \in Jobs /\ r \in Record /\ Orderly(r) /\ r.runner \notin registered
      /\ r.claim = "delete" /\ Dead(worker[w].rec.runner) /\ CallsStore
  BY <1>1, Owning, WorkingFacts DEF FinishDeletion
<1>3. IdsStay /\ RunsStay /\ TagsStay
  BY <1>2, StoreCallSteady
<1>4. CASE Put(j, FinishDeletedRunner(r, worker[w].queued)) /\ Finish(w)
  <2>1. PICK s : s = FinishDeletedRunner(r, worker[w].queued)
    OBVIOUS
  <2>2. s.runner \in {r.runner, NoRunner} /\ s.instance \in {r.instance, NoInstance}
    BY <1>2, <2>1 DEF FinishDeletedRunner, RestoresDemand, MarkDeleted, Settled, Record
  <2>3. Moves(r, s)
    BY <1>1, <1>2, <2>1, <2>2, EndsAdvance DEF Moves
  <2>4. RecordsMove({j})
    BY <1>2, <1>4, <2>1, <2>2, <2>3, PutMoves
  <2> QED
    BY <1>1, <1>3, <1>4, <2>4, FinishStep
<1>5. CASE PutFails /\ Goto(w, "finishFailed")
  <2>1. records' = records
    BY <1>5 DEF PutFails
  <2>2. worker[w].rec.runner \notin registered' /\ worker[w].rec.runner <= issued'
    BY <1>2 DEF CallsStore, githubVars, Dead, Known
  <2>3. WorkerHolds(w)'
    BY <1>1, <1>5, <2>1, <2>2, GotoHolds DEF BarePcs, ReadyPcs, FoundPcs
  <2> QED
    BY <1>1, <1>2, <1>5, <2>3, FailedStep
<1> QED
  BY <1>4, <1>5 DEF FinishDeletion

LEMMA FinishFailedOwned ==
  ASSUME IInv, IInv', OInv, NEW w \in Workers, FinishFailed(w), UNCHANGED reaper
  PROVE  OInv'
<1> DEFINE j == worker[w].job
           r == records[j]
<1>1. Working(w) /\ KindOf(w) = "delete"
  BY DEF FinishFailed, At, Working, KindOf, ProvisionPcs
<1>2. r \in Record /\ Orderly(r) /\ r.claim = "delete" /\ CallsStore
  BY <1>1, Owning, WorkingFacts DEF FinishFailed
<1>3. CASE Put(j, MarkDeleteFailed(r)) /\ Finish(w)
  <2>1. Tends(r, MarkDeleteFailed(r))
    BY <1>2, MarkDeleteFailedTends
  <2> QED
    BY <1>1, <1>2, <1>3, <2>1, TendingPut
<1>4. CASE PutFails /\ Goto(w, "releaseDelete")
  <2>1. "releaseDelete" \in QuietPcs
    BY DEF QuietPcs, LastWritePcs
  <2> QED
    BY <1>1, <1>2, <1>4, <2>1, FailedStep
<1> QED
  BY <1>3, <1>4 DEF FinishFailed

LEMMA DeleteStepOwned ==
  ASSUME IInv, IInv', OInv, NEW w \in Workers, DeleteStep(w), UNCHANGED reaper
  PROVE  OInv'
  BY DeleteInstanceOwned, AcceptDeletionOwned, ConfirmAbsenceOwned, AwaitAbsenceOwned,
     CleanupRestOwned, RecheckOwned, FinishDeletionOwned, FinishFailedOwned DEF DeleteStep

-----------------------------------------------------------------------------
(* Claiming.                                                                 *)

\* A step that leaves every worker alone, lets it go or gives it a new task.
LEMMA IdleStep ==
  ASSUME IInv, IInv', OInv, IdsStay, TagsStay, Runs', RecordsKeep({}),
         \A v \in Workers : worker'[v] = worker[v] \/ ~Working(v)' \/ WorkerHolds(v)',
         HandledOver' /\ ReaperHolds'
  PROVE  OInv'
<1>1. RecordsOrderly' /\ Carried' /\ Registrations'
  BY WorldKeeps
<1>2. WorkersHold'
  BY OthersHold DEF WorkersHold, Working
<1> QED
  BY <1>1, <1>2 DEF OInv

LEMMA StoreStep ==
  ASSUME IInv, IInv', OInv, CallsStore, UNCHANGED reaper,
         \A j \in Jobs : Tends(records[j], records'[j]),
         \A v \in Workers : worker'[v] = worker[v] \/ ~Working(v)' \/ WorkerHolds(v)'
  PROVE  OInv'
<1>1. IdsStay /\ RunsStay /\ TagsStay
  BY StoreCallSteady
<1>2. Runs' /\ RecordsMove({})
  BY <1>1, RunsKeep, TendingMoves
<1> QED
  BY <1>1, <1>2, MovingKeeps, ReaperKeepsHold, IdleStep

LEMMA ScanOwned ==
  ASSUME IInv, IInv', OInv, NEW w \in Workers, Scan(w), UNCHANGED reaper
  PROVE  OInv'
<1>1. \A k \in Jobs : /\ Tends(records[k], records[k])
                      /\ Tends(records[k], Backstop(records[k]))
  BY TendsItself, BackstopTends DEF OInv, RecordsOrderly, IInv, RecordsSound, Sound
<1>2. \A k \in Jobs : records'[k] = records[k] \/ records'[k] = Backstop(records[k])
  BY DEF Scan, ScanWithoutClaim, ScanStops
<1>3. \A k \in Jobs : Tends(records[k], records'[k])
  BY <1>1, <1>2
<1> QED
  BY <1>3, StoreStep DEF Scan

LEMMA ClaimOwned ==
  ASSUME IInv, IInv', OInv, NEW w \in Workers, Claim(w), UNCHANGED reaper
  PROVE  OInv'
<1>1. PICK j \in Jobs :
        /\ ClaimFirst(j)
        /\ worker' = [worker EXCEPT ![w] =
             [Idle EXCEPT !.pc = FirstStep(Claimed(records[j])),
                          !.job = j, !.rec = Claimed(records[j])]]
  BY DEF Claim
<1>2. \A k \in Jobs : /\ Tends(records[k], records[k])
                      /\ Tends(records[k], Backstop(records[k]))
  BY TendsItself, BackstopTends DEF OInv, RecordsOrderly, IInv, RecordsSound, Sound
<1>3. Tends(records[j], Claimed(records[j]))
  BY <1>1, Ids, ClaimedTends DEF ClaimFirst, Claimable, WantsProvision, WantsDelete, OInv,
     RecordsOrderly, AnyId
<1>4. PICK c : c = Claimed(records[j])
  OBVIOUS
<1>5. \A k \in Jobs : Tends(records[k], records'[k])
  BY <1>1, <1>2, <1>3 DEF ClaimFirst
<1>6. records'[j] = c
  BY <1>1, <1>4 DEF ClaimFirst
<1>7. PICK t : t = [Idle EXCEPT !.pc = FirstStep(c), !.job = j, !.rec = c]
  OBVIOUS
<1>8. t.pc \in {"find", "confirm", "vmDelete"} /\ t.job = j /\ t.rec = c /\ t.jit = NoRunner
  BY <1>7 DEF Idle, FirstStep
<1>9. worker'[w] = t /\ \A v \in Workers : v # w => worker'[v] = worker[v]
  BY <1>1, <1>4, <1>7, TypeFacts
<1>10. WorkerHolds(w)'
  BY <1>6, <1>8, <1>9
     DEF WorkerHolds, Remembers, RemovedPcs, BarePcs, ReadyPcs, FoundPcs, KeptPcs
<1> QED
  BY <1>5, <1>9, <1>10, StoreStep DEF Claim

LEMMA WorkerStepOwned ==
  ASSUME IInv, IInv', XInv, OInv, NEW w \in Workers, WorkerStep(w)
  PROVE  OInv'
  BY ClaimOwned, ScanOwned, DeregisterOwned, ClearOwned, EndWorkOwned, ProvisionStepOwned,
     DeleteStepOwned DEF WorkerStep

-----------------------------------------------------------------------------
(* Webhooks, GitHub, the provider and restarts.                              *)

LEMMA CompletionTends ==
  ASSUME IInv, XInv, OInv, NEW k \in Jobs, NEW id, RecordCompletion(k, id)
  PROVE  \A j \in Jobs : Tends(records[j], records'[j])
<1> SUFFICES ASSUME NEW j \in Jobs PROVE Tends(records[j], records'[j])
  OBVIOUS
<1>1. records[j] \in Record /\ Orderly(records[j])
      /\ (records[j].status = "absent" => records[j].runner = NoRunner)
  BY Ids DEF OInv, RecordsOrderly, XInv, AbsentHoldsNothing
<1>2. PICK own \in BOOLEAN : own = (j = k)
  OBVIOUS
<1>3. records'[j] \in {records[j], MatchedCompletion(records[j], own),
                       EventCompletion(records[j], id)}
  BY <1>2 DEF RecordCompletion
<1> QED
  BY <1>1, <1>3, EventsTend, TendsItself

LEMMA StoreEventsOwned ==
  ASSUME IInv, IInv', XInv, OInv, NEW j \in Jobs,
         QueuedWebhook(j) \/ CompletedWebhook(j) \/ RetryTimePasses(j)
  PROVE  OInv'
<1>1. CallsStore /\ UNCHANGED <<worker, reaper>>
  BY DEF QueuedWebhook, CompletedWebhook, RetryTimePasses, CallsStore
<1>2. /\ records[j] \in Record /\ Orderly(records[j])
      /\ records[j].status = "absent" => records[j].runner = NoRunner
      /\ \A k \in Jobs : Tends(records[k], records[k])
  BY Ids, TendsItself DEF OInv, RecordsOrderly, XInv, AbsentHoldsNothing
<1>3. ASSUME NEW s, Put(j, s), Tends(records[j], s)
      PROVE  \A k \in Jobs : Tends(records[k], records'[k])
    BY <1>2, <1>3 DEF Put, IInv, TypeOK, StoreTypeOK
<1>4. CASE QueuedWebhook(j)
  <2>1. Put(j, NewDemand) /\ Tends(records[j], NewDemand)
    BY <1>2, <1>4, EventsTend DEF QueuedWebhook, CreateRecord
  <2> QED
    BY <1>1, <1>3, <2>1, StoreStep
<1>5. CASE CompletedWebhook(j)
  BY <1>1, <1>5, CompletionTends, StoreStep DEF CompletedWebhook
<1>6. CASE RetryTimePasses(j)
  <2>1. Put(j, [records[j] EXCEPT !.due = TRUE])
        /\ Tends(records[j], [records[j] EXCEPT !.due = TRUE])
    BY <1>2, <1>6, EventsTend DEF RetryTimePasses, BecomeDue
  <2> QED
    BY <1>1, <1>3, <2>1, StoreStep
<1> QED
  BY <1>4, <1>5, <1>6

LEMMA GitHubMovesOwned ==
  ASSUME IInv, IInv', OInv, NEW j \in Jobs,
         RunnerTakesJob(j) \/ ForeignRunnerTakesJob(j) \/ JobEnds(j)
  PROVE  OInv'
<1>1. UNCHANGED <<storeVars, vm, worker, reaper>> /\ records' = records /\ TagsStay
  BY InstancesSteady DEF RunnerTakesJob, ForeignRunnerTakesJob, JobEnds, storeVars
<1>2. IdsStay
  BY DEF RunnerTakesJob, ForeignRunnerTakesJob, JobEnds, TakeJob, FinishJob,
     CancelQueuedJob, IdsStay, Known, Dead
<1>3. jobState \in [Jobs -> {"queued", "running", "done"}]
      /\ ranOn \in [Jobs -> Runners \cup {NoRunner, Foreign}]
  BY DEF IInv, TypeOK, GitHubTypeOK
<1>4. Runs'
  <2>1. CASE RunnerTakesJob(j)
    <3>1. PICK i \in Instances : /\ vm[i].runner \in registered /\ ~Used(vm[i].runner)
                                 /\ TakeJob(j, vm[i].runner)
      BY <2>1 DEF RunnerTakesJob
    <3>2. /\ registered' = registered
          /\ ranOn'[j] = vm[i].runner
          /\ \A k \in Jobs : k # j => ranOn'[k] = ranOn[k] /\ jobState'[k] = jobState[k]
          /\ \A k \in Jobs : ranOn[k] # vm[i].runner
      BY <1>3, <3>1 DEF TakeJob, Used
    <3> QED
      BY <1>1, <3>1, <3>2 DEF OInv, Runs
  <2>2. CASE ForeignRunnerTakesJob(j)
    <3>1. /\ registered' = registered
          /\ ranOn'[j] = Foreign
          /\ \A k \in Jobs : k # j => ranOn'[k] = ranOn[k] /\ jobState'[k] = jobState[k]
      BY <1>3, <2>2 DEF TakeJob, ForeignRunnerTakesJob
    <3>2. Foreign \notin Runners
      BY BoundsAssumption DEF Foreign, Runners
    <3> QED
      BY <1>1, <3>1, <3>2 DEF OInv, Runs
  <2>3. CASE JobEnds(j)
    <3>1. /\ registered' = registered \/ registered' = registered \ {ranOn[j]}
          /\ ranOn' = ranOn
          /\ jobState'[j] = "done"
          /\ \A k \in Jobs : k # j => jobState'[k] = jobState[k]
      BY <1>3, <2>3 DEF JobEnds, FinishJob, CancelQueuedJob
    <3> QED
      BY <1>1, <3>1 DEF OInv, Runs
  <2> QED
    BY <2>1, <2>2, <2>3
<1>5. RecordsMove({}) /\ HandledOver' /\ ReaperHolds'
  BY <1>1, <1>2, SameMoves, ReaperKeepsHold
<1> QED
  BY <1>1, <1>2, <1>4, <1>5, OutsideStep

LEMMA InstanceMovesOwned ==
  ASSUME IInv, IInv', OInv, NEW i \in Instances, InstanceMoves(i)
  PROVE  OInv'
<1>1. UNCHANGED <<storeVars, githubVars, worker, reaper>> /\ records' = records
  BY DEF InstanceMoves, storeVars
<1>2. IdsStay /\ RunsStay /\ TagsStay
  BY <1>1, GitHubSteady, InstancesSteady DEF InstanceMoves
<1>3. Runs' /\ RecordsMove({})
  BY <1>1, <1>2, RunsKeep, SameMoves
<1> QED
  BY <1>1, <1>2, <1>3, ReaperKeepsHold, OutsideStep

\* A reaper that has nothing in hand.
LEMMA IdleReaperHolds ==
  ASSUME IInv', reaper' = ReaperIdle
  PROVE  HandledOver' /\ ReaperHolds'
<1>1. reaper'.pc = "idle" /\ reaper'.rec = Absent /\ reaper'.job = NoJob
      /\ \A j \in Jobs : reaper'.todo[j] = Absent
  BY DEF ReaperIdle, NothingListed
<1>2. HandledOver'
  BY <1>1 DEF HandledOver, HandledWithInstance, Absent
<1>3. issued' \in Nat
  BY BoundsAssumption DEF IInv, TypeOK, GitHubTypeOK
<1>4. ReaperHolds'
  BY <1>1, <1>3 DEF ReaperHolds, Absent, Known, ReapedPcs, NoRunner
<1> QED
  BY <1>2, <1>4

LEMMA RestartOwned ==
  ASSUME IInv, IInv', XInv, OInv, Restart
  PROVE  OInv'
<1>1. IdsStay /\ RunsStay /\ TagsStay
  BY GitHubSteady, InstancesSteady DEF Restart
<1>2. \A j \in Jobs : Tends(records[j], records'[j])
  <2>1. \A j \in Jobs : /\ records'[j] = RecoverRecord(records[j])
                        /\ records[j] \in Record /\ Orderly(records[j])
                        /\ records[j].status = "absent" => records[j].runner = NoRunner
    BY Ids DEF Restart, Reopen, RecoveredRecords, OInv, RecordsOrderly, XInv,
       AbsentHoldsNothing
  <2> QED
    BY <2>1, EventsTend
<1>3. Runs' /\ RecordsMove({})
  BY <1>1, <1>2, RunsKeep, TendingMoves
<1>4. \A v \in Workers : ~Working(v)'
  BY DEF Restart, Working, Idle
<1>5. HandledOver' /\ ReaperHolds'
  BY IdleReaperHolds DEF Restart
<1> QED
  BY <1>1, <1>3, <1>4, <1>5, MovingKeeps, IdleStep

-----------------------------------------------------------------------------
(* The reaper.                                                               *)

LEMMA ReaperStepOwned ==
  ASSUME IInv, IInv', OInv, IdsStay, TagsStay, RunsStay, RecordsMove({}), UNCHANGED worker,
         HandledOver' /\ ReaperHolds'
  PROVE  OInv'
  BY RunsKeep, OutsideStep

\* The pcs at which the reaper's copy has an instance, or where it goes on.
BeyondPcs == ReaperPcs \ (UntrackedPcs \cup {"idle"})

LEMMA ReapGotoHolds ==
  ASSUME IInv, IInv', OInv, IdsStay, RecordsMove({}), NEW pc, ReapGoto(pc),
         reaper.pc # "idle",
         pc \in BeyondPcs => reaper.pc \in BeyondPcs,
         pc \in ReapedPcs => reaper.rec.runner \notin registered'
  PROVE  HandledOver' /\ ReaperHolds'
<1>1. /\ reaper'.pc = pc /\ reaper'.job = reaper.job /\ reaper'.rec = reaper.rec
      /\ reaper'.todo = reaper.todo
  BY DEF IInv, TypeOK, ReaperTypeOK, ReapGoto
<1>2. pc \in ReaperPcs
  BY <1>1 DEF IInv, TypeOK, ReaperTypeOK
<1>3. \A j \in Jobs : HandledWithInstance(j)' => HandledWithInstance(j)
  BY <1>1, <1>2 DEF HandledWithInstance, BeyondPcs
<1>4. HandledOver'
  BY <1>3, CopiesHold DEF HandledOver
<1>5. ReaperHolds'
  BY <1>1, CopiesHold DEF ReaperHolds, Remembers, Known, Dead
<1> QED
  BY <1>4, <1>5

LEMMA ReapNextHolds ==
  ASSUME IInv, IInv', OInv, IdsStay, RecordsMove({}), ReapNext
  PROVE  HandledOver' /\ ReaperHolds'
<1>1. /\ reaper'.pc = "idle" /\ reaper'.rec = Absent /\ reaper'.todo = reaper.todo
  BY DEF IInv, TypeOK, ReaperTypeOK, ReapNext
<1>2. \A j \in Jobs : HandledWithInstance(j)' => HandledWithInstance(j)
  BY <1>1 DEF HandledWithInstance
<1>3. HandledOver'
  BY <1>2, CopiesHold DEF HandledOver
<1>4. Absent.runner <= issued'
  BY BoundsAssumption DEF Absent, IInv, TypeOK, GitHubTypeOK, NoRunner
<1>5. ReaperHolds'
  BY <1>1, <1>4, CopiesHold DEF ReaperHolds, ReapedPcs, Remembers, Known
<1> QED
  BY <1>3, <1>5

LEMMA ListExpiredOwned ==
  ASSUME ~Aging, IInv, IInv', XInv, OInv, ListExpired, UNCHANGED worker
  PROVE  OInv'
<1>1. UNCHANGED <<storeVars, githubVars, vm>> /\ records' = records
  BY DEF ListExpired, storeVars
<1>2. IdsStay /\ RunsStay /\ TagsStay /\ RecordsMove({})
  BY <1>1, GitHubSteady, InstancesSteady, SameMoves
<1>3. PICK listed :
        /\ \A j \in listed : j \in Jobs /\ (MayExpire(records[j]) \/ MustExpire(records[j]))
        /\ reaper' = [reaper EXCEPT !.todo =
                        [j \in Jobs |-> IF j \in listed THEN records[j] ELSE Absent]]
  <2>1. PICK old \in SUBSET {j \in Jobs : MayExpire(records[j])} :
          reaper' = [reaper EXCEPT !.todo =
            [j \in Jobs |-> IF j \in old \cup {k \in Jobs : MustExpire(records[k])}
                            THEN records[j] ELSE Absent]]
    BY DEF ListExpired
  <2> WITNESS old \cup {k \in Jobs : MustExpire(records[k])}
  <2> QED
    BY <2>1
<1>4. /\ reaper'.pc = "idle" /\ reaper'.rec = reaper.rec
      /\ \A j \in Jobs : reaper'.todo[j] = IF j \in listed THEN records[j] ELSE Absent
  BY <1>3 DEF ListExpired, ReaperIdle, IInv, TypeOK, ReaperTypeOK
<1>5. HandledOver'
  <2> SUFFICES ASSUME NEW j \in Jobs, HandledWithInstance(j)' PROVE Over(records'[j])
    BY DEF HandledOver
  <2>1. j \in listed /\ records[j].instance # NoInstance
    BY <1>4 DEF HandledWithInstance, Absent
  <2>2. Orderly(records[j])
    BY DEF OInv, RecordsOrderly
  <2>3. /\ records[j].claim = NoClaim /\ records[j].status = "completed"
        /\ records[j].jobCompleted
    BY <1>3, <2>1, <2>2 DEF MayExpire, MustExpire, Orderly
  <2> QED
    BY <1>1, <2>3 DEF Over, NoClaim
<1>6. ReaperHolds'
  <2>1. Absent.runner <= issued' /\ Absent.status = "absent"
    BY BoundsAssumption DEF Absent, IInv, TypeOK, GitHubTypeOK, NoRunner
  <2>2. \A j \in Jobs : records[j].runner <= issued'
    BY <1>1, RecordKnown DEF Known, githubVars
  <2>3. reaper.rec.runner <= issued'
    BY <1>1 DEF OInv, ReaperHolds, Known, githubVars
  <2> QED
    BY <1>1, <1>4, <2>1, <2>2, <2>3 DEF ReaperHolds, Remembers, Known, ReapedPcs
<1> QED
  BY <1>2, <1>5, <1>6, ReaperStepOwned

LEMMA ExpireRunnerOwned ==
  ASSUME IInv, IInv', OInv, NEW j \in Jobs, ExpireRunner(j), UNCHANGED worker
  PROVE  OInv'
<1> DEFINE r == reaper.todo[j]
           next == IF r.instance = NoInstance THEN "begin"
                   ELSE IF r.defer /\ r.runner # NoRunner THEN "prepare" ELSE "schedule"
<1>1. UNCHANGED <<storeVars, githubVars, vm>> /\ records' = records
  BY DEF ExpireRunner, storeVars
<1>2. IdsStay /\ RunsStay /\ TagsStay /\ RecordsMove({})
  BY <1>1, GitHubSteady, InstancesSteady, SameMoves
<1>3. /\ reaper'.pc = next /\ reaper'.job = j /\ reaper'.rec = r
      /\ reaper'.todo = [reaper.todo EXCEPT ![j] = Absent]
      /\ reaper.pc = "idle" /\ r.status # "absent"
  BY DEF ExpireRunner
<1>4. reaper'.todo[j] = Absent /\ \A k \in Jobs : k # j => reaper'.todo[k] = reaper.todo[k]
  BY <1>3 DEF IInv, TypeOK, ReaperTypeOK
<1>5. r.instance = NoInstance => next \in UntrackedPcs
  BY DEF UntrackedPcs
<1>6. next \notin ReapedPcs
  BY DEF ReapedPcs
<1> HIDE DEF next
<1>7. \A k \in Jobs : HandledWithInstance(k)' => HandledWithInstance(k)
  BY <1>3, <1>4, <1>5 DEF HandledWithInstance, Absent
<1>8. HandledOver'
  BY <1>2, <1>7, CopiesHold DEF HandledOver
<1>9. Absent.runner <= issued' /\ Absent.status = "absent"
  BY BoundsAssumption DEF Absent, IInv, TypeOK, GitHubTypeOK, NoRunner
<1>10. ReaperHolds'
  BY <1>2, <1>3, <1>4, <1>6, <1>9, CopiesHold DEF ReaperHolds, Remembers, Known
<1> QED
  BY <1>2, <1>8, <1>10, ReaperStepOwned

LEMMA Handled ==
  ASSUME IInv, OInv, reaper.pc # "idle"
  PROVE  /\ reaper.job \in Jobs /\ records[reaper.job] \in Record
         /\ Orderly(records[reaper.job]) /\ records[reaper.job].claim # "provision"
         /\ Dead(reaper.rec.runner) => records[reaper.job].runner \notin registered
         /\ reaper.pc \in ReapedPcs => Dead(reaper.rec.runner)
<1>1. reaper.job \in Jobs
  BY DEF IInv, ReaperHasJob
<1>2. /\ records[reaper.job] \in Record /\ Orderly(records[reaper.job])
      /\ records[reaper.job].claim # "provision"
  BY <1>1, Ids, HandledIsNotProvided DEF OInv, RecordsOrderly
<1>3. NoRunner \notin registered
  BY NothingIsDead DEF Dead
<1> QED
  BY <1>1, <1>2, <1>3 DEF OInv, ReaperHolds, Remembers, Dead

\* A store call of the reaper that keeps the registration of the record.
LEMMA ReapPut ==
  ASSUME IInv, OInv, reaper.pc # "idle", NEW s, Put(reaper.job, s) \/ PutFails,
         Tends(records[reaper.job], s)
  PROVE  RecordsMove({})
  BY Handled, PutTends, SameMoves DEF PutFails

LEMMA BeginCleanupOwned ==
  ASSUME IInv, IInv', OInv, BeginCleanup, UNCHANGED worker
  PROVE  OInv'
<1> DEFINE r == records[reaper.job]
<1>1. reaper.pc = "begin"
  BY DEF BeginCleanup
<1>2. IdsStay /\ RunsStay /\ TagsStay
  BY GitHubSteady, InstancesSteady DEF BeginCleanup
<1>3. Tends(r, BeginCleanupAttempt(r))
  BY <1>1, Handled, CleanupTends
<1>4. RecordsMove({})
  BY <1>1, <1>3, ReapPut DEF BeginCleanup
<1>5. CASE ReapNext
  BY <1>2, <1>4, <1>5, ReapNextHolds, ReaperStepOwned
<1>6. CASE ReapGoto(IF reaper.rec.runner = NoRunner THEN "reapVMs" ELSE "reapJIT")
  <2>1. NoRunner \notin registered' /\ "reapJIT" \notin ReapedPcs
    BY NothingIsDead DEF BeginCleanup, githubVars, Dead, ReapedPcs
  <2>2. "reapVMs" \notin BeyondPcs /\ "reapJIT" \notin BeyondPcs
    BY DEF BeyondPcs, UntrackedPcs
  <2>3. HandledOver' /\ ReaperHolds'
    BY <1>1, <1>2, <1>4, <1>6, <2>1, <2>2, ReapGotoHolds
  <2> QED
    BY <1>2, <1>4, <2>3, ReaperStepOwned
<1> QED
  BY <1>5, <1>6 DEF BeginCleanup

LEMMA ReapDeregisterOwned ==
  ASSUME IInv, IInv', OInv, ReapDeregister, UNCHANGED worker
  PROVE  OInv'
<1> DEFINE id == reaper.rec.runner
<1>1. reaper.pc \in {"reapJIT", "prepare", "orphanJIT"}
  BY DEF ReapDeregister
<1>2. IdsStay /\ RunsStay /\ TagsStay /\ records' = records
  BY GitHubSteady, InstancesSteady DEF ReapDeregister, storeVars
<1>3. RecordsMove({})
  BY <1>2, SameMoves
<1>4. ASSUME NEW pc, ReapGoto(pc), pc \in BeyondPcs => reaper.pc \in BeyondPcs,
             pc \in ReapedPcs => id \notin registered'
      PROVE  OInv'
  <2>1. HandledOver' /\ ReaperHolds'
    BY <1>1, <1>2, <1>3, <1>4, ReapGotoHolds
  <2> QED
    BY <1>2, <1>3, <2>1, ReaperStepOwned
<1>5. "prepare" \in BeyondPcs
  BY DEF BeyondPcs, ReaperPcs, UntrackedPcs
<1>6. CASE /\ RemoveRepoRunner(id)
           /\ ReapGoto(CASE reaper.pc = "reapJIT" -> "reapVMs"
                         [] reaper.pc = "prepare" -> "clearPrepared"
                         [] reaper.pc = "orphanJIT" -> "clearOrphan")
  <2>1. id \notin registered'
    BY <1>6 DEF RemoveRepoRunner
  <2>2. "reapVMs" \notin BeyondPcs /\ "clearOrphan" \notin BeyondPcs
    BY DEF BeyondPcs, UntrackedPcs
  <2> QED
    BY <1>1, <1>4, <1>5, <1>6, <2>1, <2>2
<1>7. ASSUME NEW e,
             NEW pc \in CASE reaper.pc = "reapJIT" -> {CleanupFailed(e)}
                          [] reaper.pc = "prepare" -> Deferral(e)
                          [] reaper.pc = "orphanJIT" -> {"markOrphan"},
             ReapGoto(pc)
      PROVE  OInv'
  <2>1. /\ pc \notin ReapedPcs
        /\ pc \in BeyondPcs => reaper.pc = "prepare"
    BY <1>1, <1>7 DEF CleanupFailed, Deferral, ReapedPcs, BeyondPcs, UntrackedPcs
  <2> QED
    BY <1>4, <1>5, <1>7, <2>1
<1> QED
  BY <1>6, <1>7 DEF ReapDeregister

LEMMA ReapVMsOwned ==
  ASSUME IInv, IInv', OInv, ReapVMs, UNCHANGED worker
  PROVE  OInv'
<1>1. reaper.pc = "reapVMs"
  BY DEF ReapVMs
<1>2. IdsStay /\ RunsStay /\ TagsStay /\ records' = records /\ registered' = registered
  BY GitHubSteady, InstancesSteady DEF ReapVMs, storeVars, githubVars
<1>3. RecordsMove({}) /\ reaper.rec.runner \notin registered'
  BY <1>1, <1>2, SameMoves, Handled DEF ReapedPcs, Dead
<1>4. \E pc : ReapGoto(pc) /\ pc \notin BeyondPcs
  BY DEF ReapVMs, CleanupFailed, BeyondPcs, UntrackedPcs
<1>5. HandledOver' /\ ReaperHolds'
  BY <1>1, <1>2, <1>3, <1>4, ReapGotoHolds
<1> QED
  BY <1>2, <1>3, <1>5, ReaperStepOwned

LEMMA ReapClearOwned ==
  ASSUME IInv, IInv', OInv, ReapClear, UNCHANGED worker
  PROVE  OInv'
<1> DEFINE r == records[reaper.job]
<1>1. reaper.pc \in {"clearPrepared", "clearOrphan"} /\ reaper.pc \in ReapedPcs
  BY DEF ReapClear, ReapedPcs
<1>2. IdsStay /\ RunsStay /\ TagsStay
  BY GitHubSteady, InstancesSteady DEF ReapClear
<1>3. RecordsMove({})
  <2>1. PICK s : s = ClearJIT(r)
    OBVIOUS
  <2>2. s.runner \in {r.runner, NoRunner} /\ s.instance = r.instance
    BY <1>1, <2>1, Handled DEF ClearJIT, Record
  <2>3. Moves(r, s)
    BY <1>1, <2>1, <2>2, Handled, EndsAdvance DEF Moves
  <2>4. CASE Put(reaper.job, s)
    BY <1>1, <2>2, <2>3, <2>4, Handled, PutMoves
  <2>5. CASE PutFails
    BY <2>5, SameMoves DEF PutFails
  <2> QED
    BY <2>1, <2>4, <2>5 DEF ReapClear
<1>4. PICK pc \in {"schedule", "markOrphan", "deferOther"} :
        ReapGoto(pc) /\ (pc # "markOrphan" => reaper.pc = "clearPrepared")
  BY DEF ReapClear
<1>5. /\ pc \notin ReapedPcs
      /\ pc \in BeyondPcs => reaper.pc \in BeyondPcs
  BY <1>4 DEF ReapedPcs, BeyondPcs, UntrackedPcs, ReaperPcs
<1>6. HandledOver' /\ ReaperHolds'
  BY <1>1, <1>2, <1>3, <1>4, <1>5, ReapGotoHolds
<1> QED
  BY <1>2, <1>3, <1>6, ReaperStepOwned

LEMMA EndReapOwned ==
  ASSUME IInv, IInv', OInv, EndReap, UNCHANGED worker
  PROVE  OInv'
<1> DEFINE r == records[reaper.job]
<1>1. reaper.pc \in ReapWritePcs /\ reaper.pc # "idle"
  BY DEF EndReap, ReapWritePcs
<1>2. IdsStay /\ RunsStay /\ TagsStay
  BY GitHubSteady, InstancesSteady DEF EndReap
<1>3. r \in Record /\ Orderly(r) /\ r.claim # "provision"
  BY <1>1, Handled
<1>4. RecordsMove({})
  <2>1. CASE reaper.pc = "markDeleted"
    <3>1. PICK s : s = MarkDeleted(r)
      OBVIOUS
    <3>2. s.runner = r.runner /\ s.instance = r.instance
      BY <1>3, <3>1 DEF MarkDeleted, Record
    <3>3. r.runner \notin registered
      BY <1>1, <2>1, Handled DEF ReapedPcs
    <3>4. Moves(r, s)
      BY <1>3, <3>1, <3>2, <3>3, EndsAdvance DEF Moves
    <3>5. CASE Put(reaper.job, s)
      BY <1>1, <3>2, <3>4, <3>5, Handled, PutMoves
    <3>6. CASE PutFails
      BY <3>6, SameMoves DEF PutFails
    <3> QED
      BY <2>1, <3>1, <3>5, <3>6 DEF EndReap, ReapWrite
  <2>2. CASE reaper.pc # "markDeleted"
    <3>1. /\ Tends(r, ScheduleDeletion(r)) /\ Tends(r, MarkOrphaned(r))
          /\ Tends(r, DeferReconciliation(r, TRUE, FALSE))
          /\ Tends(r, DeferReconciliation(r, FALSE, TRUE))
          /\ Tends(r, DeferReconciliation(r, FALSE, FALSE))
          /\ Tends(r, DeferRateLimitedCleanup(r, TRUE))
          /\ Tends(r, DeferRateLimitedCleanup(r, FALSE))
      BY <1>3, DeletionTends, CleanupTends
    <3>2. reaper.pc = "cleanupFailed" => Tends(r, MarkDeleteFailed(r))
      <4>1. reaper.pc = "cleanupFailed" => Untracked(r)
        BY <1>1, Handled DEF IInv, ReaperKeepsToUntracked, InReaperHands, UntrackedPcs
      <4> QED
        BY <1>3, <4>1, MarkDeleteFailedTends
    <3>3. Tends(r, ReapWrite)
      BY <1>1, <2>2, <3>1, <3>2 DEF ReapWrite, ReapWritePcs
    <3> QED
      BY <1>1, <3>3, ReapPut DEF EndReap
  <2> QED
    BY <2>1, <2>2
<1>5. HandledOver' /\ ReaperHolds'
  BY <1>2, <1>4, ReapNextHolds DEF EndReap
<1> QED
  BY <1>2, <1>4, <1>5, ReaperStepOwned

LEMMA ReapMarkerOwned ==
  ASSUME IInv, IInv', OInv, NEW id, ReapMarker(id), UNCHANGED worker
  PROVE  OInv'
<1>1. IdsStay /\ RunsStay /\ TagsStay /\ RecordsMove({})
  BY GitHubSteady, InstancesSteady, SameMoves DEF ReapMarker
<1>2. HandledOver' /\ ReaperHolds'
  BY <1>1, ReaperKeepsHold DEF ReapMarker
<1> QED
  BY <1>1, <1>2, ReaperStepOwned

\* What is pruned has nothing registered, or is deleted.
LEMMA RetentionOwned ==
  ASSUME IInv, IInv', OInv, NEW j \in Jobs, RetentionPasses(j)
  PROVE  OInv'
<1>1. /\ records'[j] = Absent
      /\ \A k \in Jobs : k # j => records'[k] = records[k]
  BY DEF RetentionPasses, PruneDeleted, Put, IInv, TypeOK, StoreTypeOK
<1>2. IdsStay /\ RunsStay /\ TagsStay /\ reaper' = ReaperIdle /\ UNCHANGED worker
  BY GitHubSteady, InstancesSteady DEF RetentionPasses
<1>3. RecordsKeep({})
  <2>1. ASSUME NEW k \in Jobs
        PROVE  /\ Orderly(records'[k]) /\ NamesOwn(k)
               /\ \/ Stands(records[k], records'[k])
                  \/ ~Present(records[k]) \/ records[k].runner \notin registered
               /\ records'[k].runner \in {records[k].runner, NoRunner}
               /\ records[k].claim = "provision" => records'[k].runner = records[k].runner
    <3>1. CASE k # j
      BY <1>1, <3>1 DEF OInv, RecordsOrderly, NamesOwn, Stands
    <3>2. CASE k = j
      <4>1. Orderly(Absent) /\ Absent.instance = NoInstance /\ Absent.runner = NoRunner
        BY DEF Orderly, Absent, NoClaim
      <4>2. ~Present(records[j]) \/ records[j].runner \notin registered
        BY NothingIsDead DEF RetentionPasses, PruneDeleted, Prunable, Present, Dead
      <4>3. records[j].claim # "provision"
        BY DEF OInv, RecordsOrderly, Orderly, RetentionPasses, PruneDeleted, Prunable
      <4> QED
        BY <1>1, <3>2, <4>1, <4>2, <4>3 DEF NamesOwn
    <3> QED
      BY <3>1, <3>2
  <2> QED
    BY <2>1 DEF RecordsKeep
<1>4. Runs' /\ HandledOver' /\ ReaperHolds'
  BY <1>2, RunsKeep, IdleReaperHolds
<1> QED
  BY <1>2, <1>3, <1>4, IdleStep

LEMMA ReaperMovesOwned ==
  ASSUME ~Aging, IInv, IInv', XInv, OInv, ReaperMoves
  PROVE  OInv'
  BY ListExpiredOwned, ExpireRunnerOwned, BeginCleanupOwned, ReapDeregisterOwned, ReapVMsOwned,
     ReapClearOwned, EndReapOwned, ReapMarkerOwned, RetentionOwned
     DEF ReaperMoves, ReaperStep

-----------------------------------------------------------------------------
(* The theorems.                                                             *)

LEMMA NextOwned == ~Aging /\ IInv /\ IInv' /\ XInv /\ OInv /\ [Next]_vars => OInv'
<1> SUFFICES ASSUME ~Aging, IInv, IInv', XInv, OInv, [Next]_vars PROVE OInv'
  OBVIOUS
<1>1. CASE UNCHANGED vars
  <2>1. UNCHANGED <<storeVars, githubVars, vm, worker, reaper>> /\ records' = records
    BY <1>1 DEF vars, storeVars
  <2>2. IdsStay /\ RunsStay /\ TagsStay /\ RecordsMove({})
    BY <2>1, GitHubSteady, InstancesSteady, SameMoves
  <2> QED
    BY <2>1, <2>2, ReaperKeepsHold, ReaperStepOwned
<1>2. CASE Outside
  BY <1>2, StoreEventsOwned, GitHubMovesOwned, InstanceMovesOwned DEF Outside
<1>3. CASE WorkersMove
  BY <1>3, WorkerStepOwned DEF WorkersMove
<1>4. CASE ReaperMoves
  BY <1>4, ReaperMovesOwned
<1>5. CASE Restart
  BY <1>5, RestartOwned
<1> QED
  BY <1>1, <1>2, <1>3, <1>4, <1>5 DEF Next

LEMMA OwnershipInvariance == ~Aging => (Spec => []OInv)
<1> SUFFICES ASSUME ~Aging PROVE Spec => []OInv
  OBVIOUS
<1>1. Init => OInv
  BY OwnedInitially
<1>2. IInv /\ IInv' /\ XInv /\ OInv /\ [Next]_vars => OInv'
  BY NextOwned
<1> QED
  BY <1>1, <1>2, Invariance, IndexInvariance, PTL DEF Spec

\* The record that holds the registration of an instance.
LEMMA InstanceOwner ==
  ASSUME IInv, OInv, NEW i \in Instances, vm[i].runner \in registered
  PROVE  /\ vm[i].job \in Jobs /\ vm[i].runner \in Runners
         /\ records[vm[i].job].runner = vm[i].runner /\ Present(records[vm[i].job])
<1>1. vm[i].runner \in Runners /\ vm[i].runner # NoRunner
  BY Ids, NothingIsNoId
<1>2. vm[i].job \in Jobs
  BY <1>1 DEF OInv, Carried
<1>3. records[vm[i].job].runner = vm[i].runner /\ Present(records[vm[i].job])
  BY DEF OInv, Registrations
<1> QED
  BY <1>1, <1>2, <1>3

\* The worker that is about to store an instance still knows the registration
\* of the record, so that storing it leaves no gap in the index.
LEMMA NothingUnindexed ==
  ASSUME IInv, IInv', XInv, OInv, IndexComplete, [Next]_vars
  PROVE  IndexComplete'
<1> SUFFICES ASSUME NEW j \in Jobs PROVE Keyed(j)'
  BY DEF IndexComplete
<1>1. ASSUME NEW w \in Workers, Gap(w, j) PROVE FALSE
  BY <1>1 DEF Gap, Working, OInv, WorkersHold, WorkerHolds, KeptPcs
<1>2. KeyKept(j) \/ Keyed(j)'
  BY <1>1, NextIndexes
<1> QED
  BY <1>2 DEF KeyKept, IndexComplete

\* The completion of a runner finds the record that holds its registration,
\* always, whatever runners GitHub gave to whatever jobs, whatever became of the
\* identities that could not be stored, and also after a restart has rebuilt
\* the index, as long as no record reaches MAX_RUNNER_AGE; beyond it there is
\* the gap of IndexCatchesUp.
THEOREM IndexIsComplete == ~Aging => (Spec => []IndexComplete)
<1> SUFFICES ASSUME ~Aging PROVE Spec => []IndexComplete
  OBVIOUS
<1>1. IInv /\ IInv' /\ XInv /\ OInv /\ IndexComplete /\ [Next]_vars => IndexComplete'
  BY NothingUnindexed
<1> QED
  BY <1>1, XInitially, Invariance, IndexInvariance, OwnershipInvariance, PTL DEF Spec

\* A runner that executes a job is known to the store (RecordCompletion finds
\* the record to release by the runner id of the completion), for every number
\* of jobs and workers and whatever calls fail, as long as no record reaches
\* MAX_RUNNER_AGE.
THEOREM RunnersAreOwned == ~Aging => (Spec => []RunningRunnerOwned)
<1> SUFFICES ASSUME ~Aging PROVE Spec => []RunningRunnerOwned
  OBVIOUS
<1>1. IInv /\ OInv /\ IndexComplete => RunningRunnerOwned
  <2> SUFFICES ASSUME IInv, OInv, IndexComplete, NEW j \in Jobs, jobState[j] = "running",
                      ranOn[j] \in Runners
               PROVE  OwnsRunner(ranOn[j])
    BY DEF RunningRunnerOwned
  <2>1. PICK i \in Instances : vm[i].runner = ranOn[j] /\ vm[i].runner \in registered
    BY DEF OInv, Runs
  <2> QED
    BY <2>1, InstanceOwner, NothingIsNoId DEF OwnsRunner, MatchedKey, Present,
       IndexComplete, Keyed
<1> QED
  BY <1>1, OwnershipInvariance, Invariance, IndexIsComplete, PTL

\* A provisioned record (MarkProvisioned) names an instance that carries its
\* job tag and, while the registration of that instance is alive, this very
\* registration, as long as no record reaches MAX_RUNNER_AGE.
THEOREM ProvisionedRecordsMatch == ~Aging => (Spec => []ProvisionedMatches)
<1> SUFFICES ASSUME ~Aging PROVE Spec => []ProvisionedMatches
  OBVIOUS
<1>1. IInv /\ OInv => ProvisionedMatches
  <2> SUFFICES ASSUME IInv, OInv, NEW j \in Jobs, records[j].status = "provisioned"
               PROVE  LET v == vm[records[j].instance]
                      IN v.job = j /\ (records[j].runner = v.runner
                                       \/ v.runner \notin registered)
    BY DEF ProvisionedMatches
  <2>1. records[j].instance \in Instances /\ vm[records[j].instance].job = j
    BY Ids DEF IInv, RecordsSound, Sound, Record, OInv, Carried
  <2> QED
    BY <2>1, InstanceOwner
<1> QED
  BY <1>1, OwnershipInvariance, Invariance, PTL

\* The calls that change instances.
LEMMA InstanceCalls ==
  ASSUME [Next]_vars
  PROVE  \/ UNCHANGED vm \/ ReapVMs
         \/ \E i \in Instances : InstanceMoves(i)
         \/ \E w \in Workers : \/ DropVM(w) \/ CleanupExhausted(w) \/ DeleteInstance(w)
                               \/ CleanupRest(w) \/ Create(w)
<1>1. CASE Outside
  BY <1>1 DEF Outside, QueuedWebhook, CompletedWebhook, RunnerTakesJob,
     ForeignRunnerTakesJob, JobEnds, RetryTimePasses
<1>2. ASSUME NEW w \in Workers, WorkerStep(w)
      PROVE  \/ UNCHANGED vm \/ DropVM(w) \/ CleanupExhausted(w) \/ DeleteInstance(w)
             \/ CleanupRest(w) \/ Create(w)
  BY <1>2 DEF WorkerStep, Claim, Scan, Deregister, Clear, EndWork, ProvisionStep, DeleteStep,
     Find, CheckDemand, AskDemand, Retire, Generate, PersistJIT, DropJIT, PersistVM, IndexVM,
     AcceptDeletion, ConfirmAbsence, AwaitAbsence, Recheck, AskOriginal, FinishDeletion,
     FinishFailed, Local, CallsGitHub, CallsStore
<1>3. CASE ReaperMoves
  BY <1>3 DEF ReaperMoves, ReaperStep, RetentionPasses, ListExpired, ExpireRunner,
     BeginCleanup, ReapDeregister, ReapClear, EndReap, ReapMarker
<1>4. CASE Restart
  BY <1>4 DEF Restart
<1> QED
  BY <1>1, <1>2, <1>3, <1>4 DEF Next, WorkersMove, vars

\* Instances start in Create, and nowhere else.
LEMMA OnlyCreateStarts ==
  ASSUME IInv, OInv, [Next]_vars
  PROVE  TagsStay \/ \E w \in Workers : Create(w)
<1>1. CASE UNCHANGED vm
  BY <1>1, InstancesSteady
<1>2. CASE \E i \in Instances : InstanceMoves(i)
  BY <1>2, InstancesSteady DEF InstanceMoves
<1>3. CASE ReapVMs
  BY <1>3, InstancesSteady DEF ReapVMs
<1>4. ASSUME NEW w \in Workers,
             DropVM(w) \/ CleanupExhausted(w) \/ DeleteInstance(w) \/ CleanupRest(w)
      PROVE  TagsStay
  BY <1>4, InstancesSteady DEF DropVM, CleanupExhausted, DeleteInstance, CleanupRest,
     DeleteFails
<1> QED
  BY <1>1, <1>2, <1>3, <1>4, InstanceCalls

\* What an instance is started with.
LEMMA StartedWith ==
  ASSUME IInv, OInv, NEW w \in Workers, Create(w), NEW i \in Instances,
         vm[i].state = "none", vm'[i].state # "none"
  PROVE  /\ vm'[i].job = worker[w].job /\ vm'[i].runner = worker[w].jit
         /\ worker[w].job \in Jobs /\ worker[w].jit \in Runners
         /\ records[worker[w].job].claim = "provision"
         /\ records[worker[w].job].status # "deleted"
         /\ records[worker[w].job].runner = worker[w].jit
<1> DEFINE j == worker[w].job
           id == worker[w].jit
<1>1. Working(w) /\ worker[w].pc = "create" /\ KindOf(w) = "provision"
  BY DEF Create, At, Working, KindOf, ProvisionPcs
<1>2. /\ j \in Jobs /\ records[j].claim = "provision" /\ id # NoRunner /\ id \in AnyId
      /\ records[j].runner = id /\ records[j].status # "deleted"
  BY <1>1, Owning, WorkingFacts, Ids DEF WorkerHolds, ReadyPcs, Orderly
<1>3. id \in Runners
  BY <1>2 DEF AnyId
<1>4. ASSUME NEW k \in Instances, CreateStarts(j, k, id)
      PROVE  vm'[i].job = j /\ vm'[i].runner = id
  BY <1>4 DEF CreateStarts, StartVM, IInv, TypeOK, ProviderTypeOK
<1>5. vm'[i].job = j /\ vm'[i].runner = id
  BY <1>4 DEF Create, CreateReuses, CreateFails
<1> QED
  BY <1>2, <1>3, <1>5

\* Nothing runs with an identity that is not durable: an instance starts only
\* for a record that is claimed for provisioning, with the registration that
\* is stored in that record and indexed for it (provision stores it by
\* MarkJITCreated before it calls CreateRunner), as long as no record reaches
\* MAX_RUNNER_AGE.
THEOREM IdentitiesAreDurable == ~Aging => (Spec => IdentityDurable)
<1> SUFFICES ASSUME ~Aging PROVE Spec => IdentityDurable
  OBVIOUS
<1> DEFINE Durable == \A i \in Instances : vm[i].state = "none" /\ vm'[i].state # "none" =>
             LET r == records[vm'[i].job]
             IN /\ r.claim = "provision" /\ r.runner = vm'[i].runner
                /\ runnerKeys[r.runner] = vm'[i].job
<1>1. IInv /\ OInv /\ IndexComplete /\ [Next]_vars => Durable
  <2> SUFFICES ASSUME IInv, OInv, IndexComplete, [Next]_vars PROVE Durable
    OBVIOUS
  <2>1. CASE TagsStay
    BY <2>1 DEF TagsStay
  <2>2. ASSUME NEW w \in Workers, Create(w) PROVE Durable
    BY <2>2, StartedWith, NothingIsNoId DEF IndexComplete, Keyed
  <2> QED
    BY <2>1, <2>2, OnlyCreateStarts
<1>2. IInv /\ OInv /\ IndexComplete /\ [Next]_vars => [Durable]_vars
  BY <1>1
<1>3. Spec => [][Durable]_vars
  BY <1>2, OwnershipInvariance, Invariance, IndexIsComplete, PTL DEF Spec
<1> QED
  BY <1>3, PTL DEF IdentityDurable

-----------------------------------------------------------------------------
(* What happens to claims, to instance ids and to interrupted demand.        *)

\* No demand is restored, a claim that matters was there before, and a record
\* keeps the instance it names until it is removed.
Rests(r, s) ==
  /\ r.status = "deleting" => s.status # "pending"
  /\ s.claim # NoClaim /\ ~Settled(s) => r.claim = s.claim /\ ~Settled(r)
  /\ r.instance # NoInstance =>
       s.instance # NoInstance \/ (~Present(r) /\ s.runner = NoRunner)

LEMMA RestsItself == \A r : Rests(r, r)
  BY DEF Rests

LEMMA WorkRests ==
  ASSUME NEW r \in Record, Orderly(r)
  PROVE  /\ Rests(r, Backstop(r))
         /\ \A kind \in WorkKinds : /\ Rests(r, ReleaseClaim(r, kind))
                                    /\ Rests(r, DeferRateLimitedWork(r, kind))
         /\ Rests(r, DeferProvisioningDemand(r)) /\ Rests(r, MarkDeleteFailed(r))
         /\ r.claim = "provision" => Rests(r, MarkProvisionFailed(r))
<1> USE DEF Rests, Orderly, Record, Settled, Refund, NoClaim
<1>1. ASSUME NEW s, s = Backstop(r) PROVE Rests(r, s)
  BY <1>1 DEF Backstop
<1>2. ASSUME NEW kind \in WorkKinds, NEW s, s = ReleaseClaim(r, kind) PROVE Rests(r, s)
  BY <1>2 DEF ReleaseClaim, WorkKinds
<1>3. ASSUME NEW kind \in WorkKinds, NEW s, s = DeferRateLimitedWork(r, kind)
      PROVE  Rests(r, s)
  BY <1>3 DEF DeferRateLimitedWork, WorkKinds
<1>4. ASSUME NEW s, s = DeferProvisioningDemand(r) PROVE Rests(r, s)
  BY <1>4 DEF DeferProvisioningDemand
<1>5. ASSUME NEW s, s = MarkDeleteFailed(r) PROVE Rests(r, s)
  BY <1>5 DEF MarkDeleteFailed
<1>6. ASSUME NEW s, s = MarkProvisionFailed(r), r.claim = "provision" PROVE Rests(r, s)
  BY <1>6 DEF MarkProvisionFailed
<1> HIDE DEF Rests
<1> QED
  BY <1>1, <1>2, <1>3, <1>4, <1>5, <1>6

LEMMA DeletionRests ==
  ASSUME NEW r \in Record, Orderly(r)
  PROVE  /\ Rests(r, DeferDeletionConfirmation(r)) /\ Rests(r, DeferReassignmentDemand(r))
         /\ \A i : Rests(r, MarkDeletionAccepted(r, i))
         /\ Rests(r, MarkOrphaned(r)) /\ Rests(r, ScheduleDeletion(r))
         /\ Rests(r, ClearJIT(r)) /\ Rests(r, MarkDeleted(r))
<1> USE DEF Rests, Orderly, Record, Settled, Refund, NoClaim
<1>1. ASSUME NEW s, s = DeferDeletionConfirmation(r) PROVE Rests(r, s)
  BY <1>1 DEF DeferDeletionConfirmation
<1>2. ASSUME NEW s, s = DeferReassignmentDemand(r) PROVE Rests(r, s)
  BY <1>2 DEF DeferReassignmentDemand
<1>3. ASSUME NEW i, NEW s, s = MarkDeletionAccepted(r, i) PROVE Rests(r, s)
  BY <1>3 DEF MarkDeletionAccepted
<1>4. ASSUME NEW s, s = MarkOrphaned(r) PROVE Rests(r, s)
  BY <1>4 DEF MarkOrphaned
<1>5. ASSUME NEW s, s = ScheduleDeletion(r) PROVE Rests(r, s)
  BY <1>5 DEF ScheduleDeletion
<1>6. ASSUME NEW s, s = ClearJIT(r) PROVE Rests(r, s)
  BY <1>6 DEF ClearJIT
<1>7. ASSUME NEW s, s = MarkDeleted(r) PROVE Rests(r, s)
  BY <1>7 DEF MarkDeleted
<1> HIDE DEF Rests
<1> QED
  BY <1>1, <1>2, <1>3, <1>4, <1>5, <1>6, <1>7

LEMMA EventsRest ==
  ASSUME NEW r \in Record, Orderly(r)
  PROVE  /\ Rests(r, [r EXCEPT !.due = TRUE])
         /\ \A own \in BOOLEAN : Rests(r, MatchedCompletion(r, own))
         /\ \A id : Rests(r, EventCompletion(r, id))
         /\ Rests(r, RecoverRecord(r)) /\ RecoverRecord(r).claim = NoClaim
         /\ (Prunable(r) => Rests(r, Absent)) /\ (r.status = "absent" => Rests(r, NewDemand))
<1> USE DEF Rests, Orderly, Record, Settled, NoClaim, Present
<1>1. ASSUME NEW s, s = [r EXCEPT !.due = TRUE] PROVE Rests(r, s)
  BY <1>1
<1>2. ASSUME NEW own \in BOOLEAN, NEW s, s = MatchedCompletion(r, own) PROVE Rests(r, s)
  BY <1>2 DEF MatchedCompletion, WorkKinds
<1>3. ASSUME NEW id, NEW s, s = EventCompletion(r, id) PROVE Rests(r, s)
  BY <1>3 DEF EventCompletion, Absent
<1>4. ASSUME NEW s, s = RecoverRecord(r) PROVE Rests(r, s) /\ s.claim = NoClaim
  BY <1>4 DEF RecoverRecord, Refund
<1>5. ASSUME NEW s, s = NewDemand, r.status = "absent" PROVE Rests(r, s)
  BY <1>5 DEF NewDemand, Absent
<1>6. ASSUME Prunable(r) PROVE Rests(r, Absent)
  BY <1>6 DEF Absent, Prunable
<1> HIDE DEF Rests
<1> QED
  BY <1>1, <1>2, <1>3, <1>4, <1>5, <1>6

LEMMA CleanupRests ==
  ASSUME NEW r \in Record, Orderly(r)
  PROVE  /\ Rests(r, BeginCleanupAttempt(r))
         /\ \A a \in BOOLEAN : Rests(r, DeferRateLimitedCleanup(r, a))
         /\ \A a, b \in BOOLEAN : Rests(r, DeferReconciliation(r, a, b))
<1> USE DEF Rests, Orderly, Record, Settled, NoClaim
<1>1. ASSUME NEW s, s = BeginCleanupAttempt(r) PROVE Rests(r, s)
  BY <1>1 DEF BeginCleanupAttempt, CleanupReady
<1>2. ASSUME NEW a \in BOOLEAN, NEW s, s = DeferRateLimitedCleanup(r, a) PROVE Rests(r, s)
  BY <1>2 DEF DeferRateLimitedCleanup
<1>3. ASSUME NEW a \in BOOLEAN, NEW b \in BOOLEAN, NEW s, s = DeferReconciliation(r, a, b)
      PROVE  Rests(r, s)
  BY <1>3 DEF DeferReconciliation
<1> HIDE DEF Rests
<1> QED
  BY <1>1, <1>2, <1>3

LEMMA ProvisioningRests ==
  ASSUME NEW r \in Record, Orderly(r), r.claim = "provision"
  PROVE  /\ \A job, id, marker : Rests(r, MarkJITCreated(r, job, id, marker))
         /\ \A i, id : i # NoInstance => Rests(r, MarkProvisioned(r, i, id))
<1> USE DEF Rests, Orderly, Record, Settled, NoClaim
<1>1. ASSUME NEW job, NEW id, NEW marker, NEW s, s = MarkJITCreated(r, job, id, marker)
      PROVE  Rests(r, s)
  BY <1>1 DEF MarkJITCreated
<1>2. ASSUME NEW i, NEW id, NEW s, s = MarkProvisioned(r, i, id), i # NoInstance
      PROVE  Rests(r, s)
  BY <1>2 DEF MarkProvisioned
<1> HIDE DEF Rests
<1> QED
  BY <1>1, <1>2

\* The last store call of a worker gives its claim back.
Released(s) == s.claim = NoClaim \/ Settled(s)

LEMMA WorkReleases ==
  ASSUME NEW r \in Record, Orderly(r)
  PROVE  /\ \A kind \in WorkKinds : r.claim = kind =>
              Released(ReleaseClaim(r, kind)) /\ Released(DeferRateLimitedWork(r, kind))
         /\ r.claim = "provision" =>
              Released(DeferProvisioningDemand(r)) /\ Released(MarkProvisionFailed(r))
         /\ r.claim = "delete" =>
              Released(DeferReassignmentDemand(r)) /\ Released(MarkDeleteFailed(r))
         /\ Released(MarkOrphaned(r)) /\ Released(MarkDeleted(r))
         /\ \A queued \in BOOLEAN : Released(FinishDeletedRunner(r, queued))
         /\ \A i, id : Released(MarkProvisioned(r, i, id))
<1> USE DEF Released, Record, Settled, Refund, NoClaim
<1>1. ASSUME NEW kind \in WorkKinds, r.claim = kind
      PROVE  Released(ReleaseClaim(r, kind)) /\ Released(DeferRateLimitedWork(r, kind))
  <2>1. ASSUME NEW s, s = ReleaseClaim(r, kind) PROVE Released(s)
    BY <1>1, <2>1 DEF ReleaseClaim, WorkKinds
  <2>2. ASSUME NEW s, s = DeferRateLimitedWork(r, kind) PROVE Released(s)
    BY <1>1, <2>2 DEF DeferRateLimitedWork, WorkKinds
  <2> HIDE DEF Released
  <2> QED
    BY <2>1, <2>2
<1>2. ASSUME r.claim = "provision",
             NEW s, s \in {DeferProvisioningDemand(r), MarkProvisionFailed(r)}
      PROVE  Released(s)
  BY <1>2 DEF DeferProvisioningDemand, MarkProvisionFailed
<1>3. ASSUME r.claim = "delete",
             NEW s, s \in {DeferReassignmentDemand(r), MarkDeleteFailed(r)}
      PROVE  Released(s)
  BY <1>3 DEF DeferReassignmentDemand, MarkDeleteFailed
<1>4. ASSUME NEW s, s \in {MarkOrphaned(r), MarkDeleted(r)} PROVE Released(s)
  BY <1>4 DEF MarkOrphaned, MarkDeleted
<1>5. ASSUME NEW queued \in BOOLEAN, NEW s, s = FinishDeletedRunner(r, queued)
      PROVE  Released(s)
  BY <1>5 DEF FinishDeletedRunner, RestoresDemand, MarkDeleted
<1>6. ASSUME NEW i, NEW id, NEW s, s = MarkProvisioned(r, i, id) PROVE Released(s)
  BY <1>6 DEF MarkProvisioned
<1> HIDE DEF Released
<1> QED
  BY <1>1, <1>2, <1>3, <1>4, <1>5, <1>6

AllRest == \A j \in Jobs : Rests(records[j], records'[j])

LEMMA SameRests == records' = records => AllRest
  BY RestsItself DEF AllRest

LEMMA PutRests ==
  ASSUME IInv, NEW j \in Jobs, NEW s, Put(j, s), Rests(records[j], s)
  PROVE  AllRest
  BY RestsItself DEF AllRest, Put, IInv, TypeOK, StoreTypeOK

\* Calls that write no record.
LEMMA RemoteRests ==
  ASSUME NEW w \in Workers,
         \/ Deregister(w) \/ Find(w) \/ DropVM(w) \/ CheckDemand(w) \/ AskDemand(w)
         \/ Generate(w) \/ DropJIT(w) \/ Create(w) \/ IndexVM(w) \/ CleanupExhausted(w)
         \/ DeleteInstance(w) \/ ConfirmAbsence(w) \/ CleanupRest(w) \/ Recheck(w)
         \/ AskOriginal(w)
  PROVE  AllRest
<1>1. records' = records
  BY DEF Deregister, Find, DropVM, CheckDemand, AskDemand, Generate, DropJIT, Create,
     IndexVM, IndexInstance, CleanupExhausted, DeleteInstance, ConfirmAbsence,
     CleanupRest, Recheck, AskOriginal, Local, CallsGitHub, CallsProvider, storeVars
<1> QED
  BY <1>1, SameRests

LEMMA EndWorkRests ==
  ASSUME IInv, OInv, NEW w \in Workers, worker[w].pc \in LastWritePcs
  PROVE  Rests(records[worker[w].job], LastWrite(w)) /\ Released(LastWrite(w))
<1> DEFINE r == records[worker[w].job]
<1>1. Working(w)
  BY DEF LastWritePcs, Working
<1>2. r \in Record /\ Orderly(r) /\ r.claim = KindOf(w)
  BY <1>1, WorkingFacts, Owning
<1>3. worker[w].pc \in {"releaseProvision", "deferProvision", "deferDemand", "markFailed"}
        => r.claim = "provision"
  BY <1>2 DEF KindOf, ProvisionPcs
<1>4. worker[w].pc \in {"releaseDelete", "deferDelete", "failDelete", "deferReassigned"}
        => r.claim = "delete"
  BY <1>2 DEF KindOf, ProvisionPcs
<1> HIDE DEF r
<1>5. "provision" \in WorkKinds /\ "delete" \in WorkKinds
  BY DEF WorkKinds
<1>6. LastWrite(w) = CASE At(w, "releaseProvision") -> ReleaseClaim(r, "provision")
       [] At(w, "deferProvision") -> DeferRateLimitedWork(r, "provision")
       [] At(w, "deferDemand") -> DeferProvisioningDemand(r)
       [] At(w, "markFailed") -> MarkProvisionFailed(r)
       [] At(w, "releaseDelete") -> ReleaseClaim(r, "delete")
       [] At(w, "deferDelete") -> DeferRateLimitedWork(r, "delete")
       [] At(w, "failDelete") -> MarkDeleteFailed(r)
       [] At(w, "deferReassigned") -> DeferReassignmentDemand(r)
       [] At(w, "markOrphanProvision") -> MarkOrphaned(r)
       [] At(w, "markOrphanDelete") -> MarkOrphaned(r)
  BY DEF LastWrite, r
<1>7. CASE worker[w].pc \in {"releaseProvision", "deferProvision", "deferDemand",
                             "markFailed"}
  <2>1. /\ Rests(r, ReleaseClaim(r, "provision")) /\ Released(ReleaseClaim(r, "provision"))
        /\ Rests(r, DeferRateLimitedWork(r, "provision"))
        /\ Released(DeferRateLimitedWork(r, "provision"))
        /\ Rests(r, DeferProvisioningDemand(r)) /\ Released(DeferProvisioningDemand(r))
        /\ Rests(r, MarkProvisionFailed(r)) /\ Released(MarkProvisionFailed(r))
    BY <1>2, <1>3, <1>5, <1>7, WorkRests, WorkReleases
  <2>2. LastWrite(w) \in {ReleaseClaim(r, "provision"), DeferRateLimitedWork(r, "provision"),
                          DeferProvisioningDemand(r), MarkProvisionFailed(r)}
    BY <1>6, <1>7 DEF At
  <2>3. Rests(r, LastWrite(w)) /\ Released(LastWrite(w))
    BY <2>1, <2>2
  <2> QED
    BY <2>3 DEF r
<1>8. CASE worker[w].pc \in {"releaseDelete", "deferDelete", "failDelete",
                             "deferReassigned"}
  <2>1. /\ Rests(r, ReleaseClaim(r, "delete")) /\ Released(ReleaseClaim(r, "delete"))
        /\ Rests(r, DeferRateLimitedWork(r, "delete"))
        /\ Released(DeferRateLimitedWork(r, "delete"))
        /\ Rests(r, DeferReassignmentDemand(r)) /\ Released(DeferReassignmentDemand(r))
        /\ Rests(r, MarkDeleteFailed(r)) /\ Released(MarkDeleteFailed(r))
    BY <1>2, <1>4, <1>5, <1>8, WorkRests, DeletionRests, WorkReleases
  <2>2. LastWrite(w) \in {ReleaseClaim(r, "delete"), DeferRateLimitedWork(r, "delete"),
                          DeferReassignmentDemand(r), MarkDeleteFailed(r)}
    BY <1>6, <1>8 DEF At
  <2>3. Rests(r, LastWrite(w)) /\ Released(LastWrite(w))
    BY <2>1, <2>2
  <2> QED
    BY <2>3 DEF r
<1>9. CASE worker[w].pc \in {"markOrphanProvision", "markOrphanDelete"}
  <2>1. Rests(r, MarkOrphaned(r)) /\ Released(MarkOrphaned(r))
    BY <1>2, DeletionRests, WorkReleases
  <2>2. LastWrite(w) = MarkOrphaned(r)
    BY <1>6, <1>9 DEF At
  <2>3. Rests(r, LastWrite(w)) /\ Released(LastWrite(w))
    BY <2>1, <2>2
  <2> QED
    BY <2>3 DEF r
<1> QED
  BY <1>7, <1>8, <1>9 DEF LastWritePcs

LEMMA WorkerWritesRest ==
  ASSUME IInv, OInv, NEW w \in Workers,
         \/ Scan(w) \/ Clear(w) \/ EndWork(w) \/ Retire(w) \/ PersistJIT(w) \/ PersistVM(w)
         \/ AcceptDeletion(w) \/ AwaitAbsence(w) \/ FinishFailed(w)
  PROVE  AllRest
<1> DEFINE j == worker[w].job
           r == records[j]
<1>1. CASE Scan(w)
  <2>1. \A k \in Jobs : /\ Rests(records[k], records[k])
                        /\ Rests(records[k], Backstop(records[k]))
    BY Ids, RestsItself, WorkRests DEF OInv, RecordsOrderly
  <2>2. \A k \in Jobs : records'[k] = records[k] \/ records'[k] = Backstop(records[k])
    BY <1>1 DEF Scan, ScanWithoutClaim, ScanStops
  <2> QED
    BY <2>1, <2>2 DEF AllRest
<1>2. PutFails => AllRest
  BY SameRests DEF PutFails
<1>3. ASSUME Working(w)
      PROVE  j \in Jobs /\ r \in Record /\ Orderly(r) /\ r.claim = KindOf(w)
  BY <1>3, WorkingFacts, Owning
<1>4. CASE Clear(w)
  <2>1. Working(w)
    BY <1>4 DEF Clear, ClearPcs, Working
  <2> QED
    BY <1>2, <1>3, <1>4, <2>1, DeletionRests, PutRests DEF Clear
<1>5. CASE EndWork(w)
  <2>1. Working(w) /\ worker[w].pc \in LastWritePcs
    BY <1>5 DEF EndWork, LastWritePcs, Working
  <2> QED
    BY <1>2, <1>3, <1>5, <2>1, EndWorkRests, PutRests DEF EndWork
<1>6. CASE Retire(w)
  <2>1. Working(w) /\ KindOf(w) = "provision"
    BY <1>6 DEF Retire, At, Working, KindOf, ProvisionPcs
  <2>2. r.instance = NoInstance
    BY <2>1, WorkingFacts DEF Sound
  <2>3. Put(j, MarkDeleted(r)) \/ PutFails
    BY <1>6, <2>2 DEF Retire
  <2> QED
    BY <1>2, <1>3, <2>1, <2>3, DeletionRests, PutRests
<1>7. CASE PersistJIT(w)
  <2>1. Working(w) /\ KindOf(w) = "provision"
    BY <1>7 DEF PersistJIT, At, Working, KindOf, ProvisionPcs
  <2>2. CASE PutJIT(j, worker[w].jit)
    <3>1. PICK s : s = MarkJITCreated(r, j, worker[w].jit, markers[worker[w].jit])
      OBVIOUS
    <3>2. records' = [records EXCEPT ![j] = s]
      BY <2>2, <3>1 DEF PutJIT
    <3>3. Rests(r, s)
      BY <1>3, <2>1, <3>1, ProvisioningRests
    <3>4. \A k \in Jobs : records'[k] = IF k = j THEN s ELSE records[k]
      BY <3>2 DEF IInv, TypeOK, StoreTypeOK
    <3> QED
      BY <3>3, <3>4, RestsItself DEF AllRest
  <2> QED
    BY <1>2, <1>7, <2>2 DEF PersistJIT
<1>8. CASE PersistVM(w)
  <2>1. Working(w) /\ KindOf(w) = "provision"
    BY <1>8 DEF PersistVM, At, Working, KindOf, ProvisionPcs
  <2>2. CASE PutInstance(j, worker[w].inst, worker[w].rec.runner)
    <3>1. PICK s : s = MarkProvisioned(r, worker[w].inst, worker[w].rec.runner)
      OBVIOUS
    <3>2. records' = [records EXCEPT ![j] = s]
      BY <2>2, <3>1 DEF PutInstance, Put
    <3>3. worker[w].inst # NoInstance
      BY <1>8, <2>1, Owning, InstanceFact DEF WorkerHolds, FoundPcs, PersistVM, At
    <3>4. Rests(r, s)
      BY <1>3, <2>1, <3>1, <3>3, ProvisioningRests
    <3>5. \A k \in Jobs : records'[k] = IF k = j THEN s ELSE records[k]
      BY <3>2 DEF IInv, TypeOK, StoreTypeOK
    <3> QED
      BY <3>4, <3>5, RestsItself DEF AllRest
  <2> QED
    BY <1>2, <1>8, <2>2 DEF PersistVM
<1>9. CASE AcceptDeletion(w)
  <2>1. Working(w)
    BY <1>9 DEF AcceptDeletion, At, Working
  <2>2. CASE Put(j, MarkDeletionAccepted(r, worker[w].rec.instance))
    BY <1>3, <2>1, <2>2, DeletionRests, PutRests
  <2>3. CASE UNCHANGED storeVars
    BY <2>3, SameRests DEF storeVars
  <2> QED
    BY <1>2, <1>9, <2>2, <2>3 DEF AcceptDeletion
<1>10. CASE AwaitAbsence(w)
  <2>1. Working(w)
    BY <1>10 DEF AwaitAbsence, At, Working
  <2> QED
    BY <1>2, <1>3, <1>10, <2>1, DeletionRests, PutRests DEF AwaitAbsence
<1>11. CASE FinishFailed(w)
  <2>1. Working(w)
    BY <1>11 DEF FinishFailed, At, Working
  <2> QED
    BY <1>2, <1>3, <1>11, <2>1, WorkRests, PutRests DEF FinishFailed
<1> QED
  BY <1>1, <1>4, <1>5, <1>6, <1>7, <1>8, <1>9, <1>10, <1>11

\* Webhooks, time and restarts.
LEMMA StoreEventsRest ==
  ASSUME IInv, OInv, NEW j \in Jobs,
         QueuedWebhook(j) \/ CompletedWebhook(j) \/ RetryTimePasses(j) \/ RetentionPasses(j)
  PROVE  AllRest
<1>1. \A k \in Jobs : records[k] \in Record /\ Orderly(records[k])
  BY Ids DEF OInv, RecordsOrderly
<1>2. CASE QueuedWebhook(j)
  BY <1>1, <1>2, EventsRest, PutRests DEF QueuedWebhook, CreateRecord
<1>3. CASE CompletedWebhook(j)
  <2>1. RecordCompletion(j, ranOn[j])
    BY <1>3 DEF CompletedWebhook
  <2>2. ASSUME NEW k \in Jobs PROVE Rests(records[k], records'[k])
    <3>1. PICK own \in BOOLEAN : own = (k = j)
      OBVIOUS
    <3>2. records'[k] \in {records[k], MatchedCompletion(records[k], own),
                           EventCompletion(records[k], ranOn[j])}
      BY <2>1, <3>1 DEF RecordCompletion
    <3> QED
      BY <1>1, <3>2, EventsRest, RestsItself
  <2> QED
    BY <2>2 DEF AllRest
<1>4. CASE RetryTimePasses(j)
  BY <1>1, <1>4, EventsRest, PutRests DEF RetryTimePasses, BecomeDue
<1>5. CASE RetentionPasses(j)
  BY <1>1, <1>5, EventsRest, PutRests DEF RetentionPasses, PruneDeleted
<1> QED
  BY <1>2, <1>3, <1>4, <1>5

LEMMA RestartRests ==
  ASSUME IInv, OInv, Restart
  PROVE  AllRest /\ \A j \in Jobs : records'[j].claim = NoClaim
<1>1. \A j \in Jobs : records[j] \in Record /\ Orderly(records[j])
  BY Ids DEF OInv, RecordsOrderly
<1>2. \A j \in Jobs : records'[j] = RecoverRecord(records[j])
  BY DEF Restart, Reopen, RecoveredRecords
<1> QED
  BY <1>1, <1>2, EventsRest DEF AllRest

LEMMA ReaperRests ==
  ASSUME IInv, OInv, ReaperStep
  PROVE  AllRest
<1> DEFINE r == records[reaper.job]
<1>1. CASE \/ ListExpired \/ (\E j \in Jobs : ExpireRunner(j)) \/ ReapDeregister \/ ReapVMs
           \/ \E id \in Runners : ReapMarker(id)
  BY <1>1, SameRests DEF ListExpired, ExpireRunner, ReapDeregister, ReapVMs, ReapMarker,
     storeVars
<1>2. PutFails => AllRest
  BY SameRests DEF PutFails
<1>3. CASE BeginCleanup
  <2>1. Rests(r, BeginCleanupAttempt(r)) /\ reaper.job \in Jobs
    BY <1>3, Handled, CleanupRests DEF BeginCleanup
  <2> QED
    BY <1>2, <1>3, <2>1, PutRests DEF BeginCleanup
<1>4. CASE ReapClear
  <2>1. Rests(r, ClearJIT(r)) /\ reaper.job \in Jobs
    BY <1>4, Handled, DeletionRests DEF ReapClear
  <2> QED
    BY <1>2, <1>4, <2>1, PutRests DEF ReapClear
<1>5. CASE EndReap
  <2>1. reaper.pc \in ReapWritePcs /\ reaper.pc # "idle"
    BY <1>5 DEF EndReap, ReapWritePcs
  <2>2. r \in Record /\ Orderly(r) /\ reaper.job \in Jobs
    BY <2>1, Handled
  <2>3. /\ Rests(r, ScheduleDeletion(r)) /\ Rests(r, MarkOrphaned(r))
        /\ Rests(r, MarkDeleted(r)) /\ Rests(r, MarkDeleteFailed(r))
        /\ Rests(r, DeferReconciliation(r, TRUE, FALSE))
        /\ Rests(r, DeferReconciliation(r, FALSE, TRUE))
        /\ Rests(r, DeferReconciliation(r, FALSE, FALSE))
        /\ Rests(r, DeferRateLimitedCleanup(r, TRUE))
        /\ Rests(r, DeferRateLimitedCleanup(r, FALSE))
    BY <2>2, WorkRests, DeletionRests, CleanupRests
  <2>4. Rests(r, ReapWrite)
    BY <2>1, <2>3 DEF ReapWrite, ReapWritePcs
  <2> QED
    BY <1>2, <1>5, <2>2, <2>4, PutRests DEF EndReap
<1> QED
  BY <1>1, <1>3, <1>4, <1>5 DEF ReaperStep

LEMMA WorkerRests ==
  ASSUME IInv, OInv, NEW w \in Workers, WorkerStep(w), ~Claim(w), ~FinishDeletion(w)
  PROVE  AllRest
<1>1. \/ Scan(w) \/ Clear(w) \/ EndWork(w) \/ Retire(w) \/ PersistJIT(w) \/ PersistVM(w)
      \/ AcceptDeletion(w) \/ AwaitAbsence(w) \/ FinishFailed(w)
      \/ Deregister(w) \/ Find(w) \/ DropVM(w) \/ CheckDemand(w) \/ AskDemand(w)
      \/ Generate(w) \/ DropJIT(w) \/ Create(w) \/ IndexVM(w) \/ CleanupExhausted(w)
      \/ DeleteInstance(w) \/ ConfirmAbsence(w) \/ CleanupRest(w) \/ Recheck(w)
      \/ AskOriginal(w)
  BY DEF WorkerStep, ProvisionStep, DeleteStep
<1> QED
  BY <1>1, WorkerWritesRest, RemoteRests

LEMMA OutsideRests ==
  ASSUME IInv, OInv, Outside
  PROVE  AllRest
<1>1. ASSUME NEW j \in Jobs, RunnerTakesJob(j) \/ ForeignRunnerTakesJob(j) \/ JobEnds(j)
      PROVE  AllRest
  BY <1>1, SameRests DEF RunnerTakesJob, ForeignRunnerTakesJob, JobEnds, storeVars
<1>2. ASSUME NEW i \in Instances, InstanceMoves(i) PROVE AllRest
  BY <1>2, SameRests DEF InstanceMoves, storeVars
<1> QED
  BY <1>1, <1>2, StoreEventsRest DEF Outside

LEMMA NextRests ==
  ASSUME IInv, OInv, [Next]_vars
  PROVE  \/ AllRest
         \/ \E w \in Workers : Claim(w)
         \/ \E w \in Workers : FinishDeletion(w)
<1>1. CASE UNCHANGED vars
  BY <1>1, SameRests DEF vars, storeVars
<1>2. CASE ReaperMoves
  BY <1>2, ReaperRests, StoreEventsRest DEF ReaperMoves
<1>3. CASE WorkersMove
  BY <1>3, WorkerRests DEF WorkersMove
<1> QED
  BY <1>1, <1>2, <1>3, OutsideRests, RestartRests DEF Next

-----------------------------------------------------------------------------
(* Demand that is restored.                                                  *)

\* ClaimNext gives out work and retires what has spent its budget; it takes no
\* record out of a deletion.
LEMMA ClaimChanges ==
  ASSUME IInv, OInv, NEW w \in Workers, Claim(w)
  PROVE  /\ \A j \in Jobs : records[j].status = "deleting" => records'[j].status # "pending"
         /\ \E k \in Jobs : /\ worker'[w].job = k
                            /\ \A j \in Jobs : j # k => Rests(records[j], records'[j])
<1>1. PICK k \in Jobs :
        /\ ClaimFirst(k)
        /\ worker' = [worker EXCEPT ![w] =
             [Idle EXCEPT !.pc = FirstStep(Claimed(records[k])),
                          !.job = k, !.rec = Claimed(records[k])]]
  BY DEF Claim
<1>2. \A j \in Jobs : j # k => Rests(records[j], records'[j])
  <2>1. \A j \in Jobs : /\ Rests(records[j], records[j])
                        /\ Rests(records[j], Backstop(records[j]))
    BY Ids, RestsItself, WorkRests DEF OInv, RecordsOrderly
  <2> QED
    BY <1>1, <2>1 DEF ClaimFirst
<1>3. records[k].status # "deleting"
  BY <1>1 DEF ClaimFirst, Claimable, WantsProvision, WantsDelete
<1>4. worker'[w].job = k
  BY <1>1 DEF Idle, IInv, TypeOK, WorkerTypeOK
<1> QED
  BY <1>2, <1>3, <1>4 DEF Rests

\* The worker that ends a deletion has seen nothing left that carries the job
\* tag, and has removed the registration of the record.
LEMMA FinishesCleanly ==
  ASSUME IInv, OInv, CInv, NEW w \in Workers, FinishDeletion(w), NEW j \in Jobs,
         records[j].status = "deleting", records'[j].status = "pending"
  PROVE  /\ AliveFor(j) = {}
         /\ \A i \in Instances : vm[i].job = j => vm[i].runner \notin registered
         /\ ~records[j].jobCompleted
<1>1. /\ worker[w].pc = "finish" /\ Working(w) /\ worker[w].pc \in RemovedPcs
      /\ worker[w].pc \in FreePcs /\ worker[w].job \in Jobs
  BY WorkingFacts DEF FinishDeletion, At, Working, RemovedPcs, FreePcs
<1>2. /\ Put(worker[w].job, FinishDeletedRunner(records[worker[w].job], worker[w].queued))
      /\ j = worker[w].job
  BY <1>1 DEF FinishDeletion, Put, PutFails, IInv, TypeOK, StoreTypeOK
<1>3. records'[j] = FinishDeletedRunner(records[j], worker[w].queued)
  BY <1>2 DEF Put, IInv, TypeOK, StoreTypeOK
<1>4. ~records[j].jobCompleted
  <2>1. records[j] \in Record
    BY Ids
  <2>2. ASSUME NEW s, s = FinishDeletedRunner(records[j], worker[w].queued),
               records[j].jobCompleted
        PROVE  s.status # "pending"
    BY <2>1, <2>2 DEF FinishDeletedRunner, RestoresDemand, MarkDeleted, Record, Settled
  <2> QED
    BY <1>3, <2>2
<1>5. AliveFor(j) = {}
  BY <1>1, <1>2 DEF CInv, WorkersFree, WorkerFree, AliveFor
<1>6. ASSUME NEW i \in Instances, vm[i].job = j, vm[i].runner \in registered PROVE FALSE
  <2>1. records[j].runner = vm[i].runner
    BY <1>6, InstanceOwner
  <2>2. records[j].runner \notin registered
    BY <1>1, <1>2, Owning
  <2> QED
    BY <1>6, <2>1, <2>2
<1> QED
  BY <1>4, <1>5, <1>6

\* Demand goes back from a deletion to the queue (FinishDeletedRunner) only
\* when nothing of the first attempt is left: no instance of the job runs, no
\* registration of one is known to GitHub, and the job is not known to be over;
\* as long as tag listings do not lag and no record reaches MAX_RUNNER_AGE.
THEOREM DemandIsRestoredCleanly == ~Aging /\ ~ListingLag => (Spec => RestoredCleanly)
<1> SUFFICES ASSUME ~Aging, ~ListingLag PROVE Spec => RestoredCleanly
  OBVIOUS
<1> DEFINE Clean ==
      \A j \in Jobs : records[j].status = "deleting" /\ records'[j].status = "pending" =>
         /\ AliveFor(j) = {}
         /\ \A i \in Instances : vm[i].job = j => vm[i].runner \notin registered
         /\ ~records[j].jobCompleted
<1>1. IInv /\ OInv /\ CInv /\ [Next]_vars => Clean
  <2> SUFFICES ASSUME IInv, OInv, CInv, [Next]_vars PROVE Clean
    OBVIOUS
  <2>1. CASE AllRest
    BY <2>1 DEF AllRest, Rests
  <2>2. ASSUME NEW w \in Workers, Claim(w) PROVE Clean
    BY <2>2, ClaimChanges
  <2>3. ASSUME NEW w \in Workers, FinishDeletion(w) PROVE Clean
    BY <2>3, FinishesCleanly
  <2> QED
    BY <2>1, <2>2, <2>3, NextRests
<1>2. IInv /\ OInv /\ CInv /\ [Next]_vars => [Clean]_vars
  BY <1>1
<1>3. Spec => [][Clean]_vars
  BY <1>2, OwnershipInvariance, CleanInvariance, Invariance, PTL DEF Spec
<1> QED
  BY <1>3, PTL DEF RestoredCleanly

-----------------------------------------------------------------------------
(* No claim is left without a worker.                                        *)

\* Where a worker is waiting for a confirmation or has no claim.
StoppedPcs == {"idle", "indexVM", "accept", "confirm", "await"}

NoConfirming == \A w \in Workers : Working(w) => worker[w].pc \notin StoppedPcs

Attended(j) == \E w \in Workers : Working(w) /\ worker[w].job = j

ClaimsAttended ==
  \A j \in Jobs : records[j].claim # NoClaim /\ ~Settled(records[j]) => Attended(j)

\* As long as no journal write has failed, every claim that matters has a
\* worker that works on the record.
ClaimInv == NoConfirming /\ (faults = 0 => ClaimsAttended)

LEMMA FaultsGrow ==
  ASSUME IInv, [Next]_vars
  PROVE  faults' \in {faults, faults + 1}
<1>1. CASE UNCHANGED vars
  BY <1>1 DEF vars, storeVars
<1>2. CASE Outside
  BY <1>2 DEF Outside, QueuedWebhook, CreateRecord, CompletedWebhook, RecordCompletion, Put,
     RunnerTakesJob, ForeignRunnerTakesJob, JobEnds, InstanceMoves, RetryTimePasses,
     BecomeDue, storeVars
<1>3. CASE WorkersMove
  <2> SUFFICES ASSUME NEW w \in Workers, WorkerStep(w) PROVE faults' \in {faults, faults + 1}
    BY <1>3 DEF WorkersMove
  <2>1. CASE Claim(w) \/ Scan(w) \/ Deregister(w) \/ Clear(w) \/ EndWork(w)
    BY <2>1 DEF Claim, ClaimFirst, Scan, ScanWithoutClaim, ScanStops, Deregister, Clear,
       EndWork, Put, PutFails, CallsGitHub, storeVars
  <2>2. CASE ProvisionStep(w)
    BY <2>2 DEF ProvisionStep, Find, DropVM, CheckDemand, AskDemand, Retire, Generate,
       PersistJIT, DropJIT, Create, PersistVM, IndexVM, CleanupExhausted, Put, PutFails,
       PutJIT, PutInstance, IndexInstance, Local, CallsGitHub, CallsProvider, storeVars
  <2>3. CASE DeleteStep(w)
    BY <2>3 DEF DeleteStep, DeleteInstance, AcceptDeletion, ConfirmAbsence, AwaitAbsence,
       CleanupRest, Recheck, AskOriginal, FinishDeletion, FinishFailed, Put, PutFails,
       Local, CallsProvider, storeVars
  <2> QED
    BY <2>1, <2>2, <2>3 DEF WorkerStep
<1>4. CASE ReaperMoves
  BY <1>4 DEF ReaperMoves, ReaperStep, RetentionPasses, PruneDeleted, ListExpired,
     ExpireRunner, BeginCleanup, ReapDeregister, ReapVMs, ReapClear, EndReap, ReapMarker,
     Put, PutFails, storeVars
<1>5. CASE Restart
  BY <1>5 DEF Restart, Reopen
<1> QED
  BY <1>1, <1>2, <1>3, <1>4, <1>5 DEF Next

LEMMA ErrorsGoOn ==
  ASSUME NEW w \in Workers
  PROVE  /\ OrphanProvision(w) \notin StoppedPcs /\ OrphanDelete(w) \notin StoppedPcs
         /\ \A e : ProvisionFailed(w, e) \notin StoppedPcs
         /\ \A e : \A pc \in DeferDemandCheck(w, e) : pc \notin StoppedPcs
         /\ \A e : DeleteFailed(w, e) \notin StoppedPcs
<1> USE DEF StoppedPcs
<1>1. OrphanProvision(w) \notin StoppedPcs /\ OrphanDelete(w) \notin StoppedPcs
  BY DEF OrphanProvision, OrphanDelete
<1>2. ASSUME NEW e
      PROVE  /\ ProvisionFailed(w, e) \notin StoppedPcs
             /\ DeleteFailed(w, e) \notin StoppedPcs
  <2>1. e = "cancelled" \/ e = "limited" \/ e = "unknown" \/ e = "mismatch"
        \/ e \notin {"cancelled", "limited", "unknown", "mismatch"}
    OBVIOUS
  <2> QED
    BY <1>1, <2>1 DEF ProvisionFailed, DeleteFailed
<1>3. ASSUME NEW e, NEW pc \in DeferDemandCheck(w, e) PROVE pc \notin StoppedPcs
  BY <1>2, <1>3 DEF DeferDemandCheck
<1> QED
  BY <1>1, <1>2, <1>3

\* The worker goes on with its record.
Continues(w) ==
  /\ worker'[w].job = worker[w].job /\ worker'[w].pc \notin StoppedPcs
  /\ \A v \in Workers : v # w => worker'[v] = worker[v]

LEMMA GotoContinues ==
  ASSUME IInv, NEW w \in Workers, NEW pc, Goto(w, pc), pc \notin StoppedPcs
  PROVE  Continues(w)
  BY GotoMoves DEF Continues

\* Calls that are not calls of the store.
LEMMA RemoteContinues ==
  ASSUME ~ConfirmsAbsence, IInv, ClaimInv, NEW w \in Workers,
         \/ Deregister(w) \/ Find(w) \/ DropVM(w) \/ CheckDemand(w) \/ AskDemand(w)
         \/ Generate(w) \/ DropJIT(w) \/ Create(w) \/ CleanupExhausted(w)
         \/ DeleteInstance(w) \/ ConfirmAbsence(w) \/ CleanupRest(w) \/ Recheck(w)
         \/ AskOriginal(w)
  PROVE  Continues(w)
<1>1. \A pc : Goto(w, pc) /\ pc \notin StoppedPcs => Continues(w)
  BY GotoContinues
<1>2. \A t : worker' = [worker EXCEPT ![w] = t] /\ t.job = worker[w].job
             /\ t.pc \notin StoppedPcs => Continues(w)
  BY DEF IInv, TypeOK, WorkerTypeOK, Continues
<1>3. CASE Deregister(w)
  <2>1. AfterRemoval(w) \notin StoppedPcs
    BY <1>3 DEF Deregister, DeregisterPcs, AfterRemoval, StoppedPcs, At
  <2>2. ASSUME NEW e, NEW pc \in AfterRefusal(w, e) PROVE pc \notin StoppedPcs
    <3>1. {"markFailed", "markOrphanProvision", "markOrphanDelete"} \cap StoppedPcs = {}
      BY DEF StoppedPcs
    <3>2. \/ pc \in DeferDemandCheck(w, e) \/ pc = ProvisionFailed(w, e)
          \/ pc = DeleteFailed(w, e)
          \/ pc \in {"markFailed", "markOrphanProvision", "markOrphanDelete"}
      BY <1>3, <2>2 DEF Deregister, DeregisterPcs, AfterRefusal, At
    <3> QED
      BY <3>1, <3>2, ErrorsGoOn
  <2> QED
    BY <1>1, <1>3, <2>1, <2>2 DEF Deregister
<1>4. CASE Find(w)
  <2>1. PICK pc : pc = IF worker[w].rec.runner = NoRunner THEN "dropVM" ELSE "persistVM"
    OBVIOUS
  <2>2. pc \notin StoppedPcs /\ "demand" \notin StoppedPcs
    BY <2>1 DEF StoppedPcs
  <2>3. \/ \E i : worker' = [worker EXCEPT ![w].inst = i, ![w].pc = pc]
        \/ Goto(w, "demand") \/ \E e : Goto(w, ProvisionFailed(w, e))
    BY <1>4, <2>1 DEF Find
  <2>4. ASSUME NEW i, worker' = [worker EXCEPT ![w].inst = i, ![w].pc = pc]
        PROVE  Continues(w)
    BY <2>2, <2>4 DEF Continues, IInv, TypeOK, WorkerTypeOK, Task
  <2> QED
    BY <1>1, <2>2, <2>3, <2>4, ErrorsGoOn
<1>5. CASE \/ DropVM(w) \/ CheckDemand(w) \/ AskDemand(w) \/ DropJIT(w) \/ CleanupExhausted(w)
  <2>1. \E pc : Goto(w, pc) /\ pc \notin StoppedPcs
    BY <1>5, ErrorsGoOn DEF DropVM, CheckDemand, AskDemand, DropJIT, CleanupExhausted,
       StoppedPcs, GiveUpDemand
  <2> QED
    BY <1>1, <2>1
<1>6. CASE Generate(w)
  <2>1. \/ \E pc : Goto(w, pc) /\ pc \notin StoppedPcs
        \/ worker' = [worker EXCEPT ![w].pc = "persistJIT", ![w].jit = issued + 1]
    BY <1>6, ErrorsGoOn DEF Generate
  <2>2. ASSUME worker' = [worker EXCEPT ![w].pc = "persistJIT", ![w].jit = issued + 1]
        PROVE  Continues(w)
    BY <2>2 DEF Continues, IInv, TypeOK, WorkerTypeOK, Task, StoppedPcs
  <2> QED
    BY <1>1, <2>1, <2>2
<1>7. CASE Create(w)
  <2>1. \/ \E pc : Goto(w, pc) /\ pc \notin StoppedPcs
        \/ \E i : worker' = [worker EXCEPT ![w].pc = "persistVM", ![w].inst = i]
    BY <1>7, ErrorsGoOn DEF Create
  <2>2. ASSUME NEW i, worker' = [worker EXCEPT ![w].pc = "persistVM", ![w].inst = i]
        PROVE  Continues(w)
    BY <2>2 DEF Continues, IInv, TypeOK, WorkerTypeOK, Task, StoppedPcs
  <2> QED
    BY <1>1, <2>1, <2>2
<1>8. CASE DeleteInstance(w) \/ CleanupRest(w) \/ Recheck(w)
  <2>1. \E pc : Goto(w, pc) /\ pc \notin StoppedPcs
    BY <1>8, ErrorsGoOn DEF DeleteInstance, CleanupRest, Recheck, StoppedPcs
  <2> QED
    BY <1>1, <2>1
<1>9. CASE ConfirmAbsence(w)
  BY <1>9 DEF ConfirmAbsence, At, ClaimInv, NoConfirming, Working, StoppedPcs
<1>10. CASE AskOriginal(w)
  <2>1. \/ \E pc : Goto(w, pc) /\ pc \notin StoppedPcs
        \/ \E q : worker' = [worker EXCEPT ![w].pc = "finish", ![w].queued = q]
    BY <1>10 DEF AskOriginal, StoppedPcs
  <2>2. ASSUME NEW q, worker' = [worker EXCEPT ![w].pc = "finish", ![w].queued = q]
        PROVE  Continues(w)
    BY <2>2 DEF Continues, IInv, TypeOK, WorkerTypeOK, Task, StoppedPcs
  <2> QED
    BY <1>1, <2>1, <2>2
<1> QED
  BY <1>3, <1>4, <1>5, <1>6, <1>7, <1>8, <1>9, <1>10

\* The worker is done with its record and has given its claim back.
GivesBack(w) ==
  /\ Released(records'[worker[w].job])
  /\ \A v \in Workers : v # w => worker'[v] = worker[v]

LEMMA FinishGivesBack ==
  ASSUME IInv, NEW w \in Workers, Working(w), Finish(w),
         NEW s, Put(worker[w].job, s), Released(s)
  PROVE  GivesBack(w)
<1>1. worker[w].job \in Jobs
  BY WorkingFacts
<1>2. records'[worker[w].job] = s
  BY <1>1 DEF Put, IInv, TypeOK, StoreTypeOK
<1>3. \A v \in Workers : v # w => worker'[v] = worker[v]
  BY DEF Finish, IInv, TypeOK, WorkerTypeOK
<1> QED
  BY <1>2, <1>3 DEF GivesBack

\* A worker whose store calls succeed goes on with its record or gives the
\* claim back.
LEMMA WriterContinues ==
  ASSUME ~ConfirmsAbsence, IInv, OInv, ClaimInv, ~PutFails, NEW w \in Workers,
         \/ Clear(w) \/ EndWork(w) \/ Retire(w) \/ PersistJIT(w) \/ PersistVM(w)
         \/ AcceptDeletion(w) \/ AwaitAbsence(w) \/ FinishDeletion(w) \/ FinishFailed(w)
  PROVE  Continues(w) \/ GivesBack(w)
<1> DEFINE j == worker[w].job
           r == records[j]
<1>1. ASSUME Working(w)
      PROVE  j \in Jobs /\ r \in Record /\ Orderly(r) /\ r.claim = KindOf(w)
  BY <1>1, WorkingFacts, Owning
<1>2. CASE Clear(w)
  <2>1. AfterClear(w) \notin StoppedPcs
    BY <1>2 DEF Clear, ClearPcs, AfterClear, StoppedPcs, At
  <2> QED
    BY <1>2, <2>1, GotoContinues DEF Clear
<1>3. CASE EndWork(w)
  <2>1. Working(w) /\ worker[w].pc \in LastWritePcs
    BY <1>3 DEF EndWork, LastWritePcs, Working
  <2> QED
    BY <1>3, <2>1, EndWorkRests, FinishGivesBack DEF EndWork
<1>4. CASE Retire(w)
  <2>1. Working(w) /\ KindOf(w) = "provision"
    BY <1>4 DEF Retire, At, Working, KindOf, ProvisionPcs
  <2>2. r.instance = NoInstance
    BY <2>1, WorkingFacts DEF Sound
  <2>3. Put(j, MarkDeleted(r)) /\ Finish(w)
    BY <1>4, <2>2 DEF Retire
  <2> QED
    BY <1>1, <2>1, <2>3, WorkReleases, FinishGivesBack
<1>5. CASE PersistJIT(w)
  <2>1. worker' = [worker EXCEPT ![w].pc = "demand", ![w].rec.runner = worker[w].jit]
    BY <1>5 DEF PersistJIT
  <2>2. /\ worker'[w].pc = "demand" /\ worker'[w].job = worker[w].job
        /\ \A v \in Workers : v # w => worker'[v] = worker[v]
    BY <2>1 DEF IInv, TypeOK, WorkerTypeOK, Task
  <2> QED
    BY <2>2 DEF Continues, StoppedPcs
<1>6. CASE PersistVM(w)
  <2>1. Working(w)
    BY <1>6 DEF PersistVM, At, Working
  <2>2. /\ PutInstance(j, worker[w].inst, worker[w].rec.runner)
        /\ worker' = [worker EXCEPT ![w] = HalfDone(w)]
    BY <1>6 DEF PersistVM
  <2>3. records'[j] = MarkProvisioned(r, worker[w].inst, worker[w].rec.runner)
    BY <1>1, <2>1, <2>2 DEF PutInstance, Put, IInv, TypeOK, StoreTypeOK
  <2>4. Released(records'[j])
    BY <1>1, <2>1, <2>3, WorkReleases
  <2>5. \A v \in Workers : v # w => worker'[v] = worker[v]
    BY <2>2 DEF IInv, TypeOK, WorkerTypeOK
  <2> QED
    BY <2>4, <2>5 DEF GivesBack
<1>7. CASE AcceptDeletion(w) \/ AwaitAbsence(w)
  BY <1>7 DEF AcceptDeletion, AwaitAbsence, At, ClaimInv, NoConfirming, Working, StoppedPcs
<1>8. CASE FinishDeletion(w)
  <2>1. Working(w) /\ worker[w].queued \in BOOLEAN
    BY <1>8, TypeFacts DEF FinishDeletion, At, Working, Task
  <2>2. Put(j, FinishDeletedRunner(r, worker[w].queued)) /\ Finish(w)
    BY <1>8 DEF FinishDeletion
  <2> QED
    BY <1>1, <2>1, <2>2, WorkReleases, FinishGivesBack
<1>9. CASE FinishFailed(w)
  <2>1. Working(w) /\ KindOf(w) = "delete"
    BY <1>9 DEF FinishFailed, At, Working, KindOf, ProvisionPcs
  <2>2. Put(j, MarkDeleteFailed(r)) /\ Finish(w)
    BY <1>9 DEF FinishFailed
  <2> QED
    BY <1>1, <2>1, <2>2, WorkReleases, FinishGivesBack
<1> QED
  BY <1>2, <1>3, <1>4, <1>5, <1>6, <1>7, <1>8, <1>9

\* The worker has no claim any more.
Leaves(w) ==
  /\ worker'[w].pc \in {"idle", "indexVM"}
  /\ \A v \in Workers : v # w => worker'[v] = worker[v]

LEMMA LeavingLeaves ==
  ASSUME IInv, NEW w \in Workers,
         Finish(w) \/ worker' = [worker EXCEPT ![w] = HalfDone(w)]
  PROVE  Leaves(w)
<1>1. Idle.pc = "idle" /\ HalfDone(w).pc \in {"idle", "indexVM"}
  BY DEF HalfDone, Idle
<1> QED
  BY <1>1 DEF Leaves, Finish, IInv, TypeOK, WorkerTypeOK

\* Whether or not its store call succeeds.
LEMMA WriterMoves ==
  ASSUME ~ConfirmsAbsence, IInv, ClaimInv, NEW w \in Workers,
         \/ Clear(w) \/ EndWork(w) \/ Retire(w) \/ PersistJIT(w) \/ PersistVM(w)
         \/ AcceptDeletion(w) \/ AwaitAbsence(w) \/ FinishDeletion(w) \/ FinishFailed(w)
  PROVE  Continues(w) \/ Leaves(w)
<1>1. \A pc : Goto(w, pc) /\ pc \notin StoppedPcs => Continues(w)
  BY GotoContinues
<1>2. CASE AcceptDeletion(w) \/ AwaitAbsence(w)
  BY <1>2 DEF AcceptDeletion, AwaitAbsence, At, ClaimInv, NoConfirming, Working, StoppedPcs
<1>3. CASE Clear(w)
  <2>1. AfterClear(w) \notin StoppedPcs
    BY <1>3 DEF Clear, ClearPcs, AfterClear, StoppedPcs, At
  <2>2. ASSUME NEW pc \in AfterClearFails(w) PROVE pc \notin StoppedPcs
    <3>1. {"markFailed", "markOrphanProvision", "markOrphanDelete"} \cap StoppedPcs = {}
      BY DEF StoppedPcs
    <3>2. \/ pc \in DeferDemandCheck(w, "other") \/ pc = ProvisionFailed(w, "other")
          \/ pc \in {"markFailed", "markOrphanProvision", "markOrphanDelete"}
      BY <1>3, <2>2 DEF Clear, ClearPcs, AfterClearFails, At
    <3> QED
      BY <3>1, <3>2, ErrorsGoOn
  <2> QED
    BY <1>1, <1>3, <2>1, <2>2 DEF Clear
<1>4. CASE PersistJIT(w)
  <2>1. ASSUME worker' = [worker EXCEPT ![w].pc = "demand", ![w].rec.runner = worker[w].jit]
        PROVE  Continues(w)
    BY <2>1 DEF Continues, StoppedPcs, IInv, TypeOK, WorkerTypeOK, Task
  <2>2. "dropJIT" \notin StoppedPcs
    BY DEF StoppedPcs
  <2> QED
    BY <1>1, <1>4, <2>1, <2>2 DEF PersistJIT
<1>5. CASE EndWork(w) \/ Retire(w) \/ PersistVM(w) \/ FinishDeletion(w) \/ FinishFailed(w)
  <2>1. \/ Finish(w) \/ worker' = [worker EXCEPT ![w] = HalfDone(w)]
        \/ \E pc : Goto(w, pc) /\ pc \notin StoppedPcs
    BY <1>5, ErrorsGoOn DEF EndWork, Retire, PersistVM, FinishDeletion, FinishFailed,
       StoppedPcs
  <2> QED
    BY <1>1, <2>1, LeavingLeaves
<1> QED
  BY <1>2, <1>3, <1>4, <1>5

LEMMA NoConfirmingKept ==
  ASSUME ~ConfirmsAbsence, IInv, OInv, ClaimInv, [Next]_vars
  PROVE  NoConfirming'
<1>1. CASE UNCHANGED worker
  BY <1>1 DEF ClaimInv, NoConfirming, Working
<1>2. ASSUME NEW w \in Workers, Continues(w) \/ Leaves(w) PROVE NoConfirming'
  <2>1. CASE Continues(w)
    BY <2>1 DEF Continues, ClaimInv, NoConfirming, Working
  <2>2. CASE Leaves(w)
    BY <2>2 DEF Leaves, ClaimInv, NoConfirming, Working
  <2> QED
    BY <1>2, <2>1, <2>2
<1>3. ASSUME NEW w \in Workers, Claim(w) PROVE NoConfirming'
  <2>1. PICK j \in Jobs :
          worker' = [worker EXCEPT ![w] =
            [Idle EXCEPT !.pc = FirstStep(Claimed(records[j])),
                         !.job = j, !.rec = Claimed(records[j])]]
    BY <1>3 DEF Claim
  <2>2. PICK pc : pc = FirstStep(Claimed(records[j]))
    OBVIOUS
  <2>3. pc \notin StoppedPcs
    BY <2>2 DEF FirstStep, StoppedPcs
  <2>4. worker'[w].pc = pc /\ \A v \in Workers : v # w => worker'[v] = worker[v]
    BY <2>1, <2>2 DEF IInv, TypeOK, WorkerTypeOK, Idle
  <2> QED
    BY <2>3, <2>4 DEF ClaimInv, NoConfirming, Working
<1>4. CASE WorkersMove
  <2> SUFFICES ASSUME NEW w \in Workers, WorkerStep(w) PROVE NoConfirming'
    BY <1>4 DEF WorkersMove
  <2>1. CASE Scan(w)
    BY <1>1, <2>1 DEF Scan
  <2>2. CASE IndexVM(w)
    BY <1>2, <2>2, LeavingLeaves DEF IndexVM
  <2> QED
    BY <1>2, <1>3, <2>1, <2>2, RemoteContinues, WriterMoves
       DEF WorkerStep, ProvisionStep, DeleteStep
<1>5. CASE Restart
  BY <1>5 DEF Restart, NoConfirming, Working, Idle
<1>6. CASE Outside \/ ReaperMoves
  BY <1>1, <1>6 DEF Outside, QueuedWebhook, CompletedWebhook, RunnerTakesJob,
     ForeignRunnerTakesJob, JobEnds, InstanceMoves, RetryTimePasses, ReaperMoves,
     RetentionPasses
<1>7. CASE UNCHANGED vars
  BY <1>1, <1>7 DEF vars
<1> QED
  BY <1>4, <1>5, <1>6, <1>7 DEF Next

\* A claim that matters after a step in which nothing failed was there before
\* the step, or has just been given to a worker.
LEMMA AttendedKept ==
  ASSUME ~ConfirmsAbsence, IInv, OInv, ClaimInv, [Next]_vars, faults' = 0
  PROVE  ClaimsAttended'
<1> USE DEF Working
<1>1. faults = 0 /\ ~PutFails
  BY FaultsGrow DEF PutFails, IInv, TypeOK, StoreTypeOK
<1> SUFFICES ASSUME NEW j \in Jobs, records'[j].claim # NoClaim, ~Settled(records'[j])
             PROVE  \E v \in Workers : Working(v)' /\ worker'[v].job = j
  BY DEF ClaimsAttended, Attended, Working
<1>2. ASSUME Rests(records[j], records'[j])
      PROVE  \E v \in Workers : Working(v) /\ worker[v].job = j
  BY <1>1, <1>2 DEF Rests, ClaimInv, ClaimsAttended, Attended, Working
<1>3. CASE AllRest /\ UNCHANGED worker
  BY <1>2, <1>3 DEF AllRest
<1>4. ASSUME NEW w \in Workers, Claim(w)
      PROVE  \E v \in Workers : Working(v)' /\ worker'[v].job = j
  <2>1. PICK k \in Jobs : /\ worker'[w].job = k
                          /\ \A i \in Jobs : i # k => Rests(records[i], records'[i])
    BY <1>4, ClaimChanges
  <2>2. Working(w)' /\ worker[w].pc = "idle"
        /\ \A v \in Workers : v # w => worker'[v] = worker[v]
    BY <1>4 DEF Claim, FirstStep, Idle, At, IInv, TypeOK, WorkerTypeOK
  <2>3. CASE j = k
    BY <2>1, <2>2, <2>3
  <2>4. CASE j # k
    BY <1>2, <2>1, <2>2, <2>4
  <2> QED
    BY <2>3, <2>4
<1>5. ASSUME NEW w \in Workers, Continues(w), AllRest \/ FinishDeletion(w)
      PROVE  \E v \in Workers : Working(v)' /\ worker'[v].job = j
  <2>1. AllRest
    <3>1. CASE FinishDeletion(w)
      <4>1. worker'[w].pc = "idle"
        BY <1>1, <3>1 DEF FinishDeletion, Finish, Idle, IInv, TypeOK, WorkerTypeOK
      <4> QED
        BY <1>5, <4>1 DEF Continues, StoppedPcs
    <3> QED
      BY <1>5, <3>1
  <2>2. PICK v \in Workers : Working(v) /\ worker[v].job = j
    BY <1>2, <2>1 DEF AllRest
  <2>3. Working(v)' /\ worker'[v].job = j
    BY <1>5, <2>2 DEF Continues, StoppedPcs
  <2> QED
    BY <2>3
<1>6. ASSUME NEW w \in Workers, GivesBack(w), AllRest \/ FinishDeletion(w)
      PROVE  \E v \in Workers : Working(v)' /\ worker'[v].job = j
  <2>1. j # worker[w].job
    BY <1>6 DEF GivesBack, Released
  <2>2. Rests(records[j], records'[j])
    <3>1. CASE AllRest
      BY <3>1 DEF AllRest
    <3>2. CASE FinishDeletion(w)
      BY <1>1, <2>1, <3>2, RestsItself DEF FinishDeletion, Put, IInv, TypeOK, StoreTypeOK
    <3> QED
      BY <1>6, <3>1, <3>2
  <2>3. PICK v \in Workers : Working(v) /\ worker[v].job = j
    BY <1>2, <2>2
  <2> QED
    BY <1>6, <2>1, <2>3 DEF GivesBack
<1>7. CASE WorkersMove
  <2> SUFFICES ASSUME NEW w \in Workers, WorkerStep(w)
               PROVE  \E v \in Workers : Working(v)' /\ worker'[v].job = j
    BY <1>7 DEF WorkersMove
  <2>1. CASE Claim(w)
    BY <1>4, <2>1
  <2>2. ASSUME ~Claim(w) PROVE AllRest \/ FinishDeletion(w)
    BY <2>2, WorkerRests
  <2>3. CASE Scan(w)
    BY <1>3, <2>3, WorkerWritesRest DEF Scan
  <2>4. CASE IndexVM(w)
    <3>1. /\ Rests(records[j], records'[j])
          /\ worker[w].pc = "indexVM"
          /\ \A v \in Workers : v # w => worker'[v] = worker[v]
      BY <2>4, RestsItself DEF IndexVM, IndexInstance, At, Finish, IInv, TypeOK, WorkerTypeOK
    <3> QED
      BY <1>2, <3>1
  <2>5. CASE ~Claim(w) /\ ~Scan(w) /\ ~IndexVM(w)
    <3>1. Continues(w) \/ GivesBack(w)
      BY <1>1, <2>5, RemoteContinues, WriterContinues DEF WorkerStep, ProvisionStep, DeleteStep
    <3> QED
      BY <1>5, <1>6, <2>2, <2>5, <3>1
  <2> QED
    BY <2>1, <2>3, <2>4, <2>5
<1>8. CASE Restart
  BY <1>8, RestartRests
<1>9. CASE Outside
  BY <1>3, <1>9, OutsideRests DEF Outside, QueuedWebhook, CompletedWebhook, RunnerTakesJob,
     ForeignRunnerTakesJob, JobEnds, InstanceMoves, RetryTimePasses
<1>10. CASE ReaperMoves
  BY <1>3, <1>10, ReaperRests, StoreEventsRest DEF ReaperMoves, RetentionPasses
<1>11. CASE UNCHANGED vars
  BY <1>3, <1>11, SameRests DEF vars, storeVars
<1> QED
  BY <1>7, <1>8, <1>9, <1>10, <1>11 DEF Next

LEMMA ClaimsKept == ~Aging /\ ~ConfirmsAbsence => (Spec => []ClaimInv)
<1> SUFFICES ASSUME ~Aging, ~ConfirmsAbsence PROVE Spec => []ClaimInv
  OBVIOUS
<1>1. Init => ClaimInv
  <2> SUFFICES ASSUME Init PROVE ClaimInv
    OBVIOUS
  <2>1. \A w \in Workers : ~Working(w)
    BY DEF Init, WorkerInit, Working, Idle
  <2>2. \A j \in Jobs : records[j].claim = NoClaim
    BY DEF Init, StoreInit, Absent
  <2> QED
    BY <2>1, <2>2 DEF ClaimInv, NoConfirming, ClaimsAttended
<1>2. IInv /\ OInv /\ ClaimInv /\ [Next]_vars => ClaimInv'
  <2> SUFFICES ASSUME IInv, OInv, ClaimInv, [Next]_vars PROVE ClaimInv'
    OBVIOUS
  <2>1. NoConfirming'
    BY NoConfirmingKept
  <2>2. faults' = 0 => ClaimsAttended'
    BY AttendedKept
  <2> QED
    BY <2>1, <2>2 DEF ClaimInv
<1> QED
  BY <1>1, <1>2, OwnershipInvariance, Invariance, PTL DEF Spec

\* Every path of provision and delete gives its claim back: where the provider
\* does not confirm absence, a claimed record that still matters has a worker,
\* up to the first journal write that fails, whatever else fails and however
\* often the controller restarts, as long as no record reaches MAX_RUNNER_AGE.
THEOREM NoClaimIsAbandoned ==
  ~Aging /\ ~ConfirmsAbsence => (Spec => [](faults = 0 => NoAbandonedClaim))
<1> SUFFICES ASSUME ~Aging, ~ConfirmsAbsence
             PROVE  Spec => [](faults = 0 => NoAbandonedClaim)
  OBVIOUS
<1>1. ClaimInv => (faults = 0 => NoAbandonedClaim)
  BY DEF ClaimInv, ClaimsAttended, Attended, NoAbandonedClaim
<1> QED
  BY <1>1, ClaimsKept, PTL

=============================================================================
