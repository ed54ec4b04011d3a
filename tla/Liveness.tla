------------------------------ MODULE Liveness ------------------------------
(* The reaper goroutine's liveness pass (Handler.reconcileLiveness).  It asks *)
(* the provider and GitHub about what the records claim to exist: orphaned    *)
(* instances that are gone give back their reservation, registrations of      *)
(* orphaned records are removed, old instances no record knows are swept, and *)
(* every provisioned runner is checked; one whose instance, registration or   *)
(* job is gone is requeued or scheduled for deletion.  Each part lists copies *)
(* first and handles them one after the other, while workers, webhooks,       *)
(* GitHub and the provider go on.                                             *)
(*                                                                            *)
(* Ages.  Whether the startup grace of a runner has ended, whether its last   *)
(* check was long enough ago and which instances are past the sweep's cutoff  *)
(* is chosen where the code compares times; Aging = FALSE: none is past it.   *)
EXTENDS Provisioning, Reaper

VARIABLE auditor  \* pass and step, the copy in hand, the copies and instances to go

Passes == {"orphans", "registrations", "runners", "sweep"}

AuditPcs == {"idle", "askAbsence", "releaseAbsent", "dropRegistration",
             "clearRegistration", "deferOrphan", "sweepList", "sweepDrop", "sweepRelease",
             "findRunner", "askJob", "dropIdle", "clearIdle", "schedule", "clearMissing",
             "askRunner", "observeLost", "clearChecks", "clearUnregistered",
             "clearOnline", "recordSeen", "dropUnregistered", "deleteUnregistered",
             "clearLost", "observeMissing", "dropMissing", "dropDuplicates",
             "cleanDuplicates", "requeue", "deferClientError", "deferLimited",
             "deferOther"}

AuditIdle == [pass |-> "none", pc |-> "idle", job |-> NoJob, rec |-> Absent,
              todo |-> NothingListed, known |-> {}, old |-> {}, doomed |-> {}]

AuditorTypeOK ==
  auditor \in [pass : Passes \cup {"none"}, pc : AuditPcs, job : Jobs \cup {NoJob},
               rec : Record, todo : [Jobs -> Record], known : SUBSET Instances,
               old : SUBSET Instances, doomed : SUBSET Instances]

AuditorInit == auditor = AuditIdle

AuditAt(pc) == auditor.pc = pc
AuditGoto(pc) == auditor' = [auditor EXCEPT !.pc = pc]
AuditNext ==
  auditor' = IF auditor.todo = NothingListed THEN AuditIdle
             ELSE [auditor EXCEPT !.pc = "idle", !.job = NoJob, !.rec = Absent]

\* One record is replaced, or the write fails.
AuditPut(r, onSuccess, onFailure) ==
  \/ Put(auditor.job, r) /\ onSuccess
  \/ PutFails /\ onFailure

-----------------------------------------------------------------------------
(* Listing and picking copies.                                               *)

Listed(pass, r) ==
  CASE pass = "orphans" -> r.status = "orphaned" /\ r.instance # NoInstance
    [] pass = "registrations" -> r.status = "orphaned" /\ r.runner # NoRunner /\ r.due
    [] pass = "runners" -> r.status = "provisioned" /\ r.due

\* A runner that was seen online is not checked before the interval is over.
Rests(pass, r) == pass = "runners" /\ r.seen

FirstCheck(pass) ==
  CASE pass = "orphans" -> "askAbsence"
    [] pass = "registrations" -> "dropRegistration"
    [] pass = "runners" -> "findRunner"

StartPass(pass) ==
  /\ auditor = AuditIdle
  /\ pass = "orphans" => ConfirmsAbsence
  /\ \E skipped \in SUBSET {j \in Jobs : Rests(pass, records[j])} :
       LET listed == {j \in Jobs : Listed(pass, records[j])} \ skipped
       IN /\ listed # {}
          /\ auditor' = [AuditIdle EXCEPT !.pass = pass, !.todo =
                           [j \in Jobs |-> IF j \in listed THEN records[j] ELSE Absent]]
  /\ UNCHANGED <<storeVars, githubVars, vm>>

TakeNext(j) ==
  /\ AuditAt("idle")
  /\ auditor.todo[j].status # "absent"
  /\ auditor' = [auditor EXCEPT !.pc = FirstCheck(auditor.pass), !.job = j,
                                !.rec = auditor.todo[j], !.todo[j] = Absent]
  /\ UNCHANGED <<storeVars, githubVars, vm>>

-----------------------------------------------------------------------------
(* Orphaned records.                                                         *)

\* Mutant: a successful answer is taken for a confirmed absence.
AskAbsence_AnyAnswer ==
  /\ AuditAt("askAbsence")
  /\ AuditGoto("releaseAbsent") \/ (ProviderErrors # {} /\ AuditNext)
  /\ UNCHANGED <<storeVars, githubVars, vm>>

\* RunnerAbsent, for the exact instance of the copy.
AskAbsence ==
  /\ AuditAt("askAbsence")
  /\ \/ vm[auditor.rec.instance].state = "gone" /\ AuditGoto("releaseAbsent")
     \/ vm[auditor.rec.instance].state # "gone" /\ AuditNext
     \/ ProviderErrors # {} /\ AuditNext
  /\ UNCHANGED <<storeVars, githubVars, vm>>

ReleaseAbsent ==
  /\ AuditAt("releaseAbsent")
  /\ AuditPut(ReleaseAbsentOrphan(records[auditor.job], auditor.rec.instance),
              AuditNext, AuditNext)
  /\ UNCHANGED <<githubVars, vm>>

-----------------------------------------------------------------------------
(* The provider sweep.                                                       *)

KnownInstances ==
  {i \in Instances : \E j \in Jobs : records[j].instance = i
                                     /\ ~Settled(records[j])}

\* An instance started by an attempt that is still going on is not old.
Fresh(i) == \E w \in Workers : At(w, "persistVM") /\ SecondCheck(w) /\ worker[w].inst = i

StartSweep ==
  /\ auditor = AuditIdle
  /\ Aging
  /\ \E old \in SUBSET {i \in Instances : vm[i].state # "none" /\ ~Fresh(i)} :
       /\ old # {}
       /\ auditor' = [AuditIdle EXCEPT !.pass = "sweep", !.pc = "sweepList",
                                       !.known = KnownInstances, !.old = old]
  /\ UNCHANGED <<storeVars, githubVars, vm>>

SweepList ==
  /\ AuditAt("sweepList")
  /\ \/ auditor' = [auditor EXCEPT !.pc = "sweepDrop", !.doomed =
                      {i \in auditor.old \ auditor.known : vm[i].state = "running"}]
     \/ ProviderErrors # {} /\ auditor' = AuditIdle
  /\ UNCHANGED <<storeVars, githubVars, vm>>

\* One deletion after the other, without a look at the job tag; the first
\* error ends the sweep.
SweepDrop ==
  /\ AuditAt("sweepDrop")
  /\ \/ auditor.doomed = {} /\ AuditGoto("sweepRelease") /\ UNCHANGED vm
     \/ \E i \in auditor.doomed :
          \/ DeleteVM(i) /\ auditor' = [auditor EXCEPT !.doomed = @ \ {i}]
          \/ ProviderErrors # {} /\ DeleteFails(i) /\ auditor' = AuditIdle
  /\ UNCHANGED <<storeVars, githubVars>>

\* ReleaseSweptOrphans: one write for all old orphaned records.
SweepRelease ==
  /\ AuditAt("sweepRelease")
  /\ \/ /\ records' = [j \in Jobs |->
                         IF records[j].status = "orphaned" /\ records[j].instance \in auditor.old
                         THEN ReleaseSwept(records[j]) ELSE records[j]]
        /\ UNCHANGED <<runnerKeys, markers, faults>>
     \/ PutFails
  /\ auditor' = AuditIdle
  /\ UNCHANGED <<githubVars, vm>>

-----------------------------------------------------------------------------
(* Provisioned runners.                                                      *)

FindRunner ==
  /\ AuditAt("findRunner")
  /\ \/ \E found \in Listings(auditor.job) :
          AuditGoto(IF Cardinality(found) > 1 THEN "cleanDuplicates"
                    ELSE IF found = {}
                    THEN IF auditor.rec.lost THEN "clearLost" ELSE "observeMissing"
                    ELSE IF ~auditor.rec.jobCompleted THEN "askJob"
                    ELSE IF auditor.rec.runner = NoRunner THEN "schedule" ELSE "dropIdle")
     \/ \E e \in ProviderErrors : \E pc \in Deferral(e) : AuditGoto(pc)
  /\ UNCHANGED <<storeVars, githubVars, vm>>

\* WorkflowJobStatus of the original job.
AskJob ==
  LET done == jobState[auditor.job] = "done"
  IN /\ AuditAt("askJob")
     /\ \/ AuditGoto(IF ~done THEN IF auditor.rec.missed THEN "clearMissing" ELSE "askRunner"
                     ELSE IF auditor.rec.runner = NoRunner THEN "schedule" ELSE "dropIdle")
        \/ \E e \in Errors : \E pc \in Deferral(e) : AuditGoto(pc)
     /\ UNCHANGED <<storeVars, githubVars, vm>>

\* RepoRunnerStatus: a runner is online only while its instance runs, and may
\* be offline at any time.  Where it has never been seen, the startup grace
\* may or may not have ended.
AskRunner ==
  LET id == auditor.rec.runner
      online == \E i \in Instances : Alive(i) /\ vm[i].runner = id
  IN /\ AuditAt("askRunner")
     /\ \/ id \notin registered /\ AuditGoto("observeLost")
        \/ id \in registered /\ AuditGoto("clearChecks")
        \/ id \in registered /\ ~auditor.rec.seen /\ AuditGoto("clearUnregistered")
        \/ id \in registered /\ ~auditor.rec.seen /\ online /\ AuditGoto("clearOnline")
        \/ \E e \in Errors : \E pc \in Deferral(e) : AuditGoto(pc)
     /\ UNCHANGED <<storeVars, githubVars, vm>>

\* An observation confirms only what an earlier one has reported already.
Confirmed(r, observed) == r.status = "provisioned" /\ observed

\* Where a confirmed absence of the registration is acted upon: not before the
\* startup grace of a runner nobody has seen has ended.
ObserveLost ==
  LET r == records[auditor.job]
  IN /\ AuditAt("observeLost")
     /\ AuditPut(ObserveGitHubRunnerMissing(r),
                 AuditNext \/ (Confirmed(r, r.lost) /\ AuditGoto("schedule")), AuditNext)
     /\ UNCHANGED <<githubVars, vm>>

ObserveMissing ==
  LET r == records[auditor.job]
      next == IF auditor.rec.runner = NoRunner THEN "requeue" ELSE "dropMissing"
  IN /\ AuditAt("observeMissing")
     /\ AuditPut(ObserveRunnerMissing(r),
                 AuditNext \/ (Confirmed(r, r.missed) /\ AuditGoto(next)), AuditNext)
     /\ UNCHANGED <<githubVars, vm>>

\* Store calls after which the handling of the copy goes on.
ClearObservation ==
  LET r == records[auditor.job]
      then == CASE AuditAt("clearMissing") -> "askRunner"
                [] AuditAt("clearLost") -> "observeMissing"
                [] AuditAt("clearOnline") -> "recordSeen"
                [] AuditAt("clearIdle") -> "schedule"
                [] AuditAt("clearUnregistered") ->
                     IF auditor.rec.runner = NoRunner THEN "deleteUnregistered"
                     ELSE "dropUnregistered"
      cleared == CASE AuditAt("clearMissing") -> ClearProviderMissing(r)
                   [] AuditAt("clearLost") -> ClearGitHubMissing(r)
                   [] AuditAt("clearIdle") -> ClearJIT(r)
                   [] auditor.pc \in {"clearOnline", "clearUnregistered"} ->
                        ClearRunnerMissing(r)
  IN /\ auditor.pc \in {"clearMissing", "clearLost", "clearOnline", "clearIdle",
                        "clearUnregistered"}
     /\ AuditPut(cleared, AuditGoto(then),
                 IF AuditAt("clearIdle") THEN AuditGoto("deferOther") ELSE AuditNext)
     /\ UNCHANGED <<githubVars, vm>>

\* RemoveRepoRunner, for the runner of the copy.
AfterDrop ==
  CASE AuditAt("dropRegistration") -> "clearRegistration"
    [] AuditAt("dropIdle") -> "clearIdle"
    [] AuditAt("dropUnregistered") -> "deleteUnregistered"
    [] auditor.pc \in {"dropMissing", "dropDuplicates"} -> "requeue"

DropPcs == {"dropRegistration", "dropIdle", "dropUnregistered", "dropMissing",
            "dropDuplicates"}

\* Mutant: the removal is not waited for.
AuditDeregister_IgnoresRefusal ==
  LET id == auditor.rec.runner
  IN /\ auditor.pc \in DropPcs
     /\ \/ RemoveRepoRunner(id)
        \/ \E e \in RemovalErrors(id) : RemovalFails(id, e)
     /\ AuditGoto(AfterDrop)
     /\ UNCHANGED <<storeVars, vm>>

AuditDeregister ==
  LET id == auditor.rec.runner
  IN /\ auditor.pc \in DropPcs
     /\ \/ RemoveRepoRunner(id) /\ AuditGoto(AfterDrop)
        \/ \E e \in RemovalErrors(id) :
             /\ RemovalFails(id, e)
             /\ \E pc \in IF AuditAt("dropRegistration") THEN {"deferOrphan"}
                          ELSE Deferral(e) : AuditGoto(pc)
     /\ UNCHANGED <<storeVars, vm>>

\* Mutant: a deletion that failed is taken for one that worked.
DeleteUnregistered_Anyway ==
  LET i == auditor.rec.instance
  IN /\ AuditAt("deleteUnregistered")
     /\ \/ DeleteVM(i)
        \/ DeleteMismatches(i)
        \/ ProviderErrors # {} /\ DeleteFails(i)
     /\ AuditGoto("requeue")
     /\ UNCHANGED <<storeVars, githubVars>>

\* requeueUnregisteredRunner deletes the instance of the copy.
DeleteUnregistered ==
  LET i == auditor.rec.instance
  IN /\ AuditAt("deleteUnregistered")
     /\ \/ DeleteVM(i) /\ AuditGoto("requeue")
        \/ DeleteMismatches(i) /\ AuditNext
        \/ ProviderErrors # {} /\ DeleteFails(i) /\ AuditNext
     /\ UNCHANGED <<storeVars, githubVars>>

CleanDuplicates ==
  LET next == IF auditor.rec.runner = NoRunner THEN "requeue" ELSE "dropDuplicates"
  IN /\ AuditAt("cleanDuplicates")
     /\ \/ CleanupVMs(auditor.job, NoInstance) /\ AuditGoto(next)
        \/ CleanupMismatches(auditor.job, NoInstance) /\ AuditNext
        \/ ProviderErrors # {} /\ CleanupStops(auditor.job, NoInstance) /\ AuditNext
     /\ UNCHANGED <<storeVars, githubVars>>

\* The store call that ends the handling of a copy, whatever its outcome.
AuditWrite ==
  LET r == records[auditor.job]
  IN CASE AuditAt("schedule") -> ScheduleDeletion(r)
       [] AuditAt("clearChecks") -> ClearRunnerMissing(r)
       [] AuditAt("recordSeen") -> RecordRunnerSeen(r)
       [] AuditAt("requeue") -> RequeueMissingRunner(r)
       [] AuditAt("clearRegistration") -> ClearJIT(r)
       [] AuditAt("deferOrphan") -> DeferOrphanCleanup(r)
       [] AuditAt("deferClientError") -> DeferReconciliation(r, TRUE, FALSE)
       [] AuditAt("deferLimited") -> DeferReconciliation(r, FALSE, TRUE)
       [] AuditAt("deferOther") -> DeferReconciliation(r, FALSE, FALSE)

AuditWritePcs == {"schedule", "clearChecks", "recordSeen", "requeue", "clearRegistration",
                  "deferOrphan", "deferClientError", "deferLimited", "deferOther"}

EndAudit ==
  /\ auditor.pc \in AuditWritePcs
  /\ AuditPut(AuditWrite, AuditNext, AuditNext)
  /\ UNCHANGED <<githubVars, vm>>

CheckRunner ==
  \/ FindRunner \/ AskJob \/ AskRunner \/ ObserveLost \/ ObserveMissing
  \/ ClearObservation \/ DeleteUnregistered \/ CleanDuplicates

Sweep == StartSweep \/ SweepList \/ SweepDrop \/ SweepRelease

AuditorStep ==
  \/ \E pass \in Passes \ {"sweep"} : StartPass(pass)
  \/ \E j \in Jobs : TakeNext(j)
  \/ AskAbsence \/ ReleaseAbsent \/ Sweep \/ CheckRunner \/ AuditDeregister \/ EndAudit
=============================================================================
