------------------------------- MODULE Reaper -------------------------------
(* The reaper goroutine's expiry pass (Handler.expireAged): it lists the     *)
(* records that have outlived their purpose and handles the listed copies    *)
(* one after the other, while workers, webhooks and GitHub go on.  A record  *)
(* may have changed any number of times between being listed and being       *)
(* handled.                                                                  *)
EXTENDS Store, GitHub, Provider

CONSTANT Aging  \* records may reach MAX_RUNNER_AGE

ASSUME AgingAssumption == Aging \in BOOLEAN

VARIABLE reaper  \* the step, the copy being handled and the copies still listed

ReaperPcs == {"idle", "begin", "reapJIT", "reapVMs", "prepare", "clearPrepared",
              "orphanJIT", "clearOrphan", "schedule", "markDeleted", "markOrphan",
              "deferClientError", "deferLimited", "deferOther", "cleanupLimited",
              "cleanupTimeout", "cleanupFailed"}

NothingListed == [j \in Jobs |-> Absent]
ReaperIdle == [pc |-> "idle", job |-> NoJob, rec |-> Absent, todo |-> NothingListed]

ReaperTypeOK ==
  reaper \in [pc : ReaperPcs, job : Jobs \cup {NoJob}, rec : Record,
              todo : [Jobs -> Record]]

ReaperInit == reaper = ReaperIdle

ReapGoto(pc) == reaper' = [reaper EXCEPT !.pc = pc]
ReapNext == reaper' = [reaper EXCEPT !.pc = "idle", !.job = NoJob, !.rec = Absent]

\* ListExpired returns these at any age ...
MustExpire(r) ==
  /\ r.claim = NoClaim /\ r.due
  /\ \/ r.status = "completed" /\ r.defer
     \/ r.status = "failed" /\ r.instance = NoInstance

\* Mutant: claimed records are listed, too.
MayExpire_Claimed(r) ==
  \/ r.due /\ r.status = "completed" /\ r.instance = NoInstance
  \/ Aging /\ r.status = "provisioned"
  \/ Aging /\ r.due /\ r.status \in {"failed", "completed"}

\* ... and these depending on their age or on having failed before.
MayExpire(r) ==
  /\ r.claim = NoClaim
  /\ \/ r.due /\ r.status = "completed" /\ r.instance = NoInstance
     \/ Aging /\ r.status = "provisioned"
     \/ Aging /\ r.due /\ r.status \in {"failed", "completed"}

ListExpired ==
  /\ reaper = ReaperIdle
  /\ \E old \in SUBSET {j \in Jobs : MayExpire(records[j])} :
       LET listed == old \cup {j \in Jobs : MustExpire(records[j])}
       IN /\ listed # {}
          /\ reaper' = [reaper EXCEPT !.todo =
                          [j \in Jobs |-> IF j \in listed THEN records[j] ELSE Absent]]
  /\ UNCHANGED <<storeVars, githubVars, vm>>

\* expireRunner: where the listed copy leads.
ExpireRunner(j) ==
  LET r == reaper.todo[j]
  IN /\ reaper.pc = "idle"
     /\ r.status # "absent"
     /\ reaper' = [pc |-> IF r.instance = NoInstance THEN "begin"
                          ELSE IF r.defer /\ r.runner # NoRunner THEN "prepare"
                          ELSE "schedule",
                   job |-> j, rec |-> r, todo |-> [reaper.todo EXCEPT ![j] = Absent]]
     /\ UNCHANGED <<storeVars, githubVars, vm>>

\* deleteUntrackedExpiredRunner reserves an attempt on the present record.
BeginCleanup ==
  LET r == records[reaper.job]
      ready == CleanupReady(r) /\ r.deletes < MaxAttempts
  IN /\ reaper.pc = "begin"
     /\ \/ /\ Put(reaper.job, BeginCleanupAttempt(r))
           /\ IF ~ready THEN ReapNext
              ELSE ReapGoto(IF reaper.rec.runner = NoRunner THEN "reapVMs" ELSE "reapJIT")
        \/ PutFails /\ ReapNext
     /\ UNCHANGED <<githubVars, vm>>

\* untrackedCleanupFailed.
CleanupFailed(e) ==
  CASE e = "limited" -> "cleanupLimited"
    [] e = "cancelled" -> "cleanupTimeout"
    [] e \notin {"limited", "cancelled"} -> "cleanupFailed"

\* deferReconciliation: only a persistent client error, one kind of "other",
\* counts as a failure; the refusal to remove a busy runner does not.
Deferral(e) ==
  CASE e = "limited" -> {"deferLimited"}
    [] e = "other" -> {"deferClientError", "deferOther"}
    [] e \notin {"limited", "other"} -> {"deferOther"}

\* RemoveRepoRunner, for the runner of the listed copy.
ReapDeregister ==
  /\ reaper.pc \in {"reapJIT", "prepare", "orphanJIT"}
  /\ \/ /\ RemoveRepoRunner(reaper.rec.runner)
        /\ ReapGoto(CASE reaper.pc = "reapJIT" -> "reapVMs"
                      [] reaper.pc = "prepare" -> "clearPrepared"
                      [] reaper.pc = "orphanJIT" -> "clearOrphan")
     \/ \E e \in RemovalErrors(reaper.rec.runner) :
          /\ RemovalFails(reaper.rec.runner, e)
          /\ \E pc \in CASE reaper.pc = "reapJIT" -> {CleanupFailed(e)}
                         [] reaper.pc = "prepare" -> Deferral(e)
                         [] reaper.pc = "orphanJIT" -> {"markOrphan"} : ReapGoto(pc)
  /\ UNCHANGED <<storeVars, vm>>

\* CleanupRunner for a record without an instance.
ReapVMs ==
  LET orphan == IF reaper.rec.runner = NoRunner THEN "markOrphan" ELSE "orphanJIT"
  IN /\ reaper.pc = "reapVMs"
     /\ \/ CleanupVMs(reaper.job, NoInstance) /\ ReapGoto("markDeleted")
        \/ CleanupMismatches(reaper.job, NoInstance) /\ ReapGoto(orphan)
        \/ \E e \in Errors \ {"limited"} :
             CleanupStops(reaper.job, NoInstance) /\ ReapGoto(CleanupFailed(e))
     /\ UNCHANGED <<storeVars, githubVars>>

\* ClearJIT after a removal.
ReapClear ==
  /\ reaper.pc \in {"clearPrepared", "clearOrphan"}
  /\ \/ /\ Put(reaper.job, ClearJIT(records[reaper.job]))
        /\ ReapGoto(IF reaper.pc = "clearPrepared" THEN "schedule" ELSE "markOrphan")
     \/ /\ PutFails
        /\ ReapGoto(IF reaper.pc = "clearPrepared" THEN "deferOther" ELSE "markOrphan")
  /\ UNCHANGED <<githubVars, vm>>

\* The store call that ends the handling of a copy; failures are reported.
ReapWrite ==
  LET r == records[reaper.job]
  IN CASE reaper.pc = "schedule" -> ScheduleDeletion(r)
       [] reaper.pc = "markDeleted" -> MarkDeleted(r)
       [] reaper.pc = "markOrphan" -> MarkOrphaned(r)
       [] reaper.pc = "deferClientError" -> DeferReconciliation(r, TRUE, FALSE)
       [] reaper.pc = "deferLimited" -> DeferReconciliation(r, FALSE, TRUE)
       [] reaper.pc = "deferOther" -> DeferReconciliation(r, FALSE, FALSE)
       [] reaper.pc = "cleanupLimited" -> DeferRateLimitedCleanup(r, TRUE)
       [] reaper.pc = "cleanupTimeout" -> DeferRateLimitedCleanup(r, FALSE)
       [] reaper.pc = "cleanupFailed" -> MarkDeleteFailed(r)

ReapWritePcs == {"schedule", "markDeleted", "markOrphan", "deferClientError",
                 "deferLimited", "deferOther", "cleanupLimited",
                 "cleanupTimeout", "cleanupFailed"}

EndReap ==
  /\ reaper.pc \in ReapWritePcs
  /\ Put(reaper.job, ReapWrite) \/ PutFails
  /\ ReapNext
  /\ UNCHANGED <<githubVars, vm>>

\* A listed completion marker has no resources: it is marked deleted at once.
ReapMarker(id) ==
  /\ markers[id] # NoJob
  /\ markers' = [markers EXCEPT ![id] = NoJob]
  /\ UNCHANGED <<records, runnerKeys, faults, githubVars, vm, reaper>>

ReaperStep ==
  \/ ListExpired \/ (\E j \in Jobs : ExpireRunner(j)) \/ BeginCleanup
  \/ ReapDeregister \/ ReapVMs \/ ReapClear \/ EndReap
  \/ \E id \in Runners : ReapMarker(id)
=============================================================================
