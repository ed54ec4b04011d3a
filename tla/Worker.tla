------------------------------- MODULE Worker -------------------------------
(* The workers of the webhook controller (internal/webhook/handler.go):      *)
(* each claims one record at a time and carries out its provisioning or      *)
(* deletion.  pc names the next remote call or store call of the handler; a  *)
(* step is that one call together with the local decisions up to the next.   *)
(* indexVM is the second half of MarkProvisioned, which has given up the     *)
(* claim already.                                                            *)
(* rec is the copy of the record that ClaimNext returned: decisions taken on *)
(* it can be stale, and other workers, webhooks, the reaper and GitHub act   *)
(* between any two steps.                                                    *)
EXTENDS Store, GitHub, Provider

CONSTANT Workers  \* the WORKER_COUNT goroutines

VARIABLE worker  \* worker -> what its goroutine is doing

ProvisionPcs == {"find", "dropVM", "demand", "ask", "stale", "clearStale",
                 "generate", "persistJIT", "dropJIT", "create", "persistVM",
                 "unregister", "clearIdle", "retire", "exhausted", "exhaustedJIT",
                 "clearExhausted", "releaseProvision", "deferProvision",
                 "deferDemand", "markFailed", "orphanProvision",
                 "clearOrphanProvision", "markOrphanProvision"}

DeletePcs == {"vmDelete", "accept", "confirm", "await", "cleanup", "deregister",
              "recheck", "askOriginal", "finish", "finishFailed",
              "releaseDelete", "deferDelete", "failDelete", "deferReassigned",
              "orphanDelete", "clearOrphanDelete", "markOrphanDelete"}

Task == [pc : {"idle", "indexVM"} \cup ProvisionPcs \cup DeletePcs,
         job : Jobs \cup {NoJob}, rec : Record, jit : Runners \cup {NoRunner},
         inst : Instances \cup {NoInstance}, queued : BOOLEAN]

WorkerTypeOK == worker \in [Workers -> Task]

Idle == [pc |-> "idle", job |-> NoJob, rec |-> Absent, jit |-> NoRunner,
         inst |-> NoInstance, queued |-> FALSE]

WorkerInit == worker = [w \in Workers |-> Idle]

ProviderErrors == Errors \ {"limited"}

-----------------------------------------------------------------------------
(* Moving a worker.                                                          *)

At(w, pc) == worker[w].pc = pc
Goto(w, pc) == worker' = [worker EXCEPT ![w].pc = pc]
Finish(w) == worker' = [worker EXCEPT ![w] = Idle]

\* Steps that leave the rest of the world alone.
Local == UNCHANGED <<storeVars, githubVars, vm>>
CallsGitHub == UNCHANGED <<storeVars, vm>>
CallsProvider == UNCHANGED <<storeVars, githubVars>>
CallsStore == UNCHANGED <<githubVars, vm>>

\* markOrphaned starts by deregistering the runner of its copy, if any.
OrphanProvision(w) ==
  IF worker[w].rec.runner = NoRunner THEN "markOrphanProvision" ELSE "orphanProvision"
OrphanDelete(w) ==
  IF worker[w].rec.runner = NoRunner THEN "markOrphanDelete" ELSE "orphanDelete"

\* provisionFailed: where the error of a provisioning step leads.
ProvisionFailed(w, e) ==
  CASE e = "cancelled" -> "releaseProvision"
    [] e = "limited" -> "deferProvision"
    [] e = "unknown" -> OrphanProvision(w)
    [] e \notin {"cancelled", "limited", "unknown"} ->
         IF worker[w].rec.attempts >= MaxAttempts THEN "exhausted" ELSE "markFailed"

\* deferDemandCheck: once the worker's context is done, any error ends the
\* attempt instead of deferring it.  A call may time out before that.
DeferDemandCheck(w, e) ==
  {"deferDemand"} \cup (IF "cancelled" \in Errors THEN {ProvisionFailed(w, e)} ELSE {})

\* The error branches of delete.
DeleteFailed(w, e) ==
  CASE e = "cancelled" -> "releaseDelete"
    [] e = "limited" -> "deferDelete"
    [] e = "mismatch" -> OrphanDelete(w)
    [] e \notin {"cancelled", "limited", "mismatch"} -> "failDelete"

-----------------------------------------------------------------------------
(* worker: claiming.                                                         *)

\* Mutant: an accepted deletion is requested again.
FirstStep_DeletesAgain(r) == IF r.claim = "provision" THEN "find" ELSE "vmDelete"

\* Mutant: the cleanup by tag is trusted to delete the recorded instance.
FirstStep_SkipsDelete(r) == IF r.claim = "provision" THEN "find" ELSE "cleanup"

FirstStep(r) ==
  IF r.claim = "provision" THEN "find"
  ELSE IF ConfirmsAbsence /\ r.accepted = r.instance THEN "confirm" ELSE "vmDelete"

Claim(w) ==
  /\ At(w, "idle")
  /\ \E j \in Jobs :
       /\ ClaimFirst(j)
       /\ worker' = [worker EXCEPT ![w] =
            [Idle EXCEPT !.pc = FirstStep(Claimed(records[j])),
                         !.job = j, !.rec = Claimed(records[j])]]
  /\ CallsStore

Scan(w) ==
  /\ At(w, "idle")
  /\ ScanWithoutClaim \/ \E j \in Jobs : ScanStops(j)
  /\ UNCHANGED worker
  /\ CallsStore

-----------------------------------------------------------------------------
(* Steps that provisioning and deletion share.                               *)

\* RemoveRepoRunner for the runner in the worker's copy.
AfterRemoval(w) ==
  CASE At(w, "unregister") -> "clearIdle"
    [] At(w, "stale") -> "clearStale"
    [] At(w, "exhaustedJIT") -> "clearExhausted"
    [] At(w, "orphanProvision") -> "clearOrphanProvision"
    [] At(w, "orphanDelete") -> "clearOrphanDelete"
    [] At(w, "deregister") -> "recheck"

\* Mutant: an orphaned record forgets a runner GitHub refused to remove.
AfterRefusal_Forgets(w, e) ==
  CASE At(w, "unregister") -> DeferDemandCheck(w, e)
    [] At(w, "stale") -> {ProvisionFailed(w, e)}
    [] At(w, "exhaustedJIT") -> {"clearExhausted"}
    [] At(w, "orphanProvision") -> {"clearOrphanProvision"}
    [] At(w, "orphanDelete") -> {"clearOrphanDelete"}
    [] At(w, "deregister") -> {DeleteFailed(w, e)}

AfterRefusal(w, e) ==
  CASE At(w, "unregister") -> DeferDemandCheck(w, e)
    [] At(w, "stale") -> {ProvisionFailed(w, e)}
    [] At(w, "exhaustedJIT") -> {"markFailed"}
    [] At(w, "orphanProvision") -> {"markOrphanProvision"}
    [] At(w, "orphanDelete") -> {"markOrphanDelete"}
    [] At(w, "deregister") -> {DeleteFailed(w, e)}

DeregisterPcs == {"unregister", "stale", "exhaustedJIT", "orphanProvision",
                  "orphanDelete", "deregister"}

Deregister(w) ==
  /\ worker[w].pc \in DeregisterPcs
  /\ \/ RemoveRepoRunner(worker[w].rec.runner) /\ Goto(w, AfterRemoval(w))
     \/ \E e \in RemovalErrors(worker[w].rec.runner) :
          /\ RemovalFails(worker[w].rec.runner, e)
          /\ \E pc \in AfterRefusal(w, e) : Goto(w, pc)
  /\ CallsGitHub

\* ClearJIT after a successful removal.
AfterClear(w) ==
  CASE At(w, "clearIdle") -> "retire"
    [] At(w, "clearStale") -> "generate"
    [] At(w, "clearExhausted") -> "markFailed"
    [] At(w, "clearOrphanProvision") -> "markOrphanProvision"
    [] At(w, "clearOrphanDelete") -> "markOrphanDelete"

AfterClearFails(w) ==
  CASE At(w, "clearIdle") -> DeferDemandCheck(w, "other")
    [] At(w, "clearStale") -> {ProvisionFailed(w, "other")}
    [] At(w, "clearExhausted") -> {"markFailed"}
    [] At(w, "clearOrphanProvision") -> {"markOrphanProvision"}
    [] At(w, "clearOrphanDelete") -> {"markOrphanDelete"}

ClearPcs == {"clearIdle", "clearStale", "clearExhausted", "clearOrphanProvision",
             "clearOrphanDelete"}

Clear(w) ==
  LET j == worker[w].job
  IN /\ worker[w].pc \in ClearPcs
     /\ \/ Put(j, ClearJIT(records[j])) /\ Goto(w, AfterClear(w))
        \/ PutFails /\ \E pc \in AfterClearFails(w) : Goto(w, pc)
     /\ CallsStore

\* The store call that ends the work.  Its failure is only logged, so the
\* claim then stays in memory until the controller restarts.
LastWrite(w) ==
  LET r == records[worker[w].job]
  IN CASE At(w, "releaseProvision") -> ReleaseClaim(r, "provision")
       [] At(w, "deferProvision") -> DeferRateLimitedWork(r, "provision")
       [] At(w, "deferDemand") -> DeferProvisioningDemand(r)
       [] At(w, "markFailed") -> MarkProvisionFailed(r)
       [] At(w, "releaseDelete") -> ReleaseClaim(r, "delete")
       [] At(w, "deferDelete") -> DeferRateLimitedWork(r, "delete")
       [] At(w, "failDelete") -> MarkDeleteFailed(r)
       [] At(w, "deferReassigned") -> DeferReassignmentDemand(r)
       [] At(w, "markOrphanProvision") -> MarkOrphaned(r)
       [] At(w, "markOrphanDelete") -> MarkOrphaned(r)

LastWritePcs == {"releaseProvision", "deferProvision", "deferDemand", "markFailed",
                 "releaseDelete", "deferDelete", "failDelete", "deferReassigned",
                 "markOrphanProvision", "markOrphanDelete"}

EndWork(w) ==
  /\ worker[w].pc \in LastWritePcs
  /\ Put(worker[w].job, LastWrite(w)) \/ PutFails
  /\ Finish(w)
  /\ CallsStore
=============================================================================
