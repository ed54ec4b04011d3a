---------------------------- MODULE Provisioning ----------------------------
(* Handler.provision: adopt the instance a crashed attempt left behind, or   *)
(* check that the job is still queued, register a JIT runner, check again    *)
(* and create the instance.                                                  *)
EXTENDS Worker

\* FindRunner by job tag.
Find(w) ==
  /\ At(w, "find")
  /\ \/ \E seen \in Listings(worker[w].job) :
          \/ seen = {} /\ Goto(w, "demand")
          \/ \E i \in seen :
               /\ seen = {i}
               /\ worker' = [worker EXCEPT ![w].inst = i,
                    ![w].pc = IF worker[w].rec.runner = NoRunner
                              THEN "dropVM" ELSE "persistVM"]
          \/ Cardinality(seen) > 1 /\ Goto(w, ProvisionFailed(w, "other"))
     \/ \E e \in ProviderErrors : Goto(w, ProvisionFailed(w, e))
  /\ Local

\* An instance whose JIT identity was never stored cannot be used.
DropVM(w) ==
  LET i == worker[w].inst
  IN /\ At(w, "dropVM")
     /\ \/ DeleteVM(i) /\ Goto(w, ProvisionFailed(w, "other"))
        \/ DeleteMismatches(i) /\ Goto(w, ProvisionFailed(w, "other"))
        \/ \E e \in ProviderErrors : DeleteFails(i) /\ Goto(w, ProvisionFailed(w, e))
     /\ CallsProvider

\* requireQueuedJob runs before the registration is made and again after it.
SecondCheck(w) == worker[w].jit # NoRunner

\* removeIdleJIT does nothing when the copy has no runner.
GiveUpDemand(w) ==
  IF worker[w].rec.runner = NoRunner THEN "retire" ELSE "unregister"

\* requireQueuedJob, first half: completion already known to the store.
CheckDemand(w) ==
  /\ At(w, "demand")
  /\ Goto(w, IF records[worker[w].job].jobCompleted THEN GiveUpDemand(w) ELSE "ask")
  /\ Local

\* requireQueuedJob, second half: WorkflowJobStatus.
AskDemand(w) ==
  /\ At(w, "ask")
  /\ \/ /\ jobState[worker[w].job] = "queued"
        /\ Goto(w, IF SecondCheck(w) THEN "create"
                   ELSE IF worker[w].rec.runner = NoRunner THEN "generate"
                   ELSE "stale")
     \/ jobState[worker[w].job] # "queued" /\ Goto(w, GiveUpDemand(w))
     \/ \E e \in Errors : \E pc \in DeferDemandCheck(w, e) : Goto(w, pc)
  /\ Local

\* retireProvisioning: the record is finished, or, if an instance was stored
\* meanwhile, completed, released and scheduled for deletion.  These are three
\* calls in the code; they are one step here because a record that is claimed
\* for provisioning holds no instance (UnprovisionedHoldsNoInstance).
Retire(w) ==
  LET j == worker[w].job
      r == records[j]
  IN /\ At(w, "retire")
     /\ \/ /\ Put(j, IF r.instance = NoInstance THEN MarkDeleted(r)
                     ELSE ScheduleDeletion(ReleaseClaim(MarkCompleted(r), "provision")))
           /\ Finish(w)
        \/ PutFails /\ Goto(w, ProvisionFailed(w, "other"))
     /\ CallsStore

Generate(w) ==
  /\ At(w, "generate")
  /\ \/ /\ GenerateJIT
        /\ worker' = [worker EXCEPT ![w].pc = "persistJIT", ![w].jit = issued + 1]
     \/ \E e \in Errors : GenerateJITFails /\ Goto(w, ProvisionFailed(w, e))
  /\ CallsGitHub

\* Mutant: the worker's copy is not given the new identity.
PersistJIT_OldCopy(w) ==
  /\ At(w, "persistJIT")
  /\ \/ PutJIT(worker[w].job, worker[w].jit) /\ Goto(w, "demand")
     \/ PutFails /\ Goto(w, "dropJIT")
  /\ CallsStore

\* Mutant: provisioning goes on when the identity could not be stored.
PersistJIT_IgnoresError(w) ==
  LET id == worker[w].jit
  IN /\ At(w, "persistJIT")
     /\ PutJIT(worker[w].job, id) \/ PutFails
     /\ worker' = [worker EXCEPT ![w].pc = "demand", ![w].rec.runner = id]
     /\ CallsStore

\* The identity is durable before anything can run with it.
PersistJIT(w) ==
  LET id == worker[w].jit
  IN /\ At(w, "persistJIT")
     /\ \/ /\ PutJIT(worker[w].job, id)
           /\ worker' = [worker EXCEPT ![w].pc = "demand", ![w].rec.runner = id]
        \/ PutFails /\ Goto(w, "dropJIT")
     /\ CallsStore

\* Deregister the identity that could not be stored; errors are only logged.
DropJIT(w) ==
  /\ At(w, "dropJIT")
  /\ RemoveRepoRunner(worker[w].jit) \/ (Errors # {} /\ UNCHANGED githubVars)
  /\ Goto(w, ProvisionFailed(w, "other"))
  /\ CallsGitHub

Create(w) ==
  LET j == worker[w].job
      id == worker[w].jit
  IN /\ At(w, "create")
     /\ \/ \E i \in Instances :
             /\ CreateReuses(j, i) \/ CreateStarts(j, i, id)
             /\ worker' = [worker EXCEPT ![w].pc = "persistVM", ![w].inst = i]
        \/ \E e \in ProviderErrors \cup (IF AmbiguousCreates THEN {"unknown"} ELSE {}) :
             CreateFails(j, id, e) /\ Goto(w, ProvisionFailed(w, e))
     /\ CallsProvider

\* A worker between the two halves of MarkProvisioned has given up its claim
\* and knows what to index, if anything.
HalfDone(w) ==
  LET j == worker[w].job
      id == worker[w].rec.runner
  IN IF Settled(records[j]) \/ id = NoRunner THEN Idle
     ELSE [Idle EXCEPT !.pc = "indexVM", !.job = j, !.jit = id]

\* MarkProvisioned, for a found and for a created instance: the record, ...
PersistVM(w) ==
  /\ At(w, "persistVM")
  /\ \/ /\ PutInstance(worker[w].job, worker[w].inst, worker[w].rec.runner)
        /\ worker' = [worker EXCEPT ![w] = HalfDone(w)]
     \/ PutFails /\ Goto(w, ProvisionFailed(w, "other"))
  /\ CallsStore

\* ... and then, under the lock taken anew, the index.
IndexVM(w) ==
  /\ At(w, "indexVM")
  /\ IndexInstance(worker[w].job, worker[w].jit)
  /\ Finish(w)
  /\ CallsStore

\* provisionFailed with the budget spent: clean up by job tag, then drop the
\* registration and store the failure.
CleanupExhausted(w) ==
  LET j == worker[w].job
      next == IF worker[w].rec.runner = NoRunner THEN "markFailed" ELSE "exhaustedJIT"
  IN /\ At(w, "exhausted")
     /\ \/ CleanupVMs(j, NoInstance) /\ Goto(w, next)
        \/ CleanupMismatches(j, NoInstance) /\ Goto(w, OrphanProvision(w))
        \/ ProviderErrors # {} /\ CleanupStops(j, NoInstance) /\ Goto(w, next)
     /\ CallsProvider

ProvisionStep(w) ==
  \/ Find(w) \/ DropVM(w) \/ CheckDemand(w) \/ AskDemand(w) \/ Retire(w)
  \/ Generate(w) \/ PersistJIT(w) \/ DropJIT(w) \/ Create(w) \/ PersistVM(w)
  \/ IndexVM(w) \/ CleanupExhausted(w)
=============================================================================
