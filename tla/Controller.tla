----------------------------- MODULE Controller -----------------------------
(* The webhook controller: webhook ingest, the workers and the reaper around *)
(* the durable store, between GitHub and a cloud provider that act on their  *)
(* own, with restarts at any point.  This module composes the parts and      *)
(* states what the composition must keep true.                               *)
EXTENDS Provisioning, Deletion, Reaper

CONSTANTS
  Delivered,   \* jobs whose queued webhook GitHub delivers
  MaxCrashes   \* bound: restarts in a behaviour

ASSUME ControllerAssumption == Delivered \subseteq Jobs /\ MaxCrashes \in Nat

VARIABLE crashes  \* restarts so far

vars == <<storeVars, githubVars, vm, worker, reaper, crashes>>

Init ==
  /\ StoreInit /\ GitHubInit /\ ProviderInit /\ WorkerInit /\ ReaperInit
  /\ crashes = 0

-----------------------------------------------------------------------------
(* Webhook ingest.  GitHub delivers late, repeatedly and in any order, so a  *)
(* delivery is possible whenever what it reports has happened.               *)

QueuedWebhook(j) ==
  /\ j \in Delivered
  /\ CreateRecord(j)
  /\ UNCHANGED <<githubVars, vm, worker, reaper, crashes>>

\* A completion of an unknown job is ignored unless one of this controller's
\* runners, told by its registration or its name, executed it.
CompletedWebhook(j) ==
  /\ jobState[j] = "done"
  /\ records[j].status # "absent" \/ OwnsRunner(ranOn[j]) \/ ranOn[j] \in Runners
  /\ RecordCompletion(j, ranOn[j])
  /\ UNCHANGED <<githubVars, vm, worker, reaper, crashes>>

-----------------------------------------------------------------------------
(* The world outside.                                                        *)

RunnerTakesJob(j) ==
  /\ \E i \in Instances :
       /\ Alive(i) /\ vm[i].runner \in registered /\ ~Used(vm[i].runner)
       /\ TakeJob(j, vm[i].runner)
  /\ UNCHANGED <<storeVars, vm, worker, reaper, crashes>>

ForeignRunnerTakesJob(j) ==
  /\ TakeJob(j, Foreign)
  /\ UNCHANGED <<storeVars, vm, worker, reaper, crashes>>

JobEnds(j) ==
  /\ FinishJob(j) \/ CancelQueuedJob(j)
  /\ UNCHANGED <<storeVars, vm, worker, reaper, crashes>>

InstanceMoves(i) ==
  /\ Appear(i) \/ Disappear(i) \/ Preempted(i)
  /\ UNCHANGED <<storeVars, githubVars, worker, reaper, crashes>>

RetryTimePasses(j) ==
  /\ BecomeDue(j)
  /\ UNCHANGED <<githubVars, vm, worker, reaper, crashes>>

\* The reaper prunes before it lists anything.  The retention window is far
\* longer than any work in flight.
RetentionPasses(j) ==
  /\ reaper = ReaperIdle
  /\ PruneDeleted(j)
  /\ \A w \in Workers : worker[w].job # j
  /\ LeavingFor(j) = {}
  /\ UNCHANGED <<githubVars, vm, worker, reaper, crashes>>

-----------------------------------------------------------------------------
WorkerStep(w) ==
  /\ \/ Claim(w) \/ Scan(w) \/ Deregister(w) \/ Clear(w) \/ EndWork(w)
     \/ ProvisionStep(w) \/ DeleteStep(w)
  /\ UNCHANGED <<reaper, crashes>>

WorkersMove == \E w \in Workers : WorkerStep(w)

ReaperMoves ==
  \/ ReaperStep /\ UNCHANGED <<worker, crashes>>
  \/ \E j \in Jobs : RetentionPasses(j)

\* The process dies between any two steps and is started again.
Restart ==
  /\ crashes < MaxCrashes
  /\ crashes' = crashes + 1
  /\ Reopen
  /\ worker' = [w \in Workers |-> Idle]
  /\ reaper' = ReaperIdle
  /\ UNCHANGED <<githubVars, vm>>

Outside ==
  \/ \E j \in Jobs : \/ QueuedWebhook(j) \/ CompletedWebhook(j)
                     \/ RunnerTakesJob(j) \/ ForeignRunnerTakesJob(j) \/ JobEnds(j)
                     \/ RetryTimePasses(j)
  \/ \E i \in Instances : InstanceMoves(i)

Next == Outside \/ WorkersMove \/ ReaperMoves \/ Restart

Spec == Init /\ [][Next]_vars

-----------------------------------------------------------------------------
(* Properties.                                                               *)

\* Type correctness: every record stays a record the store could have written,
\* and every copy held by a worker or the reaper is one.
TypeOK ==
  /\ StoreTypeOK /\ GitHubTypeOK /\ ProviderTypeOK
  /\ WorkerTypeOK /\ ReaperTypeOK
  /\ crashes \in 0 .. MaxCrashes

\* A worker in the second half of MarkProvisioned has released its record.
Working(w) == worker[w].pc \notin {"idle", "indexVM"}
KindOf(w) == IF worker[w].pc \in ProvisionPcs THEN "provision" ELSE "delete"

\* A claim is a lock (ClaimedWork): as long as a worker works on a record, the
\* record is claimed for just that kind of work, whatever webhooks and the
\* reaper write to it meanwhile, and no other worker has it.
ClaimsExclusive ==
  /\ \A w \in Workers : Working(w) =>
       worker[w].job \in Jobs /\ records[worker[w].job].claim = KindOf(w)
  /\ \A v, w \in Workers : v # w /\ Working(v) /\ Working(w)
                            => worker[v].job # worker[w].job

\* Every path of provision and delete gives its claim back: a claimed record
\* that still matters has a worker.  A record left with a stale claim is
\* skipped by ClaimNext and by ListExpired and holds its admission slot until
\* the controller restarts.
NoAbandonedClaim ==
  \A j \in Jobs : records[j].claim # NoClaim /\ ~Settled(records[j])
                  => \E w \in Workers : Working(w) /\ worker[w].job = j

\* Admission: ClaimNext counts live runners before it claims, and no later
\* transition (a failed create that keeps its registration, a completion, a
\* restored demand, a restart) may push the count above maxLiveRunners.
CeilingHolds == LiveRunners <= MaxLive

\* What the ceiling is for: the instances that are running at the provider,
\* recorded or not, never exceed maxLiveRunners.
FleetWithinCeiling == Cardinality({i \in Instances : Alive(i)}) <= MaxLive

\* A job never has two running instances, although attempts are repeated after
\* failures and restarts (FindRunner and the listing inside CreateRunner).
OneInstancePerJob == \A j \in Jobs : Cardinality(AliveFor(j)) <= 1

\* A record is marked deleted only when nothing runs for its job any more: a
\* deleted record is pruned, and no later pass looks for its instances.
DeletedLeavesNothing ==
  \A j \in Jobs : records[j].status = "deleted" => AliveFor(j) = {}

\* A provisioned record names an instance that carries its job tag and, while
\* that instance's registration lives, names this registration: completions,
\* which only carry the runner id, find the instance through the record.
ProvisionedMatches ==
  \A j \in Jobs : records[j].status = "provisioned" =>
    LET v == vm[records[j].instance]
    IN v.job = j /\ (records[j].runner = v.runner \/ v.runner \notin registered)

\* Demand holds no instance: a record that waits for, undergoes or has given up
\* provisioning has no instance id.  Hence retireProvisioning may mark it
\* deleted outright, and a failed record needs no provider deletion by id.
UnprovisionedHoldsNoInstance ==
  \A j \in Jobs :
    (\/ records[j].status \in {"pending", "provisioning", "failed"}
     \/ records[j].claim = "provision") => records[j].instance = NoInstance

\* An instance starts only for a record that is claimed for provisioning, with
\* the very registration that is stored and indexed for that record: provision
\* makes the identity durable before anything can run with it.
IdentityDurable ==
  [][\A i \in Instances : vm[i].state = "none" /\ vm'[i].state # "none" =>
       LET r == records[vm'[i].job]
       IN /\ r.claim = "provision" /\ r.runner = vm'[i].runner
          /\ runnerKeys[r.runner] = vm'[i].job]_vars

\* The index from runner ids to job keys is complete: the record that holds a
\* registration is found by the completion of that runner, also after a
\* restart has rebuilt the index.
Keyed(j) ==
  records[j].runner # NoRunner /\ records[j].status # "deleted" =>
    runnerKeys[records[j].runner] = j

IndexComplete == \A j \in Jobs : Keyed(j)

\* Where a stale ClearJIT of the reaper has hit a record in provisioning, it is
\* MarkProvisioned that gives the record its runner back, and its two critical
\* sections leave a gap: the record may miss from the index, but only while a
\* worker is about to enter it (IndexCaughtUp).
Indexing(w, j) ==
  At(w, "indexVM") /\ worker[w].job = j /\ worker[w].jit = records[j].runner

IndexCaughtUp == \A j \in Jobs : Keyed(j) \/ \E w \in Workers : Indexing(w, j)

\* A runner that is executing a job is owned by a record, so that its
\* completion will release it.
RunningRunnerOwned ==
  \A j \in Jobs : jobState[j] = "running" /\ ranOn[j] \in Runners => OwnsRunner(ranOn[j])

\* Short of MAX_RUNNER_AGE neither a worker nor the reaper deletes an instance
\* while its runner executes a job, whichever job that is.
BusyRunnerSpared ==
  [][worker' # worker \/ reaper' # reaper =>
       \A i \in Instances : Alive(i) /\ ~Alive(i)' => ~Busy(vm[i].runner)]_vars

\* Demand goes back from deletion to the queue only after everything of the
\* first attempt is gone: no instance runs for it, none of its registrations
\* is left at GitHub, and its completion is not known (FinishDeletedRunner).
RestoredCleanly ==
  [][\A j \in Jobs : records[j].status = "deleting" /\ records'[j].status = "pending" =>
       /\ AliveFor(j) = {}
       /\ \A i \in Instances : vm[i].job = j => vm[i].runner \notin registered
       /\ ~records[j].jobCompleted]_vars

\* Once the provider has accepted the deletion of an instance and this has been
\* stored, no worker asks for it again, across deferrals and restarts: the
\* instance may show no ownership tags and the answer would orphan the record.
NoSecondDelete ==
  [][\A w \in Workers : At(w, "vmDelete") /\ ~At(w, "vmDelete")' =>
       records[worker[w].job].accepted # worker[w].rec.instance]_vars

\* The reaper handles copies that may be stale.  Where it cleans up without an
\* instance id and finishes with an unconditional MarkDeleted, the record has
\* stayed unclaimed and without an instance since it was listed.
UntrackedPcs == {"begin", "reapJIT", "reapVMs", "orphanJIT", "clearOrphan", "markOrphan",
                 "markDeleted", "cleanupLimited", "cleanupTimeout", "cleanupFailed"}

InReaperHands(j) ==
  \/ reaper.todo[j].status # "absent" /\ reaper.todo[j].instance = NoInstance
  \/ reaper.job = j /\ reaper.pc \in UntrackedPcs

ReaperKeepsToUntracked == \A j \in Jobs : InReaperHands(j) => Untracked(records[j])

\* Once it is known that a runner executed another job than the one it was made
\* for, the original demand is not dropped while its job is still queued.
ReassignedDemandKept ==
  [][\A j \in Jobs : records[j].status = "deleting" /\ records[j].recheck
                     /\ jobState[j] = "queued" => records'[j].status # "deleted"]_vars
=============================================================================
