# A verification model of the runner controller

The repository runs GitHub Actions jobs on ephemeral cloud instances. A webhook
controller (`src/cmd/webhook`, `src/internal/webhook`) receives `workflow_job`
deliveries, keeps one durable record per job (`src/internal/state`), registers a
just-in-time (JIT) runner at GitHub (`src/internal/github`), starts an instance
at a provider (`src/internal/{digitalocean,aws,gcp,azure}`), and removes both when the
job is over. Everything hard about it lies between these parts: several workers,
webhooks and a reaper write the same records; the remote systems act on their own,
answer late, wrongly or not at all; and the controller may die between any two calls.

This directory holds TLA+ modules for that composition, TLC configurations that check
it on small instances, and proofs, checked by TLAPS, that hold for every instance.

## 1. Inventory

| component | state it keeps | operations | talks to |
|---|---|---|---|
| record and mutators (`state/store.go`) | status, claim, runner id, instance id, completion flags, deletion acceptance, attempt/delete/throttle/failure counters, next attempt time | about 30 mutators, each one critical section and one journal entry | called by all others |
| store: index, admission, completion, restart | job key -> record, runner id -> job key, completion markers | `Create`, `ClaimNext`, `RecordCompletion`, `OwnsRunner`, `PruneDeleted`, `OpenFileStore` | workers, ingest, reaper |
| journal and snapshot | append-only file, snapshot, journal size | `saveLocked`, `rollbackJournal`, `loadJournal`, `repairJournalTail`, `compactLocked` | below the store |
| workers (`webhook/handler.go`) | the claimed copy of a record, the step reached | `provision`, `delete` and their error paths | store, GitHub, provider |
| reaper: expiry pass | the listed copies | `expireAged`, `expireRunner`, `deleteUntrackedExpiredRunner` | store, GitHub, provider |
| reaper: liveness pass and provider sweep | the listed copies, debounce counters | `reconcileLiveness` and its checks, `Sweep`, `ReleaseSweptOrphans`, `RequeueMissingRunner` | store, GitHub, provider |
| webhook ingest | none of its own | `handleQueued`, `handleCompleted` | GitHub -> store |
| GitHub client | installation-token cache | JIT registration, removal, job and runner status | GitHub |
| provider adapters | none of their own (Azure: NICs at the provider) | find, create, delete, cleanup by tag, confirm absence, sweep | provider |
| controller main | worker and reaper goroutines, their context | start, graceful shutdown | all |
| installation router | none | HTTP forwarding | - |

What makes each part correct:

- *record and store*: a claim is a lock; counters stay within the retry budget; no
  transition loses an instance id or pushes the live count over the ceiling; the index
  finds every record that owns a runner, also after a restart.
- *workers*: an identity is durable before anything can run with it; a retry never makes a
  second instance; a busy runner is not deleted; every path gives its claim back.
- *reaper*: acting on a stale copy does no harm; an admission slot is given up only when its
  instance is gone; one doubtful answer replaces nothing; what is left behind is found in the end.
- *ingest*: late, repeated and reordered deliveries, and runners that executed somebody
  else's job, are attributed correctly.
- *journal*: after a crash the store is what it was after the last call that returned.

Hard behaviours: remote calls between reading a record and acting on it; answers that hide
whether a call took effect; tag listings that lag; asynchronous deletion; GitHub giving a
runner to another job than the one it was made for; restarts; failing journal writes.

## 2. Modules

| module | models | correspondence |
|---|---|---|
| `RunnerRecord` | the record and its mutators | one operator per mutator, from record to record; a guard that fails returns the record unchanged, as the code returns without touching it |
| `Store` | `FileStore` as its callers see it | variables `records`, `runnerKeys` (`runnerKeys` index), `markers` (completion markers), `faults`; `Put` is a successful `update`, `PutFails` one whose journal write failed and which was rolled back |
| `GitHub` | jobs, registrations and the API calls | `jobState`, `ranOn`, `registered`, `issued`; external behaviour is what the client code expects |
| `Provider` | instances and the compute interface | `vm`; two kinds of provider: `ConfirmsAbsence` (DigitalOcean) and not (AWS, GCP, Azure) |
| `Worker` | claiming, shared steps, error routing | `worker[w]`: the step (`pc`), the claimed key, the *copy* `ClaimNext` returned (`rec`), the new identity, the found instance, the answer about the original job |
| `Provisioning`, `Deletion` | `provision`, `delete` and what they call | one action per remote call or store call; the local decisions up to the next call belong to the action |
| `Reaper` | the expiry pass | `reaper`: the step, the copy being handled, the copies still to be handled |
| `Liveness` | `reconcileLiveness`: orphaned instances, orphaned registrations, the sweep, the check of every provisioned runner | `auditor`: the part (`pass`), the step (`pc`), the copy in hand and those to go, the instances the sweep knows (`known`), has listed as old (`old`) and is to delete (`doomed`) |
| `Controller` | workers, expiry pass, webhooks, the outside world, restarts | `Next`; the properties of this composition are stated here |
| `Fleet` | `Controller` and `Liveness` together, with fairness | `FleetNext`, `FleetFair`; one goroutine runs both passes of the reaper, so a step of one finds the other idle |
| `DurableStore` | what the store promises: a call takes effect for good or not at all | `stored`, `asked` (the call in progress) |
| `Journal` | `update`, `saveLocked`, `rollbackJournal`, `compactLocked`, `loadJournal` | one action per file operation; each file has the content the process sees and the content that is safe; implements `DurableStore` (`Refines`) |
| `MCController`, `MCFleet`, `MCJournal` | symmetry and small sets for TLC; `MCJournal` also compares `Replay` with a fold over the entries | - |
| `ControllerProofs`, `IndexProofs`, `CleanupProofs`, `OwnershipProofs`, `AdmissionProofs`, `BusyProofs`, `FleetProofs`, `JournalProofs` | proofs | see section 5 |

`Controller` extends `Provisioning`, `Deletion` (both on `Worker`) and `Reaper`; these extend
`Store`, `GitHub` and `Provider`, which rest on `RunnerRecord`. `Fleet` adds `Liveness` to
`Controller`. `Journal` stands below `Store`: `Store` takes a call for one atomic, durable
step, and `Journal` shows that the files implement exactly this.

Granularity. A critical section of the store's mutex is one atomic step, and its entry is
synced before it ends. A store call is one critical section, with one exception:
`MarkProvisioned` writes the record in `update`, which unlocks, and locks again to enter the runner in the
index. It is two steps, `PersistVM` and `IndexVM`. The first gives the claim up, so between the two
everybody may move the record, and another worker may claim it. The completion marker and its record are
written in one critical section. A remote call is one step at the remote system; its answer
and the local branch it selects belong to the same step. Between two steps everybody else
may move. One action stands for several store calls: `Retire` is `MarkCompleted`, `ReleaseClaim` and `ScheduleDeletion` of
a record that turns out to hold an instance when its demand has gone. By `DemandHoldsNoInstance` (section 5) no
record claimed for provisioning holds one, so the branch is never taken and its granularity shows nowhere.

The gap in `MarkProvisioned`. As a rule `MarkJITCreated` has entered the runner long before, and the second step changes
nothing. It matters where a stale copy has cleared the identity of the record in between (`removeIdleJIT`, as
in the hazard at `handler.go:1095`): then it is `MarkProvisioned` that gives the record its runner back, and until `IndexVM`
the index does not lead to it. A completion that arrives in the gap finds no owner: it leaves a marker nobody reads
again, and the record stays provisioned until the liveness pass or the age limit finds it. So `IndexComplete` is
not a theorem for every instance. Two theorems say what holds (section 5): everywhere, a record that is missing
from the index has a worker about to enter it (`IndexCaughtUp`); and below `MAX_RUNNER_AGE`, where `Controller` has no
such stale copies, there is no gap. (The liveness pass holds stale copies at any age; the two theorems are about `Controller`.)

Data. Job keys are numbers because `ClaimNext` scans keys in sorted order. The next attempt
time is one Boolean, `due` (it is zero or past), that becomes true by itself (`BecomeDue`).
The debounced observations of the liveness pass are three Booleans of a record: `seen`
(`RegisteredAt` is set), `missed` (`MissingChecks` is not zero) and `lost` (`GitHubMissingChecks` is not zero). The
first observation never acts, because the settle window is positive; any later one in a row may act or only count, which
covers every value of `LIVENESS_CONFIRMATIONS`, with which both counters are compared (three by default).
Ages (`MAX_RUNNER_AGE`, the startup grace, the sweep's cutoff) are a choice
where the code compares times; `Aging = FALSE` means that nothing is past them. A failed remote
call is one of the kinds the code tells apart: `limited` (rate limit), `cancelled` (context
done), `busy` (GitHub's 422), `unknown` (`ErrCreateOutcomeUnknown`), an ownership mismatch, and
`other`; a failed removal, deletion or create may have taken effect. Mutant operators
(`Name_How`) precede the definitions they are variants of and are used by no action.

Over- and under-approximations. The parts of the reaper run in a fixed order in the code and in
any order in the model, which adds behaviours and removes none. Whether a runner is online is
taken as current: GitHub's delay in showing a runner that just booted is covered in the code by the
startup grace, and here by the choice of age. A failed create may have started an instance, except where the adapter lists
before it reports the error: DigitalOcean's does so when the answer was ambiguous, but a cancelled or timed-out create
returns at once. `deferDemandCheck` hands a cancelled context to `provisionFailed`; a timeout of the HTTP client alone
looks the same and leads to the deferral, so `cancelled` may go either way.

Instances that disappear. With `Preemption` an instance may be gone at any time, as spot capacity is (`RUNNER_SPOT`); this is what
`reconcileProviderMissingRunner` exists for. It is on in `synchronous_provider`, `admission` and `liveness_pass`. A job whose
runner disappears ends at GitHub like any other. Nothing makes an instance disappear: there is no fairness for it.

The journal. The store has been opened once, so that there is a snapshot. A crash leaves of each
file what was safe or what was seen, and of an entry being appended nothing, a part (`torn`) or
all but the newline (`bare`); what survived a crash counts as safe, which is
right for a power failure, but after the mere end of the process a later power failure may still take it; the model
has no crash of the second kind within one of the first. A failing `Chmod` right after the journal was created (`store.go:1509`)
leaves the directory unsynced just as a failing directory sync does; both are `LinkSyncFails`. Torn writes are prefixes, as
`loadJournal` assumes. `journalSize` and its limit are folded into `CompactAt`. The update that
`recoverRecords` makes at the start is an ordinary `Update` after `Load`.

## 3. Runs

The first four passing runs and the first three violations check `Controller`, `journal` checks
`Journal`, the others check `Fleet`. "Crash" is a restart at any point.

| run | instance | what it shows |
|---|---|---|
| `synchronous_provider` | 1 job, 2 workers, budget 2, every remote failure, ageing, preemption, 1 crash, no confirmed absence | `TypeOK`; claims are exclusive (`ClaimsExclusive`) and always given back (`NoAbandonedClaim`); retries and restarts never give a job two instances (`OneInstancePerJob`) and a deleted record leaves none (`DeletedLeavesNothing`); `UnprovisionedHoldsNoInstance`; the reaper's stale copies are harmless (`ReaperKeepsToUntracked`) |
| `confirming_provider` | 2 jobs that can swap runners, 1 worker, 1 crash, confirmed absence, ceiling 1 | no worker and no pass deletes an instance under a busy runner (`BusyRunnerSpared`); demand goes back to the queue only after a complete cleanup (`RestoredCleanly`); an accepted deletion is not requested again (`NoSecondDelete`); the provider runs no more than the ceiling (`FleetWithinCeiling`); a provisioned record names the runner its instance was started with, also when the instance is adopted after a restart (`ProvisionedMatches`); the index finds every record that owns a runner, also after a restart with two records (`IndexComplete`) |
| `admission` | 2 jobs, 2 workers, ceiling 1, ageing, preemption | two workers compete for one slot, and the live count never passes the ceiling (`CeilingHolds`) |
| `unreliable_world` | 1 job, 1 worker, 1 failed journal write, lagging listings, creates of unknown outcome, every remote failure, ageing, 1 crash | nothing runs without a durable identity (`IdentityDurable`); the index is complete, also after a failed write (`IndexComplete`); every busy runner is owned (`RunningRunnerOwned`) |
| `liveness_pass` | 1 job, 1 worker, budget 2, failing calls, confirmed absence, preemption, no ageing, 1 crash | a runner is requeued only when its instance is gone or going (`RequeuedOnlyGone`); an orphan keeps its slot until then (`OrphanKeepsReservation`); no registration is forgotten while it exists (`RegistrationRemembered`); the check never ends the instance of a busy runner (`CheckSparesBusy`); a replacement inherits no observation (`NoOldObservations`) |
| `eventual_cleanup` | 1 job, 1 worker, budget 2, ageing, 1 crash, no confirmed absence, fair, completions possibly never delivered | `FleetTypeOK`, here with the sweep; every instance is shut down once the jobs are over (`InstancesReclaimed`); accepted demand is answered (`DemandAnswered`); every record of a finished job comes to an end (`RecordsSettle`) |
| `journal` | 2 keys, 3 contents (one for "no record"), compaction at 2 entries, up to 3 entries, failing file operations and crashes without limit | the files hold the records before or after the call in progress (`Recoverable`); the store can be reopened (`Reopens`); a call takes effect for good or not at all (`Refines`) |

The violation runs are findings:

- `leaked_claim` (`NoAbandonedClaim`). The provider has accepted a deletion; before the
  worker defers its confirmation, the job's own cancellation arrives (runner id 0) and
  `reconcileEventCompletion` sets the record to *completed*. `DeferDeletionConfirmation` then
  does nothing and reports success, and the claim has no worker: `ClaimNext` and `ListExpired`
  skip the record, which holds its admission slot until the controller restarts.
- `uncounted_instance` (`FleetWithinCeiling`). A create of unknown outcome orphans a record
  without an instance id. If the instance did start, admission does not count it and a
  second one is started, although the comment on `MarkOrphaned` says that an orphan's live
  instance consumes admission.
- `dropped_demand` (`ReassignedDemandKept`). A runner took another job and is deleted at its
  maximum age. The completion that reveals the swap is stored after the delete claim;
  `recheckCleanedRunnerDemand` looks at the copy taken at claim time, so the original, still
  queued job is not restored.
- `swept_orphan` (`SweptOrphansStopped`). The list of known instances is taken, then a worker
  orphans a record. The sweep spares its instance, which is in the list; `ReleaseSweptOrphans`
  looks at the records after the sweep and gives up the slot of the running instance.
- `stale_copy` (`RequeuedOnlyGone`). The liveness pass finds the job of a copy gone, removes the
  registration and deletes the instance of the copy. Meanwhile the record was completed, cleaned up, restored
  and provisioned anew; `RequeueMissingRunner` asks only whether it is provisioned and makes it
  forget a running instance and its registration. `ScheduleDeletion` of an aged copy has the same gap (TLC
  shows it on this instance with `Aging = TRUE`): it drops the demand restored in between.

Assumptions the passing runs make on purpose, each found with TLC:

- `CeilingHolds` is checked without crashes and without failing creates: in
  both cases a completion may bring an uncounted orphan back into the count. With confirmed
  absence, a crash between acceptance and confirmation has the same effect. So the run is about the competition for a slot only.
  The revived orphan and the retry on a full fleet lie outside it; `OnlyRevivalsExceed`, `CeilingIsKept` and
  `CeilingIsNotExceeded` (section 5) are about them. `FleetWithinCeiling` is checked without creates of unknown outcome,
  which `uncounted_instance` is about.
- `BusyRunnerSpared` is checked without failing creates, failing journal writes and lagging listings: when the retry budget is spent, `provisionFailed`
  deletes by job tag before it tries to deregister, so an instance started by a create
  that reported an error can be deleted under a job. It is also checked below
  `MAX_RUNNER_AGE`, beyond which the code deletes runners whether busy or not. The theorem `BusyRunnersAreSpared`
  (section 5) needs less: lost outcomes of creates are excluded, other failures and lagging listings are not.
- `CheckSparesBusy` leaves out `reconcileDuplicateRunners`, which cleans up by job tag before it requeues.
- `ProvisionedMatches` says nothing of an instance whose registration is dead: with lagging listings
  `FindRunner` may miss an instance that the listing inside `CreateRunner` then returns, after its registration
  was replaced. Such a runner takes no job; only the registration timeout of the liveness pass finds it. The run has no
  lag; `ProvisionedRecordsMatch` covers it.
- `IndexComplete` is checked where no stale copy clears the identity of a record under provisioning: with one job in
  `unreliable_world`, below `MAX_RUNNER_AGE` in `confirming_provider`. The gap of section 2 needs two jobs, ageing and failing
  calls, some 40 steps, which is beyond what a run can reach; the theorems are about it.
- `NoAbandonedClaim` needs successful journal writes: the failure of the write that ends the
  work is only logged. It is checked with one job. With two, ageing and failing calls TLC finds it violated after 45
  steps, by the stale copy of the next but one item: `DeferReconciliation` orphans, without looking at the claim, the record that a
  worker is provisioning again; `MarkProvisioned` leaves an orphan as it is, claim included; and the completion
  of the new runner makes the record *completed*, with a claim nobody will give back.
- `RequeuedOnlyGone`, `OrphanKeepsReservation` and `RegistrationRemembered` are checked with one job and no
  ageing: the stale copy of the findings needs another job's completion, or age.
- `IdentityDurable` is checked with one job. With two, ageing and failing calls TLC finds it violated after 40 steps: the reaper
  lists an aged record whose demand check had once been deferred; its runner had executed the other job, so the record is
  deleted, restored and registers a new runner; the reaper, done with removing the old registration of its copy,
  makes the record forget the new one (`removeIdleJIT`), and an instance starts with a runner no record holds.
- `InstancesReclaimed` needs ageing: without the sweep nobody looks for the running instance of an orphaned record.
- `Refines` and `Reopens` need the undoing of a failed append to succeed (`RollbackFails = FALSE`), and `Refines`
  also the directory sync after creating the journal (`LinkSyncFails = FALSE`). Otherwise an
  entry whose call has reported an error may come back, or a next entry be appended to a fragment.
- `DeferProvisioningDemand` sets `DeferDeletion` on a record that returns to *pending*; the flag
  stays on the provisioned record and is cleared by the completion.

### Bounds, and why they are enough

The properties are about one record under concurrent writers, about two records that compete
for one slot, or about two runners that swap jobs. One job with two workers, and two jobs
with a ceiling of one, are the smallest instances in which each conflict occurs; a third job or
worker adds interleavings of the same conflicts. `MaxRunners` and `MaxInstances` leave room
for at least one repeated attempt per behaviour (a stale registration replaced, a retried create), and
`MaxAttempts = 2` for one retry and then the exhausted budget. `MaxCrashes = 1` covers a restart in
every state; recovery clears all claims, so a second restart starts from a state of the same
kind. `MaxFaults = 1` covers a failed write at every store call. In the fair run no remote call
fails, because nothing bounds how often a remote system may fail, and a worker that needs an instance or a
registration beyond the bounds counts as answered (`AtBound`). Nor does an instance disappear by itself in that run: its
properties hold with `Preemption` as well, which takes TLC half as long again. Two keys let a journal entry hold one record, the other, or
both; three entries with compaction at two let an entry follow a compaction that failed. Crashes
and file errors of the journal are not bounded. Every property of a passing run has
a mutant of the code that violates it within the same bounds, so the bounds are large enough for the
defect to show. Deadlock is checked for the journal. It is not checked elsewhere: once GitHub's and the
provider's counters are exhausted and all jobs are done, the system really rests.

## 4. Fairness

`Spec` and `FleetSpec` have none; the safety properties need none. `FleetFair` adds:

- weak fairness of every worker and of the reaper's steps within a pass: each is a goroutine with a loop
  that goes on as long as there is work (`Handler.worker` and `Handler.reaper`);
- weak fairness of `RetryTimePasses`, `Appear` and `Disappear`: clocks advance, listings catch up, an accepted deletion takes
  effect. `Preempted` has none;
- strong fairness of listing a given record or instance (`ReaperLists`, `ReaperChecks`, `ReaperSweeps`): the reaper's ticker starts
  its passes again and again, each lists every record that qualifies, and a record that is skipped as too young or
  was checked recently does not stay so. Workers may claim the record between two passes, so weak
  fairness would not do;
- `FiniteRedelivery`: completions do not arrive for ever. They need not arrive at all.

Nothing is assumed of webhooks, of GitHub giving jobs to runners, or of runners coming online.

## 5. Proofs

| module | theorem | property | for every |
|---|---|---|---|
| `ControllerProofs` | `TypeCorrect` | `TypeOK` | set of jobs and workers, ceiling, retry budget, kind of provider, number of faults and restarts |
| `ControllerProofs` | `ClaimsAreExclusive` | `ClaimsExclusive` | same |
| `ControllerProofs` | `ReaperIsSafeOnStaleCopies` | `ReaperKeepsToUntracked` | same |
| `ControllerProofs` | `DemandHoldsNoInstance` | `UnprovisionedHoldsNoInstance` | same |
| `IndexProofs` | `IndexCatchesUp` | a record the index does not lead to has a worker about to enter it (`IndexCaughtUp`) | same |
| `CleanupProofs` | `DeletionIsNotRepeated` | `NoSecondDelete` | same |
| `CleanupProofs` | `NoJobRunsTwice` | `OneInstancePerJob` | same, while listings do not lag |
| `CleanupProofs` | `DeletionLeavesNothing` | `DeletedLeavesNothing` | same, while listings do not lag |
| `OwnershipProofs` | `RunnersAreOwned` | `RunningRunnerOwned` | same as `ControllerProofs`, below `MAX_RUNNER_AGE` |
| `OwnershipProofs` | `IndexIsComplete` | `IndexComplete` | same as the last |
| `OwnershipProofs` | `ProvisionedRecordsMatch` | `ProvisionedMatches` | same as the last |
| `OwnershipProofs` | `IdentitiesAreDurable` | `IdentityDurable` | same as the last |
| `OwnershipProofs` | `DemandIsRestoredCleanly` | `RestoredCleanly` | same as the last, while listings do not lag |
| `OwnershipProofs` | `NoClaimIsAbandoned` | `NoAbandonedClaim` | below `MAX_RUNNER_AGE`, on a provider that does not confirm absence, up to the first failed journal write |
| `AdmissionProofs` | `OnlyRevivalsExceed` | only the revival of an uncounted orphan takes the live count above the ceiling | same as `ControllerProofs` |
| `AdmissionProofs` | `CeilingIsKept` | `CeilingHolds` | same, as long as no such orphan is revived |
| `AdmissionProofs` | `CeilingIsNotExceeded` | `CeilingHolds` | same, below `MAX_RUNNER_AGE`, as long as no instance is lost |
| `AdmissionProofs` | `FleetIsBounded` | `FleetWithinCeiling` | same as the last, while listings do not lag |
| `BusyProofs` | `BusyRunnersAreSpared` | `BusyRunnerSpared` | same as `CeilingIsNotExceeded` |
| `FleetProofs` | `FleetTypeCorrect` | `FleetTypeOK` | set of jobs and workers, ceiling, retry budget, kind of provider, number of faults and restarts |
| `FleetProofs` | `OrphansKeepTheirReservation` | `OrphanKeepsReservation` | same, below the ages at which the controller acts |
| `FleetProofs` | `ClaimsHoldInFleet` | `ClaimsExclusive` | same, on a provider that does not confirm absence |
| `FleetProofs` | `DemandHoldsNoInstanceInFleet` | `UnprovisionedHoldsNoInstance` | same as the last |
| `FleetProofs` | `ReaperIsSafeInFleet` | `ReaperKeepsToUntracked` | same as the last |
| `FleetProofs` | `ReplacementsStartAfresh` | `NoOldObservations` | same as the last |
| `JournalProofs` | `AlwaysRecoverable` | `Recoverable` | set of keys, contents, compaction limit; any number of failed file operations and crashes |
| `JournalProofs` | `AlwaysReopens` | `Reopens` | same |
| `JournalProofs` | `JournalIsDurable` | `Refines` | same |

**Claims and records.** None of the four properties of `ControllerProofs` is inductive. A worker's
`MarkProvisionFailed` may set a record to *pending* without looking at its instance id, which is right only
because the worker holds the provisioning claim; the reaper's `MarkDeleted` clears any claim, which is right
only because the listed record stayed unclaimed; and that in turn needs workers to write nothing but records
they have claimed. The proofs therefore go through one inductive invariant `IInv`: the types; `RecordsSound`
(a record that is absent has no claim, demand has no instance, a provisioned record has one); `HoldsInstance` (a
worker about to store an instance has one); `ReaperHasJob`; `ClaimsExclusive`; and `ReaperKeepsToUntracked`. TLC
checked `IInv` on the instances of `synchronous_provider` and `unreliable_world` before it was proved.

A worker between the halves of `MarkProvisioned` has given its claim up: like an idle worker it owns no record
(`Resting`), and `Working` leaves it out.

The argument has three layers. The first lemmas show for each mutator that it keeps a record sound and,
for the mutators that webhooks, the clock and the reaper use, that it *respects* the record: claim unchanged, and an
untracked record stays untracked. `RespectfulStep`, `WorkerGoesOn` and `WorkerFinishes` lift this to the state:
a step outside the workers need only respect every record, a step of a worker need only touch its own. Then every
action is an instance of one of the three; claiming, pruning and restarting, which change
claims by design, are proved directly.

**Admission.** The ceiling is compared only when a record is claimed; that no later transition adds to the count is a fact
about all the other mutators. Each of them *lightens* the record it is applied to (`Lightens`: it does not make a record count
that did not), whoever calls it and however stale the copy was that led to the call. There are two exceptions. A claim for
provisioning adds its own record, after the comparison (`ClaimAdds`). And a completion turns an orphan without an instance
id, which does not count, into a completed record, which does, if it holds the registration of the runner that finished
(`Revival`). `OnlyRevivalsExceed` says without any hypothesis that this is the only way past the ceiling, and TLC shows the
way (the violations of `CeilingHolds` noted in section 3 all end in this step). The count
is the cardinality of a set that need not be a subset of a finite one, so `CountInv` says first that it is finite.

What an orphan without an instance id stands for decides about the rest. It is harmless if nothing was ever started for
it, and an instance outside the count otherwise. `InstanceLost` names the three ways to get there: the create reports an error
although its instance has started (the finding `uncounted_instance`), the write of `MarkProvisioned` fails, or the process dies
between the two. All other failed calls, failed writes and restarts are allowed. Then a registration with which an instance
was started is only ever held by a record that is `Traced`: it names an instance, or a worker is about to store it
(`StartedTraced`). A runner that executed a job ran on an instance (`JobsRanHere`), so the record its completion finds
is no orphan without an instance id, and nothing is revived. Every live instance is that of a traced record as well
(`AliveTraced`), a traced record counts, and by `NoTwins` no two instances share one: the map from live instances to their
records is an injection into those admission counts, which is `FleetWithinCeiling`. What makes it inductive is that a record
loses its instance id in two places only (`LostWith`), the end of a deletion, where `WorkersFree` says that nothing of the job is
left, and the removal of a record that is deleted already; both forget the registration with it. The proof stands on all
the invariants described below. Before it was attempted, TLC checked these invariants with one job and two
workers, on either kind of provider, to the end, and with two jobs, failed writes and restarts for as many states as a run
can reach, without finding a violation.

**Busy runners.** `BusyRunnerSpared` is about what the controller does: spot capacity may well disappear under a busy runner
(`Preemption`). No path that deletes an instance asks whether its runner executes a job. Each relies on the record: what sent it
to deletion is taken as proof that the runner is gone. `BInv` says that it is. A record that is being deleted, or may be claimed for it,
has only instances whose registrations GitHub has dropped (`CondemnedFinished`); a completion may condemn a record
under a provisioning worker, but then its instance is there and the worker will start no other (`ProvidedTraced`, and `MarkersRan` for
completions that came before the registration was stored); a worker deletes by id an instance of its own job (`Aimed`);
the reaper schedules only copies without a runner that could be busy (`ReaperAims`); and a finished job's runner is no longer
registered (`JobsEnd`). It stands on the invariants described above and below: by `TracedInv` whatever a worker whose retry budget
is spent finds under its job's tag has a runner that is gone, and by `OInv` a busy runner is a registered one. Most mutators
*spare* a record (`Spares`: condemn it only if it was); for the rest there is one lemma per reason. A condemned job stays so because only a
provisioning claim could start another instance, and GitHub never registers an id again (`IdsStay`). The hypotheses are those of
`CeilingIsNotExceeded`, and each is needed: an instance whose create was lost is deleted by `provisionFailed` whatever it executes, and beyond
`MAX_RUNNER_AGE` provisioned runners are deleted because of their age. TLC checked `BInv` with one job to the end, and with two jobs for
as many states as a run can reach, before it was proved.

**Index.** A completion names a runner, and the index leads from it to the record. Three steps write the index:
storing a registration, the second half of storing an instance, and a completion that no record matches, which clears an entry nobody
needs; a restart builds it anew from the records and would have to choose if several held the runner. All are right because no two records, and no
record and worker of another job, ever hold the same runner id (`RunnersExclusive`), which holds because GitHub
issues each id once (`RunnersIssued`) and no mutator moves an id from one record to another. `XInv` adds these,
`AbsentHoldsNothing` and `IndexCaughtUp` to `IInv`. Most steps are *quiet*: they leave the index alone and a record
keeps its runner or forgets it (`Fades`); those that are not are proved one by one. The first half of `MarkProvisioned` may
give a record back a runner that is not indexed, but leaves the worker at the second half with this runner (`HalfDone`); the
worker then enters it unless the record has got another one, or none, meanwhile. That the first half never finds such a
record below `MAX_RUNNER_AGE` is a matter of ownership: there a worker about to store an instance holds the
registration its record holds (`KeptPcs`), which `MarkJITCreated` had indexed. `IndexIsComplete` follows from both.

**Deletion.** `Handler.delete` decides on the copy it got at claim time whether the deletion of the instance was already
accepted, and asks the provider some steps later. `AInv` says that the decision still holds then (`AsksOnce`), and that
acceptances are stored only where the provider confirms absence. Most steps are *plain*: they keep or forget
an acceptance and lead no worker to the request. `ClaimNext` leads one there, and its copy is the record as it is; storing
an acceptance concerns the worker's own record only, which by `ClaimsExclusive` is nobody else's.

**Cleanup.** The provider has no idea that one job should have one instance; that a job never has two depends on
everybody who may start one having looked first. `CInv` adds to `IInv` how long such a look stays valid: while
listings do not lag no instance hides from one (`NoneHidden`); a job has no two instances (`NoTwins`); a worker
between a listing that found nothing and the create, or between a cleanup and the call that ends its work, has
nothing of its job running (`WorkersFree`); the same holds where the reaper, or a cleanup of provisioning, has
dealt with every instance (`ReaperFree`, `SparesGone`), and for a deleted record (`DeletedFree`). Only a worker that
claims the job for provisioning starts an instance for it, so by `ClaimsExclusive` nobody else's look is spoilt. With
lagging listings both properties are false: the code says so where it repairs duplicates (`reconcileDuplicateRunners`).

**Ownership.** A registration is in many hands: a record, the copies of a worker and of the reaper, an instance, GitHub.
A completion carries nothing but its id, so the record must name it as long as GitHub knows it. `OInv`
adds to `IInv` and `XInv` where a registration may be. The registration of an instance, while it lives, is in the record of the
instance's job (`Registrations`). A copy may be out of date in one way only: since it was taken, the record has at most
forgotten its registration (`Remembers`), so removing the copy's registration and then clearing the record's never clears
another one. Whoever is about to clear, retire or restore a record has seen the registration removed
(`RemovedPcs`, `ReapedPcs`); a worker between removal and the next registration finds none in the record (`BarePcs`); one
that is about to create has its new registration in the record as well (`ReadyPcs`). An instance keeps the tag it was started with
(`Carried`), and a runner that executes a job is registered and runs on an instance (`Runs`). What makes this inductive is that the
reaper's copies with an instance are of records whose own job is over (`HandledOver`), for which no new attempt begins.
Most mutators only *tend* a record (`Tends`: registration kept, not given up), which settles most steps at once. TLC
checked `OInv` on three instances before it was proved, and found what earlier versions lacked.

Two theorems follow from `OInv` by looking at steps rather than states. Every mutator but those of `ClaimNext` and
`FinishDeletedRunner` lets demand rest (`Rests`): it restores none, and a claim that matters after it was there before. So
`RestoredCleanly` is about `FinishDeletion` alone, where `CInv` says that no instance is left and `OInv` that no
registration is; and a claim can only lose its worker in the step that ends the work, whose write
releases it if it succeeds (`GivesBack`). There the hypothesis `~ConfirmsAbsence` is needed: where absence is confirmed that write may
be `DeferDeletionConfirmation`, which does not always release (the finding `leaked_claim`).

**The liveness pass.** Its steps write records from copies that may be stale, with mutators of its own. Each is
classified once, by what it can do to any record (`Edits`, `Writes`), and `PassFits` says which copies each of
the parts may hold; together with `FleetTypeOK` this is inductive (`TInv`). A reservation is given up on the word of
the provider about the instance of the copy. The record may be about another instance by then, but the answer stays
true, because an instance that is gone never comes back (`GoneForGood`); and below the age limit the sweep, which
does not ask, lists nothing. For claims the pass is harmless only where absence is not confirmed: of its mutators only
`ReleaseAbsentOrphan` takes a claim away without looking at it, and that call follows a confirmed absence. Where absence is
confirmed `ClaimsExclusive` is false for `Fleet`, and TLC shows how: the pass holds a copy of a provisioned
record; its job completes and a worker claims the deletion; a failing call makes the pass orphan the record
(`DeferReconciliation` does not look at the claim); the instance goes, the next pass confirms it and
`ReleaseAbsentOrphan` releases the record under the worker. The theorems therefore assume `~ConfirmsAbsence`: AWS, GCP and
Azure. There `IInv` is inductive for `Fleet` as it is for `Controller`. `NoOldObservations` needs
`ClaimsExclusive` as well, because the one mutator that could keep an observation on new demand,
`MarkProvisionFailed`, is called only under a provisioning claim, and a claimed record was cleaned when it became demand.

**Journal.** `Recoverable` is itself inductive. Beside the types it says that the remains of an entry are in the file
only while a failed append is being undone or after a crash (`TailSound`); that between calls memory and the files
agree, and that where a compaction discards something the new snapshot is already safe (`MemorySound`); and that any
snapshot with any journal a crash may leave gives the stored records or, with the whole new entry, those of the call
(`FilesSound`). The refinement follows: each step either keeps what can be recovered or is the one by which the
call takes effect.

**Assumptions.** The named ones on the constants (`JobsAssumption`, `BoundsAssumption`, `CeilingAssumption`,
`FaultsAssumption`, `ErrorsAssumption`, `ProviderAssumption`, `AgingAssumption`, `ControllerAssumption`,
`JournalAssumption`), evaluated by TLC in the runs, and in `JournalProofs` `NoSecondFault`: neither the undoing of a failed
append nor the directory sync after creating the journal fails. Without the first TLC finds `Reopens` and
`Refines` violated, without the second `Refines`.

Three more assumptions name the world a theorem is about, each because TLC finds its property violated otherwise:
`~ListingLag` (in `NoJobRunsTwice` and `DeletionLeavesNothing`: a listing by tag shows every instance: `FindRunner` and the
listing inside `CreateRunner` are all the code has against a second instance), `~ConfirmsAbsence` (AWS, GCP and Azure, whose adapters
offer no `ConfirmAbsent`), and `~Aging` (nothing has reached `MAX_RUNNER_AGE` or the sweep's
cutoff). Beyond `MAX_RUNNER_AGE` the reaper lists provisioned records whatever their job does; its copy may then be of an attempt
that has been replaced, and with it the reaper clears the registration or orphans the record of the next one (section
3, `IdentityDurable` and `NoAbandonedClaim`). `NoClaimIsAbandoned` also has `faults = 0` before its conclusion. The
assumptions are hypotheses of the theorems that need them, not of the modules. `CeilingIsKept` has a temporal one,
`[][~Revival]_vars`: it holds of every behaviour in which no orphan without an instance id gets its completion.
`CeilingIsNotExceeded`, `FleetIsBounded` and `BusyRunnersAreSpared` replace it by one about the causes, `[][~InstanceLost]_vars`, because TLC
finds `FleetWithinCeiling` violated by a create of unknown outcome (`uncounted_instance`). `FleetIsBounded` assumes `~ListingLag` because
`NoTwins` does.

Only model-checked: the other properties. `RequeuedOnlyGone`, `RegistrationRemembered` and `CheckSparesBusy` hold for one
job only, as the finding `stale_copy` shows. Out of the prover's reach, and left to TLC: liveness under fairness, `ENABLED`,
and induction over data. `Replay` therefore says directly which entry decides (the last one that has the key),
and TLC compares it with the entry-by-entry fold of `loadJournal` (`ReplayIsLoadJournal` in `MCJournal`).

## 6. What is left

1. *Abstract specification* of what the controller promises per job (waiting, served, finished), refined by
   `Fleet`.
2. *Adapters*: Azure's NIC lifecycle; the instance names GCP and Azure derive from the job key, by which a stale copy
   names its successor's instance.
3. *Proofs*: `OInv` and `BInv` for `Fleet` below the age limits.

## 7. Not modelled

Webhook signatures, label and repository checks, the trust decision on public workflows and the ingest
semaphore decide whether a delivery reaches the store, and change nothing. A record of another provider than
the configured one exists only after reconfiguration. Graceful shutdown is the special case of a restart before which
workers see `cancelled`. The GitHub client's token cache is guarded by one mutex and only decides whether a call
fails. Of the AWS, GCP and Azure adapters the model has what they share: Azure's NICs, the names derived from job
keys and the idempotency tokens are left out, as are migrations of files written by older versions. Cloud-init,
networks, firewalls, paging and names of instances are data. The installation router is stateless. Completion
markers of runners this controller never issued meet no registration and are left out, as is the error text
stored in a record.
