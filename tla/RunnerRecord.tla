---------------------------- MODULE RunnerRecord ----------------------------
(* The durable record of one workflow job and its runner, and what each      *)
(* mutator of the file store does to it (internal/state/store.go).  Every    *)
(* mutator runs under the store's mutex and is journalled before it returns, *)
(* so each is a function from the stored record to the one that replaces it; *)
(* a mutator whose guard fails returns its argument, as the code does when   *)
(* it returns nil without touching the record.                               *)
(*                                                                           *)
(* Abstractions.  Timestamps: due says that NextAttemptAt is zero or past,   *)
(* and the ages compared with a cutoff are chosen by the reaper's steps.     *)
(* Ownership: GitHubRunnerOwned is set and cleared together with             *)
(* GitHubRunnerID, so runner # NoRunner stands for both.  Registration:      *)
(* seen says that RegisteredAt is set.  Debounce: missed and lost say that   *)
(* MissingChecks and GitHubMissingChecks are not zero; the settle window is  *)
(* positive, so a first observation never confirms and a later one may.      *)
(* ThrottleFailures and ReconcileFailures are only ever compared with the    *)
(* retry budget, so they saturate there.  LastError guards nothing modelled. *)
EXTENDS Naturals

CONSTANTS
  Jobs,          \* workflow jobs; the sort order of their keys is <
  MaxRunners,    \* bound: JIT registrations GitHub issues in a behaviour
  MaxInstances,  \* bound: instances the provider creates in a behaviour
  MaxAttempts    \* maxAttempts: retry budget of every kind of work

ASSUME JobsAssumption == Jobs \subseteq Nat \ {0}
ASSUME BoundsAssumption ==
  /\ MaxRunners \in Nat
  /\ MaxInstances \in Nat
  /\ MaxAttempts \in Nat \ {0}

NoJob == 0
NoRunner == 0
NoInstance == 0
NoClaim == "none"

Runners == 1 .. MaxRunners
Instances == 1 .. MaxInstances

\* "absent" is not a status of the code: the map holds no record for the key.
Statuses == {"absent", "pending", "provisioning", "provisioned", "completed",
             "deleting", "deleted", "failed", "orphaned"}
WorkKinds == {"provision", "delete"}

Budget == 0 .. MaxAttempts

Record == [status : Statuses,
           claim : WorkKinds \cup {NoClaim},
           runner : Runners \cup {NoRunner},
           instance : Instances \cup {NoInstance},
           jobCompleted : BOOLEAN,
           recheck : BOOLEAN,
           accepted : Instances \cup {NoInstance},
           defer : BOOLEAN,
           attempts : Budget,
           deletes : Budget,
           throttles : Budget,
           failures : Budget,
           due : BOOLEAN,
           seen : BOOLEAN,
           missed : BOOLEAN,
           lost : BOOLEAN]

Absent == [status |-> "absent", claim |-> NoClaim, runner |-> NoRunner,
           instance |-> NoInstance, jobCompleted |-> FALSE, recheck |-> FALSE,
           accepted |-> NoInstance, defer |-> FALSE, attempts |-> 0,
           deletes |-> 0, throttles |-> 0, failures |-> 0, due |-> TRUE,
           seen |-> FALSE, missed |-> FALSE, lost |-> FALSE]

\* No instance is recorded, none is being made or removed, none is asked for.
Untracked(r) ==
  /\ r.status \in {"failed", "completed", "deleted", "orphaned"}
  /\ r.claim = NoClaim /\ r.instance = NoInstance

Settled(r) == r.status \in {"deleted", "orphaned"}

Less(n) == IF n > 0 THEN n - 1 ELSE 0
More(n) == IF n < MaxAttempts THEN n + 1 ELSE MaxAttempts

-----------------------------------------------------------------------------
(* Claiming and giving back work.                                            *)

NewDemand == [Absent EXCEPT !.status = "pending"]

\* A slot this record already holds: replacing it consumes no further slot.
HoldsSlot(r) == r.instance # NoInstance \/ r.runner # NoRunner

\* What one record contributes to liveRunnerCountLocked.
CountsAsLive(r) ==
  /\ r.status \notin {"absent", "deleted"}
  /\ ~(r.status = "orphaned" /\ r.instance = NoInstance)
  /\ HoldsSlot(r) \/ r.claim = "provision" \/ r.status = "provisioning"

\* The terminal backstop ClaimNext applies to exhausted records it scans.
Backstop(r) ==
  IF ~r.due THEN r
  ELSE IF r.status = "pending" /\ r.attempts >= MaxAttempts
  THEN [r EXCEPT !.status = "failed"]
  ELSE IF /\ r.status = "completed" /\ ~r.defer
          /\ r.instance # NoInstance /\ r.deletes >= MaxAttempts
  THEN [r EXCEPT !.status = "orphaned"]
  ELSE r

WantsProvision(r) ==
  r.due /\ r.claim = NoClaim /\ r.status = "pending" /\ r.attempts < MaxAttempts

\* Mutant: the retry budget of deletions is not looked at.
WantsDelete_Unbounded(r) ==
  r.due /\ r.claim = NoClaim /\ r.status = "completed" /\ ~r.defer /\ r.instance # NoInstance

WantsDelete(r) ==
  /\ r.due /\ r.claim = NoClaim /\ r.status = "completed" /\ ~r.defer
  /\ r.instance # NoInstance /\ r.deletes < MaxAttempts

ClaimProvision(r) ==
  [r EXCEPT !.status = "provisioning", !.attempts = @ + 1, !.claim = "provision"]

ClaimDelete(r) ==
  [r EXCEPT !.status = "deleting", !.deletes = @ + 1, !.claim = "delete"]

\* Mutant: a released deletion goes back to the wrong queue.
Refund_WrongQueue(r, kind) ==
  IF kind = "provision"
  THEN [r EXCEPT !.attempts = Less(@),
                 !.status = IF @ = "provisioning" THEN "pending" ELSE @]
  ELSE [r EXCEPT !.deletes = Less(@),
                 !.status = IF @ = "deleting" THEN "pending" ELSE @]

\* releaseProvisionClaim and releaseDeleteClaim.
Refund(r, kind) ==
  IF kind = "provision"
  THEN [r EXCEPT !.attempts = Less(@),
                 !.status = IF @ = "provisioning" THEN "pending" ELSE @]
  ELSE [r EXCEPT !.deletes = Less(@),
                 !.status = IF @ = "deleting" THEN "completed" ELSE @]

ReleaseClaim(r, kind) ==
  IF Settled(r) \/ r.claim # kind THEN r
  ELSE Refund([r EXCEPT !.claim = NoClaim, !.due = TRUE], kind)

DeferRateLimitedWork(r, kind) ==
  LET freed == Refund([r EXCEPT !.claim = NoClaim], kind)
  IN IF Settled(r) \/ r.claim # kind THEN r
     ELSE IF kind = "provision" /\ r.status = "completed"
     THEN [freed EXCEPT !.due = TRUE]
     ELSE IF r.throttles + 1 >= MaxAttempts
     THEN [freed EXCEPT !.throttles = MaxAttempts, !.status = "orphaned",
        !.due = TRUE]
     ELSE [freed EXCEPT !.throttles = @ + 1, !.due = FALSE]

DeferProvisioningDemand(r) ==
  LET freed == Refund([r EXCEPT !.claim = NoClaim], "provision")
  IN IF Settled(r) \/ r.claim # "provision" THEN r
     ELSE IF r.status = "completed" THEN freed
     ELSE [freed EXCEPT !.due = FALSE, !.defer = TRUE]

-----------------------------------------------------------------------------
(* Provisioning.                                                             *)

\* marker: the job of a completion that arrived before the identity, or NoJob.
MarkJITCreated(r, job, id, marker) ==
  LET same == marker = job
  IN IF Settled(r) THEN r
     ELSE IF marker = NoJob THEN [r EXCEPT !.runner = id]
     ELSE [r EXCEPT !.runner = id, !.status = "completed",
                    !.jobCompleted = @ \/ same,
                    !.recheck = ~same /\ ~r.jobCompleted,
                    !.defer = FALSE, !.due = TRUE]

ClearJIT(r) == IF r.status = "deleted" THEN r ELSE [r EXCEPT !.runner = NoRunner]

MarkProvisioned(r, i, id) ==
  IF Settled(r) THEN r
  ELSE [r EXCEPT !.instance = i,
                 !.accepted = IF @ = i THEN @ ELSE NoInstance,
                 !.runner = id, !.throttles = 0, !.claim = NoClaim, !.missed = FALSE,
                 !.status = IF @ = "completed" THEN @ ELSE "provisioned"]

MarkProvisionFailed(r) ==
  IF Settled(r) THEN r
  ELSE LET freed == [r EXCEPT !.throttles = 0, !.claim = NoClaim]
       IN IF r.status = "completed" THEN freed
          ELSE IF r.attempts >= MaxAttempts THEN [freed EXCEPT !.status = "failed"]
          ELSE [freed EXCEPT !.status = "pending", !.due = FALSE]

MarkCompleted(r) ==
  IF Settled(r) THEN r ELSE [r EXCEPT !.status = "completed", !.due = TRUE]

-----------------------------------------------------------------------------
(* Completion events.                                                        *)

\* Mutant: a completion takes the record from the worker that holds it.
MatchedCompletion_DropsClaim(r, own) ==
  [r EXCEPT !.jobCompleted = @ \/ own, !.recheck = ~own /\ ~r.jobCompleted,
            !.defer = FALSE, !.claim = NoClaim, !.status = "completed", !.due = TRUE]

\* The runner that finished is the one this record owns; own says that the
\* finished job is the record's own.
MatchedCompletion(r, own) ==
  LET told == [r EXCEPT !.jobCompleted = @ \/ own,
                        !.recheck = ~own /\ ~r.jobCompleted, !.defer = FALSE]
  IN IF r.claim = "delete" THEN told
     ELSE [told EXCEPT !.status = "completed", !.due = TRUE]

\* Mutant: the job key of the event selects the record to delete.
EventCompletion_ByJobKey(r, id) ==
  IF Settled(r) \/ r.claim = "delete" THEN r
  ELSE [r EXCEPT !.status = "completed", !.jobCompleted = TRUE, !.recheck = FALSE,
                 !.defer = FALSE, !.due = TRUE]

\* The event's own job, when its runner is not this record's.
EventCompletion(r, id) ==
  LET told == [r EXCEPT !.jobCompleted = TRUE, !.recheck = FALSE]
  IN IF r.status = "absent"
     THEN [Absent EXCEPT !.status = "completed", !.jobCompleted = TRUE,
                         !.defer = TRUE, !.due = FALSE]
     ELSE IF id # NoRunner \/ Settled(r) THEN told
     ELSE [told EXCEPT !.status = "completed", !.defer = TRUE, !.due = FALSE]

-----------------------------------------------------------------------------
(* Deletion.                                                                 *)

\* Mutant: the wait for a confirmation is not ended.
ScheduleDeletion_KeepsDefer(r) ==
  IF Settled(r) \/ r.claim # NoClaim THEN r ELSE [r EXCEPT !.status = "completed", !.due = TRUE]

ScheduleDeletion(r) ==
  IF Settled(r) \/ r.claim # NoClaim THEN r
  ELSE [r EXCEPT !.status = "completed", !.defer = FALSE, !.due = TRUE]

CanAcceptDeletion(r, i) ==
  /\ i # NoInstance /\ r.instance = i
  /\ r.status = "deleting" /\ r.claim = "delete"

MarkDeletionAccepted(r, i) == [r EXCEPT !.accepted = i]

DeferDeletionConfirmation(r) ==
  IF /\ r.status = "deleting" /\ r.claim = "delete"
     /\ r.accepted # NoInstance /\ r.accepted = r.instance
  THEN [Refund(r, "delete") EXCEPT !.claim = NoClaim, !.due = FALSE]
  ELSE r

MarkDeleted(r) ==
  [r EXCEPT !.status = "deleted", !.claim = NoClaim, !.defer = FALSE, !.due = TRUE]

RestoresDemand(r, queued) == queued /\ r.recheck /\ ~r.jobCompleted

FinishDeletedRunner(r, queued) ==
  IF Settled(r) THEN r
  ELSE IF RestoresDemand(r, queued)
  THEN [r EXCEPT !.status = "pending", !.claim = NoClaim, !.defer = FALSE,
                 !.due = TRUE, !.recheck = FALSE, !.instance = NoInstance,
                 !.accepted = NoInstance, !.runner = NoRunner, !.attempts = 0,
                 !.deletes = 0, !.failures = 0, !.throttles = 0,
                 !.seen = FALSE, !.missed = FALSE, !.lost = FALSE]
  ELSE [MarkDeleted(r) EXCEPT !.recheck = FALSE]

DeferReassignmentDemand(r) ==
  IF r.claim # "delete" THEN r
  ELSE [Refund(r, "delete") EXCEPT !.claim = NoClaim, !.due = FALSE]

MarkDeleteFailed(r) ==
  IF Settled(r) THEN r
  ELSE LET freed == [r EXCEPT !.throttles = 0, !.claim = NoClaim]
       IN IF r.deletes >= MaxAttempts THEN [freed EXCEPT !.status = "orphaned"]
          ELSE [freed EXCEPT !.status = "completed", !.due = FALSE]

MarkOrphaned(r) ==
  IF r.status = "deleted" THEN r
  ELSE [r EXCEPT !.status = "orphaned", !.claim = NoClaim, !.due = TRUE]

-----------------------------------------------------------------------------
(* Cleanup by the reaper.                                                    *)

CleanupReady(r) == ~Settled(r) /\ r.claim = NoClaim /\ r.due

BeginCleanupAttempt(r) ==
  IF ~CleanupReady(r) THEN r
  ELSE IF r.deletes >= MaxAttempts
  THEN [r EXCEPT !.status = "orphaned", !.due = TRUE]
  ELSE [r EXCEPT !.deletes = @ + 1]

DeferRateLimitedCleanup(r, countThrottle) ==
  LET refunded == [r EXCEPT !.deletes = Less(@), !.due = FALSE,
                            !.throttles = IF countThrottle THEN More(@) ELSE 0]
  IN IF Settled(r) THEN r
     ELSE IF countThrottle /\ r.throttles + 1 >= MaxAttempts
     THEN [refunded EXCEPT !.status = "orphaned", !.due = TRUE]
     ELSE refunded

DeferReconciliation(r, countFailure, countThrottle) ==
  LET failed == IF countFailure THEN [r EXCEPT !.failures = More(@)] ELSE r
      counted == [failed EXCEPT !.throttles = IF countThrottle THEN More(@) ELSE 0]
  IN IF Settled(r) THEN r
     ELSE IF countFailure /\ r.failures + 1 >= MaxAttempts
     THEN [failed EXCEPT !.status = "orphaned", !.due = TRUE]
     ELSE IF countThrottle /\ r.throttles + 1 >= MaxAttempts
     THEN [counted EXCEPT !.status = "orphaned", !.due = TRUE]
     ELSE [counted EXCEPT !.due = FALSE]

-----------------------------------------------------------------------------
(* Liveness.                                                                 *)

ObserveRunnerMissing(r) ==
  IF r.status # "provisioned" THEN r ELSE [r EXCEPT !.missed = TRUE]
ObserveGitHubRunnerMissing(r) ==
  IF r.status # "provisioned" THEN r ELSE [r EXCEPT !.lost = TRUE]

ClearProviderMissing(r) == [r EXCEPT !.missed = FALSE]
ClearGitHubMissing(r) == [r EXCEPT !.lost = FALSE]

RecordRunnerSeen(r) ==
  IF r.status # "provisioned" THEN r
  ELSE [r EXCEPT !.seen = TRUE, !.missed = FALSE, !.lost = FALSE]

ClearRunnerMissing(r) ==
  IF r.status # "provisioned" THEN r
  ELSE [r EXCEPT !.missed = FALSE, !.lost = FALSE, !.deletes = 0, !.failures = 0,
                 !.throttles = 0, !.due = TRUE]

\* Mutant: the observations of the old instance are kept for the new one.
RequeueMissingRunner_KeepsObservations(r) ==
  IF r.status # "provisioned" THEN r
  ELSE [r EXCEPT !.instance = NoInstance, !.accepted = NoInstance, !.runner = NoRunner,
                 !.seen = FALSE,
                 !.status = IF r.attempts >= MaxAttempts THEN "failed" ELSE "pending",
                 !.due = IF r.attempts >= MaxAttempts THEN @ ELSE TRUE]

RequeueMissingRunner(r) ==
  IF r.status # "provisioned" THEN r
  ELSE [r EXCEPT !.instance = NoInstance, !.accepted = NoInstance, !.runner = NoRunner,
                 !.seen = FALSE, !.missed = FALSE, !.lost = FALSE,
                 !.status = IF r.attempts >= MaxAttempts THEN "failed" ELSE "pending",
                 !.due = IF r.attempts >= MaxAttempts THEN @ ELSE TRUE]

DeferOrphanCleanup(r) ==
  IF r.status # "orphaned" THEN r ELSE [r EXCEPT !.failures = More(@), !.due = FALSE]

ReleaseAbsentOrphan(r, i) ==
  IF i = NoInstance \/ r.status # "orphaned" \/ r.instance # i THEN r
  ELSE [r EXCEPT !.instance = NoInstance, !.claim = NoClaim]

\* What ReleaseSweptOrphans does to each record it selects.
ReleaseSwept(r) == [r EXCEPT !.instance = NoInstance]

-----------------------------------------------------------------------------
(* Restart.                                                                  *)

\* Mutant: only the in-flight states are recovered.
RecoverRecord_KeepsClaim(r) ==
  CASE r.status = "provisioning" -> [Refund(r,
     "provision") EXCEPT !.claim = NoClaim, !.due = TRUE]
    [] r.status = "deleting" -> [Refund(r, "delete") EXCEPT !.claim = NoClaim,
       !.due = TRUE]
    [] OTHER -> r

\* Mutant: only the claim is released; the record stays in flight.
RecoverRecord_KeepsStatus(r) ==
  IF r.claim # NoClaim THEN [r EXCEPT !.claim = NoClaim, !.due = TRUE] ELSE r

\* recoverRecord: work interrupted by the restart goes back to its queue and
\* its attempt is refunded; the claim dies with the process.
RecoverRecord(r) ==
  LET freed == CASE r.status = "provisioning" -> Refund(r, "provision")
                 [] r.status = "deleting" -> Refund(r, "delete")
                 [] OTHER -> r
  IN IF r.claim # NoClaim \/ r.status \in {"provisioning", "deleting"}
     THEN [freed EXCEPT !.claim = NoClaim, !.due = TRUE]
     ELSE r
=============================================================================
