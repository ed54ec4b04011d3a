---------------------------- MODULE FleetProofs ----------------------------
(* The whole controller, the liveness pass included.                         *)
EXTENDS Fleet, ControllerProofs

-----------------------------------------------------------------------------
(* What every mutator does to any record at all, sound or not.               *)

\* A record that is to become an instance carries no observation of an old one.
Clean(r) ==
  r.claim = "provision" \/ r.status \in {"pending", "provisioning"}
  => ~r.seen /\ ~r.missed /\ ~r.lost

\* It stays a record, an orphaned one that stays orphaned keeps naming its
\* instance, ...
Basic(r, s) ==
  /\ s \in Record
  /\ r.status = "orphaned" /\ s.status = "orphaned" => s.instance = r.instance

\* ... and a sound one stays clean, whichever mutator it is but one.
Edits(r, s) == Basic(r, s) /\ (Sound(r) /\ Clean(r) => Clean(s))

\* Most mutators touch neither the instance id nor the observations, and make
\* no new demand.
Keeps(r, s) ==
  /\ s \in Record /\ s.instance = r.instance
  /\ s.seen = r.seen /\ s.missed = r.missed /\ s.lost = r.lost
  /\ s.claim \in {r.claim, NoClaim}
  /\ s.status \in {"pending", "provisioning"} => r.status \in {"pending", "provisioning"}

LEMMA KeepsEdits == \A r, s : Keeps(r, s) => Edits(r, s)
  BY DEF Keeps, Edits, Basic, Clean, NoClaim

LEMMA SettingKeeps ==
  ASSUME NEW r, NEW t, Keeps(r, t), NEW b \in BOOLEAN
  PROVE  /\ Keeps(r, [t EXCEPT !.claim = NoClaim])
         /\ Keeps(r, [t EXCEPT !.due = b])
         /\ Keeps(r, [t EXCEPT !.claim = NoClaim, !.due = b])
         /\ Keeps(r, [t EXCEPT !.status = "orphaned", !.due = b])
<1>1. ASSUME NEW s, s = [t EXCEPT !.claim = NoClaim] PROVE Keeps(r, s)
  BY <1>1 DEF Keeps, Record, NoClaim
<1>2. ASSUME NEW s, s = [t EXCEPT !.due = b] PROVE Keeps(r, s)
  BY <1>2 DEF Keeps, Record
<1>3. ASSUME NEW s, s = [t EXCEPT !.claim = NoClaim, !.due = b] PROVE Keeps(r, s)
  BY <1>3 DEF Keeps, Record, NoClaim
<1>4. ASSUME NEW s, s = [t EXCEPT !.status = "orphaned", !.due = b] PROVE Keeps(r, s)
  BY <1>4 DEF Keeps, Record, Statuses
<1> QED
  BY <1>1, <1>2, <1>3, <1>4

LEMMA KeepsOn ==
  ASSUME NEW r, NEW s, NEW t, Keeps(r, s), Keeps(s, t)
  PROVE  Keeps(r, t)
  BY DEF Keeps

\* Facts for the steps that do not look into a record.
LEMMA EditsFacts ==
  /\ \A r \in Record : Edits(r, r)
  /\ \A r, s : Edits(r, s) => s \in Record
  BY DEF Edits, Basic

LEMMA RefundKeeps ==
  ASSUME NEW r, NEW t, Keeps(r, t), NEW kind
  PROVE  Keeps(r, Refund(t, kind)) /\ Refund(t, kind).throttles = t.throttles
<1> DEFINE back == IF t.status = "provisioning" THEN "pending" ELSE t.status
           again == IF t.status = "deleting" THEN "completed" ELSE t.status
           fewer == Less(t.attempts)
           less == Less(t.deletes)
           ready == [t EXCEPT !.attempts = fewer, !.status = back]
           over == [t EXCEPT !.deletes = less, !.status = again]
<1>1. fewer \in Budget /\ less \in Budget
  BY BudgetFacts DEF Keeps, Record
<1>2. /\ back \in Statuses /\ again \in Statuses
      /\ back \in {"pending", "provisioning"} => t.status \in {"pending", "provisioning"}
      /\ again \in {"pending", "provisioning"} => t.status \in {"pending", "provisioning"}
  BY DEF Keeps, Record, Statuses
<1>3. Refund(t, kind) = IF kind = "provision" THEN ready ELSE over
  BY DEF Refund
<1> HIDE DEF back, again, fewer, less
<1>4. ASSUME NEW s, s = ready PROVE Keeps(r, s) /\ s.throttles = t.throttles
  BY <1>1, <1>2, <1>4 DEF Keeps, Record
<1>5. ASSUME NEW s, s = over PROVE Keeps(r, s) /\ s.throttles = t.throttles
  BY <1>1, <1>2, <1>5 DEF Keeps, Record
<1> HIDE DEF ready, over
<1> QED
  BY <1>3, <1>4, <1>5

LEMMA FreedRefundKeeps ==
  ASSUME NEW r \in Record, NEW kind
  PROVE  /\ Keeps(r, Refund([r EXCEPT !.claim = NoClaim], kind))
         /\ Refund([r EXCEPT !.claim = NoClaim], kind).throttles = r.throttles
<1> DEFINE freed == [r EXCEPT !.claim = NoClaim]
<1> SUFFICES /\ Keeps(r, Refund(freed, kind))
             /\ Refund(freed, kind).throttles = r.throttles
  OBVIOUS
<1>1. Keeps(r, freed) /\ freed.throttles = r.throttles
  BY DEF Keeps, Record, NoClaim
<1> HIDE DEF freed
<1> QED
  BY <1>1, RefundKeeps

LEMMA ClearJITEdits ==
  ASSUME NEW r \in Record
  PROVE  Edits(r, ClearJIT(r))
<1> SUFFICES ASSUME NEW s, s = ClearJIT(r) PROVE Edits(r, s)
  OBVIOUS
<1> QED
  BY DEF Edits, Basic, Clean, ClearJIT, Record, NoRunner

LEMMA BackstopEdits ==
  ASSUME NEW r \in Record
  PROVE  Edits(r, Backstop(r))
<1> SUFFICES ASSUME NEW s, s = Backstop(r) PROVE Edits(r, s)
  OBVIOUS
<1> QED
  BY DEF Edits, Basic, Clean, Backstop, Record, Statuses

LEMMA ScheduleDeletionKeeps ==
  ASSUME NEW r \in Record
  PROVE  Keeps(r, ScheduleDeletion(r))
<1> SUFFICES ASSUME NEW s, s = ScheduleDeletion(r) PROVE Keeps(r, s)
  OBVIOUS
<1> QED
  BY DEF Keeps, ScheduleDeletion, Record, Statuses

LEMMA ScheduleDeletionEdits ==
  ASSUME NEW r \in Record
  PROVE  Edits(r, ScheduleDeletion(r))
  BY ScheduleDeletionKeeps, KeepsEdits

LEMMA MarkDeletedEdits ==
  ASSUME NEW r \in Record
  PROVE  Edits(r, MarkDeleted(r))
<1> SUFFICES ASSUME NEW s, s = MarkDeleted(r) PROVE Edits(r, s)
  OBVIOUS
<1> QED
  BY DEF Edits, Basic, Clean, MarkDeleted, Record, Statuses, NoClaim

LEMMA MarkOrphanedEdits ==
  ASSUME NEW r \in Record
  PROVE  Edits(r, MarkOrphaned(r))
<1> SUFFICES ASSUME NEW s, s = MarkOrphaned(r) PROVE Edits(r, s)
  OBVIOUS
<1> QED
  BY DEF Edits, Basic, Clean, MarkOrphaned, Record, Statuses, NoClaim

LEMMA MarkCompletedKeeps ==
  ASSUME NEW r \in Record
  PROVE  Keeps(r, MarkCompleted(r))
<1> SUFFICES ASSUME NEW s, s = MarkCompleted(r) PROVE Keeps(r, s)
  OBVIOUS
<1> QED
  BY DEF Keeps, MarkCompleted, Record, Statuses

LEMMA MarkDeleteFailedEdits ==
  ASSUME NEW r \in Record
  PROVE  Edits(r, MarkDeleteFailed(r))
<1> SUFFICES ASSUME NEW s, s = MarkDeleteFailed(r) PROVE Edits(r, s)
  OBVIOUS
<1> QED
  BY BudgetFacts DEF Edits, Basic, Clean, MarkDeleteFailed, Record, Statuses, NoClaim, Settled

LEMMA MarkProvisionFailedEdits ==
  ASSUME NEW r \in Record
  PROVE  Basic(r, MarkProvisionFailed(r))
<1> SUFFICES ASSUME NEW s, s = MarkProvisionFailed(r) PROVE Basic(r, s)
  OBVIOUS
<1> QED
  BY BudgetFacts DEF Basic, MarkProvisionFailed, Record, Statuses, NoClaim, Settled

\* What fails is the making of an instance.
LEMMA MarkProvisionFailedClean ==
  ASSUME NEW r \in Record, r.claim = "provision", Clean(r)
  PROVE  Clean(MarkProvisionFailed(r))
<1> SUFFICES ASSUME NEW s, s = MarkProvisionFailed(r) PROVE Clean(s)
  OBVIOUS
<1> QED
  BY DEF Clean, MarkProvisionFailed, Record

LEMMA MatchedCompletionEdits ==
  ASSUME NEW r \in Record, NEW own \in BOOLEAN
  PROVE  Edits(r, MatchedCompletion(r, own))
<1> DEFINE done == r.jobCompleted \/ own
           other == ~own /\ ~r.jobCompleted
           told == [r EXCEPT !.jobCompleted = done, !.recheck = other, !.defer = FALSE]
           over == [told EXCEPT !.status = "completed", !.due = TRUE]
<1>1. done \in BOOLEAN /\ other \in BOOLEAN
  OBVIOUS
<1>2. MatchedCompletion(r, own) = IF r.claim = "delete" THEN told ELSE over
  BY DEF MatchedCompletion
<1> HIDE DEF done, other
<1>3. ASSUME NEW s, s = told PROVE Keeps(r, s)
  BY <1>1, <1>3 DEF Keeps, Record
<1> HIDE DEF told
<1>4. Keeps(r, told)
  BY <1>3
<1>5. ASSUME NEW s, s = over PROVE Keeps(told, s)
  BY <1>4, <1>5 DEF Keeps, Record, Statuses
<1> HIDE DEF over
<1> QED
  BY <1>2, <1>4, <1>5, KeepsOn, KeepsEdits

LEMMA EventCompletionEdits ==
  ASSUME NEW r \in Record, NEW id
  PROVE  Edits(r, EventCompletion(r, id))
<1> DEFINE told == [r EXCEPT !.jobCompleted = TRUE, !.recheck = FALSE]
           fresh == [Absent EXCEPT !.status = "completed", !.jobCompleted = TRUE,
                                   !.defer = TRUE, !.due = FALSE]
           waiting == [told EXCEPT !.status = "completed", !.defer = TRUE, !.due = FALSE]
<1>1. EventCompletion(r, id) = IF r.status = "absent" THEN fresh
                               ELSE IF id # NoRunner \/ Settled(r) THEN told
                               ELSE waiting
  BY DEF EventCompletion
<1>2. ASSUME NEW s, s = told PROVE Keeps(r, s)
  BY <1>2 DEF Keeps, Record
<1> HIDE DEF told
<1>6. Keeps(r, told)
  BY <1>2
<1>3. ASSUME NEW s, s = waiting PROVE Keeps(told, s)
  BY <1>6, <1>3 DEF Keeps, Record, Statuses
<1>4. fresh \in Record /\ fresh.status = "completed" /\ fresh.claim = NoClaim
  <2>1. Absent \in Record
    BY AbsentSound DEF Sound
  <2>2. Absent.claim = NoClaim
    BY DEF Absent
  <2> QED
    BY <2>1, <2>2 DEF Record, Statuses
<1> HIDE DEF fresh, waiting
<1>5. Edits(r, fresh)
  BY <1>4 DEF Edits, Basic, Clean, NoClaim
<1> QED
  BY <1>1, <1>3, <1>5, <1>6, KeepsOn, KeepsEdits

LEMMA BeginCleanupEdits ==
  ASSUME NEW r \in Record
  PROVE  Edits(r, BeginCleanupAttempt(r))
<1> SUFFICES ASSUME NEW s, s = BeginCleanupAttempt(r) PROVE Edits(r, s)
  OBVIOUS
<1> QED
  BY BudgetFacts DEF Edits, Basic, Clean, BeginCleanupAttempt, Record, Statuses

LEMMA DeferCleanupEdits ==
  ASSUME NEW r \in Record, NEW b \in BOOLEAN
  PROVE  Edits(r, DeferRateLimitedCleanup(r, b))
<1> DEFINE fewer == Less(r.deletes)
           slow == IF b THEN More(r.throttles) ELSE 0
           refunded == [r EXCEPT !.deletes = fewer, !.due = FALSE, !.throttles = slow]
           stopped == [refunded EXCEPT !.status = "orphaned", !.due = TRUE]
<1>1. DeferRateLimitedCleanup(r, b) \in {r, refunded, stopped}
  BY DEF DeferRateLimitedCleanup
<1>2. fewer \in Budget /\ slow \in Budget
  BY BudgetFacts DEF Record
<1> HIDE DEF fewer, slow
<1>3. ASSUME NEW s, s = refunded PROVE Keeps(r, s)
  BY <1>2, <1>3 DEF Keeps, Record
<1> HIDE DEF refunded
<1>4. Keeps(r, stopped)
  BY <1>3, SettingKeeps
<1> HIDE DEF stopped
<1> QED
  BY <1>1, <1>3, <1>4, KeepsEdits, EditsFacts

LEMMA DeferReconciliationEdits ==
  ASSUME NEW r \in Record, NEW a \in BOOLEAN, NEW b \in BOOLEAN
  PROVE  Edits(r, DeferReconciliation(r, a, b))
<1> DEFINE late == [r EXCEPT !.failures = More(@)]
           base == IF a THEN late ELSE r
           some == IF b THEN More(base.throttles) ELSE 0
           slow == [base EXCEPT !.throttles = some]
           later == [slow EXCEPT !.due = FALSE]
           stopped(t) == [t EXCEPT !.status = "orphaned", !.due = TRUE]
<1>1. DeferReconciliation(r, a, b) =
        IF Settled(r) THEN r
        ELSE IF a /\ r.failures + 1 >= MaxAttempts THEN stopped(base)
        ELSE IF b /\ r.throttles + 1 >= MaxAttempts THEN stopped(slow)
        ELSE later
  BY DEF DeferReconciliation
<1>2. Keeps(r, r) /\ Keeps(r, late)
  BY BudgetFacts DEF Keeps, Record
<1> HIDE DEF late
<1>3. Keeps(r, base)
  BY <1>2
<1> HIDE DEF base
<1>4. some \in Budget
  BY <1>3, BudgetFacts DEF Keeps, Record
<1> HIDE DEF some
<1>5. Keeps(r, slow)
  BY <1>3, <1>4 DEF Keeps, Record
<1> HIDE DEF slow
<1>6. Keeps(r, later) /\ Keeps(r, stopped(base)) /\ Keeps(r, stopped(slow))
  BY <1>3, <1>5, SettingKeeps
<1> HIDE DEF later, stopped
<1> QED
  BY <1>1, <1>2, <1>6, KeepsEdits

LEMMA ReleaseClaimKeeps ==
  ASSUME NEW r \in Record, NEW kind
  PROVE  Keeps(r, ReleaseClaim(r, kind))
<1> DEFINE freed == [r EXCEPT !.claim = NoClaim, !.due = TRUE]
<1>1. ReleaseClaim(r, kind) \in {r, Refund(freed, kind)}
  BY DEF ReleaseClaim
<1>2. Keeps(r, r) /\ Keeps(r, freed)
  BY SettingKeeps DEF Keeps
<1> HIDE DEF freed
<1> QED
  BY <1>1, <1>2, RefundKeeps

LEMMA ReleaseClaimEdits ==
  ASSUME NEW r \in Record, NEW kind
  PROVE  Edits(r, ReleaseClaim(r, kind))
  BY ReleaseClaimKeeps, KeepsEdits

LEMMA DeferWorkEdits ==
  ASSUME NEW r \in Record, NEW kind
  PROVE  Edits(r, DeferRateLimitedWork(r, kind))
<1> DEFINE freed == Refund([r EXCEPT !.claim = NoClaim], kind)
           ready == [freed EXCEPT !.due = TRUE]
           stopped == [freed EXCEPT !.throttles = MaxAttempts, !.status = "orphaned",
                                    !.due = TRUE]
           later == [freed EXCEPT !.throttles = @ + 1, !.due = FALSE]
<1>1. Keeps(r, r) /\ Keeps(r, freed) /\ freed.throttles = r.throttles
  BY FreedRefundKeeps DEF Keeps
<1>2. DeferRateLimitedWork(r, kind) =
        IF Settled(r) \/ r.claim # kind THEN r
        ELSE IF kind = "provision" /\ r.status = "completed" THEN ready
        ELSE IF r.throttles + 1 >= MaxAttempts THEN stopped ELSE later
  BY DEF DeferRateLimitedWork
<1> HIDE DEF freed
<1>3. Keeps(r, ready)
  BY <1>1, SettingKeeps
<1>4. ASSUME NEW s, s = stopped PROVE Keeps(r, s)
  BY <1>1, <1>4, BudgetFacts DEF Keeps, Record, Statuses
<1>5. ASSUME ~(r.throttles + 1 >= MaxAttempts), NEW s, s = later PROVE Keeps(r, s)
  <2>1. freed.throttles + 1 \in Budget
    BY <1>1, <1>5, BudgetFacts DEF Keeps, Record
  <2> QED
    BY <1>1, <1>5, <2>1 DEF Keeps, Record
<1> HIDE DEF ready, stopped, later
<1> QED
  BY <1>1, <1>2, <1>3, <1>4, <1>5, KeepsEdits

LEMMA DeferDemandEdits ==
  ASSUME NEW r \in Record
  PROVE  Edits(r, DeferProvisioningDemand(r))
<1> DEFINE freed == Refund([r EXCEPT !.claim = NoClaim], "provision")
           later == [freed EXCEPT !.due = FALSE, !.defer = TRUE]
<1>1. Keeps(r, r) /\ Keeps(r, freed)
  BY FreedRefundKeeps DEF Keeps
<1>2. DeferProvisioningDemand(r) \in {r, freed, later}
  BY DEF DeferProvisioningDemand
<1> HIDE DEF freed
<1>3. ASSUME NEW s, s = later PROVE Keeps(r, s)
  BY <1>1, <1>3 DEF Keeps, Record
<1> HIDE DEF later
<1> QED
  BY <1>1, <1>2, <1>3, KeepsEdits

LEMMA DeferConfirmationEdits ==
  ASSUME NEW r \in Record
  PROVE  Edits(r, DeferDeletionConfirmation(r))
<1> DEFINE freed == Refund(r, "delete")
           later == [freed EXCEPT !.claim = NoClaim, !.due = FALSE]
<1>1. Keeps(r, r) /\ Keeps(r, freed)
  BY RefundKeeps DEF Keeps
<1>2. DeferDeletionConfirmation(r) \in {r, later}
  BY DEF DeferDeletionConfirmation
<1> HIDE DEF freed
<1>3. Keeps(r, later)
  BY <1>1, SettingKeeps
<1> HIDE DEF later
<1> QED
  BY <1>1, <1>2, <1>3, KeepsEdits

LEMMA DeferReassignmentEdits ==
  ASSUME NEW r \in Record
  PROVE  Edits(r, DeferReassignmentDemand(r))
<1> DEFINE freed == Refund(r, "delete")
           later == [freed EXCEPT !.claim = NoClaim, !.due = FALSE]
<1>1. Keeps(r, r) /\ Keeps(r, freed)
  BY RefundKeeps DEF Keeps
<1>2. DeferReassignmentDemand(r) \in {r, later}
  BY DEF DeferReassignmentDemand
<1> HIDE DEF freed
<1>3. Keeps(r, later)
  BY <1>1, SettingKeeps
<1> HIDE DEF later
<1> QED
  BY <1>1, <1>2, <1>3, KeepsEdits

LEMMA FinishEdits ==
  ASSUME NEW r \in Record, NEW queued
  PROVE  Edits(r, FinishDeletedRunner(r, queued))
<1> DEFINE unclaimed == [r EXCEPT !.status = "pending", !.claim = NoClaim, !.defer = FALSE,
                 !.due = TRUE, !.recheck = FALSE, !.instance = NoInstance,
                 !.accepted = NoInstance]
           restored == [unclaimed EXCEPT !.runner = NoRunner, !.attempts = 0,
                 !.deletes = 0, !.failures = 0, !.throttles = 0,
                 !.seen = FALSE, !.missed = FALSE, !.lost = FALSE]
           gone == MarkDeleted(r)
           finished == [gone EXCEPT !.recheck = FALSE]
<1>1. FinishDeletedRunner(r, queued) \in {r, restored, finished}
  BY DEF FinishDeletedRunner
<1>2. Keeps(r, r) /\ gone \in Record /\ gone.status = "deleted" /\ gone.claim = NoClaim
  BY MarkDeletedEdits DEF Keeps, Edits, Basic, MarkDeleted, Record
<1>3. restored \in Record /\ restored.status = "pending" /\ Clean(restored)
  <2>1. unclaimed \in Record /\ unclaimed.status = "pending"
    BY DEF Record, Statuses, NoClaim, NoInstance
  <2> HIDE DEF unclaimed
  <2>2. restored \in Record
    BY <2>1, BudgetFacts DEF Record, NoRunner
  <2>3. ASSUME NEW s, s = restored PROVE s.status = "pending" /\ Clean(s)
    BY <2>1, <2>3 DEF Record, Clean
  <2> QED
    BY <2>2, <2>3
<1> HIDE DEF gone, restored, unclaimed
<1>4. finished \in Record /\ finished.status = "deleted" /\ Clean(finished)
  BY <1>2 DEF Record, Clean, NoClaim
<1> HIDE DEF finished
<1> QED
  BY <1>1, <1>2, <1>3, <1>4, KeepsEdits DEF Edits, Basic

LEMMA RecoverEdits ==
  ASSUME NEW r \in Record
  PROVE  Edits(r, RecoverRecord(r))
<1> DEFINE freed == CASE r.status = "provisioning" -> Refund(r, "provision")
                      [] r.status = "deleting" -> Refund(r, "delete")
                      [] OTHER -> r
           ready == [freed EXCEPT !.claim = NoClaim, !.due = TRUE]
<1>1. RecoverRecord(r) \in {r, ready}
  BY DEF RecoverRecord
<1>2. Keeps(r, r)
  BY DEF Keeps
<1>3. Keeps(r, freed)
  BY <1>2, RefundKeeps
<1> HIDE DEF freed
<1>4. Keeps(r, ready)
  BY <1>3, SettingKeeps
<1> HIDE DEF ready
<1> QED
  BY <1>1, <1>2, <1>4, KeepsEdits

LEMMA MarkJITCreatedEdits ==
  ASSUME NEW r \in Record, NEW j, NEW id \in Runners \cup {NoRunner}, NEW m
  PROVE  Edits(r, MarkJITCreated(r, j, id, m))
<1> DEFINE done == r.jobCompleted \/ m = j
           other == ~(m = j) /\ ~r.jobCompleted
           owner == [r EXCEPT !.runner = id]
           over == [r EXCEPT !.runner = id, !.status = "completed",
                             !.jobCompleted = done, !.recheck = other,
                             !.defer = FALSE, !.due = TRUE]
<1>1. done \in BOOLEAN /\ other \in BOOLEAN
  OBVIOUS
<1>2. MarkJITCreated(r, j, id, m) \in {r, owner, over}
  BY DEF MarkJITCreated
<1> HIDE DEF done, other
<1>3. Keeps(r, r) /\ Keeps(r, owner)
  BY DEF Keeps, Record
<1>4. Keeps(r, over)
  <2>1. over \in Record
    BY <1>1 DEF Record, Statuses
  <2>2. over.instance = r.instance
    BY DEF Record
  <2> QED
    BY <2>1, <2>2 DEF Keeps
<1> HIDE DEF owner, over
<1> QED
  BY <1>2, <1>3, <1>4, KeepsEdits

LEMMA MarkProvisionedEdits ==
  ASSUME NEW r \in Record, NEW i \in Instances \cup {NoInstance},
         NEW id \in Runners \cup {NoRunner}
  PROVE  Edits(r, MarkProvisioned(r, i, id))
<1> DEFINE old == IF r.accepted = i THEN r.accepted ELSE NoInstance
           next == IF r.status = "completed" THEN r.status ELSE "provisioned"
           over == [r EXCEPT !.instance = i, !.accepted = old, !.runner = id,
                             !.throttles = 0, !.claim = NoClaim, !.missed = FALSE,
                             !.status = next]
<1>1. old \in Instances \cup {NoInstance} /\ next \in {"completed", "provisioned"}
  BY DEF Record
<1>2. MarkProvisioned(r, i, id) = IF Settled(r) THEN r ELSE over
  BY DEF MarkProvisioned
<1> HIDE DEF old, next
<1>3. over \in Record
  BY <1>1, BudgetFacts DEF Record, Statuses, NoClaim
<1>4. over.status = next /\ over.claim = NoClaim
  BY DEF Record
<1> HIDE DEF over
<1>5. Edits(r, over)
  BY <1>1, <1>3, <1>4 DEF Edits, Basic, Clean, NoClaim
<1> QED
  BY <1>2, <1>5, EditsFacts

LEMMA MarkAcceptedEdits ==
  ASSUME NEW r \in Record, NEW i \in Instances \cup {NoInstance}
  PROVE  Edits(r, MarkDeletionAccepted(r, i))
  BY DEF Edits, Basic, Clean, MarkDeletionAccepted, Record

LEMMA ClaimedEdits ==
  ASSUME NEW r \in Record, WantsProvision(r) \/ WantsDelete(r)
  PROVE  Edits(r, Claimed(r))
<1> SUFFICES ASSUME NEW s, s = Claimed(r) PROVE Edits(r, s)
  OBVIOUS
<1> QED
  BY BudgetFacts DEF Edits, Basic, Clean, Claimed, ClaimProvision, ClaimDelete, WantsProvision,
     WantsDelete, Record, Statuses, WorkKinds

LEMMA NewDemandEdits ==
  NewDemand \in Record /\ NewDemand.status = "pending" /\ Clean(NewDemand)
  BY NewDemandSound DEF Sound, NewDemand, Absent, Clean

-----------------------------------------------------------------------------
(* The mutators of the liveness pass.                                        *)

LEMMA ObservationEdits ==
  ASSUME NEW r \in Record
  PROVE  /\ Edits(r, ObserveRunnerMissing(r)) /\ Edits(r, ObserveGitHubRunnerMissing(r))
         /\ Edits(r, ClearProviderMissing(r)) /\ Edits(r, ClearGitHubMissing(r))
         /\ Edits(r, RecordRunnerSeen(r)) /\ Edits(r, ClearRunnerMissing(r))
<1>1. ASSUME NEW s, s = ObserveRunnerMissing(r) PROVE Edits(r, s)
  BY <1>1, InstanceFact DEF Edits, Basic, Clean, Sound, ObserveRunnerMissing, Record
<1>2. ASSUME NEW s, s = ObserveGitHubRunnerMissing(r) PROVE Edits(r, s)
  BY <1>2, InstanceFact DEF Edits, Basic, Clean, Sound, ObserveGitHubRunnerMissing, Record
<1>3. ASSUME NEW s, s = ClearProviderMissing(r) PROVE Edits(r, s)
  BY <1>3 DEF Edits, Basic, Clean, ClearProviderMissing, Record
<1>4. ASSUME NEW s, s = ClearGitHubMissing(r) PROVE Edits(r, s)
  BY <1>4 DEF Edits, Basic, Clean, ClearGitHubMissing, Record
<1>5. ASSUME NEW s, s = RecordRunnerSeen(r) PROVE Edits(r, s)
  BY <1>5, InstanceFact DEF Edits, Basic, Clean, Sound, RecordRunnerSeen, Record
<1>6. ASSUME NEW s, s = ClearRunnerMissing(r) PROVE Edits(r, s)
  BY <1>6, BudgetFacts DEF Edits, Basic, Clean, ClearRunnerMissing, Record
<1> QED
  BY <1>1, <1>2, <1>3, <1>4, <1>5, <1>6

LEMMA RequeueEdits ==
  ASSUME NEW r \in Record
  PROVE  Edits(r, RequeueMissingRunner(r))
<1> DEFINE next == IF r.attempts >= MaxAttempts THEN "failed" ELSE "pending"
           due == IF r.attempts >= MaxAttempts THEN r.due ELSE TRUE
           s == [r EXCEPT !.instance = NoInstance, !.accepted = NoInstance,
                          !.runner = NoRunner, !.seen = FALSE, !.missed = FALSE,
                          !.lost = FALSE, !.status = next, !.due = due]
<1>1. next \in {"failed", "pending"} /\ due \in BOOLEAN
  BY DEF Record
<1>2. RequeueMissingRunner(r) = IF r.status # "provisioned" THEN r ELSE s
  BY DEF RequeueMissingRunner
<1> HIDE DEF next, due
<1>3. s \in Record
  BY <1>1 DEF Record, Statuses, NoInstance, NoRunner
<1>4. s.status = next /\ Clean(s)
  BY DEF Record, Clean
<1> HIDE DEF s
<1>5. Edits(r, s)
  BY <1>1, <1>3, <1>4 DEF Edits, Basic
<1> QED
  BY <1>2, <1>5, EditsFacts

LEMMA DeferOrphanEdits ==
  ASSUME NEW r \in Record
  PROVE  Edits(r, DeferOrphanCleanup(r))
<1> SUFFICES ASSUME NEW s, s = DeferOrphanCleanup(r) PROVE Edits(r, s)
  OBVIOUS
<1> QED
  BY BudgetFacts DEF Edits, Basic, Clean, DeferOrphanCleanup, Record

\* The two mutators that release the reservation of an orphan.
LEMMA ReleaseTypes ==
  ASSUME NEW r \in Record, NEW i
  PROVE  ReleaseAbsentOrphan(r, i) \in Record /\ ReleaseSwept(r) \in Record
<1>1. ASSUME NEW s, s = ReleaseAbsentOrphan(r, i) PROVE s \in Record
  BY <1>1 DEF ReleaseAbsentOrphan, Record, NoInstance, NoClaim
<1>2. ASSUME NEW s, s = ReleaseSwept(r) PROVE s \in Record
  BY <1>2 DEF ReleaseSwept, Record, NoInstance
<1> QED
  BY <1>1, <1>2

-----------------------------------------------------------------------------
(* Steps of the whole: how they write to the store, and the types.           *)

\* A failed attempt is stored by the worker that has claimed the record.
Writes(r, s) == Basic(r, s) /\ (ClaimsExclusive /\ Sound(r) /\ Clean(r) => Clean(s))

AllEdited == \A j \in Jobs : Writes(records[j], records'[j])

StoreEdited == StoreTypeOK' /\ AllEdited

LEMMA WritesFacts ==
  /\ \A r \in Record : Writes(r, r)
  /\ \A r, s : Edits(r, s) => Writes(r, s)
  /\ \A r, s : Writes(r, s) => s \in Record
  BY DEF Edits, Writes, Basic

LEMMA NothingStored ==
  ASSUME StoreTypeOK, UNCHANGED storeVars
  PROVE  StoreEdited
  BY WritesFacts DEF StoreTypeOK, storeVars, StoreEdited, AllEdited

LEMMA PutWrites ==
  ASSUME StoreTypeOK, NEW j, NEW r, Put(j, r), j \in Jobs => Writes(records[j], r)
  PROVE  StoreEdited
<1>1. \A k \in Jobs : Writes(records[k], records'[k])
  BY WritesFacts DEF StoreTypeOK, Put
<1>2. records' \in [Jobs -> Record]
  BY <1>1, WritesFacts DEF StoreTypeOK, Put
<1> QED
  BY <1>1, <1>2 DEF StoreTypeOK, Put, StoreEdited, AllEdited

LEMMA PutEdits ==
  ASSUME StoreTypeOK, NEW j, NEW r, Put(j, r), j \in Jobs => Edits(records[j], r)
  PROVE  StoreEdited
  BY PutWrites, WritesFacts

LEMMA PutFailsEdits ==
  ASSUME StoreTypeOK, PutFails
  PROVE  StoreEdited
  BY WritesFacts, FaultsAssumption DEF StoreTypeOK, PutFails, StoreEdited, AllEdited

LEMMA PutJITEdits ==
  ASSUME StoreTypeOK, NEW j \in Jobs \cup {NoJob}, NEW id \in Runners \cup {NoRunner},
         PutJIT(j, id)
  PROVE  StoreEdited
<1> DEFINE s == MarkJITCreated(records[j], j, id, markers[id])
<1>1. j \in Jobs => Writes(records[j], s)
  BY MarkJITCreatedEdits, WritesFacts DEF StoreTypeOK
<1>2. records' = [records EXCEPT ![j] = s]
  BY DEF PutJIT
<1> HIDE DEF s
<1>3. AllEdited /\ records' \in [Jobs -> Record]
  BY <1>1, <1>2, WritesFacts DEF StoreTypeOK, AllEdited
<1> QED
  BY <1>3 DEF StoreTypeOK, PutJIT, StoreEdited

LEMMA PutInstanceEdits ==
  ASSUME StoreTypeOK, NEW j \in Jobs \cup {NoJob}, NEW i \in Instances \cup {NoInstance},
         NEW id \in Runners \cup {NoRunner}, PutInstance(j, i, id)
  PROVE  StoreEdited
<1> DEFINE s == MarkProvisioned(records[j], i, id)
<1>1. j \in Jobs => Writes(records[j], s)
  BY MarkProvisionedEdits, WritesFacts DEF StoreTypeOK
<1>2. Put(j, s)
  BY DEF PutInstance
<1> HIDE DEF s
<1> QED
  BY <1>1, <1>2, PutWrites

LEMMA IndexInstanceEdits ==
  ASSUME StoreTypeOK, NEW j \in Jobs \cup {NoJob}, NEW id, IndexInstance(j, id)
  PROVE  StoreEdited
  BY WritesFacts DEF StoreTypeOK, IndexInstance, StoreEdited, AllEdited

LEMMA StoredRecord ==
  ASSUME StoreTypeOK, NEW j \in Jobs
  PROVE  records[j] \in Record
  BY DEF StoreTypeOK

-----------------------------------------------------------------------------
(* Types of the workers.                                                     *)

WorkerPcs == {"idle", "indexVM"} \cup ProvisionPcs \cup DeletePcs

LEMMA IdleTask == Idle \in Task
  BY AbsentSound DEF Idle, Task, Sound

LEMMA GotoTypes ==
  ASSUME WorkerTypeOK, NEW w \in Workers, NEW pc \in WorkerPcs, Goto(w, pc)
  PROVE  WorkerTypeOK'
<1>1. [worker[w] EXCEPT !.pc = pc] \in Task
  BY DEF WorkerTypeOK, Task, WorkerPcs
<1> QED
  BY <1>1 DEF WorkerTypeOK, Goto

LEMMA FinishTypes ==
  ASSUME WorkerTypeOK, NEW w \in Workers, Finish(w)
  PROVE  WorkerTypeOK'
  BY IdleTask DEF WorkerTypeOK, Finish

LEMMA HalfDoneTypes ==
  ASSUME WorkerTypeOK, NEW w \in Workers, worker[w].job \in Jobs \cup {NoJob},
         worker[w].rec.runner \in Runners \cup {NoRunner},
         worker' = [worker EXCEPT ![w] = HalfDone(w)]
  PROVE  WorkerTypeOK'
<1>1. HalfDone(w) \in Task
  BY AbsentSound DEF HalfDone, Idle, Task, Sound
<1> QED
  BY <1>1 DEF WorkerTypeOK

LEMMA InHandTypes ==
  ASSUME WorkerTypeOK, NEW w \in Workers, NEW i \in Instances, NEW pc \in WorkerPcs,
         worker' = [worker EXCEPT ![w].inst = i, ![w].pc = pc]
  PROVE  WorkerTypeOK'
<1>1. [worker[w] EXCEPT !.inst = i, !.pc = pc] \in Task
  BY DEF WorkerTypeOK, Task, WorkerPcs
<1>2. worker' = [worker EXCEPT ![w] = [worker[w] EXCEPT !.inst = i, !.pc = pc]]
  BY DEF WorkerTypeOK
<1> QED
  BY <1>1, <1>2 DEF WorkerTypeOK

LEMMA TaskParts ==
  ASSUME WorkerTypeOK, NEW w \in Workers
  PROVE  /\ worker[w] \in Task /\ worker[w].job \in Jobs \cup {NoJob}
         /\ worker[w].rec \in Record /\ worker[w].jit \in Runners \cup {NoRunner}
         /\ worker[w].inst \in Instances \cup {NoInstance}
         /\ worker[w].rec.runner \in Runners \cup {NoRunner}
         /\ worker[w].rec.instance \in Instances \cup {NoInstance}
<1>1. worker[w] \in Task
  BY DEF WorkerTypeOK
<1>2. worker[w].rec \in Record
  BY <1>1 DEF Task
<1> QED
  BY <1>1, <1>2 DEF Task, Record

LEMMA ErrorTypes ==
  ASSUME NEW w \in Workers, NEW e
  PROVE  /\ ProvisionFailed(w, e) \in WorkerPcs /\ DeferDemandCheck(w, e) \subseteq WorkerPcs
         /\ OrphanProvision(w) \in WorkerPcs /\ DeleteFailed(w, e) \in WorkerPcs
  BY ProvisionFailedPc, DeleteFailedPc DEF WorkerPcs

\* What a step of a worker leaves well typed.
WorkTypes == StoreEdited /\ GitHubTypeOK' /\ ProviderTypeOK' /\ WorkerTypeOK'

LEMMA RemoteTypes ==
  ASSUME TypeOK
  PROVE  /\ UNCHANGED githubVars => GitHubTypeOK'
         /\ UNCHANGED vm => ProviderTypeOK'
         /\ UNCHANGED worker => WorkerTypeOK'
         /\ UNCHANGED storeVars => StoreEdited
         /\ PutFails => StoreEdited
         /\ Local => StoreEdited /\ GitHubTypeOK' /\ ProviderTypeOK'
         /\ CallsGitHub => StoreEdited /\ ProviderTypeOK'
         /\ CallsProvider => StoreEdited /\ GitHubTypeOK'
         /\ CallsStore => GitHubTypeOK' /\ ProviderTypeOK'
<1>1. UNCHANGED githubVars => GitHubTypeOK'
  BY DEF TypeOK, githubVars, GitHubTypeOK
<1>2. UNCHANGED vm => ProviderTypeOK'
  BY DEF TypeOK, ProviderTypeOK
<1>3. UNCHANGED worker => WorkerTypeOK'
  BY DEF TypeOK, WorkerTypeOK
<1>4. (UNCHANGED storeVars => StoreEdited) /\ (PutFails => StoreEdited)
  BY NothingStored, PutFailsEdits DEF TypeOK
<1> QED
  BY <1>1, <1>2, <1>3, <1>4 DEF Local, CallsGitHub, CallsProvider, CallsStore

LEMMA ScanEdits ==
  ASSUME StoreTypeOK, NEW some \in SUBSET Jobs, NEW done,
         done \in Jobs => WantsProvision(records[done]) \/ WantsDelete(records[done]),
         records' = [k \in Jobs |-> IF k = done THEN Claimed(records[k])
                                    ELSE IF k \in some THEN Backstop(records[k])
                                    ELSE records[k]],
         UNCHANGED <<runnerKeys, markers>>, faults' \in 0 .. MaxFaults
  PROVE  StoreEdited
<1>1. \A k \in Jobs : Edits(records[k], records'[k])
  <2> TAKE k \in Jobs
  <2>1. records[k] \in Record
    BY StoredRecord
  <2>2. k = done => Edits(records[k], Claimed(records[k]))
    BY <2>1, ClaimedEdits
  <2>3. Edits(records[k], Backstop(records[k])) /\ Edits(records[k], records[k])
    BY <2>1, BackstopEdits, EditsFacts
  <2> QED
    BY <2>2, <2>3
<1>2. records' \in [Jobs -> Record]
  BY <1>1, EditsFacts
<1> QED
  BY <1>1, <1>2, WritesFacts DEF StoreTypeOK, StoreEdited, AllEdited

LEMMA ClaimTypes ==
  ASSUME TypeOK, NEW w \in Workers, Claim(w)
  PROVE  WorkTypes
<1>1. PICK j \in Jobs :
        /\ ClaimFirst(j)
        /\ worker' = [worker EXCEPT ![w] =
             [Idle EXCEPT !.pc = FirstStep(Claimed(records[j])), !.job = j,
                          !.rec = Claimed(records[j])]]
  BY DEF Claim
<1>2. WantsProvision(records[j]) \/ WantsDelete(records[j])
  BY <1>1 DEF ClaimFirst, Claimable
<1>3. StoreEdited
  <2> DEFINE some == {k \in Jobs : k < j}
  <2>1. records' = [k \in Jobs |-> IF k = j THEN Claimed(records[k])
                                   ELSE IF k \in some THEN Backstop(records[k])
                                   ELSE records[k]]
    BY <1>1 DEF ClaimFirst
  <2>2. UNCHANGED <<runnerKeys, markers>> /\ faults' \in 0 .. MaxFaults
    BY <1>1 DEF ClaimFirst, TypeOK, StoreTypeOK
  <2>3. some \in SUBSET Jobs
    OBVIOUS
  <2> HIDE DEF some
  <2> QED
    BY <1>2, <2>1, <2>2, <2>3, ScanEdits DEF TypeOK
<1>4. WorkerTypeOK'
  <2>1. Claimed(records[j]) \in Record
    BY <1>2, StoredRecord, ClaimedEdits, EditsFacts DEF TypeOK
  <2>2. FirstStep(Claimed(records[j])) \in WorkerPcs
    BY DEF FirstStep, WorkerPcs, ProvisionPcs, DeletePcs
  <2>3. \A r \in Record : \A pc \in WorkerPcs :
          [Idle EXCEPT !.pc = pc, !.job = j, !.rec = r] \in Task
    BY IdleTask DEF Task, WorkerPcs
  <2>4. [Idle EXCEPT !.pc = FirstStep(Claimed(records[j])), !.job = j,
                     !.rec = Claimed(records[j])] \in Task
    BY <2>1, <2>2, <2>3
  <2> QED
    BY <1>1, <2>4 DEF TypeOK, WorkerTypeOK
<1> QED
  BY <1>3, <1>4, RemoteTypes DEF Claim, WorkTypes

LEMMA ScanTypes ==
  ASSUME TypeOK, NEW w \in Workers, Scan(w)
  PROVE  WorkTypes
<1>1. NoJob \notin Jobs
  BY JobsAssumption DEF NoJob
<1>2. CASE ScanWithoutClaim
  <2>1. records' = [k \in Jobs |-> IF k = NoJob THEN Claimed(records[k])
                                   ELSE IF k \in Jobs THEN Backstop(records[k])
                                   ELSE records[k]]
    BY <1>1, <1>2 DEF ScanWithoutClaim
  <2>2. UNCHANGED <<runnerKeys, markers>> /\ faults' \in 0 .. MaxFaults
    BY <1>2 DEF ScanWithoutClaim, TypeOK, StoreTypeOK
  <2>3. StoreEdited
    BY <1>1, <2>1, <2>2, ScanEdits DEF TypeOK
  <2> QED
    BY <2>3, RemoteTypes DEF Scan, WorkTypes
<1>3. ASSUME NEW j \in Jobs, ScanStops(j) PROVE WorkTypes
  <2> DEFINE some == {k \in Jobs : k < j}
  <2>1. records' = [k \in Jobs |-> IF k = NoJob THEN Claimed(records[k])
                                   ELSE IF k \in some THEN Backstop(records[k])
                                   ELSE records[k]]
    BY <1>1, <1>3 DEF ScanStops
  <2>2. UNCHANGED <<runnerKeys, markers>> /\ faults' \in 0 .. MaxFaults
    BY <1>3, FaultsAssumption DEF ScanStops, TypeOK, StoreTypeOK
  <2>3. some \in SUBSET Jobs
    OBVIOUS
  <2> HIDE DEF some
  <2>4. StoreEdited
    BY <1>1, <2>1, <2>2, <2>3, ScanEdits DEF TypeOK
  <2> QED
    BY <2>4, RemoteTypes DEF Scan, WorkTypes
<1> QED
  BY <1>2, <1>3 DEF Scan

LEMMA DeregisterTypes ==
  ASSUME TypeOK, NEW w \in Workers, Deregister(w)
  PROVE  WorkTypes
<1>1. GitHubTypeOK'
  BY RemoveType, RemovalFailsType DEF Deregister, TypeOK
<1>2. \E pc \in WorkerPcs : Goto(w, pc)
  BY DeregisterLeads DEF Deregister, SameKind, WorkerPcs
<1> QED
  BY <1>1, <1>2, GotoTypes, RemoteTypes DEF Deregister, WorkTypes, TypeOK

LEMMA ClearTypes ==
  ASSUME TypeOK, NEW w \in Workers, Clear(w)
  PROVE  WorkTypes
<1>1. StoreEdited
  BY ClearJITEdits, StoredRecord, PutEdits, RemoteTypes DEF Clear, TypeOK
<1>2. \E pc \in WorkerPcs : Goto(w, pc)
  BY ClearLeads DEF Clear, SameKind, WorkerPcs
<1> QED
  BY <1>1, <1>2, GotoTypes, RemoteTypes DEF Clear, WorkTypes, TypeOK

LEMMA EndWorkTypes ==
  ASSUME TypeOK, NEW w \in Workers, EndWork(w)
  PROVE  WorkTypes
<1> DEFINE j == worker[w].job
<1>1. ASSUME j \in Jobs PROVE Writes(records[j], LastWrite(w))
  <2>1. records[j] \in Record
    BY <1>1, StoredRecord DEF TypeOK
  <2>2. CASE worker[w].pc \in {"releaseProvision", "deferProvision", "deferDemand"}
    BY <2>1, <2>2, ReleaseClaimEdits, DeferWorkEdits, DeferDemandEdits, WritesFacts
       DEF LastWrite, At
  <2>5. CASE worker[w].pc = "markFailed"
    <3>1. LastWrite(w) = MarkProvisionFailed(records[j])
      BY <2>5 DEF LastWrite, At
    <3>2. ClaimsExclusive => records[j].claim = "provision"
      BY <2>5 DEF ClaimsExclusive, Working, KindOf, ProvisionPcs
    <3> QED
      BY <2>1, <3>1, <3>2, MarkProvisionFailedEdits, MarkProvisionFailedClean DEF Writes
  <2>3. CASE worker[w].pc \in {"releaseDelete", "deferDelete", "failDelete",
                               "deferReassigned"}
    BY <2>1, <2>3, ReleaseClaimEdits, DeferWorkEdits, DeferReassignmentEdits,
       MarkDeleteFailedEdits, WritesFacts DEF LastWrite, At
  <2>4. CASE worker[w].pc \in {"markOrphanProvision", "markOrphanDelete"}
    BY <2>1, <2>4, MarkOrphanedEdits, WritesFacts DEF LastWrite, At
  <2> QED
    BY <2>2, <2>3, <2>4, <2>5 DEF EndWork, LastWritePcs
<1>2. StoreEdited
  BY <1>1, PutWrites, PutFailsEdits, RemoteTypes DEF EndWork, TypeOK
<1> QED
  BY <1>2, FinishTypes, RemoteTypes DEF EndWork, WorkTypes, TypeOK
LEMMA StartTypes ==
  ASSUME ProviderTypeOK, NEW i \in Instances, NEW j \in Jobs \cup {NoJob},
         NEW id \in Runners \cup {NoRunner}, StartVM(i, j, id)
  PROVE  ProviderTypeOK'
  BY DEF ProviderTypeOK, StartVM, VMStates

LEMMA CreateFailedTypes ==
  ASSUME ProviderTypeOK, NEW j \in Jobs \cup {NoJob},
         NEW id \in Runners \cup {NoRunner}, NEW e, CreateFails(j, id, e)
  PROVE  ProviderTypeOK'
<1>1. CASE UNCHANGED vm
  BY <1>1 DEF ProviderTypeOK
<1>2. CASE \E i \in Instances : CreateStarts(j, i, id)
  BY <1>2, StartTypes DEF CreateStarts
<1> QED
  BY <1>1, <1>2 DEF CreateFails

LEMMA FindTypes ==
  ASSUME TypeOK, NEW w \in Workers, Find(w)
  PROVE  WorkTypes
<1>1. {"demand", "dropVM", "persistVM"} \subseteq WorkerPcs
  BY DEF WorkerPcs, ProvisionPcs
<1>2. \A seen \in Listings(worker[w].job) : seen \subseteq Instances
  BY DEF Listings, ListedFor, LeavingFor
<1>3. \/ Goto(w, "demand") \/ \E e : Goto(w, ProvisionFailed(w, e))
      \/ \E i \in Instances : \E pc \in WorkerPcs :
           worker' = [worker EXCEPT ![w].inst = i, ![w].pc = pc]
  BY <1>1, <1>2 DEF Find
<1>4. WorkerTypeOK'
  BY <1>1, <1>3, GotoTypes, InHandTypes, ErrorTypes DEF TypeOK
<1> QED
  BY <1>4, RemoteTypes DEF Find, WorkTypes

LEMMA DropVMTypes ==
  ASSUME TypeOK, NEW w \in Workers, DropVM(w)
  PROVE  WorkTypes
<1>1. ProviderTypeOK'
  BY DeleteVMType DEF DropVM, TypeOK
<1>2. WorkerTypeOK'
  BY GotoTypes, ErrorTypes DEF DropVM, TypeOK
<1> QED
  BY <1>1, <1>2, RemoteTypes DEF DropVM, WorkTypes

LEMMA DemandTypes ==
  ASSUME TypeOK, NEW w \in Workers, CheckDemand(w) \/ AskDemand(w)
  PROVE  WorkTypes
<1>1. {"ask", "create", "generate", "stale", GiveUpDemand(w)} \subseteq WorkerPcs
  BY DEF WorkerPcs, ProvisionPcs, GiveUpDemand
<1>2. \E pc \in WorkerPcs : Goto(w, pc)
  BY <1>1, ErrorTypes DEF CheckDemand, AskDemand
<1> QED
  BY <1>2, GotoTypes, RemoteTypes DEF CheckDemand, AskDemand, WorkTypes, TypeOK

LEMMA RetireTypes ==
  ASSUME TypeOK, NEW w \in Workers, Retire(w)
  PROVE  WorkTypes
<1> DEFINE j == worker[w].job
           r == records[j]
           finished == MarkDeleted(r)
           completed == MarkCompleted(r)
           released == ReleaseClaim(completed, "provision")
           scheduled == ScheduleDeletion(released)
<1>1. ASSUME j \in Jobs PROVE Edits(r, finished) /\ Edits(r, scheduled)
  <2>1. r \in Record
    BY <1>1, StoredRecord DEF TypeOK
  <2>2. Keeps(r, completed)
    BY <2>1, MarkCompletedKeeps
  <2>3. Keeps(completed, released)
    BY <2>2, ReleaseClaimKeeps DEF Keeps
  <2>4. Keeps(released, scheduled)
    BY <2>3, ScheduleDeletionKeeps DEF Keeps
  <2> QED
    BY <2>1, <2>2, <2>3, <2>4, MarkDeletedEdits, KeepsOn, KeepsEdits
<1>2. PutFails \/ Put(j, finished) \/ Put(j, scheduled)
  BY DEF Retire
<1> HIDE DEF finished, scheduled
<1>3. StoreEdited
  BY <1>1, <1>2, PutEdits, RemoteTypes DEF TypeOK
<1>4. WorkerTypeOK'
  BY GotoTypes, FinishTypes, ErrorTypes DEF Retire, TypeOK
<1> QED
  BY <1>3, <1>4, RemoteTypes DEF Retire, WorkTypes

LEMMA GenerateTypes ==
  ASSUME TypeOK, NEW w \in Workers, Generate(w)
  PROVE  WorkTypes
<1>1. CASE /\ GenerateJIT
           /\ worker' = [worker EXCEPT ![w].pc = "persistJIT", ![w].jit = issued + 1]
  <2>1. GitHubTypeOK' /\ issued + 1 \in Runners
    BY <1>1, IssueType DEF GenerateJIT, TypeOK
  <2>2. [worker[w] EXCEPT !.pc = "persistJIT", !.jit = issued + 1] \in Task
    BY <2>1, TaskParts DEF TypeOK, Task, ProvisionPcs
  <2>3. WorkerTypeOK'
    BY <1>1, <2>2 DEF TypeOK, WorkerTypeOK
  <2> QED
    BY <2>1, <2>3, RemoteTypes DEF Generate, WorkTypes
<1>2. CASE \E e \in Errors : GenerateJITFails /\ Goto(w, ProvisionFailed(w, e))
  <2>1. GitHubTypeOK'
    BY <1>2, RemoteTypes, IssueType DEF GenerateJITFails, TypeOK
  <2> QED
    BY <1>2, <2>1, GotoTypes, ErrorTypes, RemoteTypes DEF Generate, WorkTypes, TypeOK
<1> QED
  BY <1>1, <1>2 DEF Generate

LEMMA PersistJITTypes ==
  ASSUME TypeOK, NEW w \in Workers, PersistJIT(w)
  PROVE  WorkTypes
<1> DEFINE id == worker[w].jit
           t == [worker[w] EXCEPT !.pc = "demand", !.rec.runner = id]
<1>1. CASE PutFails /\ Goto(w, "dropJIT")
  <2>1. "dropJIT" \in WorkerPcs
    BY DEF WorkerPcs, ProvisionPcs
  <2> QED
    BY <1>1, <2>1, GotoTypes, RemoteTypes DEF PersistJIT, WorkTypes, TypeOK
<1>2. CASE /\ PutJIT(worker[w].job, id)
           /\ worker' = [worker EXCEPT ![w].pc = "demand", ![w].rec.runner = id]
  <2>1. StoreEdited
    BY <1>2, TaskParts, PutJITEdits DEF TypeOK
  <2>2. [worker[w].rec EXCEPT !.runner = id] \in Record
    BY TaskParts DEF TypeOK, Record
  <2>3. "demand" \in WorkerPcs
    BY DEF WorkerPcs, ProvisionPcs
  <2>4. t \in Task
    BY <2>2, <2>3, TaskParts DEF TypeOK, Task, WorkerPcs
  <2>5. worker' = [worker EXCEPT ![w] = t]
    BY <1>2 DEF TypeOK, WorkerTypeOK
  <2> HIDE DEF t
  <2>6. WorkerTypeOK'
    BY <2>4, <2>5 DEF TypeOK, WorkerTypeOK
  <2> QED
    BY <2>1, <2>6, RemoteTypes DEF PersistJIT, WorkTypes
<1> QED
  BY <1>1, <1>2 DEF PersistJIT

LEMMA DropJITTypes ==
  ASSUME TypeOK, NEW w \in Workers, DropJIT(w)
  PROVE  WorkTypes
<1>1. GitHubTypeOK'
  BY RemoteTypes, RemoveType DEF DropJIT, TypeOK
<1>2. WorkerTypeOK'
  BY GotoTypes, ErrorTypes DEF DropJIT, TypeOK
<1> QED
  BY <1>1, <1>2, RemoteTypes DEF DropJIT, WorkTypes

LEMMA CreateTypes ==
  ASSUME TypeOK, NEW w \in Workers, Create(w)
  PROVE  WorkTypes
<1> DEFINE j == worker[w].job
           id == worker[w].jit
<1>1. CASE \E i \in Instances :
             /\ CreateReuses(j, i) \/ CreateStarts(j, i, id)
             /\ worker' = [worker EXCEPT ![w].pc = "persistVM", ![w].inst = i]
  <2>1. PICK i \in Instances :
             /\ CreateReuses(j, i) \/ CreateStarts(j, i, id)
             /\ worker' = [worker EXCEPT ![w].pc = "persistVM", ![w].inst = i]
    BY <1>1
  <2>2. ProviderTypeOK'
    BY <2>1, TaskParts, StartTypes, RemoteTypes DEF CreateReuses, CreateStarts, TypeOK
  <2>3. worker' = [worker EXCEPT ![w].inst = i, ![w].pc = "persistVM"]
    BY <2>1 DEF TypeOK, WorkerTypeOK, Task
  <2>4. "persistVM" \in WorkerPcs
    BY DEF WorkerPcs, ProvisionPcs
  <2>5. WorkerTypeOK'
    BY <2>3, <2>4, InHandTypes DEF TypeOK
  <2> QED
    BY <2>2, <2>5, RemoteTypes DEF Create, WorkTypes
<1>2. CASE \E e : CreateFails(j, id, e) /\ Goto(w, ProvisionFailed(w, e))
  <2>1. ProviderTypeOK'
    BY <1>2, TaskParts, CreateFailedTypes DEF TypeOK
  <2> QED
    BY <1>2, <2>1, GotoTypes, ErrorTypes, RemoteTypes DEF Create, WorkTypes, TypeOK
<1> QED
  BY <1>1, <1>2 DEF Create

LEMMA PersistVMTypes ==
  ASSUME TypeOK, NEW w \in Workers, PersistVM(w)
  PROVE  WorkTypes
<1>1. StoreEdited
  BY TaskParts, PutInstanceEdits, RemoteTypes DEF PersistVM, TypeOK
<1>2. WorkerTypeOK'
  BY TaskParts, GotoTypes, HalfDoneTypes, ErrorTypes DEF PersistVM, TypeOK
<1> QED
  BY <1>1, <1>2, RemoteTypes DEF PersistVM, WorkTypes

LEMMA IndexVMTypes ==
  ASSUME TypeOK, NEW w \in Workers, IndexVM(w)
  PROVE  WorkTypes
<1>1. StoreEdited
  BY TaskParts, IndexInstanceEdits DEF IndexVM, TypeOK
<1>2. WorkerTypeOK'
  BY FinishTypes DEF IndexVM, TypeOK
<1> QED
  BY <1>1, <1>2, RemoteTypes DEF IndexVM, WorkTypes

LEMMA CleanupExhaustedTypes ==
  ASSUME TypeOK, NEW w \in Workers, CleanupExhausted(w)
  PROVE  WorkTypes
<1>1. ProviderTypeOK'
  BY CleanupType DEF CleanupExhausted, TypeOK
<1>2. {"markFailed", "exhaustedJIT"} \subseteq WorkerPcs
  BY DEF WorkerPcs, ProvisionPcs
<1>3. WorkerTypeOK'
  BY <1>2, GotoTypes, ErrorTypes DEF CleanupExhausted, TypeOK
<1> QED
  BY <1>1, <1>3, RemoteTypes DEF CleanupExhausted, WorkTypes

LEMMA DeleteInstanceTypes ==
  ASSUME TypeOK, NEW w \in Workers, DeleteInstance(w)
  PROVE  WorkTypes
<1>1. ProviderTypeOK'
  BY DeleteVMType DEF DeleteInstance, TypeOK
<1>2. {"accept", "cleanup"} \subseteq WorkerPcs
  BY DEF WorkerPcs, DeletePcs
<1>3. WorkerTypeOK'
  BY <1>2, GotoTypes, ErrorTypes DEF DeleteInstance, TypeOK
<1> QED
  BY <1>1, <1>3, RemoteTypes DEF DeleteInstance, WorkTypes

LEMMA AcceptDeletionTypes ==
  ASSUME TypeOK, NEW w \in Workers, AcceptDeletion(w)
  PROVE  WorkTypes
<1> DEFINE j == worker[w].job
           i == worker[w].rec.instance
<1>1. j \in Jobs => Edits(records[j], MarkDeletionAccepted(records[j], i))
  BY TaskParts, StoredRecord, MarkAcceptedEdits DEF TypeOK
<1>2. StoreEdited
  BY <1>1, PutEdits, RemoteTypes DEF AcceptDeletion, TypeOK
<1>3. "confirm" \in WorkerPcs
  BY DEF WorkerPcs, DeletePcs
<1>4. WorkerTypeOK'
  BY <1>3, GotoTypes, ErrorTypes DEF AcceptDeletion, TypeOK
<1> QED
  BY <1>2, <1>4, RemoteTypes DEF AcceptDeletion, WorkTypes

LEMMA LooksTypes ==
  ASSUME TypeOK, NEW w \in Workers, ConfirmAbsence(w) \/ Recheck(w)
  PROVE  WorkTypes
<1>1. {"cleanup", "await", "releaseDelete", "askOriginal", "finish"} \subseteq WorkerPcs
  BY DEF WorkerPcs, DeletePcs
<1>2. \E pc \in WorkerPcs : Goto(w, pc)
  BY <1>1 DEF ConfirmAbsence, Recheck
<1> QED
  BY <1>2, GotoTypes, RemoteTypes DEF ConfirmAbsence, Recheck, WorkTypes, TypeOK

LEMMA AskOriginalTypes ==
  ASSUME TypeOK, NEW w \in Workers, AskOriginal(w)
  PROVE  WorkTypes
<1> DEFINE queued == jobState[worker[w].job] = "queued"
<1>1. {"finish", "releaseDelete", "deferReassigned"} \subseteq WorkerPcs
  BY DEF WorkerPcs, DeletePcs
<1>2. CASE worker' = [worker EXCEPT ![w].pc = "finish", ![w].queued = queued]
  <2>1. queued \in BOOLEAN
    OBVIOUS
  <2> HIDE DEF queued
  <2>2. [worker[w] EXCEPT !.pc = "finish", !.queued = queued] \in Task
    BY <1>1, <2>1, TaskParts DEF TypeOK, Task, WorkerPcs
  <2> QED
    BY <1>2, <2>2, RemoteTypes DEF AskOriginal, WorkTypes, TypeOK, WorkerTypeOK
<1>3. CASE \E pc \in WorkerPcs : Goto(w, pc)
  BY <1>3, GotoTypes, RemoteTypes DEF AskOriginal, WorkTypes, TypeOK
<1> QED
  BY <1>1, <1>2, <1>3 DEF AskOriginal

LEMMA CleanupRestTypes ==
  ASSUME TypeOK, NEW w \in Workers, CleanupRest(w)
  PROVE  WorkTypes
<1>1. ProviderTypeOK'
  BY CleanupType DEF CleanupRest, TypeOK
<1>2. {"recheck", "deregister"} \subseteq WorkerPcs
  BY DEF WorkerPcs, DeletePcs
<1>3. WorkerTypeOK'
  BY <1>2, GotoTypes, ErrorTypes DEF CleanupRest, TypeOK
<1> QED
  BY <1>1, <1>3, RemoteTypes DEF CleanupRest, WorkTypes

LEMMA EndingTypes ==
  ASSUME TypeOK, NEW w \in Workers,
         AwaitAbsence(w) \/ FinishDeletion(w) \/ FinishFailed(w)
  PROVE  WorkTypes
<1> DEFINE j == worker[w].job
<1>1. ASSUME j \in Jobs
      PROVE  /\ Edits(records[j], DeferDeletionConfirmation(records[j]))
             /\ Edits(records[j], FinishDeletedRunner(records[j], worker[w].queued))
             /\ Edits(records[j], MarkDeleteFailed(records[j]))
  BY <1>1, StoredRecord, DeferConfirmationEdits, FinishEdits, MarkDeleteFailedEdits
     DEF TypeOK
<1>2. StoreEdited
  BY <1>1, PutEdits, RemoteTypes DEF AwaitAbsence, FinishDeletion, FinishFailed, TypeOK
<1>3. {"releaseDelete", "finishFailed"} \subseteq WorkerPcs
  BY DEF WorkerPcs, DeletePcs
<1>4. WorkerTypeOK'
  BY <1>3, GotoTypes, FinishTypes DEF AwaitAbsence, FinishDeletion, FinishFailed, TypeOK
<1> QED
  BY <1>2, <1>4, RemoteTypes DEF AwaitAbsence, FinishDeletion, FinishFailed, WorkTypes

LEMMA WorkerStepTypes ==
  ASSUME TypeOK, NEW w \in Workers, WorkerStep(w)
  PROVE  WorkTypes
<1>1. CASE ProvisionStep(w)
  BY <1>1, FindTypes, DropVMTypes, DemandTypes, RetireTypes, GenerateTypes,
     PersistJITTypes, DropJITTypes, CreateTypes, PersistVMTypes, IndexVMTypes,
     CleanupExhaustedTypes DEF ProvisionStep
<1>2. CASE DeleteStep(w)
  BY <1>2, DeleteInstanceTypes, AcceptDeletionTypes, LooksTypes, AskOriginalTypes,
     CleanupRestTypes, EndingTypes DEF DeleteStep
<1> QED
  BY <1>1, <1>2, ClaimTypes, ScanTypes, DeregisterTypes, ClearTypes, EndWorkTypes
     DEF WorkerStep

-----------------------------------------------------------------------------
(* Types of the reaper, of restarts and of the world outside.                *)

FleetTypes == StoreEdited /\ FleetTypeOK'

\* A step that leaves the workers and both passes alone.
LEMMA AroundTypes ==
  ASSUME FleetTypeOK, StoreEdited, GitHubTypeOK', ProviderTypeOK',
         UNCHANGED <<worker, reaper, crashes, auditor>>
  PROVE  FleetTypes
  BY DEF FleetTypeOK, TypeOK, AuditorTypeOK, FleetTypes, StoreEdited, WorkerTypeOK,
     ReaperTypeOK

LEMMA OutsideTypes ==
  ASSUME FleetTypeOK, Outside, UNCHANGED auditor
  PROVE  FleetTypes
<1> USE DEF FleetTypeOK
<1>1. ASSUME NEW j \in Jobs, QueuedWebhook(j) PROVE FleetTypes
  <2>1. Edits(records[j], NewDemand)
    BY <1>1, NewDemandEdits DEF QueuedWebhook, CreateRecord, Edits, Basic
  <2>2. StoreEdited
    BY <1>1, <2>1, PutEdits DEF QueuedWebhook, CreateRecord, TypeOK
  <2> QED
    BY <1>1, <2>2, RemoteTypes, AroundTypes DEF QueuedWebhook
<1>2. ASSUME NEW j \in Jobs, CompletedWebhook(j) PROVE FleetTypes
  <2> DEFINE id == ranOn[j]
             matched == MatchedKey(id)
             unmatched == id \in Runners /\ matched = NoJob
  <2>1. \A k \in Jobs : Edits(records[k], records'[k])
    <3> TAKE k \in Jobs
    <3> DEFINE own == k = j
    <3>1. records[k] \in Record /\ own \in BOOLEAN
      BY StoredRecord DEF TypeOK
    <3>2. \/ records'[k] = MatchedCompletion(records[k], own)
          \/ records'[k] = EventCompletion(records[k], id)
          \/ records'[k] = records[k]
      BY <1>2 DEF CompletedWebhook, RecordCompletion
    <3> HIDE DEF own
    <3> QED
      BY <3>1, <3>2, MatchedCompletionEdits, EventCompletionEdits, EditsFacts
  <2>2. records' \in [Jobs -> Record]
    BY <1>2, <2>1, EditsFacts DEF CompletedWebhook, RecordCompletion
  <2>3. /\ markers' \in [Runners -> Jobs \cup {NoJob}]
        /\ runnerKeys' \in [Runners -> Jobs \cup {NoJob}] /\ faults' = faults
    BY <1>2 DEF CompletedWebhook, RecordCompletion, TypeOK, StoreTypeOK
  <2>4. StoreEdited
    BY <2>1, <2>2, <2>3, WritesFacts DEF StoreEdited, AllEdited, TypeOK, StoreTypeOK
  <2> QED
    BY <1>2, <2>4, RemoteTypes, AroundTypes DEF CompletedWebhook
<1>3. ASSUME NEW j \in Jobs, RunnerTakesJob(j) \/ ForeignRunnerTakesJob(j) \/ JobEnds(j)
      PROVE  FleetTypes
  <2>1. GitHubTypeOK'
    <3>1. CASE RunnerTakesJob(j)
      <4>1. \A i \in Instances : vm[i].runner \in Runners \cup {NoRunner}
        BY DEF TypeOK, ProviderTypeOK
      <4> QED
        BY <3>1, <4>1 DEF RunnerTakesJob, TakeJob, TypeOK, GitHubTypeOK
    <3>2. CASE ForeignRunnerTakesJob(j) \/ JobEnds(j)
      BY <3>2 DEF ForeignRunnerTakesJob, JobEnds, TakeJob, FinishJob, CancelQueuedJob,
         TypeOK, GitHubTypeOK
    <3> QED
      BY <1>3, <3>1, <3>2
  <2>2. StoreEdited /\ ProviderTypeOK'
    BY <1>3, RemoteTypes DEF RunnerTakesJob, ForeignRunnerTakesJob, JobEnds
  <2> QED
    BY <1>3, <2>1, <2>2, AroundTypes DEF RunnerTakesJob, ForeignRunnerTakesJob, JobEnds
<1>4. ASSUME NEW j \in Jobs, RetryTimePasses(j) PROVE FleetTypes
  <2>1. Edits(records[j], [records[j] EXCEPT !.due = TRUE])
    <3>1. Keeps(records[j], records[j])
      BY StoredRecord DEF Keeps, TypeOK
    <3> QED
      BY <3>1, SettingKeeps, KeepsEdits
  <2>2. StoreEdited
    BY <1>4, <2>1, PutEdits DEF RetryTimePasses, BecomeDue, TypeOK
  <2> QED
    BY <1>4, <2>2, RemoteTypes, AroundTypes DEF RetryTimePasses
<1>5. ASSUME NEW i \in Instances, InstanceMoves(i) PROVE FleetTypes
  <2>1. ProviderTypeOK'
    BY <1>5 DEF InstanceMoves, Appear, Disappear, Preempted, TypeOK, ProviderTypeOK, VMStates
  <2> QED
    BY <1>5, <2>1, RemoteTypes, AroundTypes DEF InstanceMoves
<1> QED
  BY <1>1, <1>2, <1>3, <1>4, <1>5 DEF Outside

LEMMA WorkersTypes ==
  ASSUME FleetTypeOK, WorkersMove, UNCHANGED auditor
  PROVE  FleetTypes
<1>1. WorkTypes
  BY WorkerStepTypes DEF WorkersMove, FleetTypeOK
<1>2. UNCHANGED <<reaper, crashes>>
  BY DEF WorkersMove, WorkerStep
<1> QED
  BY <1>1, <1>2 DEF FleetTypeOK, TypeOK, AuditorTypeOK, FleetTypes, WorkTypes,
     StoreEdited, ReaperTypeOK

LEMMA ReapGotoTypes ==
  ASSUME ReaperTypeOK, NEW pc \in ReaperPcs, ReapGoto(pc)
  PROVE  ReaperTypeOK'
  BY DEF ReaperTypeOK, ReapGoto

LEMMA ReapNextTypes ==
  ASSUME ReaperTypeOK, ReapNext
  PROVE  ReaperTypeOK'
  BY AbsentSound DEF ReaperTypeOK, ReapNext, ReaperPcs, Sound

LEMMA ReaperStepTypes ==
  ASSUME TypeOK, ReaperStep
  PROVE  StoreEdited /\ GitHubTypeOK' /\ ProviderTypeOK' /\ ReaperTypeOK'
<1> DEFINE Done == StoreEdited /\ GitHubTypeOK' /\ ProviderTypeOK' /\ ReaperTypeOK'
           j == reaper.job
<1>1. CASE ListExpired
  <2>1. PICK listed \in SUBSET Jobs :
          reaper' = [reaper EXCEPT !.todo =
                      [k \in Jobs |-> IF k \in listed THEN records[k] ELSE Absent]]
    <3>1. PICK old \in SUBSET {k \in Jobs : MayExpire(records[k])} :
            reaper' = [reaper EXCEPT !.todo =
              [k \in Jobs |-> IF k \in old \cup {l \in Jobs : MustExpire(records[l])}
                              THEN records[k] ELSE Absent]]
      BY <1>1 DEF ListExpired
    <3>2. old \cup {l \in Jobs : MustExpire(records[l])} \in SUBSET Jobs
      BY <3>1
    <3> QED
      BY <3>1, <3>2
  <2>2. [k \in Jobs |-> IF k \in listed THEN records[k] ELSE Absent] \in [Jobs -> Record]
    BY AbsentSound DEF TypeOK, StoreTypeOK, Sound
  <2>3. ReaperTypeOK'
    BY <2>1, <2>2 DEF TypeOK, ReaperTypeOK
  <2> QED
    BY <1>1, <2>3, RemoteTypes DEF ListExpired
<1>2. ASSUME NEW k \in Jobs, ExpireRunner(k) PROVE Done
  <2> DEFINE r == reaper.todo[k]
             pc == IF r.instance = NoInstance THEN "begin"
                   ELSE IF r.defer /\ r.runner # NoRunner THEN "prepare" ELSE "schedule"
             rest == [reaper.todo EXCEPT ![k] = Absent]
  <2>1. reaper' = [pc |-> pc, job |-> k, rec |-> r, todo |-> rest]
    BY <1>2 DEF ExpireRunner
  <2>2. r \in Record /\ rest \in [Jobs -> Record] /\ pc \in ReaperPcs
    BY AbsentSound DEF TypeOK, ReaperTypeOK, ReaperPcs, Sound
  <2> HIDE DEF r, pc, rest
  <2>3. ReaperTypeOK'
    BY <2>1, <2>2 DEF ReaperTypeOK
  <2> QED
    BY <1>2, <2>3, RemoteTypes DEF ExpireRunner
<1>3. CASE BeginCleanup
  <2>1. StoreEdited
    BY <1>3, BeginCleanupEdits, StoredRecord, PutEdits, RemoteTypes DEF BeginCleanup, TypeOK
  <2>2. {"reapVMs", "reapJIT"} \subseteq ReaperPcs
    BY DEF ReaperPcs
  <2>3. ReaperTypeOK'
    BY <1>3, <2>2, ReapGotoTypes, ReapNextTypes DEF BeginCleanup, TypeOK
  <2> QED
    BY <1>3, <2>1, <2>3, RemoteTypes DEF BeginCleanup
<1>4. CASE ReapDeregister
  <2>1. GitHubTypeOK'
    BY <1>4, RemoveType, RemovalFailsType DEF ReapDeregister, TypeOK
  <2>2. {"reapVMs", "clearPrepared", "clearOrphan", "markOrphan"} \subseteq ReaperPcs
    BY DEF ReaperPcs
  <2>3. \E pc \in ReaperPcs : ReapGoto(pc)
    BY <1>4, <2>2, ErrorPcs DEF ReapDeregister
  <2> QED
    BY <1>4, <2>1, <2>3, ReapGotoTypes, RemoteTypes DEF ReapDeregister, TypeOK
<1>5. CASE ReapVMs
  <2>1. ProviderTypeOK'
    BY <1>5, CleanupType DEF ReapVMs, TypeOK
  <2>2. {"markDeleted", "markOrphan", "orphanJIT"} \subseteq ReaperPcs
    BY DEF ReaperPcs
  <2>3. \E pc \in ReaperPcs : ReapGoto(pc)
    BY <1>5, <2>2, ErrorPcs DEF ReapVMs
  <2> QED
    BY <1>5, <2>1, <2>3, ReapGotoTypes, RemoteTypes DEF ReapVMs, TypeOK
<1>6. CASE ReapClear
  <2>1. StoreEdited
    BY <1>6, ClearJITEdits, StoredRecord, PutEdits, RemoteTypes DEF ReapClear, TypeOK
  <2>2. \E pc \in ReaperPcs : ReapGoto(pc)
    BY <1>6 DEF ReapClear, ReaperPcs
  <2> QED
    BY <1>6, <2>1, <2>2, ReapGotoTypes, RemoteTypes DEF ReapClear, TypeOK
<1>7. CASE EndReap
  <2>1. ASSUME j \in Jobs PROVE Edits(records[j], ReapWrite)
    <3>1. records[j] \in Record
      BY <2>1, StoredRecord DEF TypeOK
    <3>2. CASE reaper.pc \in {"schedule", "markDeleted", "markOrphan", "cleanupFailed"}
      BY <3>1, <3>2, ScheduleDeletionEdits, MarkDeletedEdits, MarkOrphanedEdits,
         MarkDeleteFailedEdits DEF ReapWrite
    <3>3. CASE reaper.pc \in {"deferClientError", "deferLimited", "deferOther"}
      BY <3>1, <3>3, DeferReconciliationEdits DEF ReapWrite
    <3>4. CASE reaper.pc \in {"cleanupLimited", "cleanupTimeout"}
      BY <3>1, <3>4, DeferCleanupEdits DEF ReapWrite
    <3> QED
      BY <1>7, <3>2, <3>3, <3>4 DEF EndReap, ReapWritePcs
  <2>2. StoreEdited
    BY <1>7, <2>1, PutEdits, RemoteTypes DEF EndReap, TypeOK
  <2> QED
    BY <1>7, <2>2, ReapNextTypes, RemoteTypes DEF EndReap, TypeOK
<1>8. ASSUME NEW id \in Runners, ReapMarker(id) PROVE Done
  <2>1. StoreEdited
    BY <1>8, WritesFacts DEF ReapMarker, TypeOK, StoreTypeOK, StoreEdited, AllEdited
  <2> QED
    BY <1>8, <2>1, RemoteTypes DEF ReapMarker, TypeOK, ReaperTypeOK
<1> QED
  BY <1>1, <1>2, <1>3, <1>4, <1>5, <1>6, <1>7, <1>8 DEF ReaperStep

LEMMA ReaperExpiresTypes ==
  ASSUME FleetTypeOK, ReaperExpires
  PROVE  FleetTypes
<1>1. CASE ReaperStep /\ UNCHANGED <<worker, crashes>>
  BY <1>1, ReaperStepTypes DEF ReaperExpires, FleetTypeOK, TypeOK, AuditorTypeOK,
     FleetTypes, StoreEdited, WorkerTypeOK
<1>2. ASSUME NEW j \in Jobs, RetentionPasses(j) PROVE FleetTypes
  <2>1. Edits(records[j], Absent)
    <3>1. Absent \in Record /\ Clean(Absent) /\ Absent.status = "absent"
      BY AbsentSound DEF Sound, Clean, Absent
    <3> QED
      BY <3>1 DEF Edits, Basic
  <2>2. StoreEdited
    BY <1>2, <2>1, PutEdits DEF RetentionPasses, PruneDeleted, FleetTypeOK, TypeOK
  <2> QED
    BY <1>2, <2>2, RemoteTypes, AroundTypes DEF RetentionPasses, ReaperExpires, FleetTypeOK
<1> QED
  BY <1>1, <1>2 DEF ReaperExpires, ReaperMoves

LEMMA AuditIdleTypes ==
  AuditIdle \in [pass : Passes \cup {"none"}, pc : AuditPcs, job : Jobs \cup {NoJob},
                 rec : Record, todo : [Jobs -> Record], known : SUBSET Instances,
                 old : SUBSET Instances, doomed : SUBSET Instances]
<1>1. "idle" \in AuditPcs
  BY DEF AuditPcs
<1> QED
  BY <1>1, AbsentSound DEF AuditIdle, NothingListed, Sound

LEMMA RestartTypes ==
  ASSUME FleetTypeOK, Restart, auditor' = AuditIdle
  PROVE  FleetTypes
<1> USE DEF FleetTypeOK
<1>1. \A j \in Jobs : Edits(records[j], records'[j])
  BY RecoverEdits, StoredRecord DEF Restart, Reopen, RecoveredRecords, TypeOK
<1>2. records' \in [Jobs -> Record]
  BY <1>1, EditsFacts DEF Restart, Reopen, RecoveredRecords
<1>3. runnerKeys' \in [Runners -> Jobs \cup {NoJob}]
  BY RebuiltIndexType DEF Restart, Reopen
<1>4. StoreEdited
  BY <1>1, <1>2, <1>3, WritesFacts
     DEF Restart, Reopen, TypeOK, StoreTypeOK, StoreEdited, AllEdited
<1>5. WorkerTypeOK' /\ ReaperTypeOK'
  <2>1. WorkerTypeOK'
    BY IdleTask DEF Restart, WorkerTypeOK
  <2>2. ReaperTypeOK'
    BY AbsentSound DEF Restart, ReaperTypeOK, ReaperIdle, NothingListed, ReaperPcs, Sound
  <2> QED
    BY <2>1, <2>2
<1>6. crashes' \in 0 .. MaxCrashes
  BY ControllerAssumption DEF Restart, TypeOK
<1>7. AuditorTypeOK'
  BY AuditIdleTypes DEF AuditorTypeOK
<1> QED
  BY <1>4, <1>5, <1>6, <1>7, RemoteTypes DEF Restart, TypeOK, FleetTypes, StoreEdited

-----------------------------------------------------------------------------
(* Types of the liveness pass.                                               *)

AuditTypes == StoreEdited /\ GitHubTypeOK' /\ ProviderTypeOK' /\ AuditorTypeOK'

LEMMA AuditGotoTypes ==
  ASSUME AuditorTypeOK, NEW pc \in AuditPcs, AuditGoto(pc)
  PROVE  AuditorTypeOK'
  BY DEF AuditorTypeOK, AuditGoto

LEMMA AuditNextTypes ==
  ASSUME AuditorTypeOK, AuditNext
  PROVE  AuditorTypeOK'
<1>1. "idle" \in AuditPcs
  BY DEF AuditPcs
<1>2. [auditor EXCEPT !.pc = "idle", !.job = NoJob, !.rec = Absent] \in
        [pass : Passes \cup {"none"}, pc : AuditPcs, job : Jobs \cup {NoJob},
         rec : Record, todo : [Jobs -> Record], known : SUBSET Instances,
         old : SUBSET Instances, doomed : SUBSET Instances]
  BY <1>1, AbsentSound DEF AuditorTypeOK, Sound
<1> QED
  BY <1>2, AuditIdleTypes DEF AuditNext, AuditorTypeOK

LEMMA AuditIdles ==
  ASSUME auditor' = AuditIdle
  PROVE  AuditorTypeOK'
  BY AuditIdleTypes DEF AuditorTypeOK

\* Where the handling of a copy may lead.
Leads == AuditNext \/ \E pc \in AuditPcs : AuditGoto(pc)

LEMMA LeadsTypes ==
  ASSUME AuditorTypeOK, Leads
  PROVE  AuditorTypeOK'
  BY AuditGotoTypes, AuditNextTypes DEF Leads

LEMMA DeferralPcs == \A e : Deferral(e) \subseteq AuditPcs
  BY DEF Deferral, AuditPcs

LEMMA PassTypes ==
  ASSUME FleetTypeOK, NEW pass \in Passes, StartPass(pass)
  PROVE  AuditTypes
<1>1. PICK listed \in SUBSET Jobs :
        auditor' = [AuditIdle EXCEPT !.pass = pass, !.todo =
                      [j \in Jobs |-> IF j \in listed THEN records[j] ELSE Absent]]
  <2>1. PICK skipped \in SUBSET {j \in Jobs : Rests(pass, records[j])} :
          auditor' = [AuditIdle EXCEPT !.pass = pass, !.todo =
            [j \in Jobs |-> IF j \in {k \in Jobs : Listed(pass, records[k])} \ skipped
                            THEN records[j] ELSE Absent]]
    BY DEF StartPass
  <2>2. {k \in Jobs : Listed(pass, records[k])} \ skipped \in SUBSET Jobs
    OBVIOUS
  <2> QED
    BY <2>1, <2>2
<1>2. [j \in Jobs |-> IF j \in listed THEN records[j] ELSE Absent] \in [Jobs -> Record]
  BY AbsentSound DEF FleetTypeOK, TypeOK, StoreTypeOK, Sound
<1>3. AuditorTypeOK'
  BY <1>1, <1>2, AuditIdleTypes DEF AuditorTypeOK
<1> QED
  BY <1>3, RemoteTypes DEF StartPass, AuditTypes, FleetTypeOK

LEMMA TakeNextTypes ==
  ASSUME FleetTypeOK, NEW j \in Jobs, TakeNext(j), auditor.pass \in Passes \ {"sweep"}
  PROVE  AuditTypes
<1> DEFINE pc == FirstCheck(auditor.pass)
           rec == auditor.todo[j]
           rest == [auditor.todo EXCEPT ![j] = Absent]
<1>1. pc \in AuditPcs
  BY DEF FirstCheck, Passes, AuditPcs
<1>2. rec \in Record /\ rest \in [Jobs -> Record]
  BY AbsentSound DEF FleetTypeOK, AuditorTypeOK, Sound
<1>3. auditor' = [auditor EXCEPT !.pc = pc, !.job = j, !.rec = rec, !.todo = rest]
  BY DEF TakeNext, FleetTypeOK, AuditorTypeOK
<1> HIDE DEF pc, rec, rest
<1>4. AuditorTypeOK'
  BY <1>1, <1>2, <1>3 DEF FleetTypeOK, AuditorTypeOK
<1> QED
  BY <1>4, RemoteTypes DEF TakeNext, AuditTypes, FleetTypeOK

LEMMA AskAbsenceTypes ==
  ASSUME FleetTypeOK, AskAbsence
  PROVE  AuditTypes
<1>1. Leads
  BY DEF AskAbsence, Leads, AuditPcs
<1> QED
  BY <1>1, LeadsTypes, RemoteTypes DEF AskAbsence, AuditTypes, FleetTypeOK

LEMMA StartSweepTypes ==
  ASSUME FleetTypeOK, StartSweep
  PROVE  AuditTypes
<1>1. PICK old \in SUBSET Instances :
        auditor' = [AuditIdle EXCEPT !.pass = "sweep", !.pc = "sweepList",
                                     !.known = KnownInstances, !.old = old]
  BY DEF StartSweep
<1>2. KnownInstances \in SUBSET Instances
  BY DEF KnownInstances
<1>3. "sweep" \in Passes /\ "sweepList" \in AuditPcs
  BY DEF Passes, AuditPcs
<1>4. AuditorTypeOK'
  BY <1>1, <1>2, <1>3, AuditIdleTypes DEF AuditorTypeOK
<1> QED
  BY <1>4, RemoteTypes DEF StartSweep, AuditTypes, FleetTypeOK

LEMMA SweepListTypes ==
  ASSUME FleetTypeOK, SweepList
  PROVE  AuditTypes
<1> DEFINE doomed == {i \in auditor.old \ auditor.known : vm[i].state = "running"}
<1>1. CASE auditor' = [auditor EXCEPT !.pc = "sweepDrop", !.doomed = doomed]
  <2>1. doomed \in SUBSET Instances /\ "sweepDrop" \in AuditPcs
    BY DEF FleetTypeOK, AuditorTypeOK, AuditPcs
  <2> HIDE DEF doomed
  <2>2. AuditorTypeOK'
    BY <1>1, <2>1 DEF FleetTypeOK, AuditorTypeOK
  <2> QED
    BY <2>2, RemoteTypes DEF SweepList, AuditTypes, FleetTypeOK
<1>2. CASE auditor' = AuditIdle
  BY <1>2, AuditIdles, RemoteTypes DEF SweepList, AuditTypes, FleetTypeOK
<1> QED
  BY <1>1, <1>2 DEF SweepList

LEMMA SweepDropTypes ==
  ASSUME FleetTypeOK, SweepDrop
  PROVE  AuditTypes
<1>1. ProviderTypeOK'
  BY DeleteVMType, RemoteTypes DEF SweepDrop, FleetTypeOK, TypeOK
<1>2. \/ AuditGoto("sweepRelease") \/ auditor' = AuditIdle
      \/ \E i : auditor' = [auditor EXCEPT !.doomed = @ \ {i}]
  BY DEF SweepDrop
<1>3. ASSUME NEW i, auditor' = [auditor EXCEPT !.doomed = @ \ {i}]
      PROVE  AuditorTypeOK'
  BY <1>3 DEF FleetTypeOK, AuditorTypeOK
<1>4. "sweepRelease" \in AuditPcs
  BY DEF AuditPcs
<1>5. AuditorTypeOK'
  BY <1>2, <1>3, <1>4, AuditGotoTypes, AuditIdles DEF FleetTypeOK
<1> QED
  BY <1>1, <1>5, RemoteTypes DEF SweepDrop, AuditTypes, FleetTypeOK

LEMMA LooksLead ==
  ASSUME FindRunner \/ AskJob \/ AskRunner
  PROVE  Leads /\ UNCHANGED <<storeVars, githubVars, vm>>
<1>1. {"cleanDuplicates", "clearLost", "observeMissing", "askJob", "schedule", "dropIdle",
       "clearMissing", "askRunner", "observeLost", "clearChecks", "clearUnregistered",
       "clearOnline"} \subseteq AuditPcs
  BY DEF AuditPcs
<1>2. CASE FindRunner
  BY <1>1, <1>2, DeferralPcs DEF FindRunner, Leads
<1>3. CASE AskJob
  BY <1>1, <1>3, DeferralPcs DEF AskJob, Leads
<1>4. CASE AskRunner
  BY <1>1, <1>4, DeferralPcs DEF AskRunner, Leads
<1> QED
  BY <1>2, <1>3, <1>4

LEMMA RemoteCallsLead ==
  ASSUME AuditDeregister \/ DeleteUnregistered \/ CleanDuplicates
  PROVE  Leads
<1>1. {"clearRegistration", "clearIdle", "deleteUnregistered", "requeue", "deferOrphan",
       "dropDuplicates"} \subseteq AuditPcs
  BY DEF AuditPcs
<1>2. CASE AuditDeregister
  <2>1. AfterDrop \in AuditPcs
    BY <1>1, <1>2 DEF AuditDeregister, AfterDrop, AuditAt, DropPcs
  <2> QED
    BY <1>1, <1>2, <2>1, DeferralPcs DEF AuditDeregister, Leads
<1>3. CASE DeleteUnregistered
  BY <1>1, <1>3 DEF DeleteUnregistered, Leads
<1>4. CASE CleanDuplicates
  BY <1>1, <1>4 DEF CleanDuplicates, Leads
<1> QED
  BY <1>2, <1>3, <1>4

\* The store calls of the liveness pass, and what they make of the record.
Observation(r) ==
  \/ AuditAt("observeLost") /\ Put(auditor.job, ObserveGitHubRunnerMissing(r))
  \/ AuditAt("observeMissing") /\ Put(auditor.job, ObserveRunnerMissing(r))

Clearing(r) ==
  \/ AuditAt("clearMissing") /\ Put(auditor.job, ClearProviderMissing(r))
  \/ AuditAt("clearLost") /\ Put(auditor.job, ClearGitHubMissing(r))
  \/ AuditAt("clearIdle") /\ Put(auditor.job, ClearJIT(r))
  \/ auditor.pc \in {"clearOnline", "clearUnregistered"}
     /\ Put(auditor.job, ClearRunnerMissing(r))

LEMMA StoreCallsLead ==
  LET r == records[auditor.job]
  IN /\ ObserveLost \/ ObserveMissing => Leads /\ (Observation(r) \/ PutFails)
     /\ ClearObservation => Leads /\ (Clearing(r) \/ PutFails)
     /\ EndAudit => Leads /\ (Put(auditor.job, AuditWrite) \/ PutFails)
     /\ ReleaseAbsent => Leads /\ (\/ Put(auditor.job,
                                         ReleaseAbsentOrphan(r, auditor.rec.instance))
                                   \/ PutFails)
<1> DEFINE r == records[auditor.job]
<1>1. {"schedule", "requeue", "dropMissing", "askRunner", "observeMissing", "recordSeen",
       "deleteUnregistered", "dropUnregistered", "deferOther"} \subseteq AuditPcs
  BY DEF AuditPcs
<1>2. ObserveLost \/ ObserveMissing => Leads /\ (Observation(r) \/ PutFails)
  BY <1>1 DEF ObserveLost, ObserveMissing, AuditPut, Leads, Observation
<1>3. ASSUME ClearObservation PROVE Leads /\ (Clearing(r) \/ PutFails)
  <2>1. CASE AuditAt("clearMissing")
    BY <1>1, <1>3, <2>1 DEF ClearObservation, AuditPut, AuditAt, Leads, Clearing
  <2>2. CASE AuditAt("clearLost")
    BY <1>1, <1>3, <2>2 DEF ClearObservation, AuditPut, AuditAt, Leads, Clearing
  <2>3. CASE AuditAt("clearIdle")
    BY <1>1, <1>3, <2>3 DEF ClearObservation, AuditPut, AuditAt, Leads, Clearing
  <2>4. CASE auditor.pc = "clearOnline"
    BY <1>1, <1>3, <2>4 DEF ClearObservation, AuditPut, AuditAt, Leads, Clearing
  <2>5. CASE auditor.pc = "clearUnregistered"
    BY <1>1, <1>3, <2>5 DEF ClearObservation, AuditPut, AuditAt, Leads, Clearing
  <2> QED
    BY <1>3, <2>1, <2>2, <2>3, <2>4, <2>5 DEF ClearObservation, AuditAt
<1>4. EndAudit => Leads /\ (Put(auditor.job, AuditWrite) \/ PutFails)
  BY DEF EndAudit, AuditPut, Leads
<1>5. ReleaseAbsent => Leads /\ (\/ Put(auditor.job,
                                      ReleaseAbsentOrphan(r, auditor.rec.instance))
                                \/ PutFails)
  BY DEF ReleaseAbsent, AuditPut, Leads
<1> QED
  BY <1>2, <1>3, <1>4, <1>5

LEMMA AuditWriteEdits ==
  ASSUME FleetTypeOK, auditor.pc \in AuditWritePcs, auditor.job \in Jobs
  PROVE  Edits(records[auditor.job], AuditWrite)
<1>1. records[auditor.job] \in Record
  BY StoredRecord DEF FleetTypeOK, TypeOK
<1>2. CASE auditor.pc \in {"schedule", "requeue", "clearRegistration", "deferOrphan"}
  BY <1>1, <1>2, ScheduleDeletionEdits, RequeueEdits, ClearJITEdits, DeferOrphanEdits
     DEF AuditWrite, AuditAt
<1>3. CASE auditor.pc \in {"clearChecks", "recordSeen"}
  BY <1>1, <1>3, ObservationEdits DEF AuditWrite, AuditAt
<1>4. CASE auditor.pc \in {"deferClientError", "deferLimited", "deferOther"}
  BY <1>1, <1>4, DeferReconciliationEdits DEF AuditWrite, AuditAt
<1> QED
  BY <1>2, <1>3, <1>4 DEF AuditWritePcs

\* Every call of the pass but those that release an orphan edits its record.
LEMMA CallEdits ==
  ASSUME FleetTypeOK, CheckRunner \/ AuditDeregister \/ EndAudit
  PROVE  AuditTypes
<1> DEFINE j == auditor.job
           r == records[j]
<1>1. AuditorTypeOK'
  BY LooksLead, RemoteCallsLead, StoreCallsLead, LeadsTypes DEF CheckRunner, FleetTypeOK
<1>2. CASE FindRunner \/ AskJob \/ AskRunner
  BY <1>1, <1>2, LooksLead, RemoteTypes DEF AuditTypes, FleetTypeOK
<1>3. CASE AuditDeregister
  <2>1. GitHubTypeOK'
    BY <1>3, RemoveType, RemovalFailsType DEF AuditDeregister, FleetTypeOK, TypeOK
  <2> QED
    BY <1>1, <1>3, <2>1, RemoteTypes DEF AuditDeregister, AuditTypes, FleetTypeOK
<1>4. CASE DeleteUnregistered \/ CleanDuplicates
  <2>1. ProviderTypeOK'
    BY <1>4, DeleteVMType, CleanupType DEF DeleteUnregistered, CleanDuplicates,
       FleetTypeOK, TypeOK
  <2> QED
    BY <1>1, <1>4, <2>1, RemoteTypes DEF DeleteUnregistered, CleanDuplicates, AuditTypes,
       FleetTypeOK
<1>5. CASE ObserveLost \/ ObserveMissing \/ ClearObservation
  <2>1. ASSUME j \in Jobs
        PROVE  /\ Edits(r, ObserveRunnerMissing(r)) /\ Edits(r, ObserveGitHubRunnerMissing(r))
               /\ Edits(r, ClearProviderMissing(r)) /\ Edits(r, ClearGitHubMissing(r))
               /\ Edits(r, ClearJIT(r)) /\ Edits(r, ClearRunnerMissing(r))
    BY <2>1, StoredRecord, ObservationEdits, ClearJITEdits DEF FleetTypeOK, TypeOK
  <2>2. StoreEdited
    BY <1>5, <2>1, StoreCallsLead, PutEdits, RemoteTypes
       DEF Observation, Clearing, FleetTypeOK, TypeOK
  <2>3. GitHubTypeOK' /\ ProviderTypeOK'
    BY <1>5, RemoteTypes DEF ObserveLost, ObserveMissing, ClearObservation, FleetTypeOK
  <2> QED
    BY <1>1, <2>2, <2>3 DEF AuditTypes
<1>6. CASE EndAudit
  <2>1. StoreEdited
    BY <1>6, AuditWriteEdits, StoreCallsLead, PutEdits, RemoteTypes
       DEF EndAudit, FleetTypeOK, TypeOK
  <2> QED
    BY <1>1, <1>6, <2>1, RemoteTypes DEF EndAudit, AuditTypes, FleetTypeOK
<1> QED
  BY <1>2, <1>3, <1>4, <1>5, <1>6 DEF CheckRunner

LEMMA ReleaseAbsentTypes ==
  ASSUME FleetTypeOK, ReleaseAbsent
  PROVE  StoreTypeOK' /\ GitHubTypeOK' /\ ProviderTypeOK' /\ AuditorTypeOK'
<1> DEFINE j == auditor.job
           s == ReleaseAbsentOrphan(records[j], auditor.rec.instance)
<1>1. CASE PutFails
  BY <1>1, StoreCallsLead, LeadsTypes, RemoteTypes DEF ReleaseAbsent, StoreEdited, FleetTypeOK
<1>2. CASE Put(j, s)
  <2>1. j \in Jobs => s \in Record
    BY StoredRecord, ReleaseTypes DEF FleetTypeOK, TypeOK
  <2> HIDE DEF s
  <2>2. StoreTypeOK'
    BY <1>2, <2>1 DEF Put, FleetTypeOK, TypeOK, StoreTypeOK
  <2> QED
    BY <2>2, StoreCallsLead, LeadsTypes, RemoteTypes DEF ReleaseAbsent, FleetTypeOK
<1> QED
  BY <1>1, <1>2, StoreCallsLead

LEMMA SweepReleaseTypes ==
  ASSUME FleetTypeOK, SweepRelease
  PROVE  StoreTypeOK' /\ GitHubTypeOK' /\ ProviderTypeOK' /\ AuditorTypeOK'
<1>1. StoreTypeOK'
  <2>1. CASE PutFails
    BY <2>1, RemoteTypes DEF StoreEdited, FleetTypeOK
  <2>2. CASE /\ records' = [j \in Jobs |->
                              IF records[j].status = "orphaned"
                                 /\ records[j].instance \in auditor.old
                              THEN ReleaseSwept(records[j]) ELSE records[j]]
             /\ UNCHANGED <<runnerKeys, markers, faults>>
    <3>1. \A j \in Jobs : records[j] \in Record /\ ReleaseSwept(records[j]) \in Record
      BY StoredRecord, ReleaseTypes DEF FleetTypeOK, TypeOK
    <3> QED
      BY <2>2, <3>1 DEF FleetTypeOK, TypeOK, StoreTypeOK
  <2> QED
    BY <2>1, <2>2 DEF SweepRelease
<1> QED
  BY <1>1, AuditIdles, RemoteTypes DEF SweepRelease, FleetTypeOK

-----------------------------------------------------------------------------
(* Which pass the copies and the steps belong to.                            *)

AbsencePcs == {"askAbsence", "releaseAbsent"}
SweepPcs == {"sweepList", "sweepDrop", "sweepRelease"}

PassFits ==
  /\ auditor.pass \in {"none", "sweep"} => auditor.todo = NothingListed
  /\ auditor.pc \in AbsencePcs => auditor.pass = "orphans"
  /\ auditor.pass = "orphans" => ConfirmsAbsence

LEMMA IdleFits == AuditIdle.pass = "none" /\ AuditIdle.todo = NothingListed
                  /\ AuditIdle.pc = "idle"
  BY DEF AuditIdle

LEMMA IdlePassFits == auditor' = AuditIdle => PassFits'
  BY IdleFits DEF PassFits, AbsencePcs

\* A step within a pass.
LEMMA GotoFits ==
  ASSUME AuditorTypeOK, PassFits, NEW pc, AuditGoto(pc),
         pc \in AbsencePcs => auditor.pc \in AbsencePcs
  PROVE  PassFits'
  BY DEF AuditorTypeOK, PassFits, AuditGoto

LEMMA NextFits ==
  ASSUME AuditorTypeOK, PassFits, AuditNext
  PROVE  PassFits'
<1>1. CASE auditor' = AuditIdle
  BY <1>1, IdlePassFits
<1>2. CASE auditor' = [auditor EXCEPT !.pc = "idle", !.job = NoJob, !.rec = Absent]
  BY <1>2 DEF AuditorTypeOK, PassFits, AbsencePcs
<1> QED
  BY <1>1, <1>2 DEF AuditNext

\* The steps that handle a copy, but for asking for an absence, lead neither
\* near it nor into the sweep.
ChecksPcs == AuditPcs \ (AbsencePcs \cup SweepPcs)

Strays == AuditNext \/ \E pc \in ChecksPcs : AuditGoto(pc)

LEMMA StraysFit ==
  ASSUME AuditorTypeOK, PassFits, Strays
  PROVE  PassFits'
  BY GotoFits, NextFits DEF Strays, ChecksPcs

LEMMA DeferralStrays == \A e : Deferral(e) \subseteq ChecksPcs
  BY DEF Deferral, ChecksPcs, AuditPcs, AbsencePcs, SweepPcs

LEMMA CallsStray ==
  ASSUME CheckRunner \/ AuditDeregister \/ EndAudit \/ ReleaseAbsent
  PROVE  Strays
<1>1. {"cleanDuplicates", "clearLost", "observeMissing", "askJob", "schedule", "dropIdle",
       "clearMissing", "askRunner", "observeLost", "clearChecks", "clearUnregistered",
       "clearOnline", "clearRegistration", "clearIdle", "deleteUnregistered", "requeue",
       "deferOrphan", "dropDuplicates", "dropMissing", "recordSeen", "dropUnregistered",
       "deferOther"} \subseteq ChecksPcs
  BY DEF ChecksPcs, AuditPcs, AbsencePcs, SweepPcs
<1>2. CASE FindRunner
  BY <1>1, <1>2, DeferralStrays DEF FindRunner, Strays
<1>3. CASE AskJob
  BY <1>1, <1>3, DeferralStrays DEF AskJob, Strays
<1>4. CASE AskRunner
  BY <1>1, <1>4, DeferralStrays DEF AskRunner, Strays
<1>5. CASE ObserveLost \/ ObserveMissing
  BY <1>1, <1>5 DEF ObserveLost, ObserveMissing, AuditPut, Strays
<1>6. CASE ClearObservation
  <2>1. PICK pc \in {"askRunner", "observeMissing", "recordSeen", "schedule",
                     "deleteUnregistered", "dropUnregistered"} :
          AuditGoto(pc) \/ AuditNext \/ AuditGoto("deferOther")
    BY <1>6 DEF ClearObservation, AuditPut, AuditAt
  <2> QED
    BY <1>1, <2>1 DEF Strays
<1>7. CASE AuditDeregister
  <2>1. AfterDrop \in ChecksPcs
    BY <1>1, <1>7 DEF AuditDeregister, AfterDrop, AuditAt, DropPcs
  <2> QED
    BY <1>1, <1>7, <2>1, DeferralStrays DEF AuditDeregister, Strays
<1>8. CASE DeleteUnregistered \/ CleanDuplicates
  BY <1>1, <1>8 DEF DeleteUnregistered, CleanDuplicates, Strays
<1>9. CASE EndAudit \/ ReleaseAbsent
  BY <1>9 DEF EndAudit, ReleaseAbsent, AuditPut, Strays
<1> QED
  BY <1>2, <1>3, <1>4, <1>5, <1>6, <1>7, <1>8, <1>9 DEF CheckRunner

LEMMA AuditorStepFits ==
  ASSUME AuditorTypeOK, PassFits, AuditorStep
  PROVE  PassFits'
<1>1. ASSUME NEW pass \in Passes \ {"sweep"}, StartPass(pass) PROVE PassFits'
  <2>1. pass \notin {"none", "sweep"}
    BY DEF Passes
  <2>2. auditor'.pass = pass /\ auditor'.pc = "idle"
    BY <1>1, IdleFits DEF StartPass, AuditIdle
  <2> QED
    BY <1>1, <2>1, <2>2 DEF StartPass, PassFits, AbsencePcs
<1>2. ASSUME NEW j \in Jobs, TakeNext(j) PROVE PassFits'
  <2>1. auditor.pass \in Passes \ {"sweep"}
    BY <1>2 DEF TakeNext, PassFits, AuditorTypeOK, NothingListed, Absent
  <2>2. FirstCheck(auditor.pass) \in AbsencePcs => auditor.pass = "orphans"
    BY <2>1 DEF FirstCheck, Passes, AbsencePcs
  <2>3. auditor'.pass = auditor.pass /\ auditor'.pc = FirstCheck(auditor.pass)
    BY <1>2 DEF TakeNext, AuditorTypeOK
  <2>4. auditor.pass \notin {"none", "sweep"}
    BY <2>1 DEF Passes
  <2> QED
    BY <2>2, <2>3, <2>4 DEF PassFits
<1>3. CASE AskAbsence
  BY <1>3, GotoFits, NextFits DEF AskAbsence, AuditAt, AbsencePcs
<1>4. CASE ReleaseAbsent \/ CheckRunner \/ AuditDeregister \/ EndAudit
  BY <1>4, CallsStray, StraysFit
<1>5. CASE StartSweep
  <2>1. auditor'.pass = "sweep" /\ auditor'.pc = "sweepList"
        /\ auditor'.todo = NothingListed
    BY <1>5 DEF StartSweep, AuditIdle
  <2> QED
    BY <2>1 DEF PassFits, AbsencePcs
<1>6. CASE SweepList
  <2>1. \/ auditor' = AuditIdle
        \/ /\ auditor'.pass = auditor.pass /\ auditor'.pc = "sweepDrop"
           /\ auditor'.todo = auditor.todo
    BY <1>6 DEF SweepList, AuditorTypeOK
  <2> QED
    BY <2>1, IdlePassFits DEF PassFits, AbsencePcs
<1>7. CASE SweepDrop
  <2>1. \/ auditor' = AuditIdle
        \/ /\ auditor'.pass = auditor.pass /\ auditor'.pc \in {"sweepDrop", "sweepRelease"}
           /\ auditor'.todo = auditor.todo
    BY <1>7 DEF SweepDrop, AuditorTypeOK, AuditGoto, AuditAt
  <2> QED
    BY <2>1, IdlePassFits DEF PassFits, AbsencePcs
<1>8. CASE SweepRelease
  BY <1>8, IdlePassFits DEF SweepRelease
<1> QED
  BY <1>1, <1>2, <1>3, <1>4, <1>5, <1>6, <1>7, <1>8 DEF AuditorStep, Sweep

-----------------------------------------------------------------------------
(* Type correctness of the whole.                                            *)

TInv == FleetTypeOK /\ PassFits

LEMMA AuditorStepTypes ==
  ASSUME TInv, AuditorStep
  PROVE  /\ StoreTypeOK' /\ GitHubTypeOK' /\ ProviderTypeOK' /\ AuditorTypeOK'
         /\ AllEdited \/ ReleaseAbsent \/ SweepRelease
<1>1. ASSUME NEW j \in Jobs, TakeNext(j) PROVE AuditTypes
  <2>1. auditor.pass \in Passes \ {"sweep"}
    BY <1>1 DEF TakeNext, TInv, FleetTypeOK, PassFits, AuditorTypeOK, NothingListed, Absent
  <2> QED
    BY <1>1, <2>1, TakeNextTypes DEF TInv
<1>2. CASE \/ \E pass \in Passes \ {"sweep"} : StartPass(pass)
           \/ AskAbsence \/ StartSweep \/ SweepList \/ SweepDrop
           \/ CheckRunner \/ AuditDeregister \/ EndAudit
  BY <1>2, PassTypes, AskAbsenceTypes, StartSweepTypes, SweepListTypes, SweepDropTypes,
     CallEdits DEF TInv, AuditTypes, StoreEdited
<1>3. CASE ReleaseAbsent \/ SweepRelease
  BY <1>3, ReleaseAbsentTypes, SweepReleaseTypes DEF TInv
<1> QED
  BY <1>1, <1>2, <1>3 DEF AuditorStep, Sweep, AuditTypes, StoreEdited

\* How any step writes to the store.
LEMMA FleetEdits ==
  ASSUME TInv, [FleetNext]_fleetVars
  PROVE  TInv' /\ (AllEdited \/ ReleaseAbsent \/ SweepRelease)
<1>1. CASE (Outside \/ WorkersMove) /\ UNCHANGED auditor
  BY <1>1, OutsideTypes, WorkersTypes DEF TInv, FleetTypes, StoreEdited, PassFits
<1>2. CASE ReaperExpires
  BY <1>2, ReaperExpiresTypes DEF TInv, FleetTypes, StoreEdited, PassFits, ReaperExpires
<1>3. CASE ReaperAudits
  BY <1>3, AuditorStepTypes, AuditorStepFits DEF ReaperAudits, TInv, FleetTypeOK, TypeOK,
     WorkerTypeOK, ReaperTypeOK
<1>4. CASE Restart /\ auditor' = AuditIdle
  BY <1>4, RestartTypes, IdlePassFits DEF TInv, FleetTypes, StoreEdited
<1>5. CASE UNCHANGED fleetVars
  <2>1. UNCHANGED <<storeVars, githubVars, vm, worker, reaper, crashes, auditor>>
    BY <1>5 DEF fleetVars, vars
  <2>2. StoreEdited /\ GitHubTypeOK' /\ ProviderTypeOK'
    BY <2>1, RemoteTypes DEF TInv, FleetTypeOK
  <2>3. FleetTypes
    BY <2>1, <2>2, AroundTypes DEF TInv
  <2> QED
    BY <2>1, <2>3 DEF TInv, FleetTypes, StoreEdited, PassFits
<1> QED
  BY <1>1, <1>2, <1>3, <1>4, <1>5 DEF FleetNext

LEMMA FleetStarts == FleetInit => TInv
<1> SUFFICES ASSUME FleetInit PROVE TInv
  OBVIOUS
<1>1. TypeOK
  BY Initially DEF FleetInit, IInv
<1>2. AuditorTypeOK /\ PassFits
  BY AuditIdleTypes, IdleFits DEF FleetInit, AuditorInit, AuditorTypeOK, PassFits, AbsencePcs
<1> QED
  BY <1>1, <1>2 DEF TInv, FleetTypeOK

LEMMA TypeInvariance == FleetSpec => []TInv
<1>1. TInv /\ [FleetNext]_fleetVars => TInv'
  BY FleetEdits
<1> QED
  BY <1>1, FleetStarts, PTL DEF FleetSpec

\* Type correctness of the whole controller, for both kinds of providers and
\* whatever the liveness pass finds: also with copies of any age, every mutator
\* leaves a record the store could have written, and every pass handles only
\* copies of the kind it has listed.
THEOREM FleetTypeCorrect == FleetSpec => []FleetTypeOK
<1>1. TInv => FleetTypeOK
  BY DEF TInv
<1> QED
  BY <1>1, TypeInvariance, PTL

-----------------------------------------------------------------------------
(* An instance that is gone stays gone: ids are not used again, and every    *)
(* call of the adapters changes only instances that are still there.         *)

GoneStays == \A i \in Instances : vm[i].state = "gone" => vm'[i].state = "gone"

LEMMA CallsLeaveGone ==
  ASSUME ProviderTypeOK
  PROVE  /\ UNCHANGED vm => GoneStays
         /\ \A i : DeleteVM(i) => GoneStays
         /\ \A i : DeleteFails(i) \/ DeleteMismatches(i) => GoneStays
         /\ \A i \in Instances : Appear(i) \/ Disappear(i) \/ Preempted(i) => GoneStays
         /\ \A i \in Instances : \A j, id : StartVM(i, j, id) => GoneStays
         /\ \A j, k : CleanupVMs(j, k) => GoneStays
         /\ \A j, k : CleanupStops(j, k) \/ CleanupMismatches(j, k) => GoneStays
<1>1. UNCHANGED vm => GoneStays
  BY DEF GoneStays
<1>2. ASSUME NEW i, DeleteVM(i) PROVE GoneStays
  BY <1>2 DEF GoneStays, DeleteVM, Alive, ProviderTypeOK
<1>3. ASSUME NEW i \in Instances, Appear(i) \/ Disappear(i) \/ Preempted(i) PROVE GoneStays
  BY <1>3 DEF GoneStays, Appear, Disappear, Preempted, ProviderTypeOK
<1>4. ASSUME NEW i \in Instances, NEW j, NEW id, StartVM(i, j, id) PROVE GoneStays
  BY <1>4 DEF GoneStays, StartVM, ProviderTypeOK
<1>5. ASSUME NEW j, NEW k, CleanupVMs(j, k) PROVE GoneStays
  BY <1>5 DEF GoneStays, CleanupVMs, ListedFor, ProviderTypeOK
<1>6. ASSUME NEW j, NEW k, CleanupStops(j, k) PROVE GoneStays
  BY <1>6 DEF GoneStays, CleanupStops, ListedFor, ProviderTypeOK
<1> QED
  BY <1>1, <1>2, <1>3, <1>4, <1>5, <1>6 DEF DeleteFails, DeleteMismatches, CleanupMismatches

LEMMA CreateLeavesGone ==
  ASSUME ProviderTypeOK, NEW j, NEW id, NEW e, CreateFails(j, id, e)
  PROVE  GoneStays
  BY CallsLeaveGone DEF CreateFails, CreateStarts

LEMMA WorkerLeavesGone ==
  ASSUME ProviderTypeOK, NEW w \in Workers, WorkerStep(w)
  PROVE  GoneStays
<1>1. CASE Claim(w) \/ Scan(w) \/ Deregister(w) \/ Clear(w) \/ EndWork(w)
  BY <1>1, CallsLeaveGone
     DEF Claim, Scan, Deregister, Clear, EndWork, CallsStore, CallsGitHub
<1>2. CASE Find(w) \/ CheckDemand(w) \/ AskDemand(w) \/ Retire(w) \/ Generate(w)
           \/ PersistJIT(w) \/ DropJIT(w) \/ PersistVM(w) \/ IndexVM(w)
  BY <1>2, CallsLeaveGone
     DEF Find, CheckDemand, AskDemand, Retire, Generate, PersistJIT, DropJIT, PersistVM,
         IndexVM, Local, CallsStore, CallsGitHub
<1>3. CASE DropVM(w)
  BY <1>3, CallsLeaveGone DEF DropVM
<1>4. CASE Create(w)
  BY <1>4, CallsLeaveGone, CreateLeavesGone DEF Create, CreateReuses, CreateStarts
<1>5. CASE CleanupExhausted(w)
  BY <1>5, CallsLeaveGone DEF CleanupExhausted
<1>6. CASE DeleteInstance(w) \/ CleanupRest(w)
  BY <1>6, CallsLeaveGone DEF DeleteInstance, CleanupRest
<1>7. CASE AcceptDeletion(w) \/ ConfirmAbsence(w) \/ AwaitAbsence(w) \/ Recheck(w)
           \/ AskOriginal(w) \/ FinishDeletion(w) \/ FinishFailed(w)
  BY <1>7, CallsLeaveGone
     DEF AcceptDeletion, ConfirmAbsence, AwaitAbsence, Recheck, AskOriginal,
         FinishDeletion, FinishFailed, Local, CallsStore
<1> QED
  BY <1>1, <1>2, <1>3, <1>4, <1>5, <1>6, <1>7 DEF WorkerStep, ProvisionStep, DeleteStep

LEMMA OthersLeaveGone ==
  ASSUME ProviderTypeOK, Outside \/ ReaperMoves \/ Restart
  PROVE  GoneStays
<1>1. CASE Outside
  <2>1. CASE UNCHANGED vm
    BY <2>1, CallsLeaveGone
  <2>2. CASE \E i \in Instances : InstanceMoves(i)
    BY <2>2, CallsLeaveGone DEF InstanceMoves
  <2> QED
    BY <1>1, <2>1, <2>2 DEF Outside, QueuedWebhook, CompletedWebhook, RunnerTakesJob,
       ForeignRunnerTakesJob, JobEnds, RetryTimePasses
<1>2. CASE Restart
  BY <1>2, CallsLeaveGone DEF Restart
<1>3. CASE ReaperMoves
  <2>1. CASE UNCHANGED vm
    BY <2>1, CallsLeaveGone
  <2>2. CASE ReapVMs
    BY <2>2, CallsLeaveGone DEF ReapVMs
  <2> QED
    BY <1>3, <2>1, <2>2 DEF ReaperMoves, ReaperStep, ListExpired, ExpireRunner, BeginCleanup,
       ReapDeregister, ReapClear, EndReap, ReapMarker, RetentionPasses
<1> QED
  BY <1>1, <1>2, <1>3

LEMMA AuditorLeavesGone ==
  ASSUME ProviderTypeOK, AuditorStep
  PROVE  GoneStays
<1>1. CASE \/ \E pass \in Passes \ {"sweep"} : StartPass(pass)
           \/ \E j \in Jobs : TakeNext(j)
           \/ AskAbsence \/ ReleaseAbsent \/ AuditDeregister \/ EndAudit
           \/ StartSweep \/ SweepList \/ SweepRelease
  BY <1>1, CallsLeaveGone
     DEF StartPass, TakeNext, AskAbsence, ReleaseAbsent, AuditDeregister, EndAudit,
         StartSweep, SweepList, SweepRelease
<1>2. CASE SweepDrop
  BY <1>2, CallsLeaveGone DEF SweepDrop
<1>3. CASE FindRunner \/ AskJob \/ AskRunner \/ ObserveLost \/ ObserveMissing
           \/ ClearObservation
  BY <1>3, CallsLeaveGone
     DEF FindRunner, AskJob, AskRunner, ObserveLost, ObserveMissing, ClearObservation
<1>4. CASE DeleteUnregistered \/ CleanDuplicates
  BY <1>4, CallsLeaveGone DEF DeleteUnregistered, CleanDuplicates
<1> QED
  BY <1>1, <1>2, <1>3, <1>4 DEF AuditorStep, Sweep, CheckRunner

LEMMA GoneForGood ==
  ASSUME ProviderTypeOK, [FleetNext]_fleetVars
  PROVE  GoneStays
<1>1. CASE UNCHANGED fleetVars
  BY <1>1, CallsLeaveGone DEF fleetVars, vars
<1> QED
  BY <1>1, WorkerLeavesGone, OthersLeaveGone, AuditorLeavesGone
     DEF FleetNext, WorkersMove, ReaperExpires, ReaperAudits

-----------------------------------------------------------------------------
(* The reservation of an orphan.                                             *)

\* The absence that is about to be acted upon is still a fact.
AbsenceSeen ==
  AuditAt("releaseAbsent") /\ auditor.rec.instance \in Instances
  => vm[auditor.rec.instance].state = "gone"

\* Where no instance gets old, nothing is swept.
NeverSweeps == ~Aging => auditor.pc \notin SweepPcs

OrphanInv == AbsenceSeen /\ NeverSweeps

LEMMA IdleOrphans == auditor' = AuditIdle => OrphanInv'
  BY IdleFits DEF OrphanInv, AbsenceSeen, NeverSweeps, AuditAt, SweepPcs

LEMMA NextOrphans ==
  ASSUME AuditorTypeOK, AuditNext
  PROVE  OrphanInv'
<1>1. CASE auditor' = [auditor EXCEPT !.pc = "idle", !.job = NoJob, !.rec = Absent]
  BY <1>1 DEF AuditorTypeOK, OrphanInv, AbsenceSeen, NeverSweeps, AuditAt, SweepPcs
<1> QED
  BY <1>1, IdleOrphans DEF AuditNext

LEMMA StraysOrphans ==
  ASSUME AuditorTypeOK, Strays
  PROVE  OrphanInv'
<1>1. ASSUME NEW pc \in ChecksPcs, AuditGoto(pc) PROVE OrphanInv'
  BY <1>1 DEF AuditorTypeOK, AuditGoto, ChecksPcs, AbsencePcs, SweepPcs, OrphanInv,
     AbsenceSeen, NeverSweeps, AuditAt
<1> QED
  BY <1>1, NextOrphans DEF Strays

LEMMA AuditorOrphans ==
  ASSUME TInv, OrphanInv, AuditorStep
  PROVE  OrphanInv'
<1> USE DEF TInv, FleetTypeOK
<1>1. ASSUME NEW pass \in Passes \ {"sweep"}, StartPass(pass) PROVE OrphanInv'
  <2>1. auditor'.pc = "idle"
    BY <1>1, IdleFits DEF StartPass, AuditIdle
  <2> QED
    BY <2>1 DEF OrphanInv, AbsenceSeen, NeverSweeps, AuditAt, SweepPcs
<1>2. ASSUME NEW j \in Jobs, TakeNext(j) PROVE OrphanInv'
  <2>1. auditor.pass \in Passes \ {"sweep"}
    BY <1>2 DEF TakeNext, PassFits, AuditorTypeOK, NothingListed, Absent
  <2>2. FirstCheck(auditor.pass) \in {"askAbsence", "dropRegistration", "findRunner"}
    BY <2>1 DEF FirstCheck, Passes
  <2>3. auditor'.pc = FirstCheck(auditor.pass)
    BY <1>2 DEF TakeNext, AuditorTypeOK
  <2> QED
    BY <2>2, <2>3 DEF OrphanInv, AbsenceSeen, NeverSweeps, AuditAt, SweepPcs
<1>3. CASE AskAbsence
  <2>1. CASE AuditNext
    BY <2>1, NextOrphans
  <2>2. CASE vm[auditor.rec.instance].state = "gone" /\ AuditGoto("releaseAbsent")
             /\ UNCHANGED vm
    BY <2>2 DEF AuditGoto, AuditorTypeOK, OrphanInv, AbsenceSeen, NeverSweeps, AuditAt,
       SweepPcs
  <2> QED
    BY <1>3, <2>1, <2>2 DEF AskAbsence
<1>4. CASE ReleaseAbsent \/ CheckRunner \/ AuditDeregister \/ EndAudit
  BY <1>4, CallsStray, StraysOrphans
<1>5. CASE StartSweep
  <2>1. auditor'.pc = "sweepList"
    BY <1>5 DEF StartSweep, AuditIdle
  <2> QED
    BY <1>5, <2>1 DEF StartSweep, OrphanInv, AbsenceSeen, NeverSweeps, AuditAt
<1>6. CASE SweepList \/ SweepDrop \/ SweepRelease
  <2>1. auditor.pc \in SweepPcs
    BY <1>6 DEF SweepList, SweepDrop, SweepRelease, AuditAt, SweepPcs
  <2>2. auditor' = AuditIdle \/ auditor'.pc \in SweepPcs
    BY <1>6, <2>1 DEF SweepList, SweepDrop, SweepRelease, AuditGoto, AuditorTypeOK, SweepPcs,
       AuditAt
  <2> QED
    BY <2>1, <2>2, IdleOrphans DEF OrphanInv, AbsenceSeen, NeverSweeps, AuditAt, SweepPcs
<1> QED
  BY <1>1, <1>2, <1>3, <1>4, <1>5, <1>6 DEF AuditorStep, Sweep

LEMMA OrphansKept ==
  ASSUME TInv, OrphanInv, [FleetNext]_fleetVars
  PROVE  OrphanInv'
<1>1. CASE UNCHANGED auditor
  <2>1. GoneStays
    BY GoneForGood DEF TInv, FleetTypeOK, TypeOK
  <2> QED
    BY <1>1, <2>1 DEF GoneStays, OrphanInv, AbsenceSeen, NeverSweeps, AuditAt
<1>2. CASE ReaperAudits
  BY <1>2, AuditorOrphans DEF ReaperAudits
<1> QED
  BY <1>1, <1>2, IdleOrphans DEF FleetNext, ReaperExpires, fleetVars

\* What the steps may do to the instance of an orphan.
LEMMA ReservationKept ==
  ASSUME TInv, OrphanInv, ~Aging, [FleetNext]_fleetVars, NEW j \in Jobs,
         records[j].status = "orphaned", records[j].instance # NoInstance,
         records'[j].status = "orphaned", records'[j].instance # records[j].instance
  PROVE  vm[records[j].instance].state = "gone"
<1>1. ~AllEdited
  BY DEF AllEdited, Writes, Basic
<1>2. ~SweepRelease
  BY DEF SweepRelease, OrphanInv, NeverSweeps, SweepPcs, AuditAt
<1>3. ReleaseAbsent
  BY <1>1, <1>2, FleetEdits
<1>4. Put(auditor.job, ReleaseAbsentOrphan(records[auditor.job], auditor.rec.instance))
  BY <1>3 DEF ReleaseAbsent, AuditPut, PutFails
<1>5. auditor.job = j /\ records'[j] = ReleaseAbsentOrphan(records[j], auditor.rec.instance)
  BY <1>4 DEF Put, TInv, FleetTypeOK, TypeOK, StoreTypeOK
<1>6. records[j].instance = auditor.rec.instance
  BY <1>5 DEF ReleaseAbsentOrphan
<1>7. records[j].instance \in Instances
  BY DEF TInv, FleetTypeOK, TypeOK, StoreTypeOK, Record
<1> QED
  BY <1>3, <1>6, <1>7 DEF ReleaseAbsent, OrphanInv, AbsenceSeen

\* Where no record is old enough for the sweep, an orphan gives up its instance,
\* and with it its part of the ceiling, only when that very instance is gone,
\* whatever was found when its copy was listed: RunnerAbsent is asked about the
\* instance of the copy, an instance that is gone never comes back, and
\* ReleaseAbsentOrphan does nothing to a record that names another one by then.
THEOREM OrphansKeepTheirReservation == ~Aging => (FleetSpec => OrphanKeepsReservation)
<1> SUFFICES ASSUME ~Aging PROVE FleetSpec => OrphanKeepsReservation
  OBVIOUS
<1> DEFINE A == \A j \in Jobs :
       /\ records[j].status = "orphaned" /\ records[j].instance # NoInstance
       /\ records'[j].status = "orphaned" /\ records'[j].instance # records[j].instance
       => vm[records[j].instance].state = "gone"
<1>1. FleetInit => TInv /\ OrphanInv
  BY FleetStarts, IdleFits
     DEF FleetInit, AuditorInit, OrphanInv, AbsenceSeen, NeverSweeps, AuditAt, SweepPcs
<1>2. TInv /\ OrphanInv /\ [FleetNext]_fleetVars => (TInv /\ OrphanInv)'
  BY FleetEdits, OrphansKept
<1>3. TInv /\ OrphanInv /\ [FleetNext]_fleetVars => A
  BY ReservationKept
<1>4. TInv /\ OrphanInv /\ [FleetNext]_fleetVars => [A]_fleetVars
  BY <1>3
<1> HIDE DEF A
<1>5. FleetSpec => [][A]_fleetVars
  BY <1>1, <1>2, <1>4, PTL DEF FleetSpec
<1> QED
  BY <1>5, PTL DEF OrphanKeepsReservation, A

-----------------------------------------------------------------------------
(* Claims.  No mutator of the liveness pass takes a record from the worker   *)
(* that has claimed it, but for one: ReleaseAbsentOrphan clears the claim of *)
(* an orphan.  It is called only where the adapter confirms absences.        *)

LEMMA ObservationRespects ==
  ASSUME NEW r, Sound(r)
  PROVE  /\ Respects(r, ObserveRunnerMissing(r)) /\ Respects(r, ObserveGitHubRunnerMissing(r))
         /\ Respects(r, ClearProviderMissing(r)) /\ Respects(r, ClearGitHubMissing(r))
         /\ Respects(r, RecordRunnerSeen(r)) /\ Respects(r, ClearRunnerMissing(r))
<1> DEFINE same(s) == /\ s \in Record
                      /\ s.claim = r.claim /\ s.instance = r.instance
                      /\ s.accepted = r.accepted /\ s.status = r.status
<1>1. ASSUME NEW s, same(s) PROVE Respects(r, s)
  <2>1. Sound(s)
    BY <1>1 DEF Sound
  <2> QED
    BY <1>1, <2>1, RespectsIfAtRest
<1>2. r \in Record
  BY DEF Sound
<1>3. ASSUME NEW s, s = ObserveRunnerMissing(r) PROVE same(s)
  BY <1>2, <1>3 DEF ObserveRunnerMissing, Record
<1>4. ASSUME NEW s, s = ObserveGitHubRunnerMissing(r) PROVE same(s)
  BY <1>2, <1>4 DEF ObserveGitHubRunnerMissing, Record
<1>5. ASSUME NEW s, s = ClearProviderMissing(r) PROVE same(s)
  BY <1>2, <1>5 DEF ClearProviderMissing, Record
<1>6. ASSUME NEW s, s = ClearGitHubMissing(r) PROVE same(s)
  BY <1>2, <1>6 DEF ClearGitHubMissing, Record
<1>7. ASSUME NEW s, s = RecordRunnerSeen(r) PROVE same(s)
  BY <1>2, <1>7 DEF RecordRunnerSeen, Record
<1>8. ASSUME NEW s, s = ClearRunnerMissing(r) PROVE same(s)
  BY <1>2, <1>8, BudgetFacts DEF ClearRunnerMissing, Record
<1> HIDE DEF same
<1> QED
  BY <1>1, <1>3, <1>4, <1>5, <1>6, <1>7, <1>8

LEMMA RequeueRespects ==
  ASSUME NEW r, Sound(r)
  PROVE  Respects(r, RequeueMissingRunner(r))
<1> DEFINE next == IF r.attempts >= MaxAttempts THEN "failed" ELSE "pending"
           due == IF r.attempts >= MaxAttempts THEN r.due ELSE TRUE
           s == [r EXCEPT !.instance = NoInstance, !.accepted = NoInstance,
                          !.runner = NoRunner, !.seen = FALSE, !.missed = FALSE,
                          !.lost = FALSE, !.status = next, !.due = due]
<1>1. next \in {"failed", "pending"} /\ due \in BOOLEAN /\ r \in Record
  BY DEF Sound, Record
<1>2. RequeueMissingRunner(r) = IF r.status # "provisioned" THEN r ELSE s
  BY DEF RequeueMissingRunner
<1> HIDE DEF next, due
<1>3. s \in Record
  BY <1>1 DEF Record, Statuses, NoInstance, NoRunner
<1>4. /\ s.status = next /\ s.claim = r.claim /\ s.instance = NoInstance
      /\ s.accepted = NoInstance
  BY <1>1 DEF Record
<1> HIDE DEF s
<1>5. r.status = "provisioned" => Respects(r, s)
  BY <1>1, <1>3, <1>4 DEF Respects, Follows, Sound, Untracked
<1> QED
  BY <1>2, <1>5, RespectsItself

LEMMA OrphanRespects ==
  ASSUME NEW r, Sound(r)
  PROVE  /\ Respects(r, DeferOrphanCleanup(r))
         /\ r.status = "orphaned" => Respects(r, ReleaseSwept(r))
<1>1. r \in Record
  BY DEF Sound
<1>2. ASSUME NEW s, s = DeferOrphanCleanup(r) PROVE Respects(r, s)
  <2>1. /\ s.claim = r.claim /\ s.instance = r.instance
        /\ s.accepted = r.accepted /\ s.status = r.status
    BY <1>1, <1>2 DEF DeferOrphanCleanup, Record
  <2>2. s \in Record
    BY <1>1, <1>2, BudgetFacts DEF DeferOrphanCleanup, Record
  <2>3. Sound(s)
    BY <2>1, <2>2 DEF Sound
  <2> QED
    BY <2>1, <2>3, RespectsIfAtRest
<1>3. ASSUME NEW s, s = ReleaseSwept(r), r.status = "orphaned" PROVE Respects(r, s)
  <2>1. /\ s.claim = r.claim /\ s.instance = NoInstance
        /\ s.accepted = r.accepted /\ s.status = "orphaned"
    BY <1>1, <1>3 DEF ReleaseSwept, Record
  <2>2. s \in Record
    BY <1>1, <1>3 DEF ReleaseSwept, Record, NoInstance
  <2> QED
    BY <2>1, <2>2 DEF Sound, Respects, Follows, Untracked
<1> QED
  BY <1>2, <1>3

LEMMA AuditWriteRespects ==
  ASSUME auditor.pc \in AuditWritePcs, Sound(records[auditor.job])
  PROVE  Respects(records[auditor.job], AuditWrite)
<1>1. CASE auditor.pc \in {"schedule", "requeue", "clearRegistration", "deferOrphan"}
  BY <1>1, ScheduleDeletionRespects, RequeueRespects, ClearJITRespects, OrphanRespects
     DEF AuditWrite, AuditAt
<1>2. CASE auditor.pc \in {"clearChecks", "recordSeen"}
  BY <1>2, ObservationRespects DEF AuditWrite, AuditAt
<1>3. CASE auditor.pc \in {"deferClientError", "deferLimited", "deferOther"}
  BY <1>3, DeferReconciliationRespects DEF AuditWrite, AuditAt
<1> QED
  BY <1>1, <1>2, <1>3 DEF AuditWritePcs

LEMMA AuditPutRespects ==
  ASSUME IInv, NEW r, Put(auditor.job, r),
         auditor.job \in Jobs => Respects(records[auditor.job], r)
  PROVE  AllRespected
<1>1. CASE auditor.job \in Jobs
  BY <1>1, PutRespects
<1>2. CASE auditor.job \notin Jobs
  BY <1>2, Unchanged DEF IInv, TypeOK, StoreTypeOK, Put
<1> QED
  BY <1>1, <1>2

LEMMA CallsRespect ==
  ASSUME IInv, CheckRunner \/ AuditDeregister \/ EndAudit
  PROVE  AllRespected
<1> DEFINE j == auditor.job
           r == records[j]
<1>1. CASE UNCHANGED storeVars
  BY <1>1, Unchanged DEF storeVars
<1>2. CASE PutFails
  BY <1>2, PutFailsRespects
<1>3. j \in Jobs => Sound(r)
  BY DEF IInv, RecordsSound
<1>4. CASE ObserveLost \/ ObserveMissing \/ ClearObservation
  <2>1. j \in Jobs =>
          /\ Respects(r, ObserveRunnerMissing(r)) /\ Respects(r, ObserveGitHubRunnerMissing(r))
          /\ Respects(r, ClearProviderMissing(r)) /\ Respects(r, ClearGitHubMissing(r))
          /\ Respects(r, ClearJIT(r)) /\ Respects(r, ClearRunnerMissing(r))
    BY <1>3, ObservationRespects, ClearJITRespects
  <2> QED
    BY <1>2, <1>4, <2>1, StoreCallsLead, AuditPutRespects DEF Observation, Clearing
<1>5. CASE EndAudit
  <2>1. j \in Jobs => Respects(r, AuditWrite)
    BY <1>3, <1>5, AuditWriteRespects DEF EndAudit
  <2> QED
    BY <1>2, <1>5, <2>1, StoreCallsLead, AuditPutRespects
<1> QED
  BY <1>1, <1>4, <1>5 DEF CheckRunner, AuditDeregister, FindRunner, AskJob, AskRunner,
     DeleteUnregistered, CleanDuplicates

LEMMA AuditorRespects ==
  ASSUME IInv, AuditorStep, ~ReleaseAbsent
  PROVE  AllRespected
<1>1. CASE UNCHANGED storeVars
  BY <1>1, Unchanged DEF storeVars
<1>2. CASE CheckRunner \/ AuditDeregister \/ EndAudit
  BY <1>2, CallsRespect
<1>3. CASE SweepRelease
  <2>1. CASE PutFails
    BY <2>1, PutFailsRespects
  <2>2. CASE records' = [j \in Jobs |->
                           IF records[j].status = "orphaned"
                              /\ records[j].instance \in auditor.old
                           THEN ReleaseSwept(records[j]) ELSE records[j]]
    <3>1. \A j \in Jobs : Sound(records[j])
      BY DEF IInv, RecordsSound
    <3> QED
      BY <2>2, <3>1, OrphanRespects, RespectsItself DEF AllRespected
  <2> QED
    BY <1>3, <2>1, <2>2 DEF SweepRelease
<1> QED
  BY <1>1, <1>2, <1>3 DEF AuditorStep, Sweep, StartPass, TakeNext, AskAbsence, StartSweep,
     SweepList, SweepDrop

LEMMA AuditorKeeps ==
  ASSUME TInv, IInv, ReaperAudits, ~ReleaseAbsent
  PROVE  IInv'
<1>1. AllRespected
  BY AuditorRespects DEF ReaperAudits
<1>2. WorldTypeOK'
  BY AuditorStepTypes, OthersStay DEF ReaperAudits, WorldTypeOK
<1> QED
  BY <1>1, <1>2, EnvironmentStep DEF ReaperAudits

LEMMA NoAbsences ==
  ASSUME TInv, ~ConfirmsAbsence
  PROVE  ~ReleaseAbsent
  BY DEF TInv, PassFits, ReleaseAbsent, AuditAt, AbsencePcs

LEMMA FleetKeeps ==
  ASSUME ~ConfirmsAbsence, TInv, IInv, [FleetNext]_fleetVars
  PROVE  IInv'
<1>1. CASE UNCHANGED fleetVars
  BY <1>1, NextKeeps DEF fleetVars
<1>2. CASE ReaperAudits
  BY <1>2, NoAbsences, AuditorKeeps
<1> QED
  BY <1>1, <1>2, NextKeeps DEF FleetNext, ReaperExpires, Next

LEMMA FleetInvariance == ~ConfirmsAbsence => (FleetSpec => [](TInv /\ IInv))
<1> SUFFICES ASSUME ~ConfirmsAbsence PROVE FleetSpec => [](TInv /\ IInv)
  OBVIOUS
<1>1. FleetInit => TInv /\ IInv
  BY FleetStarts, Initially DEF FleetInit
<1>2. TInv /\ IInv /\ [FleetNext]_fleetVars => (TInv /\ IInv)'
  BY FleetEdits, FleetKeeps
<1> QED
  BY <1>1, <1>2, PTL DEF FleetSpec

\* Where the adapter deletes synchronously (AWS, GCP, Azure), claims stay locks
\* also while the liveness pass requeues, defers and orphans records on the
\* word of copies of any age: a worker keeps its record until it gives it back,
\* and no other worker gets it meanwhile.
THEOREM ClaimsHoldInFleet == ~ConfirmsAbsence => (FleetSpec => []ClaimsExclusive)
<1> SUFFICES ASSUME ~ConfirmsAbsence PROVE FleetSpec => []ClaimsExclusive
  OBVIOUS
<1>1. TInv /\ IInv => ClaimsExclusive
  BY DEF IInv
<1> QED
  BY <1>1, FleetInvariance, PTL

\* Under the same assumption, demand holds no instance: RequeueMissingRunner
\* forgets the id, and no other call of the liveness pass makes new demand.
THEOREM DemandHoldsNoInstanceInFleet ==
  ~ConfirmsAbsence => (FleetSpec => []UnprovisionedHoldsNoInstance)
<1> SUFFICES ASSUME ~ConfirmsAbsence PROVE FleetSpec => []UnprovisionedHoldsNoInstance
  OBVIOUS
<1>1. TInv /\ IInv => UnprovisionedHoldsNoInstance
  BY DEF IInv, RecordsSound, Sound, UnprovisionedHoldsNoInstance
<1> QED
  BY <1>1, FleetInvariance, PTL

\* Under the same assumption, the copies without an instance id that the expiry
\* pass retires unconditionally still stand for such records, although the
\* liveness pass of the same goroutine writes to them in between.
THEOREM ReaperIsSafeInFleet == ~ConfirmsAbsence => (FleetSpec => []ReaperKeepsToUntracked)
<1> SUFFICES ASSUME ~ConfirmsAbsence PROVE FleetSpec => []ReaperKeepsToUntracked
  OBVIOUS
<1>1. TInv /\ IInv => ReaperKeepsToUntracked
  BY DEF IInv
<1> QED
  BY <1>1, FleetInvariance, PTL

-----------------------------------------------------------------------------
(* The observations of a replaced runner.                                    *)

AllClean == \A j \in Jobs : Clean(records[j])

LEMMA CleanKeptInFleet ==
  ASSUME ~ConfirmsAbsence, TInv, IInv, AllClean, [FleetNext]_fleetVars
  PROVE  AllClean'
<1>1. \A j \in Jobs : Sound(records[j])
  BY DEF IInv, RecordsSound
<1>2. CASE AllEdited
  BY <1>1, <1>2 DEF IInv, AllClean, AllEdited, Writes
<1>3. CASE SweepRelease
  <2>1. ASSUME NEW r \in Record, Clean(r), NEW s, s = ReleaseSwept(r) PROVE Clean(s)
    BY <2>1 DEF Clean, ReleaseSwept, Record
  <2>2. \A j \in Jobs : records[j] \in Record
    BY <1>1 DEF Sound
  <2>3. CASE PutFails
    BY <2>3 DEF PutFails, AllClean
  <2>4. CASE records' = [j \in Jobs |->
                           IF records[j].status = "orphaned"
                              /\ records[j].instance \in auditor.old
                           THEN ReleaseSwept(records[j]) ELSE records[j]]
    BY <2>1, <2>2, <2>4 DEF AllClean
  <2> QED
    BY <1>3, <2>3, <2>4 DEF SweepRelease
<1> QED
  BY <1>2, <1>3, FleetEdits, NoAbsences

\* Where the adapter deletes synchronously, a replacement always starts without
\* the observations made about its predecessor, for any number of jobs, copies
\* of any age, errors, failed writes and restarts: RequeueMissingRunner and
\* FinishDeletedRunner clear them, a record is not observed while it is claimed
\* for provisioning, and only the worker that holds this claim puts a record
\* back into the queue without clearing them.
THEOREM ReplacementsStartAfresh == ~ConfirmsAbsence => (FleetSpec => []NoOldObservations)
<1> SUFFICES ASSUME ~ConfirmsAbsence PROVE FleetSpec => []NoOldObservations
  OBVIOUS
<1>1. FleetInit => AllClean
  BY DEF FleetInit, Init, StoreInit, AllClean, Clean, Absent
<1>2. TInv /\ IInv /\ AllClean /\ [FleetNext]_fleetVars => AllClean'
  BY CleanKeptInFleet
<1>3. AllClean => NoOldObservations
  BY DEF AllClean, Clean, NoOldObservations
<1> QED
  BY <1>1, <1>2, <1>3, FleetInvariance, PTL DEF FleetSpec
=============================================================================
