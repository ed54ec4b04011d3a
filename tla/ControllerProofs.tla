-------------------------- MODULE ControllerProofs --------------------------
(* Safety of the controller for every set of jobs and workers, every ceiling *)
(* and retry budget, every provider and any number of faults and restarts.   *)
EXTENDS Controller, TLAPS

-----------------------------------------------------------------------------
(* What every mutator of a runner record preserves.                          *)

\* What is true of every record on its own.
Sound(r) ==
  /\ r \in Record
  /\ r.status = "absent" => r.claim = NoClaim
  /\ r.status \in {"pending", "provisioning", "failed"} => r.instance = NoInstance
  /\ r.claim = "provision" => r.instance = NoInstance
  /\ r.status = "provisioned" => r.instance # NoInstance

\* What every mutator but MarkDeletionAccepted preserves: no deletion counts as
\* accepted that was not accepted before.
Follows(r, s) == Sound(s) /\ s.accepted \in {r.accepted, NoInstance}

\* What a mutator that works on somebody else's claim must preserve.
Respects(r, s) ==
  /\ Follows(r, s)
  /\ s.claim = r.claim
  /\ Untracked(r) => Untracked(s)

LEMMA BudgetFacts ==
  /\ 0 \in Budget /\ MaxAttempts \in Budget
  /\ \A n \in Budget : Less(n) \in Budget /\ More(n) \in Budget
  /\ \A n \in Budget : ~(n >= MaxAttempts) => n + 1 \in Budget
  /\ \A n \in Budget : ~(n + 1 >= MaxAttempts) => n + 1 \in Budget
  /\ \A n \in Budget : n < MaxAttempts => n + 1 \in Budget
  BY BoundsAssumption DEF Budget, Less, More

LEMMA InstanceFact == NoInstance \notin Instances
  BY DEF NoInstance, Instances

LEMMA AbsentSound == Sound(Absent)
  BY BudgetFacts DEF Sound, Absent, Record, Statuses, WorkKinds, NoClaim,
     NoRunner, NoInstance

LEMMA NewDemandSound == Sound(NewDemand)
  BY BudgetFacts DEF Sound, Absent, NewDemand, Record, Statuses, WorkKinds,
     NoClaim, NoRunner, NoInstance

\* A mutator that keeps the claim and the instance respects the record if it
\* moves it to no status but a resting one.
LEMMA RespectsIfAtRest ==
  ASSUME NEW r, NEW s, Sound(s), s.claim = r.claim, s.instance = r.instance,
         s.accepted \in {r.accepted, NoInstance},
         s.status \in {r.status, "completed", "failed", "deleted", "orphaned"}
  PROVE  Respects(r, s)
  BY DEF Respects, Follows, Untracked

\* Likewise, and perhaps with the claim given back, it keeps the record sound.
LEMMA SoundIfAtRest ==
  ASSUME NEW r, Sound(r), NEW s \in Record, s.claim \in {r.claim, NoClaim},
         s.instance = r.instance,
         s.status \in {r.status, "completed", "deleted", "orphaned"}
  PROVE  Sound(s)
  BY DEF Sound, NoClaim

LEMMA RespectsItself == ASSUME NEW r, Sound(r) PROVE Respects(r, r)
  BY DEF Respects, Follows

-----------------------------------------------------------------------------
(* Mutators that do not need the record's claim.                            *)

LEMMA ClearJITRespects ==
  ASSUME NEW r, Sound(r)
  PROVE  Respects(r, ClearJIT(r))
<1> SUFFICES ASSUME NEW s, s = ClearJIT(r) PROVE Respects(r, s)
  OBVIOUS
<1>1. Sound(s)
  BY DEF ClearJIT, NoRunner, Sound, Record, Statuses, WorkKinds, NoClaim, NoInstance
<1>2. /\ s.claim = r.claim /\ s.instance = r.instance /\ s.accepted = r.accepted
      /\ s.status \in {r.status, "completed", "failed", "deleted", "orphaned"}
  BY DEF ClearJIT, NoRunner, Sound, Record, WorkKinds, NoClaim
<1> QED
  BY <1>1, <1>2, RespectsIfAtRest

LEMMA MatchedCompletionRespects ==
  ASSUME NEW r, Sound(r), NEW own \in BOOLEAN
  PROVE  Respects(r, MatchedCompletion(r, own))
<1> DEFINE done == r.jobCompleted \/ own
           other == ~own /\ ~r.jobCompleted
           told == [r EXCEPT !.jobCompleted = done, !.recheck = other, !.defer = FALSE]
           over == [told EXCEPT !.status = "completed", !.due = TRUE]
<1>1. done \in BOOLEAN /\ other \in BOOLEAN
  OBVIOUS
<1>2. MatchedCompletion(r, own) = IF r.claim = "delete" THEN told ELSE over
  BY DEF MatchedCompletion
<1> HIDE DEF done, other
<1>3. /\ Sound(told) /\ told.claim = r.claim /\ told.instance = r.instance
      /\ told.accepted = r.accepted /\ told.status = r.status
  <2>1. told \in Record
    BY <1>1 DEF Sound, Record
  <2>2. /\ told.claim = r.claim /\ told.instance = r.instance
        /\ told.accepted = r.accepted /\ told.status = r.status
    BY DEF Sound, Record
  <2> QED
    BY <2>1, <2>2, SoundIfAtRest
<1> HIDE DEF told
<1>4. /\ Sound(over) /\ over.claim = told.claim /\ over.instance = told.instance
      /\ over.accepted = told.accepted /\ over.status = "completed"
  BY <1>3 DEF Sound, Record, Statuses, WorkKinds, NoClaim
<1> HIDE DEF over
<1> QED
  BY <1>2, <1>3, <1>4, RespectsIfAtRest

LEMMA EventCompletionRespects ==
  ASSUME NEW r, Sound(r), NEW id
  PROVE  Respects(r, EventCompletion(r, id))
<1> DEFINE told == [r EXCEPT !.jobCompleted = TRUE, !.recheck = FALSE]
           fresh == [Absent EXCEPT !.status = "completed", !.jobCompleted = TRUE,
                                   !.defer = TRUE, !.due = FALSE]
           waiting == [told EXCEPT !.status = "completed", !.defer = TRUE, !.due = FALSE]
<1>1. EventCompletion(r, id) = IF r.status = "absent" THEN fresh
                               ELSE IF id # NoRunner \/ Settled(r) THEN told
                               ELSE waiting
  BY DEF EventCompletion
<1>2. /\ Sound(told) /\ told.claim = r.claim /\ told.instance = r.instance
      /\ told.accepted = r.accepted /\ told.status = r.status
  BY DEF Sound, Record
<1> HIDE DEF told
<1>3. ASSUME r.status # "absent"
      PROVE  /\ Sound(waiting) /\ waiting.claim = told.claim
             /\ waiting.instance = told.instance
             /\ waiting.accepted = told.accepted /\ waiting.status = "completed"
  <2>1. waiting \in Record
    BY <1>2 DEF Sound, Record, Statuses
  <2>2. /\ waiting.claim = told.claim /\ waiting.instance = told.instance
        /\ waiting.accepted = told.accepted /\ waiting.status = "completed"
    BY <1>2 DEF Sound, Record
  <2> QED
    BY <1>2, <2>1, <2>2, SoundIfAtRest
<1>4. /\ Sound(fresh) /\ fresh.claim = NoClaim /\ fresh.accepted = NoInstance
  <2>1. /\ Absent \in Record /\ Absent.claim = NoClaim
        /\ Absent.instance = NoInstance /\ Absent.accepted = NoInstance
    <3>1. Absent.claim = NoClaim /\ Absent.instance = NoInstance /\ Absent.accepted = NoInstance
      BY DEF Absent
    <3> QED
      BY <3>1, AbsentSound DEF Sound
  <2>2. fresh \in Record
    BY <2>1 DEF Record, Statuses
  <2>3. /\ fresh.claim = NoClaim /\ fresh.instance = NoInstance
        /\ fresh.accepted = NoInstance /\ fresh.status = "completed"
    BY <2>1 DEF Record
  <2> QED
    BY <2>2, <2>3 DEF Sound, NoClaim
<1> HIDE DEF fresh, waiting
<1>5. ASSUME r.status = "absent" PROVE Respects(r, fresh)
  BY <1>4, <1>5 DEF Respects, Follows, Untracked, Sound
<1> QED
  BY <1>1, <1>2, <1>3, <1>5, RespectsIfAtRest

LEMMA ScheduleDeletionRespects ==
  ASSUME NEW r, Sound(r)
  PROVE  Respects(r, ScheduleDeletion(r))
<1> SUFFICES ASSUME NEW s, s = ScheduleDeletion(r) PROVE Respects(r, s)
  OBVIOUS
<1>1. Sound(s)
  BY DEF ScheduleDeletion, Settled, Sound, Record, Statuses, WorkKinds, NoClaim, NoInstance
<1>2. /\ s.claim = r.claim /\ s.instance = r.instance /\ s.accepted = r.accepted
      /\ s.status \in {r.status, "completed", "failed", "deleted", "orphaned"}
  BY DEF ScheduleDeletion, Settled, Sound, Record, WorkKinds, NoClaim
<1> QED
  BY <1>1, <1>2, RespectsIfAtRest

LEMMA BecomeDueRespects ==
  ASSUME NEW r, Sound(r)
  PROVE  Respects(r, [r EXCEPT !.due = TRUE])
<1> SUFFICES ASSUME NEW s, s = [r EXCEPT !.due = TRUE] PROVE Respects(r, s)
  OBVIOUS
<1>1. Sound(s)
  BY DEF Sound, Record, Statuses, WorkKinds, NoClaim, NoInstance
<1>2. /\ s.claim = r.claim /\ s.instance = r.instance /\ s.accepted = r.accepted
      /\ s.status \in {r.status, "completed", "failed", "deleted", "orphaned"}
  BY DEF Sound, Record, WorkKinds, NoClaim
<1> QED
  BY <1>1, <1>2, RespectsIfAtRest

LEMMA BackstopRespects ==
  ASSUME NEW r, Sound(r)
  PROVE  Respects(r, Backstop(r))
<1> SUFFICES ASSUME NEW s, s = Backstop(r) PROVE Respects(r, s)
  OBVIOUS
<1>1. Sound(s)
  BY DEF Backstop, Sound, Record, Statuses, WorkKinds, NoClaim, NoInstance
<1>2. /\ s.claim = r.claim /\ s.instance = r.instance /\ s.accepted = r.accepted
      /\ s.status \in {r.status, "completed", "failed", "deleted", "orphaned"}
  BY DEF Backstop, Sound, Record, WorkKinds, NoClaim
<1> QED
  BY <1>1, <1>2, RespectsIfAtRest

LEMMA BeginCleanupRespects ==
  ASSUME NEW r, Sound(r)
  PROVE  Respects(r, BeginCleanupAttempt(r))
<1> DEFINE stopped == [r EXCEPT !.status = "orphaned", !.due = TRUE]
           counted == [r EXCEPT !.deletes = @ + 1]
<1>1. BeginCleanupAttempt(r) =
        IF ~CleanupReady(r) THEN r
        ELSE IF r.deletes >= MaxAttempts THEN stopped ELSE counted
  BY DEF BeginCleanupAttempt
<1>2. Respects(r, stopped)
  <2>1. stopped \in Record
    BY DEF Sound, Record, Statuses
  <2>2. /\ stopped.claim = r.claim /\ stopped.instance = r.instance
        /\ stopped.accepted = r.accepted /\ stopped.status = "orphaned"
    BY DEF Sound, Record
  <2> HIDE DEF stopped
  <2> QED
    BY <2>1, <2>2, SoundIfAtRest, RespectsIfAtRest
<1>3. ASSUME ~(r.deletes >= MaxAttempts) PROVE Respects(r, counted)
  <2>1. r.deletes + 1 \in Budget
    BY <1>3, BudgetFacts DEF Sound, Record
  <2>2. counted \in Record
    BY <2>1 DEF Sound, Record
  <2>3. /\ counted.claim = r.claim /\ counted.instance = r.instance
        /\ counted.accepted = r.accepted /\ counted.status = r.status
    BY DEF Sound, Record
  <2> HIDE DEF counted
  <2> QED
    BY <2>2, <2>3, SoundIfAtRest, RespectsIfAtRest
<1> HIDE DEF stopped, counted
<1> QED
  BY <1>1, <1>2, <1>3, RespectsItself

LEMMA DeferCleanupRespects ==
  ASSUME NEW r, Sound(r), NEW count \in BOOLEAN
  PROVE  Respects(r, DeferRateLimitedCleanup(r, count))
<1> DEFINE slow == IF count THEN More(r.throttles) ELSE 0
           fewer == Less(r.deletes)
           refunded == [r EXCEPT !.deletes = fewer, !.due = FALSE, !.throttles = slow]
           stopped == [refunded EXCEPT !.status = "orphaned", !.due = TRUE]
<1>1. slow \in Budget /\ fewer \in Budget
  BY BudgetFacts DEF Sound, Record
<1>2. DeferRateLimitedCleanup(r, count) =
        IF Settled(r) THEN r
        ELSE IF count /\ r.throttles + 1 >= MaxAttempts THEN stopped ELSE refunded
  BY DEF DeferRateLimitedCleanup
<1> HIDE DEF slow, fewer
<1>3. /\ Sound(refunded) /\ refunded.claim = r.claim /\ refunded.instance = r.instance
      /\ refunded.accepted = r.accepted /\ refunded.status = r.status
  <2>1. refunded \in Record
    BY <1>1 DEF Sound, Record
  <2>2. /\ refunded.claim = r.claim /\ refunded.instance = r.instance
        /\ refunded.accepted = r.accepted /\ refunded.status = r.status
    BY DEF Sound, Record
  <2> QED
    BY <2>1, <2>2, SoundIfAtRest
<1> HIDE DEF refunded
<1>4. /\ Sound(stopped) /\ stopped.claim = refunded.claim
      /\ stopped.instance = refunded.instance
      /\ stopped.accepted = refunded.accepted /\ stopped.status = "orphaned"
  <2>1. stopped \in Record
    BY <1>3 DEF Sound, Record, Statuses
  <2>2. /\ stopped.claim = refunded.claim /\ stopped.instance = refunded.instance
        /\ stopped.accepted = refunded.accepted /\ stopped.status = "orphaned"
    BY <1>3 DEF Sound, Record
  <2> QED
    BY <1>3, <2>1, <2>2, SoundIfAtRest
<1> HIDE DEF stopped
<1> QED
  BY <1>2, <1>3, <1>4, RespectsIfAtRest, RespectsItself

LEMMA DeferReconciliationRespects ==
  ASSUME NEW r, Sound(r), NEW failed \in BOOLEAN, NEW throttled \in BOOLEAN
  PROVE  Respects(r, DeferReconciliation(r, failed, throttled))
<1> DEFINE late == [r EXCEPT !.failures = More(@)]
           base == IF failed THEN late ELSE r
           some == IF throttled THEN More(base.throttles) ELSE 0
           slow == [base EXCEPT !.throttles = some]
           later == [slow EXCEPT !.due = FALSE]
           Same(t) == /\ Sound(t) /\ t.claim = r.claim /\ t.instance = r.instance
                      /\ t.accepted = r.accepted
           stopped(t) == [t EXCEPT !.status = "orphaned", !.due = TRUE]
<1>1. DeferReconciliation(r, failed, throttled) =
        IF Settled(r) THEN r
        ELSE IF failed /\ r.failures + 1 >= MaxAttempts THEN stopped(base)
        ELSE IF throttled /\ r.throttles + 1 >= MaxAttempts THEN stopped(slow)
        ELSE later
  BY DEF DeferReconciliation
<1>2. Same(late) /\ late.status = r.status
  BY BudgetFacts DEF Sound, Record
<1> HIDE DEF late
<1>3. Same(base) /\ base.status = r.status
  BY <1>2
<1> HIDE DEF base
<1>4. some \in Budget
  BY <1>3, BudgetFacts DEF Sound, Record
<1> HIDE DEF some
<1>5. Same(slow) /\ slow.status = r.status
  <2>1. slow \in Record
    BY <1>3, <1>4 DEF Sound, Record
  <2>2. /\ slow.claim = base.claim /\ slow.instance = base.instance
        /\ slow.accepted = base.accepted /\ slow.status = base.status
    BY <1>3, <1>4 DEF Sound, Record
  <2> QED
    BY <1>3, <1>4, <2>1, <2>2 DEF Sound
<1> HIDE DEF slow
<1>6. Same(later) /\ later.status = r.status
  <2>1. later \in Record
    BY <1>5 DEF Sound, Record
  <2>2. /\ later.claim = slow.claim /\ later.instance = slow.instance
        /\ later.accepted = slow.accepted /\ later.status = slow.status
    BY <1>5 DEF Sound, Record
  <2> QED
    BY <1>5, <2>1, <2>2 DEF Sound
<1> HIDE DEF later
<1>7. ASSUME NEW t, Same(t) PROVE Same(stopped(t)) /\ stopped(t).status = "orphaned"
  <2>1. stopped(t) \in Record /\ stopped(t).status = "orphaned"
    BY <1>7 DEF Sound, Record, Statuses
  <2>2. /\ stopped(t).claim = t.claim /\ stopped(t).instance = t.instance
        /\ stopped(t).accepted = t.accepted
    BY <1>7 DEF Sound, Record
  <2> QED
    BY <1>7, <2>1, <2>2 DEF Sound
<1>8. Same(stopped(base)) /\ stopped(base).status = "orphaned"
  BY <1>3, <1>7
<1>9. Same(stopped(slow)) /\ stopped(slow).status = "orphaned"
  BY <1>5, <1>7
<1> HIDE DEF stopped
<1> QED
  BY <1>1, <1>6, <1>8, <1>9, RespectsIfAtRest, RespectsItself

-----------------------------------------------------------------------------
(* Mutators that the reaper applies to untracked records.                   *)

LEMMA MarkDeletedRespects ==
  ASSUME NEW r, Sound(r), r.claim = NoClaim
  PROVE  Respects(r, MarkDeleted(r))
<1> SUFFICES ASSUME NEW s, s = MarkDeleted(r) PROVE Respects(r, s)
  OBVIOUS
<1>1. Sound(s)
  BY DEF MarkDeleted, Sound, Record, Statuses, WorkKinds, NoClaim, NoInstance
<1>2. /\ s.claim = r.claim /\ s.instance = r.instance /\ s.accepted = r.accepted
      /\ s.status \in {r.status, "completed", "failed", "deleted", "orphaned"}
  BY DEF MarkDeleted, Sound, Record, WorkKinds, NoClaim
<1> QED
  BY <1>1, <1>2, RespectsIfAtRest

LEMMA MarkOrphanedRespects ==
  ASSUME NEW r, Sound(r), r.claim = NoClaim
  PROVE  Respects(r, MarkOrphaned(r))
<1> SUFFICES ASSUME NEW s, s = MarkOrphaned(r) PROVE Respects(r, s)
  OBVIOUS
<1>1. Sound(s)
  BY DEF MarkOrphaned, Sound, Record, Statuses, WorkKinds, NoClaim, NoInstance
<1>2. /\ s.claim = r.claim /\ s.instance = r.instance /\ s.accepted = r.accepted
      /\ s.status \in {r.status, "completed", "failed", "deleted", "orphaned"}
  BY DEF MarkOrphaned, Sound, Record, WorkKinds, NoClaim
<1> QED
  BY <1>1, <1>2, RespectsIfAtRest

LEMMA MarkDeleteFailedRespects ==
  ASSUME NEW r, Sound(r), r.claim = NoClaim
  PROVE  Respects(r, MarkDeleteFailed(r))
<1> DEFINE freed == [r EXCEPT !.throttles = 0, !.claim = NoClaim]
           stopped == [freed EXCEPT !.status = "orphaned"]
           later == [freed EXCEPT !.status = "completed", !.due = FALSE]
<1>1. MarkDeleteFailed(r) \in {r, stopped, later}
  BY DEF MarkDeleteFailed
<1>2. freed \in Record /\ freed.claim = NoClaim /\ freed.instance = r.instance
      /\ freed.accepted = r.accepted
  BY BudgetFacts DEF Sound, Record, WorkKinds, NoClaim
<1> HIDE DEF freed
<1>3. /\ stopped \in Record /\ stopped.claim = NoClaim /\ stopped.instance = r.instance
      /\ stopped.accepted = r.accepted /\ stopped.status = "orphaned"
  BY <1>2 DEF Record, Statuses
<1>4. /\ later \in Record /\ later.claim = NoClaim /\ later.instance = r.instance
      /\ later.accepted = r.accepted /\ later.status = "completed"
  BY <1>2 DEF Record, Statuses
<1> HIDE DEF stopped, later
<1>5. Respects(r, stopped)
  BY <1>3, SoundIfAtRest, RespectsIfAtRest
<1>6. Respects(r, later)
  BY <1>4, SoundIfAtRest, RespectsIfAtRest
<1> QED
  BY <1>1, <1>5, <1>6, RespectsItself

-----------------------------------------------------------------------------
(* Mutators of the worker that holds the claim and keeps it.                *)

LEMMA MarkJITCreatedFollows ==
  ASSUME NEW r, Sound(r), NEW j, NEW id \in Runners \cup {NoRunner}, NEW m
  PROVE  /\ Follows(r, MarkJITCreated(r, j, id, m))
         /\ MarkJITCreated(r, j, id, m).claim = r.claim
<1> DEFINE done == r.jobCompleted \/ m = j
           other == ~(m = j) /\ ~r.jobCompleted
           owner == [r EXCEPT !.runner = id]
           over == [r EXCEPT !.runner = id, !.status = "completed",
                             !.jobCompleted = done, !.recheck = other,
                             !.defer = FALSE, !.due = TRUE]
<1>1. done \in BOOLEAN /\ other \in BOOLEAN
  OBVIOUS
<1>2. MarkJITCreated(r, j, id, m) = IF Settled(r) THEN r
                                    ELSE IF m = NoJob THEN owner ELSE over
  BY DEF MarkJITCreated
<1> HIDE DEF done, other
<1>3. Follows(r, owner) /\ owner.claim = r.claim
  BY DEF Follows, Sound, Record
<1>4. Sound(over) /\ over.claim = r.claim /\ over.accepted = r.accepted
  <2>1. over \in Record
    BY <1>1 DEF Sound, Record, Statuses
  <2>2. /\ over.claim = r.claim /\ over.instance = r.instance
        /\ over.accepted = r.accepted /\ over.status = "completed"
    BY DEF Sound, Record
  <2> QED
    BY <2>1, <2>2, SoundIfAtRest
<1> HIDE DEF owner, over
<1> QED
  BY <1>2, <1>3, <1>4 DEF Follows

LEMMA MarkDeletionAcceptedSound ==
  ASSUME NEW r, Sound(r), NEW i \in Instances \cup {NoInstance}
  PROVE  /\ Sound(MarkDeletionAccepted(r, i))
         /\ MarkDeletionAccepted(r, i).claim = r.claim
  BY DEF MarkDeletionAccepted, Sound, Record

-----------------------------------------------------------------------------
(* Mutators that end a worker's work.                                       *)

\* Unclaiming a record keeps it sound unless it stands for unfinished work.
LEMMA FreedFollows ==
  ASSUME NEW r, Sound(r)
  PROVE  LET freed == [r EXCEPT !.claim = NoClaim]
         IN /\ Follows(r, freed) /\ freed.status = r.status
            /\ freed.throttles = r.throttles /\ freed.deletes = r.deletes
  BY DEF Follows, Sound, Record, WorkKinds, NoClaim

LEMMA RefundFollows ==
  ASSUME NEW r, Sound(r), NEW kind
  PROVE  Follows(r, Refund(r, kind)) /\ Refund(r, kind).throttles = r.throttles
<1> DEFINE back == IF r.status = "provisioning" THEN "pending" ELSE r.status
           again == IF r.status = "deleting" THEN "completed" ELSE r.status
           fewer == Less(r.attempts)
           less == Less(r.deletes)
           ready == [r EXCEPT !.attempts = fewer, !.status = back]
           over == [r EXCEPT !.deletes = less, !.status = again]
<1>1. fewer \in Budget /\ less \in Budget
  BY BudgetFacts DEF Sound, Record
<1>2. /\ back \in Statuses /\ again \in Statuses
      /\ back = "absent" => r.claim = NoClaim
      /\ again = "absent" => r.claim = NoClaim
      /\ back \in {"pending", "provisioning", "failed"} => r.instance = NoInstance
      /\ again \in {"pending", "provisioning", "failed"} => r.instance = NoInstance
      /\ back = "provisioned" => r.instance # NoInstance
      /\ again = "provisioned" => r.instance # NoInstance
  BY DEF Sound, Record, Statuses
<1>3. Refund(r, kind) = IF kind = "provision" THEN ready ELSE over
  BY DEF Refund
<1> HIDE DEF back, again, fewer, less
<1>4. Follows(r, ready) /\ ready.throttles = r.throttles
  BY <1>1, <1>2 DEF Follows, Sound, Record
<1>5. Follows(r, over) /\ over.throttles = r.throttles
  BY <1>1, <1>2 DEF Follows, Sound, Record
<1> HIDE DEF ready, over
<1> QED
  BY <1>3, <1>4, <1>5

LEMMA FreedRefundFollows ==
  ASSUME NEW r, Sound(r), NEW kind
  PROVE  /\ Follows(r, Refund([r EXCEPT !.claim = NoClaim], kind))
         /\ Refund([r EXCEPT !.claim = NoClaim], kind).throttles = r.throttles
<1> DEFINE freed == [r EXCEPT !.claim = NoClaim]
<1> SUFFICES Follows(r, Refund(freed, kind)) /\ Refund(freed, kind).throttles = r.throttles
  OBVIOUS
<1>1. Follows(r, freed) /\ freed.throttles = r.throttles
  BY FreedFollows
<1> HIDE DEF freed
<1> QED
  BY <1>1, RefundFollows DEF Follows

LEMMA MarkDeletedFollows ==
  ASSUME NEW r, Sound(r)
  PROVE  Follows(r, MarkDeleted(r))
<1> SUFFICES ASSUME NEW s, s = MarkDeleted(r) PROVE Follows(r, s)
  OBVIOUS
<1>1. Sound(s)
  BY DEF MarkDeleted, Sound, Record, Statuses, WorkKinds, NoClaim, NoInstance
<1>2. s.accepted \in {r.accepted, NoInstance}
  BY DEF MarkDeleted, Sound, Record
<1> QED
  BY <1>1, <1>2 DEF Follows

LEMMA MarkCompletedFollows ==
  ASSUME NEW r, Sound(r)
  PROVE  Follows(r, MarkCompleted(r))
<1> SUFFICES ASSUME NEW s, s = MarkCompleted(r) PROVE Follows(r, s)
  OBVIOUS
<1>1. Sound(s)
  BY DEF MarkCompleted, Settled, Sound, Record, Statuses, WorkKinds, NoClaim, NoInstance
<1>2. s.accepted \in {r.accepted, NoInstance}
  BY DEF MarkCompleted, Settled, Sound, Record
<1> QED
  BY <1>1, <1>2 DEF Follows

LEMMA LaterFollows ==
  ASSUME NEW r, NEW t, Follows(r, t), NEW b \in BOOLEAN
  PROVE  Follows(r, [t EXCEPT !.due = b]) /\ Follows(r, [t EXCEPT !.claim = NoClaim, !.due = b])
  BY DEF Follows, Sound, Record, WorkKinds, NoClaim

LEMMA ReleaseClaimFollows ==
  ASSUME NEW r, Sound(r), NEW kind \in WorkKinds
  PROVE  Follows(r, ReleaseClaim(r, kind))
<1> DEFINE freed == [r EXCEPT !.claim = NoClaim, !.due = TRUE]
<1>1. Follows(r, r)
  BY DEF Follows
<1>2. Follows(r, freed)
  BY <1>1, LaterFollows
<1>3. ReleaseClaim(r, kind) = IF Settled(r) \/ r.claim # kind THEN r
                              ELSE Refund(freed, kind)
  BY DEF ReleaseClaim
<1> HIDE DEF freed
<1>4. Follows(freed, Refund(freed, kind))
  BY <1>2, RefundFollows DEF Follows
<1> QED
  BY <1>1, <1>2, <1>3, <1>4 DEF Follows

LEMMA DeferRateLimitedWorkFollows ==
  ASSUME NEW r, Sound(r), NEW kind \in WorkKinds
  PROVE  Follows(r, DeferRateLimitedWork(r, kind))
<1> DEFINE freed == Refund([r EXCEPT !.claim = NoClaim], kind)
           ready == [freed EXCEPT !.due = TRUE]
           stopped == [freed EXCEPT !.throttles = MaxAttempts, !.status = "orphaned",
                                    !.due = TRUE]
           later == [freed EXCEPT !.throttles = @ + 1, !.due = FALSE]
<1>1. Follows(r, freed) /\ freed.throttles = r.throttles
  BY FreedRefundFollows
<1>2. DeferRateLimitedWork(r, kind) =
        IF Settled(r) \/ r.claim # kind THEN r
        ELSE IF kind = "provision" /\ r.status = "completed" THEN ready
        ELSE IF r.throttles + 1 >= MaxAttempts THEN stopped ELSE later
  BY DEF DeferRateLimitedWork
<1> HIDE DEF freed
<1>3. Follows(r, r) /\ Follows(r, ready)
  BY <1>1, LaterFollows DEF Follows
<1>4. Follows(r, stopped)
  <2>1. stopped \in Record
    BY <1>1, BudgetFacts DEF Follows, Sound, Record, Statuses
  <2>2. /\ stopped.claim = freed.claim /\ stopped.instance = freed.instance
        /\ stopped.accepted = freed.accepted /\ stopped.status = "orphaned"
    BY <1>1 DEF Follows, Sound, Record
  <2> QED
    BY <1>1, <2>1, <2>2 DEF Follows, Sound
<1>5. ASSUME ~(r.throttles + 1 >= MaxAttempts) PROVE Follows(r, later)
  <2>1. freed.throttles + 1 \in Budget
    BY <1>1, <1>5, BudgetFacts DEF Sound, Record, Follows
  <2>2. later \in Record
    BY <1>1, <2>1 DEF Follows, Sound, Record
  <2>3. /\ later.claim = freed.claim /\ later.instance = freed.instance
        /\ later.accepted = freed.accepted /\ later.status = freed.status
    BY <1>1 DEF Follows, Sound, Record
  <2> QED
    BY <1>1, <2>2, <2>3 DEF Follows, Sound
<1> HIDE DEF ready, stopped, later
<1> QED
  BY <1>2, <1>3, <1>4, <1>5

LEMMA DeferProvisioningDemandFollows ==
  ASSUME NEW r, Sound(r)
  PROVE  Follows(r, DeferProvisioningDemand(r))
<1> DEFINE freed == Refund([r EXCEPT !.claim = NoClaim], "provision")
           later == [freed EXCEPT !.due = FALSE, !.defer = TRUE]
<1>1. Follows(r, r) /\ Follows(r, freed)
  BY FreedRefundFollows DEF Follows
<1>2. DeferProvisioningDemand(r) =
        IF Settled(r) \/ r.claim # "provision" THEN r
        ELSE IF r.status = "completed" THEN freed ELSE later
  BY DEF DeferProvisioningDemand
<1> HIDE DEF freed
<1>3. Follows(r, later)
  <2>1. later \in Record
    BY <1>1 DEF Follows, Sound, Record
  <2>2. /\ later.claim = freed.claim /\ later.instance = freed.instance
        /\ later.accepted = freed.accepted /\ later.status = freed.status
    BY <1>1 DEF Follows, Sound, Record
  <2> QED
    BY <1>1, <2>1, <2>2, SoundIfAtRest DEF Follows
<1> HIDE DEF later
<1> QED
  BY <1>1, <1>2, <1>3

LEMMA MarkProvisionFailedFollows ==
  ASSUME NEW r, Sound(r), r.claim = "provision"
  PROVE  Follows(r, MarkProvisionFailed(r))
<1> DEFINE freed == [r EXCEPT !.throttles = 0, !.claim = NoClaim]
           failed == [freed EXCEPT !.status = "failed"]
           later == [freed EXCEPT !.status = "pending", !.due = FALSE]
<1>1. MarkProvisionFailed(r) =
        IF Settled(r) THEN r ELSE IF r.status = "completed" THEN freed
        ELSE IF r.attempts >= MaxAttempts THEN failed ELSE later
  BY DEF MarkProvisionFailed
<1>2. freed \in Record /\ freed.claim = NoClaim /\ freed.instance = NoInstance
      /\ freed.accepted = r.accepted /\ freed.status = r.status
  BY BudgetFacts DEF Sound, Record, WorkKinds, NoClaim
<1> HIDE DEF freed
<1>3. /\ failed \in Record /\ failed.claim = NoClaim /\ failed.instance = NoInstance
      /\ failed.accepted = r.accepted /\ failed.status = "failed"
  BY <1>2 DEF Record, Statuses
<1>4. /\ later \in Record /\ later.claim = NoClaim /\ later.instance = NoInstance
      /\ later.accepted = r.accepted /\ later.status = "pending"
  BY <1>2 DEF Record, Statuses
<1> HIDE DEF failed, later
<1>5. Follows(r, failed) /\ Follows(r, later) /\ Follows(r, r)
  BY <1>3, <1>4 DEF Follows, Sound, NoClaim
<1>6. r.status = "completed" => Follows(r, freed)
  BY <1>2 DEF Follows, Sound, NoClaim
<1> QED
  BY <1>1, <1>5, <1>6

LEMMA MarkProvisionedFollows ==
  ASSUME NEW r, Sound(r), NEW i \in Instances, NEW id \in Runners \cup {NoRunner}
  PROVE  Follows(r, MarkProvisioned(r, i, id))
<1> DEFINE old == IF r.accepted = i THEN r.accepted ELSE NoInstance
           next == IF r.status = "completed" THEN r.status ELSE "provisioned"
           over == [r EXCEPT !.instance = i, !.accepted = old, !.runner = id,
                             !.throttles = 0, !.claim = NoClaim, !.missed = FALSE,
                             !.status = next]
<1>1. /\ old \in {r.accepted, NoInstance} /\ old \in Instances \cup {NoInstance}
      /\ next \in {"completed", "provisioned"}
  BY DEF Sound, Record
<1>2. MarkProvisioned(r, i, id) = IF Settled(r) THEN r ELSE over
  BY DEF MarkProvisioned
<1> HIDE DEF old, next
<1>3. Follows(r, over)
  <2>1. over \in Record
    BY <1>1, BudgetFacts DEF Sound, Record, Statuses
  <2>2. /\ over.claim = NoClaim /\ over.instance = i
        /\ over.accepted = old /\ over.status = next
    BY DEF Sound, Record
  <2> QED
    BY <1>1, <2>1, <2>2, InstanceFact DEF Follows, Sound, NoClaim
<1> HIDE DEF over
<1> QED
  BY <1>2, <1>3 DEF Follows

LEMMA DeferDeletionConfirmationFollows ==
  ASSUME NEW r, Sound(r)
  PROVE  Follows(r, DeferDeletionConfirmation(r))
<1> DEFINE freed == Refund(r, "delete")
           later == [freed EXCEPT !.claim = NoClaim, !.due = FALSE]
<1>1. Follows(r, r) /\ Follows(r, freed)
  BY RefundFollows DEF Follows
<1>2. DeferDeletionConfirmation(r) \in {r, later}
  BY DEF DeferDeletionConfirmation
<1> HIDE DEF freed
<1>3. Follows(r, later)
  BY <1>1, LaterFollows
<1> HIDE DEF later
<1> QED
  BY <1>1, <1>2, <1>3

LEMMA DeferReassignmentDemandFollows ==
  ASSUME NEW r, Sound(r)
  PROVE  Follows(r, DeferReassignmentDemand(r))
<1> DEFINE freed == Refund(r, "delete")
           later == [freed EXCEPT !.claim = NoClaim, !.due = FALSE]
<1>1. Follows(r, r) /\ Follows(r, freed)
  BY RefundFollows DEF Follows
<1>2. DeferReassignmentDemand(r) \in {r, later}
  BY DEF DeferReassignmentDemand
<1> HIDE DEF freed
<1>3. Follows(r, later)
  BY <1>1, LaterFollows
<1> HIDE DEF later
<1> QED
  BY <1>1, <1>2, <1>3

LEMMA FinishDeletedRunnerFollows ==
  ASSUME NEW r, Sound(r), NEW queued \in BOOLEAN
  PROVE  Follows(r, FinishDeletedRunner(r, queued))
<1> DEFINE unclaimed == [r EXCEPT !.status = "pending", !.claim = NoClaim, !.defer = FALSE,
                 !.due = TRUE, !.recheck = FALSE, !.instance = NoInstance,
                 !.accepted = NoInstance]
           restored == [unclaimed EXCEPT !.runner = NoRunner, !.attempts = 0,
                 !.deletes = 0, !.failures = 0, !.throttles = 0,
                 !.seen = FALSE, !.missed = FALSE, !.lost = FALSE]
           gone == MarkDeleted(r)
           finished == [gone EXCEPT !.recheck = FALSE]
<1>1. FinishDeletedRunner(r, queued) \in {r, restored, finished}
  BY DEF FinishDeletedRunner
<1>2. Follows(r, r) /\ Follows(r, gone)
  BY MarkDeletedFollows DEF Follows
<1>3. Follows(r, restored)
  <2>1. unclaimed \in Record
    BY DEF Sound, Record, Statuses, WorkKinds, NoClaim
  <2>2. /\ unclaimed.claim = NoClaim /\ unclaimed.instance = NoInstance
        /\ unclaimed.accepted = NoInstance /\ unclaimed.status = "pending"
    BY DEF Sound, Record
  <2> HIDE DEF unclaimed
  <2>3. restored \in Record
    BY <2>1, BudgetFacts DEF Record
  <2>4. /\ restored.claim = NoClaim /\ restored.instance = NoInstance
        /\ restored.accepted = NoInstance /\ restored.status = "pending"
    BY <2>1, <2>2 DEF Record
  <2> HIDE DEF restored
  <2> QED
    BY <2>3, <2>4 DEF Follows, Sound, NoClaim
<1> HIDE DEF gone, restored, unclaimed
<1>4. Follows(r, finished)
  BY <1>2 DEF Follows, Sound, Record
<1> HIDE DEF finished
<1> QED
  BY <1>1, <1>2, <1>3, <1>4

LEMMA MarkDeleteFailedFollows ==
  ASSUME NEW r, Sound(r)
  PROVE  Follows(r, MarkDeleteFailed(r))
<1> DEFINE freed == [r EXCEPT !.throttles = 0, !.claim = NoClaim]
           stopped == [freed EXCEPT !.status = "orphaned"]
           later == [freed EXCEPT !.status = "completed", !.due = FALSE]
<1>1. MarkDeleteFailed(r) \in {r, stopped, later}
  BY DEF MarkDeleteFailed
<1>2. freed \in Record /\ freed.claim = NoClaim /\ freed.instance = r.instance
      /\ freed.accepted = r.accepted
  BY BudgetFacts DEF Sound, Record, WorkKinds, NoClaim
<1> HIDE DEF freed
<1>3. /\ stopped \in Record /\ stopped.claim = NoClaim /\ stopped.instance = r.instance
      /\ stopped.accepted = r.accepted /\ stopped.status = "orphaned"
  BY <1>2 DEF Record, Statuses
<1>4. /\ later \in Record /\ later.claim = NoClaim /\ later.instance = r.instance
      /\ later.accepted = r.accepted /\ later.status = "completed"
  BY <1>2 DEF Record, Statuses
<1> HIDE DEF stopped, later
<1>5. Follows(r, r) /\ Follows(r, stopped) /\ Follows(r, later)
  BY <1>3, <1>4, SoundIfAtRest DEF Follows
<1> QED
  BY <1>1, <1>5

LEMMA MarkOrphanedFollows ==
  ASSUME NEW r, Sound(r)
  PROVE  Follows(r, MarkOrphaned(r))
<1> SUFFICES ASSUME NEW s, s = MarkOrphaned(r) PROVE Follows(r, s)
  OBVIOUS
<1>1. Sound(s)
  BY DEF MarkOrphaned, Sound, Record, Statuses, WorkKinds, NoClaim, NoInstance
<1>2. s.accepted \in {r.accepted, NoInstance}
  BY DEF MarkOrphaned, Sound, Record
<1> QED
  BY <1>1, <1>2 DEF Follows

-----------------------------------------------------------------------------
(* Claiming and restart.                                                    *)

LEMMA ClaimProvisionFollows ==
  ASSUME NEW r, Sound(r), WantsProvision(r)
  PROVE  Follows(r, ClaimProvision(r)) /\ ClaimProvision(r).claim = "provision"
<1> SUFFICES ASSUME NEW s, s = ClaimProvision(r) PROVE Follows(r, s) /\ s.claim = "provision"
  OBVIOUS
<1>1. Sound(s) /\ s.claim = "provision"
  BY BudgetFacts DEF ClaimProvision, WantsProvision, Sound, Record, Statuses, WorkKinds, NoClaim, NoInstance
<1>2. s.accepted \in {r.accepted, NoInstance}
  BY DEF ClaimProvision, WantsProvision, Sound, Record
<1> QED
  BY <1>1, <1>2 DEF Follows

LEMMA ClaimDeleteFollows ==
  ASSUME NEW r, Sound(r), WantsDelete(r)
  PROVE  Follows(r, ClaimDelete(r)) /\ ClaimDelete(r).claim = "delete"
<1> SUFFICES ASSUME NEW s, s = ClaimDelete(r) PROVE Follows(r, s) /\ s.claim = "delete"
  OBVIOUS
<1>1. Sound(s) /\ s.claim = "delete"
  BY BudgetFacts DEF ClaimDelete, WantsDelete, Sound, Record, Statuses, WorkKinds, NoClaim, NoInstance
<1>2. s.accepted \in {r.accepted, NoInstance}
  BY DEF ClaimDelete, WantsDelete, Sound, Record
<1> QED
  BY <1>1, <1>2 DEF Follows

LEMMA RecoverRecordFollows ==
  ASSUME NEW r, Sound(r)
  PROVE  Follows(r, RecoverRecord(r)) /\ RecoverRecord(r).claim = NoClaim
<1> DEFINE freed == CASE r.status = "provisioning" -> Refund(r, "provision")
                      [] r.status = "deleting" -> Refund(r, "delete")
                      [] OTHER -> r
           ready == [freed EXCEPT !.claim = NoClaim, !.due = TRUE]
<1>1. RecoverRecord(r) = IF r.claim # NoClaim \/ r.status \in {"provisioning", "deleting"}
                         THEN ready ELSE r
  BY DEF RecoverRecord
<1>2. Follows(r, r) /\ Follows(r, freed)
  BY RefundFollows DEF Follows
<1> HIDE DEF freed
<1>3. Follows(r, ready) /\ ready.claim = NoClaim
  <2>1. Follows(r, ready)
    BY <1>2, LaterFollows
  <2> QED
    BY <2>1, <1>2 DEF Follows, Sound, Record
<1> HIDE DEF ready
<1> QED
  BY <1>1, <1>2, <1>3

-----------------------------------------------------------------------------
(* The inductive invariant.                                                  *)

RecordsSound == \A j \in Jobs : Sound(records[j])

\* What MarkProvisioned will store is an instance, and it knows whose.
HoldsInstance ==
  \A w \in Workers : /\ At(w, "persistVM") => worker[w].inst \in Instances
                     /\ At(w, "indexVM") => worker[w].job \in Jobs

ReaperHasJob == reaper.pc # "idle" => reaper.job \in Jobs

IInv ==
  /\ TypeOK /\ RecordsSound /\ HoldsInstance /\ ReaperHasJob
  /\ ClaimsExclusive /\ ReaperKeepsToUntracked

LEMMA Initially == Init => IInv
<1> SUFFICES ASSUME Init PROVE IInv
  OBVIOUS
<1> USE DEF Init, StoreInit, GitHubInit, ProviderInit, WorkerInit, ReaperInit
<1>1. RecordsSound
  BY AbsentSound DEF RecordsSound
<1>2. StoreTypeOK
  BY AbsentSound, FaultsAssumption DEF StoreTypeOK, Sound
<1>3. GitHubTypeOK
  BY BoundsAssumption DEF GitHubTypeOK
<1>4. ProviderTypeOK
  BY DEF ProviderTypeOK, VMStates
<1>5. WorkerTypeOK
  BY AbsentSound DEF WorkerTypeOK, Task, Idle, Sound
<1>6. ReaperTypeOK
  BY AbsentSound DEF ReaperTypeOK, ReaperIdle, NothingListed, ReaperPcs, Sound
<1>7. crashes \in 0 .. MaxCrashes
  BY ControllerAssumption
<1>8. HoldsInstance /\ ClaimsExclusive
  BY DEF HoldsInstance, ClaimsExclusive, At, Working, Idle
<1>9. ReaperHasJob /\ ReaperKeepsToUntracked
  BY DEF ReaperHasJob, ReaperKeepsToUntracked, InReaperHands, UntrackedPcs,
     ReaperIdle,
         NothingListed, Absent
<1> QED
  BY <1>1, <1>2, <1>3, <1>4, <1>5, <1>6, <1>7, <1>8, <1>9 DEF IInv, TypeOK

-----------------------------------------------------------------------------
(* How the parts of the state may move.                                      *)

\* Everything a step must show of the parts it cannot disturb otherwise.
WorldTypeOK == StoreTypeOK /\ GitHubTypeOK /\ ProviderTypeOK /\ crashes \in 0 .. MaxCrashes

\* No record loses its claim or gains one, and none leaves the reaper's hands.
AllRespected == \A j \in Jobs : Respects(records[j], records'[j])

LEMMA Unchanged == IInv /\ records' = records => AllRespected
  BY DEF IInv, RecordsSound, AllRespected, Respects, Follows

LEMMA PutRespects ==
  ASSUME IInv, NEW j \in Jobs, NEW r, Put(j, r), Respects(records[j], r)
  PROVE  StoreTypeOK' /\ AllRespected
<1>1. r \in Record
  BY DEF Respects, Follows, Sound
<1>2. StoreTypeOK'
  BY <1>1 DEF IInv, TypeOK, StoreTypeOK, Put
<1>3. \A k \in Jobs : Respects(records[k], records'[k])
  BY DEF IInv, TypeOK, StoreTypeOK, RecordsSound, Put, Respects, Follows
<1> QED
  BY <1>2, <1>3 DEF AllRespected

LEMMA PutFailsRespects ==
  ASSUME IInv, PutFails
  PROVE  StoreTypeOK' /\ AllRespected /\ records' = records
  BY Unchanged, FaultsAssumption DEF IInv, TypeOK, StoreTypeOK, PutFails

\* A step outside the workers that respects every record: the parts of the
\* reaper's step are given, the rest of the invariant follows.
LEMMA RespectfulStep ==
  ASSUME IInv, AllRespected, WorldTypeOK', UNCHANGED worker, ReaperTypeOK',
           ReaperHasJob',
         \A j \in Jobs : InReaperHands(j)' => InReaperHands(j) \/ Untracked(records'[j])
  PROVE  IInv'
<1>1. RecordsSound'
  BY DEF AllRespected, RecordsSound, Respects, Follows
<1>2. WorkerTypeOK' /\ HoldsInstance'
  BY DEF IInv, TypeOK, WorkerTypeOK, HoldsInstance, At
<1>3. ClaimsExclusive'
  BY DEF IInv, ClaimsExclusive, AllRespected, Respects, Follows, Working, KindOf
<1>4. ReaperKeepsToUntracked'
  BY DEF IInv, ReaperKeepsToUntracked, AllRespected, Respects, Follows
<1> QED
  BY <1>1, <1>2, <1>3, <1>4 DEF IInv, TypeOK, WorldTypeOK

LEMMA EnvironmentStep ==
  ASSUME IInv, AllRespected, WorldTypeOK', UNCHANGED <<worker, reaper>>
  PROVE  IInv'
<1>1. ReaperTypeOK' /\ ReaperHasJob'
  BY DEF IInv, TypeOK, ReaperTypeOK, ReaperHasJob
<1>2. \A j \in Jobs : InReaperHands(j)' => InReaperHands(j)
  BY DEF InReaperHands
<1> QED
  BY <1>1, <1>2, RespectfulStep

-----------------------------------------------------------------------------
(* Steps of a worker.                                                        *)

LEMMA PcFacts ==
  /\ ProvisionPcs \cap DeletePcs = {}
  /\ {"idle", "indexVM"} \cap (ProvisionPcs \cup DeletePcs) = {}
  BY DEF ProvisionPcs, DeletePcs

\* Only the record of worker w may have changed, to a sound one.
OnlyOwnRecord(w) ==
  /\ \A j \in Jobs : j # worker[w].job => records'[j] = records[j]
  /\ Sound(records'[worker[w].job])

\* The reaper holds nothing of a record that a worker works on.
LEMMA ReaperKeepsOff ==
  ASSUME IInv, NEW w \in Workers, Working(w), OnlyOwnRecord(w), UNCHANGED reaper
  PROVE  /\ RecordsSound'
         /\ ReaperKeepsToUntracked' /\ ReaperTypeOK' /\ ReaperHasJob'
<1>1. /\ worker[w].job \in Jobs
      /\ records[worker[w].job].claim # NoClaim
  BY DEF IInv, ClaimsExclusive, KindOf, NoClaim
<1>2. RecordsSound'
  BY <1>1 DEF IInv, RecordsSound, OnlyOwnRecord
<1>3. ~InReaperHands(worker[w].job)
  BY <1>1 DEF IInv, ReaperKeepsToUntracked, Untracked
<1>4. ReaperKeepsToUntracked'
  BY <1>1, <1>3 DEF IInv, ReaperKeepsToUntracked, OnlyOwnRecord, InReaperHands
<1>5. ReaperTypeOK' /\ ReaperHasJob'
  BY DEF IInv, TypeOK, ReaperTypeOK, ReaperHasJob
<1> QED
  BY <1>2, <1>4, <1>5

SameKind(w, pc) ==
  \/ worker[w].pc \in ProvisionPcs /\ pc \in ProvisionPcs
  \/ worker[w].pc \in DeletePcs /\ pc \in DeletePcs

\* The worker goes on with its record, which keeps its claim.
LEMMA WorkerGoesOn ==
  ASSUME IInv, WorldTypeOK', NEW w \in Workers, OnlyOwnRecord(w), UNCHANGED reaper,
         records'[worker[w].job].claim = records[worker[w].job].claim,
         NEW t \in Task, worker' = [worker EXCEPT ![w] = t],
         t.job = worker[w].job, SameKind(w, t.pc),
         t.pc = "persistVM" => t.inst \in Instances
  PROVE  IInv'
<1>1. Working(w) /\ t.pc \notin {"idle", "indexVM"} /\ worker[w] \in Task
  BY PcFacts DEF IInv, TypeOK, WorkerTypeOK, SameKind, Working
<1>2. WorkerTypeOK'
  BY DEF IInv, TypeOK, WorkerTypeOK
<1>3. HoldsInstance'
  BY <1>1 DEF IInv, TypeOK, WorkerTypeOK, HoldsInstance, At
<1>4. \A v \in Workers : /\ Working(v)' <=> Working(v)
                         /\ worker'[v].job = worker[v].job
                         /\ KindOf(v)' = KindOf(v)
  <2>1. KindOf(w)' = KindOf(w)
    BY PcFacts DEF IInv, TypeOK, WorkerTypeOK, KindOf, SameKind
  <2> QED
    BY <1>1, <2>1 DEF IInv, TypeOK, WorkerTypeOK, Working, KindOf
<1>5. ClaimsExclusive'
  BY <1>1, <1>4 DEF IInv, ClaimsExclusive, OnlyOwnRecord
<1> QED
  BY <1>1, <1>2, <1>3, <1>5, ReaperKeepsOff DEF IInv, TypeOK, WorldTypeOK

\* What a worker does while it has no claim.
Resting(t) ==
  t \in Task /\ t.pc \in {"idle", "indexVM"} /\ (t.pc = "indexVM" => t.job \in Jobs)

LEMMA IdleRests == Resting(Idle)
  BY AbsentSound DEF Resting, Idle, Task, Sound

\* The worker gives up its record.
LEMMA WorkerLeaves ==
  ASSUME IInv, WorldTypeOK', NEW w \in Workers, Working(w), OnlyOwnRecord(w),
         UNCHANGED reaper, NEW t, Resting(t), worker' = [worker EXCEPT ![w] = t]
  PROVE  IInv'
<1>1. WorkerTypeOK' /\ HoldsInstance'
  BY DEF IInv, TypeOK, WorkerTypeOK, HoldsInstance, At, Resting
<1>2. ClaimsExclusive'
  BY DEF IInv, TypeOK, WorkerTypeOK, ClaimsExclusive, OnlyOwnRecord, Working, KindOf,
         Resting
<1> QED
  BY <1>1, <1>2, ReaperKeepsOff DEF IInv, TypeOK, WorldTypeOK

LEMMA WorkerFinishes ==
  ASSUME IInv, WorldTypeOK', NEW w \in Workers, Working(w), OnlyOwnRecord(w),
         UNCHANGED reaper, Finish(w)
  PROVE  IInv'
  BY IdleRests, WorkerLeaves DEF Finish

\* A worker without a claim moves on and changes no record.
LEMMA RestingStep ==
  ASSUME IInv, WorldTypeOK', NEW w \in Workers, Resting(worker[w]), UNCHANGED <<records,
           reaper>>,
         NEW t, Resting(t), worker' = [worker EXCEPT ![w] = t]
  PROVE  IInv'
<1>1. WorkerTypeOK' /\ HoldsInstance'
  BY DEF IInv, TypeOK, WorkerTypeOK, HoldsInstance, At, Resting
<1>2. ClaimsExclusive' /\ RecordsSound'
  BY DEF IInv, TypeOK, WorkerTypeOK, ClaimsExclusive, RecordsSound, Working, KindOf,
         Resting
<1>3. ReaperKeepsToUntracked' /\ ReaperTypeOK' /\ ReaperHasJob'
  BY DEF IInv, TypeOK, ReaperKeepsToUntracked, InReaperHands, ReaperTypeOK, ReaperHasJob
<1> QED
  BY <1>1, <1>2, <1>3 DEF IInv, TypeOK, WorldTypeOK

-----------------------------------------------------------------------------
(* The steps of a worker, by what they call.                                 *)

LEMMA WorkingFacts ==
  ASSUME IInv, NEW w \in Workers, Working(w)
  PROVE  /\ worker[w] \in Task /\ worker[w].job \in Jobs /\ worker[w].rec \in Record
         /\ records[worker[w].job] \in Record /\ Sound(records[worker[w].job])
         /\ records[worker[w].job].claim = KindOf(w)
  BY DEF IInv, TypeOK, WorkerTypeOK, Task, ClaimsExclusive, RecordsSound, Sound

LEMMA SameKindWorks ==
  ASSUME NEW w \in Workers, NEW pc, SameKind(w, pc)
  PROVE  Working(w)
  BY PcFacts DEF SameKind, Working

LEMMA StoreStays ==
  ASSUME IInv, NEW w \in Workers, Working(w), UNCHANGED storeVars
  PROVE  StoreTypeOK' /\ OnlyOwnRecord(w) /\ records' = records
  BY WorkingFacts DEF storeVars, IInv, TypeOK, StoreTypeOK, OnlyOwnRecord

LEMMA OthersStay ==
  IInv => /\ UNCHANGED githubVars => GitHubTypeOK'
          /\ UNCHANGED vm => ProviderTypeOK'
          /\ UNCHANGED crashes => (crashes \in 0 .. MaxCrashes)'
  BY DEF IInv, TypeOK, githubVars, GitHubTypeOK, ProviderTypeOK

LEMMA PutOwn ==
  ASSUME IInv, NEW w \in Workers, Working(w), NEW r, Sound(r), Put(worker[w].job, r)
  PROVE  StoreTypeOK' /\ OnlyOwnRecord(w) /\ records'[worker[w].job] = r
<1>1. r \in Record
  BY DEF Sound
<1> QED
  BY <1>1, WorkingFacts DEF IInv, TypeOK, StoreTypeOK, Put, OnlyOwnRecord

LEMMA PutFailsOwn ==
  ASSUME IInv, NEW w \in Workers, Working(w), PutFails
  PROVE  StoreTypeOK' /\ OnlyOwnRecord(w) /\ records' = records
  BY WorkingFacts, PutFailsRespects DEF OnlyOwnRecord

LEMMA GotoGoesOn ==
  ASSUME IInv, WorldTypeOK', NEW w \in Workers, OnlyOwnRecord(w), UNCHANGED reaper,
         records'[worker[w].job].claim = records[worker[w].job].claim,
         NEW pc, Goto(w, pc), SameKind(w, pc), pc # "persistVM"
  PROVE  IInv'
<1> DEFINE t == [worker[w] EXCEPT !.pc = pc]
<1>1. worker[w] \in Task /\ pc \in ProvisionPcs \cup DeletePcs
  BY WorkingFacts, SameKindWorks DEF SameKind
<1>2. t \in Task /\ t.job = worker[w].job /\ t.pc = pc
  BY <1>1 DEF Task
<1>3. worker' = [worker EXCEPT ![w] = t]
  BY DEF Goto
<1> HIDE DEF t
<1> QED
  BY <1>2, <1>3, WorkerGoesOn

\* A call that is not a store call.
LEMMA RemoteCall ==
  ASSUME IInv, NEW w \in Workers, UNCHANGED <<storeVars, reaper, crashes>>,
         GitHubTypeOK', ProviderTypeOK',
         NEW pc, Goto(w, pc), SameKind(w, pc), pc # "persistVM"
  PROVE  IInv'
  BY SameKindWorks, StoreStays, OthersStay, GotoGoesOn DEF WorldTypeOK

\* A store call after which the worker goes on.
LEMMA StoreCall ==
  ASSUME IInv, NEW w \in Workers, CallsStore, UNCHANGED <<reaper, crashes>>,
         NEW r, Sound(r), r.claim = records[worker[w].job].claim,
            Put(worker[w].job, r),
         NEW pc, Goto(w, pc), SameKind(w, pc), pc # "persistVM"
  PROVE  IInv'
  BY SameKindWorks, PutOwn, OthersStay, GotoGoesOn DEF WorldTypeOK, CallsStore

LEMMA FailedStoreCall ==
  ASSUME IInv, NEW w \in Workers, CallsStore, UNCHANGED <<reaper, crashes>>, PutFails,
         NEW pc, Goto(w, pc), SameKind(w, pc), pc # "persistVM"
  PROVE  IInv'
  BY SameKindWorks, PutFailsOwn, OthersStay, GotoGoesOn DEF WorldTypeOK, CallsStore

\* The store call that ends the work.
LEMMA LastStoreCall ==
  ASSUME IInv, NEW w \in Workers, Working(w), CallsStore, UNCHANGED <<reaper,
           crashes>>,
         Finish(w),
         PutFails \/ \E r : Sound(r) /\ Put(worker[w].job, r)
  PROVE  IInv'
  BY PutOwn, PutFailsOwn, OthersStay, WorkerFinishes DEF WorldTypeOK, CallsStore

-----------------------------------------------------------------------------
(* GitHub and the provider.                                                  *)

LEMMA RemoveType ==
  ASSUME GitHubTypeOK, NEW id, RemoveRepoRunner(id)
  PROVE  GitHubTypeOK'
  BY DEF GitHubTypeOK, RemoveRepoRunner

LEMMA RemovalFailsType ==
  ASSUME GitHubTypeOK, NEW id, NEW e, RemovalFails(id, e)
  PROVE  GitHubTypeOK'
  BY RemoveType DEF RemovalFails, GitHubTypeOK, githubVars

LEMMA IssueType ==
  ASSUME GitHubTypeOK, Issue
  PROVE  GitHubTypeOK' /\ issued + 1 \in Runners
  BY BoundsAssumption DEF GitHubTypeOK, Issue, Runners

LEMMA RemovalErrorKinds ==
  \A id : RemovalErrors(id) \subseteq {"other", "cancelled", "limited", "busy"}
  BY ErrorsAssumption DEF RemovalErrors

LEMMA DeleteVMType ==
  ASSUME ProviderTypeOK, NEW i
  PROVE  DeleteVM(i) \/ DeleteFails(i) \/ DeleteMismatches(i) => ProviderTypeOK'
  BY DEF ProviderTypeOK, DeleteVM, DeleteFails, DeleteMismatches, Leave, VMStates

LEMMA StartVMType ==
  ASSUME ProviderTypeOK, NEW i \in Instances, NEW j \in Jobs,
         NEW id \in Runners \cup {NoRunner}, StartVM(i, j, id)
  PROVE  ProviderTypeOK'
  BY DEF ProviderTypeOK, StartVM, VMStates

LEMMA CreateFailsType ==
  ASSUME ProviderTypeOK, NEW j \in Jobs, NEW id \in Runners \cup {NoRunner}, NEW e,
         CreateFails(j, id, e)
  PROVE  ProviderTypeOK'
<1>1. CASE UNCHANGED vm
  BY <1>1 DEF ProviderTypeOK
<1>2. CASE \E i \in Instances : CreateStarts(j, i, id)
  BY <1>2, StartVMType DEF CreateStarts
<1> QED
  BY <1>1, <1>2 DEF CreateFails

LEMMA CleanupType ==
  ASSUME ProviderTypeOK, NEW j, NEW except
  PROVE  CleanupVMs(j, except) \/ CleanupStops(j,
     except) \/ CleanupMismatches(j, except)
           => ProviderTypeOK'
  BY DEF ProviderTypeOK, CleanupVMs, CleanupStops, CleanupMismatches, Leave, VMStates

-----------------------------------------------------------------------------
(* Where errors lead.                                                        *)

LEMMA ProvisionFailedPc ==
  ASSUME NEW w \in Workers, NEW e
  PROVE  /\ ProvisionFailed(w, e) \in ProvisionPcs \ {"persistVM"}
         /\ DeferDemandCheck(w, e) \subseteq ProvisionPcs \ {"persistVM"}
         /\ OrphanProvision(w) \in ProvisionPcs \ {"persistVM"}
<1>1. OrphanProvision(w) \in ProvisionPcs \ {"persistVM"}
  BY DEF OrphanProvision, ProvisionPcs
<1>2. ProvisionFailed(w, e) \in ProvisionPcs \ {"persistVM"}
  BY <1>1 DEF ProvisionFailed, ProvisionPcs
<1>3. "deferDemand" \in ProvisionPcs \ {"persistVM"}
  BY DEF ProvisionPcs
<1> QED
  BY <1>1, <1>2, <1>3 DEF DeferDemandCheck

LEMMA DeleteFailedPc ==
  ASSUME NEW w \in Workers, NEW e
  PROVE  DeleteFailed(w, e) \in DeletePcs \ {"persistVM"}
  BY DEF DeleteFailed, OrphanDelete, DeletePcs

LEMMA DeregisterLeads ==
  ASSUME NEW w \in Workers, worker[w].pc \in DeregisterPcs, NEW e
  PROVE  /\ SameKind(w, AfterRemoval(w)) /\ AfterRemoval(w) # "persistVM"
         /\ \A pc \in AfterRefusal(w, e) : SameKind(w, pc) /\ pc # "persistVM"
<1>1. SameKind(w, AfterRemoval(w)) /\ AfterRemoval(w) # "persistVM"
  BY DEF DeregisterPcs, AfterRemoval, At, SameKind, ProvisionPcs, DeletePcs
<1>2. CASE worker[w].pc = "unregister"
  BY <1>1, <1>2, ProvisionFailedPc DEF AfterRefusal, At, SameKind, ProvisionPcs
<1>3. CASE worker[w].pc = "stale"
  BY <1>1, <1>3, ProvisionFailedPc DEF AfterRefusal, At, SameKind, ProvisionPcs
<1>4. CASE worker[w].pc = "deregister"
  BY <1>1, <1>4, DeleteFailedPc DEF AfterRefusal, At, SameKind, DeletePcs
<1>5. CASE worker[w].pc \in {"exhaustedJIT", "orphanProvision", "orphanDelete"}
  BY <1>1, <1>5 DEF AfterRefusal, At, SameKind, ProvisionPcs, DeletePcs
<1> QED
  BY <1>2, <1>3, <1>4, <1>5 DEF DeregisterPcs

LEMMA ClearLeads ==
  ASSUME NEW w \in Workers, worker[w].pc \in ClearPcs
  PROVE  /\ SameKind(w, AfterClear(w)) /\ AfterClear(w) # "persistVM"
         /\ \A pc \in AfterClearFails(w) : SameKind(w, pc) /\ pc # "persistVM"
<1>1. SameKind(w, AfterClear(w)) /\ AfterClear(w) # "persistVM"
  BY DEF ClearPcs, AfterClear, At, SameKind, ProvisionPcs, DeletePcs
<1>2. CASE worker[w].pc = "clearIdle"
  BY <1>1, <1>2, ProvisionFailedPc DEF AfterClearFails, At, SameKind, ProvisionPcs
<1>3. CASE worker[w].pc = "clearStale"
  BY <1>1, <1>3, ProvisionFailedPc DEF AfterClearFails, At, SameKind, ProvisionPcs
<1>4. CASE worker[w].pc \in {"clearExhausted", "clearOrphanProvision",
   "clearOrphanDelete"}
  BY <1>1, <1>4 DEF AfterClearFails, At, SameKind, ProvisionPcs, DeletePcs
<1> QED
  BY <1>2, <1>3, <1>4 DEF ClearPcs

-----------------------------------------------------------------------------
(* The steps that provisioning and deletion share.                           *)

LEMMA DeregisterKeeps ==
  ASSUME IInv, NEW w \in Workers, Deregister(w), UNCHANGED <<reaper, crashes>>
  PROVE  IInv'
<1> DEFINE id == worker[w].rec.runner
<1>1. GitHubTypeOK' /\ ProviderTypeOK' /\ UNCHANGED storeVars
  BY OthersStay, RemoveType, RemovalFailsType DEF Deregister, CallsGitHub,
     IInv, TypeOK
<1>2. CASE Goto(w, AfterRemoval(w))
  BY <1>1, <1>2, DeregisterLeads, RemoteCall DEF Deregister
<1>3. CASE \E e \in RemovalErrors(id) : \E pc \in AfterRefusal(w, e) : Goto(w, pc)
  BY <1>1, <1>3, DeregisterLeads, RemoteCall DEF Deregister
<1> QED
  BY <1>2, <1>3 DEF Deregister

LEMMA ClearKeeps ==
  ASSUME IInv, NEW w \in Workers, Clear(w), UNCHANGED <<reaper, crashes>>
  PROVE  IInv'
<1> DEFINE r == records[worker[w].job]
<1>1. Sound(ClearJIT(r)) /\ ClearJIT(r).claim = r.claim
  BY ClearLeads, SameKindWorks, WorkingFacts, ClearJITRespects DEF Clear, Respects, Follows
<1>2. CASE Put(worker[w].job, ClearJIT(r)) /\ Goto(w, AfterClear(w))
  BY <1>1, <1>2, ClearLeads, StoreCall DEF Clear
<1>3. CASE PutFails /\ \E pc \in AfterClearFails(w) : Goto(w, pc)
  BY <1>3, ClearLeads, FailedStoreCall DEF Clear
<1> QED
  BY <1>2, <1>3 DEF Clear

LEMMA LastWriteSound ==
  ASSUME IInv, NEW w \in Workers, worker[w].pc \in LastWritePcs
  PROVE  Sound(LastWrite(w))
<1> DEFINE r == records[worker[w].job]
<1>1. Working(w) /\ Sound(r) /\ r.claim = KindOf(w)
  BY WorkingFacts DEF LastWritePcs, Working
<1>2. {"provision", "delete"} \subseteq WorkKinds
  BY DEF WorkKinds
<1>3. CASE At(w, "markFailed")
  <2>1. KindOf(w) = "provision"
    BY <1>3 DEF KindOf, At, ProvisionPcs
  <2> QED
    BY <1>1, <1>3, <2>1, MarkProvisionFailedFollows DEF LastWrite, At, Follows
<1>4. CASE worker[w].pc \in {"releaseProvision", "deferProvision", "deferDemand"}
  BY <1>1, <1>2, <1>4, ReleaseClaimFollows, DeferRateLimitedWorkFollows,
     DeferProvisioningDemandFollows DEF LastWrite, At, Follows
<1>5. CASE worker[w].pc \in {"releaseDelete", "deferDelete", "failDelete"}
  BY <1>1, <1>2, <1>5, ReleaseClaimFollows, DeferRateLimitedWorkFollows,
     MarkDeleteFailedFollows
     DEF LastWrite, At, Follows
<1>6. CASE worker[w].pc \in {"deferReassigned", "markOrphanProvision",
   "markOrphanDelete"}
  BY <1>1, <1>6, DeferReassignmentDemandFollows, MarkOrphanedFollows DEF LastWrite, At, Follows
<1> QED
  BY <1>3, <1>4, <1>5, <1>6 DEF LastWritePcs, At

LEMMA EndWorkKeeps ==
  ASSUME IInv, NEW w \in Workers, EndWork(w), UNCHANGED <<reaper, crashes>>
  PROVE  IInv'
<1>1. Working(w)
  BY DEF EndWork, LastWritePcs, Working
<1> QED
  BY <1>1, LastWriteSound, LastStoreCall DEF EndWork

-----------------------------------------------------------------------------
(* Provisioning.                                                             *)

\* A provisioning step moves among the steps of provisioning.
LEMMA AtProvision ==
  ASSUME IInv, NEW w \in Workers, worker[w].pc \in ProvisionPcs
  PROVE  /\ Working(w) /\ KindOf(w) = "provision"
         /\ records[worker[w].job].claim = "provision"
         /\ \A pc \in ProvisionPcs : SameKind(w, pc)
  BY PcFacts, WorkingFacts DEF SameKind, KindOf, Working

\* Local and remote steps that only move the worker, or fail.
LEMMA ProvisionMoves ==
  ASSUME IInv, NEW w \in Workers, worker[w].pc \in ProvisionPcs,
         UNCHANGED <<storeVars, reaper, crashes>>, GitHubTypeOK', ProviderTypeOK',
         \/ \E pc \in ProvisionPcs \ {"persistVM"} : Goto(w, pc)
         \/ \E e : Goto(w, ProvisionFailed(w, e))
  PROVE  IInv'
<1>1. \E pc \in ProvisionPcs \ {"persistVM"} : Goto(w, pc)
  BY ProvisionFailedPc
<1> QED
  BY <1>1, AtProvision, RemoteCall

\* An instance was found or created.
LEMMA InstanceInHand ==
  ASSUME IInv, NEW w \in Workers, worker[w].pc \in ProvisionPcs,
         UNCHANGED <<storeVars, reaper, crashes>>, GitHubTypeOK', ProviderTypeOK',
         NEW i \in Instances, NEW pc \in ProvisionPcs,
         worker' = [worker EXCEPT ![w].inst = i, ![w].pc = pc]
  PROVE  IInv'
<1> DEFINE t == [worker[w] EXCEPT !.inst = i, !.pc = pc]
<1>1. worker[w] \in Task
  BY AtProvision, WorkingFacts
<1>2. t \in Task /\ t.job = worker[w].job /\ t.pc = pc /\ t.inst = i
  BY <1>1 DEF Task
<1>3. worker' = [worker EXCEPT ![w] = t]
  BY DEF IInv, TypeOK, WorkerTypeOK
<1> HIDE DEF t
<1> QED
  BY <1>2, <1>3, AtProvision, StoreStays, OthersStay, WorkerGoesOn DEF WorldTypeOK

LEMMA FindKeeps ==
  ASSUME IInv, NEW w \in Workers, Find(w), UNCHANGED <<reaper, crashes>>
  PROVE  IInv'
<1>1. worker[w].pc \in ProvisionPcs
  BY DEF Find, At, ProvisionPcs
<1>2. GitHubTypeOK' /\ ProviderTypeOK' /\ UNCHANGED storeVars
  BY OthersStay DEF Find, Local
<1>3. {"demand", "dropVM",
   "persistVM"} \subseteq ProvisionPcs /\ "demand" # "persistVM"
  BY DEF ProvisionPcs
<1>4. CASE Goto(w, "demand") \/ \E e : Goto(w, ProvisionFailed(w, e))
  BY <1>1, <1>2, <1>3, <1>4, ProvisionMoves
<1>5. CASE \E seen \in Listings(worker[w].job) : \E i \in seen :
             worker' = [worker EXCEPT ![w].inst = i,
                ![w].pc = IF worker[w].rec.runner = NoRunner THEN "dropVM" ELSE "persistVM"]
  <2>1. \A seen \in Listings(worker[w].job) : seen \subseteq Instances
    BY DEF Listings, ListedFor, LeavingFor
  <2>2. PICK i \in Instances :
             worker' = [worker EXCEPT ![w].inst = i,
                ![w].pc = IF worker[w].rec.runner = NoRunner THEN "dropVM" ELSE "persistVM"]
    BY <1>5, <2>1
  <2> QED
    BY <1>1, <1>2, <1>3, <2>2, InstanceInHand
<1> QED
  BY <1>4, <1>5 DEF Find

LEMMA DropVMKeeps ==
  ASSUME IInv, NEW w \in Workers, DropVM(w), UNCHANGED <<reaper, crashes>>
  PROVE  IInv'
<1>1. worker[w].pc \in ProvisionPcs
  BY DEF DropVM, At, ProvisionPcs
<1>2. GitHubTypeOK' /\ ProviderTypeOK' /\ UNCHANGED storeVars
  BY OthersStay, DeleteVMType DEF DropVM, CallsProvider, IInv, TypeOK
<1> QED
  BY <1>1, <1>2, ProvisionMoves DEF DropVM

LEMMA DemandKeeps ==
  ASSUME IInv, NEW w \in Workers, CheckDemand(w) \/ AskDemand(w),
           UNCHANGED <<reaper, crashes>>
  PROVE  IInv'
<1>1. worker[w].pc \in ProvisionPcs
  BY DEF CheckDemand, AskDemand, At, ProvisionPcs
<1>2. GitHubTypeOK' /\ ProviderTypeOK' /\ UNCHANGED storeVars
  BY OthersStay DEF CheckDemand, AskDemand, Local
<1>3. {"ask", "create", "generate", "stale",
   GiveUpDemand(w)} \subseteq ProvisionPcs \ {"persistVM"}
  BY DEF ProvisionPcs, GiveUpDemand
<1>4. \E pc \in ProvisionPcs \ {"persistVM"} : Goto(w, pc)
  BY <1>3, ProvisionFailedPc DEF CheckDemand, AskDemand
<1> QED
  BY <1>1, <1>2, <1>4, ProvisionMoves

LEMMA RetireKeeps ==
  ASSUME IInv, NEW w \in Workers, Retire(w), UNCHANGED <<reaper, crashes>>
  PROVE  IInv'
<1> DEFINE r == records[worker[w].job]
           s == IF r.instance = NoInstance THEN MarkDeleted(r)
                ELSE ScheduleDeletion(ReleaseClaim(MarkCompleted(r), "provision"))
<1>1. worker[w].pc \in ProvisionPcs
  BY DEF Retire, At, ProvisionPcs
<1>2. Sound(r)
  BY <1>1, AtProvision, WorkingFacts
<1>3. "provision" \in WorkKinds
  BY DEF WorkKinds
<1>4. Sound(s)
  BY <1>2, <1>3, MarkDeletedFollows, MarkCompletedFollows, ReleaseClaimFollows,
     ScheduleDeletionRespects DEF Respects, Follows
<1>5. CASE Put(worker[w].job, s) /\ Finish(w)
  BY <1>1, <1>4, <1>5, AtProvision, LastStoreCall DEF Retire
<1>6. CASE PutFails /\ Goto(w, ProvisionFailed(w, "other"))
  BY <1>1, <1>6, AtProvision, ProvisionFailedPc, FailedStoreCall DEF Retire
<1> QED
  BY <1>5, <1>6 DEF Retire

LEMMA GenerateKeeps ==
  ASSUME IInv, NEW w \in Workers, Generate(w), UNCHANGED <<reaper, crashes>>
  PROVE  IInv'
<1>1. worker[w].pc \in ProvisionPcs
  BY DEF Generate, At, ProvisionPcs
<1>2. ProviderTypeOK' /\ UNCHANGED storeVars
  BY OthersStay DEF Generate, CallsGitHub
<1>3. CASE GenerateJIT /\ worker' = [worker EXCEPT ![w].pc = "persistJIT",
   ![w].jit = issued + 1]
  <2> DEFINE t == [worker[w] EXCEPT !.pc = "persistJIT", !.jit = issued + 1]
  <2>1. GitHubTypeOK' /\ issued + 1 \in Runners
    BY <1>3, IssueType DEF GenerateJIT, IInv, TypeOK
  <2>2. worker[w] \in Task /\ "persistJIT" \in ProvisionPcs
    BY <1>1, AtProvision, WorkingFacts DEF ProvisionPcs
  <2>3. t \in Task /\ t.job = worker[w].job /\ t.pc = "persistJIT"
    BY <2>1, <2>2 DEF Task
  <2>4. worker' = [worker EXCEPT ![w] = t]
    BY <1>3 DEF IInv, TypeOK, WorkerTypeOK
  <2> HIDE DEF t
  <2> QED
    BY <1>1, <1>2, <2>1, <2>2, <2>3, <2>4, AtProvision, StoreStays, OthersStay,
       WorkerGoesOn
       DEF WorldTypeOK
<1>4. CASE \E e \in Errors : GenerateJITFails /\ Goto(w, ProvisionFailed(w, e))
  <2>1. GitHubTypeOK'
    BY <1>4, OthersStay, IssueType DEF GenerateJITFails, IInv, TypeOK
  <2> QED
    BY <1>1, <1>2, <1>4, <2>1, ProvisionMoves DEF Generate
<1> QED
  BY <1>3, <1>4 DEF Generate

LEMMA PutJITSound ==
  ASSUME IInv, NEW w \in Workers, Working(w), NEW id \in Runners \cup {NoRunner},
         PutJIT(worker[w].job, id)
  PROVE  /\ StoreTypeOK' /\ OnlyOwnRecord(w)
         /\ records'[worker[w].job].claim = records[worker[w].job].claim
<1> DEFINE r == records[worker[w].job]
           s == MarkJITCreated(r, worker[w].job, id, markers[id])
<1>1. worker[w].job \in Jobs /\ Sound(r)
  BY WorkingFacts
<1>2. Sound(s) /\ s.claim = r.claim /\ s \in Record
  BY <1>1, MarkJITCreatedFollows DEF Sound, Follows
<1>3. records' = [records EXCEPT ![worker[w].job] = s]
  BY DEF PutJIT
<1> HIDE DEF s
<1>4. StoreTypeOK'
  BY <1>1, <1>2, <1>3 DEF IInv, TypeOK, StoreTypeOK, PutJIT
<1> QED
  BY <1>1, <1>2, <1>3, <1>4 DEF IInv, TypeOK, StoreTypeOK, OnlyOwnRecord

LEMMA PersistJITKeeps ==
  ASSUME IInv, NEW w \in Workers, PersistJIT(w), UNCHANGED <<reaper, crashes>>
  PROVE  IInv'
<1> DEFINE id == worker[w].jit
           t == [worker[w] EXCEPT !.pc = "demand", !.rec.runner = id]
<1>1. worker[w].pc \in ProvisionPcs /\ {"demand", "dropJIT"} \subseteq ProvisionPcs
  BY DEF PersistJIT, At, ProvisionPcs
<1>2. worker[w] \in Task /\ Working(w)
  BY <1>1, AtProvision, WorkingFacts
<1>3. id \in Runners \cup {NoRunner} /\ worker[w].rec \in Record
  BY <1>2 DEF Task
<1>4. CASE PutFails /\ Goto(w, "dropJIT")
  BY <1>1, <1>4, AtProvision, FailedStoreCall DEF PersistJIT
<1>5. CASE /\ PutJIT(worker[w].job, id)
           /\ worker' = [worker EXCEPT ![w].pc = "demand", ![w].rec.runner = id]
  <2>1. [worker[w].rec EXCEPT !.runner = id] \in Record
    BY <1>3 DEF Record
  <2>2. t \in Task /\ t.job = worker[w].job /\ t.pc = "demand"
    BY <1>1, <1>2, <2>1 DEF Task
  <2>3. worker' = [worker EXCEPT ![w] = t]
    BY <1>5 DEF IInv, TypeOK, WorkerTypeOK
  <2>4. WorldTypeOK'
    BY <1>2, <1>3, <1>5, PutJITSound, OthersStay DEF PersistJIT, CallsStore,
       WorldTypeOK
  <2>5. SameKind(w, t.pc) /\ t.pc # "persistVM"
    BY <1>1, <2>2, AtProvision
  <2> HIDE DEF t
  <2>6. /\ OnlyOwnRecord(w)
        /\ records'[worker[w].job].claim = records[worker[w].job].claim
    BY <1>2, <1>3, <1>5, PutJITSound
  <2> QED
    BY <2>2, <2>3, <2>4, <2>5, <2>6, WorkerGoesOn
<1> QED
  BY <1>4, <1>5 DEF PersistJIT

LEMMA DropJITKeeps ==
  ASSUME IInv, NEW w \in Workers, DropJIT(w), UNCHANGED <<reaper, crashes>>
  PROVE  IInv'
<1>1. worker[w].pc \in ProvisionPcs
  BY DEF DropJIT, At, ProvisionPcs
<1>2. GitHubTypeOK' /\ ProviderTypeOK' /\ UNCHANGED storeVars
  BY OthersStay, RemoveType DEF DropJIT, CallsGitHub, IInv, TypeOK
<1> QED
  BY <1>1, <1>2, ProvisionMoves DEF DropJIT

LEMMA CreateKeeps ==
  ASSUME IInv, NEW w \in Workers, Create(w), UNCHANGED <<reaper, crashes>>
  PROVE  IInv'
<1> DEFINE j == worker[w].job
           id == worker[w].jit
<1>1. worker[w].pc \in ProvisionPcs /\ "persistVM" \in ProvisionPcs
  BY DEF Create, At, ProvisionPcs
<1>2. j \in Jobs /\ id \in Runners \cup {NoRunner}
  BY <1>1, AtProvision, WorkingFacts DEF Task
<1>3. GitHubTypeOK' /\ UNCHANGED storeVars
  BY OthersStay DEF Create, CallsProvider
<1>4. CASE \E i \in Instances :
             /\ CreateReuses(j, i) \/ CreateStarts(j, i, id)
             /\ worker' = [worker EXCEPT ![w].pc = "persistVM", ![w].inst = i]
  <2>1. PICK i \in Instances :
             /\ CreateReuses(j, i) \/ CreateStarts(j, i, id)
             /\ worker' = [worker EXCEPT ![w].pc = "persistVM", ![w].inst = i]
    BY <1>4
  <2>2. ProviderTypeOK'
    BY <1>2, <2>1, StartVMType, OthersStay DEF CreateReuses, CreateStarts,
       IInv, TypeOK
  <2>3. worker' = [worker EXCEPT ![w].inst = i, ![w].pc = "persistVM"]
    BY <2>1 DEF IInv, TypeOK, WorkerTypeOK, Task
  <2> QED
    BY <1>1, <1>3, <2>2, <2>3, InstanceInHand
<1>5. CASE \E e : CreateFails(j, id, e) /\ Goto(w, ProvisionFailed(w, e))
  <2>1. ProviderTypeOK'
    BY <1>2, <1>5, CreateFailsType DEF IInv, TypeOK
  <2> QED
    BY <1>1, <1>3, <1>5, <2>1, ProvisionMoves
<1> QED
  BY <1>4, <1>5 DEF Create

LEMMA HalfDoneRests ==
  ASSUME NEW w, worker[w].job \in Jobs, worker[w].rec.runner \in Runners \cup {NoRunner}
  PROVE  Resting(HalfDone(w))
  BY AbsentSound DEF Resting, HalfDone, Idle, Task, Sound

LEMMA PersistVMKeeps ==
  ASSUME IInv, NEW w \in Workers, PersistVM(w), UNCHANGED <<reaper, crashes>>
  PROVE  IInv'
<1> DEFINE i == worker[w].inst
           id == worker[w].rec.runner
           s == MarkProvisioned(records[worker[w].job], i, id)
<1>1. worker[w].pc \in ProvisionPcs
  BY DEF PersistVM, At, ProvisionPcs
<1>2. Working(w) /\ worker[w].job \in Jobs /\ Sound(records[worker[w].job])
  BY <1>1, AtProvision, WorkingFacts
<1>3. i \in Instances /\ id \in Runners \cup {NoRunner}
  BY <1>2, WorkingFacts DEF PersistVM, IInv, HoldsInstance, Record
<1>4. Sound(s) /\ s \in Record
  BY <1>2, <1>3, MarkProvisionedFollows DEF Sound, Follows
<1>5. CASE /\ PutInstance(worker[w].job, i, id)
           /\ worker' = [worker EXCEPT ![w] = HalfDone(w)]
  <2>1. StoreTypeOK' /\ OnlyOwnRecord(w)
    BY <1>2, <1>4, <1>5, PutOwn DEF PutInstance
  <2>2. Resting(HalfDone(w))
    BY <1>2, <1>3, HalfDoneRests
  <2> QED
    BY <1>2, <1>5, <2>1, <2>2, OthersStay, WorkerLeaves DEF PersistVM, CallsStore,
       WorldTypeOK
<1>6. CASE PutFails /\ Goto(w, ProvisionFailed(w, "other"))
  BY <1>1, <1>6, AtProvision, ProvisionFailedPc, FailedStoreCall DEF PersistVM
<1> QED
  BY <1>5, <1>6 DEF PersistVM

LEMMA IndexVMKeeps ==
  ASSUME IInv, NEW w \in Workers, IndexVM(w), UNCHANGED <<reaper, crashes>>
  PROVE  IInv'
<1>1. worker[w] \in Task /\ Resting(worker[w])
  BY DEF IndexVM, At, Resting, IInv, TypeOK, WorkerTypeOK, HoldsInstance
<1>2. StoreTypeOK' /\ records' = records
  BY <1>1 DEF IndexVM, IndexInstance, IInv, TypeOK, StoreTypeOK, Task
<1> QED
  BY <1>1, <1>2, IdleRests, OthersStay, RestingStep DEF IndexVM, Finish, CallsStore,
     WorldTypeOK

LEMMA CleanupExhaustedKeeps ==
  ASSUME IInv, NEW w \in Workers, CleanupExhausted(w), UNCHANGED <<reaper, crashes>>
  PROVE  IInv'
<1>1. worker[w].pc \in ProvisionPcs /\ {"markFailed",
   "exhaustedJIT"} \subseteq ProvisionPcs \ {"persistVM"}
  BY DEF CleanupExhausted, At, ProvisionPcs
<1>2. GitHubTypeOK' /\ ProviderTypeOK' /\ UNCHANGED storeVars
  BY OthersStay, CleanupType DEF CleanupExhausted, CallsProvider, IInv, TypeOK
<1>3. \E pc \in ProvisionPcs \ {"persistVM"} : Goto(w, pc)
  BY <1>1, ProvisionFailedPc DEF CleanupExhausted
<1> QED
  BY <1>1, <1>2, <1>3, ProvisionMoves

LEMMA ProvisionStepKeeps ==
  ASSUME IInv, NEW w \in Workers, ProvisionStep(w), UNCHANGED <<reaper, crashes>>
  PROVE  IInv'
  BY FindKeeps, DropVMKeeps, DemandKeeps, RetireKeeps, GenerateKeeps, PersistJITKeeps,
     DropJITKeeps, CreateKeeps, PersistVMKeeps, IndexVMKeeps, CleanupExhaustedKeeps
        DEF ProvisionStep

-----------------------------------------------------------------------------
(* Deletion.                                                                 *)

LEMMA AtDelete ==
  ASSUME IInv, NEW w \in Workers, worker[w].pc \in DeletePcs
  PROVE  /\ Working(w) /\ "persistVM" \notin DeletePcs
         /\ records[worker[w].job].claim = "delete"
         /\ \A pc \in DeletePcs : SameKind(w, pc)
<1>1. "persistVM" \notin DeletePcs
  BY DEF DeletePcs
<1> QED
  BY <1>1, PcFacts, WorkingFacts DEF SameKind, KindOf, Working

LEMMA DeleteMoves ==
  ASSUME IInv, NEW w \in Workers, worker[w].pc \in DeletePcs,
         UNCHANGED <<storeVars, reaper, crashes>>, GitHubTypeOK', ProviderTypeOK',
         NEW pc \in DeletePcs, Goto(w, pc)
  PROVE  IInv'
  BY AtDelete, RemoteCall

LEMMA DeleteInstanceKeeps ==
  ASSUME IInv, NEW w \in Workers, DeleteInstance(w), UNCHANGED <<reaper, crashes>>
  PROVE  IInv'
<1>1. worker[w].pc \in DeletePcs /\ {"accept", "cleanup"} \subseteq DeletePcs
  BY DEF DeleteInstance, At, DeletePcs
<1>2. GitHubTypeOK' /\ ProviderTypeOK' /\ UNCHANGED storeVars
  BY OthersStay, DeleteVMType DEF DeleteInstance, CallsProvider, IInv, TypeOK
<1>3. \E pc \in DeletePcs : Goto(w, pc)
  BY <1>1, DeleteFailedPc DEF DeleteInstance
<1> QED
  BY <1>1, <1>2, <1>3, DeleteMoves

LEMMA AcceptDeletionKeeps ==
  ASSUME IInv, NEW w \in Workers, AcceptDeletion(w), UNCHANGED <<reaper, crashes>>
  PROVE  IInv'
<1> DEFINE r == records[worker[w].job]
           i == worker[w].rec.instance
<1>1. worker[w].pc \in DeletePcs /\ "confirm" \in DeletePcs
  BY DEF AcceptDeletion, At, DeletePcs
<1>2. Sound(r) /\ i \in Instances \cup {NoInstance}
  BY <1>1, AtDelete, WorkingFacts DEF Record
<1>3. Sound(MarkDeletionAccepted(r, i)) /\ MarkDeletionAccepted(r, i).claim = r.claim
  BY <1>2, MarkDeletionAcceptedSound
<1>4. CASE Put(worker[w].job, MarkDeletionAccepted(r, i)) /\ Goto(w, "confirm")
  BY <1>1, <1>3, <1>4, AtDelete, StoreCall DEF AcceptDeletion
<1>5. CASE UNCHANGED storeVars /\ \E e : Goto(w, DeleteFailed(w, e))
  BY <1>1, <1>5, DeleteFailedPc, OthersStay, DeleteMoves DEF AcceptDeletion,
     CallsStore
<1>6. CASE PutFails /\ \E e : Goto(w, DeleteFailed(w, e))
  BY <1>1, <1>6, AtDelete, DeleteFailedPc, FailedStoreCall DEF AcceptDeletion
<1> QED
  BY <1>4, <1>5, <1>6 DEF AcceptDeletion

LEMMA ConfirmAbsenceKeeps ==
  ASSUME IInv, NEW w \in Workers, ConfirmAbsence(w), UNCHANGED <<reaper, crashes>>
  PROVE  IInv'
<1>1. worker[w].pc \in DeletePcs /\ {"cleanup", "await",
   "releaseDelete"} \subseteq DeletePcs
  BY DEF ConfirmAbsence, At, DeletePcs
<1>2. GitHubTypeOK' /\ ProviderTypeOK' /\ UNCHANGED storeVars
  BY OthersStay DEF ConfirmAbsence, Local
<1>3. \E pc \in DeletePcs : Goto(w, pc)
  BY <1>1 DEF ConfirmAbsence
<1> QED
  BY <1>1, <1>2, <1>3, DeleteMoves

LEMMA AwaitAbsenceKeeps ==
  ASSUME IInv, NEW w \in Workers, AwaitAbsence(w), UNCHANGED <<reaper, crashes>>
  PROVE  IInv'
<1> DEFINE r == records[worker[w].job]
<1>1. worker[w].pc \in DeletePcs /\ "releaseDelete" \in DeletePcs
  BY DEF AwaitAbsence, At, DeletePcs
<1>2. Sound(DeferDeletionConfirmation(r))
  BY <1>1, AtDelete, WorkingFacts, DeferDeletionConfirmationFollows DEF Follows
<1>3. CASE Put(worker[w].job, DeferDeletionConfirmation(r)) /\ Finish(w)
  BY <1>1, <1>2, <1>3, AtDelete, LastStoreCall DEF AwaitAbsence
<1>4. CASE PutFails /\ Goto(w, "releaseDelete")
  BY <1>1, <1>4, AtDelete, FailedStoreCall DEF AwaitAbsence
<1> QED
  BY <1>3, <1>4 DEF AwaitAbsence

LEMMA CleanupRestKeeps ==
  ASSUME IInv, NEW w \in Workers, CleanupRest(w), UNCHANGED <<reaper, crashes>>
  PROVE  IInv'
<1>1. worker[w].pc \in DeletePcs /\ {"recheck", "deregister"} \subseteq DeletePcs
  BY DEF CleanupRest, At, DeletePcs
<1>2. GitHubTypeOK' /\ ProviderTypeOK' /\ UNCHANGED storeVars
  BY OthersStay, CleanupType DEF CleanupRest, CallsProvider, IInv, TypeOK
<1>3. \E pc \in DeletePcs : Goto(w, pc)
  BY <1>1, DeleteFailedPc DEF CleanupRest
<1> QED
  BY <1>1, <1>2, <1>3, DeleteMoves

LEMMA RecheckKeeps ==
  ASSUME IInv, NEW w \in Workers, Recheck(w), UNCHANGED <<reaper, crashes>>
  PROVE  IInv'
<1>1. worker[w].pc \in DeletePcs /\ {"askOriginal", "finish"} \subseteq DeletePcs
  BY DEF Recheck, At, DeletePcs
<1>2. GitHubTypeOK' /\ ProviderTypeOK' /\ UNCHANGED storeVars
  BY OthersStay DEF Recheck, Local
<1>3. \E pc \in DeletePcs : Goto(w, pc)
  BY <1>1 DEF Recheck
<1> QED
  BY <1>1, <1>2, <1>3, DeleteMoves

LEMMA AskOriginalKeeps ==
  ASSUME IInv, NEW w \in Workers, AskOriginal(w), UNCHANGED <<reaper, crashes>>
  PROVE  IInv'
<1> DEFINE queued == jobState[worker[w].job] = "queued"
           t == [worker[w] EXCEPT !.pc = "finish", !.queued = queued]
<1>1. worker[w].pc \in DeletePcs /\ {"finish", "releaseDelete",
   "deferReassigned"} \subseteq DeletePcs
  BY DEF AskOriginal, At, DeletePcs
<1>2. GitHubTypeOK' /\ ProviderTypeOK' /\ UNCHANGED storeVars
  BY OthersStay DEF AskOriginal, Local
<1>3. CASE worker' = [worker EXCEPT ![w].pc = "finish", ![w].queued = queued]
  <2>1. worker[w] \in Task
    BY <1>1, AtDelete, WorkingFacts
  <2>2. t \in Task /\ t.job = worker[w].job /\ t.pc = "finish"
    BY <1>1, <2>1 DEF Task
  <2>3. worker' = [worker EXCEPT ![w] = t]
    BY <1>3 DEF IInv, TypeOK, WorkerTypeOK
  <2> HIDE DEF t
  <2> QED
    BY <1>1, <1>2, <2>2, <2>3, AtDelete, StoreStays, OthersStay,
       WorkerGoesOn DEF WorldTypeOK
<1>4. CASE \E pc \in DeletePcs : Goto(w, pc)
  BY <1>1, <1>2, <1>4, DeleteMoves
<1> QED
  BY <1>1, <1>3, <1>4 DEF AskOriginal

LEMMA FinishKeeps ==
  ASSUME IInv, NEW w \in Workers, FinishDeletion(w) \/ FinishFailed(w),
           UNCHANGED <<reaper, crashes>>
  PROVE  IInv'
<1> DEFINE r == records[worker[w].job]
           s == FinishDeletedRunner(r, worker[w].queued)
<1>1. worker[w].pc \in DeletePcs /\ {"finishFailed",
   "releaseDelete"} \subseteq DeletePcs
  BY DEF FinishDeletion, FinishFailed, At, DeletePcs
<1>2. Sound(r) /\ worker[w].queued \in BOOLEAN
  BY <1>1, AtDelete, WorkingFacts DEF Task
<1>3. Sound(s) /\ Sound(MarkDeleteFailed(r))
  BY <1>2, FinishDeletedRunnerFollows, MarkDeleteFailedFollows DEF Follows
<1> HIDE DEF s
<1>4. CASE (Put(worker[w].job, s) \/ Put(worker[w].job,
   MarkDeleteFailed(r))) /\ Finish(w)
  BY <1>1, <1>3, <1>4, AtDelete, LastStoreCall DEF FinishDeletion, FinishFailed
<1>5. CASE PutFails /\ (Goto(w, "finishFailed") \/ Goto(w, "releaseDelete"))
  BY <1>1, <1>5, AtDelete, FailedStoreCall DEF FinishDeletion, FinishFailed
<1> QED
  BY <1>4, <1>5 DEF FinishDeletion, FinishFailed, s

LEMMA DeleteStepKeeps ==
  ASSUME IInv, NEW w \in Workers, DeleteStep(w), UNCHANGED <<reaper, crashes>>
  PROVE  IInv'
  BY DeleteInstanceKeeps, AcceptDeletionKeeps, ConfirmAbsenceKeeps, AwaitAbsenceKeeps,
     CleanupRestKeeps, RecheckKeeps, AskOriginalKeeps, FinishKeeps DEF DeleteStep

-----------------------------------------------------------------------------
(* Claiming.                                                                 *)

\* A record that an interrupted or an empty scan may have retired.
LEMMA RetiredRespected ==
  ASSUME IInv, NEW retired \in SUBSET Jobs,
         records' = [k \in Jobs |-> IF k \in retired THEN Backstop(records[k]) ELSE records[k]]
  PROVE  AllRespected /\ records' \in [Jobs -> Record]
<1>1. \A k \in Jobs : Respects(records[k], records[k]) /\ Respects(records[k],
   Backstop(records[k]))
  BY BackstopRespects DEF IInv, RecordsSound, Respects, Follows
<1>2. AllRespected
  BY <1>1 DEF AllRespected
<1> QED
  BY <1>2 DEF AllRespected, Respects, Follows, Sound

LEMMA ScanKeeps ==
  ASSUME IInv, NEW w \in Workers, Scan(w), UNCHANGED <<reaper, crashes>>
  PROVE  IInv'
<1>1. \E retired \in SUBSET Jobs : records' =
        [k \in Jobs |-> IF k \in retired THEN Backstop(records[k]) ELSE records[k]]
  <2>1. CASE ScanWithoutClaim
    <3>1. records' = [k \in Jobs |-> IF k \in Jobs THEN Backstop(records[k]) ELSE records[k]]
      BY <2>1 DEF ScanWithoutClaim
    <3> QED
      BY <3>1
  <2>2. CASE \E j \in Jobs : ScanStops(j)
    <3>1. PICK j \in Jobs : ScanStops(j)
      BY <2>2
    <3> DEFINE retired == {k \in Jobs : k < j}
    <3>2. records' = [k \in Jobs |-> IF k \in retired THEN Backstop(records[k]) ELSE records[k]]
      BY <3>1 DEF ScanStops
    <3> QED
      BY <3>2
  <2> QED
    BY <2>1, <2>2 DEF Scan
<1>2. AllRespected /\ records' \in [Jobs -> Record]
  BY <1>1, RetiredRespected
<1>3. StoreTypeOK'
  BY <1>2, FaultsAssumption DEF IInv, TypeOK, StoreTypeOK, Scan,
     ScanWithoutClaim, ScanStops
<1> QED
  BY <1>2, <1>3, OthersStay, EnvironmentStep DEF Scan, CallsStore, WorldTypeOK

LEMMA ClaimedSound ==
  ASSUME NEW r, Sound(r), Claimable(r)
  PROVE  /\ Sound(Claimed(r)) /\ r.claim = NoClaim /\ ~Untracked(r)
         /\ FirstStep(Claimed(r)) \in ProvisionPcs \cup DeletePcs
         /\ FirstStep(Claimed(r)) # "persistVM"
         /\ Claimed(r).claim = IF FirstStep(Claimed(r)) \in ProvisionPcs
                               THEN "provision" ELSE "delete"
<1>1. CASE r.status = "pending"
  <2>1. WantsProvision(r) /\ Claimed(r) = ClaimProvision(r)
    BY <1>1 DEF Claimable, WantsDelete, Claimed
  <2> QED
    BY <1>1, <2>1, ClaimProvisionFollows
       DEF WantsProvision, Untracked, FirstStep, ProvisionPcs, Follows
<1>2. CASE r.status # "pending"
  <2>1. WantsDelete(r) /\ Claimed(r) = ClaimDelete(r)
    BY <1>2 DEF Claimable, WantsProvision, Claimed
  <2> QED
    BY <1>2, <2>1, ClaimDeleteFollows
       DEF WantsDelete, Untracked, FirstStep, ProvisionPcs, DeletePcs, Follows
<1> QED
  BY <1>1, <1>2

LEMMA ClaimKeeps ==
  ASSUME IInv, NEW w \in Workers, Claim(w), UNCHANGED <<reaper, crashes>>
  PROVE  IInv'
<1>1. PICK j \in Jobs :
        /\ ClaimFirst(j)
        /\ worker' = [worker EXCEPT ![w] =
             [Idle EXCEPT !.pc = FirstStep(Claimed(records[j])),
                          !.job = j, !.rec = Claimed(records[j])]]
  BY DEF Claim
<1> DEFINE r == records[j]
           c == Claimed(r)
           t == [Idle EXCEPT !.pc = FirstStep(c), !.job = j, !.rec = c]
<1>2. /\ Sound(r) /\ Sound(c) /\ r.claim = NoClaim /\ ~Untracked(r)
      /\ FirstStep(c) \in ProvisionPcs \cup DeletePcs /\ FirstStep(c) # "persistVM"
      /\ c.claim = IF FirstStep(c) \in ProvisionPcs THEN "provision" ELSE "delete"
  BY <1>1, ClaimedSound DEF ClaimFirst, IInv, RecordsSound
<1>3. t \in Task /\ t.pc = FirstStep(c) /\ t.job = j
  BY <1>2, AbsentSound DEF Task, Idle, Sound
<1>4. \A v \in Workers : Working(v) => worker[v].job # j
  BY <1>2 DEF IInv, ClaimsExclusive, KindOf, NoClaim
<1>5. \A k \in Jobs : k # j => Respects(records[k], records'[k])
  BY <1>1, BackstopRespects DEF ClaimFirst, IInv, RecordsSound, Respects, Follows
<1>6. records'[j] = c
  BY <1>1 DEF ClaimFirst
<1>7. worker' = [worker EXCEPT ![w] = t]
  BY <1>1
<1> HIDE DEF t, c
<1>8. RecordsSound'
  BY <1>2, <1>5, <1>6 DEF RecordsSound, Respects, Follows
<1>9. StoreTypeOK'
  <2>1. records' \in [Jobs -> Record]
    BY <1>1, <1>8 DEF ClaimFirst, RecordsSound, Sound
  <2> QED
    BY <1>1, <2>1 DEF ClaimFirst, IInv, TypeOK, StoreTypeOK
<1>10. WorkerTypeOK' /\ HoldsInstance'
  BY <1>2, <1>3, <1>7 DEF IInv, TypeOK, WorkerTypeOK, HoldsInstance, At
<1>11. ClaimsExclusive'
  <2>1. \A v \in Workers : v # w => worker'[v] = worker[v]
    BY <1>7 DEF IInv, TypeOK, WorkerTypeOK
  <2>2. worker'[w] = t
    BY <1>7 DEF IInv, TypeOK, WorkerTypeOK
  <2>3. records'[worker'[w].job].claim = KindOf(w)'
    BY <1>2, <1>3, <1>6, <2>2 DEF KindOf
  <2>4. \A v \in Workers : v # w /\ Working(v)' =>
          worker'[v].job # j /\ worker'[v].job \in Jobs
          /\ records'[worker'[v].job].claim = KindOf(v)'
    BY <1>4, <1>5, <2>1 DEF IInv, ClaimsExclusive, Working, KindOf, Respects, Follows
  <2> QED
    BY <1>3, <2>1, <2>2, <2>3, <2>4 DEF IInv, ClaimsExclusive, Working
<1>12. ReaperKeepsToUntracked'
  BY <1>2, <1>5 DEF IInv, ReaperKeepsToUntracked, InReaperHands, Respects, Follows
<1>13. ReaperTypeOK' /\ ReaperHasJob'
  BY DEF IInv, TypeOK, ReaperTypeOK, ReaperHasJob
<1> QED
  BY <1>8, <1>9, <1>10, <1>11, <1>12, <1>13, OthersStay DEF Claim, CallsStore,
     IInv, TypeOK

LEMMA WorkerStepKeeps ==
  ASSUME IInv, NEW w \in Workers, WorkerStep(w)
  PROVE  IInv'
  BY ClaimKeeps, ScanKeeps, DeregisterKeeps, ClearKeeps, EndWorkKeeps,
     ProvisionStepKeeps,
     DeleteStepKeeps DEF WorkerStep

-----------------------------------------------------------------------------
(* Webhooks, the world outside and restarts.                                 *)

LEMMA QueuedWebhookKeeps ==
  ASSUME IInv, NEW j \in Jobs, QueuedWebhook(j)
  PROVE  IInv'
<1>1. Respects(records[j], NewDemand)
  BY NewDemandSound DEF QueuedWebhook, CreateRecord, IInv, RecordsSound, Sound,
     Respects, Follows,
     Untracked, NewDemand, Absent, NoClaim
<1> QED
  BY <1>1, PutRespects, OthersStay, EnvironmentStep
     DEF QueuedWebhook, CreateRecord, WorldTypeOK

LEMMA CompletedWebhookKeeps ==
  ASSUME IInv, NEW j \in Jobs, CompletedWebhook(j)
  PROVE  IInv'
<1> DEFINE id == ranOn[j]
           matched == MatchedKey(id)
<1>1. RecordCompletion(j, id)
  BY DEF CompletedWebhook
<1>2. \A k \in Jobs :
        records'[k] = IF k = matched THEN MatchedCompletion(records[k], k = j)
                      ELSE IF k = j THEN EventCompletion(records[k],
                         id) ELSE records[k]
  BY <1>1 DEF RecordCompletion
<1> HIDE DEF matched
<1>3. ASSUME NEW k \in Jobs PROVE Respects(records[k], records'[k])
  <2>1. Sound(records[k]) /\ (k = j) \in BOOLEAN
    BY DEF IInv, RecordsSound
  <2>2. Respects(records[k], records[k])
    BY <2>1 DEF Respects, Follows
  <2>3. Respects(records[k], MatchedCompletion(records[k], k = j))
    BY <2>1, MatchedCompletionRespects
  <2>4. Respects(records[k], EventCompletion(records[k], id))
    BY <2>1, EventCompletionRespects
  <2>5. CASE k = matched
    BY <1>2, <2>3, <2>5, Zenon
  <2>6. CASE k # matched
    BY <1>2, <2>2, <2>4, <2>6, Zenon
  <2> QED
    BY <2>5, <2>6
<1>4. records' \in [Jobs -> Record]
  BY <1>1, <1>3 DEF RecordCompletion, Respects, Follows, Sound
<1>5. StoreTypeOK'
  BY <1>1, <1>4 DEF IInv, TypeOK, StoreTypeOK, RecordCompletion
<1> QED
  BY <1>3, <1>5, OthersStay, EnvironmentStep DEF AllRespected,
     CompletedWebhook, WorldTypeOK

LEMMA GitHubMovesKeep ==
  ASSUME IInv, NEW j \in Jobs,
         RunnerTakesJob(j) \/ ForeignRunnerTakesJob(j) \/ JobEnds(j)
  PROVE  IInv'
<1>1. UNCHANGED <<storeVars, vm, worker, reaper, crashes>>
  BY DEF RunnerTakesJob, ForeignRunnerTakesJob, JobEnds
<1>2. \A i \in Instances : vm[i].runner \in registered => vm[i].runner \in Runners
  BY DEF IInv, TypeOK, GitHubTypeOK
<1>3. GitHubTypeOK'
  BY <1>2 DEF IInv, TypeOK, GitHubTypeOK, RunnerTakesJob,
     ForeignRunnerTakesJob, JobEnds,
     TakeJob, FinishJob, CancelQueuedJob
<1>4. StoreTypeOK' /\ records' = records
  BY <1>1 DEF IInv, TypeOK, StoreTypeOK, storeVars
<1> QED
  BY <1>1, <1>3, <1>4, Unchanged, OthersStay, EnvironmentStep DEF WorldTypeOK

LEMMA InstanceMovesKeeps ==
  ASSUME IInv, NEW i \in Instances, InstanceMoves(i)
  PROVE  IInv'
<1>1. ProviderTypeOK'
  BY DEF IInv, TypeOK, ProviderTypeOK, InstanceMoves, Appear, Disappear,
     Preempted, VMStates
<1>2. StoreTypeOK' /\ records' = records
  BY DEF IInv, TypeOK, StoreTypeOK, storeVars, InstanceMoves
<1> QED
  BY <1>1, <1>2, Unchanged, OthersStay, EnvironmentStep DEF InstanceMoves, WorldTypeOK

LEMMA RetryTimePassesKeeps ==
  ASSUME IInv, NEW j \in Jobs, RetryTimePasses(j)
  PROVE  IInv'
  BY BecomeDueRespects, PutRespects, OthersStay, EnvironmentStep
     DEF RetryTimePasses, BecomeDue, IInv, RecordsSound, WorldTypeOK

\* A pruned record is in nobody's hands.
LEMMA RetentionPassesKeeps ==
  ASSUME IInv, NEW j \in Jobs, RetentionPasses(j)
  PROVE  IInv'
<1>1. records' = [records EXCEPT ![j] = Absent] /\ Absent \in Record
  BY AbsentSound DEF RetentionPasses, PruneDeleted, Put, Sound
<1>2. StoreTypeOK'
  BY <1>1 DEF IInv, TypeOK, StoreTypeOK, RetentionPasses, PruneDeleted, Put
<1>3. RecordsSound' /\ \A k \in Jobs : k # j => records'[k] = records[k]
  BY <1>1, AbsentSound DEF IInv, TypeOK, StoreTypeOK, RecordsSound
<1>4. UNCHANGED <<worker, reaper>> /\ \A w \in Workers : worker[w].job # j
  BY DEF RetentionPasses
<1>5. ClaimsExclusive' /\ WorkerTypeOK' /\ HoldsInstance'
  BY <1>3, <1>4 DEF IInv, TypeOK, WorkerTypeOK, HoldsInstance, At,
     ClaimsExclusive, Working, KindOf
<1>6. ReaperKeepsToUntracked'
  <2>1. reaper' = ReaperIdle
    BY <1>4 DEF RetentionPasses
  <2>2. \A k \in Jobs : ReaperIdle.todo[k].status = "absent"
    BY DEF ReaperIdle, NothingListed, Absent
  <2>3. ReaperIdle.pc \notin UntrackedPcs
    BY DEF ReaperIdle, UntrackedPcs
  <2> QED
    BY <2>1, <2>2, <2>3 DEF ReaperKeepsToUntracked, InReaperHands
<1>7. ReaperTypeOK' /\ ReaperHasJob'
  BY <1>4 DEF IInv, TypeOK, ReaperTypeOK, ReaperHasJob
<1> QED
  BY <1>2, <1>3, <1>5, <1>6, <1>7, OthersStay DEF RetentionPasses, IInv, TypeOK

LEMMA RebuiltIndexType ==
  ASSUME NEW recovered
  PROVE  RebuiltIndex(recovered) \in [Runners -> Jobs \cup {NoJob}]
<1> SUFFICES ASSUME NEW id \in Runners
             PROVE  RebuiltIndex(recovered)[id] \in Jobs \cup {NoJob}
  BY DEF RebuiltIndex
<1>1. CASE \E j \in Jobs : recovered[j].runner = id
                           /\ recovered[j].status \notin {"absent", "deleted"}
  <2>1. RebuiltIndex(recovered)[id] =
          CHOOSE j \in Jobs : recovered[j].runner = id
                              /\ recovered[j].status \notin {"absent", "deleted"}
    BY <1>1 DEF RebuiltIndex
  <2> QED
    BY <1>1, <2>1
<1>2. CASE ~\E j \in Jobs : recovered[j].runner = id
                            /\ recovered[j].status \notin {"absent", "deleted"}
  BY <1>2 DEF RebuiltIndex
<1> QED
  BY <1>1, <1>2

LEMMA RestartKeeps ==
  ASSUME IInv, Restart
  PROVE  IInv'
<1>1. \A j \in Jobs : Sound(records'[j])
  BY RecoverRecordFollows DEF Restart, Reopen, RecoveredRecords, IInv, RecordsSound, Follows
<1>2. StoreTypeOK'
  <2>1. records' \in [Jobs -> Record]
    BY <1>1 DEF Restart, Reopen, RecoveredRecords, Sound
  <2>2. runnerKeys' \in [Runners -> Jobs \cup {NoJob}]
    BY RebuiltIndexType DEF Restart, Reopen
  <2> QED
    BY <2>1, <2>2 DEF IInv, TypeOK, StoreTypeOK, Restart, Reopen
<1>3. WorkerTypeOK' /\ HoldsInstance' /\ ClaimsExclusive'
  BY AbsentSound DEF Restart, WorkerTypeOK, Task, Idle, Sound, HoldsInstance,
     At, ClaimsExclusive,
     Working
<1>4. ReaperTypeOK' /\ ReaperHasJob'
  BY AbsentSound DEF Restart, ReaperTypeOK, ReaperIdle, NothingListed,
     ReaperPcs, Sound, ReaperHasJob
<1>5. ReaperKeepsToUntracked'
  BY DEF Restart, ReaperKeepsToUntracked, InReaperHands, UntrackedPcs, ReaperIdle,
     NothingListed, Absent
<1>6. GitHubTypeOK' /\ ProviderTypeOK' /\ (crashes \in 0 .. MaxCrashes)'
  BY OthersStay, ControllerAssumption DEF Restart, IInv, TypeOK
<1> QED
  BY <1>1, <1>2, <1>3, <1>4, <1>5, <1>6 DEF IInv, TypeOK, RecordsSound

-----------------------------------------------------------------------------
(* The reaper.                                                               *)

\* A step of the reaper within the handling of one copy.
LEMMA ReaperMovesOn ==
  ASSUME IInv, AllRespected, WorldTypeOK', UNCHANGED worker, reaper.pc # "idle",
         NEW pc \in ReaperPcs, ReapGoto(pc),
         pc \in UntrackedPcs => reaper.pc \in UntrackedPcs
  PROVE  IInv'
<1>1. /\ reaper' = [reaper EXCEPT !.pc = pc]
      /\ reaper \in [pc : ReaperPcs, job : Jobs \cup {NoJob}, rec : Record,
         todo : [Jobs -> Record]]
  BY DEF ReapGoto, IInv, TypeOK, ReaperTypeOK
<1>2. ReaperTypeOK' /\ ReaperHasJob'
  BY <1>1 DEF ReaperTypeOK, IInv, ReaperHasJob
<1>3. \A j \in Jobs : InReaperHands(j)' => InReaperHands(j)
  BY <1>1 DEF InReaperHands
<1> QED
  BY <1>2, <1>3, RespectfulStep

\* The handling of a copy ends.
LEMMA ReaperMovesToNext ==
  ASSUME IInv, AllRespected, WorldTypeOK', UNCHANGED worker, ReapNext
  PROVE  IInv'
<1>1. /\ reaper' = [reaper EXCEPT !.pc = "idle", !.job = NoJob, !.rec = Absent]
      /\ reaper \in [pc : ReaperPcs, job : Jobs \cup {NoJob}, rec : Record,
         todo : [Jobs -> Record]]
      /\ "idle" \in ReaperPcs /\ "idle" \notin UntrackedPcs
  BY DEF ReapNext, IInv, TypeOK, ReaperTypeOK, ReaperPcs, UntrackedPcs
<1>2. ReaperTypeOK' /\ ReaperHasJob'
  BY <1>1, AbsentSound DEF ReaperTypeOK, ReaperHasJob, Sound
<1>3. \A j \in Jobs : InReaperHands(j)' => InReaperHands(j)
  BY <1>1 DEF InReaperHands
<1> QED
  BY <1>2, <1>3, RespectfulStep

LEMMA ReaperCalls ==
  ASSUME IInv, UNCHANGED <<storeVars, worker, crashes>>, GitHubTypeOK',
           ProviderTypeOK'
  PROVE  AllRespected /\ WorldTypeOK'
<1>1. StoreTypeOK' /\ records' = records
  BY DEF IInv, TypeOK, StoreTypeOK, storeVars
<1> QED
  BY <1>1, Unchanged, OthersStay DEF WorldTypeOK

LEMMA ReaperStores ==
  ASSUME IInv, UNCHANGED <<githubVars, vm, worker, crashes>>, reaper.pc # "idle",
         PutFails \/ \E r : Put(reaper.job, r) /\ Respects(records[reaper.job], r)
  PROVE  AllRespected /\ WorldTypeOK'
  BY PutRespects, PutFailsRespects, OthersStay DEF IInv, ReaperHasJob, WorldTypeOK

LEMMA ListExpiredKeeps ==
  ASSUME IInv, ListExpired, UNCHANGED <<worker, crashes>>
  PROVE  IInv'
<1>1. PICK listed \in SUBSET Jobs :
        /\ \A j \in listed : MayExpire(records[j]) \/ MustExpire(records[j])
        /\ reaper' = [reaper EXCEPT !.todo =
                        [j \in Jobs |-> IF j \in listed THEN records[j] ELSE Absent]]
  <2>1. PICK old \in SUBSET {j \in Jobs : MayExpire(records[j])} :
          reaper' = [reaper EXCEPT !.todo =
            [j \in Jobs |-> IF j \in old \cup {k \in Jobs : MustExpire(records[k])}
                            THEN records[j] ELSE Absent]]
    BY DEF ListExpired
  <2> DEFINE both == old \cup {k \in Jobs : MustExpire(records[k])}
  <2>2. both \in SUBSET Jobs /\ \A j \in both : MayExpire(records[j]) \/ MustExpire(records[j])
    BY <2>1
  <2> QED
    BY <2>1, <2>2
<1>2. AllRespected /\ WorldTypeOK'
  BY ReaperCalls, OthersStay DEF ListExpired
<1>3. ReaperTypeOK' /\ ReaperHasJob'
  BY <1>1, AbsentSound DEF IInv, TypeOK, StoreTypeOK, ReaperTypeOK,
     ReaperHasJob, Sound
<1>4. ASSUME NEW j \in Jobs, InReaperHands(j)'
      PROVE  InReaperHands(j) \/ Untracked(records'[j])
  <2>1. records' = records
    BY DEF ListExpired, storeVars
  <2>2. CASE j \in listed
    <3>1. Sound(records[j]) /\ (MayExpire(records[j]) \/ MustExpire(records[j]))
      BY <1>1, <2>2 DEF IInv, RecordsSound
    <3>2. reaper'.todo[j] = records[j] /\ reaper'.job = reaper.job /\ reaper'.pc = reaper.pc
      BY <1>1, <2>2 DEF IInv, TypeOK, ReaperTypeOK
    <3>3. CASE records[j].instance = NoInstance
      BY <2>1, <3>1, <3>3 DEF MayExpire, MustExpire, Untracked, Sound
    <3> QED
      BY <1>4, <3>2, <3>3 DEF InReaperHands
  <2>3. CASE j \notin listed
    <3>1. /\ reaper'.todo[j].status = "absent" /\ reaper'.job = reaper.job
          /\ reaper'.pc = reaper.pc
      BY <1>1, <2>3 DEF IInv, TypeOK, ReaperTypeOK, Absent
    <3> QED
      BY <1>4, <3>1 DEF InReaperHands
  <2> QED
    BY <2>2, <2>3
<1> QED
  BY <1>2, <1>3, <1>4, RespectfulStep

LEMMA ExpireRunnerKeeps ==
  ASSUME IInv, NEW j \in Jobs, ExpireRunner(j), UNCHANGED <<worker, crashes>>
  PROVE  IInv'
<1> DEFINE r == reaper.todo[j]
           pc == IF r.instance = NoInstance THEN "begin"
                 ELSE IF r.defer /\ r.runner # NoRunner THEN "prepare" ELSE "schedule"
           rest == [reaper.todo EXCEPT ![j] = Absent]
<1>1. reaper' = [pc |-> pc, job |-> j, rec |-> r,
   todo |-> rest] /\ r.status # "absent"
  BY DEF ExpireRunner
<1>2. AllRespected /\ WorldTypeOK'
  BY ReaperCalls, OthersStay DEF ExpireRunner
<1>3. reaper.todo \in [Jobs -> Record]
  BY DEF IInv, TypeOK, ReaperTypeOK
<1>4. ReaperTypeOK' /\ ReaperHasJob'
  <2>1. pc \in ReaperPcs
    BY DEF ReaperPcs
  <2>2. r \in Record /\ rest \in [Jobs -> Record]
    BY <1>3, AbsentSound DEF Sound
  <2> HIDE DEF pc, r, rest
  <2> QED
    BY <1>1, <2>1, <2>2 DEF ReaperTypeOK, ReaperHasJob
<1>5. ASSUME NEW k \in Jobs, InReaperHands(k)' PROVE InReaperHands(k)
  <2>1. pc \in UntrackedPcs => r.instance = NoInstance
    BY DEF UntrackedPcs
  <2>2. rest[k].status # "absent" => rest[k] = reaper.todo[k]
    BY <1>3 DEF Absent
  <2> HIDE DEF pc, rest
  <2> QED
    BY <1>1, <1>5, <2>1, <2>2 DEF InReaperHands
<1> QED
  BY <1>2, <1>4, <1>5, RespectfulStep

LEMMA BeginCleanupKeeps ==
  ASSUME IInv, BeginCleanup, UNCHANGED <<worker, crashes>>
  PROVE  IInv'
<1>1. /\ reaper.pc # "idle" /\ reaper.pc \in UntrackedPcs
      /\ {"reapVMs", "reapJIT"} \subseteq ReaperPcs
  BY DEF BeginCleanup, UntrackedPcs, ReaperPcs
<1>2. Sound(records[reaper.job])
  BY <1>1 DEF IInv, ReaperHasJob, RecordsSound
<1>3. AllRespected /\ WorldTypeOK'
  BY <1>1, <1>2, BeginCleanupRespects, ReaperStores DEF BeginCleanup
<1>4. ReapNext \/ ReapGoto("reapVMs") \/ ReapGoto("reapJIT")
  BY DEF BeginCleanup
<1> QED
  BY <1>1, <1>3, <1>4, ReaperMovesOn, ReaperMovesToNext

LEMMA ErrorPcs ==
  \A e : /\ CleanupFailed(e) \in ReaperPcs
         /\ Deferral(e) \subseteq ReaperPcs \ UntrackedPcs
  BY DEF CleanupFailed, Deferral, ReaperPcs, UntrackedPcs

LEMMA ReapDeregisterKeeps ==
  ASSUME IInv, ReapDeregister, UNCHANGED <<worker, crashes>>
  PROVE  IInv'
<1> DEFINE id == reaper.rec.runner
<1>1. AllRespected /\ WorldTypeOK'
  BY RemoveType, RemovalFailsType, OthersStay, ReaperCalls DEF ReapDeregister,
     IInv, TypeOK
<1>2. reaper.pc # "idle"
  BY DEF ReapDeregister
<1>3. \E pc \in ReaperPcs : ReapGoto(pc) /\ (pc \in UntrackedPcs => reaper.pc \in UntrackedPcs)
  <2>1. CASE reaper.pc = "reapJIT"
    <3>1. \E pc \in ReaperPcs : ReapGoto(pc)
      <4>1. "reapVMs" \in ReaperPcs
        BY DEF ReaperPcs
      <4> QED
        BY <2>1, <4>1, ErrorPcs DEF ReapDeregister
    <3> QED
      BY <2>1, <3>1 DEF UntrackedPcs
  <2>2. CASE reaper.pc = "prepare"
    <3>1. "clearPrepared" \in ReaperPcs \ UntrackedPcs
      BY DEF ReaperPcs, UntrackedPcs
    <3> QED
      BY <2>2, <3>1, ErrorPcs DEF ReapDeregister
  <2>3. CASE reaper.pc = "orphanJIT"
    <3>1. {"clearOrphan",
       "markOrphan"} \subseteq ReaperPcs /\ "orphanJIT" \in UntrackedPcs
      BY DEF ReaperPcs, UntrackedPcs
    <3> QED
      BY <2>3, <3>1 DEF ReapDeregister
  <2> QED
    BY <2>1, <2>2, <2>3 DEF ReapDeregister
<1> QED
  BY <1>1, <1>2, <1>3, ReaperMovesOn

LEMMA ReapVMsKeeps ==
  ASSUME IInv, ReapVMs, UNCHANGED <<worker, crashes>>
  PROVE  IInv'
<1>1. ProviderTypeOK'
  BY CleanupType DEF ReapVMs, IInv, TypeOK
<1>2. AllRespected /\ WorldTypeOK'
  BY <1>1, OthersStay, ReaperCalls DEF ReapVMs
<1>3. reaper.pc # "idle" /\ reaper.pc \in UntrackedPcs
  BY DEF ReapVMs, UntrackedPcs
<1>4. {"markDeleted", "markOrphan", "orphanJIT"} \subseteq ReaperPcs
  BY DEF ReaperPcs
<1>5. \E pc \in ReaperPcs : ReapGoto(pc)
  BY <1>4, ErrorPcs DEF ReapVMs
<1> QED
  BY <1>2, <1>3, <1>5, ReaperMovesOn

LEMMA ReapClearKeeps ==
  ASSUME IInv, ReapClear, UNCHANGED <<worker, crashes>>
  PROVE  IInv'
<1>1. reaper.pc # "idle"
  BY DEF ReapClear
<1>2. Sound(records[reaper.job])
  BY <1>1 DEF IInv, ReaperHasJob, RecordsSound
<1>3. AllRespected /\ WorldTypeOK'
  BY <1>1, <1>2, ClearJITRespects, ReaperStores DEF ReapClear
<1>4. \E pc \in ReaperPcs : ReapGoto(pc) /\ (pc \in UntrackedPcs => reaper.pc \in UntrackedPcs)
  BY DEF ReapClear, ReaperPcs, UntrackedPcs
<1> QED
  BY <1>1, <1>3, <1>4, ReaperMovesOn

\* The unconditional mutators are applied only to records that are untracked.
LEMMA ReapWriteRespects ==
  ASSUME IInv, reaper.pc \in ReapWritePcs
  PROVE  Respects(records[reaper.job], ReapWrite)
<1> DEFINE r == records[reaper.job]
<1>1. reaper.job \in Jobs /\ Sound(r)
  BY DEF IInv, ReaperHasJob, RecordsSound, ReapWritePcs
<1>2. CASE reaper.pc \in {"markDeleted", "markOrphan", "cleanupFailed"}
  <2>1. r.claim = NoClaim
    BY <1>1, <1>2 DEF IInv, ReaperKeepsToUntracked, InReaperHands,
       UntrackedPcs, Untracked
  <2> QED
    BY <1>1, <1>2, <2>1, MarkDeletedRespects, MarkOrphanedRespects,
       MarkDeleteFailedRespects
       DEF ReapWrite
<1>3. CASE reaper.pc \in {"schedule", "cleanupLimited", "cleanupTimeout"}
  BY <1>1, <1>3, ScheduleDeletionRespects, DeferCleanupRespects DEF ReapWrite
<1>4. CASE reaper.pc \in {"deferClientError", "deferLimited", "deferOther"}
  BY <1>1, <1>4, DeferReconciliationRespects DEF ReapWrite
<1> QED
  BY <1>2, <1>3, <1>4 DEF ReapWritePcs

LEMMA EndReapKeeps ==
  ASSUME IInv, EndReap, UNCHANGED <<worker, crashes>>
  PROVE  IInv'
<1>1. reaper.pc # "idle"
  BY DEF EndReap, ReapWritePcs
<1>2. AllRespected /\ WorldTypeOK'
  BY <1>1, ReapWriteRespects, ReaperStores DEF EndReap
<1> QED
  BY <1>2, ReaperMovesToNext DEF EndReap

LEMMA ReapMarkerKeeps ==
  ASSUME IInv, NEW id \in Runners, ReapMarker(id), UNCHANGED <<worker, crashes>>
  PROVE  IInv'
<1>1. StoreTypeOK'
  BY DEF ReapMarker, IInv, TypeOK, StoreTypeOK
<1> QED
  BY <1>1, Unchanged, OthersStay, EnvironmentStep DEF ReapMarker, WorldTypeOK

LEMMA ReaperKeeps ==
  ASSUME IInv, ReaperMoves
  PROVE  IInv'
<1>1. CASE ReaperStep /\ UNCHANGED <<worker, crashes>>
  BY <1>1, ListExpiredKeeps, ExpireRunnerKeeps, BeginCleanupKeeps,
     ReapDeregisterKeeps, ReapVMsKeeps,
     ReapClearKeeps, EndReapKeeps, ReapMarkerKeeps DEF ReaperStep
<1>2. CASE \E j \in Jobs : RetentionPasses(j)
  BY <1>2, RetentionPassesKeeps
<1> QED
  BY <1>1, <1>2 DEF ReaperMoves

-----------------------------------------------------------------------------
(* The theorems.                                                             *)

LEMMA NextKeeps == IInv /\ [Next]_vars => IInv'
<1> SUFFICES ASSUME IInv, [Next]_vars PROVE IInv'
  OBVIOUS
<1>1. ASSUME NEW j \in Jobs, QueuedWebhook(j) PROVE IInv'
  BY <1>1, QueuedWebhookKeeps
<1>2. ASSUME NEW j \in Jobs, CompletedWebhook(j) PROVE IInv'
  BY <1>2, CompletedWebhookKeeps
<1>3. ASSUME NEW j \in Jobs,
   RunnerTakesJob(j) \/ ForeignRunnerTakesJob(j) \/ JobEnds(j)
      PROVE  IInv'
  BY <1>3, GitHubMovesKeep
<1>4. ASSUME NEW j \in Jobs, RetryTimePasses(j) PROVE IInv'
  BY <1>4, RetryTimePassesKeeps
<1>5. ASSUME NEW i \in Instances, InstanceMoves(i) PROVE IInv'
  BY <1>5, InstanceMovesKeeps
<1>6. CASE Outside
  BY <1>1, <1>2, <1>3, <1>4, <1>5, <1>6 DEF Outside
<1>7. CASE WorkersMove
  BY <1>7, WorkerStepKeeps DEF WorkersMove
<1>8. CASE ReaperMoves
  BY <1>8, ReaperKeeps
<1>9. CASE Restart
  BY <1>9, RestartKeeps
<1>10. CASE UNCHANGED vars
  <2>1. UNCHANGED <<storeVars, githubVars, vm, worker, reaper, crashes>>
    BY <1>10 DEF vars
  <2>2. StoreTypeOK' /\ records' = records
    BY <2>1 DEF IInv, TypeOK, StoreTypeOK, storeVars
  <2> QED
    BY <2>1, <2>2, Unchanged, OthersStay, EnvironmentStep DEF WorldTypeOK
<1> QED
  BY <1>6, <1>7, <1>8, <1>9, <1>10 DEF Next

LEMMA Invariance == Spec => []IInv
  BY Initially, NextKeeps, PTL DEF Spec

\* Type correctness: whatever webhooks, workers, the reaper, GitHub and the
\* provider do and wherever the controller is restarted, the store holds only
\* records its mutators can have written.
THEOREM TypeCorrect == Spec => []TypeOK
<1>1. IInv => TypeOK
  BY DEF IInv
<1> QED
  BY <1>1, Invariance, PTL

\* A claim is a lock: for any number of workers, no two of them work on the
\* same record, and no webhook, reaper step or failed write takes a record
\* away from the worker that claimed it.
THEOREM ClaimsAreExclusive == Spec => []ClaimsExclusive
<1>1. IInv => ClaimsExclusive
  BY DEF IInv
<1> QED
  BY <1>1, Invariance, PTL

\* The stale copies that the reaper cleans up without an instance id, and
\* finally marks deleted or orphaned without looking again, belong to records
\* that nobody has claimed and that hold no instance.
THEOREM ReaperIsSafeOnStaleCopies == Spec => []ReaperKeepsToUntracked
<1>1. IInv => ReaperKeepsToUntracked
  BY DEF IInv
<1> QED
  BY <1>1, Invariance, PTL

\* A record that waits for an instance, is getting one or has failed to get one
\* holds none: nothing that retires such a record can lose an instance id.
THEOREM DemandHoldsNoInstance == Spec => []UnprovisionedHoldsNoInstance
<1>1. IInv => UnprovisionedHoldsNoInstance
  BY DEF IInv, RecordsSound, Sound, UnprovisionedHoldsNoInstance
<1> QED
  BY <1>1, Invariance, PTL
=============================================================================
