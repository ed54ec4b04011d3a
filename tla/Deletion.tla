------------------------------ MODULE Deletion ------------------------------
(* Handler.delete: delete the recorded instance, wait for its confirmed      *)
(* absence where the provider can confirm it, clean up what else carries the *)
(* job tag, deregister the runner, ask once more whether the original job    *)
(* still needs a runner, and finish the record or restore its demand.        *)
EXTENDS Worker

DeleteInstance(w) ==
  LET i == worker[w].rec.instance
  IN /\ At(w, "vmDelete")
     /\ \/ DeleteVM(i) /\ Goto(w, IF ConfirmsAbsence THEN "accept" ELSE "cleanup")
        \/ DeleteMismatches(i) /\ Goto(w, DeleteFailed(w, "mismatch"))
        \/ \E e \in ProviderErrors : DeleteFails(i) /\ Goto(w, DeleteFailed(w, e))
     /\ CallsProvider

\* MarkDeletionAccepted refuses a record that is no longer claimed for it.
AcceptDeletion(w) ==
  LET j == worker[w].job
      i == worker[w].rec.instance
  IN /\ At(w, "accept")
     /\ \/ /\ CanAcceptDeletion(records[j], i)
           /\ Put(j, MarkDeletionAccepted(records[j], i))
           /\ Goto(w, "confirm")
        \/ /\ (~CanAcceptDeletion(records[j], i) /\ UNCHANGED storeVars) \/ PutFails
           /\ \E e \in {"other"} \cup (Errors \cap {"cancelled"}) : Goto(w,
              DeleteFailed(w, e))
     /\ CallsStore

\* RunnerAbsent: only an authoritative 404 lets the deletion go on.
ConfirmAbsence(w) ==
  /\ At(w, "confirm")
  /\ \/ vm[worker[w].rec.instance].state = "gone" /\ Goto(w, "cleanup")
     \/ vm[worker[w].rec.instance].state # "gone" /\ Goto(w, "await")
     \/ \E e \in ProviderErrors :
          Goto(w, IF e = "cancelled" THEN "releaseDelete" ELSE "await")
  /\ Local

\* DeferDeletionConfirmation gives the claim back until the next look.
AwaitAbsence(w) ==
  LET j == worker[w].job
  IN /\ At(w, "await")
     /\ \/ Put(j, DeferDeletionConfirmation(records[j])) /\ Finish(w)
        \/ PutFails /\ Goto(w, "releaseDelete")
     /\ CallsStore

\* Here an ownership mismatch is an ordinary failure.
CleanupRest(w) ==
  LET j == worker[w].job
      except == IF ConfirmsAbsence THEN worker[w].rec.instance ELSE NoInstance
  IN /\ At(w, "cleanup")
     /\ \/ /\ CleanupVMs(j, except)
           /\ Goto(w, IF worker[w].rec.runner = NoRunner THEN "recheck" ELSE "deregister")
        \/ CleanupMismatches(j, except) /\ Goto(w, DeleteFailed(w, "other"))
        \/ \E e \in ProviderErrors :
             CleanupStops(j, except) /\ Goto(w, DeleteFailed(w, e))
     /\ CallsProvider

\* recheckCleanedRunnerDemand: the copy's recheck flag, the store's present
\* knowledge of the job, then GitHub's.
Recheck(w) ==
  /\ At(w, "recheck")
  /\ Goto(w, IF /\ worker[w].rec.recheck /\ ~worker[w].rec.jobCompleted
                /\ ~records[worker[w].job].jobCompleted
             THEN "askOriginal" ELSE "finish")
  /\ Local

AskOriginal(w) ==
  /\ At(w, "askOriginal")
  /\ \/ worker' = [worker EXCEPT ![w].pc = "finish",
                                 ![w].queued = jobState[worker[w].job] = "queued"]
     \/ \E e \in Errors :
          Goto(w, IF e = "cancelled" THEN "releaseDelete" ELSE "deferReassigned")
  /\ Local

FinishDeletion(w) ==
  LET j == worker[w].job
  IN /\ At(w, "finish")
     /\ \/ Put(j, FinishDeletedRunner(records[j], worker[w].queued)) /\ Finish(w)
        \/ PutFails /\ Goto(w, "finishFailed")
     /\ CallsStore

\* The result could not be stored: record a failed attempt, or at least
\* release the claim.
FinishFailed(w) ==
  LET j == worker[w].job
  IN /\ At(w, "finishFailed")
     /\ \/ Put(j, MarkDeleteFailed(records[j])) /\ Finish(w)
        \/ PutFails /\ Goto(w, "releaseDelete")
     /\ CallsStore

DeleteStep(w) ==
  \/ DeleteInstance(w) \/ AcceptDeletion(w) \/ ConfirmAbsence(w)
  \/ AwaitAbsence(w) \/ CleanupRest(w) \/ Recheck(w) \/ AskOriginal(w)
  \/ FinishDeletion(w) \/ FinishFailed(w)
=============================================================================
