------------------------------- MODULE Fleet -------------------------------
(* The whole controller: Controller together with the reaper goroutine's    *)
(* liveness pass.  One goroutine runs both passes, so a step of one finds   *)
(* the other between its passes.                                            *)
EXTENDS Controller, Liveness

fleetVars == <<vars, auditor>>

FleetInit == Init /\ AuditorInit

ReaperExpires == auditor = AuditIdle /\ ReaperMoves /\ UNCHANGED auditor

ReaperAudits ==
  /\ reaper = ReaperIdle
  /\ AuditorStep
  /\ UNCHANGED <<worker, reaper, crashes>>

FleetNext ==
  \/ (Outside \/ WorkersMove) /\ UNCHANGED auditor
  \/ ReaperExpires
  \/ ReaperAudits
  \/ Restart /\ auditor' = AuditIdle

FleetSpec == FleetInit /\ [][FleetNext]_fleetVars

-----------------------------------------------------------------------------
(* Fairness.  Every worker is a loop that goes on whenever there is work; the *)
(* reaper goes round its passes for ever, so a record or an instance that a   *)
(* pass would list again and again is listed in the end, although it may be   *)
(* skipped as too young; retry times pass, and an accepted deletion takes     *)
(* effect.  Nothing is assumed of the webhooks, nor of the observations that  *)
(* need several rounds.                                                       *)

ReaperLists(j) == ReaperExpires /\ reaper = ReaperIdle /\ reaper'.todo[j] # Absent
ReaperChecks(j) ==
  /\ auditor = AuditIdle
  /\ ReaperAudits
  /\ auditor'.pass = "runners" /\ auditor'.todo[j] # Absent
ReaperSweeps(i) == auditor = AuditIdle /\ ReaperAudits /\ i \in auditor'.old

Fairness ==
  /\ \A w \in Workers : WF_fleetVars(WorkerStep(w) /\ UNCHANGED auditor)
  /\ WF_fleetVars((ReaperExpires /\ reaper' # reaper) \/ ReaperAudits)
  /\ \A j \in Jobs : /\ SF_fleetVars(ReaperLists(j))
                     /\ SF_fleetVars(ReaperChecks(j))
                     /\ WF_fleetVars(RetryTimePasses(j) /\ UNCHANGED auditor)
  /\ \A i \in Instances : /\ SF_fleetVars(ReaperSweeps(i))
                          /\ WF_fleetVars(InstanceMoves(i) /\ (Appear(i) \/ Disappear(i))
                                            /\ UNCHANGED auditor)

\* GitHub does not redeliver completions for ever.
FiniteRedelivery == <>[][~\E j \in Jobs : CompletedWebhook(j)]_fleetVars

FleetFair == FleetSpec /\ Fairness /\ FiniteRedelivery

\* Type correctness of the whole: the copies of the liveness pass are records too.
FleetTypeOK == TypeOK /\ AuditorTypeOK

-----------------------------------------------------------------------------
(* Properties of the liveness pass.                                          *)

\* An orphan's instance id is what admission counts.  It is given up only when
\* the instance is gone: RunnerAbsent confirms exactly the instance of the
\* copy, and ReleaseAbsentOrphan checks that the record still names it.
OrphanKeepsReservation ==
  [][\A j \in Jobs :
       /\ records[j].status = "orphaned" /\ records[j].instance # NoInstance
       /\ records'[j].status = "orphaned" /\ records'[j].instance # records[j].instance
       => vm[records[j].instance].state = "gone"]_fleetVars

\* ReleaseSweptOrphans takes the reservation of an orphan whose instance the
\* sweep has found absent or deleted, never that of a running one.
SweptOrphansStopped ==
  [][\A j \in Jobs :
       /\ AuditAt("sweepRelease") /\ records[j].status = "orphaned"
       /\ records'[j].instance # records[j].instance
       => ~Alive(records[j].instance)]_fleetVars

\* A record gives up or replaces a runner id only when this registration is no
\* longer at GitHub: nobody else would remove it.
RegistrationRemembered ==
  [][\A j \in Jobs :
       records[j].runner # NoRunner /\ records'[j].runner # records[j].runner
       => records[j].runner \notin registered]_fleetVars

\* RequeueMissingRunner forgets the instance id, so the instance the record
\* names must not be running: it has disappeared or its deletion is under way.
RequeuedOnlyGone ==
  [][\A j \in Jobs :
       records[j].status = "provisioned" /\ records'[j].status \in {"pending", "failed"}
       => ~Alive(records[j].instance)]_fleetVars

\* The check of a single instance never ends it while its runner executes a
\* job, also one that GitHub gave it after the check had begun: the registration
\* is removed first, and GitHub refuses this for a busy runner.  Duplicates are
\* not protected: reconcileDuplicateRunners cleans up by job tag first.
CheckSparesBusy ==
  [][auditor.pass = "runners" /\ auditor.pc # "cleanDuplicates" /\ auditor' # auditor =>
       \A i \in Instances : Alive(i) /\ ~Alive(i)' => ~Busy(vm[i].runner)]_fleetVars

\* A replacement starts without the observations made about its predecessor:
\* one doubtful answer must not suffice to give up a new runner.
NoOldObservations ==
  \A j \in Jobs : records[j].status \in {"pending", "provisioning"} =>
     ~records[j].seen /\ ~records[j].missed /\ ~records[j].lost

\* No instance is left behind: when all jobs are over, every instance is shut
\* down, also if no completion is ever delivered and wherever the controller
\* died.
InstancesReclaimed ==
  (\A j \in Jobs : jobState[j] = "done") ~> (\A i \in Instances : ~Alive(i))

\* A worker waits for a registration or an instance beyond the bounds.
AtBound ==
  \E w \in Workers : \/ At(w, "generate") /\ issued = MaxRunners
                     \/ At(w, "create") /\ \A i \in Instances : vm[i].state # "none"

\* Accepted demand is answered: as long as its job is queued, a pending record
\* gets an instance or a final status, through retries and restarts.
DemandAnswered ==
  \A j \in Jobs :
    records[j].status = "pending"
    ~> \/ records[j].status \notin {"pending", "provisioning"}
       \/ jobState[j] # "queued" \/ AtBound

\* No record is left behind: once its job is over, a record comes to an end, and
\* with it the claim and the admission slot it may hold.
RecordsSettle ==
  \A j \in Jobs : jobState[j] = "done"
                  ~> (Settled(records[j]) \/ records[j].status = "absent" \/ AtBound)
=============================================================================
