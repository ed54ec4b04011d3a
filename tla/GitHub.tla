------------------------------- MODULE GitHub -------------------------------
(* GitHub as the controller meets it: workflow jobs, the JIT runner          *)
(* registrations it issues, and the API calls of internal/github that read   *)
(* or change them.  A job is queued until a runner takes it or somebody      *)
(* cancels it; which of the online runners takes it is GitHub's choice, so a *)
(* runner registered for one job may execute another.  A JIT runner          *)
(* executes one job and GitHub drops its registration afterwards; a busy     *)
(* runner cannot be deregistered.                                            *)
EXTENDS RunnerRecord

CONSTANT Errors  \* kinds of failure a remote call may report in this instance

ASSUME ErrorsAssumption == Errors \subseteq {"other", "cancelled", "limited"}

VARIABLES
  jobState,    \* job -> "queued", "running" or "done"
  ranOn,       \* job -> the runner that took it; NoRunner if none, or Foreign
  registered,  \* runners GitHub knows
  issued       \* number of runner ids issued

githubVars == <<jobState, ranOn, registered, issued>>

Foreign == MaxRunners + 1  \* a runner this controller never issued

GitHubTypeOK ==
  /\ jobState \in [Jobs -> {"queued", "running", "done"}]
  /\ ranOn \in [Jobs -> Runners \cup {NoRunner, Foreign}]
  /\ registered \subseteq Runners
  /\ issued \in 0 .. MaxRunners

GitHubInit ==
  /\ jobState = [j \in Jobs |-> "queued"]
  /\ ranOn = [j \in Jobs |-> NoRunner]
  /\ registered = {}
  /\ issued = 0

Busy(id) == \E j \in Jobs : jobState[j] = "running" /\ ranOn[j] = id

Used(id) == \E j \in Jobs : ranOn[j] = id

-----------------------------------------------------------------------------
(* What happens at GitHub on its own.                                        *)

TakeJob(j, id) ==
  /\ jobState[j] = "queued"
  /\ jobState' = [jobState EXCEPT ![j] = "running"]
  /\ ranOn' = [ranOn EXCEPT ![j] = id]
  /\ UNCHANGED <<registered, issued>>

FinishJob(j) ==
  /\ jobState[j] = "running"
  /\ jobState' = [jobState EXCEPT ![j] = "done"]
  /\ registered' = registered \ {ranOn[j]}
  /\ UNCHANGED <<ranOn, issued>>

CancelQueuedJob(j) ==
  /\ jobState[j] = "queued"
  /\ jobState' = [jobState EXCEPT ![j] = "done"]
  /\ UNCHANGED <<ranOn, registered, issued>>

-----------------------------------------------------------------------------
(* API calls.                                                                *)

Issue ==
  /\ issued < MaxRunners
  /\ issued' = issued + 1
  /\ registered' = registered \cup {issued + 1}
  /\ UNCHANGED <<jobState, ranOn>>

\* GenerateRepoJITConfig returns the id issued + 1, or fails; a lost answer
\* leaves a registration nobody knows about.
GenerateJIT == Issue
GenerateJITFails == UNCHANGED githubVars \/ Issue

\* RemoveRepoRunner: 204 and 404 both succeed; GitHub refuses a busy runner.
RemoveRepoRunner(id) ==
  /\ ~Busy(id)
  /\ registered' = registered \ {id}
  /\ UNCHANGED <<jobState, ranOn, issued>>

\* The error RemoveRepoRunner may return; "busy" is GitHub's 422.
RemovalErrors(id) == Errors \cup (IF Busy(id) THEN {"busy"} ELSE {})

\* The request of a failed call may have been carried out.
RemovalFails(id, e) ==
  \/ UNCHANGED githubVars
  \/ e \in {"other", "cancelled"} /\ RemoveRepoRunner(id)
=============================================================================
