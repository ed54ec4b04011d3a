------------------------------ MODULE Provider ------------------------------
(* The cloud provider behind the controller's compute interface, in the two  *)
(* forms the adapters have (internal/digitalocean and the others).  Where    *)
(* ConfirmsAbsence holds, as for DigitalOcean, an accepted DELETE is         *)
(* asynchronous: until the instance is gone, tag listings may still show it  *)
(* while a GET shows no ownership tags.  Where it does not hold, a deleted   *)
(* instance leaves the listings at once.                                     *)
EXTENDS RunnerRecord, FiniteSets

CONSTANTS
  ConfirmsAbsence,  \* the adapter implements RunnerAbsent
  ListingLag,       \* a new instance may be missing from tag listings at first
  AmbiguousCreates, \* a create may end with ErrCreateOutcomeUnknown
  Preemption        \* an instance may be interruptible capacity (RUNNER_SPOT)

ASSUME ProviderAssumption ==
  /\ ConfirmsAbsence \in BOOLEAN
  /\ ListingLag \in BOOLEAN
  /\ AmbiguousCreates \in BOOLEAN
  /\ Preemption \in BOOLEAN

VARIABLE vm  \* instance -> its state, the job it is tagged for, its runner

VMStates == {"none", "hidden", "running", "deleting", "gone"}

ProviderTypeOK ==
  vm \in [Instances -> [state : VMStates, job : Jobs \cup {NoJob},
                        runner : Runners \cup {NoRunner}]]

ProviderInit ==
  vm = [i \in Instances |-> [state |-> "none", job |-> NoJob, runner |-> NoRunner]]

\* An instance is alive until its deletion has been accepted.
Alive(i) == vm[i].state \in {"hidden", "running"}

AliveFor(j) == {i \in Instances : Alive(i) /\ vm[i].job = j}

\* Mutant: the listing filters on the wrong instance state.
ListedFor_Starting(j) == {i \in Instances : vm[i].state = "hidden" /\ vm[i].job = j}

ListedFor(j) == {i \in Instances : vm[i].state = "running" /\ vm[i].job = j}
LeavingFor(j) == {i \in Instances : vm[i].state = "deleting" /\ vm[i].job = j}

\* A listing by job tag: every running instance, and any that is going away.
Listings(j) == {ListedFor(j) \cup leaving : leaving \in SUBSET LeavingFor(j)}

Leave == IF ConfirmsAbsence THEN "deleting" ELSE "gone"

-----------------------------------------------------------------------------
(* What happens at the provider on its own.                                  *)

Appear(i) ==
  /\ vm[i].state = "hidden"
  /\ vm' = [vm EXCEPT ![i].state = "running"]

Disappear(i) ==
  /\ vm[i].state = "deleting"
  /\ vm' = [vm EXCEPT ![i].state = "gone"]

\* The provider takes the instance back and deletes it, at any time.
Preempted(i) ==
  /\ Preemption
  /\ Alive(i)
  /\ vm' = [vm EXCEPT ![i].state = "gone"]

-----------------------------------------------------------------------------
(* Calls of the compute interface.                                           *)

\* The first unused instance starts with the JIT configuration of a runner.
StartVM(i, j, id) ==
  /\ vm[i].state = "none"
  /\ \A k \in Instances : k < i => vm[k].state # "none"
  /\ \E s \in IF ListingLag THEN {"hidden", "running"} ELSE {"running"} :
       vm' = [vm EXCEPT ![i] = [state |-> s, job |-> j, runner |-> id]]

\* CreateRunner lists by job tag first and returns what it finds.
CreateReuses(j, i) ==
  /\ \E seen \in Listings(j) : seen = {i}
  /\ UNCHANGED vm

CreateStarts(j, i, id) ==
  /\ {} \in Listings(j)
  /\ StartVM(i, j, id)

\* A failed create: nothing started, or the request was carried out although
\* its answer was lost.  An adapter that confirms absence lists repeatedly
\* before it reports an error, except for the unknown outcome and where the
\* call was cancelled or timed out.
CreateFails(j, id, e) ==
  \/ UNCHANGED vm
  \/ /\ e \in {"unknown", "cancelled"} \/ ListingLag \/ ~ConfirmsAbsence
     /\ \E i \in Instances : CreateStarts(j, i, id)

\* DeleteRunner verifies ownership by GET, then deletes; an instance that is
\* gone counts as deleted.
DeleteVM(i) ==
  IF Alive(i) THEN vm' = [vm EXCEPT ![i].state = Leave] ELSE UNCHANGED vm

DeleteFails(i) == UNCHANGED vm \/ DeleteVM(i)

\* While its accepted deletion is in progress the instance may show no tags.
DeleteMismatches(i) == vm[i].state = "deleting" /\ UNCHANGED vm

\* CleanupRunnerExcept deletes what the listing shows, one by one.
CleanupVMs(j, except) ==
  vm' = [i \in Instances |->
           IF i \in ListedFor(j) /\ i # except
           THEN [vm[i] EXCEPT !.state = Leave] ELSE vm[i]]

CleanupStops(j, except) ==
  \E some \in SUBSET (ListedFor(j) \ {except}) :
    vm' = [i \in Instances |->
             IF i \in some THEN [vm[i] EXCEPT !.state = Leave] ELSE vm[i]]

CleanupMismatches(j, except) ==
  /\ LeavingFor(j) \ {except} # {}
  /\ CleanupStops(j, except)
=============================================================================
