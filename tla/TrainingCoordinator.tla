------------------------ MODULE TrainingCoordinator -------------------------
(***************************************************************************)
(* The background training of the two forecast models (model-training-     *)
(* coordinator.service.ts): the scheduler's check after each planning run, *)
(* the child process that trains, the evaluation of its candidate - which  *)
(* awaits a replay for the load model while the process may already start  *)
(* the next job - and the new attempt made when an evaluation is over.     *)
(*                                                                         *)
(* History is abstracted to what the gates ask of it: whether any day, and *)
(* whether enough days are recorded, and for each model whether enough new *)
(* days have passed since its training window ended.  ModelStore shows how *)
(* a promoted candidate reaches the disk.                                  *)
(***************************************************************************)
EXTENDS Integers

CONSTANTS
  Enabled,        \* the models that train themselves
  Verdicts,       \* what can become of a candidate that was trained
  MaxOpen         \* bound on evaluations and continuations under way

Models == {"load", "price"}

ASSUME EnabledAssumption == Enabled \subseteq Models
ASSUME VerdictsAssumption ==
  Verdicts \subseteq {"promoted", "rejected", "candidate_ready", "failed"}
ASSUME MaxOpenAssumption == MaxOpen \in Nat \ {0}

Nobody == "nobody"

VARIABLES
  trainer,      \* activeJobKey, and activeProcess with it
  children,     \* the training processes that run, per model
  evaluating,   \* promotions of a load candidate that await their replay
  continuing,   \* promotions over whose finally callback has not run yet
  pending,      \* pendingConfig is set
  status,       \* lastTrainingResult of each job
  reported,     \* reportedBlockingJobs
  active,       \* each model: "none", or its training window "due" or "recent"
  history,      \* recorded history: "none", "some" or "enough" days
  window,       \* the local hour is inside the retraining window
  runnable      \* script, interpreter and Python modules are there

coordinator == <<trainer, children, evaluating, continuing, pending, status, reported>>
world == <<active, history, window, runnable>>
trainingVars == <<coordinator, world>>

-----------------------------------------------------------------------------
(* resolveNextJob                                                          *)

Bootstrap == \E k \in Enabled : active[k] = "none"

\* shouldTrainArtifact.
ShouldTrain(k) ==
  \/ Bootstrap /\ active[k] = "none"
  \/ window /\ history = "enough" /\ active[k] \in {"none", "due"}

Wanted == {k \in Enabled : history # "none" /\ ShouldTrain(k)}

\* The load model goes first; a job whose prerequisites fail is passed over.
NextJob ==
  IF ~runnable \/ Wanted = {} THEN Nobody
  ELSE IF "load" \in Wanted THEN "load" ELSE "price"

\* Mutant: a training that runs already is not looked for.
StartAnyway ==
  /\ NextJob # Nobody
  /\ trainer' = NextJob
  /\ children' = [children EXCEPT ![NextJob] = @ + 1]
  /\ status' = [status EXCEPT ![NextJob] = "started"]
  /\ reported' = reported \ {NextJob}

\* maybeStartTraining, called by the planning loop and by the continuation.
MaybeStart ==
  \/ /\ trainer # Nobody
     /\ UNCHANGED <<trainer, children, status, reported>>
  \/ /\ trainer = Nobody
     /\ trainer' = NextJob
     /\ IF NextJob = Nobody
        THEN UNCHANGED children
        ELSE children' = [children EXCEPT ![NextJob] = @ + 1]
     /\ status' = [k \in Models |->
          IF k = NextJob THEN "started"
          ELSE IF ~runnable /\ k \in Wanted \ reported THEN "blocked"
          ELSE status[k]]
     /\ reported' = IF runnable THEN reported \ {NextJob} ELSE reported \cup Wanted

-----------------------------------------------------------------------------
TrainingInit ==
  /\ trainer = Nobody
  /\ children = [k \in Models |-> 0]
  /\ evaluating = 0
  /\ continuing = 0
  /\ pending = FALSE
  /\ status = [k \in Models |-> "null"]
  /\ reported = {}
  /\ active \in [Models -> {"none", "recent"}]
  /\ history = "none"
  /\ window = FALSE
  /\ runnable \in BOOLEAN

\* The planning loop's call at the end of a run.
Check ==
  /\ pending' = TRUE
  /\ MaybeStart
  /\ UNCHANGED <<evaluating, continuing, world>>

\* Mutant: a failed exit is not recorded.
ExitSilently(k) ==
  /\ children[k] > 0
  /\ children' = [children EXCEPT ![k] = @ - 1]
  /\ trainer' = Nobody
  /\ UNCHANGED <<evaluating, continuing, pending, status, reported, world>>

\* Mutant: the slot of a failed training is not given back.
ExitHolding(k) ==
  /\ children[k] > 0
  /\ children' = [children EXCEPT ![k] = @ - 1]
  /\ status' = [status EXCEPT ![k] = "failed"]
  /\ UNCHANGED <<trainer, evaluating, continuing, pending, reported, world>>

\* The child exits with an error code, or is killed.
ExitFailed(k) ==
  /\ children[k] > 0
  /\ children' = [children EXCEPT ![k] = @ - 1]
  /\ trainer' = Nobody
  /\ status' = [status EXCEPT ![k] = "failed"]
  /\ UNCHANGED <<evaluating, continuing, pending, reported, world>>

\* What promoteIfEligible does once the verdict is known: only a promoted
\* candidate changes the active model.
Settle(k, verdict) ==
  /\ status' = [status EXCEPT ![k] = verdict]
  /\ active' = [active EXCEPT ![k] = IF verdict = "promoted" THEN "recent" ELSE @]

\* The price candidate is judged at once, and so is a load candidate without
\* manifest or metrics.
ExitJudged(k, verdict) ==
  /\ children[k] > 0
  /\ IF k = "price" THEN verdict # "candidate_ready" ELSE verdict = "failed"
  /\ continuing < MaxOpen
  /\ children' = [children EXCEPT ![k] = @ - 1]
  /\ trainer' = Nobody
  /\ Settle(k, verdict)
  /\ continuing' = continuing + 1
  /\ UNCHANGED <<evaluating, pending, reported, history, window, runnable>>

\* The load candidate is replayed first.
ExitReplaying ==
  /\ children["load"] > 0
  /\ evaluating < MaxOpen
  /\ children' = [children EXCEPT !["load"] = @ - 1]
  /\ trainer' = Nobody
  /\ evaluating' = evaluating + 1
  /\ UNCHANGED <<continuing, pending, status, reported, world>>

Replayed(verdict) ==
  /\ evaluating > 0
  /\ continuing < MaxOpen
  /\ evaluating' = evaluating - 1
  /\ Settle("load", verdict)
  /\ continuing' = continuing + 1
  /\ UNCHANGED <<trainer, children, pending, reported, history, window, runnable>>

\* The finally callback: another attempt with the last configuration checked.
\* A microtask: the model lets other events come first, the code hardly does.
Continue ==
  /\ continuing > 0
  /\ continuing' = continuing - 1
  /\ IF pending THEN MaybeStart
     ELSE UNCHANGED <<trainer, children, status, reported>>
  /\ UNCHANGED <<evaluating, pending, world>>

-----------------------------------------------------------------------------
(* The environment                                                         *)

\* A child left behind by a dead process reports to nobody.
Restart ==
  /\ trainer' = Nobody
  /\ children' = [k \in Models |-> 0]
  /\ evaluating' = 0
  /\ continuing' = 0
  /\ pending' = FALSE
  /\ status' = [k \in Models |-> "null"]
  /\ reported' = {}
  /\ UNCHANGED world

DayPasses ==
  /\ history' = IF history = "none" THEN "some" ELSE "enough"
  /\ active' \in {a \in [Models -> {"none", "due", "recent"}] :
       \A k \in Models : a[k] = active[k] \/ (active[k] = "recent" /\ a[k] = "due")}
  /\ UNCHANGED <<coordinator, window, runnable>>

HourPasses ==
  /\ window' = ~window
  /\ UNCHANGED <<coordinator, active, history, runnable>>

InstallChanges ==
  /\ runnable' = ~runnable
  /\ UNCHANGED <<coordinator, active, history, window>>

TrainingNext ==
  \/ Check
  \/ \E k \in Models : ExitFailed(k) \/ \E v \in Verdicts : ExitJudged(k, v)
  \/ ExitReplaying
  \/ \E v \in Verdicts : Replayed(v)
  \/ Continue
  \/ Restart
  \/ DayPasses \/ HourPasses \/ InstallChanges

TrainingSpec == TrainingInit /\ [][TrainingNext]_trainingVars

\* The planning loop runs every few minutes, a training run ends, and so do the
\* replay and the microtask queue.
TrainingFairness ==
  /\ WF_trainingVars(Check)
  /\ WF_trainingVars(\E k \in Models : ExitFailed(k) \/ \E v \in Verdicts : ExitJudged(k, v))
  /\ WF_trainingVars(ExitReplaying)
  /\ WF_trainingVars(\E v \in Verdicts : Replayed(v))
  /\ WF_trainingVars(Continue)

TrainingFairSpec == TrainingSpec /\ TrainingFairness

-----------------------------------------------------------------------------
(* Properties                                                              *)

Results == {"null", "started", "blocked"} \cup
           {"promoted", "rejected", "candidate_ready", "failed"}

\* Every variable keeps its type; a process that ended is not ended again.
TrainingTypeOK ==
  /\ trainer \in Models \cup {Nobody}
  /\ children \in [Models -> Nat]
  /\ evaluating \in 0..MaxOpen
  /\ continuing \in 0..MaxOpen
  /\ pending \in BOOLEAN
  /\ status \in [Models -> Results]
  /\ reported \subseteq Enabled
  /\ active \in [Models -> {"none", "due", "recent"}]
  /\ history \in {"none", "some", "enough"}
  /\ window \in BOOLEAN
  /\ runnable \in BOOLEAN

\* However checks, exits, replays and continuations interleave, one training
\* process runs at most, and the coordinator knows which.
AtMostOneTrainer ==
  children = [k \in Models |-> IF k = trainer THEN 1 ELSE 0]

\* A job that is reported as started is being trained or evaluated: no path
\* through exit, evaluation and the next attempt forgets to settle its result.
StartedIsUnderWay ==
  \A k \in Models : status[k] = "started" =>
    children[k] > 0 \/ (k = "load" /\ evaluating > 0)

Setback == Restart \/ InstallChanges \/ DayPasses

\* A training of this model gives it no version.
TurnedDown(k) ==
  \/ ExitFailed(k)
  \/ \E v \in Verdicts \ {"promoted"} : ExitJudged(k, v) \/ (k = "load" /\ Replayed(v))

\* When the installation is left alone and there is history, every model that is
\* to train itself gets its first version within the day, unless its own trainings
\* are turned down again and again - or, for the price model, those of the load
\* model.  That one goes first and is trained again at once while it has no
\* version, so that candidates that are rejected, or wait for a promotion by hand,
\* do keep the price model waiting for ever; a load model that is promoted does
\* not, although it can be trained again while its last candidate is evaluated.
\* The load model never waits for the price model.  (A day is long compared with
\* a training, so that the load model falls due at most once meanwhile.)
Bootstrapped ==
  \A k \in Enabled :
    \/ []<><<Setback>>_trainingVars
    \/ <>[](~runnable \/ history = "none")
    \/ []<><<TurnedDown(k)>>_trainingVars
    \/ k = "price" /\ []<><<TurnedDown("load")>>_trainingVars
    \/ <>(active[k] # "none")
=============================================================================
