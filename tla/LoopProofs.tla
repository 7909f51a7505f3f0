----------------------------- MODULE LoopProofs -----------------------------
(***************************************************************************)
(* Proofs about the two loops of the process that share no state: PlanLoop *)
(* for every set of requests and variants, and the TrainingCoordinator it  *)
(* calls after a run, for every choice of enabled models and verdicts and  *)
(* every bound.  Each argument is one inductive invariant.                 *)
(***************************************************************************)
EXTENDS PlanLoop, TrainingCoordinator, TLAPS

-----------------------------------------------------------------------------
(* The planning loop: runs exclude each other because inProgress is exactly *)
(* "some caller is inside", and the message of a command lands on its own  *)
(* plan because the plan that is being applied can be replaced by a        *)
(* dashboard call, but not by another run.                                 *)

\* While a command is under way, the stored snapshot is its run's own or one
\* the dashboard made, and the run has not been told of an error yet.
ApplyingOwnPlan ==
  \A c \in Callers : step[c] = "apply" =>
    /\ latest.by \in {c, "whatIf", "fixture"}
    /\ outcome[c] = "none"

LoopInv == TypeOK /\ OneRunAtATime /\ NeverSilent /\ MessageIsShown /\ ApplyingOwnPlan

-----------------------------------------------------------------------------
\* The caller "schedule" is nobody else's name.
LEMMA CallersAreCallers ==
  /\ "schedule" \in Callers
  /\ "nobody" \notin Callers /\ "whatIf" \notin Callers /\ "fixture" \notin Callers
BY RequestsAssumption DEF Callers

LEMMA EnterKeeps ==
  ASSUME TypeOK, OneRunAtATime, NEW c \in Callers, NEW v \in Variants,
         step[c] = "none", Enter(c, v)
  PROVE  /\ inProgress' \in BOOLEAN
         /\ step' \in [Callers -> Steps]
         /\ using' \in [Callers -> Variants]
         /\ OneRunAtATime'
         /\ inProgress'
         /\ \A d \in Callers : step'[d] = "apply" => step[d] = "apply"
<1>1. CASE inProgress
  BY <1>1 DEF Enter, run, TypeOK, OneRunAtATime
<1>2. CASE ~inProgress
  BY <1>2 DEF Enter, TypeOK, OneRunAtATime, Steps
<1> QED BY <1>1, <1>2

LEMMA LeaveKeeps ==
  ASSUME TypeOK, OneRunAtATime, NEW c \in Callers, step[c] # "none", Leave(c)
  PROVE  /\ inProgress' \in BOOLEAN
         /\ step' \in [Callers -> Steps]
         /\ using' \in [Callers -> Variants]
         /\ OneRunAtATime'
         /\ timers' = 1
         /\ \A d \in Callers : step'[d] = "none"
<1>1. /\ inProgress' = FALSE
      /\ step' \in [Callers -> Steps]
      /\ using' \in [Callers -> Variants]
  BY DEF Leave, TypeOK, Steps
<1>2. timers' = 1
  BY DEF Leave, TypeOK
<1>3. \A d \in Callers : step'[d] = "none"
  BY DEF Leave, TypeOK, OneRunAtATime
<1>4. OneRunAtATime'
  BY <1>1, <1>3 DEF OneRunAtATime
<1> QED BY <1>1, <1>2, <1>3, <1>4

LEMMA ResetKeeps ==
  ASSUME Reset, TypeOK, MessageIsShown, UNCHANGED <<latest, outcome>>
  PROVE  LoopInv'
<1>1. TypeOK'
  BY ConfiguredAssumption DEF Reset, TypeOK, Steps, Snapshots
<1>2. OneRunAtATime' /\ NeverSilent' /\ ApplyingOwnPlan'
  BY DEF Reset, OneRunAtATime, NeverSilent, ApplyingOwnPlan
<1>3. MessageIsShown'
  BY DEF MessageIsShown
<1> QED BY <1>1, <1>2, <1>3 DEF LoopInv

\* A snapshot the dashboard stores is nobody's plan.
LEMMA DashboardKeeps ==
  ASSUME LoopInv, NEW by \in {"whatIf", "fixture"}, NEW eras \in BOOLEAN,
         latest' = [by |-> by, variant |-> Configured, eras |-> eras, flagged |-> FALSE],
         UNCHANGED <<serving, variant, run, timers, outcome>>
  PROVE  LoopInv'
<1>1. TypeOK'
  BY ConfiguredAssumption DEF LoopInv, TypeOK, Snapshots, run
<1>2. OneRunAtATime' /\ NeverSilent'
  BY DEF LoopInv, OneRunAtATime, NeverSilent, run
<1>3. latest'.by = by
  OBVIOUS
<1>4. MessageIsShown' /\ ApplyingOwnPlan'
  BY <1>3, CallersAreCallers DEF LoopInv, MessageIsShown, ApplyingOwnPlan, run
<1> QED BY <1>1, <1>2, <1>4 DEF LoopInv

LEMMA LoopInitKeeps == Init => LoopInv
<1> SUFFICES ASSUME Init PROVE LoopInv
  OBVIOUS
<1>1. TypeOK
  BY ConfiguredAssumption DEF Init, TypeOK, NoSnapshot, Snapshots, Steps
<1>2. OneRunAtATime /\ NeverSilent /\ ApplyingOwnPlan
  BY DEF Init, OneRunAtATime, NeverSilent, ApplyingOwnPlan
<1>3. MessageIsShown
  BY CallersAreCallers DEF Init, NoSnapshot, MessageIsShown
<1> QED BY <1>1, <1>2, <1>3 DEF LoopInv

\* A call that enters the loop, or is skipped, whoever makes it.
LEMMA EnteringKeeps ==
  ASSUME LoopInv, NEW c \in Callers, NEW v \in Variants, step[c] = "none",
         Enter(c, v), UNCHANGED <<serving, latest, outcome>>,
         variant' \in Variants, timers' \in {0, 1}
  PROVE  LoopInv'
<1>1. TypeOK' /\ OneRunAtATime'
  BY EnterKeeps DEF LoopInv, TypeOK
<1>2. NeverSilent'
  BY EnterKeeps DEF LoopInv, NeverSilent
<1>3. MessageIsShown' /\ ApplyingOwnPlan'
  BY EnterKeeps DEF LoopInv, MessageIsShown, ApplyingOwnPlan
<1> QED BY <1>1, <1>2, <1>3 DEF LoopInv

LEMMA LoopStepKeeps == LoopInv /\ [Next]_vars => LoopInv'
<1> SUFFICES ASSUME LoopInv, [Next]_vars PROVE LoopInv'
  OBVIOUS
<1>a. TypeOK /\ OneRunAtATime /\ NeverSilent /\ MessageIsShown /\ ApplyingOwnPlan
  BY DEF LoopInv
<1>1. CASE Boot
  BY <1>a, <1>1, EnteringKeeps, CallersAreCallers DEF Boot, TypeOK
<1>2. CASE TimerFires
  <2>1. timers' \in {0, 1}
    BY <1>a, <1>2 DEF TimerFires, TypeOK
  <2> QED BY <1>a, <1>2, <2>1, EnteringKeeps, CallersAreCallers DEF TimerFires, TypeOK
<1>3. ASSUME NEW c \in Requests, NEW v \in Variants, Switch(c, v) PROVE LoopInv'
  <2>1. c \in Callers
    BY DEF Callers
  <2> QED BY <1>a, <1>3, <2>1, EnteringKeeps DEF Switch, TypeOK
<1>4. ASSUME NEW c \in Callers, Proceed(c) PROVE LoopInv'
  <2>1. TypeOK'
    BY <1>a, <1>4 DEF Proceed, TypeOK, Steps
  <2>2. OneRunAtATime'
    BY <1>a, <1>4 DEF Proceed, OneRunAtATime, TypeOK
  <2>3. \A d \in Callers : step'[d] = "apply" => step[d] = "apply"
    BY <1>a, <1>4 DEF Proceed, TypeOK
  <2>4. NeverSilent' /\ MessageIsShown' /\ ApplyingOwnPlan'
    BY <1>a, <1>4, <2>3 DEF Proceed, NeverSilent, MessageIsShown, ApplyingOwnPlan
  <2> QED BY <2>1, <2>2, <2>4 DEF LoopInv
<1>5. ASSUME NEW c \in Callers, Plan(c) PROVE LoopInv'
  <2>0. using[c] \in Variants
    BY <1>a DEF TypeOK
  <2>1. TypeOK'
    BY <1>a, <1>5, <2>0 DEF Plan, TypeOK, Steps, Snapshots
  <2>2. OneRunAtATime' /\ NeverSilent'
    BY <1>a, <1>5 DEF Plan, OneRunAtATime, NeverSilent, TypeOK
  <2>3. latest'.by = c /\ latest'.flagged = FALSE /\ outcome'[c] = "none"
    BY <1>a, <1>5 DEF Plan, TypeOK
  <2>4. MessageIsShown'
    BY <2>3 DEF MessageIsShown
  <2>5. \A d \in Callers : step'[d] = "apply" => d = c
    BY <1>a, <1>5 DEF Plan, OneRunAtATime, TypeOK
  <2>6. ApplyingOwnPlan'
    BY <2>3, <2>5 DEF ApplyingOwnPlan
  <2> QED BY <2>1, <2>2, <2>4, <2>6 DEF LoopInv
<1>6. ASSUME NEW c \in Callers, Fail(c) PROVE LoopInv'
  <2>1. CASE serving
    <3>1. step[c] # "none" /\ Leave(c) /\ UNCHANGED <<serving, variant, latest, outcome>>
      BY <1>6, <2>1 DEF Fail
    <3>2. TypeOK' /\ OneRunAtATime'
      BY <1>a, <3>1, LeaveKeeps DEF TypeOK
    <3>3. NeverSilent' /\ MessageIsShown' /\ ApplyingOwnPlan'
      BY <1>a, <3>1, LeaveKeeps DEF NeverSilent, MessageIsShown, ApplyingOwnPlan
    <3> QED BY <3>2, <3>3 DEF LoopInv
  <2>2. CASE ~serving
    BY <1>a, <1>6, <2>2, ResetKeeps DEF Fail
  <2> QED BY <2>1, <2>2
<1>7. ASSUME NEW c \in Callers, NEW how \in Outcomes, Applied(c, how) PROVE LoopInv'
  <2>1. step[c] = "apply" /\ Leave(c)
    BY <1>7 DEF Applied
  <2>2. TypeOK' /\ OneRunAtATime'
    BY <1>a, <1>7, <2>1, LeaveKeeps DEF Applied, TypeOK, Snapshots
  <2>3. NeverSilent' /\ ApplyingOwnPlan'
    BY <1>a, <2>1, LeaveKeeps DEF NeverSilent, ApplyingOwnPlan
  <2>4. latest'.by = latest.by /\ latest'.flagged = (latest.flagged \/ how = "message")
    BY <1>a, <1>7 DEF Applied, TypeOK, Snapshots
  <2>5. latest.by \in {c, "whatIf", "fixture"} /\ outcome[c] = "none" /\ outcome'[c] = how
    BY <1>a, <1>7, <2>1 DEF Applied, ApplyingOwnPlan, TypeOK
  <2>6. latest.by = c => latest.flagged = FALSE
    BY <1>a, <2>5 DEF MessageIsShown, TypeOK, Snapshots
  <2>7. MessageIsShown'
    BY <2>4, <2>5, <2>6, CallersAreCallers DEF MessageIsShown
  <2> QED BY <2>2, <2>3, <2>7 DEF LoopInv
<1>8. ASSUME NEW eras \in BOOLEAN, WhatIf(eras) PROVE LoopInv'
  BY <1>8, DashboardKeeps DEF WhatIf
<1>9. CASE Query
  BY <1>9, DashboardKeeps DEF Query
<1>10. CASE Crash
  BY <1>a, <1>10, ResetKeeps DEF Crash
<1>11. CASE UNCHANGED vars
  <2>1. TypeOK' /\ OneRunAtATime'
    BY <1>a, <1>11 DEF vars, run, TypeOK, OneRunAtATime
  <2>2. NeverSilent' /\ MessageIsShown' /\ ApplyingOwnPlan'
    BY <1>a, <1>11 DEF vars, run, NeverSilent, MessageIsShown, ApplyingOwnPlan
  <2> QED BY <2>1, <2>2 DEF LoopInv
<1> QED
  BY <1>1, <1>2, <1>3, <1>4, <1>5, <1>6, <1>7, <1>8, <1>9, <1>10, <1>11 DEF Next

\* In every reachable state the inductive invariant holds.
THEOREM LoopInvariant == Spec => []LoopInv
BY LoopInitKeeps, LoopStepKeeps, PTL DEF Spec

\* The types hold, and with them that there is never a second timer.
THEOREM LoopTypes == Spec => []TypeOK
<1>1. LoopInv => TypeOK
  BY DEF LoopInv
<1> QED BY <1>1, LoopInvariant, PTL

\* The runs of the planning loop exclude each other: the battery backend gets
\* its commands one at a time, as FroniusControl assumes.
THEOREM RunsExclude == Spec => []OneRunAtATime
<1>1. LoopInv => OneRunAtATime
  BY DEF LoopInv
<1> QED BY <1>1, LoopInvariant, PTL

\* A serving process has a timer or a run that will set one.
THEOREM LoopGoesOn == Spec => []NeverSilent
<1>1. LoopInv => NeverSilent
  BY DEF LoopInv
<1> QED BY <1>1, LoopInvariant, PTL

\* A stored plan of the loop shows an error exactly if its own command returned an
\* error message (normaliseSummaryError has one for a rejected login only, and the
\* other failures are logged).
THEOREM MessageShown == Spec => []MessageIsShown
<1>1. LoopInv => MessageIsShown
  BY DEF LoopInv
<1> QED BY <1>1, LoopInvariant, PTL

-----------------------------------------------------------------------------
(* The training coordinator: the slot (activeProcess) mirrors the one      *)
(* child, so an exit always frees the slot of the child that ended, and a  *)
(* result is "started" only from the spawn to the exit or, for the load    *)
(* model, to the end of a replay.                                          *)

TrainingInv == TrainingTypeOK /\ AtMostOneTrainer /\ StartedIsUnderWay

LEMMA ModelsAreNotNobody == Nobody \notin Models /\ "load" \in Models /\ "price" \in Models
BY DEF Nobody, Models

LEMMA NextJobIsAModel == NextJob \in Models \cup {Nobody}
BY DEF NextJob, Models, Nobody

LEMMA WantedAreEnabled == Wanted \subseteq Enabled
BY DEF Wanted

LEMMA VerdictsAreResults == \A v \in Verdicts : v \in Results /\ v # "started"
BY VerdictsAssumption DEF Results

-----------------------------------------------------------------------------
\* An attempt to start a training keeps what the coordinator knows true.
LEMMA MaybeStartKeeps ==
  ASSUME TrainingInv, MaybeStart
  PROVE  /\ trainer' \in Models \cup {Nobody}
         /\ children' \in [Models -> Nat]
         /\ status' \in [Models -> Results]
         /\ reported' \subseteq Enabled
         /\ AtMostOneTrainer'
         /\ \A k \in Models : status'[k] = "started" =>
              \/ children'[k] > 0
              \/ status[k] = "started" /\ children[k] = children'[k]
<1>a. TrainingTypeOK /\ AtMostOneTrainer
  BY DEF TrainingInv
<1>1. CASE trainer # Nobody
  BY <1>a, <1>1 DEF MaybeStart, TrainingTypeOK, AtMostOneTrainer
<1>2. CASE trainer = Nobody
  <2>a. /\ trainer' = NextJob
        /\ IF NextJob = Nobody THEN UNCHANGED children
           ELSE children' = [children EXCEPT ![NextJob] = @ + 1]
        /\ status' = [k \in Models |->
             IF k = NextJob THEN "started"
             ELSE IF ~runnable /\ k \in Wanted \ reported THEN "blocked"
             ELSE status[k]]
        /\ reported' = IF runnable THEN reported \ {NextJob} ELSE reported \cup Wanted
    BY <1>2 DEF MaybeStart
  <2>1. children = [k \in Models |-> 0]
    BY <1>a, <1>2, ModelsAreNotNobody DEF AtMostOneTrainer
  <2>2. children' = [k \in Models |-> IF k = NextJob THEN 1 ELSE 0]
    BY <2>a, <2>1, ModelsAreNotNobody, NextJobIsAModel
  <2>3. status' \in [Models -> Results]
    BY <1>a, <2>a DEF TrainingTypeOK, Results
  <2>4. reported' \subseteq Enabled
    BY <1>a, <2>a, WantedAreEnabled DEF TrainingTypeOK
  <2>5. \A k \in Models : status'[k] = "started" =>
          children'[k] > 0 \/ (status[k] = "started" /\ children[k] = children'[k])
    <3> SUFFICES ASSUME NEW k \in Models, status'[k] = "started", k # NextJob
                 PROVE  status[k] = "started" /\ children[k] = children'[k]
      BY <2>2
    <3>1. status[k] = "started"
      BY <2>a
    <3> QED BY <3>1, <2>1, <2>2
  <2>6. children' \in [Models -> Nat] /\ AtMostOneTrainer'
    BY <2>a, <2>2 DEF AtMostOneTrainer
  <2> QED BY <2>a, <2>3, <2>4, <2>5, <2>6, NextJobIsAModel
<1> QED BY <1>1, <1>2

\* With the other variables in their types, an attempt keeps the invariant.
LEMMA AttemptKeeps ==
  ASSUME TrainingInv, MaybeStart, UNCHANGED <<evaluating, active, history, window, runnable>>,
         continuing' \in 0..MaxOpen, pending' \in BOOLEAN
  PROVE  TrainingInv'
<1>1. TrainingTypeOK'
  BY MaybeStartKeeps DEF TrainingInv, TrainingTypeOK
<1>2. StartedIsUnderWay'
  BY MaybeStartKeeps DEF TrainingInv, StartedIsUnderWay
<1> QED BY <1>1, <1>2, MaybeStartKeeps DEF TrainingInv

\* An exit is the exit of the child the slot belongs to.
LEMMA ExitFreesTheSlot ==
  ASSUME TrainingInv, NEW k \in Models, children[k] > 0,
         children' = [children EXCEPT ![k] = @ - 1], trainer' = Nobody
  PROVE  /\ children' = [j \in Models |-> 0]
         /\ children' \in [Models -> Nat]
         /\ trainer' \in Models \cup {Nobody}
         /\ AtMostOneTrainer'
         /\ \A j \in Models \ {k} : children[j] = 0
<1>1. k = trainer
  BY DEF TrainingInv, AtMostOneTrainer
<1>2. children = [j \in Models |-> IF j = k THEN 1 ELSE 0]
  BY <1>1 DEF TrainingInv, AtMostOneTrainer
<1>3. children' = [j \in Models |-> 0]
  BY <1>2
<1> QED BY <1>2, <1>3, ModelsAreNotNobody DEF AtMostOneTrainer

\* An exit whose result is known at once.
LEMMA SettledExitKeeps ==
  ASSUME TrainingInv, NEW k \in Models, NEW result \in Results \ {"started"},
         children[k] > 0,
         children' = [children EXCEPT ![k] = @ - 1], trainer' = Nobody,
         status' = [status EXCEPT ![k] = result],
         UNCHANGED <<evaluating, pending, reported, history, window, runnable>>,
         active' \in [Models -> {"none", "due", "recent"}],
         continuing' \in 0..MaxOpen
  PROVE  TrainingInv'
<1>0. children' \in [Models -> Nat] /\ trainer' \in Models \cup {Nobody}
  BY ExitFreesTheSlot
<1>1. TrainingTypeOK'
  <2>1. status' \in [Models -> Results]
    BY DEF TrainingInv, TrainingTypeOK
  <2> QED BY <1>0, <2>1 DEF TrainingInv, TrainingTypeOK
<1>2. \A j \in Models : status'[j] = "started" => j # k /\ status[j] = "started"
  BY DEF TrainingInv, TrainingTypeOK
<1>3. StartedIsUnderWay'
  BY <1>2, ExitFreesTheSlot DEF TrainingInv, StartedIsUnderWay
<1> QED BY <1>1, <1>3, ExitFreesTheSlot DEF TrainingInv

LEMMA TrainingInitKeeps == TrainingInit => TrainingInv
<1> SUFFICES ASSUME TrainingInit PROVE TrainingInv
  OBVIOUS
<1>1. TrainingTypeOK
  <2>1. 0 \in 0..MaxOpen
    BY MaxOpenAssumption
  <2>2. status \in [Models -> Results] /\ children \in [Models -> Nat]
    BY DEF TrainingInit, Results
  <2>3. active \in [Models -> {"none", "due", "recent"}]
    BY DEF TrainingInit
  <2> QED BY <2>1, <2>2, <2>3 DEF TrainingInit, TrainingTypeOK
<1>2. AtMostOneTrainer /\ StartedIsUnderWay
  BY ModelsAreNotNobody DEF TrainingInit, AtMostOneTrainer, StartedIsUnderWay
<1> QED BY <1>1, <1>2 DEF TrainingInv

LEMMA TrainingStepKeeps == TrainingInv /\ [TrainingNext]_trainingVars => TrainingInv'
<1> SUFFICES ASSUME TrainingInv, [TrainingNext]_trainingVars PROVE TrainingInv'
  OBVIOUS
<1>a. TrainingTypeOK /\ AtMostOneTrainer /\ StartedIsUnderWay
  BY DEF TrainingInv
<1>1. CASE Check
  BY <1>a, <1>1, AttemptKeeps DEF Check, TrainingTypeOK, world
<1>2. ASSUME NEW k \in Models, ExitFailed(k) PROVE TrainingInv'
  <2>1. "failed" \in Results \ {"started"}
    BY DEF Results
  <2> QED BY <1>a, <1>2, <2>1, SettledExitKeeps DEF ExitFailed, TrainingTypeOK, world
<1>3. ASSUME NEW k \in Models, NEW v \in Verdicts, ExitJudged(k, v) PROVE TrainingInv'
  <2>1. v \in Results \ {"started"}
    BY VerdictsAreResults
  <2>2. active' \in [Models -> {"none", "due", "recent"}]
    BY <1>a, <1>3 DEF ExitJudged, Settle, TrainingTypeOK
  <2>3. continuing' \in 0..MaxOpen
    BY <1>a, <1>3, MaxOpenAssumption DEF ExitJudged, TrainingTypeOK
  <2> QED BY <1>3, <2>1, <2>2, <2>3, SettledExitKeeps DEF ExitJudged, Settle
<1>4. CASE ExitReplaying
  <2>1. "load" \in Models
    BY DEF Models
  <2>2. AtMostOneTrainer' /\ children' = [j \in Models |-> 0]
        /\ \A j \in Models \ {"load"} : children[j] = 0
    BY <1>4, <2>1, ExitFreesTheSlot DEF ExitReplaying
  <2>3. evaluating' \in 0..MaxOpen /\ evaluating' > 0
    BY <1>a, <1>4, MaxOpenAssumption DEF ExitReplaying, TrainingTypeOK
  <2>4. TrainingTypeOK'
    <3>1. children' \in [Models -> Nat] /\ trainer' \in Models \cup {Nobody}
      BY <1>4, <2>1, ExitFreesTheSlot DEF ExitReplaying
    <3> QED BY <1>a, <1>4, <2>3, <3>1 DEF ExitReplaying, TrainingTypeOK, world
  <2>5. StartedIsUnderWay'
    BY <1>a, <1>4, <2>2, <2>3 DEF ExitReplaying, StartedIsUnderWay
  <2> QED BY <2>2, <2>4, <2>5 DEF TrainingInv
<1>5. ASSUME NEW v \in Verdicts, Replayed(v) PROVE TrainingInv'
  <2>1. status' = [status EXCEPT !["load"] = v] /\ UNCHANGED <<trainer, children>>
    BY <1>5 DEF Replayed, Settle
  <2>2. TrainingTypeOK'
    <3>1. status' \in [Models -> Results]
      BY <1>a, <2>1, VerdictsAreResults DEF TrainingTypeOK
    <3>2. active' \in [Models -> {"none", "due", "recent"}]
      BY <1>a, <1>5 DEF Replayed, Settle, TrainingTypeOK
    <3>3. evaluating' \in 0..MaxOpen /\ continuing' \in 0..MaxOpen
      BY <1>a, <1>5, MaxOpenAssumption DEF Replayed, TrainingTypeOK
    <3> QED BY <1>a, <1>5, <3>1, <3>2, <3>3 DEF Replayed, TrainingTypeOK
  <2>3. AtMostOneTrainer'
    BY <1>a, <2>1 DEF AtMostOneTrainer
  <2>4. \A j \in Models : status'[j] = "started" => j # "load" /\ status[j] = "started"
    BY <1>a, <2>1, VerdictsAreResults DEF TrainingTypeOK
  <2>5. StartedIsUnderWay'
    BY <1>a, <2>1, <2>4 DEF StartedIsUnderWay
  <2> QED BY <2>2, <2>3, <2>5 DEF TrainingInv
<1>6. CASE Continue
  <2>1. continuing' \in 0..MaxOpen
    BY <1>a, <1>6, MaxOpenAssumption DEF Continue, TrainingTypeOK
  <2>2. CASE pending
    BY <1>a, <1>6, <2>1, <2>2, AttemptKeeps DEF Continue, TrainingTypeOK, world
  <2>3. CASE ~pending
    <3>1. UNCHANGED <<trainer, children, status, reported, evaluating, pending, world>>
      BY <1>6, <2>3 DEF Continue
    <3>2. TrainingTypeOK' /\ AtMostOneTrainer' /\ StartedIsUnderWay'
      BY <1>a, <2>1, <3>1 DEF TrainingTypeOK, AtMostOneTrainer, StartedIsUnderWay, world
    <3> QED BY <3>2 DEF TrainingInv
  <2> QED BY <2>2, <2>3
<1>7. CASE Restart
  <2>1. TrainingTypeOK'
    <3>1. status' \in [Models -> Results] /\ children' \in [Models -> Nat]
      BY <1>7 DEF Restart, Results
    <3>2. 0 \in 0..MaxOpen
      BY MaxOpenAssumption
    <3> QED BY <1>a, <1>7, <3>1, <3>2 DEF Restart, TrainingTypeOK, world
  <2>2. AtMostOneTrainer' /\ StartedIsUnderWay'
    BY <1>7, ModelsAreNotNobody DEF Restart, AtMostOneTrainer, StartedIsUnderWay
  <2> QED BY <2>1, <2>2 DEF TrainingInv
<1>8. CASE DayPasses \/ HourPasses \/ InstallChanges \/ UNCHANGED trainingVars
  <2>1. UNCHANGED coordinator
    BY <1>8 DEF DayPasses, HourPasses, InstallChanges, trainingVars
  <2>2. /\ active' \in [Models -> {"none", "due", "recent"}]
        /\ history' \in {"none", "some", "enough"}
        /\ window' \in BOOLEAN /\ runnable' \in BOOLEAN
    BY <1>a, <1>8 DEF DayPasses, HourPasses, InstallChanges, trainingVars, world, TrainingTypeOK
  <2>3. TrainingTypeOK' /\ AtMostOneTrainer' /\ StartedIsUnderWay'
    BY <1>a, <2>1, <2>2 DEF coordinator, TrainingTypeOK, AtMostOneTrainer, StartedIsUnderWay
  <2> QED BY <2>3 DEF TrainingInv
<1> QED
  BY <1>1, <1>2, <1>3, <1>4, <1>5, <1>6, <1>7, <1>8 DEF TrainingNext

\* In every reachable state the inductive invariant holds.
THEOREM TrainingInvariant == TrainingSpec => []TrainingInv
BY TrainingInitKeeps, TrainingStepKeeps, PTL DEF TrainingSpec

\* The types of the coordinator's state.
THEOREM TrainingTypes == TrainingSpec => []TrainingTypeOK
<1>1. TrainingInv => TrainingTypeOK
  BY DEF TrainingInv
<1> QED BY <1>1, TrainingInvariant, PTL

\* However checks, exits, replays and continuations interleave, there is at most
\* one training process, and the coordinator knows which.
THEOREM OneTrainer == TrainingSpec => []AtMostOneTrainer
<1>1. TrainingInv => AtMostOneTrainer
  BY DEF TrainingInv
<1> QED BY <1>1, TrainingInvariant, PTL

\* A result is "started" only while the job is trained or evaluated.
THEOREM StartedSettles == TrainingSpec => []StartedIsUnderWay
<1>1. TrainingInv => StartedIsUnderWay
  BY DEF TrainingInv
<1> QED BY <1>1, TrainingInvariant, PTL
=============================================================================
