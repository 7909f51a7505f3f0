------------------------------ MODULE PlanLoop ------------------------------
(***************************************************************************)
(* The planning loop (simulation-seed.service.ts): the run that boot, the  *)
(* timer or a planning-variant switch asks for, its awaited steps, the     *)
(* snapshot it stores, the battery command whose error it notes on the     *)
(* stored snapshot, and the timer it leaves behind; with the dashboard's   *)
(* calls (trpc.router.ts) that write the same snapshot in between.         *)
(*                                                                         *)
(* What a plan contains is abstracted to the planning variant it was made  *)
(* with; FroniusControl models what a command does to the inverter.  That  *)
(* commands reach it one at a time is OneRunAtATime here.                  *)
(***************************************************************************)
EXTENDS Naturals

CONSTANTS
  Requests,      \* dashboard requests that may switch the variant
  Variants,      \* the planning variants
  Configured,    \* the variant of the configuration file
  DryRun         \* dry_run: only then may the variant be switched

ASSUME ConfiguredAssumption == Configured \in Variants
ASSUME DryRunAssumption == DryRun \in BOOLEAN
ASSUME RequestsAssumption ==
  Requests \cap {"schedule", "nobody", "whatIf", "fixture"} = {}

\* "schedule" stands for the call made at boot and those made by the timer.
Callers == Requests \cup {"schedule"}

VARIABLES
  serving,      \* the server listens: the first run is over
  variant,      \* price.feed_in.type of the runtime configuration
  inProgress,   \* runInProgress
  step,         \* what each caller's run awaits, "none" outside a run
  using,        \* the variant in each caller's copy of the configuration
  timers,       \* timeouts that are set and have not fired
  latest,       \* the row of table snapshots: who made it, from which variant,
                \* whether it has forecast eras and a noted error
  outcome       \* history: what became of each caller's last command

run == <<inProgress, step, using>>
vars == <<serving, variant, run, timers, latest, outcome>>

\* An error message is returned for a command the backend does not support and for
\* a rejected login; any other failure, and whatever throws on the way, is logged.
Outcomes == {"applied", "message", "logged"}

NoSnapshot == [by |-> "nobody", variant |-> Configured, eras |-> FALSE, flagged |-> FALSE]

-----------------------------------------------------------------------------
(* seedFromConfig                                                          *)

\* Mutant: the guard is missing.
EnterAnyway(c, v) ==
  /\ inProgress' = TRUE
  /\ step' = [step EXCEPT ![c] = "refresh"]
  /\ using' = [using EXCEPT ![c] = v]

\* Mutant: the configuration is read once, at boot.
EnterAsConfigured(c, v) ==
  IF inProgress
  THEN UNCHANGED run
  ELSE /\ inProgress' = TRUE
       /\ step' = [step EXCEPT ![c] = "refresh"]
       /\ using' = [using EXCEPT ![c] = Configured]

\* A request that finds a run in progress returns at once.
Enter(c, v) ==
  IF inProgress
  THEN UNCHANGED run
  ELSE /\ inProgress' = TRUE
       /\ step' = [step EXCEPT ![c] = "refresh"]
       /\ using' = [using EXCEPT ![c] = v]

\* Mutant: the end of a run does not set the timer.
LeaveNoTimer(c) ==
  /\ inProgress' = FALSE
  /\ step' = [step EXCEPT ![c] = "none"]
  /\ UNCHANGED <<using, timers>>

\* The finally block; scheduleNextRun clears the timer it set last.
Leave(c) ==
  /\ inProgress' = FALSE
  /\ step' = [step EXCEPT ![c] = "none"]
  /\ timers' = IF timers > 0 THEN timers ELSE 1
  /\ UNCHANGED using

\* A process that starts knows its configuration file and finds the snapshot.
Reset ==
  /\ serving' = FALSE
  /\ variant' = Configured
  /\ inProgress' = FALSE
  /\ step' = [c \in Callers |-> "none"]
  /\ using' = [c \in Callers |-> Configured]
  /\ timers' = 0

Init ==
  /\ serving = FALSE
  /\ variant = Configured
  /\ inProgress = FALSE
  /\ step = [c \in Callers |-> "none"]
  /\ using = [c \in Callers |-> Configured]
  /\ timers = 0
  /\ latest = NoSnapshot
  /\ outcome = [c \in Callers |-> "none"]

\* bootstrap runs once before it listens.
Boot ==
  /\ ~serving
  /\ step["schedule"] = "none"
  /\ Enter("schedule", variant)
  /\ UNCHANGED <<serving, variant, timers, latest, outcome>>

TimerFires ==
  /\ serving
  /\ timers > 0
  /\ step["schedule"] = "none"
  /\ timers' = timers - 1
  /\ Enter("schedule", variant)
  /\ UNCHANGED <<serving, variant, latest, outcome>>

\* setPlanningVariant; otherwise the request is rejected as FORBIDDEN.
Switch(c, v) ==
  /\ serving
  /\ DryRun
  /\ step[c] = "none"
  /\ variant' = v
  /\ Enter(c, v)
  /\ UNCHANGED <<serving, timers, latest, outcome>>

\* refreshAndApply and prepare return.
Proceed(c) ==
  /\ step[c] \in {"refresh", "prepare"}
  /\ step' = [step EXCEPT ![c] = IF @ = "refresh" THEN "prepare" ELSE "tariff"]
  /\ UNCHANGED <<serving, variant, inProgress, using, timers, latest, outcome>>

\* The feed-in tariffs are there: the run plans, stores its snapshot and hands
\* the command to the battery backend without awaiting anything in between.
Plan(c) ==
  /\ step[c] = "tariff"
  /\ step' = [step EXCEPT ![c] = "apply"]
  /\ latest' = [by |-> c, variant |-> using[c], eras |-> TRUE, flagged |-> FALSE]
  /\ outcome' = [outcome EXCEPT ![c] = "none"]
  /\ UNCHANGED <<serving, variant, inProgress, using, timers>>

\* A run that throws - no source has a forecast - and during boot the whole
\* process with it, which the container then restarts.
Fail(c) ==
  /\ step[c] \in {"refresh", "prepare", "tariff"}
  /\ IF serving
     THEN Leave(c) /\ UNCHANGED <<serving, variant>>
     ELSE Reset
  /\ UNCHANGED <<latest, outcome>>

\* applyFronius: an error message is noted on whatever snapshot is stored.
Applied(c, how) ==
  /\ step[c] = "apply"
  /\ latest' = [latest EXCEPT !.flagged = @ \/ how = "message"]
  /\ outcome' = [outcome EXCEPT ![c] = how]
  /\ serving' = TRUE
  /\ Leave(c)
  /\ UNCHANGED variant

-----------------------------------------------------------------------------
(* The dashboard and the host                                              *)

\* The runSimulation mutation plans from the caller's own input, and stores it.
WhatIf(eras) ==
  /\ serving
  /\ latest' = [by |-> "whatIf", variant |-> Configured, eras |-> eras, flagged |-> FALSE]
  /\ UNCHANGED <<serving, variant, run, timers, outcome>>

\* ensureSeedFromFixture, behind most of the dashboard's queries.
Query ==
  /\ serving
  /\ ~latest.eras
  /\ latest' = [by |-> "fixture", variant |-> Configured, eras |-> TRUE, flagged |-> FALSE]
  /\ UNCHANGED <<serving, variant, run, timers, outcome>>

Crash ==
  /\ Reset
  /\ UNCHANGED <<latest, outcome>>

Next ==
  \/ Boot
  \/ TimerFires
  \/ \E c \in Requests : \E v \in Variants : Switch(c, v)
  \/ \E c \in Callers : Proceed(c) \/ Plan(c) \/ Fail(c)
  \/ \E c \in Callers : \E how \in Outcomes : Applied(c, how)
  \/ \E eras \in BOOLEAN : WhatIf(eras)
  \/ Query
  \/ Crash

Spec == Init /\ [][Next]_vars

\* Timeouts fire, a crashed process is started again, and every await ends: the
\* requests of a run carry abort timers or end by the HTTP client's own.
Fairness ==
  /\ WF_vars(Boot)
  /\ WF_vars(TimerFires)
  /\ \A c \in Callers :
       WF_vars(Proceed(c) \/ Plan(c) \/ Fail(c)
               \/ \E how \in Outcomes : Applied(c, how))

FairSpec == Spec /\ Fairness

-----------------------------------------------------------------------------
(* Properties                                                              *)

Steps == {"none", "refresh", "prepare", "tariff", "apply"}

Snapshots == [by : Callers \cup {"nobody", "whatIf", "fixture"},
              variant : Variants, eras : BOOLEAN, flagged : BOOLEAN]

\* Every variable keeps its type; in particular there is never a second timer.
TypeOK ==
  /\ serving \in BOOLEAN
  /\ variant \in Variants
  /\ inProgress \in BOOLEAN
  /\ step \in [Callers -> Steps]
  /\ using \in [Callers -> Variants]
  /\ timers \in {0, 1}
  /\ latest \in Snapshots
  /\ outcome \in [Callers -> Outcomes \cup {"none"}]

\* However boot, timer and switches interleave, the awaited steps of two runs
\* never overlap, so the battery backend gets its commands one at a time, and a
\* run that is over, also by an exception, does not block the next one.
OneRunAtATime ==
  /\ \A c, d \in Callers : step[c] # "none" /\ step[d] # "none" => c = d
  /\ inProgress <=> \E c \in Callers : step[c] # "none"

\* The loop never falls silent: a serving process has a timer or a run that
\* will set one, also when the timer fired during another caller's run and its
\* own run was skipped, and when a run failed.
NeverSilent ==
  serving => inProgress \/ timers = 1

\* A stored plan of the loop shows an error exactly if its own command came back
\* with an error message, although the message is noted on the latest snapshot when
\* the command returns and the dashboard may have replaced that snapshot meanwhile.
\* A command that timed out, was answered with a server error or threw on its way
\* is not shown: its plan looks like one that was carried out.
MessageIsShown ==
  \A c \in Callers : latest.by = c => latest.flagged = (outcome[c] = "message")

Trouble ==
  \/ Crash \/ Query
  \/ \E c \in Requests : \E v \in Variants : Switch(c, v)
  \/ \E c \in Callers : Fail(c)
  \/ \E eras \in BOOLEAN : WhatIf(eras)

\* A variant the user switched to is planned with in the end, even when the
\* switch came during a run and its own request to plan was dropped.
VariantTakesEffect ==
  \/ []<><<Trouble>>_vars
  \/ []<>(latest.by \in Callers /\ latest.variant = variant)
=============================================================================
