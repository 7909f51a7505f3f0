# Chargecaster in TLA+

Chargecaster plans when a home battery charges, holds, is limited or runs by itself, from price, weather and
consumption forecasts, and sends the plan's current command to a Fronius inverter every few minutes. This directory
holds TLA+ models of the backend, the TLC runs that check them and the TLAPS proofs about them. Paths in this file are
relative to the repository; `backend/src` is abbreviated `b/`.

## Inventory

The backend is one Node process. Its concurrency is that of awaits: a handler runs until it awaits, and any other
handler may run before it goes on. Each component below has its state, its operations, what is hard about it, and what
makes it correct.

| Component | State | Operations | Hard | Correct when |
|---|---|---|---|---|
| Planning loop (`b/config/simulation-seed.service.ts`, `b/main.ts`) | `runInProgress`, `schedulerTimer`, `nextIntervalSeconds` | `seedFromConfig` at boot, by timer, by a variant switch; `applyFronius` | awaits in a run, a timer that fires meanwhile, exceptions, the error noted on another's snapshot | runs exclude each other, the loop never falls silent, a returned error is shown on its own plan |
| Fronius adapter (`b/fronius/fronius.service.ts`) | `lastAppliedMode`, `lastAppliedTarget`, `lastManagedTimeOfUseEntries`, working paths, digest session | `applyOptimization`: login, battery POST, rule read, rule write, logout | lost, unanswered and unreadable requests, restarts, the owner editing the same table | the inverter does what was ordered, what is skipped was superfluous, the owner's rules survive |
| Training coordinator (`b/forecasting/model-training-coordinator.service.ts`) | `activeProcess`, `activeJobKey`, `pendingConfig`, `jobStatus`, `reportedBlockingJobs` | `maybeStartTraining`, exit handler, promotion of load and price candidates | an evaluation that awaits while the next job starts | one training at a time, results settle, both models get trained |
| Artifact store (`b/forecasting/load-forecast-artifact.service.ts`, `price-forecast-artifact.service.ts`) | directories `current`, `current.next`, `current.previous` | `promoteVersion`, `seedBundledStarterArtifact`, inspection | a kill between two file-system calls or within a removal, a newer build with another feature contract | what arrives in `current` is a whole version, and a usable one comes back |
| Inference (`b/forecasting/*-inference.service.ts`) | loaded model and its path | `predict`, `loadModel` | a cache keyed by a constant path | the model that computes is the one that is named |
| Demand forecast (`b/config/demand-forecast.service.ts`) | `lastRuntimeMetadata` | `buildForecast`: hours of the history, baselines, model or neighbours, shape | a promotion between the awaited predictions of two slots, metadata left by the forecast before, ranks and references matched by index | one model makes a forecast, what is told of it is how it was made, it stays within what was seen |
| Simulation service and storage (`b/simulation/simulation.service.ts`, `b/storage/`) | one-row table `snapshots`, `history`, caches | `runSimulation`, `appendErrorsToLatestSnapshot`, `ensureSeedFromFixture` | several writers of one row | the row shows what its writer planned |
| tRPC router (`b/trpc/trpc.router.ts`) | none | queries, `runSimulation`, `setPlanningVariant` | calls arrive during a run's awaits | as above; a variant takes effect |
| Runtime configuration (`b/config/runtime-config.service.ts`) | the configuration document | `getDocument` (a copy), `setPlanningVariant` | runs keep their copy | a run is consistent with one configuration |
| Modes and translation (`b/hardware/`) | none | capability ranges, command from a snapshot | rounding at the floor and the maximum | a translated command is supported |
| Optimiser (`b/simulation/optimal-schedule.ts`) | none | backward recursion over slots and charge states | boundaries of the grid, infeasible modes, ties | the schedule is feasible and cheapest on the grid |
| Market data (`b/config/market-data.service.ts`, providers) | stored prices | priority merge of providers | partial overlap, a provider that throws | every slot has the best price there is |
| Dynamic prices (`b/config/dynamic-price-config.service.ts`) | stored daily values | refresh, fallback to stored values | failed refresh, stale fallback | a value is the latest effective one |
| Weather (`b/config/weather.service.ts`) | cached hours, call timestamps, cooldowns | fetch, retain, budget | rate limit, cooldown, restart | the provider's limits are kept, retained rows stay usable |
| Backtests (`b/simulation/backtest*.ts`, `*-backtest.strategy.ts`) | table `daily_backtest_summaries`, `schedulerTimer` | a page, a detail, the materialisations at start and at midnight | a chain of days walked back through cache and call, keys that do not name the days before, kills at midnight | a cached day continues the days before it, does not change, and comes into being |
| Preparation and forecast assembly (`b/config/simulation-preparation.service.ts`, `forecast-assembly.service.ts`), solar forecast | none | the awaited reads of a run, the slots with their price, fee and sun | failing sources, lists that are matched by index after one of them was merged | a slot has the fee of its time, the sun is planned once |
| EVCC, battery efficiency, replay, config history | derived series | awaited reads, floating-point statistics | failing sources | a run has aligned series or fails |
| Domain package, dashboard, Python training scripts, container and maintenance scripts | - | - | - | not modelled, see below |

Interactions: `bootstrap` awaits one planning run and only then listens; a run awaits price refresh, preparation and
tariffs, then plans, stores its snapshot, awaits the adapter, and asks the coordinator for a training; the
coordinator's promotion changes `current`, from which inference loads; the dashboard's mutations and most queries may
replace the stored snapshot between any two of these steps.

## Modules

| Module | Models | State and actions |
|---|---|---|
| `BatteryOrder` | what a battery backend promises (abstract) | `Place`, `PlaceUnchanged` (the only permitted shortcut), `SetBattery`, `SetPosture`, `Forget` |
| `FroniusControl` | `fronius.service.ts` | `lastMode`, `lastTarget`, `lastManaged` are the service's fields; `phase` is the request `applyOptimization` awaits; `battery` and `rules` are the inverter. `Apply`, `Decline` are the synchronous head of the call, `Login`, `PostBattery`, `ReadRules`, `WriteRules`, `SkipWrite` its requests and end, `Restart` and `OwnerEdit` the environment |
| `PlanLoop` | `simulation-seed.service.ts` with the callers in `main.ts` and `trpc.router.ts` | `step` is what a run awaits, `timers` the timeouts set, `latest` the row of `snapshots`. `Boot`, `TimerFires`, `Switch` enter; `Proceed`, `Plan`, `Applied`, `Fail` are a run; `WhatIf`, `Query`, `Crash` come in between |
| `TrainingCoordinator` | `model-training-coordinator.service.ts` | `Check`, `ExitFailed`, `ExitJudged`, `ExitReplaying`, `Replayed`, `Continue`; the world passes days and hours, breaks and repairs the installation, restarts the process |
| `ModelStore` | the load model's directories and the loaded model | one action per file-system call, and within a removal one per file: `Promote` ... `Tidy` and `Seed` ... `SeedInstall`; `Inspect` and `Predict` (or `GiveUp`, without the CatBoost runtime) are the two halves of a forecast; `Restart` at any point and with any build |
| `ScheduleOptimizer` | `optimal-schedule.ts` with the modes of `battery-control-backend.ts` | `costToGo` and `policy` are the tables, `entries` the `oracleEntries`; `index` and `soc` are the loop variables. `Evaluate` is one iteration of `runBackwardPass`, `RollOut` one of `runForwardPass`, `CallAgain` the next call. `AutoMode`, `HoldMode`, `LimitMode`, `ChargeMode` are the modes' outcomes, `Viable` the rejections, `Better` the ties |
| `BacktestCache` | `backtest.service.ts`, `backtest-materialization.service.ts`, the daily strategy | `cache` is the table of summaries, `configLog` that of configurations, `live` and `forced` are the locals `liveByDate` and `forceLiveDates`, `stack` the recursion of `ensureLiveEntry`. `Page`, `Detail`, `Startup`, `Scheduled` begin a call; `Take`, `Descend`, `Simulate`, `Finish` are its steps; `Record`, `Observe`, `Midnight`, `Restart`, `Crash` come from outside |
| `WeatherCache` | `weather.service.ts` with its tables | `rows` is `weather_hours`, `cooldown` the row of `provider_cooldowns`, `requests` are the timestamps counted in memory, `call` is what each caller awaits. `Start`, `Skip`, `Ask`, `Answer`, `Refused`, `Broken`, `Finish` are a call; `Tick`, `Restart` come from outside |
| `GridFee` | the grid fee of `dynamic-price-config.service.ts` and the E-Control provider | `records` are the rows of `dynamic_price_history`, `fees` is the run that refreshes and reads them. `BeginRun`, `Fetched`, `FetchFailed`, `EndRun`; `Reconfigure` and `Tick` from outside |
| `PriceForecast`, `PriceAnswers` | the slots of the price providers and of EVCC's state: clamping, cutting, expanding to slots, the overlay of the sun (operators only) | |
| `PlanningInputs` | `simulation-preparation.service.ts`, `market-data.service.ts`, `forecast-assembly.service.ts` on top of `GridFee` | `input` is what the run has collected. `CollectEvcc`, `CollectProvider`, `Lay` (the merge of one provider), `Cut`, `CollectSolar`, `Finish`; `PlannedFee` and the overlay of the sun are what its slots are planned with |
| `CommandTranslation` | the ends of a plan: what a backend's capabilities and the configuration make of the optimiser's limits, and `optimisation-command-translator.service.ts` | operators over the plans of `ScheduleOptimizer` |
| `HouseLoad` | the computations of `demand-forecast.service.ts` | operators only |
| `DemandForecast` | `DemandForecastService` on top of `ModelStore` | `given`, `models`, `entries` are the forecast under way, `told` is `lastRuntimeMetadata`. `Begin`, `PredictSlot`, `Unpredicted`, `Take` are a forecast, `Elsewhere` what the store does in between, `DemandRestart` a kill |
| `MC*` | the instances TLC runs | |
| `*Proofs` | theorems about the module they extend | |
| `LoopProofs` | theorems about `PlanLoop` and `TrainingCoordinator`, whose definitions carry the prefix `Training` so that one module can extend both | |
| `FoldTheorems` | facts about least members, minima, ranks, counts and sums of finite sets, which the proofs about plans, the sun and forecasts rest on | |

How they fit: `PlanLoop` proves that commands reach the adapter one at a time, which is why `FroniusControl` has one
call in flight; `Plan` of `PlanLoop` is where a whole call of `ScheduleOptimizer` takes place, synchronously, so that
nothing interleaves with it; `TrainingCoordinator!Settle` with verdict "promoted" is what `ModelStore!Promote` refines into
file-system calls; `Record` of `BacktestCache` is what `Plan` and `WhatIf` of `PlanLoop` leave in the tables the backtests
read; `FroniusControl` implements `BatteryOrder` through the mapping at the end of its module; `CommandTranslation` extends
`ScheduleOptimizer`, and the commands it makes are those of `BatteryOrder`; `PlanningInputs` and `DemandForecast` are the
awaited step `prepare` of `PlanLoop`, `WeatherCache` is what both ask for weather; `PlanningInputs` implements `GridFee`,
and `DemandForecast` implements `ModelStore`, whose actions it uses.

Abstractions. State of charge is a whole percent, `None` is null. A rule is its type, power, activity and whether its
window is all day, every day; the table is a set. Logging in, the digest handshake, logging out and the fallback URLs
are part of the request steps: they change no state a property mentions, and a failing one is a failing request. A
version of a model is a name for the contents of both files. A plan is the variant it was made from. What the gates
decide about a candidate is a choice among verdicts. `Continue` is a microtask in the code; the model lets other
events come before it, which allows more behaviours and never fewer.

In `ScheduleOptimizer` a charge is its step on the grid and a percentage is its step, as with the code's 100 steps and
ranges in whole percents. Energies are integers, slots are equally long, and money is counted in `Horizon`-ths so that
the average price is an integer; the tolerances of 1e-9 disappear with the fractions. The sun's direct use is taken off
before (`SlotProfiles`: a slot either still needs energy or has sun left). The efficiency curve is the constant `Bus`, of
which only losses are assumed: charging takes from the bus, and discharging gives no more than was stored. Of a mode's
parameters the charge target matters for the outcome, the others follow from the start of the slot. An entry keeps the
additional grid charge, which the code only adds up. The other totals of `buildSimulationOutput` are left out.

`CommandTranslation` keeps percentages in halves of a step, so that rounding has something to round; a battery has one
range for all modes, and only the modes' ranges, steps and presence matter, not their descriptions.

In `WeatherCache` an hour's row is there or not, and a series is one location and array. In `PlanningInputs` a price
is only compared, so it is a small number, and a slot is a window with its price; a document is a set of entries, and
what a client reads from the network is a choice among the published ones or a failure. The feed-in tariff and the
prices' units are left out.

In `HouseLoad` powers are whole numbers of some unit, weights (`exp` of an age) are tables, quotients are cut, and the standard
deviation is compared by its square; `SHAPE_CALIBRATION_BLEND` is 1 in the code, so the values of the first day are dealt
out anew (the README of the repository calls it light). What a model answers is a constant of the inputs: its
features, among them prices counted by slot and not by hour, are left out, and so is an entry's confidence.

In `BacktestCache` a state of charge is where it comes from: the day whose recorded value the chain starts with and the
configuration of each day simulated since. Two calls that would compute the same number get the same value, and two
that would not get different ones. A day's history is what the code asks of it: whether there are rows near both ends, whether an
interval can be simulated, and whether a price was recorded with one; a simulation takes a missing price for 0, while the worth
of a kWh cannot be derived without one. What a kWh left in the battery is worth is
settled, of half a day, or a plan's. A call is synchronous in the code; it has steps here so that a kill can come between them.

## Runs

| Run | Checks | Shows |
|---|---|---|
| `fronius_promise` | `KeepsPromise` | With requests that do not fail and an unchanged charge power, every command in every order, with restarts and owner's edits in between, sets the battery and the rules as ordered or leaves alone what already is so. Only one charge target: a new target while charging is not sent |
| `fronius_faults` | `BeliefIsTrue`, `UserRulesKept`, `FirstSyncIsExact`, `Recovers` | All request fates at every request, also a 200 answer without a body to read, and restarts into three configurations. When the trouble ends, calls come to their end, and the inverter follows the commands as soon as the mode changes; as long as it does not, the update that `fronius_skip_after_failure` shows may stay left out |
| `fronius_skip_after_failure` | `AlreadyAligned` (violated) | The battery was set by a call that later failed; the next command is compared with the call before it and skipped |
| `schedule` | `PlanStaysInRange`, `WithinPower`, `ModesDoAsPlanned`, `NoBatteryExport`, `PlanIsCheapest`, `ProjectionIsPlan`, `CommandIsAccepted`, `CommandFollowsPlan` | The cost found backwards is the least over all sequences of outcomes, enumerated forwards; the plan keeps the limits of the battery and those its modes have in the code; the announced cost is the plan's up to the small exchanges left out. The command made of its first slot is one the adapter accepts, and does not keep the battery from what the plan wants of it |
| `unset_maximum` | `UnsetMaximumIsFull` (violated) | Without a configured ceiling the plan never charges above the floor |
| `backtest_cache` | `CarriesSoc`, `Settled`, `SummaryIsFinal`, `Materialized` | Every order of page views, details, materialisations, new configurations and tariffs, and kills within a call, over recorded histories with and without intervals, ends and prices: a cached day continues the unbroken run of days before it, is stored when it is final and then stays, and is there by the second midnight or the next start. Complete days without a recorded price are the exception described below |
| `plan_loop` | `OneRunAtATime`, `NeverSilent`, `MessageIsShown`, `VariantTakesEffect` | Two windows, the timer, boot and crashes around the four awaits of a run; commands that succeed, return a message, or fail in silence |
| `training_checks` | `AtMostOneTrainer`, `StartedIsUnderWay`, `Bootstrapped` | Both jobs with every verdict, overlapping evaluations. Nothing but its own trainings' failures keeps the load model from a first version, and nothing but its own and the load model's the price model |
| `model_store_crash` | `CurrentIsWhole`, `RenamesSucceed`, `SwitchHasSpare`, `ServesAgain`, `OneModelThroughout`, `ToldAsMade`, `ShapeIsKept`, `HistoryIsFollowed` | A kill after any file copied, renamed or deleted, and builds that reject an installed model, while forecasts are made slot by slot: the store recovers; a forecast has one model, the metadata that are its own, the order of the model's slots with the sum of the last days, and a baseline within the history |
| `model_store_served` | `ServedAsLabelled` (violated) | After a promotion the forecast carries the new version's name and the old model's numbers |
| `weather_cache` | `WithinBudget`, `WholeUnlessFailed`, `QuietAfterRefusal`, `CooldownEnds` | Two callers at once, refusals, broken and partial answers, restarts and the turn of the hour between any two requests: the budget is kept by each process, a refusal is respected by every later one, an answer without a failure has all its hours, and the cooldown ends |
| `planning_inputs` | `TariffIsCurrent`, `MergedForecastIsBest`, `PlanPaysTheTariff`, `SunIsSharedOut` | The reads of a planning run with time going by, failures, restarts and edited configurations in between |

The violated properties are what a log line, a document or the README of the repository says; `PROJECT.json` quotes each.
A passing run next to them shows what does hold: `BeliefIsTrue` excludes exactly the calls that broke off and the
charge target, and `WithinPower` holds of every slot that is entered between floor and ceiling: the first slot of a plan
that starts below the floor is lifted to it by the clamp of `buildChargeDischargeOutcome`, without regard to the limits.

What the code does that a reader of the properties should know, because they are stated around it:

- Owner's rules (`UserRulesKept`). A rule of a type the parser does not know is dropped by every rewrite; an edit between the
  read and the write of one call is undone; and a 200 answer that is not JSON or has no `timeofuse` array is taken for an
  empty table (`extractTimeOfUseEntries`, `requestJson`), so that the write after it deletes all rules of the owner. After a
  restart with another charge power an active rule of the process before is nobody's and stays (`FirstSyncIsExact`).
- Failures in silence (`MessageIsShown`). Only an unsupported command and a rejected login return a message. After a timeout, a
  server error or an exception the stored plan looks as if it had been carried out.
- Waiting trainings (`Bootstrapped`). While the load model has no version it is trained again at once after each candidate that is
  rejected or waits for a promotion by hand, and the price model is not trained at all meanwhile.
- Removals (`CurrentIsWhole`). A seeding deletes an unusable `current` file by file; a kill in between leaves a part of it, which is
  unusable too, until the next seeding.
- Charging from the sun (`WithinPower`). The charge mode (`applyChargeScenario`) limits what it stores by
  `max_charge_power_w` only, also where all of it comes from the sun; `docs/power_flow.md` says that
  `max_charge_power_solar_w` caps it. The battery of the `schedule` run with a lower solar limit is planned above that cap.
- Fees by place (`PlanPaysTheTariff`). The list of fees is built before entries of one start are merged, and a slot takes the one
  at its own number: each entry dropped shifts the fees of the later slots by one, so that a plan may be made with the
  summer fee in a full-price hour or the other way round. It happens in the run. The dashboard shows the right fee.
  A `price.dynamic` configuration has no such list: all its slots have the fee of the instant the run began at.
- Days without prices (`CarriesSoc`, `SummaryIsFinal`). A complete day without a recorded price can be simulated, with prices of
  0, but gives the day before it no worth of its battery's content. The materialisation, which has no plan to take one from,
  then makes no entry of the day before and starts the day without prices from its own record; a page has the plan and
  carries on. Which of the two is stored depends on who came first, and the detail view replaces it.
- Sparse hours (`HistoryIsFollowed`). Hours with fewer than six readings count as hours of 2200 W, in the baseline as well.

Bounds. Commands: one or two of each mode, with targets absent, below, at and above the configured floor, because the
adapter compares a target only with the last one and with two limits. Two owner's rules: one that resembles a managed
rule except for its window and one the parser does not know. Fates of a request: carried out, answered without a body, lost,
carried out unanswered, unauthorised. Settings: integration on or off, power set or not; more
powers behave as the two. Three trained versions and a starter: one active, one in `current.previous`, one being
copied, one seeded. Three builds: one that accepts all versions, one that accepts the newest and its starter, one that
ships no starter. Demand forecasts: days of two hours of two ticks, weeks of two days, and six inputs: no history, a
steady one, two uneven ones, one with hours too few readings are of, one too short for a reference, with and without
a present power, in hours and in quarters; the three ways a manifest has its model's answers decoded. Two windows: one switches during the
other's run. Optimiser: three slots of five kinds (cheap and dear need, more and less sun, a negative price) in all
sequences, five charges, all starts, losses that grow with the power, and eight batteries and choices of modes: everything
allowed, no export, only automatic modes without grid charging, a floor above the ceiling, a battery that charges faster
from the sun than from the grid, no configured ceiling, and bounds between two steps; five of them are batteries as
configured, for which the commands are checked too, three are direct calls of the optimiser. Three slots let a decision depend on two later ones, five charges leave room below the floor
and above the ceiling; larger grids repeat these. Backtests: two recorded days of every shape and two more, two configurations and tariffs, one plan, pages of two days, two starts and
one observed tariff (the first configuration on record is fixed, as the two are alike, and the first day has no prices, which nobody
asks for: `MCInit`): a chain of two days with a gap before it, a day that becomes complete during the run, a
configuration that changes between two days, and an answer half from the cache; `TariffDays` reaches back before the
stored days. Weather: two callers, one of two series and one of one, limits of 2 requests per tick and 3 per
two ticks, cooldowns of 2 ticks after a refusal and 1 after a spent budget: a limit of each kind is reached, and the shorter cooldown
falls into the longer. Planning inputs: four providers, two of one priority, hours of two ticks, a month's end at 2 and a month's
and year's at 4, four configurations (area, option, the legacy form, a static fee), one pair of documents whose entries overlap, two
states of EVCC. `MaxOpen = 2` is the only bound that cuts behaviours: evaluations and continuations under way at a time;
two suffice for a result to be overwritten by an earlier job's. All runs finish with these bounds exhausted.

Fairness. A request of the adapter ends because the digest client sets an abort timer (`timeout_s`) and the planner
sends commands again and again (`WF` of `Apply` and of the request steps). A run's awaits end by abort timers or by the
HTTP client's own timeouts, a timeout that is set fires, and `restart: unless-stopped` in `docker-compose.yml` starts a
crashed process again (`PlanLoop`). A training ends: the code has no limit for it, so this is an assumption.
Synchronous file-system calls return (`ModelStore`), and the planner asks for a forecast every few minutes
(`DemandForecast`). Time goes by (`WF` of `Tick` in `WeatherCache`). In `BacktestCache` a synchronous call runs to its end and a dead
process is started again (`WF`); a timer that is due fires although requests keep coming (`SF` of `Startup` and
`Scheduled`), because every turn of the event loop looks at the timers. Nothing is assumed about how a request, a training or an
evaluation ends: the liveness properties say "if from some point on nothing goes wrong".

## Proofs

TLC checks the instances above; the theorems hold for every set of commands, settings, rules, versions, windows and
verdicts that satisfies the named assumptions of the module.

- `FroniusControlProofs`: `TypeCorrect`, `BeliefCorrect`, `OwnerRulesSafe`, `FirstSyncExact`. Types need that a hold
  command has a target (`CommandsAssumption`): then what is sent is a percentage (lemmas on `ChargeTarget`,
  `ResolveAutoFloor`, `Payload`). `BeliefIsTrue` is not inductive: a
  skipped update still overwrites `lastTarget`, so the invariant adds that the remembered target is one that building
  the payload leaves unchanged (`RememberedTargetIsFinal`), and that a call that did not skip has set the battery
  by the time it reads the rules (`CallSetsBattery`). `UserRulesKept` needs `ReadIsCurrent`: what was read of every
  rule that counts as read is still what the inverter holds when the write is due; and that an owner's rule is not an all-day one
  (`UserRulesAssumption`). `FirstSyncIsExact` needs the same for the all-day rules, which only the adapter writes.
  An owner's rule counts as unread from an edit inside a call, or a blank answer, to the next read that shows it as it is.
  `PromiseKept` is the refinement of `BatteryOrder`, the initial state and then one step for each action. It has three
  hypotheses, and each is needed: requests are answered (`ReliableRequests`, the subject of `fronius_skip_after_failure`),
  one charge power is configured (`OneChargePower`: a restart forgets that a rule of another power is its own) and charge
  commands have one target (`OneChargeTarget`: a new target while charging is not sent). `OrderInv` adds that every
  all-day rule on the inverter is one this or an earlier process wrote, and is remembered or read when it matters
  (`TableIsOwn`), and that a call that set the battery goes on to set the rules (`TornInCall`).
- `LoopProofs`, of the planning loop: `LoopTypes`, `RunsExclude`, `LoopGoesOn`, `MessageShown`. The inductive invariant is the
  conjunction of the four properties and `ApplyingOwnPlan`: while a caller's command is on its way, the latest
  snapshot is its own or the dashboard's, never another run's, and its outcome is not recorded yet. Exclusion is what
  makes the noted message the right one.
  Of the trainings: `TrainingTypes`, `OneTrainer`, `StartedSettles`. The three properties are inductive
  together: a child that exits is the trainer, so nobody else's process is forgotten.
- `ModelStoreProofs`: `TypeCorrect`, `ActiveIsWhole`, `NoRenameFails`, `SwitchIsSafe`. The invariant adds to the
  properties that `current.next` holds exactly the files copied so far of the version being promoted or seeded
  (`NextAsCopied`), that `current` never holds files of two versions, however much of it is gone (`OneVersion`), that this version is a whole one still (`SourceChosen`), that what was removed before a rename is
  still away when it comes (`TargetsFree`), and that a starter is only installed where nothing usable was found
  (`SeedsUnusable`). `StoreIsKept` is the refinement `DemandSpec => Spec`, by which these hold while forecasts are
  made, and `OneModelPredicts` says that all slots of a forecast are predicted by one model. It needs that `current` is there whenever a
  forecast waits, but between the two renames of a promotion, where nothing else runs (`ActiveIsThere`): so what is loaded for
  the first slot is a model, and stays (`KeptInMemory`). `ToldOfForecast` says the same of the metadata: while slots are
  predicted there is no forecast, and one that is there was made in one of three ways, each of which told of itself
  (`ToldInv`: `ByModel`, or `Instead` of a model for what the inspection or the runtime said), on a store that nothing changes
  before it is taken.
  From there `HistoryFollowed` and `ShapeKept` are about what the definitions of `HouseLoad` compute (`EntriesAre`). A
  mean, plain or weighted, lies between what it is a mean of (`MeanBetween`, `WeightedMeanBetween`), and so does a baseline, a mixture of
  means whose shares are 100 percent (`BaselineLies`). In a house that always used the same, baseline and neighbours agree, the bias
  is nothing, and by induction over the slots each keeps what comes before it between that power and its clamped value, where
  clamping cannot tell them apart (`PowerAgrees`, `HybridAgrees`). The ranks of slots and of the reference are those of two
  linear orders of the same finite set, so dealing out is one to one and monotone (`RanksAreAll`, `DealtIs`): the sum and
  the spread stay, and a spread that stays is not tempered (`SpreadIs`, `TemperedIs`). The named assumptions are those of the code's
  constants: divisors and weights are positive, `MIN_HOUSE_LOAD_W` is at most `MAX_HOUSE_LOAD_W`, the permitted deviation
  is no less than the reference's, slots start at different times. `WeightAssumption` asks that the tables of weights are
  fine enough for no neighbour's to be cut to nothing, which `exp` never is.
- `WeatherCacheProofs`: `TypeCorrect`, `BudgetIsKept`, `AnswersAreWhole`, `RefusalIsRespected`, for any callers, series, limits and windows.
  The invariant adds that the stored cooldown reaches at least as far as the last refusal asks for (`CooldownCoversRefusal`), and what
  each call has behind it: the series already looked at are in the rows or a request failed (`CallsInOrder`).
- `PlanningInputsProofs`: `TypeCorrect`, `ImplementsGridFee` (`Spec => FeeSpec`), `TariffStaysCurrent`, `MergeIsBest`,
  `PlanIsPricedRight`, for any calendar, configurations, providers, priorities and answers. `FeeInv` follows the run that reads the
  tariff (`Timed`, `WholeSinceStart`, `OptionsOrEdit`, `RunIsAlone`); `InputInv` says that the merged slots are, after each provider,
  those no better provider's slot overlaps (`MergedOf`), because providers come worst first (`WorstFirst`).
  For the fees by place the lists are shown to be linear orders (`ListIsOrder`; market slots of one start and end cannot be of two
  providers, `MergedIsApart`), so that each place in them is one entry's (`EachPlaceTaken`), and slots and places are counted
  against each other (`PlacesPart`): what lies between an entry and the slot at its number are no more slots than entries
  were dropped before. The one fee of a `price.dynamic` configuration is that of the run's beginning (`BaseStays`, `BaseIsNewest`).
  `SunSharedOut` needs what the code makes sure of, that no power is negative (`SunAssumption`). The slots of the merge
  are apart (`PlannedApart`), so an hour's instants are counted at most once over all slots (`SumOfDisjoint`); the sun of all slots
  is then exchanged for the sun of all hours (`SumExchange`).
- `ScheduleOptimizerProofs`: `TypeCorrect`, `RangeKept`, `PowerKept`, `ModesKept`, `ExportKept`, for any horizon, grid, loss
  curve and context that satisfy `GridAssumption`, `BusAssumption` and `ContextsAssumption`. `Sound(i, s, t)` states the
  bounds of a transition; the lemmas show it of every outcome of every mode (`SelfRunSound`, `ChargeSound`,
  `OutcomesSound`), of the fallback, and of what a rollout makes of it (`ReportedSound`). The invariant carries it through
  the loops: all table entries evaluated so far are sound (`PolicyIsSound`), all entries of the plan are (`PlanIsSound`), and
  the rollout stands where its last entry ended (`Progress`). No bound depends on which outcome was cheapest.
  Five more theorems say what the plan is worth and what is sent of it. `CheapestFound`: an evaluated table entry is the least
  cost of any transition there (`TableIsOptimal`), and by induction over the slots, backwards, the least over all sequences of
  outcomes `PlanIsCheapest` enumerates forwards (`EndsFold`, `CheapestIsInTable`). `ProjectionKept`: after each rolled out slot
  the sum so far and the table differ from the chosen cost by no more than the exchanges left out (`TotalIsPlan`).
  `CommandAccepted` and `CommandFollows`: entries follow on one another and are outcomes (`PlanIsChained`), so a leading run
  of charges rises; rounding is monotone and keeps what lies in the backend's range. They rest on `SentAssumption`, which
  `ConstrainedIsFitted` proves of every configuration, its bounds in any order or missing.
- `BacktestCacheProofs`: `TypeCorrect`, `SocIsCarried`, `OnlySettledDays`, `SummariesAreFinal`, for any number of days,
  configurations, tariffs, plans and restarts. What a summary depends on lies in the past, and no step changes it
  (`PastStays`, `NewRowIsForLaterDays`), so a right chain stays right (`SoundStays`). `Sound` is inductive for the cache and
  for the entries of the call together: a day starts from the cache, from the call, or, because `barren` days cannot be
  simulated (`BarrenInv`), from its own record where the chain really begins (`StartIsChained`). Two
  chains up to a day that begin with the same day are one (`SameBeginning`), and where prices are known all begin with the
  same (`OneChain`), so that what is stored twice is the same. A chain may begin with a complete day without prices as
  well, and when the next day has none the worth of the battery's content comes from the plan of the moment;
  `SummaryIsFinal` excludes both.
- `FoldTheorems`: `SumSplit`, `SumMonotone`, `SumExchange`, `SumOfDisjoint`, `SumBetween`, `SumPermuted`, `SumSquared`, `MinIs`,
  `MinMaxOfFinite`, `RanksAreAll` and what they rest on. A fold takes its operator
  as a parameter, and so do the library's induction theorems; here both are first-order: induction is over the least member of a
  family of subsets (`LeastSet`, `SubsetInduction`) or of a set of numbers (`LeastNat`), and a fold is the function that
  satisfies its recursion (`FoldExists`, `FoldAgrees`).

Checked by TLC only: the liveness properties, which need fairness. Every invariant that a passing run checks is
stated by a theorem.

## Not modelled

- The features of the load model, the confidence of its entries, the estimate of the battery's efficiency, the costs of
  the replay and of a backtested day, the totals and the texts of a plan: floating-point sums that no decision of the
  backend but the ones modelled as a choice depends on.
- The price model's artifact store and inference: the same rename protocol without a starter, which a build of
  `ModelStore` that ships none shows.
- The HTTP clients of price, weather and EVCC, the digest handshake, the database's migrations: input and output, seen as an
  answer that is there or not.
- The feed-in tariff: read in the same way as the grid fee, by other providers.
- The domain package's value classes, the dashboard, the Python training scripts and the container scripts.

## Plan

1. (done) The command path: `BatteryOrder`, `FroniusControl`, `PlanLoop`; the model life cycle:
   `TrainingCoordinator`, `ModelStore`; the optimiser: `ScheduleOptimizer`; the backtests: `BacktestCache`; their
   runs, and type and safety theorems of all of them.
2. (done) The inputs: `WeatherCache`; `GridFee`, `PriceForecast`, `PriceAnswers` and `PlanningInputs`; `HouseLoad` and
   `DemandForecast` on the model store; the ends of a plan: `CommandTranslation`. Where two of them answer one question they
   share a run.
3. (done) Theorems that compare a component with its promise: `FroniusControl` implements `BatteryOrder`; the plan is the
   cheapest, costs what is announced, and its command is accepted and followed; what is told of a forecast; the sun of the slots;
   what the demand forecast computes of a history.
4. Theorems left: how far the demand forecast of a house that varies can be from its baseline, and that the efficiency curve
   read from a configuration satisfies `BusAssumption`.
5. Left: the feed-in tariff, the state of charge a run without telemetry starts from, the battery's measured efficiency.
