---------------------------- MODULE DemandForecast ----------------------------
(***************************************************************************)
(* The demand forecast of a planning run (DemandForecastService) on top of *)
(* the model store: one slot after the other is predicted by the active    *)
(* model, while a promotion may replace it between two slots, or the       *)
(* history alone must do; and what the service tells of how the last       *)
(* forecast was made.                                                      *)
(*                                                                         *)
(* Only the planning run asks this service for forecasts, and runs exclude *)
(* each other: there is one forecast at a time.                            *)
(***************************************************************************)
EXTENDS ModelStore, HouseLoad

CONSTANTS
  Inputs,   \* what forecasts are made from
  Target,   \* for each version, what its answers are to be multiplied with or added to
  Nothing   \* no inputs, no metadata

\* Slots have different starts; readings and slots are of times whose conditions
\* are known or Unknown and whose ages have weights.
ASSUME InputsAssumption ==
  \A g \in Inputs :
    /\ IsFiniteSet(g.readings) /\ IsFiniteSet(g.eras)
    /\ g.now \in Nat /\ g.live \in Int
    /\ \A k \in 1 .. Cardinality(g.eras) : g.answers[k] \in Int
    /\ \A e \in g.eras : /\ e.start \in Nat
                         /\ \A c \in DOMAIN Scale : e.known[c] \in Int
                         /\ \A d \in g.eras : d.start = e.start => d = e
    /\ \A r \in g.readings :
         LET hour == HourOf(r.at)
         IN  /\ r.at \in Nat /\ r.home \in Int
             /\ \A c \in DOMAIN Scale : g.known[hour][c] \in Int
             /\ Age(g.now, hour) \in DOMAIN BaselineWeight
             /\ \A e \in g.eras : Age(HourOf(e.start), hour) \in DOMAIN NearbyWeight

ASSUME TargetAssumption == \A v \in Versions : Target[v] \in {"absolute", "delta", "ratio"}

VARIABLES
  given,    \* the inputs of the forecast under way
  models,   \* the models that predicted its slots so far
  entries,  \* the forecast, from when it is made until the run has it
  told,     \* lastRuntimeMetadata
  catboost  \* whether this process can load the CatBoost library

forecast == <<given, models, entries, told>>
demandVars == <<vars, forecast, catboost>>

Entries(c, powers, method, version) ==
  [k \in DOMAIN c.slots |->
     [start |-> c.slots[k].start, power |-> powers[k], baseline |-> c.baseline[k],
      method |-> method, version |-> version]]

\* What is computed from the inputs alone.
ContextOf == [g \in Inputs |-> Context(g)]

\* What buildForecast returns when there is no model's forecast; the one without
\* a history has the default power as its baseline.
FallbackMethod(g) == IF g.readings # {} THEN "hybrid" ELSE "cold"

Fallback ==
  [g \in Inputs |->
     LET c == ContextOf[g]
     IN  Entries(c,
                 IF g.readings # {} THEN Hybrid(c) ELSE [k \in DOMAIN c.slots |-> DefaultLoad],
                 FallbackMethod(g), Missing)]

ModelForecast ==
  [g \in Inputs |-> [version \in Versions |->
     LET c == ContextOf[g]
     IN  Entries(c, Shaped(c, Predicted(c, Target[version])), "catboost", version)]]

\* metadataFromInspection of a directory without a usable model
Inspected ==
  [method |-> "hybrid", version |-> Missing,
   reason |-> IF \E f \in Files : dir["current"][f] = Missing THEN "noArtifact"
              ELSE "mismatch"]

\* The artifact was there, but its model could not be run.
Blocked(version) == [method |-> "hybrid", version |-> version, reason |-> "noRuntime"]

Serving(version) == [method |-> "catboost", version |-> version, reason |-> "artifact"]

\* Mutant: the reason of the forecast before is told.
ToldAsBefore(how, method) ==
  [method |-> method,
   version |-> IF told = Nothing THEN Missing ELSE told.version,
   reason |-> IF told = Nothing THEN "noArtifact" ELSE told.reason]

\* buildFallbackMetadata, of what buildModelForecast has just noted
ToldFallback(how, method) == [how EXCEPT !.method = method]

DemandInit ==
  /\ Init
  /\ given = Nothing
  /\ models = <<>>
  /\ entries = <<>>
  /\ told = Nothing
  /\ catboost \in BOOLEAN

-----------------------------------------------------------------------------
FallBack(g, how) ==
  /\ given' = g
  /\ entries' = Fallback[g]
  /\ told' = ToldFallback(how, FallbackMethod(g))

\* The manifest is read, after a seeding if current was unusable.
Begin(g) ==
  /\ entries = <<>>
  /\ Inspect \/ SeedInstall
  /\ IF forecasting'
     THEN given' = g /\ UNCHANGED <<entries, told>>
     ELSE FallBack(g, Inspected)
  /\ UNCHANGED <<models, catboost>>

\* Prediction of one slot; after the last one the forecast is given its shape.
PredictSlot ==
  /\ catboost
  /\ Predict
  /\ models' = Append(models, cached')
  /\ forecasting' = (Len(models') < Cardinality(given.eras))
  /\ IF forecasting'
     THEN UNCHANGED <<entries, told>>
     ELSE entries' = ModelForecast[given][label] /\ told' = Serving(label)
  /\ UNCHANGED <<given, catboost>>

\* predict returns null.
Unpredicted ==
  /\ ~catboost
  /\ GiveUp
  /\ FallBack(given, Blocked(label))
  /\ UNCHANGED <<models, catboost>>

\* The planning run goes on with the forecast.
Take ==
  /\ entries # <<>>
  /\ given' = Nothing /\ models' = <<>> /\ entries' = <<>>
  /\ UNCHANGED <<vars, told, catboost>>

\* What else the store does; nothing of it looks at a forecast that is being
\* handed over.
Elsewhere ==
  /\ entries = <<>>
  /\ \/ \E v \in Candidates : Promote(v)
     \/ \E f \in Files : Copy(f)
     \/ ClearNext \/ ClearPrevious \/ Retire \/ Install \/ Tidy
     \/ Seed \/ SeedClear \/ SeedDrop
  /\ UNCHANGED <<forecast, catboost>>

DemandRestart ==
  /\ Restart
  /\ given' = Nothing /\ models' = <<>> /\ entries' = <<>> /\ told' = Nothing
  /\ catboost' \in BOOLEAN

DemandNext ==
  \/ \E g \in Inputs : Begin(g)
  \/ PredictSlot \/ Unpredicted \/ Take
  \/ Elsewhere
  \/ DemandRestart

DemandSpec == DemandInit /\ [][DemandNext]_demandVars

\* Synchronous calls return, awaited predictions resolve, and the planner asks
\* for a forecast every few minutes.
FairDemandSpec ==
  /\ DemandSpec
  /\ WF_demandVars(Elsewhere /\ \E f \in Files : Copy(f))
  /\ WF_demandVars(Elsewhere /\ (ClearNext \/ ClearPrevious \/ Retire \/ Install \/ Tidy))
  /\ WF_demandVars(Elsewhere /\ (Seed \/ SeedClear \/ SeedDrop))
  /\ WF_demandVars(\E g \in Inputs : Begin(g))
  /\ WF_demandVars(PredictSlot \/ Unpredicted)
  /\ WF_demandVars(Take)

-----------------------------------------------------------------------------
(* Properties                                                              *)

\* All slots of a forecast are predicted by one model, whatever is promoted
\* while they are predicted one by one.
OneModelThroughout ==
  \A i, j \in DOMAIN models : models[i] = models[j]

\* What the service tells of the last forecast is how that forecast was made: the
\* method and the version its entries have and, of a fallback, why it was one.
ToldAsMade ==
  entries # <<>> =>
    /\ \A k \in DOMAIN entries :
         /\ entries[k].method = told.method
         /\ entries[k].version # Missing => entries[k].version = told.version
    /\ (told.method = "catboost") = (told.reason = "artifact")
    /\ told.reason = "noRuntime" => ~catboost /\ told.version # Missing
    /\ told.reason = "mismatch" => dir["current"]["manifest"] \notin build.accepts
    /\ told.reason = "noArtifact" => \E f \in Files : dir["current"][f] = Missing

Firsts(c) == Cardinality(FirstDay(c.slots))

\* Where a model's forecast is given the shape of the last days, the order in
\* which the model put the slots stays, but for the first one, which follows the
\* present power; and without a present power the day has the sum of those days.
ShapeIsKept ==
  entries # <<>> /\ told.method = "catboost" =>
    LET c == ContextOf[given]
        before == Predicted(c, Target[told.version])
        ref == Reference(c)
    IN  /\ \A i, j \in 2 .. Firsts(c) :
             before[i] < before[j] => entries[i].power <= entries[j].power
        /\ (/\ given.live = Unknown
            /\ Firsts(c) >= EnoughSlots
            /\ ref # <<>>
            /\ \A k \in DOMAIN ref : ref[k] \in LeastLoad .. MostLoad) =>
              SumFunction([k \in 1 .. Firsts(c) |-> entries[k].power]) = SumFunction(ref)

\* Hours with too few readings count as hours of the default power.
Sparse(g, hour) == Cardinality({r \in g.readings : HourOf(r.at) = hour}) < EnoughReadings

\* What the house was read to use at an hour of the day, and the default power if
\* some of those hours are sparse
SeenAt(g, tick) ==
  LET same == {r \in g.readings : LocalHour(HourOf(r.at)) = LocalHour(HourOf(tick))}
  IN  {r.home : r \in same}
      \cup {DefaultLoad : r \in {q \in same : Sparse(g, HourOf(q.at))}}

\* The baseline of a slot is never outside of what the house was read to use at
\* that hour of the day, where the default power stands for the hours that have
\* too few readings and for an hour of the day without any; and a house that was
\* always read to use the same, often enough in each hour, is forecast to use that.
HistoryIsFollowed ==
  entries # <<>> =>
    LET At(k) == SeenAt(given, entries[k].start)
    IN  /\ \A k \in DOMAIN entries :
             IF At(k) = {} THEN entries[k].baseline = DefaultLoad
             ELSE Min(At(k)) <= entries[k].baseline /\ entries[k].baseline <= Max(At(k))
        /\ \A power \in {r.home : r \in given.readings} :
             /\ told.method = "hybrid"
             /\ \A r \in given.readings : r.home = power /\ ~Sparse(given, HourOf(r.at))
             /\ \A k \in DOMAIN entries : At(k) # {}
             /\ given.live \in {Unknown, power}
             => \A k \in DOMAIN entries : entries[k].power = Clamp(power)
=============================================================================
