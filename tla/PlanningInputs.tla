-------------------------- MODULE PlanningInputs ---------------------------
(***************************************************************************)
(* What a planning run plans with: seedFromConfig refreshes the grid fee   *)
(* (GridFee), and prepare collects EVCC's state, each price provider and   *)
(* the sun, one awaited request after the other, merges and cuts them and  *)
(* prices every slot.  Time goes by between the requests, each may fail,   *)
(* and the slots and their fees are joined by their place in a list.       *)
(***************************************************************************)
EXTENDS GridFee, PriceAnswers

CONSTANTS
  Published,    \* what may be read from each provider that publishes prices
  EvccStates,   \* the entries of all series EVCC's state may hold
  FromEvcc,     \* the provider that answers with EVCC's slots
  Entsoe,       \* the provider that reads the market's documents
  Guessing,     \* the providers that guess the prices of the coming hours
  SolarRows,    \* the sun on each array in each hour
  Calibrations  \* the powers a calibration may give the hours

VARIABLE input

vars == <<now, config, records, fees, edited, input>>

ASSUME EnergyAssumption ==
  /\ \A c \in Configs : c.energy \subseteq Providers /\ c.hourly \in BOOLEAN
  /\ FromEvcc \in Providers
  /\ \A t \in 0..Horizon : t \in DOMAIN HourStart
ASSUME ReadAssumption ==
  /\ \A S \in EvccStates :
       IsFiniteSet(S) /\ S \subseteq EvccEntries /\ \A e, f \in S : e.nth = f.nth => e = f
  /\ \A p \in Providers : \A S \in Published[p] : IsFiniteSet(S) /\ S \subseteq Read
\* The arrays are read for the same hours; powers below 0 are made 0.
ASSUME SunAssumption ==
  /\ \A rows \in SolarRows :
       /\ IsFiniteSet(rows) /\ \A r \in rows : r.from \in Nat /\ r.power \in Nat
       /\ \A q, r \in rows : q.from < r.from => q.from + Hour <= r.from
  /\ \A power \in Calibrations : \A rows \in SolarRows : \A r \in rows : power[r.from] \in Nat

\* None when the weather cannot be read; as forecast when the calibration fails.
SolarForecasts ==
  {{}} \cup UNION {{SunByHour(rows)} \cup {Calibrated(SunByHour(rows), c) : c \in Calibrations} :
                  rows \in SolarRows}

SolarHours == UNION SolarForecasts

Off == [stage |-> "off", evcc |-> {}, got |-> [p \in Providers |-> {}], asked |-> {},
        at |-> 0, laid |-> {}, merged |-> {}, ref |-> 0, sun |-> {}]

Inputs == [stage : {"off", "collect", "cut", "planned", "failed"}, evcc : SUBSET Entries,
           got : [Providers -> SUBSET Entries], asked : SUBSET Providers, at : 0..Horizon,
           laid : SUBSET Providers, merged : SUBSET Entries, ref : 0..Horizon,
           sun : SUBSET SolarHours]

TypeOK == FeeTypeOK /\ input \in Inputs

Init == FeeInit /\ input = Off

-----------------------------------------------------------------------------
(* Collecting                                                              *)

Configured == config.energy

CollectEvcc(state) ==
  /\ fees.stage = "refreshed" /\ input.stage = "off"
  /\ input' = [input EXCEPT !.stage = "collect", !.evcc = EvccSlots(FromEvcc, state), !.at = now]
  /\ UNCHANGED feeVars

\* The clock is read when the reply has come.
PublishedSlots(p, S) ==
  IF p = Entsoe THEN EntsoeSlots(p, S, now, config.hourly) ELSE Slots(p, Clamped(S, now))

\* A provider that fails, or that skips its forecast, gives none.
Answers(p) ==
  IF p = FromEvcc THEN {input.evcc}
  ELSE {{}} \cup (IF p \in Guessing THEN {GuessedSlots(p, input.at)}
                 ELSE {PublishedSlots(p, S) : S \in Published[p]})

\* The next provider is asked as soon as this one has answered.
CollectProvider(p, S) ==
  /\ input.stage = "collect" /\ p \in Configured \ input.asked
  /\ \A q \in Configured \ input.asked : q = p \/ AskedBefore(p, q)
  /\ S \in Answers(p)
  /\ input' = [input EXCEPT !.asked = @ \cup {p}, !.got[p] = S, !.at = now]
  /\ UNCHANGED feeVars

\* Mutant: the worst provider is laid over the others.
NextWorst(p) == \A q \in Configured \ input.laid : q = p \/ Better(p, q)

\* The worst provider comes first and the others are laid over it.
NextToLay(p) == \A q \in Configured \ input.laid : q = p \/ Better(q, p)

Lay(p) ==
  /\ input.stage = "collect" /\ input.asked = Configured
  /\ p \in Configured \ input.laid
  /\ NextToLay(p)
  /\ input' = [input EXCEPT !.laid = @ \cup {p}, !.merged = Overlay(@, input.got[p])]
  /\ UNCHANGED feeVars

\* referenceTimeMs: everything is cut at one instant, also what comes later.
Cut ==
  /\ input.stage = "collect" /\ input.laid = Configured
  /\ input' = [input EXCEPT !.stage = "cut", !.ref = now]
  /\ UNCHANGED feeVars

-----------------------------------------------------------------------------
(* The slots of the plan                                                   *)

FromMarket == Future(input.merged, input.ref) # {}

\* EVCC's slots serve when no provider has any left.
Canonical == Future(IF FromMarket THEN input.merged ELSE input.evcc, input.ref)

ListedBefore(e, f) == IF FromMarket THEN ByWindow(e, f) ELSE ByAnswer(e, f)

Start(e) == StartAt(e, input.ref)

Place(e) == Cardinality({f \in Canonical : ListedBefore(f, e)})

\* dedupeSlots: of the entries with one start the first is a slot.
Planned ==
  {e \in Canonical : \A f \in Canonical : Start(f) = Start(e) => ~ListedBefore(f, e)}

SlotPlace(e) == Cardinality({f \in Planned : Start(f) < Start(e)})

\* buildGridFeeScheduleFromForecast.  A price.dynamic configuration has become
\* one with a single fee by now, and gets no schedule.
Scheduled == config.kind = "e-control"

\* Mutant: the schedule is built before the forecast is cut.
FeeBySlotUncut(i) ==
  LET whole == IF FromMarket THEN input.merged ELSE input.evcc
      e == CHOOSE f \in whole : Cardinality({g \in whole : ListedBefore(g, f)}) = i
  IN  FeeAt(records, e.from, fees.base)

\* The fee at a place of the list of entries.
FeeBySlot(i) ==
  LET e == CHOOSE f \in Canonical : Place(f) = i
  IN  FeeAt(records, Start(e), fees.base)

\* prepareSimulationContext: the plan takes the fee at the slot's own place.
PlannedFee(e) == IF Scheduled THEN FeeBySlot(SlotPlace(e)) ELSE fees.base

\* buildForecastEras: the dashboard takes the fee of the slot's start.
ShownFee(e) == IF Scheduled THEN FeeAt(records, Start(e), fees.base) ELSE fees.base

-----------------------------------------------------------------------------
(* Planning                                                                *)

\* The solar forecast, or none when it failed; a run without any price slot
\* throws.
CollectSolar(sun) ==
  /\ input.stage = "cut"
  /\ input' = [input EXCEPT !.sun = sun,
                            !.stage = IF Canonical = {} THEN "failed" ELSE "planned"]
  /\ UNCHANGED feeVars

Finish == input.stage \in {"planned", "failed"} /\ EndRun /\ input' = Off

Restart == Reconfigure /\ input' = Off

Next ==
  \/ (BeginRun \/ Fetched \/ FetchFailed \/ Tick) /\ UNCHANGED input
  \/ \E state \in EvccStates \cup {{}} : CollectEvcc(state)
  \/ \E p \in Configured : \E S \in Answers(p) : CollectProvider(p, S)
  \/ \E p \in Configured : Lay(p)
  \/ Cut
  \/ \E sun \in SolarForecasts : CollectSolar(sun)
  \/ Finish
  \/ Restart

Spec == Init /\ [][Next]_vars

-----------------------------------------------------------------------------
(* Properties                                                              *)

Covers(p, e) == \E o \in input.got[p] : Overlap(o, e)

\* The merged forecast has every slot of every provider but those that
\* overlap, if only in part, a slot of a better provider; so a gap in it lies
\* where a slot was dropped for another that covers less.
MergedForecastIsBest ==
  input.stage \in {"cut", "planned", "failed"} =>
    input.merged = UNION {{e \in input.got[p] :
                             \A q \in Providers : Better(q, p) => ~Covers(q, e)} : p \in Providers}

\* The fee of an instant: that of the newest row in force then, low in the summer
\* hours if the row says so, read in the month of the run unless the reading failed.
IsFeeAt(fee, t) ==
  \E r \in records :
    /\ fee = FeeOf(r, t)
    /\ r.at <= t /\ \A s \in InForce(records, t) : ~Before(r, s)
    /\ fees.ok => r.at = YearStart[fees.since] /\ MonthOf[r.seen] = MonthOf[fees.since]

InOrder == \A e, f \in Canonical : ListedBefore(e, f) => Start(e) <= Start(f)

\* The entries listed before a slot that did not become slots.
DroppedBefore(e) == {f \in Canonical \ Planned : ListedBefore(f, e)}

SlotsFromTo(s, t) == {g \in Planned : s < Start(g) /\ Start(g) <= t}

\* The dashboard shows each slot with the fee of its own start.  The plan is made
\* with the fee of an earlier slot, as many slots back at most as entries listed
\* before it were dropped for another of the same start, for the places in the
\* list of fees still count those; so it is the slot's own fee if there are none.
\* This is said of the lists of the market and of those of EVCC that are in
\* order; in another one of EVCC's a slot may have the fee of any other.  A
\* price.dynamic configuration plans and shows all slots with one fee, that of the
\* instant the run began at, low if that was a summer hour.
PlanPaysTheTariff ==
  input.stage = "planned" /\ records # {} =>
    /\ config.kind = "legacy" =>
         /\ IsFeeAt(fees.base, fees.since)
         /\ \A e \in Planned : PlannedFee(e) = fees.base /\ ShownFee(e) = fees.base
    /\ config.kind = "e-control" => \A e \in Planned :
         /\ IsFeeAt(ShownFee(e), Start(e))
         /\ \E f \in Canonical :
              /\ IsFeeAt(PlannedFee(e), Start(f))
              /\ FromMarket \/ InOrder =>
                   /\ Start(f) <= Start(e)
                   /\ Cardinality(SlotsFromTo(Start(f), Start(e))) <= Cardinality(DroppedBefore(e))

Apart(S) == \A e, f \in S : e # f => ~Overlap(e, f)

Within(e, s) == s.from <= e.from /\ e.to <= s.to

\* If no provider's slots overlap each other, the plan spends no more sun than
\* is forecast from the present on; and a slot within one solar hour shows the
\* sun it is planned with.
SunIsSharedOut ==
  input.stage = "planned" /\ Apart(input.evcc) /\ (\A p \in Providers : Apart(input.got[p])) =>
    /\ SumFunction([e \in Planned |-> PlannedSun(e, input.sun, input.ref)])
         <= SumFunction([s \in Future(input.sun, input.ref) |->
                           s.power * (s.to - StartAt(s, input.ref))])
    /\ \A e \in Planned : (\E s \in input.sun : Within(e, s)) =>
         ShownSun(e, input.sun, input.ref) = PlannedSun(e, input.sun, input.ref)
=============================================================================
