---------------------------- MODULE PriceAnswers ----------------------------
(***************************************************************************)
(* From a reply to price slots: what each provider makes of what it reads  *)
(* (awattar, entsoe_new, synthetic and statistical.provider.ts), and the   *)
(* same of EVCC's state (parseEvccState) and of the hourly sun             *)
(* (open-meteo-solar-forecast and solar-forecast-calibration.service.ts).  *)
(*                                                                         *)
(* A read entry has a price, to be compared only; a slot is without it.    *)
(***************************************************************************)
EXTENDS PriceForecast

CONSTANTS
  Hour,       \* an hour, in ticks
  Reach,      \* max_hours of the clamped forecasts, in ticks
  HourStart,  \* the start of the hour of an instant
  GuessHours  \* max_hours of the guessed prices

ASSUME HourAssumption ==
  /\ Hour \in Nat \ {0} /\ Reach \in Nat /\ GuessHours \in Nat
  /\ \A t \in DOMAIN HourStart : HourStart[t] \in Nat /\ HourStart[t] <= t /\ t < HourStart[t] + Hour

Entries == {e \in [from : Nat, to : Nat, nth : Nat, by : Providers] : e.from < e.to}

Read ==
  {e \in [from : Nat, to : Nat, nth : Nat, price : Int] :
     e.from < e.to /\ e.from \in DOMAIN HourStart}

SlotOf(p, e) == [from |-> e.from, to |-> e.to, nth |-> e.nth, by |-> p]

Slots(p, S) == {SlotOf(p, e) : e \in S}

\* clampHorizon: what began more than an hour ago, or begins too late, is dropped.
Clamped(S, t) == {e \in S : t - Hour <= e.from /\ e.from <= t + Reach}

Cheaper(e, f) == e.price < f.price \/ (e.price = f.price /\ e.nth < f.nth)

\* dedupeByStart: overlapping documents; of one start the cheapest, then the first.
CheapestByStart(S) == {e \in S : \A f \in S : f.from = e.from /\ f # e => Cheaper(e, f)}

HourSlot(p, h) == [from |-> h, to |-> h + Hour, nth |-> h, by |-> p]

\* aggregateToHourly: a slot is in the hour it begins in, and the hour is whole.
ByHour(p, S) == {HourSlot(p, HourStart[e.from]) : e \in S}

EntsoeSlots(p, S, t, hourly) ==
  LET kept == CheapestByStart(Clamped(S, t)) IN
  IF hourly THEN ByHour(p, kept) ELSE Slots(p, kept)

\* ceilToUtcHour.
NextHour(t) == IF HourStart[t] = t THEN t ELSE HourStart[t] + Hour

\* The coming hours, from the time the request was made, whatever weather is
\* known of them.
GuessedSlots(p, t) == {HourSlot(p, NextHour(t) + n * Hour) : n \in 0..(GuessHours - 1)}

-----------------------------------------------------------------------------
(* EVCC's state                                                            *)

EvccEntries ==
  {e \in [series : STRING, priced : BOOLEAN, from : Nat, to : Nat, nth : Nat, price : Int] :
     e.from < e.to}

\* The grid's and the planner's series are prices by their name, another one
\* by its units, and CO2 never.
IsPrice(e) == e.series \in {"grid", "planner"} \/ (e.priced /\ e.series # "co2")

Same(e, f) == e.from = f.from /\ e.to = f.to /\ e.price = f.price

\* dedupeForecastEntries: of equal entries the first stays.
EvccSlots(p, state) ==
  Slots(p, {e \in state : IsPrice(e) /\
              \A f \in state : IsPrice(f) /\ Same(e, f) => e.nth <= f.nth})

-----------------------------------------------------------------------------
(* The sun                                                                 *)

\* The arrays are added up, and hours without sun are left out.
SunByHour(rows) ==
  {s \in {[from |-> r.from, to |-> r.from + Hour,
           power |-> SumFunctionOnSet([q \in rows |-> q.power],
                                      {q \in rows : q.from = r.from})] : r \in rows} : s.power > 0}

\* calibrateForecast gives an hour another power and leaves it where it is.
Calibrated(sun, power) == {[s EXCEPT !.power = power[s.from]] : s \in sun}
=============================================================================
