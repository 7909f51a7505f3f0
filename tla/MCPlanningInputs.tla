------------------------- MODULE MCPlanningInputs --------------------------
(* Four providers, two of them with one priority; hours of two ticks.  A     *)
(* month ends at 2, a month and a year at 4.                                 *)
EXTENDS PlanningInputs

MCTimes == 0..7
MCMonthOf == [t \in MCTimes |-> IF t < 2 THEN 0 ELSE IF t < 4 THEN 1 ELSE 2]
MCYearStart == [t \in MCTimes |-> IF t < 4 THEN 0 ELSE 4]
MCSnapTimes == {3, 4}

All == {"awattar", "entsoe", "from_evcc", "guess"}
MCConfigs ==
  {[kind |-> "e-control", area |-> "tirol", snap |-> TRUE, hourly |-> FALSE,
    energy |-> {"awattar", "entsoe", "from_evcc"}],
   [kind |-> "e-control", area |-> "wien", snap |-> FALSE, hourly |-> TRUE,
    energy |-> {"entsoe", "guess"}],
   [kind |-> "legacy", area |-> "wien", snap |-> TRUE, hourly |-> FALSE, energy |-> {"entsoe"}],
   [kind |-> "static", area |-> "wien", snap |-> TRUE, hourly |-> FALSE, energy |-> {"from_evcc"}]}

MCProviders == All
MCPriority == [awattar |-> 1, entsoe |-> 2, from_evcc |-> 2, guess |-> 3]
MCPosition == [awattar |-> 1, entsoe |-> 2, from_evcc |-> 3, guess |-> 4]
MCHourStart == [t \in MCTimes |-> t - (t % 2)]

Entry(n, from, to, price) == [from |-> from, to |-> to, nth |-> n, price |-> price]
State(series, n, from, to, price) ==
  [series |-> series, priced |-> series = "feedin", from |-> from, to |-> to, nth |-> n,
   price |-> price]

\* Whole hours; half hours that begin and end within other providers' hours, one
\* of them in two documents.
MCPublished ==
  [awattar |-> {{Entry(1, 0, 2, 1), Entry(2, 2, 4, 1)}},
   entsoe |-> {{Entry(1, 1, 2, 1), Entry(2, 3, 4, 1), Entry(3, 4, 6, 2), Entry(4, 4, 5, 1)}},
   from_evcc |-> {}, guess |-> {}]

\* EVCC's grid and planner series, one entry in both; and other series.
MCEvccStates ==
  {{State("grid", 1, 0, 2, 1), State("grid", 2, 2, 3, 1), State("grid", 3, 3, 5, 2),
    State("planner", 4, 2, 3, 1), State("co2", 5, 0, 1, 1)},
   {State("grid", 1, 2, 4, 1), State("grid", 2, 4, 6, 1), State("planner", 3, 2, 3, 1),
    State("feedin", 4, 3, 4, 1), State("soc", 5, 1, 2, 1)}}

MCSolarRows ==
  {{[array |-> a, from |-> h, power |-> IF a = "east" THEN 1 ELSE h] :
      a \in {"east", "west"}, h \in {0, 2, 4}}}
MCCalibrations == {[h \in {0, 2, 4} |-> 1]}
=============================================================================
