------------------------------ MODULE HouseLoad ------------------------------
(***************************************************************************)
(* What the house will use, slot by slot (demand-forecast.service.ts): the *)
(* hours of the history, the baseline of an hour, the forecast without a   *)
(* model, and the shape a model's forecast is given.                       *)
(*                                                                         *)
(* Powers are numbers of some unit, shares are percent, and a quotient is  *)
(* cut to a whole number.  Time is counted in ticks, HourTicks to the hour;*)
(* the n-th hour starts at HourTicks * n and day 0 with hour 0.            *)
(***************************************************************************)
EXTENDS Integers, Sequences, FiniteSets, FiniteSetsExt, Functions, SequencesExt

CONSTANTS
  HourTicks, DayHours, WeekDays,   \* how time is divided
  Weekend,        \* the weekdays of the weekend
  Season,         \* the season of each day
  Scale,          \* for each known condition of an hour, what makes two differ by 1
  LoadScale,      \* the same for the power of the house
  BaselineWeight, \* weights by age in days, for the baselines
  NearbyWeight,   \* and for the neighbours
  MaxNeighbors,
  LeastLoad, MostLoad, DefaultLoad,
  EnoughReadings, \* readings that make an hour valid
  RecentDays, EnoughHours, EnoughSlots, \* what the shape needs
  MaxSpread       \* <<m, n>>: the shape's deviation is at most m/n of the reference's

ASSUME TimeAssumption == {HourTicks, DayHours, WeekDays} \subseteq Nat \ {0}

ASSUME PowerAssumption ==
  /\ {LeastLoad, MostLoad, DefaultLoad} \subseteq Nat
  /\ LeastLoad <= MostLoad

ASSUME ScaleAssumption ==
  /\ IsFiniteSet(DOMAIN Scale)
  /\ Scale \in [DOMAIN Scale -> Nat \ {0}]
  /\ LoadScale \in Nat \ {0}

\* exp gives every age a weight; those of the neighbours are counted so finely that
\* none of them is cut to nothing by the greatest distance.
ASSUME WeightAssumption ==
  /\ \A age \in DOMAIN BaselineWeight : BaselineWeight[age] \in Nat \ {0}
  /\ \A age \in DOMAIN NearbyWeight :
       /\ NearbyWeight[age] \in Nat
       /\ 100 * NearbyWeight[age] >= 475 + 200 * Cardinality(DOMAIN Scale)

ASSUME EnoughAssumption ==
  /\ {EnoughReadings, MaxNeighbors} \subseteq Nat \ {0}
  /\ {EnoughHours, EnoughSlots} \subseteq Nat

\* The shape of the day may be as uneven as its reference.
ASSUME SpreadAssumption ==
  /\ {MaxSpread[1], MaxSpread[2]} \subseteq Nat \ {0}
  /\ MaxSpread[2] <= MaxSpread[1]

Unknown == -1

HourOf(tick) == tick \div HourTicks
DayOf(hour) == hour \div DayHours
LocalHour(hour) == hour % DayHours
Weekday(hour) == DayOf(hour) % WeekDays

Clamp(power) == Max({LeastLoad, Min({power, MostLoad})})
Mean(f) == SumFunction(f) \div Cardinality(DOMAIN f)
WeightedMean(f, weight) ==
  SumFunction([x \in DOMAIN f |-> f[x] * weight[x]]) \div SumFunction(weight)
Last3(s) == SubSeq(s, Max({1, Len(s) - 2}), Len(s))

-----------------------------------------------------------------------------
(* The inputs of a forecast are the readings of the house, what is known of *)
(* each hour, the coming slots, the present power and the present hour.     *)

\* Those of a set, by their key
InOrder(set, key) ==
  [i \in 1 .. Cardinality(set) |->
     CHOOSE x \in set : Cardinality({y \in set : key[y] < key[x]}) = i - 1]

\* buildHistoricalHours, aggregateHistoryByHour: an hour with too few readings
\* counts as an hour of the default power.
HourRow(g, hour) ==
  LET here == {r \in g.readings : HourOf(r.at) = hour}
      enough == Cardinality(here) >= EnoughReadings
  IN  [hour |-> hour,
       home |-> IF enough
                THEN Mean([r \in here |-> r.home])
                ELSE DefaultLoad,
       valid |-> enough,
       known |-> g.known[hour]]

History(g) ==
  LET rows == {HourRow(g, HourOf(r.at)) : r \in g.readings}
  IN  InOrder(rows, [row \in rows |-> row.hour])

Age(later, earlier) == Max({0, later - earlier}) \div DayHours

\* weightedAverage, buildWeightedAverageMap
Weighted(rows, now) ==
  WeightedMean([r \in rows |-> r.home], [r \in rows |-> BaselineWeight[Age(now, r.hour)]])

\* Mutant: the shares of the three are kept when one is missing.
BaselineUnscaled(hour, rows, now) ==
  LET hourOnly == {r \in rows : LocalHour(r.hour) = LocalHour(hour)}
      hourWeek == {r \in hourOnly : Weekday(r.hour) = Weekday(hour)}
      seasonHour == {r \in hourOnly : Season[DayOf(r.hour)] = Season[DayOf(hour)]}
      Part(share, some) == IF some = {} THEN 0 ELSE share * Weighted(some, now)
  IN  IF hourOnly = {} THEN DefaultLoad
      ELSE (Part(55, hourWeek) + Part(25, seasonHour) + Part(20, hourOnly)) \div 100

\* buildBaselines, predictBaselineHousePower: an hour of a weekday or of a season
\* is an hour of the day.
Baseline(hour, rows, now) ==
  LET hourOnly == {r \in rows : LocalHour(r.hour) = LocalHour(hour)}
      hourWeek == {r \in hourOnly : Weekday(r.hour) = Weekday(hour)}
      seasonHour == {r \in hourOnly : Season[DayOf(r.hour)] = Season[DayOf(hour)]}
      Of(some) == Weighted(some, now)
  IN  CASE hourOnly = {} -> DefaultLoad
        [] hourWeek # {} /\ seasonHour # {} ->
             (55 * Of(hourWeek) + 25 * Of(seasonHour) + 20 * Of(hourOnly)) \div 100
        [] hourWeek # {} /\ seasonHour = {} ->
             (70 * Of(hourWeek) + 30 * Of(hourOnly)) \div 100
        [] hourWeek = {} /\ seasonHour # {} ->
             (60 * Of(seasonHour) + 40 * Of(hourOnly)) \div 100
        [] OTHER -> Of(hourOnly)

\* computeRecentBias
RecentBias(history, now) ==
  LET recent == Last3(history)
  IN  Mean([i \in DOMAIN recent |->
              recent[i].home - Baseline(recent[i].hour, ToSet(history), now)])

\* toForecastContext of every era, with what is computed once for all slots
Context(g) ==
  LET slots == InOrder(g.eras, [era \in g.eras |-> era.start])
      history == History(g)
  IN  [slots |-> slots,
       history |-> history,
       baseline |-> [k \in DOMAIN slots |->
                       Baseline(HourOf(slots[k].start), ToSet(history), g.now)],
       bias |-> IF history = <<>> THEN 0 ELSE RecentBias(history, g.now),
       live |-> g.live,
       answers |-> g.answers]

-----------------------------------------------------------------------------
(* buildHybridFallbackForecast                                             *)

\* normalizedDistance, in percent
Apart(a, b, scale) ==
  IF Unknown \in {a, b} THEN 15
  ELSE Min({200, (100 * (IF a > b THEN a - b ELSE b - a)) \div scale})

HourApart(a, b) == LET d == IF a > b THEN a - b ELSE b - a IN Min({d, DayHours - d})

Distance(row, slot, lag1, lag3) ==
  LET hour == HourOf(slot.start)
      day == Weekday(row.hour)
      slotDay == Weekday(hour)
  IN  (200 * HourApart(LocalHour(row.hour), LocalHour(hour))) \div DayHours
      + (CASE day = slotDay -> 0
           [] day # slotDay /\ (day \in Weekend <=> slotDay \in Weekend) -> 20
           [] OTHER -> 45)
      + (IF Season[DayOf(row.hour)] = Season[DayOf(hour)] THEN 0 ELSE 30)
      + SumFunction([c \in DOMAIN Scale |-> Apart(row.known[c], slot.known[c], Scale[c])])
      + (30 * Apart(row.home, lag1, LoadScale)) \div 100
      + (20 * Apart(row.home, lag3, LoadScale)) \div 100

\* predictFromNeighbors
FromNeighbors(history, slot, lag1, lag3) ==
  LET Likeness(i) ==
        (100 * NearbyWeight[Age(HourOf(slot.start), history[i].hour)])
        \div (100 + Distance(history[i], slot, lag1, lag3))
      likeness == [i \in DOMAIN history |-> Likeness(i)]
      Closer(i, j) == likeness[i] > likeness[j] \/ (likeness[i] = likeness[j] /\ i < j)
      nearest == {i \in DOMAIN history :
                    Cardinality({j \in DOMAIN history : Closer(j, i)}) < MaxNeighbors}
  IN  WeightedMean([i \in nearest |-> history[i].home], [i \in nearest |-> likeness[i]])

\* The powers forecast so far follow those of the last three hours: each slot
\* looks back at the three before it.
HybridPower(c, rolling, k) ==
  LET lag1 == rolling[Len(rolling)]
      lag3 == Mean(Last3(rolling))
      power == (50 * c.baseline[k]
                + 35 * FromNeighbors(c.history, c.slots[k], lag1, lag3)
                + 15 * lag3
                + 40 * c.bias) \div 100
  IN  Clamp(IF k = 1 /\ c.live # Unknown THEN (55 * power + 45 * c.live) \div 100
            ELSE power)

Rolling(c) ==
  LET recent == Last3(c.history)
      rolling[k \in 0 .. Len(c.slots)] ==
        IF k = 0 THEN [i \in DOMAIN recent |-> recent[i].home]
        ELSE Append(rolling[k - 1], HybridPower(c, rolling[k - 1], k))
  IN  rolling[Len(c.slots)]

Hybrid(c) == [k \in DOMAIN c.slots |-> Rolling(c)[Len(Last3(c.history)) + k]]

-----------------------------------------------------------------------------
(* calibrateForecastShape                                                  *)

\* selectCalibrationIndices: the slots of the first day
FirstDay(slots) ==
  {k \in DOMAIN slots : slots[k].start < slots[1].start + HourTicks * DayHours}

\* buildRecentShapeReference: the means of the last valid hours of each hour of
\* the day, or nothing if there are too few.
Reference(c) ==
  LET recent == {r \in ToSet(c.history) :
                   /\ r.valid
                   /\ r.hour > c.history[Len(c.history)].hour - RecentDays * DayHours}
      Of(k) == {r \in recent : LocalHour(r.hour) = LocalHour(HourOf(c.slots[k].start))}
  IN  IF \/ Cardinality(recent) < EnoughHours
         \/ \E k \in FirstDay(c.slots) : Of(k) = {}
      THEN <<>>
      ELSE [k \in FirstDay(c.slots) |->
              Mean([r \in Of(k) |-> r.home])]

\* Mutant: the reference is not sorted before it is dealt out.
DealtUnsorted(s, ref) ==
  [k \in DOMAIN s |->
     IF k \notin DOMAIN ref THEN s[k]
     ELSE Clamp(ref[1 + Cardinality({j \in DOMAIN ref :
                                       s[j] < s[k] \/ (s[j] = s[k] /\ j < k)})])]

\* The slot with the n-th least power is given the n-th least of the reference.
Dealt(s, ref) ==
  LET Rank(f, k) == Cardinality({j \in DOMAIN ref : f[j] < f[k] \/ (f[j] = f[k] /\ j < k)})
  IN  [k \in DOMAIN s |->
         IF k \notin DOMAIN ref THEN s[k]
         ELSE Clamp(ref[CHOOSE j \in DOMAIN ref : Rank(ref, j) = Rank(s, k)])]

Anchored(s, live) ==
  IF live = Unknown THEN s ELSE [s EXCEPT ![1] = Clamp((70 * s[1] + 30 * live) \div 100)]

\* The square of the standard deviation, times the square of how many there are
Spread(s) ==
  Cardinality(DOMAIN s) * SumFunction([k \in DOMAIN s |-> s[k] * s[k]])
  - SumFunction(s) * SumFunction(s)

\* The factor of the deviations is cut to tenths.
Tempered(s, ref) ==
  LET day == [k \in DOMAIN ref |-> s[k]]
      most == MaxSpread[1] * MaxSpread[1] * Spread(ref)
      has == MaxSpread[2] * MaxSpread[2] * Spread(day)
      center == Mean(day)
      tenths == Max({t \in 0 .. 9 : t * t * has <= 100 * most})
  IN  IF Spread(ref) = 0 \/ has <= most THEN s
      ELSE [k \in DOMAIN s |->
              IF k \in DOMAIN ref THEN Clamp(center + ((s[k] - center) * tenths) \div 10)
              ELSE s[k]]

Shaped(c, s) ==
  LET ref == Reference(c)
  IN  IF Cardinality(FirstDay(c.slots)) < EnoughSlots \/ ref = <<>> THEN s
      ELSE Tempered(Anchored(Dealt(s, ref), c.live), ref)

-----------------------------------------------------------------------------
(* buildModelForecast: what a model's answers become                        *)

Decoded(answer, baseline, target) ==
  CASE target = "absolute" -> answer
    [] target = "delta" -> baseline + answer
    [] target = "ratio" -> (baseline * Max({20, Min({answer, 300})})) \div 100

Predicted(c, target) ==
  Anchored([k \in DOMAIN c.slots |-> Clamp(Decoded(c.answers[k], c.baseline[k], target))],
           c.live)
=============================================================================
