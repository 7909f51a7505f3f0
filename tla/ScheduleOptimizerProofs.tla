---------------------- MODULE ScheduleOptimizerProofs ----------------------
(***************************************************************************)
(* Theorems about ScheduleOptimizer for every horizon, grid, loss curve    *)
(* and every context prepareSimulationContext may return.                  *)
(*                                                                         *)
(* What holds of every outcome a mode can have (Sound) is carried into the *)
(* tables by Evaluate and from the tables into the plan by RollOut.        *)
(***************************************************************************)
EXTENDS CommandTranslation, FoldTheorems

\* The bounds a transition from charge s in slot i keeps.
Sound(i, s, t) ==
  /\ InRange(s) =>
       /\ InRange(t.next)
       /\ Bus[t.next - s] <= (IF t.mode = "charge" THEN context.gridLimit ELSE SolarLimit(i))
       /\ -Bus[t.next - s] <= AtMost(context.dischargeLimit, Deficit(i))
       /\ t.extra > 0 => t.mode = "charge"
       /\ t.mode \in {"hold", "charge"} => t.next >= s
       /\ t.mode = "limit" => t.next <= s
  /\ ~context.allowExport => t.grid >= AtMost(0, Baseline(i))

Evaluated(i, s) == phase = "back" => i > index \/ (i = index /\ s < soc)

PolicyIsSound ==
  \A i \in Slots, s \in Steps : Evaluated(i, s) => Sound(i, s, policy[i][s])

PlanIsSound ==
  \A k \in DOMAIN entries : k \in Slots /\ Sound(k, entries[k].from, entries[k])

Progress ==
  /\ phase = "back" => Len(entries) = 0
  /\ phase = "roll" => Len(entries) = index - 1
  /\ phase # "back" /\ InRange(context.start) => InRange(soc)

IInv ==
  /\ context \in Contexts
  /\ TypeOK
  /\ PolicyIsSound
  /\ PlanIsSound
  /\ PlanStaysInRange
  /\ Progress

-----------------------------------------------------------------------------
(* The inputs                                                              *)

LEMMA ContextFacts ==
  ASSUME context \in Contexts
  PROVE  /\ \A i \in Slots : /\ context.profiles[i] \in SlotProfiles
                             /\ Price(i) \in Int /\ Baseline(i) \in Int
                             /\ Surplus(i) \in Nat /\ Deficit(i) \in Nat
                             /\ SolarLimit(i) \in Nat
                             /\ context.profiles[i].feedIn \in Int
         /\ context.start \in Steps
         /\ context.autoFloor \in Steps
         /\ context.floor \in Steps
         /\ context.ceiling \in Steps
         /\ context.floor <= context.ceiling
         /\ context.gridLimit \in Nat
         /\ context.solarLimit \in Nat
         /\ context.dischargeLimit \in Nat
         /\ context.avgPrice \in Int
<1>1. \A i \in Slots : context.profiles[i] \in SlotProfiles
  BY ContextsAssumption
<1>2. /\ context.start \in Steps
      /\ context.autoFloor \in Steps
      /\ context.floor \in Steps
      /\ context.ceiling \in Steps
      /\ context.floor <= context.ceiling
      /\ context.gridLimit \in Nat
      /\ context.solarLimit \in Nat
      /\ context.dischargeLimit \in Nat
      /\ context.avgPrice \in Int
  BY ContextsAssumption
<1>3. ASSUME NEW i \in Slots
      PROVE  /\ Price(i) \in Int /\ Baseline(i) \in Int
             /\ Surplus(i) \in Nat /\ Deficit(i) \in Nat
             /\ SolarLimit(i) \in Nat
             /\ context.profiles[i].feedIn \in Int
  BY <1>1, <1>2 DEF SlotProfiles, Price, Baseline, Surplus, Deficit, SolarLimit, AtLeast, AtMost
<1> QED BY <1>1, <1>2, <1>3

LEMMA GridFacts ==
  /\ Top \in Nat /\ Top > 0
  /\ StepEnergy \in Nat /\ StepEnergy > 0
  /\ Horizon \in Nat /\ Horizon > 0
  /\ Threshold \in Nat
BY GridAssumption

\* The change between two charges is one that Bus knows.
LEMMA BusFacts ==
  ASSUME NEW s \in Steps, NEW n \in Steps
  PROVE  /\ Bus[n - s] \in Int
         /\ n = s => Bus[n - s] = 0
         /\ n > s => Bus[n - s] > 0
         /\ n < s => Bus[n - s] <= 0 /\ -Bus[n - s] <= (s - n) * StepEnergy
<1>1. n - s \in -Top .. Top
  BY GridFacts DEF Steps
<1>2. n > s => n - s \in 1 .. Top
  BY GridFacts DEF Steps
<1>3. n < s => s - n \in 1 .. Top /\ n - s = -(s - n)
  BY GridFacts DEF Steps
<1>4. n = s => n - s = 0
  BY DEF Steps
<1> QED BY <1>1, <1>2, <1>3, <1>4, BusAssumption

-----------------------------------------------------------------------------
(* Outcomes                                                                *)

\* A clamped number lies between the bounds.
LEMMA ClampBetween ==
  ASSUME NEW n \in Int, NEW low \in Int, NEW high \in Int
  PROVE  /\ Clamp(n, low, high) \in Int
         /\ low <= Clamp(n, low, high)
         /\ low <= high => Clamp(n, low, high) <= high
         /\ high < low => Clamp(n, low, high) = low
         /\ low <= n /\ n <= high => Clamp(n, low, high) = n
         /\ Clamp(n, low, high) <= n \/ Clamp(n, low, high) = low
BY DEF Clamp, AtLeast, AtMost

\* Every outcome is a transition, and ends between floor and the bound given.
LEMMA OutcomeTyped ==
  ASSUME context \in Contexts, NEW mode \in Modes, NEW i \in Slots, NEW s \in Steps,
         NEW wanted \in Int, NEW high \in Steps
  PROVE  LET o == Outcome(mode, i, s, wanted, high)
         IN  /\ o \in Transitions
             /\ o.mode = mode
             /\ o.next = Clamp(wanted, context.floor, high)
             /\ o.grid = Baseline(i) + Bus[o.next - s]
             /\ o.next <= s => o.extra = 0
<1> DEFINE next == Clamp(wanted, context.floor, high)
           grid == Baseline(i) + Bus[next - s]
           extra == IF next > s THEN AtLeast(0, AtLeast(0, grid) - AtLeast(0, Baseline(i))) ELSE 0
<1>1. next \in Steps
  <2>1. context.floor \in 0 .. Top /\ high \in 0 .. Top
    BY ContextFacts DEF Steps
  <2>2. context.floor \in Int /\ high \in Int
    BY <2>1
  <2>3. next \in Int /\ context.floor <= next /\ (next <= high \/ next = context.floor)
    BY <2>2 DEF Clamp, AtLeast, AtMost
  <2> QED BY <2>1, <2>3, GridFacts DEF Steps
<1>2. grid \in Int
  BY <1>1, BusFacts, ContextFacts
<1>3. extra \in Nat /\ (next <= s => extra = 0)
  <2>1. Baseline(i) \in Int
    BY ContextFacts
  <2>2. AtLeast(0, AtLeast(0, grid) - AtLeast(0, Baseline(i))) \in Nat
    BY <1>2, <2>1 DEF AtLeast
  <2> QED BY <1>1, <2>2 DEF Steps
<1>4. Outcome(mode, i, s, wanted, high)
        = [mode |-> mode, next |-> next, grid |-> grid, extra |-> extra]
  BY DEF Outcome
<1> HIDE DEF next, grid, extra
<1>5. [mode |-> mode, next |-> next, grid |-> grid, extra |-> extra] \in Transitions
  BY <1>1, <1>2, <1>3 DEF Transitions
<1> QED BY <1>3, <1>4, <1>5 DEF grid, next

\* What findBestChargeOutcome returns is an outcome that fits.
LEMMA BestChargeFits ==
  ASSUME NEW mode, NEW i, NEW s, NEW target, NEW high, NEW limit,
         NEW solarOnly \in BOOLEAN,
         NEW o \in BestCharge(mode, i, s, target, high, limit, solarOnly)
  PROVE  \E n \in s .. target : o = Outcome(mode, i, s, n, high) /\ Fits(o, s, limit, solarOnly)
BY DEF BestCharge

\* Fewer steps than a limit covers take no more than the limit.
LEMMA StepsWithinLimit ==
  ASSUME NEW x \in Nat, NEW k \in Nat, k <= x \div StepEnergy
  PROVE  k * StepEnergy <= x
<1>1. PICK e \in Nat : e = StepEnergy /\ e > 0
  BY GridFacts
<1>2. x \div e \in Nat /\ (x \div e) * e <= x
  BY <1>1
<1>3. PICK q \in Nat : q = x \div e
  BY <1>2
<1>4. k <= q /\ q * e <= x
  BY <1>1, <1>2, <1>3
<1>5. k * e <= q * e
  BY <1>1, <1>4
<1> QED BY <1>1, <1>4, <1>5

SelfBounds(i, s, keep, high, o) ==
  InRange(s) =>
    /\ InRange(o.next) /\ o.next <= high
    /\ Bus[o.next - s] <= SolarLimit(i)
    /\ -Bus[o.next - s] <= AtMost(context.dischargeLimit, Deficit(i))
    /\ o.extra = 0
    /\ keep >= s => o.next >= s

\* A battery left to itself charges from the sun alone, within its limit, and
\* discharges what the house lacks, within its limit.
LEMMA SelfRunSound ==
  ASSUME context \in Contexts, NEW mode \in Modes, NEW i \in Slots, NEW s \in Steps,
         NEW keep \in Steps, NEW high \in Steps,
         InRange(s) => s <= high /\ high <= context.ceiling,
         NEW o \in SelfRun(mode, i, s, keep, high)
  PROVE  /\ o \in Transitions
         /\ o.mode = mode
         /\ SelfBounds(i, s, keep, high, o)
<1> DEFINE limit == AtMost(context.dischargeLimit, Deficit(i))
           charged == BestCharge(mode, i, s, high, high, SolarLimit(i), TRUE)
<1>a. limit \in Nat /\ SolarLimit(i) \in Nat /\ context.floor \in Steps
  BY ContextFacts DEF AtMost
<1>b. limit \div StepEnergy \in Nat
  BY <1>a, GridFacts
<1>c. s \in Int /\ high \in Int /\ keep \in Int /\ context.floor \in Int /\ context.ceiling \in Int
  BY ContextFacts DEF Steps
<1>1. CASE o \in charged
  <2>1. PICK n \in s .. high : /\ o = Outcome(mode, i, s, n, high)
                               /\ Fits(o, s, SolarLimit(i), TRUE)
    BY <1>1, BestChargeFits
  <2>2. n \in Int /\ s <= n /\ n <= high
    BY <1>c, <2>1
  <2>3. /\ o \in Transitions /\ o.mode = mode
        /\ o.next = Clamp(n, context.floor, high)
    BY <2>1, <2>2, OutcomeTyped
  <2>4. Bus[o.next - s] <= SolarLimit(i) /\ o.extra = 0
    BY <2>1 DEF Fits
  <2>5. InRange(s) => o.next = n
    BY <1>c, <2>2, <2>3 DEF InRange, Clamp, AtLeast, AtMost
  <2>6. o.next \in Steps
    BY <2>3 DEF Transitions
  <2>7. InRange(s) => o.next >= s /\ -Bus[o.next - s] <= 0 /\ Bus[o.next - s] \in Int
    <3>1. InRange(s) => o.next >= s
      BY <2>2, <2>5
    <3>2. /\ Bus[o.next - s] \in Int
          /\ o.next = s => Bus[o.next - s] = 0
          /\ o.next > s => Bus[o.next - s] > 0
      BY <2>6, BusFacts
    <3> QED BY <1>c, <2>6, <3>1, <3>2 DEF Steps
  <2> QED BY <1>a, <1>c, <2>2, <2>3, <2>4, <2>5, <2>6, <2>7, BusFacts DEF InRange, SelfBounds
<1>2. CASE /\ Deficit(i) > 0 /\ s > AtLeast(context.floor, keep)
           /\ o = Outcome(mode, i, s, s - limit \div StepEnergy, high)
  <2>1. PICK d \in Nat : d = limit \div StepEnergy
    BY <1>b
  <2>2. s - d \in Int
    BY <1>c, <2>1
  <2>3. /\ o \in Transitions /\ o.mode = mode
        /\ o.next = Clamp(s - d, context.floor, high)
        /\ o.next <= s => o.extra = 0
    BY <1>2, <2>1, <2>2, OutcomeTyped
  <2>4. o.next \in Steps
    BY <2>3 DEF Transitions
  <2>5. InRange(s) => /\ context.floor <= o.next /\ o.next <= s
                      /\ s - o.next <= d
    BY <1>c, <2>1, <2>2, <2>3 DEF InRange, Clamp, AtLeast, AtMost
  <2>6. InRange(s) => s - o.next \in Nat /\ (s - o.next) * StepEnergy <= limit
    <3>1. InRange(s) => s - o.next \in Nat
      BY <2>4, <2>5, GridFacts DEF Steps
    <3> QED BY <1>a, <2>1, <2>5, <3>1, StepsWithinLimit
  <2>7. InRange(s) => -Bus[o.next - s] <= limit
    <3>1. CASE o.next < s
      <4>1. Bus[o.next - s] \in Int /\ -Bus[o.next - s] <= (s - o.next) * StepEnergy
        BY <2>4, <3>1, BusFacts
      <4>2. InRange(s) => (s - o.next) * StepEnergy \in Int
        BY <2>6, GridFacts
      <4> HIDE DEF limit
      <4> QED BY <1>a, <2>6, <4>1, <4>2
    <3>2. CASE o.next = s
      BY <1>a, <2>4, <3>2, BusFacts
    <3> QED BY <1>c, <2>4, <2>5, <3>1, <3>2 DEF Steps
  <2>8. InRange(s) => Bus[o.next - s] <= SolarLimit(i)
    BY <1>a, <1>c, <2>4, <2>5, BusFacts DEF Steps
  <2>9. ~(keep >= s)
    BY <1>2, <1>c DEF AtLeast
  <2>10. InRange(s) => InRange(o.next) /\ o.next <= high
    BY <1>c, <2>4, <2>5 DEF InRange, Steps
  <2> QED BY <2>3, <2>5, <2>7, <2>8, <2>9, <2>10 DEF SelfBounds
<1>3. CASE o = Outcome(mode, i, s, s, high)
  <2>1. /\ o \in Transitions /\ o.mode = mode
        /\ o.next = Clamp(s, context.floor, high)
        /\ o.next <= s => o.extra = 0
    BY <1>3, <1>c, OutcomeTyped
  <2>2. InRange(s) => o.next = s
    BY <1>c, <2>1 DEF InRange, Clamp, AtLeast, AtMost
  <2>3. InRange(s) => Bus[o.next - s] = 0
    BY <2>2, BusFacts
  <2> QED BY <1>a, <1>c, <2>1, <2>2, <2>3 DEF InRange, SelfBounds
<1> QED BY <1>1, <1>2, <1>3 DEF SelfRun

\* The charge mode never discharges, and charges within the grid's limit.
LEMMA ChargeSound ==
  ASSUME context \in Contexts, NEW i \in Slots, NEW s \in Steps, NEW o \in ChargeMode(i, s)
  PROVE  /\ o \in Transitions
         /\ o.mode = "charge"
         /\ InRange(s) =>
              /\ InRange(o.next) /\ o.next >= s
              /\ Bus[o.next - s] <= context.gridLimit
              /\ -Bus[o.next - s] <= 0
<1>c. /\ s \in Int /\ context.floor \in Int /\ context.ceiling \in Int
      /\ context.ceiling \in Steps /\ context.gridLimit \in Nat /\ "charge" \in Modes
  BY ContextFacts DEF Steps, Modes
<1>1. PICK target : o \in ChargeTo(i, s, target)
  BY DEF ChargeMode
<1>2. CASE o \in BestCharge("charge", i, s, AtLeast(s, Grid(target)), context.ceiling,
                            context.gridLimit, FALSE)
  <2>1. PICK n \in s .. AtLeast(s, Grid(target)) :
               /\ o = Outcome("charge", i, s, n, context.ceiling)
               /\ Fits(o, s, context.gridLimit, FALSE)
    BY <1>2, BestChargeFits
  <2>2. n \in Int /\ s <= n
    BY <2>1
  <2>3. /\ o \in Transitions /\ o.mode = "charge"
        /\ o.next = Clamp(n, context.floor, context.ceiling)
    BY <1>c, <2>1, <2>2, OutcomeTyped
  <2>4. o.next \in Steps
    BY <2>3 DEF Transitions
  <2>5. InRange(s) => InRange(o.next) /\ o.next >= s
    BY <1>c, <2>2, <2>3 DEF InRange, Clamp, AtLeast, AtMost
  <2>6. Bus[o.next - s] <= context.gridLimit
    BY <2>1 DEF Fits
  <2>7. InRange(s) => -Bus[o.next - s] <= 0
    <3>1. /\ Bus[o.next - s] \in Int
          /\ o.next = s => Bus[o.next - s] = 0
          /\ o.next > s => Bus[o.next - s] > 0
      BY <2>4, BusFacts
    <3> QED BY <1>c, <2>4, <2>5, <3>1 DEF Steps
  <2> QED BY <2>3, <2>5, <2>6, <2>7
<1>3. CASE o = Outcome("charge", i, s, s, context.ceiling)
  <2>1. /\ o \in Transitions /\ o.mode = "charge"
        /\ o.next = Clamp(s, context.floor, context.ceiling)
    BY <1>3, <1>c, OutcomeTyped
  <2>2. InRange(s) => o.next = s
    BY <1>c, <2>1 DEF InRange, Clamp, AtLeast, AtMost
  <2>3. InRange(s) => Bus[o.next - s] = 0
    BY <2>2, BusFacts
  <2> QED BY <1>c, <2>1, <2>2, <2>3 DEF InRange
<1> QED BY <1>1, <1>2, <1>3 DEF ChargeTo

LEMMA GridStep ==
  ASSUME context \in Contexts, NEW s \in Steps
  PROVE  Grid(s) \in Steps /\ (InRange(s) => Grid(s) = s)
<1>1. context.floor \in Steps /\ context.ceiling \in Steps
  BY ContextFacts
<1> QED BY <1>1, GridFacts DEF Grid, Clamp, AtLeast, AtMost, InRange, Steps

\* Every outcome a mode has keeps the bounds.
LEMMA OutcomesSound ==
  ASSUME context \in Contexts, NEW i \in Slots, NEW s \in Steps, NEW o \in Viable(i, s)
  PROVE  o \in Transitions /\ Sound(i, s, o)
<1>a. o \in AutoMode(i, s) \cup HoldMode(i, s) \cup LimitMode(i, s) \cup ChargeMode(i, s)
  BY DEF Viable, Outcomes
<1>b. ~context.allowExport => o.grid >= AtMost(0, Baseline(i))
  BY DEF Viable
<1>c. /\ context.floor \in Steps /\ context.ceiling \in Steps
      /\ context.gridLimit \in Nat /\ SolarLimit(i) \in Nat
      /\ AtMost(context.dischargeLimit, Deficit(i)) \in Nat
      /\ s \in Int /\ context.ceiling \in Int
  BY ContextFacts DEF AtMost, Steps
<1>e. o \in Transitions => Bus[o.next - s] \in Int /\ o.next \in Int
  BY BusFacts DEF Transitions, Steps
<1>1. CASE o \in AutoMode(i, s)
  <2>1. InRange(s) => s <= context.ceiling /\ context.ceiling <= context.ceiling
    BY <1>c DEF InRange
  <2>2. /\ o \in Transitions /\ o.mode = "auto"
        /\ SelfBounds(i, s, context.floor, context.ceiling, o)
    <3> DEFINE high == context.ceiling
    <3>1. high \in Steps /\ (InRange(s) => s <= high /\ high <= context.ceiling)
      BY <1>c, <2>1
    <3>2. "auto" \in Modes /\ o \in SelfRun("auto", i, s, context.floor, high)
      BY <1>1 DEF AutoMode, Modes
    <3> HIDE DEF high
    <3>3. o \in Transitions /\ o.mode = "auto" /\ SelfBounds(i, s, context.floor, high, o)
      BY <1>c, <3>2, <3>1, SelfRunSound
    <3> QED BY <3>3 DEF high
  <2> QED BY <1>b, <1>c, <1>e, <2>2 DEF Sound, SelfBounds
<1>2. CASE o \in HoldMode(i, s)
  <2>1. InRange(s) => s <= context.ceiling /\ context.ceiling <= context.ceiling
    BY <1>c DEF InRange
  <2>2. /\ o \in Transitions /\ o.mode = "hold"
        /\ SelfBounds(i, s, Grid(s), context.ceiling, o)
    <3> DEFINE high == context.ceiling
    <3>1. high \in Steps /\ (InRange(s) => s <= high /\ high <= context.ceiling)
      BY <1>c, <2>1
    <3>2. "hold" \in Modes /\ o \in SelfRun("hold", i, s, Grid(s), high)
      BY <1>2 DEF HoldMode, Modes
    <3>3. Grid(s) \in Steps
      BY GridStep
    <3> HIDE DEF high
    <3>4. o \in Transitions /\ o.mode = "hold" /\ SelfBounds(i, s, Grid(s), high, o)
      BY <1>c, <3>2, <3>3, <3>1, SelfRunSound
    <3> QED BY <3>4 DEF high
  <2>3. InRange(s) => o.next >= s
    BY <1>c, <2>2, GridStep DEF SelfBounds
  <2> QED BY <1>b, <1>c, <1>e, <2>2, <2>3 DEF Sound, SelfBounds
<1>3. CASE o \in LimitMode(i, s)
  <2> DEFINE high == AtLeast(s, Grid(s))
             keep == Clamp(context.autoFloor, context.floor, high)
  <2>1. high \in Steps /\ (InRange(s) => high = s)
    BY <1>c, GridStep, GridFacts DEF AtLeast, Steps
  <2>2. InRange(s) => s <= high /\ high <= context.ceiling
    BY <1>c, <2>1 DEF InRange
  <2>3. keep \in Steps
    <3> HIDE DEF high
    <3>1. context.autoFloor \in Steps
      BY ContextFacts
    <3> QED BY <1>c, <2>1, <3>1 DEF Clamp, AtLeast, AtMost
  <2>4. /\ o \in Transitions /\ o.mode = "limit"
        /\ SelfBounds(i, s, keep, high, o)
    <3>1. "limit" \in Modes /\ o \in SelfRun("limit", i, s, keep, high)
      BY <1>3 DEF LimitMode, Modes
    <3> HIDE DEF high, keep
    <3> QED BY <1>c, <2>1, <2>2, <2>3, <3>1, SelfRunSound
  <2> HIDE DEF keep
  <2>5. InRange(s) => o.next <= s
    BY <2>1, <2>4 DEF SelfBounds
  <2> QED BY <1>b, <1>c, <1>e, <2>4, <2>5 DEF Sound, SelfBounds
<1>4. CASE o \in ChargeMode(i, s)
  <2>1. /\ o \in Transitions /\ o.mode = "charge"
        /\ InRange(s) => /\ InRange(o.next) /\ o.next >= s
                         /\ Bus[o.next - s] <= context.gridLimit
                         /\ -Bus[o.next - s] <= 0
    BY <1>4, ChargeSound
  <2> QED BY <1>b, <1>c, <1>e, <2>1 DEF Sound
<1> QED BY <1>a, <1>1, <1>2, <1>3, <1>4

LEMMA FallbackSound ==
  ASSUME context \in Contexts, NEW i \in Slots, NEW s \in Steps
  PROVE  Fallback(s) \in Transitions /\ Sound(i, s, Fallback(s))
<1>1. /\ context.gridLimit \in Nat /\ SolarLimit(i) \in Nat
      /\ AtMost(context.dischargeLimit, Deficit(i)) \in Nat
      /\ Baseline(i) \in Int
  BY ContextFacts DEF AtMost
<1>2. Fallback(s) \in Transitions
  BY DEF Fallback, Transitions, Modes
<1>3. Bus[s - s] = 0
  BY BusFacts
<1> QED BY <1>1, <1>2, <1>3 DEF Fallback, Sound, AtLeast, AtMost

\* Leaving out a small exchange keeps the bounds.
LEMMA ReportedSound ==
  ASSUME context \in Contexts, NEW i \in Slots, NEW s \in Steps, NEW t \in Transitions,
         Sound(i, s, t),
         NEW e \in Entries, e.mode = t.mode, e.next = t.next, e.extra = t.extra,
         e.grid = Reported(t.grid)
  PROVE  Sound(i, s, e)
<1>1. Baseline(i) \in Int
  BY ContextFacts
<1>2. ~context.allowExport => e.grid >= AtMost(0, Baseline(i))
  BY <1>1 DEF Sound, Reported, AtMost, Transitions
<1> QED BY <1>2 DEF Sound

\* Costs are integers.
LEMMA CostsAreInt ==
  ASSUME context \in Contexts, TypeOK, NEW i \in Slots
  PROVE  /\ \A grid \in Int : GridCost(i, grid) \in Int
         /\ \A o \in Transitions : Cost(i, o) \in Int
<1>1. ASSUME NEW grid \in Int PROVE GridCost(i, grid) \in Int
  <2>1. Price(i) \in Int /\ context.profiles[i].feedIn \in Int /\ Horizon * grid \in Int
    BY ContextFacts, GridFacts
  <2> QED BY <2>1 DEF GridCost
<1>2. ASSUME NEW o \in Transitions PROVE Cost(i, o) \in Int
  <2>1. i + 1 \in 1 .. Horizon + 1
    BY GridFacts DEF Slots
  <2>2. costToGo[i + 1][o.next] \in Int
    BY <2>1 DEF TypeOK, Transitions
  <2>3. o.grid \in Int
    BY DEF Transitions
  <2> QED BY <1>1, <2>2, <2>3 DEF Cost
<1> QED BY <1>1, <1>2

-----------------------------------------------------------------------------
(* The invariant                                                           *)

LEMMA EndCostsTyped ==
  ASSUME context \in Contexts
  PROVE  EndCosts(context) \in [1 .. Horizon + 1 -> [Steps -> Int]]
<1>1. ASSUME NEW s \in Steps PROVE -(context.avgPrice * StepEnergy * s) \in Int
  <2>1. context.avgPrice * StepEnergy \in Int /\ s \in Int
    BY ContextFacts, GridFacts DEF Steps
  <2> QED BY <2>1
<1> QED BY <1>1 DEF EndCosts

LEMMA NoPolicyTyped == NoPolicy \in [Slots -> [Steps -> Transitions]]
BY GridFacts DEF NoPolicy, Unset, Transitions, Modes, Steps

LEMMA InitIInv == Init => IInv
<1> SUFFICES ASSUME Init PROVE IInv
  OBVIOUS
<1>1. TypeOK
  BY EndCostsTyped, NoPolicyTyped, GridFacts DEF Init, TypeOK, Slots, Steps
<1>2. PolicyIsSound
  BY GridFacts DEF Init, PolicyIsSound, Evaluated, Slots, Steps
<1>3. PlanIsSound /\ PlanStaysInRange /\ Progress
  BY DEF Init, PlanIsSound, PlanStaysInRange, Progress
<1> QED BY <1>1, <1>2, <1>3 DEF Init, IInv

\* Where the loops go next, and what has been evaluated then.
LEMMA NextEntryCovers ==
  ASSUME IInv, phase = "back", NextEntry, UNCHANGED context
  PROVE  /\ phase' \in {"back", "roll"}
         /\ index' \in Slots
         /\ soc' \in Steps
         /\ phase' = "roll" => index' = 1 /\ soc' = context.start
         /\ \A i \in Slots, s \in Steps :
              Evaluated(i, s)' => Evaluated(i, s) \/ (i = index /\ s = soc)
<1>1. /\ index \in Slots /\ soc \in Steps /\ context.start \in Steps
      /\ Horizon \in Nat /\ Horizon > 0 /\ Top \in Nat
  BY ContextFacts, GridFacts DEF IInv, TypeOK
<1>2. CASE soc < Top
  BY <1>1, <1>2 DEF NextEntry, Evaluated, Slots, Steps
<1>3. CASE ~(soc < Top) /\ index > 1
  BY <1>1, <1>3 DEF NextEntry, Evaluated, Slots, Steps
<1>4. CASE ~(soc < Top) /\ ~(index > 1)
  BY <1>1, <1>4 DEF NextEntry, Evaluated, Slots, Steps
<1> QED BY <1>2, <1>3, <1>4

LEMMA StoreKeeps ==
  ASSUME IInv, phase = "back", NEW t \in Transitions, NEW cost \in Int,
         Sound(index, soc, t), Store(t, cost), NextEntry,
         UNCHANGED <<context, entries, costTotal>>
  PROVE  IInv'
<1>1. /\ index \in Slots /\ soc \in Steps
      /\ index \in 1 .. Horizon + 1
      /\ policy \in [Slots -> [Steps -> Transitions]]
      /\ costToGo \in [1 .. Horizon + 1 -> [Steps -> Int]]
      /\ entries = <<>>
  BY GridFacts DEF IInv, TypeOK, Progress, Slots
<1>2. /\ policy' \in [Slots -> [Steps -> Transitions]]
      /\ costToGo' \in [1 .. Horizon + 1 -> [Steps -> Int]]
  BY <1>1 DEF Store
<1>3. TypeOK'
  <2>1. index' \in 1 .. Horizon + 1
    BY NextEntryCovers, GridFacts DEF Slots
  <2> QED BY <1>2, <2>1, NextEntryCovers DEF IInv, TypeOK
<1>4. PolicyIsSound'
  <2> SUFFICES ASSUME NEW i \in Slots, NEW s \in Steps, Evaluated(i, s)'
               PROVE  Sound(i, s, policy[i][s])'
    BY DEF PolicyIsSound
  <2>1. Evaluated(i, s) \/ (i = index /\ s = soc)
    BY NextEntryCovers
  <2>2. Sound(i, s, policy'[i][s])
    <3>1. CASE i = index /\ s = soc
      <4>1. policy'[i][s] = t
        BY <1>1, <3>1 DEF Store
      <4> QED BY <3>1, <4>1
    <3>2. CASE ~(i = index /\ s = soc)
      <4>1. policy'[i][s] = policy[i][s]
        BY <1>1, <3>2 DEF Store
      <4>2. Sound(i, s, policy[i][s])
        BY <2>1, <3>2 DEF IInv, PolicyIsSound
      <4> QED BY <4>1, <4>2
    <3> QED BY <3>1, <3>2
  <2> QED
    BY <2>2 DEF Sound, InRange, SolarLimit, Deficit, Baseline
<1>5. PlanIsSound' /\ PlanStaysInRange'
  BY <1>1 DEF PlanIsSound, PlanStaysInRange
<1>6. Progress'
  BY <1>1, NextEntryCovers DEF Progress, InRange
<1> QED BY <1>3, <1>4, <1>5, <1>6 DEF IInv

LEMMA EvaluateKeeps == IInv /\ Evaluate => IInv'
<1> SUFFICES ASSUME IInv, Evaluate PROVE IInv'
  OBVIOUS
<1>1. /\ phase = "back" /\ context \in Contexts
      /\ index \in Slots /\ index + 1 \in 1 .. Horizon + 1 /\ soc \in Steps
      /\ NextEntry /\ UNCHANGED <<context, entries, costTotal>>
  BY GridFacts DEF IInv, TypeOK, Evaluate, Slots
<1>2. CASE Viable(index, soc) = {}
  <2>1. Store(Fallback(soc), costToGo[index + 1][soc])
    BY <1>2 DEF Evaluate
  <2>2. costToGo[index + 1][soc] \in Int
    BY <1>1 DEF IInv, TypeOK
  <2> QED BY <1>1, <2>1, <2>2, FallbackSound, StoreKeeps
<1>3. CASE Viable(index, soc) # {}
  <2>1. PICK o \in Viable(index, soc) : Store(o, Cost(index, o))
    BY <1>3 DEF Evaluate
  <2>2. o \in Transitions /\ Sound(index, soc, o)
    BY <1>1, OutcomesSound
  <2>3. Cost(index, o) \in Int
    BY <1>1, <2>2, CostsAreInt DEF IInv
  <2> QED BY <1>1, <2>1, <2>2, <2>3, StoreKeeps
<1> QED BY <1>2, <1>3

LEMMA RollOutKeeps == IInv /\ RollOut => IInv'
<1> SUFFICES ASSUME IInv, RollOut PROVE IInv'
  OBVIOUS
<1> DEFINE t == policy[index][soc]
           e == [mode |-> t.mode, from |-> soc, next |-> t.next,
                 grid |-> Reported(t.grid), extra |-> t.extra]
<1>1. /\ phase = "roll" /\ context \in Contexts
      /\ index \in Slots /\ soc \in Steps
      /\ Len(entries) = index - 1 /\ entries \in Seq(Entries)
      /\ Horizon \in Nat
  BY GridFacts DEF IInv, TypeOK, Progress, RollOut
<1>2. t \in Transitions /\ Sound(index, soc, t)
  BY <1>1 DEF IInv, TypeOK, PolicyIsSound, Evaluated
<1>3. Reported(t.grid) \in Int
  BY <1>2 DEF Reported, Transitions
<1>4. e \in Entries
  BY <1>1, <1>2, <1>3 DEF Transitions, Entries
<1>5. Sound(index, soc, e)
  BY <1>1, <1>2, <1>4, ReportedSound
<1>6. /\ entries' = Append(entries, e) /\ soc' = t.next /\ index' = index + 1
      /\ phase' = IF index = Horizon THEN "done" ELSE "roll"
      /\ costTotal' = costTotal + GridCost(index, Reported(t.grid))
      /\ UNCHANGED <<context, costToGo, policy>>
  BY DEF RollOut
<1>7. /\ entries' \in Seq(Entries) /\ Len(entries') = index
      /\ entries'[index] = e
      /\ \A k \in DOMAIN entries : k \in DOMAIN entries' /\ entries'[k] = entries[k]
      /\ \A k \in DOMAIN entries' : k \in DOMAIN entries \/ k = index
  <2> HIDE DEF e
  <2> QED BY <1>1, <1>4, <1>6 DEF Slots
<1> HIDE DEF e
<1>8. TypeOK'
  <2>1. GridCost(index, Reported(t.grid)) \in Int
    BY <1>1, <1>3, CostsAreInt DEF IInv
  <2>2. t.next \in Steps
    BY <1>2 DEF Transitions
  <2>3. /\ index' \in 1 .. Horizon + 1
        /\ phase' \in {"back", "roll", "done"}
        /\ phase' # "done" => index' \in Slots
    BY <1>1, <1>6 DEF Slots
  <2>4. costTotal' \in Int
    <3> HIDE DEF t
    <3> QED BY <1>6, <2>1 DEF IInv, TypeOK
  <2> QED BY <1>6, <1>7, <2>2, <2>3, <2>4 DEF IInv, TypeOK
<1>9. PolicyIsSound'
  BY <1>1, <1>6 DEF IInv, PolicyIsSound, Evaluated, Sound, InRange, SolarLimit, Deficit, Baseline
<1>10. PlanIsSound'
  <2> SUFFICES ASSUME NEW k \in DOMAIN entries'
               PROVE  k \in Slots /\ Sound(k, entries'[k].from, entries'[k])
    BY <1>6 DEF PlanIsSound, Sound, InRange, SolarLimit, Deficit, Baseline
  <2>1. CASE k \in DOMAIN entries
    BY <1>7, <2>1 DEF IInv, PlanIsSound
  <2>2. CASE k = index
    <3>1. e.from = soc
      BY DEF e
    <3> QED BY <1>1, <1>5, <1>7, <2>2, <3>1
  <2> QED BY <1>7, <2>1, <2>2
<1>11. InRange(context.start) => InRange(t.next)
  BY <1>1, <1>2 DEF IInv, Progress, Sound
<1>12. PlanStaysInRange'
  <2> SUFFICES ASSUME InRange(context.start), NEW k \in DOMAIN entries'
               PROVE  InRange(entries'[k].next)
    BY <1>6 DEF PlanStaysInRange, InRange
  <2>1. e.next = t.next
    BY DEF e
  <2> QED BY <1>7, <1>11, <2>1 DEF IInv, PlanStaysInRange
<1>13. Progress'
  BY <1>1, <1>6, <1>7, <1>11 DEF Progress, InRange
<1> QED BY <1>1, <1>6, <1>8, <1>9, <1>10, <1>12, <1>13 DEF IInv

LEMMA CallAgainKeeps == IInv /\ CallAgain => IInv'
<1> SUFFICES ASSUME IInv, CallAgain PROVE IInv'
  OBVIOUS
<1>1. context \in Contexts /\ UNCHANGED context
  BY DEF IInv, CallAgain
<1>2. TypeOK'
  BY <1>1, EndCostsTyped, NoPolicyTyped, GridFacts DEF CallAgain, TypeOK, Slots, Steps
<1>3. PolicyIsSound'
  BY GridFacts DEF CallAgain, PolicyIsSound, Evaluated, Slots, Steps
<1>4. PlanIsSound' /\ PlanStaysInRange' /\ Progress'
  BY DEF CallAgain, PlanIsSound, PlanStaysInRange, Progress
<1> QED BY <1>1, <1>2, <1>3, <1>4 DEF IInv

LEMMA StutterKeeps == IInv /\ UNCHANGED vars => IInv'
BY DEF IInv, vars, TypeOK, PolicyIsSound, Evaluated, PlanIsSound, PlanStaysInRange, Progress,
       Sound, InRange, SolarLimit, Deficit, Baseline

LEMMA StepIInv == IInv /\ [Next]_vars => IInv'
BY EvaluateKeeps, RollOutKeeps, CallAgainKeeps, StutterKeeps DEF Next

-----------------------------------------------------------------------------
(* The plan is the cheapest                                                *)

\* What a mode does depends on the inputs alone.
LEMMA MovesUnchanged ==
  ASSUME context' = context
  PROVE  \A i, s : Moves(i, s)' = Moves(i, s)
<1>1. /\ \A i : /\ Baseline(i)' = Baseline(i) /\ Surplus(i)' = Surplus(i)
                /\ Deficit(i)' = Deficit(i) /\ SolarLimit(i)' = SolarLimit(i)
                /\ Price(i)' = Price(i)
      /\ \A s : Grid(s)' = Grid(s)
  BY DEF Baseline, Surplus, Deficit, SolarLimit, Price, Grid
<1>2. \A mode, i, s, wanted, high :
        Outcome(mode, i, s, wanted, high)' = Outcome(mode, i, s, wanted, high)
  BY DEF Outcome, Baseline
<1>3. \A mode, i, s, target, high, limit, solarOnly :
        BestCharge(mode, i, s, target, high, limit, solarOnly)'
          = BestCharge(mode, i, s, target, high, limit, solarOnly)
  BY <1>2 DEF BestCharge
<1>4. \A mode, i, s, keep, high :
        SelfRun(mode, i, s, keep, high)' = SelfRun(mode, i, s, keep, high)
  <2> TAKE mode, i, s, keep, high
  <2>1. BestCharge(mode, i, s, high, high, SolarLimit(i), TRUE)'
          = BestCharge(mode, i, s, high, high, SolarLimit(i), TRUE)
    BY <1>1, <1>3
  <2>2. \A wanted : Outcome(mode, i, s, wanted, high)' = Outcome(mode, i, s, wanted, high)
    BY <1>2
  <2> DEFINE charged == BestCharge(mode, i, s, high, high, SolarLimit(i), TRUE)
             discharged == Outcome(mode, i, s, s - AtMost(context.dischargeLimit, Deficit(i)) \div StepEnergy, high)
             kept == Outcome(mode, i, s, s, high)
  <2>3. charged' = charged /\ discharged' = discharged /\ kept' = kept
    BY <1>1, <2>1, <2>2
  <2> DEFINE either == IF Surplus(i) > 0 /\ high > s /\ charged # {} THEN charged
                       ELSE IF Deficit(i) > 0 /\ s > AtLeast(context.floor, keep)
                            THEN {discharged} ELSE {kept}
  <2>4. SelfRun(mode, i, s, keep, high) = either
    BY DEF SelfRun
  <2>5. SelfRun(mode, i, s, keep, high)' = either'
    BY DEF SelfRun
  <2>6. either' = either
    <3>1. Surplus(i)' = Surplus(i) /\ Deficit(i)' = Deficit(i)
      BY <1>1
    <3> HIDE DEF charged, discharged, kept
    <3> QED BY <3>1, <2>3
  <2> HIDE DEF either
  <2> QED BY <2>4, <2>5, <2>6
<1>5. \A i, s : AutoMode(i, s)' = AutoMode(i, s)
  BY <1>4 DEF AutoMode
<1>6. \A i, s : HoldMode(i, s)' = HoldMode(i, s)
  BY <1>1, <1>4 DEF HoldMode
<1>7. \A i, s : LimitMode(i, s)' = LimitMode(i, s)
  BY <1>1, <1>4 DEF LimitMode
<1>8. \A i, s, target : ChargeTo(i, s, target)' = ChargeTo(i, s, target)
  BY <1>1, <1>2, <1>3, ZenonT(30) DEF ChargeTo
<1>9. \A i, s : ChargeTargets(i, s)' = ChargeTargets(i, s)
  <2> TAKE i, s
  <2> DEFINE reached == BestCharge("charge", i, s, context.ceiling, context.ceiling, context.gridLimit, FALSE)
             highest == IF reached = {} THEN {context.ceiling} ELSE {o.next : o \in reached}
  <2>1. reached' = reached
    BY <1>3
  <2> HIDE DEF reached
  <2>2. highest' = highest
    BY <2>1
  <2> HIDE DEF highest
  <2> DEFINE above == {t \in {h - d : h \in highest, d \in Offsets} : t > s}
             targets == IF above # {} THEN above ELSE {AtLeast(s, h) : h \in highest}
  <2>3. ChargeTargets(i, s) = targets
    BY DEF ChargeTargets, highest, reached
  <2>4. ChargeTargets(i, s)' = targets'
    BY DEF ChargeTargets, highest, reached
  <2>5. targets' = targets
    BY <2>2
  <2> HIDE DEF targets
  <2> QED BY <2>3, <2>4, <2>5
<1>10. \A i, s : ChargeMode(i, s)' = ChargeMode(i, s)
  BY <1>8, <1>9 DEF ChargeMode
<1>11. \A i, s : Outcomes(i, s)' = Outcomes(i, s)
  BY <1>5, <1>6, <1>7, <1>10 DEF Outcomes
<1>12. \A i, s : HeadroomRejected(i, s)' = HeadroomRejected(i, s)
  BY <1>1 DEF HeadroomRejected
<1>13. \A i, s : Viable(i, s)' = Viable(i, s)
  BY <1>1, <1>11, <1>12 DEF Viable
<1> QED BY <1>13 DEF Moves, Fallback

LEMMA MovesTyped ==
  ASSUME context \in Contexts, NEW i \in Slots, NEW s \in Steps, NEW o \in Moves(i, s)
  PROVE  o \in Transitions
BY OutcomesSound, FallbackSound DEF Moves

\* Every entry evaluated so far holds the least cost any transition has from
\* there, and a transition that has it.
TableIsOptimal ==
  \A i \in Slots, s \in Steps : Evaluated(i, s) =>
    /\ policy[i][s] \in Moves(i, s)
    /\ costToGo[i][s] = Cost(i, policy[i][s])
    /\ \A o \in Moves(i, s) : costToGo[i][s] <= Cost(i, o)

LEMMA StoreKeepsOptimal ==
  ASSUME IInv, TableIsOptimal, phase = "back",
         NEW t \in Moves(index, soc), \A o \in Moves(index, soc) : Cost(index, t) <= Cost(index, o),
         Store(t, Cost(index, t)), NextEntry, UNCHANGED context
  PROVE  TableIsOptimal'
<1>1. /\ index \in Slots /\ soc \in Steps
      /\ policy \in [Slots -> [Steps -> Transitions]]
      /\ costToGo \in [1 .. Horizon + 1 -> [Steps -> Int]]
      /\ Horizon \in Nat
  BY GridFacts DEF IInv, TypeOK
<1> SUFFICES ASSUME NEW i \in Slots, NEW s \in Steps, Evaluated(i, s)'
             PROVE  (/\ policy[i][s] \in Moves(i, s)
                     /\ costToGo[i][s] = Cost(i, policy[i][s])
                     /\ \A o \in Moves(i, s) : costToGo[i][s] <= Cost(i, o))'
  BY DEF TableIsOptimal
<1>2. Moves(i, s)' = Moves(i, s)
  BY MovesUnchanged
<1>3. Evaluated(i, s) \/ (i = index /\ s = soc)
  BY NextEntryCovers
<1>4. i >= index
  BY <1>1, <1>3 DEF Evaluated, Slots
<1>5. costToGo'[i + 1] = costToGo[i + 1]
  BY <1>1, <1>4 DEF Store, Slots
<1>6. \A o : Cost(i, o)' = Cost(i, o)
  BY <1>5 DEF Cost, GridCost, Price
<1>7. CASE i = index /\ s = soc
  <2>1. policy'[i][s] = t /\ costToGo'[i][s] = Cost(index, t)
    BY <1>1, <1>7 DEF Store, Slots
  <2> QED BY <1>2, <1>6, <1>7, <2>1
<1>8. CASE ~(i = index /\ s = soc)
  <2>1. policy'[i][s] = policy[i][s] /\ costToGo'[i][s] = costToGo[i][s]
    BY <1>1, <1>8 DEF Store, Slots
  <2>2. Evaluated(i, s)
    BY <1>3, <1>8
  <2> QED BY <1>2, <1>6, <2>1, <2>2 DEF TableIsOptimal
<1> QED BY <1>7, <1>8

LEMMA EvaluateKeepsOptimal ==
  ASSUME IInv, TableIsOptimal, Evaluate
  PROVE  TableIsOptimal'
<1>1. /\ phase = "back" /\ context \in Contexts /\ index \in Slots /\ soc \in Steps
      /\ index + 1 \in 1 .. Horizon + 1 /\ NextEntry /\ UNCHANGED context
  BY GridFacts DEF IInv, TypeOK, Evaluate, Slots
<1>2. \A o \in Moves(index, soc) : o \in Transitions /\ Cost(index, o) \in Int
  BY <1>1, MovesTyped, CostsAreInt DEF IInv
<1>3. CASE Viable(index, soc) = {}
  <2>1. Moves(index, soc) = {Fallback(soc)}
    BY <1>3 DEF Moves
  <2>2. Cost(index, Fallback(soc)) = costToGo[index + 1][soc]
    <3>1. /\ Price(index) \in Int /\ Horizon \in Nat
          /\ costToGo[index + 1][soc] \in Int
      BY <1>1, ContextFacts, GridFacts DEF IInv, TypeOK
    <3> QED BY <3>1 DEF Cost, GridCost, Fallback
  <2>3. Store(Fallback(soc), Cost(index, Fallback(soc)))
    BY <1>3, <2>2 DEF Evaluate
  <2> QED BY <1>1, <1>2, <2>1, <2>3, StoreKeepsOptimal
<1>4. CASE Viable(index, soc) # {}
  <2>1. Moves(index, soc) = Viable(index, soc)
    BY <1>4 DEF Moves
  <2>2. PICK o \in Viable(index, soc) : /\ \A other \in Viable(index, soc) : ~Better(index, other, o)
                                        /\ Store(o, Cost(index, o))
    BY <1>4 DEF Evaluate
  <2>3. \A other \in Moves(index, soc) : Cost(index, o) <= Cost(index, other)
    BY <1>2, <2>1, <2>2 DEF Better
  <2> QED BY <1>1, <2>1, <2>2, <2>3, StoreKeepsOptimal
<1> QED BY <1>3, <1>4

LEMMA StepOptimal ==
  IInv /\ TableIsOptimal /\ [Next]_vars => TableIsOptimal'
<1> SUFFICES ASSUME IInv, TableIsOptimal, [Next]_vars PROVE TableIsOptimal'
  OBVIOUS
<1>1. CASE RollOut \/ UNCHANGED vars
  <2>1. /\ UNCHANGED <<context, costToGo, policy>>
        /\ \A i, s : Evaluated(i, s)' => Evaluated(i, s)
    BY <1>1 DEF RollOut, vars, Evaluated
  <2> QED BY <2>1, MovesUnchanged DEF TableIsOptimal, Cost, GridCost, Price
<1>2. CASE CallAgain
  BY <1>2, GridFacts DEF CallAgain, TableIsOptimal, Evaluated, Slots, Steps
<1> QED BY <1>1, <1>2, EvaluateKeepsOptimal DEF Next

LEMMA InitOptimal == Init => TableIsOptimal
BY GridFacts DEF Init, TableIsOptimal, Evaluated, Slots, Steps

Ends == [soc : Steps, cost : Int]
StartEnd == [soc |-> context.start, cost |-> 0]

LEMMA ContinuedTyped ==
  ASSUME context \in Contexts, NEW ends \in SUBSET Ends, NEW i \in Slots
  PROVE  Continued(ends, i) \in SUBSET Ends
<1> SUFFICES ASSUME NEW end \in ends, NEW o \in Moves(i, end.soc)
             PROVE  [soc |-> o.next, cost |-> end.cost + GridCost(i, o.grid)] \in Ends
  BY DEF Continued
<1>1. end.soc \in Steps /\ end.cost \in Int
  BY DEF Ends
<1>2. o.next \in Steps /\ o.grid \in Int
  BY <1>1, MovesTyped DEF Transitions
<1>3. GridCost(i, o.grid) \in Int
  <2>1. Price(i) \in Int /\ context.profiles[i].feedIn \in Int /\ Horizon * o.grid \in Int
    BY <1>2, ContextFacts, GridFacts
  <2> QED BY <2>1 DEF GridCost
<1> QED BY <1>1, <1>2, <1>3 DEF Ends

\* The ends of all sequences of outcomes, slot by slot.
IsEnds(f) ==
  /\ f \in [0 .. Horizon -> SUBSET Ends]
  /\ f[0] = {StartEnd}
  /\ \A i \in Slots : f[i] = Continued(f[i - 1], i)

LEMMA EndsFold ==
  ASSUME context \in Contexts
  PROVE  \E f : /\ IsEnds(f)
                /\ f[Horizon] = FoldLeft(Continued, {StartEnd}, [i \in Slots |-> i])
<1> DEFINE last == [s \in SUBSET Slots |-> Max(s)]
           op == [p \in (SUBSET Ends) \X Slots |-> Continued(p[1], p[2])]
           Partial(f) == f = [s \in SUBSET Slots |->
                                IF s = {} THEN {StartEnd}
                                ELSE Continued(f[s \ {Max(s)}], [i \in Slots |-> i][Max(s)])]
           iter == CHOOSE f : Partial(f)
<1>1. FoldLeft(Continued, {StartEnd}, [i \in Slots |-> i]) = iter[Slots]
  BY DEF FoldLeft, MapThenFoldSet
<1>2. IsFiniteSet(Slots) /\ Horizon \in Nat
  BY GridFacts, FS_Interval DEF Slots
<1>3. ASSUME NEW s \in SUBSET Slots, s # {}
      PROVE  Max(s) \in s /\ Max(s) \in Slots /\ \A x \in s : x <= Max(s)
  <2>1. s \in SUBSET (0 .. Horizon)
    BY <1>2 DEF Slots
  <2> QED BY <1>2, <1>3, <2>1, MaxOfBounded
<1>4. PICK g \in [SUBSET Slots -> SUBSET Ends] : Recursion(g, Slots, {StartEnd}, op, last)
  <2>1. Chooses(last, Slots)
    BY <1>3 DEF Chooses
  <2>2. op \in [(SUBSET Ends) \X Slots -> SUBSET Ends]
    BY ContinuedTyped
  <2>3. {StartEnd} \in SUBSET Ends
    BY ContextFacts DEF StartEnd, Ends
  <2> HIDE DEF op, last
  <2> QED BY <1>2, <2>1, <2>2, <2>3, FoldExists
<1>5. ASSUME NEW s \in SUBSET Slots
      PROVE  g[s] = IF s = {} THEN {StartEnd} ELSE Continued(g[s \ {Max(s)}], Max(s))
  <2>1. g[s] = IF s = {} THEN {StartEnd} ELSE op[<<g[s \ {last[s]}], last[s]>>]
    <3> HIDE DEF op, last
    <3> QED BY <1>4 DEF Recursion
  <2>2. last[s] = Max(s)
    OBVIOUS
  <2>3. CASE s # {}
    <3>1. <<g[s \ {Max(s)}], Max(s)>> \in (SUBSET Ends) \X Slots
      BY <1>3, <2>3
    <3> HIDE DEF last
    <3> QED BY <2>1, <2>2, <2>3, <3>1
  <2> QED BY <2>1, <2>3
<1>6. Partial(g)
  <2>1. g = [s \in SUBSET Slots |-> g[s]]
    OBVIOUS
  <2>2. \A s \in SUBSET Slots : s # {} => [i \in Slots |-> i][Max(s)] = Max(s)
    BY <1>3
  <2> QED BY <1>5, <2>1, <2>2
<1>7. Partial(iter)
  <2> HIDE DEF Partial
  <2> QED BY <1>6
<1>8. ASSUME NEW s \in SUBSET Slots
      PROVE  iter[s] = IF s = {} THEN {StartEnd} ELSE Continued(iter[s \ {Max(s)}], Max(s))
  <2>1. s # {} => [i \in Slots |-> i][Max(s)] = Max(s)
    BY <1>3
  <2> HIDE DEF iter
  <2> QED BY <1>7, <2>1
<1> HIDE DEF iter, Partial
<1> DEFINE f == [k \in 0 .. Horizon |-> iter[1 .. k]]
           Typed == {k \in Nat : k <= Horizon => iter[1 .. k] \in SUBSET Ends}
<1>9. ASSUME NEW i \in Slots PROVE iter[1 .. i] = Continued(iter[1 .. (i - 1)], i)
  <2>1. 1 .. i \in SUBSET Slots /\ 1 .. i # {} /\ i \in 1 .. i
    <3>1. i \in Nat /\ 1 <= i /\ i <= Horizon
      BY <1>2 DEF Slots
    <3> QED BY <1>2, <3>1 DEF Slots
  <2>2. Max(1 .. i) = i
    BY <1>3, <2>1
  <2>3. (1 .. i) \ {i} = 1 .. (i - 1)
    BY DEF Slots
  <2> QED BY <1>8, <2>1, <2>2, <2>3
<1>10. iter[1 .. 0] = {StartEnd}
  <2>1. 1 .. 0 = {} /\ {} \in SUBSET Slots
    OBVIOUS
  <2> QED BY <1>8, <2>1
<1>11. \A k \in Nat : k \in Typed
  <2>1. 0 \in Typed
    BY <1>10, ContextFacts DEF StartEnd, Ends
  <2>2. ASSUME NEW k \in Typed PROVE k + 1 \in Typed
    <3>1. CASE k + 1 <= Horizon
      <4>1. k + 1 \in Slots /\ k <= Horizon /\ (k + 1) - 1 = k
        BY <1>2, <3>1 DEF Slots
      <4>2. iter[1 .. (k + 1)] = Continued(iter[1 .. k], k + 1)
        BY <1>9, <4>1
      <4> QED BY <4>1, <4>2, ContinuedTyped
    <3> QED BY <3>1
  <2>3. Typed \in SUBSET Nat
    OBVIOUS
  <2> HIDE DEF Typed
  <2> QED BY <2>1, <2>2, <2>3, NatSetInduction
<1>12. IsEnds(f)
  <2>1. f \in [0 .. Horizon -> SUBSET Ends]
    BY <1>11
  <2>2. f[0] = {StartEnd}
    BY <1>2, <1>10
  <2>3. ASSUME NEW i \in Slots PROVE f[i] = Continued(f[i - 1], i)
    <3>1. i \in 0 .. Horizon /\ i - 1 \in 0 .. Horizon
      BY <1>2 DEF Slots
    <3> QED BY <1>9, <3>1
  <2> HIDE DEF f
  <2> QED BY <2>1, <2>2, <2>3 DEF IsEnds
<1>13. f[Horizon] = iter[Slots]
  BY <1>2 DEF Slots
<1> QED BY <1>1, <1>12, <1>13


\* Any sequence of outcomes costs at least what the table says, and one costs
\* just that.
LEMMA CheapestIsInTable ==
  ASSUME IInv, TableIsOptimal, phase = "roll"
  PROVE  PlanIsCheapest
<1> DEFINE best == costToGo[1][context.start]
           Whole(end, i) == end.cost + costToGo[i][end.soc]
<1>1. /\ context \in Contexts /\ Horizon \in Nat /\ Horizon > 0
      /\ costToGo \in [1 .. Horizon + 1 -> [Steps -> Int]]
      /\ context.start \in Steps
  BY ContextFacts, GridFacts DEF IInv, TypeOK
<1>2. PICK f : /\ IsEnds(f)
               /\ f[Horizon] = FoldLeft(Continued, {StartEnd}, [i \in Slots |-> i])
  BY <1>1, EndsFold
<1>3. \A i \in Slots, s \in Steps :
        /\ policy[i][s] \in Moves(i, s)
        /\ costToGo[i][s] = Cost(i, policy[i][s])
        /\ \A o \in Moves(i, s) : costToGo[i][s] <= Cost(i, o)
  BY DEF TableIsOptimal, Evaluated
<1>4. best \in Int
  BY <1>1
<1> DEFINE Minimal(k) == /\ \A end \in f[k] : best <= Whole(end, k + 1)
                         /\ \E end \in f[k] : best = Whole(end, k + 1)
           Holds == {k \in Nat : k <= Horizon => Minimal(k)}
<1>5. 0 \in Holds
  <2>1. f[0] = {StartEnd} /\ 0 + 1 = 1
    BY <1>2 DEF IsEnds
  <2>2. Whole(StartEnd, 1) = best
    BY <1>4 DEF StartEnd
  <2> HIDE DEF Whole, best
  <2> QED BY <1>4, <2>1, <2>2
<1>6. ASSUME NEW k \in Holds PROVE k + 1 \in Holds
  <2> SUFFICES ASSUME k + 1 <= Horizon PROVE Minimal(k + 1)
    OBVIOUS
  <2> DEFINE i == k + 1
  <2>1. k \in Nat /\ k <= Horizon /\ i \in Slots /\ i - 1 = k /\ i \in 1 .. Horizon + 1
        /\ i + 1 \in 1 .. Horizon + 1
    BY <1>1 DEF Slots
  <2>2. Minimal(k) /\ f[i] = Continued(f[k], i) /\ f[k] \in SUBSET Ends
    <3>1. Minimal(k)
      <4> HIDE DEF Minimal
      <4> QED BY <2>1
    <3>2. f[i] = Continued(f[i - 1], i) /\ f[k] \in SUBSET Ends
      <4>1. k \in 0 .. Horizon
        BY <1>1, <2>1
      <4> HIDE DEF i
      <4> QED BY <1>2, <2>1, <4>1 DEF IsEnds
    <3> HIDE DEF Minimal, i
    <3> QED BY <2>1, <3>1, <3>2
  <2>3. ASSUME NEW end \in f[k], NEW o \in Moves(i, end.soc)
        PROVE  LET next == [soc |-> o.next, cost |-> end.cost + GridCost(i, o.grid)]
               IN  /\ Whole(next, i + 1) = end.cost + Cost(i, o)
                   /\ end.cost \in Int /\ Cost(i, o) \in Int
    <3>1. end.soc \in Steps /\ end.cost \in Int
      BY <2>2 DEF Ends
    <3>2. o \in Transitions /\ o.next \in Steps /\ o.grid \in Int
      BY <1>1, <2>1, <3>1, MovesTyped DEF Transitions
    <3>3. GridCost(i, o.grid) \in Int /\ costToGo[i + 1][o.next] \in Int /\ Cost(i, o) \in Int
      BY <1>1, <2>1, <3>2, CostsAreInt DEF IInv
    <3> HIDE DEF i
    <3> QED BY <3>1, <3>3 DEF Cost
  <2>4. ASSUME NEW next \in f[i] PROVE best <= Whole(next, i + 1)
    <3>0. PICK end \in f[k] : \E o \in Moves(i, end.soc) :
                 next = [soc |-> o.next, cost |-> end.cost + GridCost(i, o.grid)]
      BY <2>2 DEF Continued
    <3>1. PICK o \in Moves(i, end.soc) :
                 next = [soc |-> o.next, cost |-> end.cost + GridCost(i, o.grid)]
      BY <3>0
    <3>2. end.soc \in Steps /\ end.cost \in Int
      BY <2>2 DEF Ends
    <3>3. best <= end.cost + costToGo[i][end.soc]
      BY <2>2
    <3>4. costToGo[i][end.soc] <= Cost(i, o) /\ costToGo[i][end.soc] \in Int
      BY <1>1, <1>3, <2>1, <3>2
    <3>5. Whole(next, i + 1) = end.cost + Cost(i, o) /\ Cost(i, o) \in Int
      BY <2>3, <3>1
    <3> HIDE DEF Whole, best, i
    <3> QED BY <1>4, <3>2, <3>3, <3>4, <3>5
  <2>5. \E next \in f[i] : best = Whole(next, i + 1)
    <3>1. PICK end \in f[k] : best = Whole(end, i)
      BY <2>2
    <3>2. end.soc \in Steps /\ end.cost \in Int
      BY <2>2 DEF Ends
    <3> DEFINE o == policy[i][end.soc]
               next == [soc |-> o.next, cost |-> end.cost + GridCost(i, o.grid)]
    <3>3. o \in Moves(i, end.soc) /\ costToGo[i][end.soc] = Cost(i, o)
      BY <1>3, <2>1, <3>2
    <3> HIDE DEF o
    <3>4. next \in f[i]
      <4>1. next \in {[soc |-> q.next, cost |-> end.cost + GridCost(i, q.grid)] :
                        q \in Moves(i, end.soc)}
        BY <3>3
      <4> HIDE DEF next, i
      <4> QED BY <2>2, <4>1 DEF Continued
    <3>5. Whole(next, i + 1) = end.cost + Cost(i, o)
      BY <2>3, <3>3
    <3> HIDE DEF next
    <3> QED BY <3>1, <3>3, <3>4, <3>5
  <2> QED BY <2>4, <2>5
<1>7. Minimal(Horizon)
  <2>1. Holds \in SUBSET Nat
    OBVIOUS
  <2> HIDE DEF Holds
  <2>2. Horizon \in Holds
    BY <1>1, <1>5, <1>6, <2>1, NatSetInduction
  <2> QED BY <1>1, <2>2 DEF Holds
<1> DEFINE costs == {end.cost + costToGo[Horizon + 1][end.soc] : end \in f[Horizon]}
<1>8. Min(costs) = best
  <2>1. costs \in SUBSET Int
    <3> SUFFICES ASSUME NEW end \in f[Horizon]
                 PROVE  end.cost + costToGo[Horizon + 1][end.soc] \in Int
      OBVIOUS
    <3>1. end.soc \in Steps /\ end.cost \in Int
      BY <1>1, <1>2 DEF IsEnds, Ends
    <3> QED BY <1>1, <3>1
  <2>2. best \in costs /\ \A x \in costs : best <= x
    <3> HIDE DEF best
    <3> QED BY <1>7
  <2> HIDE DEF costs, best
  <2> QED BY <2>1, <2>2, MinIs
<1> QED BY <1>2, <1>8 DEF PlanIsCheapest, StartEnd

-----------------------------------------------------------------------------
(* The plan costs what it was chosen for                                   *)

Roundings == [i \in Slots |-> Rounding(i)]
Left(n) == SumFunctionOnSet(Roundings, 1 .. n)
Difference == costTotal + costToGo[index][soc] - costToGo[1][context.start]

\* What the rolled out slots cost and what the rest is to cost differ from what
\* the plan was chosen for by the small exchanges left out so far.
TotalIsPlan ==
  /\ phase = "back" => costTotal = 0
  /\ phase = "done" => index = Horizon + 1
  /\ phase # "back" => -Left(index - 1) <= Difference /\ Difference <= Left(index - 1)

LEMMA ProductBound ==
  ASSUME NEW a \in Nat, NEW b \in Nat, NEW c \in Nat, NEW d \in Nat, a <= c, b <= d
  PROVE  a * b \in Nat /\ c * d \in Nat /\ a * b <= c * d
<1>1. a * b \in Nat /\ c * b \in Nat /\ c * d \in Nat
  OBVIOUS
<1>2. a * b <= c * b
  <2>1. PICK e \in Nat : c = a + e
    <3>1. c - a \in Nat /\ c = a + (c - a)
      OBVIOUS
    <3> QED BY <3>1
  <2>2. c * b = a * b + e * b /\ e * b \in Nat
    BY <2>1
  <2> QED BY <1>1, <2>2
<1>3. c * b <= c * d
  <2>1. PICK e \in Nat : d = b + e
    <3>1. d - b \in Nat /\ d = b + (d - b)
      OBVIOUS
    <3> QED BY <3>1
  <2>2. c * d = c * b + c * e /\ c * e \in Nat
    BY <2>1
  <2> QED BY <1>1, <2>2
<1> QED BY <1>1, <1>2, <1>3

LEMMA RoundingTyped ==
  ASSUME context \in Contexts
  PROVE  Roundings \in [Slots -> Int]
<1>1. ASSUME NEW i \in Slots PROVE Rounding(i) \in Int
  <2>1. Price(i) \in Int /\ context.profiles[i].feedIn \in Int
    BY ContextFacts
  <2>2. AtLeast(Magnitude(Price(i)), Magnitude(context.profiles[i].feedIn)) \in Int
    BY <2>1 DEF AtLeast, Magnitude
  <2>3. Horizon * Threshold \in Int
    BY GridFacts
  <2> QED BY <2>2, <2>3 DEF Rounding
<1> QED BY <1>1 DEF Roundings

\* Leaving out a small exchange changes the cost by at most Rounding.
LEMMA ReportedCost ==
  ASSUME context \in Contexts, NEW i \in Slots, NEW grid \in Int
  PROVE  LET change == GridCost(i, Reported(grid)) - GridCost(i, grid)
         IN  -Rounding(i) <= change /\ change <= Rounding(i)
<1> DEFINE price == Price(i)
           feedIn == context.profiles[i].feedIn
           most == AtLeast(Magnitude(price), Magnitude(feedIn))
           paid == IF grid >= 0 THEN price ELSE feedIn
<1>1. price \in Int /\ feedIn \in Int /\ Horizon \in Nat /\ Threshold \in Nat
  BY ContextFacts, GridFacts
<1>2. most \in Nat /\ -most <= price /\ price <= most /\ -most <= feedIn /\ feedIn <= most
  <2> HIDE DEF price, feedIn
  <2> QED BY <1>1 DEF AtLeast, Magnitude
<1>3. Rounding(i) = Horizon * Threshold * most
  BY DEF Rounding
<1>4. GridCost(i, grid) = Horizon * grid * paid
  BY DEF GridCost
<1>5. paid \in Int /\ -most <= paid /\ paid <= most
  <2> HIDE DEF price, feedIn, most
  <2> QED BY <1>1, <1>2
<1> HIDE DEF price, feedIn, most, paid
<1>6. Horizon * Threshold \in Nat /\ Horizon * Threshold * most \in Nat
  BY <1>1, <1>2
<1>7. CASE -Threshold < grid /\ grid < Threshold
  <2>1. Reported(grid) = 0
    BY <1>7 DEF Reported
  <2>2. GridCost(i, 0) = 0
    <3>1. Horizon * 0 = 0
      BY <1>1
    <3>2. GridCost(i, 0) = Horizon * 0 * price
      BY DEF GridCost, price
    <3> QED BY <1>1, <3>1, <3>2
  <2> DEFINE size == IF grid >= 0 THEN grid ELSE -grid
             rate == IF paid >= 0 THEN paid ELSE -paid
  <2>3. size \in Nat /\ rate \in Nat /\ size <= Threshold /\ rate <= most
    BY <1>1, <1>2, <1>5, <1>7
  <2>4. grid * paid = size * rate \/ grid * paid = -(size * rate)
    BY <1>5
  <2> HIDE DEF size, rate
  <2>5. size * rate \in Nat /\ Threshold * most \in Nat /\ size * rate <= Threshold * most
    BY <1>1, <1>2, <2>3, ProductBound
  <2>6. /\ Horizon * (size * rate) \in Nat
        /\ Horizon * (size * rate) <= Horizon * (Threshold * most)
    BY <1>1, <2>5, ProductBound
  <2>7. Horizon * grid * paid = Horizon * (grid * paid)
    BY <1>1, <1>5
  <2>8. Horizon * Threshold * most = Horizon * (Threshold * most)
    BY <1>1, <1>2
  <2>9. Horizon * (-(size * rate)) = -(Horizon * (size * rate))
    BY <1>1, <2>5
  <2>10. \/ GridCost(i, grid) = Horizon * (size * rate)
         \/ GridCost(i, grid) = -(Horizon * (size * rate))
    BY <1>4, <2>4, <2>7, <2>9
  <2>11. Rounding(i) = Horizon * (Threshold * most) /\ Rounding(i) \in Nat
    BY <1>3, <1>6, <2>8
  <2> QED BY <2>1, <2>2, <2>6, <2>10, <2>11
<1>8. CASE ~(-Threshold < grid /\ grid < Threshold)
  <2>1. Reported(grid) = grid
    BY <1>8 DEF Reported
  <2>2. GridCost(i, grid) \in Int
    BY <1>1, <1>4, <1>5
  <2> QED BY <1>3, <1>6, <2>1, <2>2
<1> QED BY <1>7, <1>8

LEMMA RoundingUnchanged ==
  ASSUME context' = context
  PROVE  Roundings' = Roundings
BY DEF Roundings, Rounding, Price

LEMMA RollOutKeepsTotal ==
  ASSUME IInv, IInv', TableIsOptimal, TotalIsPlan, RollOut
  PROVE  TotalIsPlan'
<1> DEFINE t == policy[index][soc]
           best == costToGo[1][context.start]
           change == GridCost(index, Reported(t.grid)) - GridCost(index, t.grid)
<1>1. /\ phase = "roll" /\ context \in Contexts /\ index \in Slots /\ soc \in Steps
      /\ costToGo \in [1 .. Horizon + 1 -> [Steps -> Int]] /\ costTotal \in Int
      /\ context.start \in Steps
      /\ Horizon \in Nat /\ index + 1 \in 1 .. Horizon + 1 /\ index \in 1 .. Horizon + 1
      /\ 1 \in 1 .. Horizon + 1
  <2>1. TypeOK /\ context \in Contexts
    BY DEF IInv
  <2>2. phase = "roll"
    BY DEF RollOut
  <2>3. /\ index \in Slots /\ soc \in Steps /\ costTotal \in Int
        /\ costToGo \in [1 .. Horizon + 1 -> [Steps -> Int]]
    BY <2>1, <2>2 DEF TypeOK
  <2>4. context.start \in Steps
    BY <2>1, ContextFacts
  <2>5. Horizon \in Nat
    BY GridFacts
  <2>6. index + 1 \in 1 .. Horizon + 1 /\ index \in 1 .. Horizon + 1 /\ 1 \in 1 .. Horizon + 1
    BY <2>3, <2>5 DEF Slots
  <2> QED BY <2>1, <2>2, <2>3, <2>4, <2>5, <2>6
<1>2. t \in Transitions /\ costToGo[index][soc] = Cost(index, t)
  BY <1>1, MovesTyped DEF TableIsOptimal, Evaluated
<1>3. /\ costTotal' = costTotal + GridCost(index, Reported(t.grid))
      /\ soc' = t.next /\ index' = index + 1
      /\ phase' = IF index = Horizon THEN "done" ELSE "roll"
      /\ UNCHANGED <<context, costToGo>>
  BY DEF RollOut
<1>4. t.next \in Steps /\ t.grid \in Int /\ Reported(t.grid) \in Int
  BY <1>2 DEF Transitions, Reported
<1>5. /\ GridCost(index, Reported(t.grid)) \in Int /\ GridCost(index, t.grid) \in Int
      /\ costToGo[index + 1][t.next] \in Int /\ costToGo[index][soc] \in Int /\ best \in Int
  BY <1>1, <1>4, CostsAreInt DEF IInv
<1>6. costToGo[index][soc] = GridCost(index, t.grid) + costToGo[index + 1][t.next]
  BY <1>2 DEF Cost
<1> DEFINE reported == GridCost(index, Reported(t.grid))
           planned == GridCost(index, t.grid)
           rest == costToGo[index + 1][t.next]
           here == costToGo[index][soc]
<1>7. Difference' = costTotal + reported + rest - best
  <2> HIDE DEF t
  <2> QED BY <1>3 DEF Difference
<1>8. Difference = costTotal + here - best
  BY DEF Difference
<1>a. /\ {reported, planned, rest, here, best, costTotal} \subseteq Int
      /\ here = planned + rest /\ change = reported - planned
  BY <1>1, <1>5, <1>6
<1>9. Difference' = Difference + change /\ Difference \in Int /\ change \in Int
  <2> HIDE DEF reported, planned, rest, here, best, change
  <2> QED BY <1>7, <1>8, <1>a
<1>10. -Rounding(index) <= change /\ change <= Rounding(index) /\ Rounding(index) \in Int
  <2>1. Roundings[index] \in Int /\ Roundings[index] = Rounding(index)
    BY <1>1, RoundingTyped DEF Roundings
  <2> HIDE DEF t
  <2> QED BY <1>1, <1>4, <2>1, ReportedCost
<1>11. Left(index) = Left(index - 1) + Rounding(index) /\ Left(index - 1) \in Int
  <2>1. /\ 1 .. index \subseteq Slots /\ 1 .. (index - 1) \subseteq Slots /\ index \in 1 .. index
        /\ (1 .. index) \ {index} = 1 .. (index - 1)
    BY <1>1 DEF Slots
  <2>2. IsFiniteSet(1 .. index) /\ IsFiniteSet(1 .. (index - 1))
    BY <1>1, FS_Interval DEF Slots
  <2> DEFINE slots == 1 .. index
  <2>3. Left(index) = SumFunctionOnSet(Roundings, slots \ {index}) + Roundings[index]
    <3>1. Left(index) = SumFunctionOnSet(Roundings, slots)
      BY DEF Left
    <3>2. Roundings \in [Slots -> Int] /\ IsFiniteSet(slots) /\ slots \subseteq Slots /\ index \in slots
      BY <1>1, <2>1, <2>2, RoundingTyped
    <3> HIDE DEF slots
    <3> QED BY <3>1, <3>2, SumSplit
  <2>4. Left(index - 1) \in Int
    BY <1>1, <2>1, <2>2, RoundingTyped, SumType DEF Left
  <2> QED BY <1>1, <2>1, <2>3, <2>4 DEF Left, Roundings
<1>12. Left(index - 1)' = Left(index)
  <2>1. Left(index - 1)' = SumFunctionOnSet(Roundings', 1 .. (index' - 1))
    BY DEF Left
  <2>2. index' - 1 = index
    BY <1>1, <1>3 DEF Slots
  <2> QED BY <1>3, <2>1, <2>2, RoundingUnchanged DEF Left
<1>13. -Left(index - 1) <= Difference /\ Difference <= Left(index - 1)
  BY <1>1 DEF TotalIsPlan
<1>14. (-Left(index - 1) <= Difference /\ Difference <= Left(index - 1))'
  <2> HIDE DEF change
  <2> QED BY <1>9, <1>10, <1>11, <1>12, <1>13
<1> QED BY <1>1, <1>3, <1>14 DEF TotalIsPlan

LEMMA EvaluateKeepsTotal ==
  ASSUME IInv, IInv', TotalIsPlan, Evaluate
  PROVE  TotalIsPlan'
<1>1. /\ phase = "back" /\ NextEntry /\ UNCHANGED <<context, entries, costTotal>>
      /\ context \in Contexts
  BY DEF Evaluate, IInv
<1>2. /\ phase' \in {"back", "roll"}
      /\ phase' = "roll" => index' = 1 /\ soc' = context.start
  BY <1>1, NextEntryCovers
<1>3. costTotal' = 0
  BY <1>1 DEF TotalIsPlan
<1>4. ASSUME phase' = "roll" PROVE Difference' = 0 /\ Left(index - 1)' = 0
  <2>1. costToGo'[1][context'.start] \in Int
    <3>1. context'.start \in Steps
      BY <1>1, ContextFacts
    <3>2. TypeOK'
      BY DEF IInv
    <3>3. costToGo' \in [1 .. Horizon + 1 -> [Steps -> Int]]
      BY <3>2 DEF TypeOK
    <3>4. 1 \in 1 .. Horizon + 1
      BY GridFacts
    <3> QED BY <3>1, <3>3, <3>4
  <2>2. Difference' = 0 + costToGo'[1][context'.start] - costToGo'[1][context'.start]
    BY <1>1, <1>2, <1>3, <1>4 DEF Difference
  <2>3. Left(index - 1)' = SumFunctionOnSet(Roundings', 1 .. (1 - 1))
    BY <1>2, <1>4 DEF Left
  <2>4. 1 .. (1 - 1) = {}
    OBVIOUS
  <2>5. SumFunctionOnSet(Roundings, {}) = 0
    BY <1>1, RoundingTyped, SumEmpty
  <2> QED BY <1>1, <2>1, <2>2, <2>3, <2>4, <2>5, RoundingUnchanged
<1> QED BY <1>2, <1>3, <1>4 DEF TotalIsPlan

LEMMA StepTotal ==
  IInv /\ IInv' /\ TableIsOptimal /\ TotalIsPlan /\ [Next]_vars => TotalIsPlan'
<1> SUFFICES ASSUME IInv, IInv', TableIsOptimal, TotalIsPlan, [Next]_vars PROVE TotalIsPlan'
  OBVIOUS
<1>1. CASE CallAgain
  BY <1>1 DEF CallAgain, TotalIsPlan
<1>2. CASE UNCHANGED vars
  BY <1>2, RoundingUnchanged DEF vars, TotalIsPlan, Difference, Left
<1> QED BY <1>1, <1>2, EvaluateKeepsTotal, RollOutKeepsTotal DEF Next

LEMMA InitTotal == Init => TotalIsPlan
BY DEF Init, TotalIsPlan

-----------------------------------------------------------------------------
(* The command                                                             *)

\* A plan is a sequence of transitions that count, each from where the one
\* before has led.
PlanIsChained ==
  /\ phase = "done" => Len(entries) = Horizon
  /\ phase # "back" =>
       soc = IF Len(entries) = 0 THEN context.start ELSE entries[Len(entries)].next
  /\ Len(entries) > 0 => entries[1].from = context.start
  /\ \A k \in DOMAIN entries :
       k + 1 \in DOMAIN entries => entries[k + 1].from = entries[k].next
  /\ \A k \in DOMAIN entries :
       \E o \in Moves(k, entries[k].from) : o.mode = entries[k].mode /\ o.next = entries[k].next

LEMMA RollOutKeepsChain ==
  ASSUME IInv, TableIsOptimal, PlanIsChained, RollOut
  PROVE  PlanIsChained'
<1> DEFINE t == policy[index][soc]
           e == [mode |-> t.mode, from |-> soc, next |-> t.next,
                 grid |-> Reported(t.grid), extra |-> t.extra]
           n == Len(entries)
<1>1. /\ phase = "roll" /\ index \in Slots /\ soc \in Steps
      /\ n = index - 1 /\ n \in Nat /\ entries \in Seq(Entries)
      /\ Horizon \in Nat
  BY GridFacts DEF IInv, TypeOK, Progress, RollOut
<1>2. t \in Moves(index, soc)
  BY <1>1 DEF TableIsOptimal, Evaluated
<1>3. /\ entries' = Append(entries, e) /\ soc' = t.next /\ UNCHANGED context
      /\ phase' = IF index = Horizon THEN "done" ELSE "roll"
  BY DEF RollOut
<1>4. \A i, s : Moves(i, s)' = Moves(i, s)
  BY <1>3, MovesUnchanged
<1>5. /\ Len(entries') = n + 1 /\ entries'[n + 1] = e /\ n + 1 = index
      /\ DOMAIN entries' = 1 .. n + 1 /\ DOMAIN entries = 1 .. n
      /\ \A k \in DOMAIN entries : entries'[k] = entries[k]
  <2> HIDE DEF e
  <2> QED BY <1>1, <1>3 DEF Slots
<1>6. e.from = soc /\ e.next = t.next /\ e.mode = t.mode
  OBVIOUS
<1>7. soc = IF n = 0 THEN context.start ELSE entries[n].next
  BY <1>1 DEF PlanIsChained
<1>a. n > 0 => entries[1].from = context.start
  BY DEF PlanIsChained
<1>b. n = 0 \/ n > 0
  <2>1. n \in Nat
    BY <1>1
  <2> HIDE DEF n
  <2> QED BY <2>1
<1> HIDE DEF e, t, n
<1>8. phase' = "done" => Len(entries') = Horizon
  BY <1>1, <1>3, <1>5
<1>9. soc' = entries'[Len(entries')].next /\ Len(entries') # 0
  BY <1>1, <1>3, <1>5, <1>6
<1>10. entries'[1].from = context.start
  <2>1. CASE n = 0
    <3>1. entries'[1] = e
      BY <1>5, <2>1
    <3>2. e.from = context.start
      BY <1>6, <1>7, <2>1
    <3> QED BY <3>1, <3>2
  <2>2. CASE n # 0
    <3>1. 1 \in DOMAIN entries
      BY <1>1, <1>5, <2>2
    <3>2. entries[1].from = context.start
      BY <1>a, <1>b, <2>2
    <3> QED BY <1>5, <3>1, <3>2
  <2> QED BY <2>1, <2>2
<1>11. ASSUME NEW k \in DOMAIN entries', k + 1 \in DOMAIN entries'
       PROVE  entries'[k + 1].from = entries'[k].next
  <2>1. k \in DOMAIN entries /\ entries'[k] = entries[k]
    BY <1>1, <1>5, <1>11
  <2>2. CASE k + 1 \in DOMAIN entries
    BY <1>5, <2>1, <2>2 DEF PlanIsChained
  <2>3. CASE k + 1 \notin DOMAIN entries
    <3>1. k = n /\ n # 0
      BY <1>1, <1>5, <1>11, <2>1, <2>3
    <3> QED BY <1>5, <1>6, <1>7, <2>1, <3>1
  <2> QED BY <2>2, <2>3
<1>12. ASSUME NEW k \in DOMAIN entries'
       PROVE  \E o \in Moves(k, entries'[k].from) :
                o.mode = entries'[k].mode /\ o.next = entries'[k].next
  <2>1. CASE k \in DOMAIN entries
    BY <1>5, <2>1 DEF PlanIsChained
  <2>2. CASE k \notin DOMAIN entries
    <3>1. k = index /\ entries'[k] = e
      BY <1>1, <1>5, <1>12, <2>2
    <3> QED BY <1>2, <1>6, <3>1
  <2> QED BY <2>1, <2>2
<1> QED
  BY <1>3, <1>4, <1>8, <1>9, <1>10, <1>11, <1>12 DEF PlanIsChained

LEMMA StepChained ==
  IInv /\ TableIsOptimal /\ PlanIsChained /\ [Next]_vars => PlanIsChained'
<1> SUFFICES ASSUME IInv, TableIsOptimal, PlanIsChained, [Next]_vars PROVE PlanIsChained'
  OBVIOUS
<1>1. CASE Evaluate
  <2>1. /\ phase = "back" /\ NextEntry /\ UNCHANGED <<context, entries>>
        /\ Len(entries) = 0 /\ entries = <<>>
    BY <1>1 DEF Evaluate, IInv, Progress, TypeOK
  <2>2. phase' \in {"back", "roll"} /\ (phase' = "roll" => soc' = context.start)
    BY <2>1, NextEntryCovers
  <2> QED BY <2>1, <2>2 DEF PlanIsChained
<1>2. CASE CallAgain
  BY <1>2 DEF CallAgain, PlanIsChained
<1>3. CASE UNCHANGED vars
  BY <1>3, MovesUnchanged DEF vars, PlanIsChained
<1> QED BY <1>1, <1>2, <1>3, RollOutKeepsChain DEF Next

LEMMA InitChained == Init => PlanIsChained
BY DEF Init, PlanIsChained

-----------------------------------------------------------------------------
(* Percentages                                                             *)

\* What lies between whole percents is rounded to between them.
LEMMA RoundedBetween ==
  ASSUME NEW p \in Int, NEW a \in Int, NEW b \in Int, Parts * a <= p, p <= Parts * b
  PROVE  Rounded(p) \in Int /\ a <= Rounded(p) /\ Rounded(p) <= b
<1>1. PICK e \in Nat : e = Parts /\ e > 0
  BY PartsAssumption
<1>2. 2 * e \in Nat /\ 2 * e > 0 /\ 2 * p + e \in Int
  BY <1>1
<1>3. a * (2 * e) <= 2 * p + e
  <2>1. a * (2 * e) = 2 * (e * a) /\ e * a \in Int
    BY <1>1
  <2> QED BY <1>1, <2>1
<1>4. 2 * p + e < (b + 1) * (2 * e)
  <2>1. (b + 1) * (2 * e) = 2 * (e * b) + 2 * e /\ e * b \in Int
    BY <1>1
  <2> QED BY <1>1, <2>1
<1>5. /\ (2 * p + e) \div (2 * e) \in Int
      /\ a <= (2 * p + e) \div (2 * e) /\ (2 * p + e) \div (2 * e) <= b
  BY <1>2, <1>3, <1>4, DivBetween
<1> QED BY <1>1, <1>5 DEF Rounded

LEMMA RoundedWhole ==
  ASSUME NEW s \in Int
  PROVE  Rounded(Parts * s) = s
<1>1. PICK x \in Int : x = Parts * s
  BY PartsAssumption
<1>2. Rounded(x) \in Int /\ s <= Rounded(x) /\ Rounded(x) <= s
  <2>1. Parts * s <= x /\ x <= Parts * s
    BY <1>1
  <2> QED BY <2>1, RoundedBetween
<1> QED BY <1>1, <1>2

LEMMA RoundedMonotone ==
  ASSUME NEW p \in Int, NEW q \in Int, p <= q
  PROVE  Rounded(p) <= Rounded(q)
<1>1. PICK e \in Nat : e = 2 * Parts /\ e > 0
  BY PartsAssumption
<1> DEFINE x == 2 * p + Parts
           y == 2 * q + Parts
<1>2. x \in Int /\ y \in Int /\ x <= y
  BY PartsAssumption
<1> HIDE DEF x, y
<1>3. PICK a \in Int : a * e <= x
  <2>1. x \div e \in Int /\ (x \div e) * e <= x
    BY <1>1, <1>2
  <2> QED BY <2>1
<1>4. PICK b \in Int : b = y \div e /\ y < (b + 1) * e
  <2>1. y \div e \in Int /\ y < (y \div e + 1) * e
    BY <1>1, <1>2
  <2> QED BY <2>1
<1>5. x < (b + 1) * e
  BY <1>1, <1>2, <1>4
<1>6. x \div e <= b
  BY <1>1, <1>2, <1>3, <1>5, DivBetween
<1> QED BY <1>1, <1>4, <1>6 DEF Rounded, x, y

\* A whole percentage is itself, moved into the range of bounds that round to it or
\* to either side of it.
LEMMA BoundsRoundAround ==
  ASSUME NEW low \in Int, NEW high \in Int, NEW s \in Int,
         Rounded(AtMost(high, low)) <= s, s <= Rounded(high)
  PROVE  Rounded(AtMost(high, AtLeast(low, Parts * s))) = s
<1>1. PICK x \in Int : x = Parts * s
  BY PartsAssumption
<1>2. Rounded(x) = s
  BY <1>1, RoundedWhole
<1>3. Rounded(low) \in Int /\ Rounded(high) \in Int
  <2>1. \A p \in Int : Rounded(p) \in Int
    BY PartsAssumption DEF Rounded
  <2> QED BY <2>1
<1>4. CASE low > x
  <2>1. s <= Rounded(low)
    BY <1>2, <1>4, RoundedMonotone
  <2>2. CASE low > high
    BY <1>1, <1>3, <1>4, <2>2 DEF AtMost, AtLeast
  <2>3. CASE low <= high
    BY <1>1, <1>3, <1>4, <2>1, <2>3 DEF AtMost, AtLeast
  <2> QED BY <2>2, <2>3
<1>5. CASE low <= x /\ x <= high
  BY <1>1, <1>2, <1>5 DEF AtMost, AtLeast
<1>6. CASE low <= x /\ x > high
  <2>1. Rounded(high) <= s
    BY <1>2, <1>6, RoundedMonotone
  <2> QED BY <1>1, <1>3, <1>6, <2>1 DEF AtMost, AtLeast
<1> QED BY <1>1, <1>4, <1>5, <1>6

\* Rounding a bounded part is a whole number between any percents around the range.
LEMMA ClampPercentBetween ==
  ASSUME NEW s \in Int, NEW range, range.low \in Int, range.high \in Int,
         NEW a \in Int, NEW b \in Int,
         Parts * a <= range.high, range.high <= Parts * b,
         Parts * a <= range.low, range.low <= Parts * b
  PROVE  /\ ClampPercent(s, range) \in Int
         /\ a <= ClampPercent(s, range) /\ ClampPercent(s, range) <= b
<1>1. PICK x \in Int : x = Parts * s
  BY PartsAssumption
<1>2. PICK u \in Int : u = Parts * a
  BY PartsAssumption
<1>3. PICK v \in Int : v = Parts * b
  BY PartsAssumption
<1> DEFINE y == Bounded(x, range)
<1>4. y \in Int /\ u <= y /\ y <= v
  BY <1>2, <1>3 DEF Bounded, AtLeast, AtMost
<1> HIDE DEF y
<1>5. Rounded(y) \in Int /\ a <= Rounded(y) /\ Rounded(y) <= b
  BY <1>2, <1>3, <1>4, RoundedBetween
<1> QED BY <1>1, <1>5 DEF ClampPercent, y

\* What the backend makes of a number is a percentage.
LEMMA InBackendTyped ==
  ASSUME context \in Contexts, context.sent, NEW s \in Int
  PROVE  InBackend(s) \in Steps
<1>1. /\ context.range.low \in 0 .. Parts * Top /\ context.range.high \in 0 .. Parts * Top
  BY SentAssumption
<1>2. PICK full \in Int : full = Parts * Top
  BY GridFacts, PartsAssumption
<1>3. /\ context.range.low \in Int /\ context.range.high \in Int
      /\ 0 <= context.range.low /\ context.range.low <= full
      /\ 0 <= context.range.high /\ context.range.high <= full
  BY <1>1, <1>2
<1>4. Parts * 0 = 0 /\ 0 \in Int /\ Top \in Int
  BY GridFacts, PartsAssumption
<1> DEFINE range == context.range
<1>5. /\ ClampPercent(s, range) \in Int
      /\ 0 <= ClampPercent(s, range) /\ ClampPercent(s, range) <= Top
  <2> HIDE DEF range
  <2> QED BY <1>2, <1>3, <1>4, ClampPercentBetween DEF range
<1> QED BY <1>4, <1>5 DEF InBackend, Steps

\* A charge the plan may use is the backend's as it is.
LEMMA InBackendKeeps ==
  ASSUME context \in Contexts, context.sent, NEW s \in Int, InRange(s)
  PROVE  InBackend(s) = s
<1>1. context.floor \in Int /\ context.ceiling \in Int
  BY ContextFacts DEF Steps
<1>2. s \in context.floor .. context.ceiling
  BY <1>1 DEF InRange
<1> QED BY <1>2, SentAssumption DEF InBackend
-----------------------------------------------------------------------------
(* The charge mode's targets                                               *)

\* A target can be reached or is somewhat less: it is a number up to the ceiling,
\* unless that lies below the charge already.
LEMMA TargetTyped ==
  ASSUME context \in Contexts, NEW i \in Slots, NEW s \in Steps, NEW t \in ChargeTargets(i, s)
  PROVE  /\ t \in Int
         /\ InRange(s) => t <= context.ceiling
<1> DEFINE high == context.ceiling
           reached == BestCharge("charge", i, s, high, high, context.gridLimit, FALSE)
           highest == IF reached = {} THEN {high} ELSE {o.next : o \in reached}
           above == {u \in {h - d : h \in highest, d \in Offsets} : u > s}
<1>1. /\ high \in Steps /\ high \in Int /\ s \in Int /\ context.floor \in Int
      /\ context.floor <= high /\ "charge" \in Modes
  BY ContextFacts DEF Steps, Modes
<1>2. ASSUME NEW o \in reached PROVE o.next \in Int /\ o.next <= high
  <2>1. PICK n \in s .. high : /\ o = Outcome("charge", i, s, n, high)
                               /\ Fits(o, s, context.gridLimit, FALSE)
    BY BestChargeFits
  <2> HIDE DEF high
  <2>2. n \in Int
    BY <1>1, <2>1
  <2>3. o.next = Clamp(n, context.floor, high)
    BY <1>1, <2>1, <2>2, OutcomeTyped
  <2> QED BY <1>1, <2>2, <2>3 DEF Clamp, AtLeast, AtMost
<1>3. ASSUME NEW h \in highest PROVE h \in Int /\ h <= high
  <2> HIDE DEF high, reached
  <2> QED BY <1>1, <1>2
<1>4. Offsets \subseteq Nat
  BY GridAssumption
<1>5. t \in (IF above # {} THEN above ELSE {AtLeast(s, h) : h \in highest})
  <2>1. ChargeTargets(i, s) = IF above # {} THEN above ELSE {AtLeast(s, h) : h \in highest}
    BY DEF ChargeTargets
  <2> HIDE DEF above, highest
  <2> QED BY <2>1
<1> HIDE DEF high, highest
<1>6. CASE t \in above
  <2>1. PICK h, d : h \in highest /\ d \in Offsets /\ t = h - d
    BY <1>6
  <2>2. h \in Int /\ d \in Nat /\ h <= high
    BY <1>3, <1>4, <2>1
  <2> QED BY <1>1, <2>1, <2>2 DEF high
<1>7. CASE t \in {AtLeast(s, h) : h \in highest}
  <2>1. PICK h \in highest : t = AtLeast(s, h)
    BY <1>7
  <2>2. h \in Int /\ h <= high
    BY <1>3, <2>1
  <2> QED BY <1>1, <2>1, <2>2 DEF high, AtLeast, InRange
<1> QED BY <1>5, <1>6, <1>7

\* A target is never exceeded.
LEMMA TargetBounds ==
  ASSUME context \in Contexts, NEW i \in Slots, NEW s \in Steps, InRange(s),
         NEW t \in Int, t <= context.ceiling, NEW o \in ChargeTo(i, s, t)
  PROVE  o.next <= AtLeast(s, t)
<1> DEFINE to == AtLeast(s, Grid(t))
<1>1. /\ context.floor \in Int /\ context.ceiling \in Int /\ context.ceiling \in Steps
      /\ s \in Int /\ context.floor <= s /\ s <= context.ceiling /\ "charge" \in Modes
  BY ContextFacts DEF Steps, Modes, InRange
<1>2. to \in Int /\ to = AtLeast(s, t) /\ s <= to /\ to <= context.ceiling
  BY <1>1 DEF Grid, Clamp, AtLeast, AtMost
<1>3. ASSUME NEW n \in Int, s <= n, n <= to, o = Outcome("charge", i, s, n, context.ceiling)
      PROVE  o.next <= to
  <2> HIDE DEF to
  <2>1. o.next = Clamp(n, context.floor, context.ceiling)
    BY <1>1, <1>3, OutcomeTyped
  <2> QED BY <1>1, <1>2, <1>3, <2>1 DEF Clamp, AtLeast, AtMost
<1>4. CASE o \in BestCharge("charge", i, s, to, context.ceiling, context.gridLimit, FALSE)
  <2> HIDE DEF to
  <2>1. PICK n \in s .. to : /\ o = Outcome("charge", i, s, n, context.ceiling)
                             /\ Fits(o, s, context.gridLimit, FALSE)
    BY <1>4, BestChargeFits
  <2> QED BY <1>1, <1>2, <1>3, <2>1
<1>5. CASE o = Outcome("charge", i, s, s, context.ceiling)
  <2> HIDE DEF to
  <2> QED BY <1>1, <1>2, <1>3, <1>5
<1> QED BY <1>2, <1>4, <1>5 DEF ChargeTo

\* A planned charge has a target that leads to it.
LEMMA ChargeHasTarget ==
  ASSUME context \in Contexts, NEW i \in Slots, NEW s \in Steps,
         NEW o \in Moves(i, s), o.mode = "charge"
  PROVE  \E t \in ChargeTargets(i, s) : o \in ChargeTo(i, s, t)
<1>1. o \in Viable(i, s)
  BY DEF Moves, Fallback
<1>2. o \in AutoMode(i, s) \cup HoldMode(i, s) \cup LimitMode(i, s) \cup ChargeMode(i, s)
  BY <1>1 DEF Viable, Outcomes
<1>3. ASSUME NEW mode, NEW keep, NEW high, NEW x \in SelfRun(mode, i, s, keep, high)
      PROVE  x.mode = mode
  <2> DEFINE charged == BestCharge(mode, i, s, high, high, SolarLimit(i), TRUE)
  <2>1. ASSUME NEW y \in charged PROVE y.mode = mode
    <3>1. PICK n \in s .. high : y = Outcome(mode, i, s, n, high)
      BY DEF BestCharge
    <3> QED BY <3>1 DEF Outcome
  <2>2. \A n : Outcome(mode, i, s, n, high).mode = mode
    BY DEF Outcome
  <2>3. x \in charged \/ \E n : x = Outcome(mode, i, s, n, high)
    BY DEF SelfRun
  <2> QED BY <2>1, <2>2, <2>3
<1>4. o \in ChargeMode(i, s)
  BY <1>2, <1>3 DEF AutoMode, HoldMode, LimitMode
<1> QED BY <1>4 DEF ChargeMode
-----------------------------------------------------------------------------
(* What is ordered                                                         *)

\* A finished plan has a first entry, and each entry's charges are steps.
LEMMA DoneFacts ==
  ASSUME IInv, PlanIsChained, phase = "done"
  PROVE  /\ context \in Contexts
         /\ DOMAIN entries = Slots /\ 1 \in Slots
         /\ \A k \in Slots : /\ entries[k] \in Entries
                             /\ entries[k].from \in Steps /\ entries[k].next \in Steps
                             /\ entries[k].mode \in Modes
<1>1. entries \in Seq(Entries) /\ Len(entries) = Horizon
  BY DEF IInv, TypeOK, PlanIsChained
<1>2. DOMAIN entries = Slots /\ 1 \in Slots
  BY <1>1, GridFacts DEF Slots
<1>3. \A k \in Slots : entries[k] \in Entries
  BY <1>1, <1>2
<1> QED BY <1>2, <1>3 DEF IInv, Entries

\* The transitions of a plan that starts in range all start there.
LEMMA EntriesInRange ==
  ASSUME IInv, PlanIsChained, phase = "done", InRange(context.start)
  PROVE  \A k \in Slots : InRange(entries[k].from) /\ InRange(entries[k].next)
<1>1. \A k \in Slots : InRange(entries[k].next)
  BY DoneFacts DEF IInv, PlanStaysInRange
<1>2. ASSUME NEW k \in Slots PROVE InRange(entries[k].from)
  <2>1. CASE k = 1
    <3>1. entries[1].from = context.start
      BY GridFacts DEF PlanIsChained
    <3> QED BY <2>1, <3>1
  <2>2. CASE k # 1
    <3>1. k - 1 \in Slots /\ (k - 1) + 1 = k
      BY <2>2, GridFacts DEF Slots
    <3>2. entries[(k - 1) + 1].from = entries[k - 1].next
      BY <3>1, DoneFacts DEF PlanIsChained
    <3> QED BY <1>1, <3>1, <3>2
  <2> QED BY <2>1, <2>2
<1> QED BY <1>1, <1>2

\* If the first slot charges, Leading has a last slot.
LEMMA LastLeading ==
  ASSUME IInv, PlanIsChained, phase = "done", entries[1].mode = "charge"
  PROVE  /\ Leading # {} /\ Max(Leading) \in Leading
         /\ \A k \in Leading : k \in Slots /\ entries[k].mode = "charge" /\ k <= Max(Leading)
<1>1. Leading \subseteq 0 .. Horizon /\ Horizon \in Nat
  BY DoneFacts, GridFacts DEF Leading, Slots
<1>2. 1 \in Leading
  BY DoneFacts DEF Leading
<1>3. Max(Leading) \in Leading /\ \A k \in Leading : k <= Max(Leading)
  BY <1>1, <1>2, MaxOfBounded
<1>4. \A k \in Leading : k \in Slots /\ entries[k].mode = "charge"
  BY DoneFacts DEF Leading, Slots
<1> QED BY <1>2, <1>3, <1>4

\* The percentages the parameter of a charge is the highest of.
Parameters(k) ==
  {InBackend(AtLeast(entries[k].from, t)) :
     t \in {u \in ChargeTargets(k, entries[k].from) :
              \E o \in ChargeTo(k, entries[k].from, u) : o.next = entries[k].next}}

\* A slot that charges has a parameter, a percentage.
LEMMA ChargeHasParameter ==
  ASSUME IInv, PlanIsChained, phase = "done", context.sent,
         NEW k \in Slots, entries[k].mode = "charge"
  PROVE  /\ Parameters(k) \subseteq Steps
         /\ \E t \in ChargeTargets(k, entries[k].from) :
              /\ \E o \in ChargeTo(k, entries[k].from, t) : o.next = entries[k].next
              /\ InBackend(AtLeast(entries[k].from, t)) \in Parameters(k)
         /\ ChargeParameter(k) \in Parameters(k)
         /\ \A p \in Parameters(k) : p <= ChargeParameter(k)
<1> DEFINE from == entries[k].from
<1>1. from \in Steps /\ context \in Contexts /\ Top \in Nat
  BY DoneFacts, GridFacts
<1>2. PICK o \in Moves(k, from) : o.mode = "charge" /\ o.next = entries[k].next
  BY DoneFacts DEF PlanIsChained
<1>3. PICK t \in ChargeTargets(k, from) : o \in ChargeTo(k, from, t)
  <2> HIDE DEF from
  <2> QED BY <1>1, <1>2, ChargeHasTarget
<1>4. InBackend(AtLeast(from, t)) \in Parameters(k)
  BY <1>2, <1>3 DEF Parameters
<1>5. \A u \in ChargeTargets(k, from) : InBackend(AtLeast(from, u)) \in Steps
  <2> HIDE DEF from
  <2> TAKE u \in ChargeTargets(k, from)
  <2>1. u \in Int
    BY <1>1, TargetTyped
  <2>2. AtLeast(from, u) \in Int
    BY <1>1, <2>1 DEF AtLeast, Steps
  <2> QED BY <1>1, <2>2, InBackendTyped
<1>6. Parameters(k) \subseteq Steps
  BY <1>5 DEF Parameters
<1>7. Max(Parameters(k)) \in Parameters(k) /\ \A p \in Parameters(k) : p <= Max(Parameters(k))
  BY <1>1, <1>4, <1>6, MaxOfBounded DEF Steps
<1>8. ChargeParameter(k) = Max(Parameters(k))
  BY DEF ChargeParameter, Parameters
<1> QED BY <1>2, <1>3, <1>4, <1>6, <1>7, <1>8
\* Every branch of the translation gives a number.
LEMMA OrderedIsNumber ==
  ASSUME IInv, PlanIsChained, phase = "done", context.sent
  PROVE  /\ Command.mode = entries[1].mode
         /\ Command.mode = "auto" => Command.soc = InBackend(AutoFloor) /\ AutoFloor \in Int
         /\ Command.mode = "hold" => Command.soc = InBackend(HoldMinimum) /\ HoldMinimum \in Int
         /\ Command.mode = "limit" => Command.soc = InBackend(LimitMaximum) /\ LimitMaximum \in Int
         /\ Command.mode = "charge" => Command.soc = InBackend(ChargeTarget) /\ ChargeTarget \in Int
<1>1. Command.mode = entries[1].mode
  BY DEF Command
<1>2. NextStepSoc \in Int /\ context.autoFloor \in Int
  BY DoneFacts, ContextFacts DEF NextStepSoc, AtLeast, Steps
<1>3. \A s \in Int : InBackend(s) \in Int
  BY InBackendTyped, DoneFacts DEF Steps
<1>4. AutoFloor \in Int
  BY <1>2, <1>3 DEF AutoFloor
<1>5. LimitMaximum \in Int
  BY <1>3, DoneFacts DEF LimitMaximum, Steps
<1>6. HoldMinimum \in Int
  <2> DEFINE holding == {k \in DOMAIN entries : entries[k].mode = "hold"}
  <2>1. holding \subseteq Nat /\ holding \subseteq Slots /\ holding \subseteq Int
    BY DoneFacts DEF Slots
  <2>2. HoldMinimum = IF holding = {} THEN NextStepSoc ELSE InBackend(entries[Min(holding)].from)
    BY DEF HoldMinimum
  <2> HIDE DEF holding
  <2>3. ASSUME holding # {} PROVE Min(holding) \in Slots
    <3>1. PICK m \in holding : \A n \in holding : m <= n
      BY <2>1, <2>3, LeastNat
    <3>2. Min(holding) = m
      BY <2>1, <3>1, MinIs
    <3> QED BY <2>1, <3>1, <3>2
  <2>4. ASSUME holding # {} PROVE entries[Min(holding)].from \in Int
    BY <2>3, <2>4, DoneFacts DEF Steps
  <2> QED BY <1>2, <1>3, <2>2, <2>4
<1>7. entries[1].mode = "charge" => ChargeTarget \in Int
  <2> SUFFICES ASSUME entries[1].mode = "charge" PROVE ChargeTarget \in Int
    OBVIOUS
  <2> DEFINE last == Max(Leading)
  <2>1. Leading # {} /\ last \in Slots /\ entries[last].mode = "charge"
    BY LastLeading
  <2> HIDE DEF last
  <2>2. ChargeParameter(last) \in Steps
    BY <2>1, ChargeHasParameter
  <2> QED BY <2>1, <2>2 DEF ChargeTarget, Steps, last
<1>8. /\ entries[1].mode = "auto" => Command.soc = InBackend(AutoFloor)
      /\ entries[1].mode = "hold" => Command.soc = InBackend(HoldMinimum)
      /\ entries[1].mode = "limit" => Command.soc = InBackend(LimitMaximum)
      /\ entries[1].mode = "charge" => Command.soc = InBackend(ChargeTarget)
  BY DEF Command
<1> QED BY <1>1, <1>4, <1>5, <1>6, <1>7, <1>8

\* A number within bounds that are whole percents is still so when rounded.
LEMMA AcceptedWhenWhole ==
  ASSUME IInv, PlanIsChained
  PROVE  CommandIsAccepted
<1> SUFFICES ASSUME phase = "done", context.sent, context.range.low <= context.range.high,
                    context.range.low % Parts = 0, context.range.high % Parts = 0
             PROVE  Supported(Command)
  BY DEF CommandIsAccepted
<1> DEFINE range == context.range
<1>1. range.low \in Int /\ range.high \in Int
  <2>1. range.low \in 0 .. Parts * Top /\ range.high \in 0 .. Parts * Top
    BY DoneFacts, SentAssumption
  <2>2. PICK full \in Int : full = Parts * Top
    BY GridFacts, PartsAssumption
  <2> HIDE DEF range
  <2> QED BY <2>1, <2>2
<1>2. ASSUME NEW x \in Int, x % Parts = 0 PROVE \E q \in Int : x = Parts * q
  <2>1. PICK e \in Nat : e = Parts /\ e > 0
    BY PartsAssumption
  <2>2. x \div e \in Int /\ x = e * (x \div e) + (x % e)
    BY <2>1
  <2>3. PICK q \in Int : q = x \div e
    BY <2>2
  <2>4. e * q \in Int /\ x = e * q + 0
    BY <1>2, <2>1, <2>2, <2>3
  <2>5. x = e * q
    BY <2>4
  <2> QED BY <2>1, <2>5
<1>3. PICK a \in Int : range.low = Parts * a
  BY <1>1, <1>2
<1>4. PICK b \in Int : range.high = Parts * b
  BY <1>1, <1>2
<1>5. ASSUME NEW s \in Int
      PROVE  /\ InBackend(s) \in Int
             /\ range.low <= Parts * InBackend(s) /\ Parts * InBackend(s) <= range.high
  <2> DEFINE r == ClampPercent(s, range)
  <2>1. range.low <= range.high
    OBVIOUS
  <2> HIDE DEF range
  <2>2. r \in Int /\ a <= r /\ r <= b
    BY <1>1, <1>3, <1>4, <2>1, ClampPercentBetween
  <2> HIDE DEF r
  <2>3. Parts * a <= Parts * r /\ Parts * r <= Parts * b
    BY <2>2, PartsAssumption
  <2> QED BY <1>3, <1>4, <2>2, <2>3 DEF InBackend, range, r
<1>6. Command.mode \in Modes
  BY OrderedIsNumber, DoneFacts
<1>7. CASE Command.mode = "auto"
  BY <1>7 DEF Supported
<1>8. CASE Command.mode # "auto"
  <2>1. PICK s \in Int : Command.soc = InBackend(s)
    BY <1>6, <1>8, OrderedIsNumber DEF Modes
  <2> QED BY <1>5, <2>1 DEF Supported
<1> QED BY <1>7, <1>8

\* What is charged before the last of the slots that charge is not above what
\* that slot leads to.
LEMMA LeadingRises ==
  ASSUME IInv, PlanIsChained, phase = "done", InRange(context.start),
         entries[1].mode = "charge"
  PROVE  \A k \in Leading : entries[k].next <= entries[Max(Leading)].next
<1> DEFINE last == Max(Leading)
           Above == {k \in Leading : entries[k].next > entries[last].next}
<1>1. last \in Leading /\ \A k \in Leading : k \in Slots /\ entries[k].mode = "charge" /\ k <= last
  BY LastLeading
<1>2. \A k \in Slots : entries[k].next \in Int
  BY DoneFacts DEF Steps
<1> SUFFICES ASSUME Above # {} PROVE FALSE
  <2> HIDE DEF last
  <2>1. \A k \in Leading : entries[k].next <= entries[last].next
    BY <1>1, <1>2
  <2> QED BY <2>1 DEF last
<1>3. Above \subseteq 0 .. Horizon /\ Horizon \in Nat
  BY <1>1, GridFacts DEF Slots
<1>4. PICK k \in Above : \A j \in Above : j <= k
  <2> HIDE DEF Above
  <2> QED BY <1>3, MaxOfBounded
<1>5. k \in Leading /\ k \in Slots /\ entries[k].next > entries[last].next
  BY <1>1
<1> HIDE DEF last
<1>6. k + 1 \in Slots /\ k + 1 <= last
  <2>1. k # last
    BY <1>1, <1>2, <1>5
  <2>2. k <= last /\ last \in Slots
    BY <1>1, <1>5
  <2> QED BY <1>5, <2>1, <2>2, GridFacts DEF Slots
<1>7. k + 1 \in Leading
  <2>1. \A j \in 1 .. last : entries[j].mode = "charge"
    BY <1>1 DEF Leading
  <2>2. \A j \in 1 .. k + 1 : j \in 1 .. last
    BY <1>1, <1>5, <1>6 DEF Slots
  <2> QED BY <1>6, <2>1, <2>2, DoneFacts DEF Leading
<1>8. entries[k + 1].from = entries[k].next
  BY <1>5, <1>6, DoneFacts DEF PlanIsChained
<1>9. entries[k + 1].next >= entries[k + 1].from
  <2>1. InRange(entries[k + 1].from) /\ entries[k + 1].mode = "charge"
    BY <1>1, <1>6, <1>7, EntriesInRange
  <2> QED BY <1>6, <2>1, DoneFacts DEF IInv, PlanIsSound, Sound
<1>10. k + 1 \in Above
  <2>1. entries[k + 1].next > entries[last].next
    BY <1>1, <1>2, <1>5, <1>6, <1>8, <1>9
  <2> QED BY <1>7, <2>1 DEF last
<1> QED BY <1>4, <1>5, <1>10 DEF Slots
\* What is ordered is what is planned.
LEMMA FollowsWhenInRange ==
  ASSUME IInv, PlanIsChained
  PROVE  CommandFollowsPlan
<1> SUFFICES ASSUME phase = "done", context.sent, InRange(context.start)
             PROVE  CASE Command.mode = "charge" ->
                           \A k \in Leading : Command.soc >= entries[k].next
                      [] Command.mode \in {"hold", "limit"} -> Command.soc = entries[1].from
                      [] Command.mode = "auto" -> Command.soc <= entries[1].next
  BY DEF CommandFollowsPlan
<1>1. /\ Command.mode \in Modes /\ Command.mode = entries[1].mode
      /\ 1 \in Slots /\ context \in Contexts /\ DOMAIN entries = Slots
      /\ \A k \in Slots : entries[k].from \in Steps /\ entries[k].next \in Steps
  BY OrderedIsNumber, DoneFacts
<1>2. \A k \in Slots : InRange(entries[k].from) /\ InRange(entries[k].next)
  BY EntriesInRange
<1>3. \A s \in Int : InRange(s) => InBackend(s) = s
  BY <1>1, InBackendKeeps
<1>4. \A k \in Slots : /\ entries[k].from \in Int /\ entries[k].next \in Int
                       /\ InBackend(entries[k].from) = entries[k].from
                       /\ InBackend(entries[k].next) = entries[k].next
  BY <1>1, <1>2, <1>3 DEF Steps
<1>5. ASSUME Command.mode = "charge", NEW k \in Leading
      PROVE  Command.soc >= entries[k].next
  <2> DEFINE last == Max(Leading)
  <2>1. last \in Slots /\ entries[last].mode = "charge" /\ Leading # {} /\ k \in Slots
    BY <1>1, <1>5, LastLeading
  <2>2. entries[k].next <= entries[last].next
    BY <1>1, <1>5, LeadingRises
  <2>3. Command.soc = InBackend(ChargeParameter(last))
    BY <1>5, <2>1, OrderedIsNumber DEF ChargeTarget
  <2> HIDE DEF last
  <2> DEFINE from == entries[last].from
  <2>4. from \in Steps /\ from \in Int /\ InRange(from)
    BY <1>1, <1>2, <1>4, <2>1
  <2>5. ASSUME NEW t \in ChargeTargets(last, from)
        PROVE  /\ t \in Int /\ t <= context.ceiling
               /\ InBackend(AtLeast(from, t)) = AtLeast(from, t)
               /\ InRange(AtLeast(from, t)) /\ AtLeast(from, t) \in Int
    <3> HIDE DEF from
    <3>1. t \in Int /\ t <= context.ceiling
      BY <1>1, <2>1, <2>4, TargetTyped
    <3>2. AtLeast(from, t) \in Int /\ InRange(AtLeast(from, t))
      BY <1>1, <2>4, <3>1, ContextFacts DEF InRange, AtLeast, Steps
    <3> QED BY <1>3, <3>1, <3>2
  <2>6. \A p \in Parameters(last) : p \in Int /\ InRange(p)
    BY <2>5 DEF Parameters
  <2>7. ChargeParameter(last) \in Parameters(last)
    BY <2>1, ChargeHasParameter
  <2>8. Command.soc = ChargeParameter(last) /\ Command.soc \in Int
    BY <1>3, <2>3, <2>6, <2>7
  <2>9. PICK t \in ChargeTargets(last, from) :
               /\ \E o \in ChargeTo(last, from, t) : o.next = entries[last].next
               /\ InBackend(AtLeast(from, t)) \in Parameters(last)
    BY <2>1, ChargeHasParameter
  <2>10. entries[last].next <= AtLeast(from, t)
    <3> HIDE DEF from
    <3> QED BY <1>1, <2>1, <2>4, <2>5, <2>9, TargetBounds
  <2>11. AtLeast(from, t) <= ChargeParameter(last)
    BY <2>1, <2>5, <2>9, ChargeHasParameter
  <2> HIDE DEF from
  <2> QED BY <1>4, <2>1, <2>2, <2>5, <2>8, <2>9, <2>10, <2>11
<1>6. ASSUME Command.mode = "hold" PROVE Command.soc = entries[1].from
  <2> DEFINE holding == {k \in DOMAIN entries : entries[k].mode = "hold"}
  <2>1. 1 \in holding /\ holding \subseteq Int /\ \A k \in holding : 1 <= k
    <3>1. 1 \in holding /\ holding \subseteq Slots
      BY <1>1, <1>6
    <3>2. \A k \in Slots : k \in Int /\ 1 <= k
      BY DEF Slots
    <3> HIDE DEF holding
    <3> QED BY <3>1, <3>2
  <2>2. HoldMinimum = InBackend(entries[Min(holding)].from)
    BY <2>1 DEF HoldMinimum
  <2> HIDE DEF holding
  <2>3. Min(holding) = 1
    BY <2>1, MinIs
  <2> QED BY <1>1, <1>4, <1>6, <2>2, <2>3, OrderedIsNumber
<1>7. ASSUME Command.mode = "limit" PROVE Command.soc = entries[1].from
  BY <1>1, <1>4, <1>7, OrderedIsNumber DEF LimitMaximum
<1>8. ASSUME Command.mode = "auto" PROVE Command.soc <= entries[1].next
  <2>1. context.autoFloor \in Int /\ context.autoFloor = context.floor /\ context.floor <= context.ceiling
    BY <1>1, ContextFacts, SentAssumption DEF Steps
  <2>2. /\ InRange(context.autoFloor) /\ context.autoFloor <= entries[1].next
        /\ InRange(entries[1].next) /\ entries[1].next \in Int
    BY <1>1, <1>2, <1>4, <2>1 DEF InRange
  <2>3. Command.soc = InBackend(AutoFloor)
    BY <1>8, OrderedIsNumber
  <2>4. CASE Planned(1)
    <3>1. InBackend(context.autoFloor) = context.autoFloor
      BY <1>3, <2>1, <2>2
    <3> QED BY <2>2, <2>3, <2>4, <3>1 DEF AutoFloor
  <2>5. CASE ~Planned(1)
    <3>1. NextStepSoc = entries[1].next
      BY <2>1, <2>2 DEF NextStepSoc, AtLeast
    <3>2. Command.soc = entries[1].next
      BY <1>1, <1>4, <2>3, <2>5, <3>1 DEF AutoFloor
    <3> QED BY <2>2, <3>2
  <2> QED BY <2>4, <2>5
<1>9. CASE Command.mode = "charge"
  BY <1>5, <1>9
<1>10. CASE Command.mode \in {"hold", "limit"}
  BY <1>6, <1>7, <1>10
<1>11. CASE Command.mode = "auto"
  BY <1>8, <1>11
<1> QED BY <1>1, <1>9, <1>10, <1>11 DEF Modes

\* A configuration whose bounds are percentages or null.
Configured ==
  LET bounds == {None} \cup 0 .. Parts * Top
  IN  [floor : bounds, max : bounds, modes : SUBSET Modes, start : Steps,
       autoFloor : Steps, maxCharge : Steps, chargeEnergy : Nat, solarEnergy : Nat,
       dischargeEnergy : Nat, allowExport : BOOLEAN, allowGridCharge : BOOLEAN,
       canPrevent : BOOLEAN]

\* What runSimulation's first pass makes of it is as SentAssumption has it, with
\* a range of charges that ContextsAssumption allows.
THEOREM ConstrainedIsFitted ==
  ASSUME NEW profiles, NEW battery \in Configured
  PROVE  LET c == Constrained(profiles, battery)
         IN  /\ c.range \in [low : 0 .. Parts * Top, high : 0 .. Parts * Top]
             /\ c.floor \in Steps /\ c.ceiling \in Steps /\ c.floor <= c.ceiling
             /\ c.autoFloor = c.floor
             /\ \A s \in c.floor .. c.ceiling : ClampPercent(s, c.range) = s
<1> DEFINE c == Constrained(profiles, battery)
           range == Capabilities(battery)
           floor == Floor(battery, range)
           maximum == Maximum(battery, range)
           low == range.low
           high == range.high
<1>1. /\ c.range = range
      /\ c.autoFloor = OrElse(floor, 0)
      /\ c.ceiling = OrElse(maximum, Top)
      /\ c.floor = AtMost(c.ceiling, c.autoFloor)
  BY DEF Constrained, Prepare, With, Configured
<1>2. PICK full \in Int : full = Parts * Top /\ 0 <= full
  BY GridFacts, PartsAssumption
<1>3. /\ battery.floor = None \/ (battery.floor \in Int /\ 0 <= battery.floor /\ battery.floor <= full)
      /\ battery.max = None \/ (battery.max \in Int /\ 0 <= battery.max /\ battery.max <= full)
  BY <1>2 DEF Configured
<1>4. /\ range = [low |-> low, high |-> high]
      /\ low = IF battery.floor = None THEN 0 ELSE battery.floor
      /\ high = IF battery.max = None THEN full ELSE battery.max
  BY <1>2 DEF Capabilities
<1>5. low \in 0 .. full /\ high \in 0 .. full
  BY <1>2, <1>3, <1>4
<1> HIDE DEF c, low, high
<1>6. range \in [low : 0 .. full, high : 0 .. full]
  BY <1>4, <1>5
<1>7. \A p \in 0 .. full : Rounded(p) \in Int /\ 0 <= Rounded(p) /\ Rounded(p) <= Top
  <2> TAKE p \in 0 .. full
  <2>1. /\ Parts * 0 = 0 /\ 0 \in Int /\ Top \in Int /\ p \in Int
        /\ Parts * 0 <= p /\ p <= Parts * Top
    BY <1>2, GridFacts, PartsAssumption
  <2> QED BY <2>1, RoundedBetween
<1> DEFINE lowest == AtMost(high, low)
<1>8. lowest \in 0 .. full
  BY <1>5 DEF AtMost
<1>9. Rounded(0) = 0 /\ Rounded(full) = Top /\ Top \in Int
  <2>1. Parts * 0 = 0 /\ 0 \in Int /\ Top \in Int
    BY GridFacts, PartsAssumption
  <2>2. Rounded(Parts * 0) = 0 /\ Rounded(Parts * Top) = Top
    BY <2>1, RoundedWhole
  <2> QED BY <1>2, <2>1, <2>2
<1>10. floor = IF battery.floor = None THEN None ELSE Rounded(lowest)
  <2>1. battery.floor # None => Bounded(battery.floor, range) = lowest
    BY <1>4, <1>5 DEF Bounded, AtLeast, AtMost
  <2> QED BY <2>1 DEF Floor, ClampToSocRange
<1>11. maximum = IF battery.max = None THEN floor ELSE AtLeast(floor, Rounded(high))
  <2>1. battery.max # None => Bounded(battery.max, range) = high
    BY <1>4, <1>5 DEF Bounded, AtLeast, AtMost
  <2>2. Rounded(high) # None
    BY <1>5, <1>7 DEF None
  <2> QED BY <2>1, <2>2 DEF Maximum, ClampToSocRange
<1>12. Rounded(lowest) <= Rounded(high)
  BY <1>5, <1>8, RoundedMonotone DEF AtMost
<1> HIDE DEF range, floor, maximum, lowest
<1>13. /\ Rounded(lowest) \in Int /\ Rounded(high) \in Int
       /\ 0 <= Rounded(lowest) /\ Rounded(high) <= Top
       /\ Rounded(lowest) <= Rounded(high)
  BY <1>5, <1>7, <1>8, <1>12
<1>14. battery.floor = None => Rounded(lowest) = 0
  BY <1>4, <1>5, <1>9 DEF lowest, AtMost
<1>15. battery.max = None => Rounded(high) = Top
  BY <1>4, <1>9
<1>16. c.autoFloor = Rounded(lowest)
  BY <1>1, <1>10, <1>13, <1>14 DEF OrElse, None
<1>17. c.ceiling \in Int /\ Rounded(lowest) <= c.ceiling /\ c.ceiling <= Rounded(high)
  BY <1>1, <1>9, <1>10, <1>11, <1>13, <1>14, <1>15 DEF OrElse, None, AtLeast
<1>18. c.floor = Rounded(lowest)
  BY <1>1, <1>13, <1>16, <1>17 DEF AtMost
<1>19. ASSUME NEW s \in c.floor .. c.ceiling PROVE ClampPercent(s, c.range) = s
  <2>1. s \in Int /\ Rounded(lowest) <= s /\ s <= Rounded(high)
    BY <1>13, <1>17, <1>18
  <2>2. Rounded(AtMost(high, AtLeast(low, Parts * s))) = s
    BY <1>5, <2>1, BoundsRoundAround DEF lowest
  <2> QED BY <1>1, <2>2 DEF ClampPercent, Bounded, low, high
<1>20. c.floor \in Steps /\ c.ceiling \in Steps
  BY <1>13, <1>17, <1>18, GridFacts DEF Steps
<1> QED BY <1>1, <1>2, <1>6, <1>13, <1>16, <1>17, <1>18, <1>19, <1>20 DEF c

-----------------------------------------------------------------------------
(* Theorems                                                                *)

\* The optimiser's tables and its plan stay sound: see Sound.
THEOREM InvariantHolds == Spec => []IInv
BY InitIInv, StepIInv, PTL DEF Spec

\* TypeOK: every charge the optimiser writes into its tables or its plan is a
\* step of the grid, so no table is read outside its bounds.
THEOREM TypeCorrect == Spec => []TypeOK
<1>1. IInv => TypeOK
  BY DEF IInv
<1> QED BY <1>1, InvariantHolds, PTL

\* PlanStaysInRange: a plan that starts between floor and ceiling stays there.
THEOREM RangeKept == Spec => []PlanStaysInRange
<1>1. IInv => PlanStaysInRange
  BY DEF IInv
<1> QED BY <1>1, InvariantHolds, PTL

\* WithinPower: no slot entered in range charges beyond the one limit its mode has
\* (that for the grid in charge mode, also from the sun; that for the sun in the
\* others) or discharges beyond its limits, whatever mode was found cheapest.
THEOREM PowerKept == Spec => []WithinPower
<1>1. IInv => WithinPower
  BY DEF IInv, PlanIsSound, Sound, WithinPower
<1> QED BY <1>1, InvariantHolds, PTL

\* ModesDoAsPlanned: a slot of the plan does what its mode allows.
THEOREM ModesKept == Spec => []ModesDoAsPlanned
<1>1. IInv => ModesDoAsPlanned
  BY DEF IInv, PlanIsSound, Sound, ModesDoAsPlanned
<1> QED BY <1>1, InvariantHolds, PTL

\* NoBatteryExport: without permission no plan sells the battery's energy, the
\* rounding of small exchanges to none included.
THEOREM ExportKept == Spec => []NoBatteryExport
<1>1. IInv => NoBatteryExport
  BY DEF IInv, PlanIsSound, Sound, NoBatteryExport
<1> QED BY <1>1, InvariantHolds, PTL

\* PlanIsCheapest: the backward pass, which looks one slot ahead, finds what
\* trying every sequence of outcomes would find.
THEOREM CheapestFound == Spec => []PlanIsCheapest
<1>1. IInv /\ TableIsOptimal => PlanIsCheapest
  BY CheapestIsInTable DEF PlanIsCheapest
<1> QED BY <1>1, InvariantHolds, InitOptimal, StepOptimal, PTL DEF Spec

\* ProjectionIsPlan: whatever the prices, what is announced differs from what the
\* plan was chosen for by no more than what the small exchanges cost.
THEOREM ProjectionKept == Spec => []ProjectionIsPlan
<1>1. IInv /\ TotalIsPlan => ProjectionIsPlan
  <2> SUFFICES ASSUME IInv, TotalIsPlan, phase = "done"
               PROVE  LET left == SumFunctionOnSet([i \in Slots |-> Rounding(i)], Slots)
                          difference == costTotal + costToGo[Horizon + 1][soc]
                                          - costToGo[1][context.start]
                      IN  -left <= difference /\ difference <= left
    BY DEF ProjectionIsPlan
  <2>1. index = Horizon + 1 /\ 1 .. (index - 1) = Slots
    BY GridFacts DEF TotalIsPlan, Slots
  <2> QED BY <2>1 DEF TotalIsPlan, Left, Difference, Roundings
<1> QED
  BY <1>1, InvariantHolds, InitIInv, StepIInv, InitOptimal, StepOptimal, InitTotal, StepTotal, PTL
  DEF Spec

\* CommandIsAccepted: whatever the plan, the backend does what it is told, if its
\* bounds are whole percents.
THEOREM CommandAccepted == Spec => []CommandIsAccepted
<1> QED
  BY InvariantHolds, InitIInv, StepIInv, InitOptimal, StepOptimal, InitChained, StepChained,
     AcceptedWhenWhole, PTL DEF Spec

\* CommandFollowsPlan: the one command that is sent for a plan of many slots lets
\* the battery do what the first of them are planned with.
THEOREM CommandFollows == Spec => []CommandFollowsPlan
<1> QED
  BY InvariantHolds, InitIInv, StepIInv, InitOptimal, StepOptimal, InitChained, StepChained,
     FollowsWhenInRange, PTL DEF Spec
=============================================================================
