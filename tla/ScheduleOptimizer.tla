------------------------- MODULE ScheduleOptimizer -------------------------
(***************************************************************************)
(* The optimiser (optimal-schedule.ts) and the modes of the battery it     *)
(* chooses from (battery-control-backend.ts).  Backwards over the price    *)
(* slots it fills, for every state of charge, the cost to go and the best  *)
(* transition; forwards it rolls the plan out from the current charge.     *)
(*                                                                         *)
(* One table entry is a step, and so is one slot of the rollout.  A state  *)
(* of charge is its step on the grid, and a percentage is its step.  Slots *)
(* are equally long, energies are integers, and money is counted in        *)
(* Horizon-ths so that the average price is an integer as well.            *)
(***************************************************************************)
EXTENDS Integers, SequencesExt

CONSTANTS
  Horizon,     \* number of price slots
  Top,         \* SOC_STEPS: the step of a full battery
  StepEnergy,  \* energy stored per step
  Bus,         \* energy at the bus for a change of so many steps, with losses
  Offsets,     \* CHARGE_TARGET_OFFSETS_PERCENT
  Advantage,   \* LIMIT_HEADROOM_FUTURE_PRICE_ADVANTAGE_EUR_PER_KWH
  Threshold,   \* GRID_CHARGE_STRATEGY_THRESHOLD_KWH
  Contexts     \* what prepareSimulationContext may return

Steps == 0 .. Top
Slots == 1 .. Horizon
Modes == {"charge", "auto", "hold", "limit"}

ASSUME GridAssumption ==
  /\ Horizon \in Nat \ {0}
  /\ {Top, StepEnergy} \subseteq Nat \ {0}
  /\ {Advantage, Threshold} \subseteq Nat
  /\ Offsets \subseteq Nat /\ 0 \in Offsets

\* Charging takes more from the bus than is stored, discharging gives less.
ASSUME BusAssumption ==
  /\ Bus \in [-Top .. Top -> Int]
  /\ Bus[0] = 0
  /\ \A d \in 1 .. Top : Bus[d] > 0 /\ Bus[-d] <= 0 /\ -Bus[-d] <= d * StepEnergy

\* A slot after the house has used what sun it can: what it still needs or what
\* sun is left, and the two prices.
SlotProfiles ==
  {p \in [load : Nat, solar : Nat, price : Int, feedIn : Int] : p.load = 0 \/ p.solar = 0}

ASSUME ContextsAssumption ==
  \A c \in Contexts :
    /\ c.profiles \in [Slots -> SlotProfiles]
    /\ {c.start, c.autoFloor, c.floor, c.ceiling} \subseteq Steps
    /\ c.floor <= c.ceiling
    /\ {c.gridLimit, c.solarLimit, c.dischargeLimit} \subseteq Nat
    /\ c.modes \subseteq Modes
    /\ {c.allowExport, c.canPrevent} \subseteq BOOLEAN
    /\ c.avgPrice \in Int

VARIABLES
  context,    \* the call's inputs
  phase,      \* "back" while the tables are filled, then "roll", then "done"
  index,      \* the slot being evaluated or rolled out
  soc,        \* the charge being evaluated or reached
  costToGo,   \* per slot and charge, the cost of the rest of the plan
  policy,     \* per slot and charge, the best transition
  entries,    \* oracleEntries
  costTotal   \* cost of the entries

vars == <<context, phase, index, soc, costToGo, policy, entries, costTotal>>

-----------------------------------------------------------------------------
(* Numbers                                                                 *)

AtLeast(low, n) == IF n < low THEN low ELSE n
AtMost(high, n) == IF n > high THEN high ELSE n

\* Mutant: empty is as low as the floor.
AboveEmpty(n, low, high) == AtLeast(0, AtMost(high, n))

Clamp(n, low, high) == AtLeast(low, AtMost(high, n))

Price(i) == context.profiles[i].price
Surplus(i) == AtLeast(0, context.profiles[i].solar - context.profiles[i].load)
Deficit(i) == AtLeast(0, context.profiles[i].load - context.profiles[i].solar)
Baseline(i) == context.profiles[i].load - context.profiles[i].solar

SolarLimit(i) == AtMost(context.solarLimit, context.profiles[i].solar)

\* prepareSimulationContext: the floor is never above the ceiling, and a
\* battery that may not be charged from the grid has no grid charge limit.
Prepare(profiles, options) ==
  [profiles |-> profiles,
   start |-> options.start,
   autoFloor |-> options.autoFloor,
   floor |-> AtMost(options.maxCharge, options.autoFloor),
   ceiling |-> options.maxCharge,
   gridLimit |-> IF options.allowGridCharge THEN options.chargeEnergy ELSE 0,
   solarLimit |-> options.solarEnergy,
   dischargeLimit |-> options.dischargeEnergy,
   modes |-> options.modes,
   allowExport |-> options.allowExport,
   canPrevent |-> options.canPrevent,
   avgPrice |-> MapThenSumSet(LAMBDA i : profiles[i].price, Slots)]

-----------------------------------------------------------------------------
(* What a mode does to a charge of s in slot i                             *)

\* buildChargeDischargeOutcome
Outcome(mode, i, s, wanted, high) ==
  LET next == Clamp(wanted, context.floor, high)
      grid == Baseline(i) + Bus[next - s]
  IN  [mode |-> mode,
       next |-> next,
       grid |-> grid,
       extra |-> IF next > s THEN AtLeast(0, AtLeast(0, grid) - AtLeast(0, Baseline(i)))
                             ELSE 0]

\* Mutant: the power limit is not looked at.
FitsUnlimited(outcome, s, limit, solarOnly) == solarOnly => outcome.extra = 0

Fits(outcome, s, limit, solarOnly) ==
  /\ Bus[outcome.next - s] <= limit
  /\ solarOnly => outcome.extra = 0

\* findBestChargeOutcome: the highest charge that fits, or nothing
BestCharge(mode, i, s, target, high, limit, solarOnly) ==
  LET fitting == {n \in s .. target : Fits(Outcome(mode, i, s, n, high), s, limit, solarOnly)}
  IN  {Outcome(mode, i, s, n, high) : n \in {m \in fitting : \A k \in fitting : k <= m}}

\* Mutant: charging by itself has the limit of all sources and may use the grid.
SelfRunFromGrid(mode, i, s, keep, high) ==
  LET all == AtLeast(context.gridLimit, SolarLimit(i))
      charged == IF Surplus(i) > 0 /\ high > s
                 THEN BestCharge(mode, i, s, high, high, all, FALSE)
                 ELSE {}
  IN  IF charged # {} THEN charged ELSE {Outcome(mode, i, s, s, high)}

\* applyAutoScenario: the sun that is left charges, else what the house lacks
\* discharges, else the charge stays.
SelfRun(mode, i, s, keep, high) ==
  LET charged == IF Surplus(i) > 0 /\ high > s
                 THEN BestCharge(mode, i, s, high, high, SolarLimit(i), TRUE)
                 ELSE {}
      discharge == AtMost(context.dischargeLimit, Deficit(i)) \div StepEnergy
  IN  IF charged # {} THEN charged
      ELSE IF Deficit(i) > 0 /\ s > AtLeast(context.floor, keep)
           THEN {Outcome(mode, i, s, s - discharge, high)}
           ELSE {Outcome(mode, i, s, s, high)}

Grid(s) == Clamp(s, context.floor, context.ceiling)  \* clampStepFromPercent

AutoMode(i, s) == SelfRun("auto", i, s, context.floor, context.ceiling)
HoldMode(i, s) == SelfRun("hold", i, s, Grid(s), context.ceiling)

\* applyLimitScenario reads the configured floor against a ceiling of its own.
LimitMode(i, s) ==
  LET high == AtLeast(s, Grid(s))
  IN  SelfRun("limit", i, s, Clamp(context.autoFloor, context.floor, high), high)

\* applyChargeScenario
ChargeTo(i, s, target) ==
  LET reached == BestCharge("charge", i, s, AtLeast(s, Grid(target)), context.ceiling,
                            context.gridLimit, FALSE)
  IN  IF Grid(target) > s /\ reached # {} THEN reached
      ELSE {Outcome("charge", i, s, s, context.ceiling)}

\* The targets of the charge mode: what can be reached, and somewhat less.
ChargeTargets(i, s) ==
  LET reached == BestCharge("charge", i, s, context.ceiling, context.ceiling,
                            context.gridLimit, FALSE)
      highest == IF reached = {} THEN {context.ceiling} ELSE {o.next : o \in reached}
      above == {t \in {h - d : h \in highest, d \in Offsets} : t > s}
  IN  IF above # {} THEN above ELSE {AtLeast(s, h) : h \in highest}

ChargeMode(i, s) == UNION {ChargeTo(i, s, target) : target \in ChargeTargets(i, s)}

Outcomes(i, s) ==
  {o \in AutoMode(i, s) \cup HoldMode(i, s) \cup LimitMode(i, s) \cup ChargeMode(i, s) :
     o.mode \in context.modes}

-----------------------------------------------------------------------------
(* Which outcomes count, and which is best                                 *)

\* shouldRejectHeadroomPreservingMode: leaving the sun to the grid needs a
\* battery that is half full or a later slot that is cheaper by a margin.
HeadroomRejected(i, s) ==
  /\ Surplus(i) > 0
  /\ s < (context.ceiling + 1) \div 2
  /\ \A j \in Slots : j > i => Price(i) - Price(j) < Advantage

\* Mutant: a battery's energy may be sold whatever the configuration says.
ViableExporting(i, s) ==
  {o \in Outcomes(i, s) :
     /\ o.mode = "limit" => ~HeadroomRejected(i, s)
     /\ \/ context.canPrevent
        \/ o.mode \in {"auto", "hold"}
        \/ o.grid >= 0
        \/ o.next >= context.ceiling}

Viable(i, s) ==
  {o \in Outcomes(i, s) :
     /\ o.mode = "limit" => ~HeadroomRejected(i, s)
     /\ context.allowExport \/ o.grid >= AtMost(0, Baseline(i))
     /\ \/ context.canPrevent
        \/ o.mode \in {"auto", "hold"}
        \/ o.grid >= 0
        \/ o.next >= context.ceiling}

GridCost(i, grid) ==
  Horizon * grid * (IF grid >= 0 THEN Price(i) ELSE context.profiles[i].feedIn)

\* Mutant: the cost of the rest of the plan is read at the charge before the slot.
CostFromHere(i, o) == GridCost(i, o.grid) + costToGo[i + 1][soc]

Cost(i, o) == GridCost(i, o.grid) + costToGo[i + 1][o.next]

tieBreakPriority == [limit |-> 1, hold |-> 2, charge |-> 3, auto |-> 4]

\* shouldPreferTransition decides between equal costs.
Better(i, o, best) ==
  \/ Cost(i, o) < Cost(i, best)
  \/ /\ Cost(i, o) = Cost(i, best)
     /\ \/ o.next > best.next
        \/ /\ o.next = best.next
           /\ \/ o.extra < best.extra
              \/ /\ o.extra = best.extra
                 /\ tieBreakPriority[o.mode] > tieBreakPriority[best.mode]

\* When no outcome counts, the slot is planned as if it were not there.
Fallback(s) == [mode |-> "auto", next |-> s, grid |-> 0, extra |-> 0]

Unset == [mode |-> "hold", next |-> 0, grid |-> 0, extra |-> 0]

-----------------------------------------------------------------------------
(* The two passes                                                          *)

EndCosts(c) ==
  [i \in 1 .. Horizon + 1 |->
     [s \in Steps |-> IF i > Horizon THEN -(c.avgPrice * StepEnergy * s) ELSE 0]]

NoPolicy == [i \in Slots |-> [s \in Steps |-> Unset]]

Init ==
  /\ context \in Contexts
  /\ phase = "back"
  /\ index = Horizon
  /\ soc = 0
  /\ costToGo = EndCosts(context)
  /\ policy = NoPolicy
  /\ entries = <<>>
  /\ costTotal = 0

\* runBackwardPass goes through the charges of a slot, then to the slot before.
NextEntry ==
  IF soc < Top
  THEN soc' = soc + 1 /\ UNCHANGED <<index, phase>>
  ELSE IF index > 1
       THEN soc' = 0 /\ index' = index - 1 /\ UNCHANGED phase
       ELSE soc' = context.start /\ index' = 1 /\ phase' = "roll"

Store(transition, cost) ==
  /\ policy' = [policy EXCEPT ![index][soc] = transition]
  /\ costToGo' = [costToGo EXCEPT ![index][soc] = cost]

\* evaluateStateTransitions
Evaluate ==
  /\ phase = "back"
  /\ IF Viable(index, soc) = {}
     THEN Store(Fallback(soc), costToGo[index + 1][soc])
     ELSE \E o \in Viable(index, soc) :
            /\ \A other \in Viable(index, soc) : ~Better(index, other, o)
            /\ Store(o, Cost(index, o))
  /\ NextEntry
  /\ UNCHANGED <<context, entries, costTotal>>

\* Mutant: what is sold counts as small.
ReportedImport(grid) == IF grid < Threshold THEN 0 ELSE grid

\* Small exchanges with the grid are planned as none.
Reported(grid) == IF -Threshold < grid /\ grid < Threshold THEN 0 ELSE grid

\* runForwardPass
RollOut ==
  /\ phase = "roll"
  /\ LET transition == policy[index][soc]
         grid == Reported(transition.grid)
     IN  /\ entries' = Append(entries, [mode |-> transition.mode, from |-> soc,
                                        next |-> transition.next, grid |-> grid,
                                        extra |-> transition.extra])
         /\ costTotal' = costTotal + GridCost(index, grid)
         /\ soc' = transition.next
  /\ index' = index + 1
  /\ phase' = IF index = Horizon THEN "done" ELSE "roll"
  /\ UNCHANGED <<context, costToGo, policy>>

\* Calls share nothing, so one that follows is like the first; it is modelled
\* with the same inputs.
CallAgain ==
  /\ phase = "done"
  /\ phase' = "back"
  /\ index' = Horizon
  /\ soc' = 0
  /\ costToGo' = EndCosts(context)
  /\ policy' = NoPolicy
  /\ entries' = <<>>
  /\ costTotal' = 0
  /\ UNCHANGED context

Next == Evaluate \/ RollOut \/ CallAgain

Spec == Init /\ [][Next]_vars

-----------------------------------------------------------------------------
(* Properties                                                              *)

Transitions == [mode : Modes, next : Steps, grid : Int, extra : Nat]
Entries == [mode : Modes, from : Steps, next : Steps, grid : Int, extra : Nat]

TypeOK ==
  /\ phase \in {"back", "roll", "done"}
  /\ index \in 1 .. Horizon + 1
  /\ phase # "done" => index \in Slots
  /\ soc \in Steps
  /\ costToGo \in [1 .. Horizon + 1 -> [Steps -> Int]]
  /\ policy \in [Slots -> [Steps -> Transitions]]
  /\ entries \in Seq(Entries)
  /\ costTotal \in Int

InRange(s) == context.floor <= s /\ s <= context.ceiling

\* A plan that starts between floor and ceiling never leaves that range.
PlanStaysInRange ==
  InRange(context.start) => \A k \in DOMAIN entries : InRange(entries[k].next)

\* In a slot that is entered between floor and ceiling the charge mode charges
\* within the limit for the grid and every other mode within the one for the sun,
\* and the battery is discharged within its limit and never beyond what the house
\* lacks.  The charge mode has that one limit whatever it charges from: also from
\* the sun, which docs/power_flow.md caps by max_charge_power_solar_w in each mode,
\* and also from both, where it lets the grid add its own power to the sun's.
WithinPower ==
  \A k \in DOMAIN entries :
    LET e == entries[k]
        taken == Bus[e.next - e.from]
    IN  InRange(e.from) =>
          /\ taken <= (IF e.mode = "charge" THEN context.gridLimit ELSE SolarLimit(k))
          /\ -taken <= AtMost(context.dischargeLimit, Deficit(k))

\* A slot is only planned with what its mode makes the battery do: the grid
\* charges it in no mode but charge, hold never discharges it, limit never
\* charges it, and charge never discharges it.
ModesDoAsPlanned ==
  \A k \in DOMAIN entries :
    LET e == entries[k]
    IN  InRange(e.from) =>
          /\ e.extra > 0 => e.mode = "charge"
          /\ e.mode \in {"hold", "charge"} => e.next >= e.from
          /\ e.mode = "limit" => e.next <= e.from

\* Without permission the plan never sells more than the sun that is left.
NoBatteryExport ==
  ~context.allowExport =>
    \A k \in DOMAIN entries : entries[k].grid >= AtMost(0, Baseline(k))

\* The plan is as cheap as the cheapest of all sequences of outcomes, found
\* forwards by trying each.
Moves(i, s) == IF Viable(i, s) = {} THEN {Fallback(s)} ELSE Viable(i, s)

Continued(ends, i) ==
  UNION {{[soc |-> o.next, cost |-> end.cost + GridCost(i, o.grid)] :
            o \in Moves(i, end.soc)} : end \in ends}

PlanIsCheapest ==
  phase = "roll" /\ index = 1 =>
    LET ends == FoldLeft(Continued, {[soc |-> context.start, cost |-> 0]},
                         [i \in Slots |-> i])
    IN  costToGo[1][context.start]
          = Min({end.cost + costToGo[Horizon + 1][end.soc] : end \in ends})

Magnitude(n) == AtLeast(n, -n)

\* What leaving out a small exchange in slot i can change at most.
Rounding(i) ==
  Horizon * Threshold * AtLeast(Magnitude(Price(i)), Magnitude(context.profiles[i].feedIn))

\* What the plan is announced to cost is what it was chosen for, up to the
\* small exchanges left out.
ProjectionIsPlan ==
  phase = "done" =>
    LET difference == costTotal + costToGo[Horizon + 1][soc] - costToGo[1][context.start]
        left == SumFunctionOnSet([i \in Slots |-> Rounding(i)], Slots)
    IN  -left <= difference /\ difference <= left
=============================================================================
