------------------------- MODULE CommandTranslation -------------------------
(***************************************************************************)
(* What the battery backend can do before a plan, and what it is told after *)
(* one: how the configuration and the choice of modes are fitted to the    *)
(* backend's capabilities, and which command the plan's first slots become *)
(* (battery-control-backend.ts, optimisation-command-translator.service.ts).*)
(*                                                                         *)
(* A configured bound is a number of Parts of a percent, so that it can    *)
(* have a fraction; None stands for null.  The backend has all modes, with *)
(* one range of percentages for all of them, as the Fronius adapter and    *)
(* the generic backend have.                                               *)
(***************************************************************************)
EXTENDS ScheduleOptimizer

CONSTANT Parts  \* parts of a percent a configured bound may have

None == -1

ASSUME PartsAssumption == Parts \in Nat \ {0}

-----------------------------------------------------------------------------
(* Before the plan                                                         *)

\* getCapabilities: the range is what is configured, as it is configured.
Capabilities(battery) ==
  [low |-> IF battery.floor = None THEN 0 ELSE battery.floor,
   high |-> IF battery.max = None THEN Parts * Top ELSE battery.max]

\* buildGenericBatteryControlCapabilities
Generic == [low |-> 0, high |-> Parts * Top]

Bounded(part, range) == AtMost(range.high, AtLeast(range.low, part))

\* Math.round, which rounds halves up
Rounded(part) == (2 * part + Parts) \div (2 * Parts)

ClampToSocRange(part, range) ==
  IF part = None THEN None ELSE Rounded(Bounded(part, range))

\* Mutant: the range is not looked at.
Unranged(percent, range) == percent

\* clampScenarioPercent, of a percentage that is a step already
ClampPercent(percent, range) == Rounded(Bounded(Parts * percent, range))

\* clampSimulationConfigToBatteryCapabilities and the defaults
\* prepareSimulationContext has for what is null.
Floor(battery, range) == ClampToSocRange(battery.floor, range)

\* Without a maximum it is the floor that is handed on.
Maximum(battery, range) ==
  LET candidate == ClampToSocRange(battery.max, range)
      floor == Floor(battery, range)
  IN  IF candidate = None THEN floor ELSE AtLeast(floor, candidate)

OrElse(percent, default) == IF percent = None THEN default ELSE percent

\* deriveBatteryOptimisationConstraints: no list of modes means all of them.
Available(battery) == IF battery.modes = {} THEN Modes ELSE battery.modes \cap Modes

\* The inputs of a call with what the translation knows besides: @@, spelled out
\* for the provers.
With(backend, context0) ==
  [f \in DOMAIN backend \cup DOMAIN context0 |->
     IF f \in DOMAIN backend THEN backend[f] ELSE context0[f]]

\* runSimulation's first pass
Constrained(profiles, battery) ==
  LET range == Capabilities(battery)
      context0 == Prepare(profiles,
                   [battery EXCEPT
                     !.autoFloor = OrElse(Floor(battery, range), 0),
                     !.maxCharge = OrElse(Maximum(battery, range), Top),
                     !.modes = Available(battery),
                     !.allowGridCharge = "charge" \in Available(battery),
                     !.canPrevent = Available(battery) \cap {"charge", "limit"} # {}])
  IN  With([range |-> range, sent |-> TRUE, unlimited |-> battery.max = None], context0)

\* A call without a backend's capabilities, as for the comparison with a battery
\* that is never charged from the grid: its plan becomes no command.
Unconstrained(profiles, battery) ==
  With([range |-> Generic, sent |-> FALSE, unlimited |-> FALSE], Prepare(profiles, battery))

\* What Constrained makes of a configuration whose bounds are percentages: no
\* charge the plan may use is moved by the backend's range.
ASSUME SentAssumption ==
  \A c \in Contexts : c.sent =>
    /\ c.range \in [low : 0 .. Parts * Top, high : 0 .. Parts * Top]
    /\ c.autoFloor = c.floor
    /\ \A s \in c.floor .. c.ceiling : ClampPercent(s, c.range) = s

-----------------------------------------------------------------------------
(* After the plan                                                          *)

\* What the battery's charge is announced to be after the first slot.
NextStepSoc == AtLeast(context.autoFloor, entries[1].next)

InBackend(percent) == ClampPercent(percent, context.range)

\* The parameters of the transition a slot is planned with.  A target that
\* leads to the same outcome as a higher one is not preferred to it.
ChargeParameter(k) ==
  LET from == entries[k].from
  IN  Max({InBackend(AtLeast(from, t)) :
             t \in {u \in ChargeTargets(k, from) :
                      \E o \in ChargeTo(k, from, u) : o.next = entries[k].next}})

\* A slot without any transition that counts has no parameters.
Planned(k) == Viable(k, entries[k].from) # {}

\* extractAutoFloor
AutoFloor == IF Planned(1) THEN InBackend(context.autoFloor) ELSE NextStepSoc

\* extractHoldMinimum: the first slot that holds, wherever it is
HoldMinimum ==
  LET holding == {k \in DOMAIN entries : entries[k].mode = "hold"}
  IN  IF holding = {} THEN NextStepSoc ELSE InBackend(entries[Min(holding)].from)

\* extractLimitMaximum
LimitMaximum == InBackend(entries[1].from)

\* The slots that charge before the first one that does not.
Leading == {k \in DOMAIN entries : \A j \in 1 .. k : entries[j].mode = "charge"}

\* Mutant: what the first of them is to reach is ordered.
ChargeTargetOfFirst == IF Leading = {} THEN NextStepSoc ELSE ChargeParameter(1)

\* extractChargeTarget: what the last of them is to reach
ChargeTarget == IF Leading = {} THEN NextStepSoc ELSE ChargeParameter(Max(Leading))

\* fromSimulationSnapshot
Command ==
  LET mode == entries[1].mode
  IN  [mode |-> mode,
       soc |-> InBackend(CASE mode = "auto" -> AutoFloor
                           [] mode = "hold" -> HoldMinimum
                           [] mode = "limit" -> LimitMaximum
                           [] mode = "charge" -> ChargeTarget)]

\* assertCommandSupported
Supported(c) ==
  \/ c.mode = "auto"
  \/ context.range.low <= Parts * c.soc /\ Parts * c.soc <= context.range.high

-----------------------------------------------------------------------------
(* Properties                                                              *)

\* The backend accepts the command of every plan, wherever the battery stands,
\* if its range is one and its bounds are whole percents.
CommandIsAccepted ==
  /\ phase = "done"
  /\ context.sent
  /\ context.range.low <= context.range.high
  /\ context.range.low % Parts = 0
  /\ context.range.high % Parts = 0
  => Supported(Command)

\* The command lets the battery do what is planned: what the first slots that
\* charge are to reach is asked for, what is held or limited is the charge the
\* battery has, and a battery by itself may go as low as planned.
CommandFollowsPlan ==
  phase = "done" /\ context.sent /\ InRange(context.start) =>
    LET from == entries[1].from
    IN  CASE Command.mode = "charge" -> \A k \in Leading : Command.soc >= entries[k].next
          [] Command.mode \in {"hold", "limit"} -> Command.soc = from
          [] Command.mode = "auto" -> Command.soc <= entries[1].next

\* docs/power_flow.md: the charging ceiling is optional and 100 if not set.  So
\* a battery without one that runs by itself stores the sun it has room for.
UnsetMaximumIsFull ==
  \A k \in DOMAIN entries :
    LET e == entries[k]
    IN  context.unlimited /\ e.mode = "auto" /\ e.from < Top /\ Bus[1] <= SolarLimit(k)
          => e.next > e.from
=============================================================================
