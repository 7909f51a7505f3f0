--------------------------- MODULE FroniusControl ---------------------------
(***************************************************************************)
(* The Fronius adapter (backend/src/fronius/fronius.service.ts): how one   *)
(* battery command becomes a POST of the battery configuration and a       *)
(* read-modify-write of the inverter's time-of-use rules, what the adapter *)
(* remembers of what it sent, and what it skips because of that memory.    *)
(*                                                                         *)
(* Every request is a step of its own with a fate; the process can restart *)
(* between any two of them, and the owner can edit the rules at any time.  *)
(* State of charge is a whole percent (the translator rounds to the        *)
(* backend's stepPercent of 1) and None stands for the source's null.      *)
(* The rules are a set: duplicates and their order do not change what the  *)
(* inverter does.                                                          *)
(***************************************************************************)
EXTENDS Integers

CONSTANTS
  Commands,       \* the commands the translator may hand over
  Settings,       \* configurations a (re)started process may load
  ConfigFloor,    \* battery.auto_mode_floor_soc, or None
  MaxCharge,      \* battery.max_charge_soc_percent, or None
  UserRules,      \* time-of-use rules the owner keeps on the inverter
  Fates           \* what can happen to a request

None == -1
Soc == None..100
Modes == {"auto", "hold", "limit", "charge"}

ASSUME CommandsAssumption ==
  /\ Commands \subseteq [mode : Modes, soc : Soc]
  /\ \A c \in Commands : c.mode = "hold" => c.soc # None

ASSUME SettingsAssumption ==
  Settings \subseteq [live : BOOLEAN, power : Nat \cup {None}]

ASSUME LimitsAssumption ==
  /\ ConfigFloor \in Soc
  /\ MaxCharge \in Soc

\* An owner's rule applies to part of the day or week; an all-day rule that
\* looks like the adapter's own is the adapter's (isManagedTimeOfUseEntry).
Types == {"CHARGE_MIN", "CHARGE_MAX", "DISCHARGE_MAX"}
Rule(windows) ==
  [type : Types, power : Nat, active : BOOLEAN, window : windows]

ASSUME UserRulesAssumption == UserRules \subseteq Rule({"partial"})

\* "lost": the request never took effect; "unanswered": it took effect but the
\* answer did not arrive before the abort timer; "unauthorised": HTTP 401;
\* "blank": answered with 200, but with a body that is not JSON or has no
\* timeofuse array.
ASSUME FatesAssumption ==
  Fates \subseteq {"done", "blank", "lost", "unanswered", "unauthorised"}

NoCommand == [mode |-> "none", soc |-> None]

VARIABLES
  settings,      \* the running process's configuration
  lastMode,      \* lastAppliedMode, "none" before the first success
  lastTarget,    \* lastAppliedTarget
  lastManaged,   \* lastManagedTimeOfUseEntries
  phase,         \* the request applyOptimization awaits, "idle" outside it
  cmd,           \* the command being applied, or the last one applied in full
  seen,          \* rules read from the inverter in this call
  reply,         \* the last errorMessage applyOptimization returned
  battery,       \* inverter: BAT_M0_SOC_MODE and BAT_M0_SOC_MIN
  rules,         \* inverter: the time-of-use table
  owned,         \* history: the rules the owner wants on the inverter
  unread,        \* history: owner's rules the adapter's last read did not show
                 \* as they are, by a later edit or a blank answer
  torn           \* history: the battery was set and its call did not complete

adapter == <<settings, lastMode, lastTarget, lastManaged>>
call == <<phase, cmd, seen, reply>>
inverter == <<battery, rules>>
history == <<owned, unread, torn>>
vars == <<adapter, call, inverter, history>>

-----------------------------------------------------------------------------
(* Building the payload                                                    *)

ResolveAutoFloor(explicit) ==
  IF explicit # None
  THEN IF explicit >= ConfigFloor THEN explicit ELSE ConfigFloor
  ELSE IF ConfigFloor # None THEN ConfigFloor ELSE 5

ClampToMaxCharge(target) ==
  IF MaxCharge # None /\ target > MaxCharge THEN MaxCharge ELSE target

ChargeTarget(c) ==
  IF c.soc # None THEN c.soc
  ELSE IF MaxCharge # None THEN MaxCharge ELSE 100

\* What POST /config/batteries sets for a command.
Payload(c) ==
  CASE c.mode = "charge" -> [mode |-> "manual", min |-> ChargeTarget(c)]
    [] c.mode = "hold"   -> [mode |-> "manual",
                             min |-> ClampToMaxCharge(ResolveAutoFloor(c.soc))]
    [] c.mode = "limit"  -> [mode |-> "auto", min |-> ResolveAutoFloor(None)]
    [] OTHER             -> [mode |-> "auto", min |-> ResolveAutoFloor(c.soc)]

\* Mutant: the tolerance is read as five percentage points.
WithinFivePoints(a, b) == a - b <= 5 /\ b - a <= 5

\* The half-percent tolerance, on whole percents.
WithinTolerance(a, b) == 2 * (a - b) <= 1 /\ 2 * (b - a) <= 1

\* The value the memory of the last target is compared with.
ComparedTarget(c) == IF c.mode = "limit" THEN ResolveAutoFloor(None) ELSE c.soc

\* Mutant: an unchanged mode is taken for an unchanged command.
ShouldSkipOnMode(c) == lastMode = c.mode

ShouldSkip(c) ==
  /\ lastMode = c.mode
  /\ \/ c.mode = "charge"
     \/ /\ ComparedTarget(c) # None
        /\ lastTarget # None
        /\ WithinTolerance(lastTarget, ComparedTarget(c))

\* assertCommandSupported, against the ranges getCapabilities advertises.
Supported(c) ==
  \/ c.mode = "auto"
  \/ c.soc = None
  \/ /\ c.soc >= IF ConfigFloor = None THEN 0 ELSE ConfigFloor
     /\ c.soc <= IF MaxCharge = None THEN 100 ELSE MaxCharge

-----------------------------------------------------------------------------
(* The managed time-of-use rules                                           *)

AllDay(type, power, active) ==
  [type |-> type, power |-> power, active |-> active, window |-> "allDay"]

\* One CHARGE_MIN rule at the configured power, active while charging, and one
\* zero-watt CHARGE_MAX rule, active while limiting.
Desired(c) ==
  (IF settings.power # None
   THEN {AllDay("CHARGE_MIN", settings.power, c.mode = "charge")} ELSE {})
  \cup {AllDay("CHARGE_MAX", 0, c.mode = "limit")}

\* Rules with a type the adapter does not know are dropped on reading.
Parsed(table) == {r \in table : r.type \in {"CHARGE_MIN", "CHARGE_MAX"}}

\* What the adapter takes the table for: a blank answer is an empty table.
Extracted(fate) == IF fate = "blank" THEN {} ELSE Parsed(rules)

\* Mutant: the window of a rule is not compared.
LooksManagedAnyWindow(r, c) ==
  \E m \in Desired(c) : r.type = m.type /\ r.power = m.power

LooksManaged(r, c) ==
  /\ r.window = "allDay"
  /\ \E m \in Desired(c) : r.type = m.type /\ r.power = m.power

\* Mutant: only rules this process wrote are recognised.
ExistingManagedExact(table, c) == table \cap lastManaged

\* Exact matches with what was last written win over the look-alikes.
ExistingManaged(table, c) ==
  IF table \cap lastManaged # {}
  THEN table \cap lastManaged
  ELSE {r \in table : LooksManaged(r, c)}

Merged(table, c) == (table \ ExistingManaged(table, c)) \cup Desired(c)

-----------------------------------------------------------------------------
(* The steps of applyOptimization                                          *)

\* The body of a 200 answer is looked at only when the rules are read.
Answered(fate) == fate \in {"done", "blank"}

Delivered(fate) == Answered(fate) \/ fate = "unanswered"

Boot ==
  /\ settings' \in Settings
  /\ lastMode' = "none"
  /\ lastTarget' = None
  /\ lastManaged' = {}
  /\ phase' = "idle"
  /\ cmd' = NoCommand
  /\ seen' = {}
  /\ reply' = "null"

Init ==
  /\ settings \in Settings
  /\ lastMode = "none"
  /\ lastTarget = None
  /\ lastManaged = {}
  /\ phase = "idle"
  /\ cmd = NoCommand
  /\ seen = {}
  /\ reply = "null"
  /\ battery = [mode |-> "auto", min |-> 5]
  /\ rules = {}
  /\ owned = {}
  /\ unread = {}
  /\ torn = FALSE

\* Mutant: the call's cleanup is skipped when a request fails.
FailWithoutCleanup(fate) ==
  /\ phase' = "failed"
  /\ cmd' = NoCommand
  /\ seen' = {}
  /\ reply' = IF fate = "unauthorised" THEN "auth" ELSE "null"

\* A request that did not come back as expected ends the call: only a 401 is
\* reported to the caller.
Fail(fate) ==
  /\ phase' = "idle"
  /\ cmd' = NoCommand
  /\ seen' = {}
  /\ reply' = IF fate = "unauthorised" THEN "auth" ELSE "null"

Decline(c) ==
  /\ phase = "idle"
  /\ ~(Supported(c) /\ settings.live)
  /\ reply' = IF Supported(c) THEN "null" ELSE "unsupported"
  /\ UNCHANGED <<adapter, phase, cmd, seen, inverter, history>>

Apply(c) ==
  /\ phase = "idle"
  /\ Supported(c)
  /\ settings.live
  /\ cmd' = c
  /\ phase' = IF ShouldSkip(c) THEN "read" ELSE "login"
  /\ UNCHANGED <<adapter, seen, reply, inverter, history>>

Login(fate) ==
  /\ phase = "login"
  /\ IF Answered(fate)
     THEN phase' = "battery" /\ UNCHANGED <<cmd, seen, reply>>
     ELSE Fail(fate)
  /\ UNCHANGED <<adapter, inverter, history>>

PostBattery(fate) ==
  /\ phase = "battery"
  /\ IF Delivered(fate)
     THEN battery' = Payload(cmd) /\ torn' = TRUE
     ELSE UNCHANGED <<battery, torn>>
  /\ IF Answered(fate)
     THEN phase' = "read" /\ UNCHANGED <<cmd, seen, reply>>
     ELSE Fail(fate)
  /\ UNCHANGED <<adapter, rules, owned, unread>>

ReadRules(fate) ==
  /\ phase = "read"
  /\ IF Answered(fate)
     THEN /\ phase' = "write"
          /\ seen' = Extracted(fate)
          /\ unread' = IF fate = "blank" THEN unread \cup owned
                       ELSE {r \in unread : (r \in owned) # (r \in rules)}
          /\ UNCHANGED <<cmd, reply>>
     ELSE Fail(fate) /\ UNCHANGED unread
  /\ UNCHANGED <<adapter, inverter, owned, torn>>

\* The call's last assignments.  The memory of the last target is refreshed
\* even when the battery update was skipped.
Complete ==
  /\ lastMode' = cmd.mode
  /\ lastTarget' = Payload(cmd).min
  /\ lastManaged' = Desired(cmd)
  /\ phase' = "idle"
  /\ seen' = {}
  /\ reply' = "null"
  /\ torn' = (torn /\ ShouldSkip(cmd))
  /\ UNCHANGED <<settings, cmd>>

\* The table is replaced by the one computed from what was read.  A table that
\* already holds the desired set may still be rewritten to reorder it.
WriteRules(fate) ==
  /\ phase = "write"
  /\ rules' = IF Delivered(fate) THEN Merged(seen, cmd) ELSE rules
  /\ IF Answered(fate)
     THEN Complete
     ELSE Fail(fate) /\ UNCHANGED <<adapter, torn>>
  /\ UNCHANGED <<battery, owned, unread>>

SkipWrite ==
  /\ phase = "write"
  /\ seen = Merged(seen, cmd)
  /\ Complete
  /\ UNCHANGED <<inverter, owned, unread>>

-----------------------------------------------------------------------------
(* The environment                                                         *)

Restart ==
  /\ Boot
  /\ torn' = FALSE
  /\ UNCHANGED <<inverter, owned, unread>>

\* The owner adds or deletes a rule in the inverter's own user interface.
OwnerEdit(r) ==
  /\ \/ /\ r \notin rules
        /\ rules' = rules \cup {r}
        /\ owned' = owned \cup {r}
     \/ /\ r \in rules
        /\ rules' = rules \ {r}
        /\ owned' = owned \ {r}
  /\ unread' = IF phase = "write" THEN unread \cup {r} ELSE unread \ {r}
  /\ UNCHANGED <<adapter, call, battery, torn>>

Request(fate) ==
  Login(fate) \/ PostBattery(fate) \/ ReadRules(fate) \/ WriteRules(fate)

Next ==
  \/ \E c \in Commands : Apply(c) \/ Decline(c)
  \/ \E fate \in Fates : Request(fate)
  \/ SkipWrite
  \/ Restart
  \/ \E r \in UserRules : OwnerEdit(r)

Spec == Init /\ [][Next]_vars

\* The planner keeps sending commands, and every request ends: the digest
\* client aborts it after timeoutSeconds.
Fairness ==
  /\ WF_vars(\E c \in Commands : Apply(c))
  /\ WF_vars((\E fate \in Fates : Request(fate)) \/ SkipWrite)

FairSpec == Spec /\ Fairness
-----------------------------------------------------------------------------
(* Properties                                                              *)

Tables == SUBSET Rule({"partial", "allDay"})

\* Every variable keeps its type; in particular what is sent to the inverter
\* as BAT_M0_SOC_MIN is a percentage, never the null of an absent target.
TypeOK ==
  /\ settings \in Settings
  /\ lastMode \in Modes \cup {"none"}
  /\ lastTarget \in Soc
  /\ lastManaged \in Tables
  /\ phase \in {"idle", "login", "battery", "read", "write"}
  /\ cmd \in Commands \cup {NoCommand}
  /\ seen \in Tables
  /\ reply \in {"null", "auth", "unsupported"}
  /\ battery \in [mode : {"auto", "manual"}, min : 0..100]
  /\ rules \in Tables
  /\ owned \subseteq UserRules
  /\ unread \subseteq UserRules
  /\ torn \in BOOLEAN

BatteryMode(mode) == IF mode \in {"hold", "charge"} THEN "manual" ELSE "auto"

\* What the adapter remembers of the battery is what the battery shows, however
\* requests fail and whatever was skipped, unless a call broke off after it had
\* set the battery.  A charge target is the exception the code makes: while
\* charging, lastAppliedTarget follows the plan and the battery does not.
BeliefIsTrue ==
  lastMode # "none" /\ ~torn =>
    /\ battery.mode = BatteryMode(lastMode)
    /\ lastMode # "charge" => battery.min = lastTarget

\* A rule the owner added stays and a rule the owner deleted stays deleted,
\* across failed, repeated and half-done rewrites of the whole table.  The code
\* makes three exceptions.  Rules of a type the adapter cannot parse are dropped
\* by every rewrite; an edit between the adapter's read and its write is undone;
\* and a read answered without a table is taken for an empty one, so that the
\* write after it deletes every rule of the owner's.
UserRulesKept ==
  \A r \in Parsed(UserRules) \ unread : r \in owned <=> r \in rules

\* After a restart the process no longer knows which rules are its own.  The
\* first table it writes still holds exactly the desired ones of all the rules
\* that look like its own: an active rule left over by the previous process is
\* found and replaced.
FirstSyncIsExact ==
  [][lastManaged = {} /\ lastManaged' # {} =>
       {r \in rules' : LooksManaged(r, cmd')} = Desired(cmd')]_vars

\* The battery update is skipped only if the battery shows what the command
\* asks for.  This is what the log line of the skipping branch says.
AlreadyAligned ==
  [][phase = "idle" /\ phase' = "read" => battery = Payload(cmd')]_vars

Trouble == Restart \/ \E fate \in Fates : ~Answered(fate) /\ Request(fate)

\* The inverter does what the last call asked for.  While charging, the battery
\* keeps the target it was first given.
InPlace ==
  phase = "idle" /\ cmd # NoCommand =>
    /\ battery.mode = Payload(cmd).mode
    /\ cmd.mode # "charge" => battery.min = Payload(cmd).min
    /\ Desired(cmd) \subseteq rules

\* If from some point on every request is answered and the process stays up with
\* the integration on, calls come to their end again and again; and if the
\* commands go on changing the mode, the inverter is from some call on as each
\* call asks, whatever memory and rules the earlier failures left behind.  (As
\* long as the mode stays the same, a battery update may be skipped because of
\* what a broken call did not remember: see AlreadyAligned.)
Recovers ==
  \/ []<><<Trouble>>_vars
  \/ <>[](~settings.live)
  \/ /\ []<>(phase = "idle" /\ cmd # NoCommand)
     /\ []<><<lastMode' # lastMode>>_vars => <>[]InPlace

InForce(table) == {r \in table : r.window = "allDay" /\ r.active}

NoOrder == [battery |-> [mode |-> "none", min |-> None], posture |-> {}]

OrderOf(c) ==
  IF c = NoCommand THEN NoOrder
  ELSE [battery |-> Payload(c), posture |-> InForce(Desired(c))]

Promise == INSTANCE BatteryOrder WITH
  Battery <- [mode : {"auto", "manual"}, min : 0..100],
  Posture <- SUBSET Rule({"allDay"}),
  NoOrder <- NoOrder,
  order <- OrderOf(cmd),
  stage <- CASE phase \in {"login", "battery"} -> "battery"
             [] phase \in {"read", "write"} -> "posture"
             [] OTHER -> "idle",
  battery <- battery,
  posture <- InForce(rules)

\* When requests do not fail and the configured power does not change, sessions,
\* skips, rule matching and restarts together keep the promise of BatteryOrder:
\* every order sets the battery and then the rules, or leaves alone what already
\* is as ordered.
KeepsPromise == Promise!Spec
=============================================================================
