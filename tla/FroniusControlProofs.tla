------------------------ MODULE FroniusControlProofs ------------------------
(***************************************************************************)
(* What FroniusControl keeps for every set of commands, configurations,    *)
(* limits, owner's rules and fates: its types, the truth of what the       *)
(* adapter remembers of the battery, and the owner's rules.                *)
(***************************************************************************)
EXTENDS FroniusControl, TLAPS

\* A call always has the command it is applying.
CallHasCommand == phase # "idle" => cmd \in Commands

Typed == TypeOK /\ CallHasCommand

-----------------------------------------------------------------------------
(* The operators the model is built from                                   *)

\* Whatever the limits are, the payload of a command is a mode the inverter
\* knows and a percentage.
LEMMA PayloadType ==
  ASSUME NEW c \in Commands
  PROVE  /\ Payload(c) \in [mode : {"auto", "manual"}, min : 0..100]
         /\ Payload(c).mode = BatteryMode(c.mode)
<1>1. c \in [mode : Modes, soc : Soc] /\ (c.mode = "hold" => c.soc # None)
  BY CommandsAssumption
<1>2. ResolveAutoFloor(c.soc) \in 0..100 /\ ResolveAutoFloor(None) \in 0..100
  BY <1>1, LimitsAssumption DEF ResolveAutoFloor, Soc, None
<1>3. ChargeTarget(c) \in 0..100
  BY <1>1, LimitsAssumption DEF ChargeTarget, Soc, None
<1>4. ClampToMaxCharge(ResolveAutoFloor(c.soc)) \in 0..100
  BY <1>2, LimitsAssumption DEF ClampToMaxCharge, Soc, None
<1> QED
  BY <1>1, <1>2, <1>3, <1>4 DEF Payload, BatteryMode, Modes

\* The managed rules are all-day rules of a type the adapter can read back.
LEMMA DesiredType ==
  ASSUME NEW c, settings \in Settings
  PROVE  /\ Desired(c) \subseteq Rule({"partial", "allDay"})
         /\ \A m \in Desired(c) : /\ m.window = "allDay"
                                  /\ m.type \in {"CHARGE_MIN", "CHARGE_MAX"}
<1>1. settings.power \in Nat \cup {None}
  BY SettingsAssumption
<1>2. AllDay("CHARGE_MAX", 0, c.mode = "limit") \in Rule({"partial", "allDay"})
  BY DEF AllDay, Rule, Types
<1>3. ASSUME settings.power # None
      PROVE  AllDay("CHARGE_MIN", settings.power, c.mode = "charge")
               \in Rule({"partial", "allDay"})
  BY <1>1, <1>3 DEF AllDay, Rule, Types
<1> QED
  BY <1>2, <1>3 DEF Desired, AllDay

\* Rewriting a table keeps it a table and leaves every rule that is not an
\* all-day one exactly as it was read.
LEMMA MergedKeepsPartial ==
  ASSUME NEW c, NEW table \in Tables, settings \in Settings,
         \A m \in lastManaged : m.window = "allDay"
  PROVE  /\ Merged(table, c) \in Tables
         /\ \A r : r.window = "partial" =>
                     (r \in Merged(table, c) <=> r \in table)
<1>1. \A m \in Desired(c) : m.window = "allDay"
  BY DesiredType
<1>2. \A m \in ExistingManaged(table, c) : m.window = "allDay"
  BY DEF ExistingManaged, LooksManaged
<1>3. Merged(table, c) \in Tables
  BY DesiredType DEF Merged, Tables
<1> QED
  BY <1>1, <1>2, <1>3 DEF Merged

-----------------------------------------------------------------------------
(* Types                                                                   *)

\* Every rule the adapter calls its own is an all-day rule.
ManagedAllDay == \A m \in lastManaged : m.window = "allDay"

TypeInv == Typed /\ ManagedAllDay

LEMMA TypeInit ==
  Init => TypeInv
<1> SUFFICES ASSUME Init PROVE TypeInv
  OBVIOUS
<1>1. lastTarget \in Soc
  BY DEF Init, Soc, None
<1>2. lastManaged \in Tables /\ seen \in Tables /\ rules \in Tables
  BY DEF Init, Tables
<1>3. battery \in [mode : {"auto", "manual"}, min : 0..100]
  BY DEF Init
<1> QED
  BY <1>1, <1>2, <1>3
  DEF Init, TypeInv, Typed, TypeOK, CallHasCommand, ManagedAllDay

\* However a call ends, types are kept.
LEMMA FailKeepsTypes ==
  ASSUME TypeInv, NEW fate, Fail(fate), UNCHANGED <<adapter, owned, unread>>,
         rules' \in Tables, torn' \in BOOLEAN,
         battery' \in [mode : {"auto", "manual"}, min : 0..100]
  PROVE  TypeInv'
<1>1. seen' \in Tables /\ reply' \in {"null", "auth"}
  BY DEF Fail, Tables
<1>2. CallHasCommand' /\ phase' = "idle" /\ cmd' = NoCommand
  BY DEF Fail, CallHasCommand
<1>3. ManagedAllDay'
  BY DEF TypeInv, ManagedAllDay, adapter
<1> QED
  BY <1>1, <1>2, <1>3 DEF TypeInv, Typed, TypeOK, adapter

LEMMA CompleteKeepsTypes ==
  ASSUME TypeInv, phase = "write", Complete, UNCHANGED <<battery, owned, unread>>,
         rules' \in Tables
  PROVE  TypeInv'
<1>1. cmd \in Commands /\ settings \in Settings /\ torn \in BOOLEAN
  BY DEF TypeInv, Typed, TypeOK, CallHasCommand
<1>2. cmd.mode \in Modes
  BY <1>1, CommandsAssumption
<1>3. Payload(cmd).min \in Soc
  BY <1>1, PayloadType DEF Soc, None
<1>4. /\ Desired(cmd) \in Tables
      /\ \A m \in Desired(cmd) : m.window = "allDay"
  BY <1>1, DesiredType DEF Tables
<1>5. ManagedAllDay' /\ lastManaged' \in Tables
  BY <1>4 DEF Complete, ManagedAllDay
<1>6. /\ settings' = settings /\ cmd' = cmd /\ lastMode' = cmd.mode /\ phase' = "idle"
      /\ lastTarget' \in Soc /\ seen' \in Tables /\ reply' = "null" /\ torn' \in BOOLEAN
  BY <1>1, <1>3 DEF Complete, Tables
<1> QED
  BY <1>1, <1>2, <1>5, <1>6 DEF TypeInv, Typed, TypeOK, CallHasCommand

\* What the history notes of a read stays among the owner's rules.
LEMMA ReadKeepsTypes ==
  ASSUME TypeInv, NEW fate, ReadRules(fate)
  PROVE  /\ owned' \subseteq UserRules /\ unread' \subseteq UserRules
         /\ UNCHANGED <<owned, torn>>
<1>1. owned \subseteq UserRules /\ unread \subseteq UserRules
  BY DEF TypeInv, Typed, TypeOK
<1> QED
  BY <1>1 DEF ReadRules

\* No step, whatever its fate, breaks a type.
LEMMA TypeStep ==
  TypeInv /\ [Next]_vars => TypeInv'
<1> SUFFICES ASSUME TypeInv, [Next]_vars PROVE TypeInv'
  OBVIOUS
<1>a. /\ rules \in Tables /\ seen \in Tables /\ torn \in BOOLEAN
      /\ battery \in [mode : {"auto", "manual"}, min : 0..100]
      /\ settings \in Settings /\ ManagedAllDay
      /\ cmd \in Commands \cup {NoCommand}
  BY DEF TypeInv, Typed, TypeOK
<1>1. ASSUME NEW c \in Commands, Apply(c) PROVE TypeInv'
  BY <1>1 DEF Apply, adapter, inverter, history,
              TypeInv, Typed, TypeOK, CallHasCommand, ManagedAllDay
<1>2. ASSUME NEW c \in Commands, Decline(c) PROVE TypeInv'
  BY <1>2 DEF Decline, adapter, inverter, history,
              TypeInv, Typed, TypeOK, CallHasCommand, ManagedAllDay
<1>3. ASSUME NEW fate \in Fates, Login(fate) PROVE TypeInv'
  <2>1. CASE Fail(fate)
    BY <1>a, <1>3, <2>1, FailKeepsTypes DEF Login, inverter, history
  <2>2. CASE phase' = "battery" /\ UNCHANGED <<cmd, seen, reply>>
    BY <1>3, <2>2 DEF Login, adapter, inverter, history,
                      TypeInv, Typed, TypeOK, CallHasCommand, ManagedAllDay
  <2> QED
    BY <1>3, <2>1, <2>2 DEF Login
<1>4. ASSUME NEW fate \in Fates, PostBattery(fate) PROVE TypeInv'
  <2>1. cmd \in Commands
    BY <1>4 DEF PostBattery, TypeInv, Typed, CallHasCommand
  <2>2. /\ battery' \in [mode : {"auto", "manual"}, min : 0..100]
        /\ torn' \in BOOLEAN
    BY <1>a, <1>4, <2>1, PayloadType DEF PostBattery
  <2>3. CASE Fail(fate)
    BY <1>a, <1>4, <2>2, <2>3, FailKeepsTypes DEF PostBattery
  <2>4. CASE phase' = "read" /\ UNCHANGED <<cmd, seen, reply>>
    BY <1>4, <2>1, <2>2, <2>4
    DEF PostBattery, adapter,
        TypeInv, Typed, TypeOK, CallHasCommand, ManagedAllDay
  <2> QED
    BY <1>4, <2>3, <2>4 DEF PostBattery
<1>5. ASSUME NEW fate \in Fates, ReadRules(fate) PROVE TypeInv'
  <2>1. CASE Fail(fate) /\ UNCHANGED unread
    BY <1>a, <1>5, <2>1, FailKeepsTypes, ReadKeepsTypes
    DEF ReadRules, inverter
  <2>2. CASE /\ phase' = "write" /\ seen' = Extracted(fate)
             /\ UNCHANGED <<cmd, reply>>
    <3>1. seen' \in Tables
      BY <1>a, <2>2 DEF Extracted, Parsed, Tables
    <3>2. cmd' \in Commands
      BY <1>5, <2>2 DEF ReadRules, TypeInv, Typed, CallHasCommand
    <3> QED
      BY <1>5, <2>2, <3>1, <3>2, ReadKeepsTypes
      DEF ReadRules, adapter, inverter,
          TypeInv, Typed, TypeOK, CallHasCommand, ManagedAllDay
  <2> QED
    BY <1>5, <2>1, <2>2 DEF ReadRules
<1>6. ASSUME NEW fate \in Fates, WriteRules(fate) PROVE TypeInv'
  <2>1. Merged(seen, cmd) \in Tables
    BY <1>a, MergedKeepsPartial DEF ManagedAllDay
  <2>2. rules' \in Tables
    BY <1>a, <1>6, <2>1 DEF WriteRules
  <2>3. CASE Complete
    BY <1>6, <2>2, <2>3, CompleteKeepsTypes DEF WriteRules
  <2>4. CASE Fail(fate) /\ UNCHANGED <<adapter, torn>>
    BY <1>a, <1>6, <2>2, <2>4, FailKeepsTypes DEF WriteRules
  <2> QED
    BY <1>6, <2>3, <2>4 DEF WriteRules
<1>7. CASE SkipWrite
  BY <1>a, <1>7, CompleteKeepsTypes DEF SkipWrite, inverter
<1>8. CASE Restart
  <2>1. lastTarget' \in Soc /\ lastManaged' \in Tables /\ seen' \in Tables
    BY <1>8 DEF Restart, Boot, Soc, None, Tables
  <2> QED
    BY <1>8, <2>1 DEF Restart, Boot, inverter,
                      TypeInv, Typed, TypeOK, CallHasCommand, ManagedAllDay
<1>9. ASSUME NEW r \in UserRules, OwnerEdit(r) PROVE TypeInv'
  <2>1. r \in Rule({"partial", "allDay"})
    BY UserRulesAssumption DEF Rule
  <2>2. /\ rules' \in Tables
        /\ owned' \subseteq UserRules /\ unread' \subseteq UserRules
    BY <1>9, <2>1 DEF OwnerEdit, Tables, TypeInv, Typed, TypeOK
  <2> QED
    BY <1>9, <2>2 DEF OwnerEdit, adapter, call,
                      TypeInv, Typed, TypeOK, CallHasCommand, ManagedAllDay
<1>10. CASE UNCHANGED vars
  BY <1>10 DEF vars, adapter, call, inverter, history,
               TypeInv, Typed, TypeOK, CallHasCommand, ManagedAllDay
<1> QED
  BY <1>1, <1>2, <1>3, <1>4, <1>5, <1>6, <1>7, <1>8, <1>9, <1>10
  DEF Next, Request

\* In every reachable state each variable has its type, for every choice of
\* limits and whatever happens to the requests: the inverter is only ever sent
\* a percentage.
THEOREM TypeCorrect ==
  Spec => []TypeOK
<1>1. TypeInv => TypeOK
  BY DEF TypeInv, Typed
<1> QED
  BY <1>1, TypeInit, TypeStep, PTL DEF Spec
-----------------------------------------------------------------------------
(* The memory of the battery                                               *)

\* The remembered target is one that building the payload leaves alone: asked
\* for again, it would be sent unchanged.  Without this a skipped update could
\* move lastTarget away from what the battery shows.
RememberedTargetIsFinal ==
  /\ lastMode = "auto" => lastTarget = ResolveAutoFloor(lastTarget)
  /\ lastMode = "hold" =>
       lastTarget = ClampToMaxCharge(ResolveAutoFloor(lastTarget))
  /\ lastMode = "limit" => lastTarget = ResolveAutoFloor(None)

\* A call that did not skip the battery update is about to set the battery, or
\* has set it.
CallSetsBattery ==
  /\ phase \in {"login", "battery"} => ~ShouldSkip(cmd)
  /\ phase \in {"read", "write"} /\ ~ShouldSkip(cmd) => battery = Payload(cmd)

BeliefInv == BeliefIsTrue /\ RememberedTargetIsFinal /\ CallSetsBattery

LEMMA PayloadIsFinal ==
  ASSUME NEW c \in Commands
  PROVE  /\ c.mode = "auto" =>
              Payload(c).min = ResolveAutoFloor(Payload(c).min)
         /\ c.mode = "hold" =>
              Payload(c).min = ClampToMaxCharge(ResolveAutoFloor(Payload(c).min))
         /\ c.mode = "limit" => Payload(c).min = ResolveAutoFloor(None)
<1>1. c.soc \in Soc /\ (c.mode = "hold" => c.soc # None)
  BY CommandsAssumption
<1>2. ASSUME NEW s \in Soc
      PROVE  /\ ResolveAutoFloor(s) \in 0..100
             /\ ResolveAutoFloor(ResolveAutoFloor(s)) = ResolveAutoFloor(s)
             /\ ClampToMaxCharge(ResolveAutoFloor(ClampToMaxCharge(ResolveAutoFloor(s))))
                  = ClampToMaxCharge(ResolveAutoFloor(s))
  BY LimitsAssumption DEF ResolveAutoFloor, ClampToMaxCharge, Soc, None
<1>3. CASE c.mode = "auto"
  BY <1>1, <1>2, <1>3 DEF Payload
<1>4. CASE c.mode = "hold"
  BY <1>1, <1>2, <1>4 DEF Payload
<1>5. CASE c.mode = "limit"
  BY <1>5 DEF Payload
<1> QED
  BY <1>3, <1>4, <1>5

\* When the update is skipped, what would have been sent is what is remembered.
LEMMA SkippedTargetIsRemembered ==
  ASSUME NEW c \in Commands, lastTarget \in Soc,
         RememberedTargetIsFinal, ShouldSkip(c), c.mode # "charge"
  PROVE  Payload(c).min = lastTarget
<1>1. c.soc \in Soc /\ c.mode \in Modes
  BY CommandsAssumption
<1>2. /\ lastMode = c.mode /\ ComparedTarget(c) # None /\ lastTarget # None
      /\ WithinTolerance(lastTarget, ComparedTarget(c))
  BY DEF ShouldSkip
<1>3. ResolveAutoFloor(None) \in Soc
  BY LimitsAssumption DEF ResolveAutoFloor, Soc, None
<1>4. ComparedTarget(c) \in Soc
  BY <1>1, <1>3 DEF ComparedTarget
<1>5. lastTarget = ComparedTarget(c)
  BY <1>2, <1>4 DEF WithinTolerance, Soc, None
<1>6. CASE c.mode = "auto"
  BY <1>2, <1>5, <1>6 DEF ComparedTarget, Payload, RememberedTargetIsFinal
<1>7. CASE c.mode = "hold"
  BY <1>2, <1>5, <1>7 DEF ComparedTarget, Payload, RememberedTargetIsFinal
<1>8. CASE c.mode = "limit"
  BY <1>2, <1>5, <1>8 DEF ComparedTarget, Payload, RememberedTargetIsFinal
<1> QED
  BY <1>1, <1>6, <1>7, <1>8 DEF Modes

\* A call applied in full leaves the memory true.
LEMMA CompleteKeepsBelief ==
  ASSUME TypeInv, BeliefInv, phase = "write", Complete, battery' = battery
  PROVE  BeliefInv'
<1>1. cmd \in Commands /\ lastTarget \in Soc
  BY DEF TypeInv, Typed, TypeOK, CallHasCommand
<1>2. /\ lastMode' = cmd.mode /\ lastTarget' = Payload(cmd).min
      /\ phase' = "idle" /\ torn' = (torn /\ ShouldSkip(cmd))
  BY DEF Complete
<1>3. RememberedTargetIsFinal'
  BY <1>1, <1>2, PayloadIsFinal DEF RememberedTargetIsFinal
<1>4. CallSetsBattery'
  BY <1>2 DEF CallSetsBattery
<1>5. CASE ~ShouldSkip(cmd)
  <2>1. battery' = Payload(cmd)
    BY <1>5 DEF BeliefInv, CallSetsBattery
  <2> QED
    BY <1>1, <1>2, <1>3, <1>4, <2>1, PayloadType DEF BeliefInv, BeliefIsTrue
<1>6. CASE ShouldSkip(cmd)
  <2>1. lastMode = cmd.mode /\ lastMode # "none"
    BY <1>1, <1>6, CommandsAssumption DEF ShouldSkip, Modes
  <2>2. torn' = torn
    BY <1>2, <1>6 DEF TypeInv, Typed, TypeOK
  <2>3. cmd.mode # "charge" => Payload(cmd).min = lastTarget
    BY <1>1, <1>6, SkippedTargetIsRemembered DEF BeliefInv
  <2> QED
    BY <1>2, <1>3, <1>4, <2>1, <2>2, <2>3 DEF BeliefInv, BeliefIsTrue
<1> QED
  BY <1>5, <1>6

\* A failed call leaves the memory as it was.
LEMMA FailKeepsBelief ==
  ASSUME BeliefInv, NEW fate, Fail(fate), UNCHANGED adapter,
         torn' = TRUE \/ UNCHANGED <<battery, torn>>
  PROVE  BeliefInv'
BY DEF BeliefInv, BeliefIsTrue, RememberedTargetIsFinal, CallSetsBattery,
       Fail, adapter

LEMMA BeliefStep ==
  TypeInv /\ BeliefInv /\ [Next]_vars => BeliefInv'
<1> SUFFICES ASSUME TypeInv, BeliefInv, [Next]_vars PROVE BeliefInv'
  OBVIOUS
<1>0. ASSUME UNCHANGED <<adapter, cmd, phase, battery, torn>> PROVE BeliefInv'
  BY <1>0 DEF BeliefInv, BeliefIsTrue, RememberedTargetIsFinal,
              CallSetsBattery, ShouldSkip, adapter
<1>1. ASSUME NEW c \in Commands, Apply(c) PROVE BeliefInv'
  <2>1. ShouldSkip(c) => phase' = "read" /\ ShouldSkip(cmd)'
    BY <1>1 DEF Apply, ShouldSkip, adapter
  <2>2. ~ShouldSkip(c) => phase' = "login" /\ ~ShouldSkip(cmd)'
    BY <1>1 DEF Apply, ShouldSkip, adapter
  <2>3. CallSetsBattery'
    BY <2>1, <2>2 DEF CallSetsBattery
  <2> QED
    BY <1>1, <2>3 DEF Apply, adapter, inverter, history,
                      BeliefInv, BeliefIsTrue, RememberedTargetIsFinal
<1>2. ASSUME NEW c \in Commands, Decline(c) PROVE BeliefInv'
  BY <1>0, <1>2 DEF Decline, inverter, history
<1>3. ASSUME NEW fate \in Fates, Login(fate) PROVE BeliefInv'
  <2>1. CASE Fail(fate)
    BY <1>3, <2>1, FailKeepsBelief DEF Login, inverter, history
  <2>2. CASE phase' = "battery" /\ UNCHANGED <<cmd, seen, reply>>
    BY <1>3, <2>2 DEF Login, adapter, inverter, history, BeliefInv, ShouldSkip,
                      BeliefIsTrue, RememberedTargetIsFinal, CallSetsBattery
  <2> QED
    BY <1>3, <2>1, <2>2 DEF Login
<1>4. ASSUME NEW fate \in Fates, PostBattery(fate) PROVE BeliefInv'
  <2>1. torn' = TRUE \/ UNCHANGED <<battery, torn>>
    BY <1>4 DEF PostBattery
  <2>2. CASE Fail(fate)
    BY <1>4, <2>1, <2>2, FailKeepsBelief DEF PostBattery
  <2>3. CASE /\ Answered(fate) /\ phase' = "read"
             /\ UNCHANGED <<cmd, seen, reply>>
    <3>1. battery' = Payload(cmd) /\ torn' = TRUE /\ UNCHANGED adapter
      BY <1>4, <2>3 DEF PostBattery, Delivered
    <3>2. CallSetsBattery'
      BY <2>3, <3>1 DEF CallSetsBattery, Payload, ChargeTarget
    <3> QED
      BY <3>1, <3>2 DEF adapter, BeliefInv, BeliefIsTrue,
                        RememberedTargetIsFinal
  <2> QED
    BY <1>4, <2>2, <2>3 DEF PostBattery
<1>5. ASSUME NEW fate \in Fates, ReadRules(fate) PROVE BeliefInv'
  <2>1. CASE Fail(fate)
    BY <1>5, <2>1, FailKeepsBelief DEF ReadRules, inverter
  <2>2. CASE /\ phase' = "write" /\ seen' = Extracted(fate)
             /\ UNCHANGED <<cmd, reply>>
    BY <1>5, <2>2
    DEF ReadRules, adapter, inverter, BeliefInv, ShouldSkip,
        BeliefIsTrue, RememberedTargetIsFinal, CallSetsBattery
  <2> QED
    BY <1>5, <2>1, <2>2 DEF ReadRules
<1>6. ASSUME NEW fate \in Fates, WriteRules(fate) PROVE BeliefInv'
  BY <1>6, CompleteKeepsBelief, FailKeepsBelief DEF WriteRules
<1>7. CASE SkipWrite
  BY <1>7, CompleteKeepsBelief DEF SkipWrite, inverter
<1>8. CASE Restart
  BY <1>8 DEF Restart, Boot, BeliefInv, BeliefIsTrue,
              RememberedTargetIsFinal, CallSetsBattery
<1>9. ASSUME NEW r \in UserRules, OwnerEdit(r) PROVE BeliefInv'
  BY <1>0, <1>9 DEF OwnerEdit, call
<1>10. CASE UNCHANGED vars
  BY <1>0, <1>10 DEF vars, call, inverter, history
<1> QED
  BY <1>1, <1>2, <1>3, <1>4, <1>5, <1>6, <1>7, <1>8, <1>9, <1>10
  DEF Next, Request

\* For every set of fates: as long as no call broke off after setting the
\* battery, lastAppliedMode and lastAppliedTarget tell what the battery shows.
THEOREM BeliefCorrect ==
  Spec => []BeliefIsTrue
<1>1. Init => BeliefInv
  BY DEF Init, BeliefInv, BeliefIsTrue, RememberedTargetIsFinal,
         CallSetsBattery
<1>2. BeliefInv => BeliefIsTrue
  BY DEF BeliefInv
<1> QED
  BY <1>1, <1>2, TypeInit, TypeStep, BeliefStep, PTL DEF Spec

-----------------------------------------------------------------------------
(* The owner's rules                                                       *)

\* While the table is about to be replaced, what the adapter holds of every rule
\* that was shown to it and not edited since is what the inverter holds.
ReadIsCurrent ==
  phase = "write" =>
    \A r \in Parsed(UserRules) \ unread : r \in seen <=> r \in rules

OwnerInv == UserRulesKept /\ ReadIsCurrent

\* Replacing the table by the merged one keeps the owner's rules.
LEMMA RewriteKeepsOwner ==
  ASSUME TypeInv, OwnerInv, phase = "write", rules' = Merged(seen, cmd),
         phase' = "idle", UNCHANGED <<owned, unread>>
  PROVE  OwnerInv'
<1>1. \A r : r.window = "partial" => (r \in rules' <=> r \in seen)
  BY MergedKeepsPartial DEF TypeInv, Typed, TypeOK, ManagedAllDay
<1>2. \A r \in UserRules : r.window = "partial"
  BY UserRulesAssumption DEF Rule
<1>3. UserRulesKept'
  BY <1>1, <1>2 DEF OwnerInv, UserRulesKept, ReadIsCurrent, Parsed
<1> QED
  BY <1>3 DEF OwnerInv, ReadIsCurrent

LEMMA OwnerStep ==
  TypeInv /\ OwnerInv /\ [Next]_vars => OwnerInv'
<1> SUFFICES ASSUME TypeInv, OwnerInv, [Next]_vars PROVE OwnerInv'
  OBVIOUS
<1>0. ASSUME UNCHANGED <<rules, owned, unread>>,
             phase' # "write" \/ UNCHANGED <<phase, seen>>
      PROVE  OwnerInv'
  BY <1>0 DEF OwnerInv, UserRulesKept, ReadIsCurrent
<1>1. ASSUME NEW c \in Commands, Apply(c) PROVE OwnerInv'
  BY <1>0, <1>1 DEF Apply, inverter, history
<1>2. ASSUME NEW c \in Commands, Decline(c) PROVE OwnerInv'
  BY <1>0, <1>2 DEF Decline, inverter, history
<1>3. ASSUME NEW fate \in Fates, Login(fate) PROVE OwnerInv'
  BY <1>0, <1>3 DEF Login, Fail, inverter, history
<1>4. ASSUME NEW fate \in Fates, PostBattery(fate) PROVE OwnerInv'
  BY <1>0, <1>4 DEF PostBattery, Fail
<1>5. ASSUME NEW fate \in Fates, ReadRules(fate) PROVE OwnerInv'
  <2>a. UNCHANGED <<rules, owned>>
    BY <1>5 DEF ReadRules, inverter
  <2>1. CASE ~Answered(fate)
    BY <1>0, <1>5, <2>1, <2>a DEF ReadRules, Fail
  <2>2. CASE fate = "blank"
    <3>1. seen' = {} /\ unread' = unread \cup owned
      BY <1>5, <2>2 DEF ReadRules, Extracted, Answered
    <3> QED
      BY <2>a, <3>1 DEF OwnerInv, UserRulesKept, ReadIsCurrent, Parsed
  <2>3. CASE fate = "done"
    <3>1. /\ seen' = Parsed(rules)
          /\ unread' = {r \in unread : (r \in owned) # (r \in rules)}
      BY <1>5, <2>3 DEF ReadRules, Extracted, Answered
    <3> QED
      BY <2>a, <3>1 DEF OwnerInv, UserRulesKept, ReadIsCurrent, Parsed
  <2> QED
    BY <2>1, <2>2, <2>3 DEF Answered
<1>6. ASSUME NEW fate \in Fates, WriteRules(fate) PROVE OwnerInv'
  <2>1. phase = "write" /\ phase' = "idle" /\ UNCHANGED <<owned, unread>>
    BY <1>6 DEF WriteRules, Complete, Fail
  <2>2. CASE Delivered(fate)
    BY <1>6, <2>1, <2>2, RewriteKeepsOwner DEF WriteRules
  <2>3. CASE ~Delivered(fate)
    BY <1>0, <1>6, <2>1, <2>3 DEF WriteRules
  <2> QED
    BY <2>2, <2>3
<1>7. CASE SkipWrite
  BY <1>0, <1>7 DEF SkipWrite, Complete, inverter
<1>8. CASE Restart
  BY <1>0, <1>8 DEF Restart, Boot, inverter
<1>9. ASSUME NEW r \in UserRules, OwnerEdit(r) PROVE OwnerInv'
  BY <1>9 DEF OwnerEdit, call, OwnerInv, UserRulesKept, ReadIsCurrent
<1>10. CASE UNCHANGED vars
  BY <1>0, <1>10 DEF vars, call, inverter, history
<1> QED
  BY <1>1, <1>2, <1>3, <1>4, <1>5, <1>6, <1>7, <1>8, <1>9, <1>10
  DEF Next, Request

\* No interleaving of failed, repeated or half-done rewrites with restarts and
\* the owner's edits loses a readable rule the owner keeps, or revives one the
\* owner deleted, other than by an edit between the adapter's read and its write
\* or by a read that was answered without a table.
THEOREM OwnerRulesSafe ==
  Spec => []UserRulesKept
<1>1. Init => OwnerInv
  BY DEF Init, OwnerInv, UserRulesKept, ReadIsCurrent
<1>2. OwnerInv => UserRulesKept
  BY DEF OwnerInv
<1> QED
  BY <1>1, <1>2, TypeInit, TypeStep, OwnerStep, PTL DEF Spec

-----------------------------------------------------------------------------
(* The first table a restarted process writes                              *)

\* All-day rules of a readable type change only by the adapter's own writes,
\* so what was read of them is current until the table is replaced, unless the
\* read showed nothing at all.
AllDayReadIsCurrent ==
  phase = "write" /\ seen # {} =>
    \A r : r.window = "allDay" /\ r.type \in {"CHARGE_MIN", "CHARGE_MAX"} =>
             (r \in seen <=> r \in rules)

LEMMA AllDayReadStep ==
  AllDayReadIsCurrent /\ [Next]_vars => AllDayReadIsCurrent'
<1> SUFFICES ASSUME AllDayReadIsCurrent, [Next]_vars
             PROVE  AllDayReadIsCurrent'
  OBVIOUS
<1>0. ASSUME phase' # "write" \/ UNCHANGED <<phase, seen, rules>>
      PROVE  AllDayReadIsCurrent'
  BY <1>0 DEF AllDayReadIsCurrent
<1>1. ASSUME NEW c \in Commands, Apply(c) \/ Decline(c)
      PROVE  AllDayReadIsCurrent'
  BY <1>0, <1>1 DEF Apply, Decline, inverter
<1>2. ASSUME NEW fate \in Fates, Login(fate) \/ PostBattery(fate)
      PROVE  AllDayReadIsCurrent'
  BY <1>0, <1>2 DEF Login, PostBattery, Fail
<1>3. ASSUME NEW fate \in Fates, ReadRules(fate)
      PROVE  AllDayReadIsCurrent'
  <2>1. phase' = "write" => seen' \in {{}, Parsed(rules)} /\ rules' = rules
    BY <1>3 DEF ReadRules, Extracted, Fail, inverter
  <2> QED
    BY <2>1 DEF AllDayReadIsCurrent, Parsed
<1>4. ASSUME NEW fate \in Fates, WriteRules(fate)
      PROVE  AllDayReadIsCurrent'
  BY <1>0, <1>4 DEF WriteRules, Complete, Fail
<1>5. CASE SkipWrite \/ Restart
  BY <1>0, <1>5 DEF SkipWrite, Complete, Restart, Boot
<1>6. ASSUME NEW r \in UserRules, OwnerEdit(r) PROVE AllDayReadIsCurrent'
  <2>1. r.window = "partial"
    BY UserRulesAssumption DEF Rule
  <2>2. \A q : q.window = "allDay" => (q \in rules' <=> q \in rules)
    BY <1>6, <2>1 DEF OwnerEdit
  <2> QED
    BY <1>6, <2>2 DEF OwnerEdit, call, AllDayReadIsCurrent
<1>7. CASE UNCHANGED vars
  BY <1>0, <1>7 DEF vars, call, inverter
<1> QED
  BY <1>1, <1>2, <1>3, <1>4, <1>5, <1>6, <1>7 DEF Next, Request

\* Without a memory of its own rules the adapter replaces every look-alike.
LEMMA FirstMergeIsExact ==
  ASSUME settings \in Settings, lastManaged = {}, NEW table, NEW c
  PROVE  {r \in Merged(table, c) : LooksManaged(r, c)} = Desired(c)
<1>1. \A m \in Desired(c) : LooksManaged(m, c)
  BY DesiredType DEF LooksManaged
<1>2. ExistingManaged(table, c) = {r \in table : LooksManaged(r, c)}
  BY DEF ExistingManaged
<1> QED
  BY <1>1, <1>2 DEF Merged

LEMMA FirstSyncStep ==
  ASSUME TypeInv, AllDayReadIsCurrent, Next, lastManaged = {},
         lastManaged' # {}
  PROVE  {r \in rules' : LooksManaged(r, cmd')} = Desired(cmd')
<1>1. SkipWrite \/ \E fate \in Fates : WriteRules(fate) /\ Answered(fate)
  BY DEF Next, Request, Apply, Decline, Login, PostBattery, ReadRules,
         WriteRules, Restart, Boot, OwnerEdit, adapter
<1>2. settings \in Settings /\ cmd' = cmd /\ phase = "write"
  BY <1>1 DEF SkipWrite, WriteRules, Complete, TypeInv, Typed, TypeOK
<1>3. {r \in Merged(seen, cmd) : LooksManaged(r, cmd)} = Desired(cmd)
  BY <1>2, FirstMergeIsExact
<1>4. CASE rules' = Merged(seen, cmd)
  BY <1>2, <1>3, <1>4
<1>5. CASE SkipWrite
  <2>1. seen = Merged(seen, cmd) /\ rules' = rules
    BY <1>5 DEF SkipWrite, inverter
  <2>a. seen # {}
    BY <2>1 DEF Merged, Desired
  <2>2. \A r : LooksManaged(r, cmd) => (r \in seen <=> r \in rules)
    BY <1>2, <2>a, DesiredType DEF LooksManaged, AllDayReadIsCurrent
  <2>3. \A m \in Desired(cmd) : LooksManaged(m, cmd)
    BY <1>2, DesiredType DEF LooksManaged
  <2> QED
    BY <1>2, <1>3, <2>1, <2>2, <2>3
<1> QED
  BY <1>1, <1>4, <1>5 DEF WriteRules, Delivered, Answered

\* The first table written after a start holds exactly the desired rules of all
\* that look managed, whatever an earlier process or a failed call left there.
THEOREM FirstSyncExact ==
  Spec => FirstSyncIsExact
<1>1. Init => AllDayReadIsCurrent
  BY DEF Init, AllDayReadIsCurrent
<1>2. TypeInv /\ AllDayReadIsCurrent /\ [Next]_vars =>
        [lastManaged = {} /\ lastManaged' # {} =>
           {r \in rules' : LooksManaged(r, cmd')} = Desired(cmd')]_vars
  BY FirstSyncStep
<1> QED
  BY <1>1, <1>2, TypeInit, TypeStep, AllDayReadStep, PTL
  DEF Spec, FirstSyncIsExact
-----------------------------------------------------------------------------
(***************************************************************************)
(* The adapter implements BatteryOrder where its memory can be trusted:    *)
(* requests do not fail, every configuration has the same charge power,    *)
(* and no two charge commands differ in their target.  Each is needed:     *)
(* AlreadyAligned is violated without the first, an active charge rule of  *)
(* another power outlives a restart without the second, and without the    *)
(* third a new charge target is not sent.                                  *)
(***************************************************************************)
ReliableRequests == Fates \subseteq {"done"}
OneChargePower == \A a, b \in Settings : a.power = b.power
OneChargeTarget ==
  \A c, d \in Commands : c.mode = "charge" /\ d.mode = "charge" => c.soc = d.soc

AllDayRules(table) == {r \in table : r.window = "allDay"}

OwnKind(r) ==
  \/ r.type = "CHARGE_MIN" /\ settings.power # None /\ r.power = settings.power
  \/ r.type = "CHARGE_MAX" /\ r.power = 0

\* Every all-day rule on the inverter is one this or an earlier process wrote;
\* they are the remembered ones, if any are, and those a call has read.
TableIsOwn ==
  /\ \A r \in AllDayRules(rules) : OwnKind(r)
  /\ lastManaged # {} => AllDayRules(rules) = lastManaged
  /\ phase = "write" => AllDayRules(seen) = AllDayRules(rules)

\* A call that has set the battery goes on to set the rules.
TornInCall == torn => phase \in {"read", "write"} /\ ~ShouldSkip(cmd)

\* The remembered charge target is the one there is.
ChargeIsKnown ==
  lastMode = "charge" =>
    /\ ~torn => battery.min = lastTarget
    /\ \A c \in Commands : c.mode = "charge" => lastTarget = ChargeTarget(c)

OrderInv == TypeInv /\ BeliefInv /\ TableIsOwn /\ TornInCall /\ ChargeIsKnown

\* The desired rules are of the adapter's own kind, and one is always wanted.
LEMMA DesiredIsOwn ==
  ASSUME NEW c
  PROVE  /\ \A m \in Desired(c) : m.window = "allDay" /\ OwnKind(m)
         /\ \A r : r.window = "allDay" /\ OwnKind(r) => LooksManaged(r, c)
         /\ Desired(c) # {}
<1>1. AllDay("CHARGE_MAX", 0, c.mode = "limit") \in Desired(c)
  BY DEF Desired
<1>2. settings.power # None =>
        AllDay("CHARGE_MIN", settings.power, c.mode = "charge") \in Desired(c)
  BY DEF Desired
<1>3. \A m \in Desired(c) : m.window = "allDay" /\ OwnKind(m)
  BY DEF Desired, AllDay, OwnKind
<1>4. ASSUME NEW r, r.window = "allDay", OwnKind(r) PROVE LooksManaged(r, c)
  BY <1>1, <1>2, <1>4 DEF OwnKind, LooksManaged, AllDay
<1> QED BY <1>1, <1>3, <1>4

\* The merged table has the desired all-day rules and no other.
LEMMA MergedPosture ==
  ASSUME TableIsOwn, phase = "write", NEW c
  PROVE  AllDayRules(Merged(seen, c)) = Desired(c)
<1>1. \A r \in AllDayRules(seen) : OwnKind(r)
  BY DEF TableIsOwn
<1>2. ASSUME NEW r \in AllDayRules(seen) PROVE r \in ExistingManaged(seen, c)
  <2>1. CASE lastManaged = {}
    BY <1>1, <1>2, <2>1, DesiredIsOwn DEF ExistingManaged, AllDayRules
  <2>2. CASE lastManaged # {}
    BY <1>2, <2>2 DEF ExistingManaged, TableIsOwn, AllDayRules
  <2> QED BY <2>1, <2>2
<1>3. \A m \in Desired(c) : m.window = "allDay"
  BY DesiredIsOwn
<1> QED BY <1>2, <1>3 DEF Merged, AllDayRules

\* The skipped update of a reliable call would have changed nothing.
LEMMA SkippedIsAligned ==
  ASSUME OrderInv, ~torn, NEW c \in Commands, ShouldSkip(c)
  PROVE  battery = Payload(c)
<1>1. /\ lastMode = c.mode /\ c.mode \in Modes /\ lastTarget \in Soc
      /\ battery \in [mode : {"auto", "manual"}, min : 0..100]
  BY CommandsAssumption DEF ShouldSkip, OrderInv, TypeInv, Typed, TypeOK
<1>2. battery.mode = Payload(c).mode
  BY <1>1, PayloadType DEF OrderInv, BeliefInv, BeliefIsTrue, Modes
<1>3. battery.min = Payload(c).min
  <2>1. CASE c.mode = "charge"
    BY <1>1, <2>1 DEF OrderInv, ChargeIsKnown, Payload
  <2>2. CASE c.mode # "charge"
    <3>1. battery.min = lastTarget
      BY <1>1, <2>2 DEF OrderInv, BeliefInv, BeliefIsTrue, Modes
    <3> QED BY <1>1, <2>2, <3>1, SkippedTargetIsRemembered DEF OrderInv, BeliefInv
  <2> QED BY <2>1, <2>2
<1>4. Payload(c) \in [mode : {"auto", "manual"}, min : 0..100]
  BY PayloadType
<1> QED BY <1>1, <1>2, <1>3, <1>4

LEMMA OrderInit == Init => OrderInv
<1> SUFFICES ASSUME Init PROVE OrderInv
  OBVIOUS
<1>1. BeliefInv
  BY DEF Init, BeliefInv, BeliefIsTrue, RememberedTargetIsFinal, CallSetsBattery
<1>2. TableIsOwn /\ TornInCall /\ ChargeIsKnown
  BY DEF Init, TableIsOwn, AllDayRules, TornInCall, ChargeIsKnown
<1> QED BY <1>1, <1>2, TypeInit DEF OrderInv

\* A call applied in full leaves the rules it wanted, and a known target.
LEMMA CompleteKeepsOrder ==
  ASSUME OneChargeTarget, OrderInv, phase = "write", Complete,
         AllDayRules(rules') = Desired(cmd), battery' = battery
  PROVE  TableIsOwn' /\ TornInCall' /\ ChargeIsKnown'
<1>1. /\ cmd \in Commands /\ settings' = settings
      /\ lastMode' = cmd.mode /\ lastTarget' = Payload(cmd).min
      /\ lastManaged' = Desired(cmd) /\ phase' = "idle"
      /\ torn' = (torn /\ ShouldSkip(cmd))
  BY DEF Complete, OrderInv, TypeInv, Typed, CallHasCommand
<1>2. TableIsOwn'
  BY <1>1, DesiredIsOwn DEF TableIsOwn, OwnKind
<1>3. ~torn'
  BY <1>1 DEF OrderInv, TornInCall
<1>4. TornInCall'
  BY <1>3 DEF TornInCall
<1>5. ChargeIsKnown'
  <2> SUFFICES ASSUME cmd.mode = "charge" PROVE ChargeIsKnown'
    BY <1>1 DEF ChargeIsKnown
  <2>1. Payload(cmd).min = ChargeTarget(cmd)
    BY DEF Payload
  <2>2. \A c \in Commands : c.mode = "charge" => ChargeTarget(cmd) = ChargeTarget(c)
    BY <1>1 DEF OneChargeTarget, ChargeTarget
  <2>3. battery = Payload(cmd)
    <3>1. CASE ShouldSkip(cmd)
      BY <1>1, <3>1, SkippedIsAligned DEF OrderInv, TornInCall
    <3>2. CASE ~ShouldSkip(cmd)
      BY <3>2 DEF OrderInv, BeliefInv, CallSetsBattery
    <3> QED BY <3>1, <3>2
  <2>4. \A c \in Commands : c.mode = "charge" => lastTarget' = ChargeTarget(c)'
    BY <1>1, <2>1, <2>2 DEF ChargeTarget
  <2> QED BY <1>1, <2>3, <2>4 DEF ChargeIsKnown
<1> QED BY <1>2, <1>4, <1>5

LEMMA OrderStep ==
  ASSUME ReliableRequests, OneChargePower, OneChargeTarget
  PROVE  OrderInv /\ [Next]_vars => OrderInv'
<1> SUFFICES ASSUME OrderInv, [Next]_vars
             PROVE  TableIsOwn' /\ TornInCall' /\ ChargeIsKnown'
  BY TypeStep, BeliefStep DEF OrderInv
<1>a. settings \in Settings /\ TableIsOwn /\ TornInCall /\ ChargeIsKnown
  BY DEF OrderInv, TypeInv, Typed, TypeOK
<1>0. ASSUME UNCHANGED <<settings, lastMode, lastTarget, lastManaged, rules>>,
             phase' # "write" \/ UNCHANGED <<phase, seen>>
      PROVE  TableIsOwn'
  BY <1>0, <1>a DEF TableIsOwn, OwnKind
<1>b. ASSUME UNCHANGED <<lastMode, lastTarget, battery, torn>> PROVE ChargeIsKnown'
  BY <1>a, <1>b DEF ChargeIsKnown, ChargeTarget
<1>c. ASSUME ~torn' PROVE TornInCall'
  BY <1>c DEF TornInCall
<1>1. ASSUME NEW c \in Commands, Apply(c)
      PROVE  TableIsOwn' /\ TornInCall' /\ ChargeIsKnown'
  <2>1. ~torn'
    BY <1>1, <1>a DEF Apply, history, TornInCall
  <2> QED BY <1>0, <1>1, <1>b, <1>c, <2>1 DEF Apply, adapter, inverter, history
<1>2. ASSUME NEW c \in Commands, Decline(c)
      PROVE  TableIsOwn' /\ TornInCall' /\ ChargeIsKnown'
  <2>1. ~torn'
    BY <1>2, <1>a DEF Decline, history, TornInCall
  <2> QED BY <1>0, <1>2, <1>b, <1>c, <2>1 DEF Decline, adapter, inverter, history
<1>3. ASSUME NEW fate \in Fates, Login(fate)
      PROVE  TableIsOwn' /\ TornInCall' /\ ChargeIsKnown'
  <2>1. ~torn' /\ phase' # "write"
    BY <1>3, <1>a DEF Login, Fail, history, TornInCall
  <2> QED BY <1>0, <1>3, <1>b, <1>c, <2>1 DEF Login, adapter, inverter, history
<1>4. ASSUME NEW fate \in Fates, PostBattery(fate)
      PROVE  TableIsOwn' /\ TornInCall' /\ ChargeIsKnown'
  <2>1. /\ phase = "battery" /\ torn' = TRUE /\ phase' = "read"
        /\ UNCHANGED <<adapter, cmd, seen, rules>>
    BY <1>4 DEF PostBattery, Delivered, Answered, ReliableRequests
  <2>2. TornInCall'
    BY <2>1 DEF OrderInv, BeliefInv, CallSetsBattery, TornInCall, ShouldSkip, adapter,
                ComparedTarget, ResolveAutoFloor, WithinTolerance
  <2>3. ChargeIsKnown'
    BY <1>a, <2>1 DEF ChargeIsKnown, ChargeTarget, adapter
  <2> QED BY <1>0, <2>1, <2>2, <2>3 DEF adapter
<1>5. ASSUME NEW fate \in Fates, ReadRules(fate)
      PROVE  TableIsOwn' /\ TornInCall' /\ ChargeIsKnown'
  <2>1. /\ phase = "read" /\ phase' = "write" /\ seen' = Parsed(rules)
        /\ UNCHANGED <<adapter, cmd, battery, rules, torn>>
    BY <1>5 DEF ReadRules, Answered, Extracted, ReliableRequests, inverter
  <2>2. AllDayRules(seen') = AllDayRules(rules)
    BY <1>a, <2>1 DEF TableIsOwn, AllDayRules, OwnKind, Parsed
  <2>3. TableIsOwn'
    BY <1>a, <2>1, <2>2 DEF TableIsOwn, OwnKind, adapter
  <2>4. TornInCall'
    BY <1>a, <2>1 DEF TornInCall, ShouldSkip, adapter,
                      ComparedTarget, ResolveAutoFloor, WithinTolerance
  <2> QED BY <1>b, <2>1, <2>3, <2>4 DEF adapter
<1>6. ASSUME NEW fate \in Fates, WriteRules(fate)
      PROVE  TableIsOwn' /\ TornInCall' /\ ChargeIsKnown'
  <2>1. phase = "write" /\ Complete /\ rules' = Merged(seen, cmd) /\ battery' = battery
    BY <1>6 DEF WriteRules, Delivered, Answered, ReliableRequests
  <2>2. AllDayRules(rules') = Desired(cmd)
    BY <1>a, <2>1, MergedPosture
  <2> QED BY <2>1, <2>2, CompleteKeepsOrder
<1>7. CASE SkipWrite
  <2>1. phase = "write" /\ Complete /\ seen = Merged(seen, cmd) /\ UNCHANGED <<battery, rules>>
    BY <1>7 DEF SkipWrite, inverter
  <2>2. AllDayRules(rules') = Desired(cmd)
    BY <1>a, <2>1, MergedPosture DEF TableIsOwn
  <2> QED BY <2>1, <2>2, CompleteKeepsOrder
<1>8. CASE Restart
  <2>1. settings' \in Settings /\ settings'.power = settings.power
    BY <1>8, <1>a DEF Restart, Boot, OneChargePower
  <2>2. TableIsOwn'
    BY <1>8, <1>a, <2>1 DEF Restart, Boot, inverter, TableIsOwn, OwnKind
  <2> QED BY <1>8, <2>2 DEF Restart, Boot, TornInCall, ChargeIsKnown
<1>9. ASSUME NEW r \in UserRules, OwnerEdit(r)
      PROVE  TableIsOwn' /\ TornInCall' /\ ChargeIsKnown'
  <2>1. r.window = "partial"
    BY UserRulesAssumption DEF Rule
  <2>2. AllDayRules(rules') = AllDayRules(rules)
    BY <1>9, <2>1 DEF OwnerEdit, AllDayRules
  <2>3. TableIsOwn'
    BY <1>9, <1>a, <2>2 DEF OwnerEdit, adapter, call, TableIsOwn, OwnKind
  <2>4. TornInCall'
    BY <1>9, <1>a DEF OwnerEdit, TornInCall, ShouldSkip, adapter, call,
                      ComparedTarget, ResolveAutoFloor, WithinTolerance
  <2> QED BY <1>9, <1>b, <2>3, <2>4 DEF OwnerEdit, adapter
<1>10. CASE UNCHANGED vars
  <2>1. TornInCall'
    BY <1>10, <1>a DEF vars, adapter, call, history, TornInCall, ShouldSkip,
                       ComparedTarget, ResolveAutoFloor, WithinTolerance
  <2> QED BY <1>0, <1>10, <1>b, <2>1 DEF vars, adapter, call, inverter, history
<1> QED
  BY <1>1, <1>2, <1>3, <1>4, <1>5, <1>6, <1>7, <1>8, <1>9, <1>10 DEF Next, Request

-----------------------------------------------------------------------------
(* The refinement, step by step                                            *)

\* What is in force is the desired part of the all-day rules.
LEMMA PostureOf ==
  ASSUME NEW table, NEW c, AllDayRules(table) = Desired(c)
  PROVE  InForce(table) = InForce(Desired(c))
BY DEF InForce, AllDayRules, DesiredIsOwn

LEMMA OrderType ==
  ASSUME NEW c \in Commands, settings \in Settings
  PROVE  /\ OrderOf(c) \in Promise!Order
         /\ OrderOf(c).battery = Payload(c)
         /\ OrderOf(c).posture = InForce(Desired(c))
<1>1. c # NoCommand
  BY CommandsAssumption DEF NoCommand, Modes
<1>2. InForce(Desired(c)) \in SUBSET Rule({"allDay"})
  BY DesiredType DEF InForce, Rule
<1>3. OrderOf(c) = [battery |-> Payload(c), posture |-> InForce(Desired(c))]
  BY <1>1 DEF OrderOf
<1> QED BY <1>2, <1>3, PayloadType DEF Promise!Order

LEMMA PromiseInit ==
  Init => Promise!Init
<1> SUFFICES ASSUME Init PROVE Promise!Init
  OBVIOUS
<1> QED BY DEF Init, Promise!Init, OrderOf, InForce

\* What the abstract state is at each step of a call.
Stage == CASE phase \in {"login", "battery"} -> "battery"
           [] phase \in {"read", "write"} -> "posture"
           [] OTHER -> "idle"

LEMMA PromiseStep ==
  ASSUME ReliableRequests, OneChargePower, OrderInv, OrderInv', [Next]_vars
  PROVE  [Promise!Next]_(Promise!ovars)
<1> DEFINE order == OrderOf(cmd)
           posture == InForce(rules)
<1>a. settings \in Settings /\ TableIsOwn /\ phase \in {"idle", "login", "battery", "read", "write"}
  BY DEF OrderInv, TypeInv, Typed, TypeOK
<1>b. cmd' = cmd /\ settings'.power = settings.power => order' = order
  BY DEF OrderOf, Payload, Desired, InForce, ChargeTarget, ClampToMaxCharge, ResolveAutoFloor
<1>c. rules' = rules => posture' = posture
  BY DEF InForce
<1>d. UNCHANGED <<order, Stage, battery, posture>> => [Promise!Next]_(Promise!ovars)
  BY DEF Promise!ovars, Stage
<1>1. ASSUME NEW c \in Commands, Apply(c) PROVE [Promise!Next]_(Promise!ovars)
  <2>1. /\ phase = "idle" /\ cmd' = c /\ settings' = settings /\ rules' = rules
        /\ battery' = battery /\ phase' = IF ShouldSkip(c) THEN "read" ELSE "login"
    BY <1>1 DEF Apply, adapter, inverter
  <2>2. order' \in Promise!Order /\ order'.battery = Payload(c)
    <3>1. order' = OrderOf(c)
      BY <2>1 DEF OrderOf, Desired, InForce
    <3> QED BY <1>a, <3>1, OrderType
  <2>3. CASE ShouldSkip(c)
    <3>1. ~torn
      BY <2>1 DEF OrderInv, TornInCall
    <3>2. battery = Payload(c)
      BY <2>3, <3>1, SkippedIsAligned
    <3>3. Promise!PlaceUnchanged
      BY <1>c, <2>1, <2>2, <2>3, <3>2 DEF Promise!PlaceUnchanged
    <3> QED BY <3>3 DEF Promise!Next
  <2>4. CASE ~ShouldSkip(c)
    <3>1. Promise!Place
      BY <1>c, <2>1, <2>2, <2>4 DEF Promise!Place
    <3> QED BY <3>1 DEF Promise!Next
  <2> QED BY <2>3, <2>4
<1>2. ASSUME NEW c \in Commands, Decline(c) PROVE [Promise!Next]_(Promise!ovars)
  BY <1>b, <1>c, <1>d, <1>2 DEF Decline, adapter, inverter, Stage
<1>3. ASSUME NEW fate \in Fates, Login(fate) PROVE [Promise!Next]_(Promise!ovars)
  <2>1. phase = "login" /\ phase' = "battery" /\ UNCHANGED <<adapter, inverter, cmd>>
    BY <1>3 DEF Login, Answered, ReliableRequests
  <2> QED BY <1>b, <1>c, <1>d, <2>1 DEF adapter, inverter, Stage
<1>4. ASSUME NEW fate \in Fates, PostBattery(fate) PROVE [Promise!Next]_(Promise!ovars)
  <2>1. /\ phase = "battery" /\ phase' = "read" /\ battery' = Payload(cmd)
        /\ UNCHANGED <<adapter, cmd, rules>> /\ cmd \in Commands
    BY <1>4 DEF PostBattery, Delivered, Answered, ReliableRequests, OrderInv, TypeInv, Typed, CallHasCommand
  <2>2. battery' = order.battery
    BY <1>a, <2>1, OrderType
  <2>3. Promise!SetBattery
    BY <1>b, <1>c, <2>1, <2>2 DEF adapter, Promise!SetBattery
  <2> QED BY <2>3 DEF Promise!Next
<1>5. ASSUME NEW fate \in Fates, ReadRules(fate) PROVE [Promise!Next]_(Promise!ovars)
  <2>1. phase = "read" /\ phase' = "write" /\ UNCHANGED <<adapter, inverter, cmd>>
    BY <1>5 DEF ReadRules, Answered, ReliableRequests
  <2> QED BY <1>b, <1>c, <1>d, <2>1 DEF adapter, inverter, Stage
<1>6. ASSUME phase = "write", Complete, AllDayRules(rules') = Desired(cmd), battery' = battery
      PROVE  [Promise!Next]_(Promise!ovars)
  <2>1. phase' = "idle" /\ cmd' = cmd /\ settings' = settings /\ cmd \in Commands
    BY <1>6 DEF Complete, OrderInv, TypeInv, Typed, CallHasCommand
  <2>2. posture' = order.posture
    <3>1. InForce(rules') = InForce(Desired(cmd))
      BY <1>6, PostureOf
    <3>2. posture' = InForce(rules')
      BY DEF InForce
    <3> QED BY <1>a, <2>1, <3>1, <3>2, OrderType
  <2>3. Promise!SetPosture
    BY <1>6, <1>b, <2>1, <2>2 DEF Promise!SetPosture
  <2> QED BY <2>3 DEF Promise!Next
<1>7. ASSUME NEW fate \in Fates, WriteRules(fate) PROVE [Promise!Next]_(Promise!ovars)
  <2>1. phase = "write" /\ Complete /\ rules' = Merged(seen, cmd) /\ battery' = battery
    BY <1>7 DEF WriteRules, Delivered, Answered, ReliableRequests
  <2> QED BY <1>6, <1>a, <2>1, MergedPosture
<1>8. CASE SkipWrite
  <2>1. phase = "write" /\ Complete /\ seen = Merged(seen, cmd) /\ UNCHANGED <<battery, rules>>
    BY <1>8 DEF SkipWrite, inverter
  <2>2. AllDayRules(rules') = Desired(cmd)
    BY <1>a, <2>1, MergedPosture DEF TableIsOwn
  <2> QED BY <1>6, <2>1, <2>2
<1>9. CASE Restart
  <2>1. Promise!Forget
    BY <1>9, <1>c DEF Restart, Boot, inverter, OrderOf, Promise!Forget
  <2> QED BY <2>1 DEF Promise!Next
<1>10. ASSUME NEW r \in UserRules, OwnerEdit(r) PROVE [Promise!Next]_(Promise!ovars)
  <2>1. r.window = "partial"
    BY UserRulesAssumption DEF Rule
  <2>2. posture' = posture
    BY <1>10, <2>1 DEF OwnerEdit, InForce
  <2> QED BY <1>10, <1>b, <1>d, <2>2 DEF OwnerEdit, adapter, call, Stage
<1>11. CASE UNCHANGED vars
  BY <1>11, <1>b, <1>c, <1>d DEF vars, adapter, call, inverter, Stage
<1> QED
  BY <1>1, <1>2, <1>3, <1>4, <1>5, <1>7, <1>8, <1>9, <1>10, <1>11 DEF Next, Request

\* KeepsPromise: sessions, skips, the matching of rules, restarts and the owner's
\* edits together are invisible in the orders of BatteryOrder.
THEOREM PromiseKept ==
  ASSUME ReliableRequests, OneChargePower, OneChargeTarget
  PROVE  Spec => KeepsPromise
<1>1. OrderInv /\ [Next]_vars => OrderInv'
  BY OrderStep
<1>2. OrderInv /\ OrderInv' /\ [Next]_vars => [Promise!Next]_(Promise!ovars)
  BY PromiseStep
<1> QED
  BY <1>1, <1>2, OrderInit, PromiseInit, PTL DEF Spec, KeepsPromise, Promise!Spec
=============================================================================
