---------------------------- MODULE BatteryOrder ----------------------------
(***************************************************************************)
(* What a battery control backend promises the planner, without digest     *)
(* sessions, caches or rule tables.  The planner places one order at a     *)
(* time; an order is a battery setting and a posture (the all-day rules    *)
(* that force or cap charging).  The backend sets the battery first and    *)
(* the posture second, and may leave the battery alone only when it        *)
(* already shows what the order asks for.  The process may die at any      *)
(* point; the order is then forgotten and the device keeps what it has.    *)
(***************************************************************************)
CONSTANTS
  Battery,    \* the battery settings the device can show
  Posture,    \* the sets of all-day rules that can be in force
  NoOrder     \* no order is known to be in force

VARIABLES
  order,      \* the order being carried out, or the last one completed
  stage,      \* "idle", "battery" (to be set) or "posture" (to be set)
  battery,    \* what the device's battery configuration shows
  posture     \* which all-day rules are in force on the device

ovars == <<order, stage, battery, posture>>

Order == [battery : Battery, posture : Posture]

Init ==
  /\ order = NoOrder
  /\ stage = "idle"
  /\ battery \in Battery
  /\ posture \in Posture

Place ==
  /\ stage = "idle"
  /\ order' \in Order
  /\ stage' = "battery"
  /\ UNCHANGED <<battery, posture>>

\* The only shortcut: nothing is sent because nothing would change.
PlaceUnchanged ==
  /\ stage = "idle"
  /\ order' \in Order
  /\ battery = order'.battery
  /\ stage' = "posture"
  /\ UNCHANGED <<battery, posture>>

SetBattery ==
  /\ stage = "battery"
  /\ battery' = order.battery
  /\ stage' = "posture"
  /\ UNCHANGED <<order, posture>>

SetPosture ==
  /\ stage = "posture"
  /\ posture' = order.posture
  /\ stage' = "idle"
  /\ UNCHANGED <<order, battery>>

Forget ==
  /\ order' = NoOrder
  /\ stage' = "idle"
  /\ UNCHANGED <<battery, posture>>

Next ==
  \/ Place
  \/ PlaceUnchanged
  \/ SetBattery
  \/ SetPosture
  \/ Forget

Spec == Init /\ [][Next]_ovars
=============================================================================
