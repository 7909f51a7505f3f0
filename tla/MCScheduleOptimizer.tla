------------------------ MODULE MCScheduleOptimizer ------------------------
(* Three slots and five charges, every sequence of five kinds of slots,    *)
(* every charge to start from, five configurations of the battery and three *)
(* ways to call the optimiser without a backend's capabilities.            *)
EXTENDS CommandTranslation

\* Losses grow with the power.
Losses == [d \in -4 .. 4 |->
             CASE d = 4 -> 24 [] d = 3 -> 17 [] d = 2 -> 11 [] d = 1 -> 5
               [] d = 0 -> 0
               [] d = -1 -> -4 [] d = -2 -> -7 [] d = -3 -> -10 [] d = -4 -> -12]

Profile(load, solar, price) == [load |-> load, solar |-> solar, price |-> price, feedIn |-> 2]

Kinds == {Profile(3, 0, 1), Profile(9, 0, 6), Profile(0, 12, 3), Profile(0, 6, -1),
          Profile(5, 0, 3)}

\* What is configured: bounds in halves of a percent, the modes allowed, if any are
\* named, and the powers; the other fields are what is made of it.
Battery == [start |-> 0, floor |-> 2, max |-> 6, chargeEnergy |-> 11,
            solarEnergy |-> 9, dischargeEnergy |-> 8, modes |-> {},
            allowExport |-> TRUE,
            autoFloor |-> 1, maxCharge |-> 3, allowGridCharge |-> TRUE, canPrevent |-> TRUE]

Batteries ==
  {Battery,
   [Battery EXCEPT !.allowExport = FALSE, !.max = None],
   [Battery EXCEPT !.modes = {"auto", "hold"}],
   [Battery EXCEPT !.floor = 8, !.max = 4],
   [Battery EXCEPT !.floor = 1, !.max = 7, !.modes = {"hold", "limit", "charge"}]}

\* Called with all modes and without capabilities.
Directly ==
  {[Battery EXCEPT !.modes = Modes, !.allowExport = FALSE, !.allowGridCharge = FALSE],
   [Battery EXCEPT !.modes = Modes, !.canPrevent = FALSE, !.autoFloor = 4, !.maxCharge = 2],
   [Battery EXCEPT !.modes = Modes, !.autoFloor = 0, !.maxCharge = 4, !.chargeEnergy = 5,
                   !.solarEnergy = 12]}

Everywhere(batteries) == {[b EXCEPT !.start = s] : b \in batteries, s \in Steps}

AllContexts ==
  {Constrained(profiles, b) : profiles \in [Slots -> Kinds], b \in Everywhere(Batteries)}
  \cup
  {Unconstrained(profiles, b) : profiles \in [Slots -> Kinds], b \in Everywhere(Directly)}
=============================================================================
