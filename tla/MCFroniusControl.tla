-------------------------- MODULE MCFroniusControl --------------------------
(***************************************************************************)
(* Small instances of FroniusControl.  The configured floor is 10 %, the   *)
(* configured maximum 90 %, the configured charge power 4 (kW).            *)
(***************************************************************************)
EXTENDS FroniusControl

Order(mode, soc) == [mode |-> mode, soc |-> soc]

\* Every mode; an auto floor that is absent and one above the configured floor;
\* a limit whose ceiling (the observed charge) is below the configured floor.
OneTarget ==
  {Order("auto", None), Order("auto", 12), Order("hold", 12),
   Order("limit", 60), Order("limit", 4), Order("charge", None)}

FewCommands == {Order("auto", 12), Order("auto", 15), Order("limit", 60),
                Order("charge", None)}

Live(power) == [live |-> TRUE, power |-> power]
DryRun == [live |-> FALSE, power |-> 4]

OnePower == {Live(4), DryRun}
Reconfigured == {Live(4), Live(None), DryRun}

\* The owner's rules: one with the type and the power of the managed rule but
\* a window of its own, and one of a type the adapter does not know.
Morning == [type |-> "CHARGE_MIN", power |-> 4, active |-> TRUE,
            window |-> "partial"]
Reserve == [type |-> "DISCHARGE_MAX", power |-> 0, active |-> TRUE,
            window |-> "partial"]

OwnersRules == {Morning, Reserve}
MorningOnly == {Morning}

Reliable == {"done"}
AnyFate == {"done", "blank", "lost", "unanswered", "unauthorised"}
=============================================================================
