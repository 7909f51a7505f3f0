----------------------------- MODULE MCPlanLoop -----------------------------
(* A dry run, so that the variant can be switched, by two browser windows  *)
(* at a time between the two variants there are.                           *)
EXTENDS PlanLoop

TwoVariants == {"awattar-sunny", "awattar-sunny-spot"}
Windows == {"window1", "window2"}
=============================================================================
