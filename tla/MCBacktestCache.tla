--------------------------- MODULE MCBacktestCache ---------------------------
(* Two recorded days of every shape before the backend starts, two more    *)
(* while it runs; two configurations, two tariffs, one plan.  What is true *)
(* of one configuration is true of the other, so that the first one on     *)
(* record may be the small battery; and the prices of the first day decide *)
(* nothing, as no day before it is simulated.                              *)
EXTENDS BacktestCache

TwoConfigs == {"small battery", "large battery"}
TwoTariffs == {"old tariff", "new tariff"}
OnePlan == {"plan"}

MCInit ==
  /\ Init
  /\ configLog # <<>> => configLog[1].config = "small battery"
  /\ "price" \notin history[1]
MCSpec == MCInit /\ [][Next]_vars /\ Fairness
=============================================================================
