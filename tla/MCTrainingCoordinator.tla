----------------------- MODULE MCTrainingCoordinator ------------------------
(* Both models train themselves; at most two evaluations of a load         *)
(* candidate and two continuations are under way at a time.                *)
EXTENDS TrainingCoordinator

BothModels == {"load", "price"}
AllVerdicts == {"promoted", "rejected", "candidate_ready", "failed"}
=============================================================================
