-------------------------- MODULE MCEvaluationRun --------------------------
(* Two conditions, one with two prepare commands and one with none.        *)
EXTENDS EvaluationRun, TLC

CONSTANTS c1, c2, t1

MCConditions == {c1, c2}
MCTasks == {t1}
MCSteps == c1 :> 2 @@ c2 :> 0
MCMcpConfigs == {c1}
=============================================================================
