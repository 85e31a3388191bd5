-------------------------- MODULE MCPipelineRun --------------------------
(***************************************************************************)
(* Instances of PipelineRun for TLC.  Three stages stand for the ten: the  *)
(* first (define) and the second make LLM calls, the third is trace.       *)
(* Costs are in tenths of the smallest budget, so that one call is within  *)
(* a stage's fraction of it and two are not.                               *)
(***************************************************************************)
EXTENDS PipelineRun

MCLlmStages == {1, 2}
MCCosts == {1}
MCBudgets == {10, 30}
\* One call costs more than half of the smallest budget.
MCLargeCosts == {6}
=============================================================================
