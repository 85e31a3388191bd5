-------------------------- MODULE MCRunLifecycle --------------------------
(***************************************************************************)
(* Instances of RunLifecycle for TLC: two stages, the first makes calls.   *)
(***************************************************************************)
EXTENDS RunLifecycle

MCLlmStages == {1}
MCCosts == {1}
MCBudgets == {10}
=============================================================================
