---------------------------- MODULE MCLLMGateway ----------------------------
(***************************************************************************)
(* Instances of LLMGateway for TLC: an interval of two time units, delays  *)
(* no shorter than it, costs below and above half a unit of the meter.     *)
(***************************************************************************)
EXTENDS LLMGateway

MCLimitDelays == <<2, 3>>
MCFaultDelays == <<2, 2>>
=============================================================================
