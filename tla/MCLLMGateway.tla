---------------------------- MODULE MCLLMGateway ----------------------------
(* Model checking the gateway: all constants are numbers.                   *)
EXTENDS LLMGateway
=============================================================================
