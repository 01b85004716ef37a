---------------------------- MODULE MCHO1Executor ----------------------------
(* Model checking HO1: the tools are model values.                          *)
EXTENDS HO1Executor
=============================================================================
