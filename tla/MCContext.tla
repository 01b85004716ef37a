------------------------------- MODULE MCContext -------------------------------
(* Model checking HO2's context with the memory its sessions share.          *)
EXTENDS Context

\* Nothing tells two sessions apart but their entries.
SessionSymmetry == Permutations(Sessions)
=============================================================================
