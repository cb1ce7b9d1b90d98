----------------------------- MODULE MCRuntime -----------------------------
(* The instances of InvestigationRuntime that TLC checks; see the .cfg files. *)
EXTENDS RuntimeProperties, TLC

\* Step ids are only compared, so permuting them is harmless for invariants.
StepSymmetry == Permutations(StepId)
=============================================================================
