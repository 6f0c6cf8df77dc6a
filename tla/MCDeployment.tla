---------------------------- MODULE MCDeployment ----------------------------
(***************************************************************************)
(* Deployment for TLC: two runs of the migration and two workers, each     *)
(* interchangeable.                                                        *)
(***************************************************************************)
EXTENDS Deployment, TLC

Symmetry == Permutations(Runs) \cup Permutations(Workers)
=============================================================================
