-------------------------- MODULE MCCatalogSearch --------------------------
(***************************************************************************)
(* CatalogSearch for TLC.  Readers do not affect each other, so one is     *)
(* enough; SKUs are interchangeable.                                       *)
(***************************************************************************)
EXTENDS CatalogSearch, TLC

Symmetry == Permutations(Skus)
=============================================================================
