-------------------------- MODULE MCProductCatalog --------------------------
(***************************************************************************)
(* ProductCatalog for TLC: clients and SKUs are interchangeable.           *)
(***************************************************************************)
EXTENDS ProductCatalog, TLC

Symmetry == Permutations(Clients) \cup Permutations(Skus)
=============================================================================
