--------------------------- MODULE MCSubtreeCache ---------------------------
(***************************************************************************)
(* SubtreeCache for TLC.                                                   *)
(***************************************************************************)
EXTENDS SubtreeCache
=============================================================================
