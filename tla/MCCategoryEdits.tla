--------------------------- MODULE MCCategoryEdits ---------------------------
(***************************************************************************)
(* CategoryEdits for TLC.  With few trees the ids are kept apart.          *)
(***************************************************************************)
EXTENDS CategoryEdits
=============================================================================
