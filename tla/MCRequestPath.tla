--------------------------- MODULE MCRequestPath ---------------------------
(* RequestPath for TLC: two clients and a health probe share a pool of two *)
(* places, one of which stays open when idle.                              *)
EXTENDS RequestPath
=============================================================================
