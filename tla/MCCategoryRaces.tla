--------------------------- MODULE MCCategoryRaces ---------------------------
(***************************************************************************)
(* The handlers of categories for TLC: clients and names are               *)
(* interchangeable.                                                        *)
(*                                                                         *)
(* TwoNamesBound bounds the run. Until the last id is drawn it cuts        *)
(* nothing. From then on, states with two names are left at the second     *)
(* request at work or after a commit on a validation that was overtaken;   *)
(* states with one name are followed to the end. A name matters to the     *)
(* unique constraint and to what a PATCH writes, both settled in the step  *)
(* that commits; the races are about the parents.                          *)
(***************************************************************************)
EXTENDS CategoryRaces, TLC

Symmetry == Permutations(Clients) \cup Permutations(Names)

\* Names in the table, and in requests that may still write theirs.
NamesInUse ==
    LET asking == {c \in Clients : pc[c] \in {"validate", "write"} /\ req[c].op # "delete"}
    IN  ({cat[id].name : id \in DOMAIN cat} \cup {req[c].name : c \in asking}) \ {Unset}

AllAtWork == \A c \in Clients : pc[c] # "idle"

TwoNamesBound ==
    nextId > MaxId /\ (raced # {} \/ AllAtWork) => Cardinality(NamesInUse) < 2
=============================================================================
