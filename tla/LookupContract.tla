--------------------------- MODULE LookupContract ---------------------------
(***************************************************************************)
(* What the subtree cache promises to its callers, without the cache.      *)
(*                                                                         *)
(* Committed category changes are numbered; a subtree answer is identified *)
(* with the number of the last change it reflects.  An invalidation says:  *)
(* lookups that begin from now on reflect at least the changes committed   *)
(* so far.  A lookup may answer with anything between that floor, as it    *)
(* stood when the lookup began, and the latest change.  When the cache     *)
(* loses its data the promise is withdrawn until the next invalidation.    *)
(***************************************************************************)
EXTENDS Integers

CONSTANT Readers

VARIABLES
    changes,    \* number of changes committed
    floor,      \* number of changes every lookup that begins now must reflect
    asked,      \* for each reader with a lookup under way, its floor; else -1
    given       \* each reader's answer, -1 while there is none

contractVars == <<changes, floor, asked, given>>

ContractInit ==
    /\ changes = 0
    /\ floor = 0
    /\ asked = [r \in Readers |-> -1]
    /\ given = [r \in Readers |-> -1]

Change ==
    /\ changes' = changes + 1
    /\ UNCHANGED <<floor, asked, given>>

Invalidate ==
    /\ floor' = changes
    /\ UNCHANGED <<changes, asked, given>>

Ask(r) ==
    /\ asked[r] = -1
    /\ asked' = [asked EXCEPT ![r] = floor]
    /\ given' = [given EXCEPT ![r] = -1]
    /\ UNCHANGED <<changes, floor>>

Answer(r) ==
    /\ asked[r] # -1
    /\ \E n \in asked[r]..changes : given' = [given EXCEPT ![r] = n]
    /\ asked' = [asked EXCEPT ![r] = -1]
    /\ UNCHANGED <<changes, floor>>

GiveUp(r) ==
    /\ asked' = [asked EXCEPT ![r] = -1]
    /\ UNCHANGED <<changes, floor, given>>

\* The cache lost its data: no floor holds any longer, also not that of the
\* lookups under way.
Withdraw ==
    /\ floor' = 0
    /\ asked' = [r \in Readers |-> IF asked[r] = -1 THEN -1 ELSE 0]
    /\ UNCHANGED <<changes, given>>

ContractNext ==
    \/ Change \/ Invalidate \/ Withdraw
    \/ \E r \in Readers : Ask(r) \/ Answer(r) \/ GiveUp(r)

ContractSpec == ContractInit /\ [][ContractNext]_contractVars
=============================================================================
