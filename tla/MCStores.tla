------------------------------- MODULE MCStores -------------------------------
(***************************************************************************)
(* Stores for TLC: two messages that share a correspondent, one of them    *)
(* with a second one; the user is on both.                                 *)
(***************************************************************************)
EXTENDS Stores, TLC

CONSTANTS x, y, me, inbox, m1, m2

MCAddresses == (m1 :> {x, y, me, inbox}) @@ (m2 :> {x, inbox})

\* Syncs are interchangeable.
Symmetric == Permutations(Linker)
=============================================================================
