------------------------------- MODULE Stores -------------------------------
(***************************************************************************)
(* The spine's rows: the two stores under the same calls (SpineStore), and *)
(* the people rows that overlapping syncs and merges write through one of  *)
(* them (People).  A sum: the initial state picks what moves.              *)
(***************************************************************************)
EXTENDS People, SpineStore

VARIABLE component

\* What the constants of both must be.
ASSUME StoresAssumption == PeopleAssumption /\ StoreAssumption

allVars == <<component, vars, storeVars>>

StoresInit ==
  /\ component \in {"stores", "people"} /\ Init /\ StoreInit
  /\ component = "people" => family = "people"

StoresNext ==
  \/ component = "stores" /\ StoreNext /\ UNCHANGED <<component, vars>>
  \/ component = "people" /\ Next /\ UNCHANGED <<component, storeVars>>

StoresSpec == StoresInit /\ [][StoresNext]_allVars
=============================================================================
