------------------------------ MODULE MCContext ------------------------------
(***************************************************************************)
(* Context for TLC: three devices; two people of one name, and a thread;   *)
(* appointments and due dates around the instants of context.cfg; Praxions *)
(* of three contracts.                                                     *)
(***************************************************************************)
EXTENDS Context

CONSTANTS eric, erik, brand

MCPerson == {eric, erik}
MCThread == {brand}
MCNameOf == [n \in {eric, erik, brand} |-> IF n = brand THEN "brand" ELSE "eric"]
MCFit == [p \in {"eric", "brand", "er", "invoice"} \X {"eric", "brand"} |->
            IF p[1] = p[2] THEN 3 ELSE IF p = <<"er", "eric">> THEN 1 ELSE -1]
MCStarts == {0, 24, 60}
MCZones == {-8, 0, 8}

\* A Praxion of the client's contract, an older minor and another major.
MCContracts == {<<1, 1>>, <<1, 0>>, <<2, 1>>}
MCClientVersion == <<1, 1>>
=============================================================================
