------------------------------ MODULE MCPeople ------------------------------
(* People with one sync and three addresses over two messages: enough for  *)
(* two merges in a row.                                                    *)
EXTENDS People, TLC

CONSTANTS x, y, z, own, account, m1, m2

MCAddresses == (m1 :> {x, y, own, account}) @@ (m2 :> {z, account})
=============================================================================
