---------------------------- MODULE MCSyncEngine ----------------------------
(* SyncEngine on a small instance: two rows, two checkpoints, two scopes   *)
(* that belong to the same listing unit, and a handful of page shapes.     *)
EXTENDS SyncEngine, TLC

CONSTANTS a, b, c1, c2, wide, narrow

MCUnitKey == wide :> "unit" @@ narrow :> "unit"
MCCovers == wide :> {a, b} @@ narrow :> {b}

P(up, del, cp, done, full, scopes) ==
  [upserts |-> up, deletes |-> del, checkpoint |-> cp, done |-> done,
   full |-> full, scopes |-> scopes]

\* A resync listing in two pages over the wide scope, the same listing
\* started over on the narrow one, an incremental page and an echoed cursor.
MCPage ==
  {P({a}, {}, c1, FALSE, TRUE, {wide}),
   P({b}, {}, c2, TRUE, TRUE, {wide}),
   P({b}, {}, None, FALSE, FALSE, {narrow}),
   P({}, {a}, c2, TRUE, FALSE, {})}

\* For two runs at a time: a listing whose second page restarts it.
MCPageTwoRuns ==
  {P({a}, {}, c1, FALSE, TRUE, {wide}), P({b}, {a}, c2, TRUE, TRUE, {narrow})}

Perms == Permutations(Runner)
=============================================================================
