------------------------------- MODULE MCJobs -------------------------------
(***************************************************************************)
(* Jobs on a small instance: three concurrent calls of one key, of which   *)
(* one re-uses it for another action type, or the first of them alone; and *)
(* one call of the ingest pipeline at a time, over two items of the same   *)
(* content and one without a hash.                                         *)
(***************************************************************************)
EXTENDS Jobs

CONSTANTS c1, c2, c3, create, dismiss, i1, i2, i3, h, p1

MCActionOf == [c \in Call |-> IF c = c3 THEN dismiss ELSE create]
MCHashOf == [i \in Item |-> IF i = i3 THEN None ELSE h]
=============================================================================
