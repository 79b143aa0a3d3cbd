------------------------------ MODULE MCSources ------------------------------
(***************************************************************************)
(* Two calendars, one series and one event of another calendar; two items  *)
(* of a delta source.                                                      *)
(***************************************************************************)
EXTENDS Sources, TLC

CONSTANTS primary, team, e, s1, s2, m

\* An event of another calendar, and a series: one instance inside the first
\* window, one beyond it and inside the second.
MCCalendarOf == e :> team @@ s1 :> primary @@ s2 :> primary @@ m :> primary
MCMasterOf == e :> None @@ s1 :> m @@ s2 :> m
MCRank == primary :> 0 @@ team :> 1
MCDayOf == e :> 1 @@ s1 :> 1 @@ s2 :> 2

\* One item on the first day, one on the second.
DayOfItem == [i \in Item |-> i - 1]
=============================================================================
