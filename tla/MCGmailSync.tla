----------------------------- MODULE MCGmailSync -----------------------------
(***************************************************************************)
(* GmailSync on a mailbox of two messages, both there from the start or    *)
(* the second one to come, while the window moves out of the first.        *)
(***************************************************************************)
EXTENDS GmailSync, TLC

MCMsg == 1..2
MCReceivedOn == 1 :> 1 @@ 2 :> 2
MCBoxes == {1 :> "visible" @@ 2 :> state : state \in {"visible", "absent"}}
\* Both came on the first day.
MCSameDay == 1 :> 1 @@ 2 :> 1
MCFullBox == {1 :> "visible" @@ 2 :> "visible"}

\* Of two changes to the mailbox the first is an arrival, the second no purge.
MCBound == Len(history) = 2 => history[1].kind = "added" /\ history[2].kind # "purged"
=============================================================================
