----------------------------- MODULE MCAccounts -----------------------------
(***************************************************************************)
(* Accounts for TLC.  The schedule has a user with a bank and a            *)
(* mail-and-calendar account, and behind it a user with a mailbox; the     *)
(* keychain values of one, two and three entries.                          *)
(***************************************************************************)
EXTENDS Accounts

CONSTANTS u1, u2, google, bank, mailbox, one, two

MCUsers == <<u1, u2>>
MCAccountsOf == [u \in {u1, u2} |-> IF u = u1 THEN <<google, bank>> ELSE <<mailbox>>]
MCCapabilitiesOf == [a \in {google, bank, mailbox} |->
  CASE a = google -> <<"mail", "calendar">> [] a = bank -> <<"bank">> [] OTHER -> <<"mail">>]
MCBacklog == [c \in {"mail", "calendar", "bank"} |-> IF c = "bank" THEN 3 ELSE 2]
MCPieces == [v \in Values |-> CASE v = one -> 1 [] v = two -> 2 [] OTHER -> 3]

\* The Field opens on a mailbox and no bank.
MCInit ==
  /\ Init
  /\ component = "flow" =>
       rows = [x \in Mailboxes \cup Items |-> IF x \in Mailboxes THEN "active" ELSE None]

MCSpec == MCInit /\ [][Next]_vars /\ Fairness
=============================================================================
