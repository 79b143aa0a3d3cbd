------------------------------- MODULE LinkFlow -------------------------------
(***************************************************************************)
(* Connecting an account from the Field: startLink opens the provider's    *)
(* page and polls for the row, the browser brings the user's consent to    *)
(* connector-link (the OAuth callback with its signed state, or a hosted   *)
(* Plaid session that the Field asks to complete), and a notice says what  *)
(* came of it.  Attempts overlap: of two panels or devices, with a         *)
(* cancelled one whose poll still sleeps, with a tab left open.            *)
(*                                                                         *)
(* A row's id is its external account (connector_accounts_unique_account); *)
(* persistLinkedAccount is one step here, AccountLink has its round trips. *)
(***************************************************************************)
EXTENDS Integers, FiniteSets, Sequences

CONSTANTS
  Panels,          \* usePendingLink components, of any device
  Mailboxes,       \* accounts at an OAuth provider
  Items,           \* Plaid Items
  LINK_TIMEOUT,    \* how long the Field polls
  LINK_STATE_TTL,  \* how long a signed state is good
  MaxTime,         \* bound: the clock
  MaxAttempts,     \* bound: links begun
  MaxChanges,      \* bound: accounts parked or disconnected
  None             \* null

LinkFlowAssumption ==
  /\ LINK_TIMEOUT \in Nat \ {0} /\ LINK_STATE_TTL \in Nat \ {0}
  /\ MaxTime \in Nat /\ MaxAttempts \in Nat /\ MaxChanges \in Nat
  /\ Mailboxes \cap Items = {} /\ None \notin Mailboxes \cup Items

VARIABLES
  rows,      \* connector_accounts: the status of each external account
  attempts,  \* the links begun, 1, 2, ...
  panel,     \* what each panel shows; a notice that tells no outcome is "none"
  broken,    \* Items the bank wants a new login for
  minute,    \* the clock
  changes

flowVars == <<rows, attempts, panel, broken, minute, changes>>

External == Mailboxes \cup Items
Providers == {"oauth", "plaid"}
At(provider) == IF provider = "oauth" THEN Mailboxes ELSE Items
Linked == {x \in External : rows[x] # None}

Attempt ==
  [panel : Panels, provider : Providers, relink : External \cup {None},
   known : SUBSET External, from : 0..MaxTime,
   polling : BOOLEAN, aborted : BOOLEAN,
   session : {"open", "finished", "left", "spent"},  \* in the browser, or at Plaid
   item : Items \cup {None},                         \* what a finished session is about
   reply : External \cup {None},                     \* complete()'s answer on its way
   linked : SUBSET External]                         \* history: rows linked since it began

TypeOK ==
  /\ rows \in [External -> {"active", "needs_reauth", "disconnected", None}]
  /\ DOMAIN attempts \in {1..n : n \in 0..MaxAttempts}
  /\ \A a \in DOMAIN attempts : attempts[a] \in Attempt
  /\ \A p \in Panels : panel[p].pending \in DOMAIN attempts \cup {None}
  /\ broken \subseteq Items /\ minute \in 0..MaxTime /\ changes \in 0..MaxChanges

\* The Field may open on accounts that were linked before.
Init ==
  /\ rows \in [External -> {"active", "needs_reauth", "disconnected", None}]
  /\ broken = {x \in Items : rows[x] = "needs_reauth"}
  /\ attempts = <<>>
  /\ panel = [p \in Panels |-> [pending |-> None, busy |-> FALSE, notice |-> <<"none">>]]
  /\ minute = 0 /\ changes = 0

-----------------------------------------------------------------------------
(* connector-link.                                                         *)

\* persistLinkedAccount: the row is made or comes back active.
Persist(x, table) ==
  /\ rows' = [rows EXCEPT ![x] = "active"]
  /\ attempts' = [a \in DOMAIN table |->
       IF table[a].polling THEN [table[a] EXCEPT !.linked = @ \cup {x}] ELSE table[a]]

\* relinkTarget: a bank connection that waits for re-authentication.
RelinkTarget(x) == x \in Items /\ rows[x] = "needs_reauth"

\* linkTokenFor: a hosted session, and without Hosted Link a plain token, which
\* the Field cannot use.
LinkTokens == {"hosted", "plain"}

\* A session of Plaid Link: for a new Item, or in update mode on this one.
StartPlaidLink(x) == x = None \/ RelinkTarget(x)

\* A page of the provider, with a signed state that says when it was made.
\* Whether an account is being repaired is known to the Field alone.
StartOAuthLink(x) == x = None \/ (x \in Mailboxes /\ rows[x] = "needs_reauth")

\* The state ties the browser to the user until it expires.
StateGood(a) == minute < attempts[a].from + LINK_STATE_TTL

\* completeOAuthCallback: the code is good once, and whom the user signs in as
\* is his choice.
Callback(a) ==
  /\ attempts[a].provider = "oauth" /\ attempts[a].session = "open"
  /\ LET used == [attempts EXCEPT ![a].session = "spent"]
     IN  IF StateGood(a)
         THEN \E x \in Mailboxes : Persist(x, used)
         ELSE attempts' = used /\ UNCHANGED rows
  /\ UNCHANGED <<panel, broken, minute, changes>>

\* Plaid Link in the browser: a new Item, an Item repaired, or Link closed.
Finish(a) ==
  /\ attempts[a].provider = "plaid" /\ attempts[a].session = "open"
  /\ \/ /\ attempts[a].relink = None
        /\ \E x \in Items :
             /\ x \notin Linked /\ \A b \in DOMAIN attempts : attempts[b].item # x
             /\ attempts' = [attempts EXCEPT ![a].session = "finished", ![a].item = x]
        /\ UNCHANGED broken
     \/ /\ attempts[a].relink # None
        /\ attempts' = [attempts EXCEPT ![a].session = "finished", ![a].item = attempts[a].relink]
        /\ broken' = broken \ {attempts[a].relink}
  /\ UNCHANGED <<rows, panel, minute, changes>>

Leave(a) ==
  /\ attempts[a].provider = "plaid" /\ attempts[a].session = "open"
  /\ attempts' = [attempts EXCEPT ![a].session = "left"]
  /\ UNCHANGED <<rows, panel, broken, minute, changes>>

\* A hosted session that ended with a new Item has a public token ...
PublicToken(a) == attempts[a].relink = None /\ attempts[a].session = "finished"

\* ... in update mode it must have ended, and not through Link's exit.
SessionFinished(a) == attempts[a].session = "finished"

\* completePlaidLink spends the token; completePlaidRelink wants a target that
\* waits for it and an Item that reports no error.  Both name the account the
\* session was about, or refuse with a reason.
MayRelink(a) ==
  RelinkTarget(attempts[a].relink) /\ SessionFinished(a) /\ attempts[a].relink \notin broken

MayComplete(a) == IF attempts[a].relink # None THEN MayRelink(a) ELSE PublicToken(a)

-----------------------------------------------------------------------------
(* startLink and usePendingLink.                                           *)

\* What tells a new account from an old one, read before the page opens.
Unread == {}
Known == Linked

\* A panel shows an account it can repair as needs_reauth.
Begin(p) ==
  /\ Len(attempts) < MaxAttempts
  /\ panel[p].pending = None /\ ~panel[p].busy
  /\ \E provider \in Providers, x \in External \cup {None} :
       /\ IF provider = "oauth" THEN StartOAuthLink(x) ELSE StartPlaidLink(x)
       /\ attempts' = Append(attempts,
            [panel |-> p, provider |-> provider, relink |-> x, known |-> Known, from |-> minute,
             polling |-> TRUE, aborted |-> FALSE, session |-> "open", item |-> None,
             reply |-> None, linked |-> {}])
  /\ panel' = [panel EXCEPT ![p] = [pending |-> Len(attempts'), busy |-> TRUE, notice |-> <<"none">>]]
  /\ UNCHANGED <<rows, broken, minute, changes>>

\* startLink fails, or its Link token has no page to open: no link is begun, and
\* what the panel said before is gone.
BeginRefused(p) ==
  /\ panel[p].pending = None /\ ~panel[p].busy
  /\ \E x \in Items \cup {None}, token \in LinkTokens : ~StartPlaidLink(x) \/ token = "plain"
  /\ panel' = [panel EXCEPT ![p].notice = <<"none">>]
  /\ UNCHANGED <<rows, attempts, broken, minute, changes>>

Shown(p, notice) == panel' = [panel EXCEPT ![p] = [pending |-> None, busy |-> FALSE, notice |-> notice]]

Expired(a) == minute >= attempts[a].from + LINK_TIMEOUT

\* The poll of waitForNewAccount: any account that was not known.
Fresh(a) == {x \in Linked \ attempts[a].known : rows[x] # "disconnected"}

\* The poll of waitForReactivation: the account being repaired.
Repaired(a) == {x \in {attempts[a].relink} : rows[x] = "active"}

Poll(a) ==
  /\ attempts[a].polling /\ ~attempts[a].aborted /\ ~Expired(a)
  /\ \E x \in IF attempts[a].relink = None THEN Fresh(a) ELSE Repaired(a) :
       Shown(attempts[a].panel, <<"connected", x, a>>)
  /\ attempts' = [attempts EXCEPT ![a].polling = FALSE]
  /\ UNCHANGED <<rows, broken, minute, changes>>

\* Timed out, cancelled or completed: the poll wakes up and answers null.
GiveUp(a) ==
  /\ attempts[a].polling /\ (attempts[a].aborted \/ Expired(a))
  /\ Shown(attempts[a].panel, <<"nothing", a>>)
  /\ attempts' = [attempts EXCEPT ![a].polling = FALSE]
  /\ UNCHANGED <<rows, broken, minute, changes>>

\* finish: "I finished linking the bank" ...
Complete(p) ==
  /\ panel[p].pending # None
  /\ LET a == panel[p].pending
     IN  /\ attempts[a].provider = "plaid" /\ MayComplete(a)
         /\ Persist(attempts[a].item,
                    [attempts EXCEPT ![a].session = "spent", ![a].reply = attempts[a].item])
  /\ panel' = [panel EXCEPT ![p].busy = TRUE]
  /\ UNCHANGED <<broken, minute, changes>>

\* ... is refused while the session is not over, and may be asked again ...
CompleteRefused(p) ==
  /\ panel[p].pending # None /\ panel[p].busy
  /\ LET a == panel[p].pending
     IN attempts[a].provider = "plaid" /\ ~MayComplete(a)
  /\ panel' = [panel EXCEPT ![p].busy = FALSE]
  /\ UNCHANGED <<rows, attempts, broken, minute, changes>>

\* ... and its answer ends the poll and names the account.
Completed(a) ==
  /\ attempts[a].reply # None
  /\ Shown(attempts[a].panel, <<"connected", attempts[a].reply, a>>)
  /\ attempts' = [attempts EXCEPT ![a].reply = None, ![a].aborted = TRUE]
  /\ UNCHANGED <<rows, broken, minute, changes>>

Cancel(p) ==
  /\ panel[p].pending # None
  /\ attempts' = [attempts EXCEPT ![panel[p].pending].aborted = TRUE]
  /\ panel' = [panel EXCEPT ![p].pending = None]
  /\ UNCHANGED <<rows, broken, minute, changes>>

-----------------------------------------------------------------------------
\* What happens to accounts beside the links: the engine parks one, the user
\* disconnects one.
Change ==
  /\ changes < MaxChanges /\ changes' = changes + 1
  /\ \E x \in Linked :
       \/ /\ rows[x] = "active" /\ rows' = [rows EXCEPT ![x] = "needs_reauth"]
          /\ broken' = broken \cup ({x} \cap Items)
       \/ /\ rows[x] # "disconnected" /\ rows' = [rows EXCEPT ![x] = "disconnected"]
          /\ UNCHANGED broken
  /\ UNCHANGED <<attempts, panel, minute>>

Tick ==
  /\ minute < MaxTime /\ minute' = minute + 1
  /\ UNCHANGED <<rows, attempts, panel, broken, changes>>

Next ==
  \/ \E p \in Panels : Begin(p) \/ BeginRefused(p) \/ Complete(p) \/ CompleteRefused(p) \/ Cancel(p)
  \/ \E a \in DOMAIN attempts :
       Callback(a) \/ Finish(a) \/ Leave(a) \/ Poll(a) \/ GiveUp(a) \/ Completed(a)
  \/ Change \/ Tick

Spec == Init /\ [][Next]_flowVars

-----------------------------------------------------------------------------
(* "Connected": the account a panel names was linked or repaired while the *)
(* panel's link was under way, and never one that had been there before.   *)
ConnectedIsTrue ==
  \A p \in Panels : panel[p].notice[1] = "connected" =>
    panel[p].notice[2] \in attempts[panel[p].notice[3]].linked

(* PendingLink.account "resolves with the new account, or null on timeout": *)
(* a panel that says "Connected" does not go on to say, of the same link,   *)
(* that no new account appeared.                                            *)
NoticeStands ==
  [][\A p \in Panels : panel[p].notice[1] = "connected" =>
       panel'[p].notice # <<"nothing", panel[p].notice[3]>>]_flowVars

(* The end of one link does not take away the controls of the next.        *)
ControlsStay ==
  [][\A p \in Panels : panel[p].pending # None =>
       panel'[p].pending = panel[p].pending
       \/ attempts'[panel[p].pending] # attempts[panel[p].pending]]_flowVars
=============================================================================
