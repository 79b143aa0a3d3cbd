----------------------------- MODULE AccountLink -----------------------------
(***************************************************************************)
(* One provider account of a user: its connector_accounts row, its secret  *)
(* in Vault and the sync state of a capability, under connector-link       *)
(* (OAuth callback, Plaid link, Plaid update mode, disconnect) and the     *)
(* syncs in flight that use the credential.  An RPC of the vault is one    *)
(* transaction and one action; a link is a chain of round trips and may be *)
(* killed at each.                                                         *)
(***************************************************************************)
EXTENDS Integers, FiniteSets

CONSTANTS
  Runner,     \* syncs that may be in flight
  MaxGrants,  \* bound: consents given, each a grant 1, 2, ...
  MaxKills,   \* bound: links and syncs killed half-way
  MaxRevoked, \* bound: times the provider stops accepting the grants
  MaxCuts,    \* bound: disconnects
  None        \* null

VARIABLES
  provider, \* "oauth" (Google, Microsoft) or "plaid"
  account,  \* the connector_accounts row
  secret,   \* the Vault secret of the account's name: [ref, grant]
  state,    \* the connector_sync_states row of a capability
  refs,     \* Vault ids handed out
  grants,   \* consents given
  live,     \* grants the provider accepts
  gone,     \* Plaid no longer has the Item
  link,     \* the locals of connector-link
  run,      \* the locals of each sync
  linked,   \* history: the grant of a link answered with success while nothing else ran
  cut,      \* history: disconnected since the last link began
  crossed,  \* history: a disconnect once fell inside a link
  kills, revoked, cuts

vars == <<provider, account, secret, state, refs, grants, live, gone, link, run,
          linked, cut, crossed, kills, revoked, cuts>>

Grant == 1..MaxGrants
Account == [status : {"active", "needs_reauth", "disconnected"},
            ref : Nat \cup {None},                            \* credentialRef
            parked : {None, "repairable", "gone"}]            \* metadata.reauthCode
Secret == [ref : Nat, grant : Nat]
State == [enabled : BOOLEAN, failing : BOOLEAN]

\* What the constants must be.
AccountLinkAssumption ==
  /\ MaxGrants \in Nat /\ MaxKills \in Nat /\ MaxRevoked \in Nat
  /\ MaxCuts \in Nat
  /\ None \notin Nat \cup Account \cup Secret \cup State

IdleLink == [pc |-> "idle", grant |-> None, existing |-> None, ref |-> None, alone |-> TRUE]
IdleRun == [pc |-> "idle", account |-> None, grant |-> None, code |-> None]

TypeOK ==
  /\ provider \in {"oauth", "plaid"}
  /\ account \in Account \cup {None}
  /\ secret \in [ref : 1..refs, grant : Grant] \cup {None}
  /\ account # None => account.ref \in 1..refs \cup {None}
  /\ state \in State \cup {None}
  /\ live \subseteq 1..grants /\ grants \in 0..MaxGrants
  /\ link.existing \in Account \cup {None} /\ link.ref \in 1..refs \cup {None}
  /\ linked \in Grant \cup {None}
  /\ \A r \in Runner : run[r].account \in Account \cup {None} /\ run[r].grant \in Grant \cup {None}
  /\ kills \in 0..MaxKills /\ revoked \in 0..MaxRevoked /\ cuts \in 0..MaxCuts

Init ==
  /\ provider \in {"oauth", "plaid"}
  /\ account = None /\ secret = None /\ state = None /\ refs = 0
  /\ grants = 0 /\ live = {} /\ gone = FALSE
  /\ link = IdleLink /\ run = [r \in Runner |-> IdleRun]
  /\ linked = None /\ cut = FALSE /\ crossed = FALSE
  /\ kills = 0 /\ revoked = 0 /\ cuts = 0

-----------------------------------------------------------------------------
(***************************************************************************)
(* The provider.                                                           *)
(***************************************************************************)
\* The user revokes the app, a password changes, the bank wants a new login.
Revoke ==
  /\ live # {} /\ revoked < MaxRevoked
  /\ revoked' = revoked + 1
  /\ live' = {}
  /\ \/ gone' = gone
     \/ provider = "plaid" /\ gone' = TRUE
  /\ UNCHANGED <<provider, account, secret, state, refs, grants, link, run,
                 linked, cut, crossed, kills, cuts>>

-----------------------------------------------------------------------------
(***************************************************************************)
(* connector-link.                                                         *)
(***************************************************************************)
NoRun == \A r \in Runner : run[r].pc = "idle"

\* completeOAuthCallback or completePlaidLink: the code is exchanged for a grant.
\* A second public token of Plaid is another Item, so another row.
Exchange ==
  /\ link.pc = "idle" /\ grants < MaxGrants
  /\ provider = "plaid" => account = None /\ ~gone
  /\ grants' = grants + 1 /\ live' = live \cup {grants + 1}
  /\ link' = [IdleLink EXCEPT !.pc = "find", !.grant = grants + 1, !.alone = NoRun]
  /\ linked' = None /\ cut' = FALSE
  /\ UNCHANGED <<provider, account, secret, state, refs, gone, run, crossed, kills, revoked, cuts>>

\* vx_credential_get: the secret behind a reference an account holds.
Stored(ref) == IF secret # None /\ secret.ref = ref /\ account.ref = ref THEN secret.grant ELSE None

\* relinkTarget: every reason update mode is refused.
RelinkTarget ==
  /\ account # None /\ account.status = "needs_reauth" /\ account.parked # "gone"
  /\ account.ref # None /\ Stored(account.ref) # None

\* completePlaidRelink: the account is read; the user has finished Link.
Repair ==
  /\ link.pc = "idle" /\ provider = "plaid" /\ RelinkTarget
  /\ link' = [IdleLink EXCEPT !.pc = "describe", !.grant = Stored(account.ref), !.alone = NoRun]
  /\ live' = IF gone THEN live ELSE live \cup {link'.grant}
  /\ linked' = None /\ cut' = FALSE
  /\ UNCHANGED <<provider, account, secret, state, refs, grants, gone, run, crossed,
                 kills, revoked, cuts>>

\* completeBankRelink: an Item that reports an error stays parked.
Describe ==
  /\ link.pc = "describe"
  /\ link' = IF link.grant \in live THEN [link EXCEPT !.pc = "find"] ELSE IdleLink
  /\ UNCHANGED <<provider, account, secret, state, refs, grants, live, gone, run,
                 linked, cut, crossed, kills, revoked, cuts>>

\* persistLinkedAccount: find the row ...
Find ==
  /\ link.pc = "find"
  /\ link' = [link EXCEPT !.pc = "account", !.existing = account]
  /\ UNCHANGED <<provider, account, secret, state, refs, grants, live, gone, run,
                 linked, cut, crossed, kills, revoked, cuts>>

\* ... reactivate or create it: what parked it is cleared ...
Reactivate ==
  /\ link.pc = "account"
  /\ account' = IF link.existing = None
                THEN [status |-> "active", ref |-> None, parked |-> None]
                ELSE [account EXCEPT !.status = "active", !.parked = None]
  /\ link' = [link EXCEPT !.pc = "put"]
  /\ UNCHANGED <<provider, secret, state, refs, grants, live, gone, run,
                 linked, cut, crossed, kills, revoked, cuts>>

\* vx_credential_put: with a ref, it must be this account's and the secret is
\* replaced in place (a secret that is gone is not made again); without, the
\* secret of the account's name is replaced or created.
MayPut(ref) == ref = None \/ account.ref = ref

Put(ref, grant) ==
  LET id == IF ref # None THEN ref ELSE IF secret = None THEN refs + 1 ELSE secret.ref
  IN  /\ secret' = IF ref = None THEN [ref |-> id, grant |-> grant]
                   ELSE IF secret # None /\ secret.ref = ref
                   THEN [secret EXCEPT !.grant = grant] ELSE secret
      /\ account' = [account EXCEPT !.ref = id]
      /\ refs' = IF id > refs THEN id ELSE refs

ExistingRef == IF link.existing = None THEN None ELSE link.existing.ref

PutSecret ==
  /\ link.pc = "put"
  /\ IF MayPut(ExistingRef)
     THEN /\ Put(ExistingRef, link.grant)
          /\ link' = [link EXCEPT !.pc = "ref", !.ref = account'.ref]
     ELSE link' = IdleLink /\ UNCHANGED <<account, secret, refs>>
  /\ UNCHANGED <<provider, state, grants, live, gone, run, linked, cut, crossed,
                 kills, revoked, cuts>>

\* ... the reference the put answered is written once more ...
WriteRef ==
  /\ link.pc = "ref"
  /\ account' = [account EXCEPT !.ref = link.ref]
  /\ link' = [link EXCEPT !.pc = "state"]
  /\ UNCHANGED <<provider, secret, state, refs, grants, live, gone, run,
                 linked, cut, crossed, kills, revoked, cuts>>

\* Mutant: the state of a capability that exists is only enabled.
KeepFailures ==
  /\ link.pc = "state"
  /\ state' = [enabled |-> TRUE, failing |-> state # None /\ state.failing]
  /\ link' = IdleLink
  /\ linked' = IF link.alone THEN link.grant ELSE None
  /\ UNCHANGED <<provider, account, secret, refs, grants, live, gone, run,
                 cut, crossed, kills, revoked, cuts>>

\* ... and the capability starts afresh.
WriteState ==
  /\ link.pc = "state"
  /\ state' = [enabled |-> TRUE, failing |-> FALSE]
  /\ link' = IdleLink
  /\ linked' = IF link.alone THEN link.grant ELSE None
  /\ UNCHANGED <<provider, account, secret, refs, grants, live, gone, run,
                 cut, crossed, kills, revoked, cuts>>

KillLink ==
  /\ link.pc # "idle" /\ kills < MaxKills
  /\ kills' = kills + 1
  /\ link' = IdleLink
  /\ UNCHANGED <<provider, account, secret, state, refs, grants, live, gone, run,
                 linked, cut, crossed, revoked, cuts>>

\* vx_connector_account_disconnect, one transaction.
Disconnect ==
  /\ account # None /\ cuts < MaxCuts
  /\ cuts' = cuts + 1
  /\ secret' = IF secret # None /\ secret.ref = account.ref THEN None ELSE secret
  /\ account' = [account EXCEPT !.status = "disconnected", !.ref = None]
  /\ state' = IF state = None THEN None ELSE [state EXCEPT !.enabled = FALSE]
  /\ cut' = TRUE /\ linked' = None
  /\ crossed' = (crossed \/ link.pc # "idle")
  /\ link' = [link EXCEPT !.alone = link.pc = "idle"]
  /\ UNCHANGED <<provider, refs, grants, live, gone, run, kills, revoked>>

-----------------------------------------------------------------------------
(***************************************************************************)
(* A sync that uses the account: what runCapability does with the row, the *)
(* secret and the state.  SyncEngine has its pages.                        *)
(***************************************************************************)
Goto(r, pc) == run' = [run EXCEPT ![r].pc = pc]

\* The rows are listed; only an account that is active is run.
StartRun(r) ==
  /\ run[r].pc = "idle" /\ account # None /\ account.status = "active"
  /\ run' = [run EXCEPT ![r] = [IdleRun EXCEPT !.pc = "state", !.account = account]]
  /\ linked' = None
  /\ link' = [link EXCEPT !.alone = link.pc = "idle"]
  /\ UNCHANGED <<provider, account, secret, state, refs, grants, live, gone,
                 cut, crossed, kills, revoked, cuts>>

\* The state row is read, and marked running unless it is disabled.
ReadState(r) ==
  /\ run[r].pc = "state"
  /\ IF state # None /\ ~state.enabled THEN run' = [run EXCEPT ![r] = IdleRun] ELSE Goto(r, "get")
  /\ state' = IF state = None THEN [enabled |-> TRUE, failing |-> FALSE] ELSE state
  /\ UNCHANGED <<provider, account, secret, refs, grants, live, gone, link,
                 linked, cut, crossed, kills, revoked, cuts>>

\* credentials.get(ref); a missing one parks the account, with no provider code.
GetCredential(r) ==
  /\ run[r].pc = "get"
  /\ LET ref == run[r].account.ref
         grant == IF ref = None THEN None ELSE Stored(ref)
     IN  run' = [run EXCEPT ![r].grant = grant,
                            ![r].pc = IF grant = None THEN "park" ELSE "got"]
  /\ UNCHANGED <<provider, account, secret, state, refs, grants, live, gone, link,
                 linked, cut, crossed, kills, revoked, cuts>>

\* An OAuth token that has expired is refreshed.
\* accountIdForRef: only a reference the row still holds can be replaced.
Lookup(r) ==
  /\ run[r].pc = "got" /\ provider = "oauth" /\ run[r].grant \in live
  /\ Goto(r, IF account.ref = run[r].account.ref THEN "refresh" ELSE "fail")
  /\ UNCHANGED <<provider, account, secret, state, refs, grants, live, gone, link,
                 linked, cut, crossed, kills, revoked, cuts>>

\* Mutant: the refreshed credential is stored as on a first link.
PutAsFirst(r) ==
  /\ run[r].pc = "refresh"
  /\ Put(None, run[r].grant) /\ Goto(r, "use")
  /\ UNCHANGED <<provider, state, grants, live, gone, link, linked, cut, crossed,
                 kills, revoked, cuts>>

\* The refreshed credential replaces the secret in place, or the put is refused.
PutRefreshed(r) ==
  /\ run[r].pc = "refresh"
  /\ IF MayPut(run[r].account.ref)
     THEN Put(run[r].account.ref, run[r].grant) /\ Goto(r, "use")
     ELSE Goto(r, "fail") /\ UNCHANGED <<account, secret, refs>>
  /\ UNCHANGED <<provider, state, grants, live, gone, link, linked, cut, crossed,
                 kills, revoked, cuts>>

\* The provider refuses the credential, with its reason.
Unauthorized(r) ==
  /\ run[r].pc \in {"got", "use"} /\ run[r].grant \notin live
  /\ run' = [run EXCEPT ![r].pc = "park", ![r].code = IF gone THEN "gone" ELSE "repairable"]
  /\ UNCHANGED <<provider, account, secret, state, refs, grants, live, gone, link,
                 linked, cut, crossed, kills, revoked, cuts>>

\* Mutant: the run fails and the account is left as it was.
NeverPark(r) ==
  /\ run[r].pc = "park"
  /\ Goto(r, "fail")
  /\ UNCHANGED <<provider, account, secret, state, refs, grants, live, gone, link,
                 linked, cut, crossed, kills, revoked, cuts>>

\* markNeedsReauth writes over whatever the row has become meanwhile.
Park(r) ==
  /\ run[r].pc = "park"
  /\ account' = [account EXCEPT !.status = "needs_reauth", !.parked = run[r].code]
  /\ Goto(r, "fail")
  /\ UNCHANGED <<provider, secret, state, refs, grants, live, gone, link,
                 linked, cut, crossed, kills, revoked, cuts>>

Finish(r, failing) ==
  /\ state' = [state EXCEPT !.failing = failing]
  /\ run' = [run EXCEPT ![r] = IdleRun]
  /\ UNCHANGED <<provider, account, secret, refs, grants, live, gone, link,
                 linked, cut, crossed, kills, revoked, cuts>>

Succeed(r) == run[r].pc \in {"got", "use"} /\ run[r].grant \in live /\ Finish(r, FALSE)

\* Anything else that goes wrong fails the run as well.
Fail(r) == run[r].pc \in {"got", "use", "fail"} /\ Finish(r, TRUE)

KillRun(r) ==
  /\ run[r].pc # "idle" /\ kills < MaxKills
  /\ kills' = kills + 1
  /\ run' = [run EXCEPT ![r] = IdleRun]
  /\ UNCHANGED <<provider, account, secret, state, refs, grants, live, gone, link,
                 linked, cut, crossed, revoked, cuts>>

-----------------------------------------------------------------------------
LinkStep ==
  \/ Describe \/ Find \/ Reactivate \/ PutSecret \/ WriteRef \/ WriteState

RunStep(r) ==
  \/ ReadState(r) \/ GetCredential(r) \/ Lookup(r) \/ PutRefreshed(r) \/ Unauthorized(r)
  \/ Park(r) \/ Succeed(r) \/ Fail(r)

Next ==
  \/ Revoke \/ Exchange \/ Repair \/ LinkStep \/ KillLink \/ Disconnect
  \/ \E r \in Runner : StartRun(r) \/ RunStep(r) \/ KillRun(r)

\* The scheduler keeps starting syncs; a link or a sync that started goes on.
Fairness ==
  /\ WF_vars(LinkStep)
  /\ \A r \in Runner : WF_vars(StartRun(r)) /\ WF_vars(RunStep(r)) /\ SF_vars(Unauthorized(r))

Spec == Init /\ [][Next]_vars
FairSpec == Spec /\ Fairness

-----------------------------------------------------------------------------
(***************************************************************************)
(* Properties.                                                             *)
(***************************************************************************)
Works(grant) ==
  /\ account.status = "active" /\ account.ref # None /\ Stored(account.ref) = grant
  /\ state.enabled /\ ~state.failing

\* A fresh credential is a fresh start: after a link or a relink with nothing
\* else at work the account is active on that grant, enabled and not held, however
\* many links, syncs and disconnects failed or were killed before.
RelinkReactivates == linked # None /\ ~crossed => Works(linked)

\* Disconnecting drops the secret, and no sync that was in flight brings it back.
DisconnectDropsSecret ==
  cut /\ ~crossed => secret = None /\ account.ref = None

Broken ==
  /\ account # None /\ account.status = "active" /\ (state = None \/ state.enabled)
  /\ account.ref = None \/ Stored(account.ref) \notin live

\* The engine sets the account needs_reauth: an account whose credential is
\* missing or refused does not stay active for ever.
BrokenIsNoticed == []<>~Broken

\* "re-links the existing account row: vx_credential_put replaces the secret":
\* after a link that was answered with success the grant is in Vault.
RelinkReplacesSecret == linked # None => Stored(account.ref) = linked

=============================================================================
