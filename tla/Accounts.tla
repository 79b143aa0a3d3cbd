------------------------------ MODULE Accounts -------------------------------
(***************************************************************************)
(* What happens to credentials and when accounts are synced: AccountLink,  *)
(* SyncSchedule, ApiClient, KeychainChunks and LinkFlow.  Each abstracts   *)
(* what it needs of the others, so this is their sum: the initial state    *)
(* picks the component that moves and the others stay as they start.       *)
(***************************************************************************)
EXTENDS Integers, Sequences, FiniteSets

CONSTANTS
  None,
  Runner, MaxGrants, MaxKills, MaxRevoked, MaxCuts,
  Users, AccountsOf, CapabilitiesOf, NonResumable, Backlog, Budget, MinBudget,
  MaxPageTime, MaxEvents,
  Workers, NItems, MAX_REFRESHES_PER_RUN, MaxHiccups,
  Values, Pieces, GAP_TOLERANCE, MaxOps,
  Panels, Mailboxes, Items, LINK_TIMEOUT, LINK_STATE_TTL, MaxTime, MaxAttempts, MaxChanges

VARIABLES
  component,
  provider, account, secret, state, refs, grants, live, gone, link, run,
  linked, cut, crossed, kills, withdrawn, cuts,
  status, todo, synced, users, queue, latest, running, elapsed, active, events,
  api, credential, refresh, attempts, refreshed, worker, next, failure, dropped,
  stored, granted, lapsed, dead, spent, revoked, presented, denied, hiccups,
  store, call, before, tidy, ops,
  rows, links, panel, broken, minute, changes

L == INSTANCE AccountLink WITH revoked <- withdrawn
S == INSTANCE SyncSchedule WITH spent <- elapsed
C == INSTANCE ApiClient
K == INSTANCE KeychainChunks
F == INSTANCE LinkFlow WITH attempts <- links

\* What the constants of the components must be.
ASSUME AccountsAssumption ==
  /\ L!AccountLinkAssumption /\ S!SyncScheduleAssumption /\ C!ApiClientAssumption
  /\ K!KeychainAssumption /\ F!LinkFlowAssumption

linkVars == <<provider, account, secret, state, refs, grants, live, gone, link, run,
              linked, cut, crossed, kills, withdrawn, cuts>>
scheduleVars == <<status, todo, synced, users, queue, latest, running, elapsed, active, events>>
clientVars == <<api, credential, refresh, attempts, refreshed, worker, next, failure, dropped,
                stored, granted, lapsed, dead, spent, revoked, presented, denied, hiccups>>
keychainVars == <<store, call, before, tidy, ops>>
flowVars == <<rows, links, panel, broken, minute, changes>>
vars == <<component, linkVars, scheduleVars, clientVars, keychainVars, flowVars>>

Init ==
  /\ component \in {"link", "schedule", "client", "keychain", "flow"}
  /\ L!Init /\ S!Init /\ C!Init /\ K!Init /\ F!Init
  /\ component # "link" => provider = "oauth"
  /\ component # "client" => api = "google"
  /\ component # "keychain" => DOMAIN store = {}
  /\ component # "flow" => rows = [x \in Mailboxes \cup Items |-> None]

Next ==
  \/ /\ component = "link" /\ L!Next
     /\ UNCHANGED <<component, scheduleVars, clientVars, keychainVars, flowVars>>
  \/ /\ component = "schedule" /\ S!Next
     /\ UNCHANGED <<component, linkVars, clientVars, keychainVars, flowVars>>
  \/ /\ component = "client" /\ C!Next
     /\ UNCHANGED <<component, linkVars, scheduleVars, keychainVars, flowVars>>
  \/ /\ component = "keychain" /\ K!Next
     /\ UNCHANGED <<component, linkVars, scheduleVars, clientVars, flowVars>>
  \/ /\ component = "flow" /\ F!Next
     /\ UNCHANGED <<component, linkVars, scheduleVars, clientVars, keychainVars>>

Spec == Init /\ [][Next]_vars

\* As the components have it: the scheduler ticks, and what has begun goes on.
Fairness == L!Fairness /\ WF_scheduleVars(component = "schedule" /\ S!Step)

FairSpec == Spec /\ Fairness

-----------------------------------------------------------------------------
\* After an undisturbed link the account works on the fresh grant.
RelinkReactivates == L!RelinkReactivates

\* A disconnect drops the secret for good.
DisconnectDropsSecret == L!DisconnectDropsSecret

\* A credential that is missing or refused is noticed.
BrokenIsNoticed == L!BrokenIsNoticed

\* A pair whose account stays active is synced.
SyncsEveryPair == component = "schedule" => S!EveryPairSynced

\* One budget for all users of an invocation: it ends within a page of the deadline.
BudgetRespected == S!BudgetRespected

\* No pass of an account starts after another one of the loop has parked it.
ReauthStopsAccount == S!ReauthStopsAccount

\* Only a grant that was withdrawn, or a client that may refresh no more, parks.
OnlyRevokedParks == C!OnlyRevokedParks

\* No request for a token carries one that has been replaced.
RefreshesWithTheLatest == C!RefreshesWithTheLatest

\* An error that no retry helps is the one that is reported.
RefusalIsReported == C!RefusalIsReported

\* A read of the keychain answers the value before or after a write, or none.
ReadsWhole == K!ReadsWhole

\* No piece of a value is left where no later call finds it.
NothingStranded == K!NothingStranded

\* "Connected" names an account that was linked meanwhile.
ConnectedIsTrue == F!ConnectedIsTrue
=============================================================================
