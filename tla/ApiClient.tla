----------------------------- MODULE ApiClient ------------------------------
(***************************************************************************)
(* One provider client of one sync run (google/http.ts, microsoft/http.ts) *)
(* under mapConcurrent: workers fetch items through the client and its one *)
(* credential, which lapses, is refreshed, rotated and may be revoked; the *)
(* refreshed credential is handed to the engine, which stores it.          *)
(*                                                                         *)
(* Tokens are numbered by the grant they came with, 0 being what the run   *)
(* read from the vault.  The event loop runs one worker between two        *)
(* awaits: a step is what happens from one await to the next.  429, 5xx    *)
(* and unreachable hosts are one retryable error; tolerated statuses are   *)
(* answers like any other.                                                 *)
(***************************************************************************)
EXTENDS Naturals, FiniteSets

CONSTANTS
  Workers,                \* the concurrency of mapConcurrent
  NItems,                 \* how many items it is given
  MAX_REFRESHES_PER_RUN,  \* Microsoft's bound
  MaxHiccups              \* bound: transient answers and failed puts

ApiClientAssumption ==
  MAX_REFRESHES_PER_RUN \in Nat \ {0} /\ NItems \in Nat \ {0} /\ MaxHiccups \in Nat

VARIABLES
  api,         \* "google" or "microsoft"
  credential,  \* the client's: an access token and a refresh token
  refresh,     \* #refresh: none, asking, putting, or what Google keeps: settled, an error
  attempts,    \* #refreshAttempted as 0 or 1, or #refreshes
  refreshed,   \* #refreshedToken
  worker,      \* each worker's call
  next,        \* mapConcurrent: the next item
  failure,     \* and the error it rejects with
  dropped,     \* and the items whose error was taken for a bad message
  stored,      \* the access token last put into the vault
  granted,     \* the provider: the last credential it granted
  lapsed,      \* access tokens past their expiresAt
  dead,        \* access tokens the API refuses
  spent,       \* refresh tokens that have been replaced
  revoked,     \* whether the user withdrew the grant
  presented,   \* ghost: a spent refresh token was sent, or two requests overlapped
  denied,      \* ghost: some worker's call ended "unauthorized"
  hiccups

client == <<credential, refresh, attempts, refreshed>>
batch == <<next, failure, dropped>>
cloud == <<granted, lapsed, dead, spent, revoked>>
vars == <<api, client, worker, batch, stored, cloud, presented, denied, hiccups>>

NoToken == MAX_REFRESHES_PER_RUN + 1
Resting == [at |-> "rest", token |-> NoToken, item |-> 0, error |-> "none"]

Init ==
  /\ api \in {"google", "microsoft"}
  /\ credential = [access |-> 0, refresh |-> 0]
  /\ refresh = "none" /\ attempts = 0 /\ refreshed = NoToken
  /\ worker = [w \in Workers |-> Resting]
  /\ next = 1 /\ failure = "none" /\ dropped = {}
  /\ stored = 0
  /\ granted = 0 /\ lapsed = {} /\ dead = {} /\ spent = {} /\ revoked = FALSE
  /\ presented = FALSE /\ denied = FALSE /\ hiccups = 0

\* Continuations run before the next event: no answer arrives between them.
Awaiting == \A w \in Workers : worker[w].at \notin {"rest", "failed"}

Hiccup == hiccups < MaxHiccups /\ hiccups' = hiccups + 1

-----------------------------------------------------------------------------
(* What a caller whose token was refused, or has expired, does.            *)

IsExpired == credential.access \in lapsed
InFlight == refresh \in {"asking", "putting"}

\* Google refreshes once per client and keeps the promise.
GoogleDecides ==
  IF attempts = 0 THEN "start" ELSE IF refresh = "settled" THEN "go" ELSE refresh

\* Microsoft leaves alone a token that was replaced, or that a refresh gave
\* and has time left, and gives up a credential that keeps expiring.
MicrosoftDecides(token) ==
  IF credential.access # token \/ (token = refreshed /\ ~IsExpired) THEN "go"
  ELSE IF attempts >= MAX_REFRESHES_PER_RUN THEN "unauthorized"
  ELSE "start"

Decide(token) == IF api = "google" THEN GoogleDecides ELSE MicrosoftDecides(token)

RacingReaction(token) == Decide(token)
HastyReaction(token) == IF InFlight THEN "go" ELSE Decide(token)
Reaction(token) == IF InFlight THEN "wait" ELSE Decide(token)

Failed(call, error) == [call EXCEPT !.at = "failed", !.error = error]

\* A call goes on once the refresh it asked for has settled.
Resumed(call) ==
  IF call.at = "before" THEN [call EXCEPT !.at = "sent", !.token = credential.access]
  ELSE IF credential.access # call.token THEN [call EXCEPT !.at = "again", !.token = credential.access]
  ELSE Failed(call, "unauthorized")

\* refreshAccessToken posts the refresh token that the credential carries.
StartRefresh ==
  /\ refresh' = "asking" /\ attempts' = attempts + 1
  /\ presented' = (presented \/ InFlight \/ credential.refresh \in spent)
  /\ UNCHANGED <<credential, refreshed>>

React(w, call) ==
  LET reaction == Reaction(call.token)
  IN  /\ worker' = [worker EXCEPT ![w] =
            IF reaction \in {"wait", "start"} THEN call
            ELSE IF reaction = "go" THEN Resumed(call)
            ELSE Failed(call, reaction)]
      /\ IF reaction = "start" THEN StartRefresh ELSE UNCHANGED <<client, presented>>

-----------------------------------------------------------------------------
(* mapConcurrent and getJson.                                              *)

MoreToDo == next <= NItems /\ (api = "google" => failure = "none")

Begin(w) ==
  /\ worker[w].at = "rest" /\ MoreToDo
  /\ next' = next + 1
  /\ LET call == [at |-> "before", token |-> credential.access, item |-> next, error |-> "none"]
     IN  IF IsExpired /\ (api = "google" => attempts = 0) THEN React(w, call)
         ELSE worker' = [worker EXCEPT ![w] = Resumed(call)] /\ UNCHANGED <<client, presented>>
  /\ UNCHANGED <<api, failure, dropped, stored, cloud, denied, hiccups>>

End(w) ==
  /\ worker[w].at = "rest" /\ ~MoreToDo
  /\ worker' = [worker EXCEPT ![w].at = "done"]
  /\ UNCHANGED <<api, client, batch, stored, cloud, presented, denied, hiccups>>

Answered(w) ==
  /\ Awaiting /\ worker[w].at \in {"sent", "again"} /\ worker[w].token \notin dead
  /\ worker' = [worker EXCEPT ![w] = Resting]
  /\ UNCHANGED <<api, client, batch, stored, cloud, presented, denied, hiccups>>

Refused(w) ==
  /\ Awaiting /\ (worker[w].token \in dead \/ revoked)
  /\ \/ (worker[w].at = "sent" /\ React(w, [worker[w] EXCEPT !.at = "after"]))
     \/ /\ worker[w].at = "again"
        /\ worker' = [worker EXCEPT ![w] = Failed(@, "unauthorized")]
        /\ UNCHANGED <<client, presented>>
  /\ UNCHANGED <<api, batch, stored, cloud, denied, hiccups>>

Unanswered(w) ==
  /\ Awaiting /\ worker[w].at \in {"sent", "again"} /\ Hiccup
  /\ worker' = [worker EXCEPT ![w] = Failed(@, "transient")]
  /\ UNCHANGED <<api, client, batch, stored, cloud, presented, denied>>

\* Only a ConnectorError says that it may be retried.
Retryable(error) == error = "transient"

\* Google reports an error no retry helps before one that may pass.
FirstFailure(error) == IF failure = "none" THEN error ELSE failure
Reported(error) ==
  IF failure = "none" \/ (api = "google" /\ Retryable(failure) /\ ~Retryable(error))
  THEN error ELSE failure

\* Google's workers stop at the queue's failure.  Of Microsoft's only the one
\* that failed does; and an error that is no ConnectorError is, there, taken
\* for a message that cannot be normalised.
Reject(w) ==
  LET error == worker[w].error
      skips == api = "microsoft" /\ error = "store"
  IN  /\ worker[w].at = "failed"
      /\ failure' = IF skips THEN failure ELSE Reported(error)
      /\ dropped' = IF skips THEN dropped \cup {worker[w].item} ELSE dropped
      /\ worker' = [worker EXCEPT ![w] =
            IF skips \/ api = "google" THEN Resting ELSE [Resting EXCEPT !.at = "done"]]
      /\ denied' = (denied \/ error = "unauthorized")
      /\ UNCHANGED <<api, client, next, stored, cloud, presented, hiccups>>

-----------------------------------------------------------------------------
(* The refresh itself.                                                     *)

Waiting(call) == call.at \in {"before", "after"}

RefreshFails(error) ==
  /\ refresh' = IF api = "google" THEN error ELSE "none"
  /\ worker' = [w \in Workers |-> IF Waiting(worker[w]) THEN Failed(worker[w], error) ELSE worker[w]]

\* The new credential is the client's from here on, stored or not.
RefreshGranted ==
  /\ Awaiting /\ refresh = "asking" /\ ~revoked
  /\ granted' = granted + 1
  /\ \/ credential' = [access |-> granted', refresh |-> granted'] /\ spent' = spent \cup {credential.refresh}
     \/ credential' = [credential EXCEPT !.access = granted'] /\ UNCHANGED spent
  /\ refreshed' = granted' /\ refresh' = "putting"
  /\ UNCHANGED <<api, attempts, worker, batch, stored, lapsed, dead, revoked, presented, denied, hiccups>>

RefreshRefused ==
  /\ Awaiting /\ refresh = "asking"
  /\ \/ revoked /\ RefreshFails("unauthorized") /\ UNCHANGED hiccups
     \/ Hiccup /\ RefreshFails("transient")
  /\ UNCHANGED <<api, credential, attempts, refreshed, batch, stored, cloud, presented, denied>>

Stored ==
  /\ Awaiting /\ refresh = "putting"
  /\ stored' = credential.access
  /\ refresh' = IF api = "google" THEN "settled" ELSE "none"
  /\ worker' = [w \in Workers |-> IF Waiting(worker[w]) THEN Resumed(worker[w]) ELSE worker[w]]
  /\ UNCHANGED <<api, credential, attempts, refreshed, batch, cloud, presented, denied, hiccups>>

NotStored ==
  /\ Awaiting /\ refresh = "putting" /\ Hiccup
  /\ RefreshFails("store")
  /\ UNCHANGED <<api, credential, attempts, refreshed, batch, stored, cloud, presented, denied>>

-----------------------------------------------------------------------------
(* The provider.  A token lives longer than the calls under way when it    *)
(* was granted, and Google's longer than a run.                            *)

Lapse ==
  /\ granted \notin lapsed /\ ~InFlight
  /\ api = "google" => granted = 0
  /\ \A w \in Workers : worker[w].at # "done" => worker[w].at = "sent" /\ worker[w].token = granted
  /\ lapsed' = lapsed \cup {granted}
  /\ UNCHANGED <<api, client, worker, batch, stored, granted, dead, spent, revoked, presented, denied, hiccups>>

\* What the run found in the vault may be refused before its time.
Die ==
  /\ \E t \in (lapsed \cup {0}) \ dead : dead' = dead \cup {t}
  /\ UNCHANGED <<api, client, worker, batch, stored, granted, lapsed, spent, revoked, presented, denied, hiccups>>

Revoke ==
  /\ ~revoked /\ revoked' = TRUE
  /\ UNCHANGED <<api, client, worker, batch, stored, granted, lapsed, dead, spent, presented, denied, hiccups>>

Next ==
  \/ \E w \in Workers : Begin(w) \/ End(w) \/ Answered(w) \/ Refused(w) \/ Unanswered(w) \/ Reject(w)
  \/ RefreshGranted \/ RefreshRefused \/ Stored \/ NotStored
  \/ Lapse \/ Die \/ Revoke

Spec == Init /\ [][Next]_vars

-----------------------------------------------------------------------------
(* A batch is reported "unauthorized", for which the engine parks the      *)
(* account, only when the user withdrew the grant or more tokens wore out  *)
(* than a run refreshes: never because calls raced with a refresh.         *)
OnlyRevokedParks ==
  failure = "unauthorized" =>
    revoked \/ Cardinality(lapsed \cup dead) > MAX_REFRESHES_PER_RUN

(* One refresh request at a time, and never with a refresh token that an   *)
(* earlier one replaced, whether or not the new one could be stored.       *)
RefreshesWithTheLatest == ~presented

(* Google: a batch in which any call was refused for good does not report  *)
(* an error a later run would just repeat.                                 *)
RefusalIsReported ==
  api = "google" /\ denied /\ (\A w \in Workers : worker[w].at = "done") => ~Retryable(failure)

(* An error of the run is not taken for a bad message: whatever was not    *)
(* fetched makes the batch fail.                                           *)
NothingDropped == dropped = {}
=============================================================================
