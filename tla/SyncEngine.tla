----------------------------- MODULE SyncEngine -----------------------------
(***************************************************************************)
(* SyncEngine.runCapability for one (account, capability) pair, run by     *)
(* any number of concurrent Edge Function invocations (Runner) over one    *)
(* shared database.  Every await that writes the database, the vault or    *)
(* the account row is an action of its own, so a run can be interleaved    *)
(* with the other runs, or killed, between any two of them.                *)
(*                                                                         *)
(* The connector is a parameter: a page is any member of Page.  GmailSync  *)
(* instantiates this module with the pages of a concrete source.           *)
(***************************************************************************)
EXTENDS Integers, FiniteSets

CONSTANTS
  Runner,        \* invocations that may run this pair at the same time
  Row,           \* external ids the connector lists for this pair
  Checkpoint,    \* the non-null checkpoints of the connector
  Scope,         \* resync listing units (a mail window, a calendar, an Item)
  Page,          \* SyncPage values the connector yields
  None,          \* null
  UnitKey,       \* [Scope -> key]: unitKey(scope)
  Covers,        \* [Scope -> SUBSET Row]: the rows deleteUntouched may reach
  RunningStale,  \* RUNNING_STALE_MS, in ticks
  BackoffBase,   \* BACKOFF_BASE_MS, in ticks
  BackoffMax,    \* BACKOFF_MAX_MS, in ticks
  FailureCap,    \* consecutiveFailures is counted up to here
  MaxClock       \* bound: runs that may mark the pair running

PageShape ==
  [upserts : SUBSET Row, deletes : SUBSET Row,
   checkpoint : Checkpoint \cup {None}, done : BOOLEAN,
   full : BOOLEAN, scopes : SUBSET Scope]

\* A page declares each listing unit (unitKey) once.
ASSUME PageAssumption ==
  /\ Page \subseteq PageShape
  /\ \A p \in Page : \A s, t \in p.scopes : UnitKey[s] = UnitKey[t] => s = t
ASSUME NoneAssumption == None \notin Checkpoint /\ None \notin Page
ASSUME ScopeAssumption == Covers \in [Scope -> SUBSET Row]
ASSUME TimeAssumption ==
  /\ RunningStale \in Nat
  /\ BackoffBase \in Nat
  /\ BackoffMax \in Nat
  /\ RunningStale <= BackoffMax
  /\ FailureCap \in Nat \ {0}
  /\ MaxClock \in Nat

VARIABLES
  account,     \* connector_accounts.status
  credential,  \* the vault secret behind credential_ref
  syncState,   \* the connector_sync_states row
  rows,        \* [Row -> updated_at stamp], 0 = no such row
  clock,       \* the database clock: ticks once per MarkRunning
  run,         \* the locals of each invocation
  applied      \* history: checkpoints whose page has been applied

vars == <<account, credential, syncState, rows, clock, run, applied>>

Min2(a, b) == IF a < b THEN a ELSE b

(***************************************************************************)
(* Backoff and hold.                                                       *)
(***************************************************************************)
Backoff(failures, retryable) ==
  IF failures <= 0 THEN 0
  ELSE IF ~retryable THEN BackoffMax
  ELSE Min2(BackoffMax, BackoffBase * 2 ^ Min2(failures - 1, 20))

\* s.age is the time since lastAttemptAt, counted up to BackoffMax; None is
\* a null lastAttemptAt.
Held(s) ==
  /\ s.age # None
  /\ \/ s.status = "running" /\ s.age < RunningStale
     \/ /\ s.status = "error"
        /\ s.failures > 0
        /\ s.age < Backoff(s.failures, s.retryable)

(***************************************************************************)
(* declareResync: a unit pending with the very same scope keeps its        *)
(* watermark, another scope of the same unit replaces it, a new unit is    *)
(* added.                                                                  *)
(***************************************************************************)
Unit == [since : Nat, scope : Scope]

\* Mutant: a listing that starts over is appended, the old unit stays.
AppendResync(pending, scopes, since) ==
  pending \cup {[since |-> since, scope |-> s] :
                 s \in {x \in scopes : \A u \in pending : u.scope # x}}

\* Mutant: the watermark is read after the run has started to write.
LateResync(pending, scopes, since) ==
  {u \in pending : \A s \in scopes : UnitKey[s] # UnitKey[u.scope]}
    \cup {[since |-> since + 1, scope |-> s] : s \in scopes}

DeclareResync(pending, scopes, since) ==
  LET kept(u) == \A s \in scopes : UnitKey[s] = UnitKey[u.scope] => s = u.scope
      known(s) == \E u \in pending : u.scope = s
  IN  {u \in pending : kept(u)}
        \cup {[since |-> since, scope |-> s] : s \in {x \in scopes : ~known(x)}}

(***************************************************************************)
(* State.                                                                  *)
(***************************************************************************)
PCs == {"idle", "read", "mark", "credential", "refresh", "fetch", "declare",
        "upsert", "delete", "advance", "reconcile", "settle", "finish",
        "clear", "park", "fail"}

IdleRun ==
  [pc |-> "idle", force |-> FALSE, failures |-> 0, startedFrom |-> None,
   retried |-> FALSE, reconcile |-> {}, since |-> 0, page |-> None,
   retryable |-> TRUE, touched |-> {}]

RunState ==
  [pc : PCs, force : BOOLEAN, failures : 0..FailureCap,
   startedFrom : Checkpoint \cup {None}, retried : BOOLEAN,
   reconcile : SUBSET Unit, since : Nat, page : Page \cup {None},
   retryable : BOOLEAN, touched : SUBSET Row]

SyncStateRow ==
  [enabled : BOOLEAN, status : {"idle", "running", "error"},
   age : (0..BackoffMax) \cup {None}, checkpoint : Checkpoint \cup {None},
   reconcile : SUBSET Unit, failures : 0..FailureCap, retryable : BOOLEAN]

\* "paused" and "error" exist in the enum, but no code of the repository
\* writes them to an account.
AccountStatus == {"active", "needs_reauth", "disconnected"}

\* A pending list holds at most one entry per listing unit.
OneEntryPerUnit(pending) ==
  \A u, v \in pending : UnitKey[u.scope] = UnitKey[v.scope] => u = v

\* Types of every variable (the columns and the locals of runCapability),
\* with the shape declareResync keeps of every pending list.
TypeOK ==
  /\ account \in AccountStatus
  /\ credential \in {"missing", "valid", "expired"}
  /\ syncState \in SyncStateRow
  /\ rows \in [Row -> Nat]
  /\ clock \in Nat
  /\ run \in [Runner -> RunState]
  /\ applied \in SUBSET Checkpoint
  /\ OneEntryPerUnit(syncState.reconcile)
  /\ \A r \in Runner : OneEntryPerUnit(run[r].reconcile)

\* A freshly linked account (persistLinkedAccount): active, its state row
\* inserted with the table's defaults.
Init ==
  /\ account = "active"
  /\ credential = "valid"
  /\ syncState = [enabled |-> TRUE, status |-> "idle", age |-> None,
                  checkpoint |-> None, reconcile |-> {}, failures |-> 0,
                  retryable |-> TRUE]
  /\ rows = [x \in Row |-> 0]
  /\ clock = 0
  /\ run = [r \in Runner |-> IdleRun]
  /\ applied = {}

-----------------------------------------------------------------------------
(***************************************************************************)
(* Steps of one run.  At(r, l): run r is at location l; Goto changes only  *)
(* its location; Stop forgets its locals.                                  *)
(***************************************************************************)
At(r, l) == run[r].pc = l
Goto(r, l) == run' = [run EXCEPT ![r].pc = l]
Stop(r) == run' = [run EXCEPT ![r] = IdleRun]
FailWith(r, retryable) ==
  run' = [run EXCEPT ![r].pc = "fail", ![r].retryable = retryable]

\* runScheduled: the account row is read and gates the capability.  A gated
\* capability is skipped without a trace, so only the other case is a step.
Begin(r, force) ==
  /\ At(r, "idle")
  /\ account \notin {"disconnected", "needs_reauth"}
  /\ run' = [run EXCEPT ![r].pc = "read", ![r].force = force]
  /\ UNCHANGED <<account, credential, syncState, rows, clock, applied>>

\* getSyncState, then either skip (disabled, or held and not forced) ...
Skip(r) ==
  /\ At(r, "read")
  /\ ~syncState.enabled \/ (~run[r].force /\ Held(syncState))
  /\ Stop(r)
  /\ UNCHANGED <<account, credential, syncState, rows, clock, applied>>

\* ... or keep the row just read as this run's snapshot (force is not read
\* again).
ReadState(r) ==
  /\ At(r, "read")
  /\ syncState.enabled
  /\ run[r].force \/ ~Held(syncState)
  /\ run' = [run EXCEPT ![r].pc = "mark", ![r].force = FALSE,
                        ![r].failures = syncState.failures,
                        ![r].startedFrom = syncState.checkpoint,
                        ![r].reconcile = syncState.reconcile]
  /\ UNCHANGED <<account, credential, syncState, rows, clock, applied>>

\* The registry does not know the provider, or it lacks the capability.
NoConnector(r) ==
  /\ At(r, "mark")
  /\ FailWith(r, FALSE)
  /\ UNCHANGED <<account, credential, syncState, rows, clock, applied>>

\* The updated_at this write is stamped with is the watermark of the run.
MarkRunning(r) ==
  /\ At(r, "mark")
  /\ clock < MaxClock
  /\ clock' = clock + 1
  /\ syncState' = [syncState EXCEPT !.status = "running", !.age = 0]
  /\ run' = [run EXCEPT ![r].pc = "credential", ![r].since = clock']
  /\ UNCHANGED <<account, credential, rows, applied>>

LoadCredential(r) ==
  /\ At(r, "credential")
  /\ \/ credential = "missing"
        /\ run' = [run EXCEPT ![r].pc = "park", ![r].retryable = FALSE]
     \/ credential = "valid" /\ Goto(r, "fetch")
     \/ credential = "expired" /\ Goto(r, "refresh")
     \/ FailWith(r, TRUE)  \* the vault could not be read
  /\ UNCHANGED <<account, credential, syncState, rows, clock, applied>>

\* refreshCredential and credentials.put: the provider may refuse for good
\* (unauthorized), fail, or answer; the vault takes the answer only while
\* the account still owns the reference.
Refresh(r) ==
  /\ At(r, "refresh")
  /\ \/ /\ credential # "missing"
        /\ credential' = "valid"
        /\ Goto(r, "fetch")
     \/ /\ credential = "missing"
        /\ FailWith(r, TRUE)
        /\ UNCHANGED credential
     \/ /\ run' = [run EXCEPT ![r].pc = "park", ![r].retryable = FALSE]
        /\ UNCHANGED credential
     \/ /\ \E b \in BOOLEAN : FailWith(r, b)
        /\ UNCHANGED credential
  /\ UNCHANGED <<account, syncState, rows, clock, applied>>

(***************************************************************************)
(* The page loop.                                                          *)
(***************************************************************************)
\* The source yields page p.  A page of a real resync declares its scopes;
\* the local copy changes here, the stored one in Declare.
FetchPage(r, p) ==
  /\ At(r, "fetch")
  /\ LET next == IF p.full \/ run[r].retried
                 THEN DeclareResync(run[r].reconcile, p.scopes, run[r].since)
                 ELSE run[r].reconcile
     IN  run' = [run EXCEPT
           ![r].pc = IF next # run[r].reconcile THEN "declare" ELSE "upsert",
           ![r].page = p,
           ![r].reconcile = next]
  /\ UNCHANGED <<account, credential, syncState, rows, clock, applied>>

Declare(r) ==
  /\ At(r, "declare")
  /\ syncState' = [syncState EXCEPT !.reconcile = run[r].reconcile]
  /\ Goto(r, "upsert")
  /\ UNCHANGED <<account, credential, rows, clock, applied>>

\* Mutant: the checkpoint moves before the page is applied in full.
EagerApplyUpserts(r) ==
  /\ At(r, "upsert")
  /\ rows' = [x \in Row |-> IF x \in run[r].page.upserts THEN clock ELSE rows[x]]
  /\ run' = [run EXCEPT ![r].pc = "delete",
                        ![r].touched = @ \cup run[r].page.upserts]
  /\ syncState' = [syncState EXCEPT !.checkpoint = run[r].page.checkpoint]
  /\ UNCHANGED <<account, credential, clock, applied>>

\* applyPage, first half: the linker upserts the batch; the updated_at
\* trigger stamps every row of it, changed or not.
ApplyUpserts(r) ==
  /\ At(r, "upsert")
  /\ rows' = [x \in Row |-> IF x \in run[r].page.upserts THEN clock ELSE rows[x]]
  /\ run' = [run EXCEPT ![r].pc = "delete",
                        ![r].touched = @ \cup run[r].page.upserts]
  /\ UNCHANGED <<account, credential, syncState, clock, applied>>

\* applyPage, second half: the deletions of the batch.
ApplyDeletes(r) ==
  /\ At(r, "delete")
  /\ rows' = [x \in Row |-> IF x \in run[r].page.deletes THEN 0 ELSE rows[x]]
  /\ run' = [run EXCEPT ![r].pc = "advance",
                        ![r].touched = @ \ run[r].page.deletes]
  /\ applied' = applied \cup ({run[r].page.checkpoint} \ {None})
  /\ UNCHANGED <<account, credential, syncState, clock>>

\* Progress is a checkpoint that differs from the one the pass started from.
Advances(r) == run[r].page.checkpoint \notin {None, run[r].startedFrom}

\* Mutant: the pending units are dropped before they are reconciled.
ForgetfulAdvance(r) ==
  /\ At(r, "advance")
  /\ syncState' = IF Advances(r)
                  THEN [syncState EXCEPT !.checkpoint = run[r].page.checkpoint]
                  ELSE syncState
  /\ \E next \in IF run[r].page.done
                 THEN {IF run[r].reconcile = {} THEN "finish" ELSE "settle"}
                 ELSE {"fetch", "finish"} :
       run' = [run EXCEPT ![r].pc = next, ![r].page = None]
  /\ UNCHANGED <<account, credential, rows, clock, applied>>

\* The checkpoint is stored when it is progress; a last page goes on to the
\* reconciliation, any other one is followed by the next page or, when the
\* deadline has passed, by the end of the pass.
AdvanceCheckpoint(r) ==
  /\ At(r, "advance")
  /\ syncState' = IF Advances(r)
                  THEN [syncState EXCEPT !.checkpoint = run[r].page.checkpoint]
                  ELSE syncState
  /\ \E next \in IF run[r].page.done
                 THEN {IF run[r].reconcile = {} THEN "finish" ELSE "reconcile"}
                 ELSE {"fetch", "finish"} :
       run' = [run EXCEPT ![r].pc = next, ![r].page = None]
  /\ UNCHANGED <<account, credential, rows, clock, applied>>

\* deleteUntouched of one pending unit: rows of its scope stamped before it.
Untouched(u) == {x \in Covers[u.scope] : rows[x] \in 1..(u.since - 1)}

ReconcileUnit(r, u) ==
  /\ At(r, "reconcile")
  /\ u \in run[r].reconcile
  /\ rows' = [x \in Row |-> IF x \in Untouched(u) THEN 0 ELSE rows[x]]
  /\ run' = [run EXCEPT
       ![r].reconcile = @ \ {u},
       ![r].pc = IF run[r].reconcile = {u} THEN "settle" ELSE "reconcile"]
  /\ UNCHANGED <<account, credential, syncState, clock, applied>>

SettleReconcile(r) ==
  /\ At(r, "settle")
  /\ syncState' = [syncState EXCEPT !.reconcile = {}]
  /\ Goto(r, "finish")
  /\ UNCHANGED <<account, credential, rows, clock, applied>>

Finish(r) ==
  /\ At(r, "finish")
  /\ syncState' = [syncState EXCEPT !.status = "idle", !.failures = 0,
                                    !.retryable = TRUE]
  /\ Stop(r)
  /\ UNCHANGED <<account, credential, rows, clock, applied>>

(***************************************************************************)
(* Failures.                                                               *)
(***************************************************************************)
\* The source throws: a rejected checkpoint is retried from scratch once, a
\* rejected credential parks the account, anything else fails the pass.
SourceError(r) ==
  /\ At(r, "fetch")
  /\ \/ ~run[r].retried /\ Goto(r, "clear")
     \/ run' = [run EXCEPT ![r].pc = "park", ![r].retryable = FALSE]
     \/ \E b \in BOOLEAN : FailWith(r, b)
  /\ UNCHANGED <<account, credential, syncState, rows, clock, applied>>

ClearCheckpoint(r) ==
  /\ At(r, "clear")
  /\ syncState' = [syncState EXCEPT !.checkpoint = None]
  /\ run' = [run EXCEPT ![r].pc = "fetch", ![r].retried = TRUE,
                        ![r].startedFrom = None]
  /\ UNCHANGED <<account, credential, rows, clock, applied>>

\* A database write of the page loop throws.
StoreError(r) ==
  /\ run[r].pc \in {"declare", "upsert", "delete", "reconcile", "settle"}
       \/ (At(r, "advance") /\ Advances(r))
  /\ FailWith(r, TRUE)
  /\ UNCHANGED <<account, credential, syncState, rows, clock, applied>>

\* markNeedsReauth.
Park(r) ==
  /\ At(r, "park")
  /\ account' = "needs_reauth"
  /\ Goto(r, "fail")
  /\ UNCHANGED <<credential, syncState, rows, clock, applied>>

\* fail: the failure count comes from the snapshot taken by ReadState.
RecordFailure(r) ==
  /\ At(r, "fail")
  /\ syncState' = [syncState EXCEPT
       !.status = "error",
       !.retryable = run[r].retryable,
       !.failures = Min2(run[r].failures + 1, FailureCap)]
  /\ Stop(r)
  /\ UNCHANGED <<account, credential, rows, clock, applied>>

\* The invocation is killed, or a write outside the page loop throws.
Crash(r) ==
  /\ ~At(r, "idle")
  /\ Stop(r)
  /\ UNCHANGED <<account, credential, syncState, rows, clock, applied>>

(***************************************************************************)
(* The environment: time passes, an access token expires.                  *)
(***************************************************************************)
Tick ==
  /\ syncState.age # None
  /\ syncState.age < BackoffMax
  /\ syncState' = [syncState EXCEPT !.age = @ + 1]
  /\ UNCHANGED <<account, credential, rows, clock, run, applied>>

ExpireCredential ==
  /\ credential = "valid"
  /\ credential' = "expired"
  /\ UNCHANGED <<account, syncState, rows, clock, run, applied>>

\* Every step of a run that does not hear from its source.
RunStep(r) ==
  \/ \E force \in BOOLEAN : Begin(r, force)
  \/ Skip(r) \/ ReadState(r) \/ NoConnector(r) \/ MarkRunning(r)
  \/ LoadCredential(r) \/ Refresh(r)
  \/ Declare(r) \/ ApplyUpserts(r) \/ ApplyDeletes(r) \/ AdvanceCheckpoint(r)
  \/ \E u \in run[r].reconcile : ReconcileUnit(r, u)
  \/ SettleReconcile(r) \/ Finish(r)
  \/ ClearCheckpoint(r) \/ StoreError(r)
  \/ Park(r) \/ RecordFailure(r) \/ Crash(r)

\* What its source may do: yield any page, or throw.
SourceStep(r) == (\E p \in Page : FetchPage(r, p)) \/ SourceError(r)

Next ==
  \/ \E r \in Runner : RunStep(r) \/ SourceStep(r)
  \/ Tick
  \/ ExpireCredential

Spec == Init /\ [][Next]_vars

-----------------------------------------------------------------------------
(***************************************************************************)
(* Properties.                                                             *)
(***************************************************************************)
\* A stored checkpoint is one whose page the linker has applied in full: a
\* crash, a failed write or another run never leaves a checkpoint ahead of
\* the rows ("apply FIRST, then move the checkpoint").
CheckpointOnlyAfterApply == syncState.checkpoint \in applied \cup {None}

\* Reconciling a full resync never deletes a row the same pass has touched,
\* however many units it inherited from earlier runs and whatever other runs
\* do meanwhile: every inherited watermark is older than the pass.
OwnRowsSurviveReconcile ==
  [][\A r \in Runner : \A u \in run[r].reconcile :
       ReconcileUnit(r, u) => \A x \in run[r].touched : rows'[x] = rows[x]]_vars

\* The stored resync units are dropped only when nothing is left to delete
\* for any of them, so a resync split over crashed, failed or interrupted
\* runs is reconciled by the run that completes it.  (One run at a time.)
SettledOnlyWhenReconciled ==
  [][syncState.reconcile # {} /\ syncState'.reconcile = {}
       => \A u \in syncState.reconcile : Untouched(u) = {}]_vars

=============================================================================
