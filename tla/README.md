# Vixera One in TLA+

Specifications of the parts of Vixera One that write shared state from several
places at once, or keep it across failures: the sync engine and its sources,
accounts and their secrets, server actions, ingestion, the spine's two stores,
and what the Field does with the rows. Each module is translated from the
source; `PROJECT.json` maps every definition to the lines it stands for and
lists the runs, the mutants that show each property bites, the hazards and the
theorems.

```
tlc -workers 2 -config context.cfg MCContext     # any run of PROJECT.json
tlapm Context_proofs.tla                         # any proof module
```

## 1. The system

Vixera One keeps one user's context (people, threads, mail, time, money,
documents) in a Postgres spine behind Supabase. Nothing in the server keeps
state in memory between requests: every Edge Function invocation reads rows,
awaits the database and the providers, and writes rows. There are no
transactions across two store calls and no locks, so *every await is a point
where another invocation may run and where this one may be killed*. That is
the concurrency the modules model.

| Component | State | Operations | Talks to |
| --- | --- | --- | --- |
| Sync engine (`packages/sync/src/engine`) | `connector_sync_states` row per (account, capability): status, checkpoint, reconcile units, failure count; `connector_accounts.status` | `runCapability`, gates, `declareResync`, `fail`, `markNeedsReauth` | connectors (pages), linker (apply), store, vault |
| Connectors (`packages/connectors/*`) | a checkpoint they own and the engine stores; the client's credential during a run | `syncMail` / `syncCalendar` / `syncBank` generators, `refreshCredential` | provider APIs |
| Context linker (`packages/sync/src/linker`) | none of its own | `applyMailBatch`, `applyCalendarBatch`, `applyBankBatch`, `resolve` | store |
| Spine store (`packages/sync/src/store`) | all tables | upserts on natural keys, `deleteUntouched`, lists, look-ups, row conversions | Postgres |
| Action dispatch (`_shared/actions.ts`) | `action_requests` row per idempotency key | `dispatchAction` and its handlers | store, ingest, sync |
| Ingest (`_shared/ingest.ts`, `ingest-process`) | `ingest_items`, `documents`, `context_events` | `processIngestItem` | store |
| Account linking (`_shared/link.ts`, vault SQL) | `connector_accounts`, Vault secrets | link, relink, disconnect, credential put/get/delete | providers, store |
| Sync scheduling (`_shared/sync.ts`, `connector-sync`) | none | `runSync` with a budget, the loop over users | engine |
| NOW (`packages/domain/src/now`) | none: rows and the clock | `deriveNow` | Field |
| One Command (`packages/command`) | command history | route, resolve, execute | store |
| Field (`apps/desktop`) | pending links, share queue, focus, the version of what it shows and its loads | dispatch with idempotency keys, read again on every change | edge functions, Realtime, plugin |
| Praxion connector (`packages/connectors/praxion`) | what it last knew of Praxion, a probe under way | `availability`, reads, `openDocument`, `requestAction` | Praxion on its port |
| Native platform (`crates`, `plugins`) | keychain entries, share inbox | set / get / delete, push / clear | OS |

What makes each of them correct and which behaviours are hard is the hazard
list of `PROJECT.json`: each hazard stands at the line where it bites and
names the properties that catch it, or says why none does.

## 2. Modules

| Module | Models |
| --- | --- |
| `SyncEngine` | `runCapability` for one (account, capability) pair under any number of overlapping invocations; the connector is a parameter (any `Page`) |
| `GmailSync` | `syncMail` over an external mailbox; drives `Engine == INSTANCE SyncEngine` |
| `DeltaSync` | Microsoft mail, Microsoft calendar and the bank as sources that list or ask for changes since a link |
| `CalendarSync` | the Google calendar source: several calendars in one checkpoint, recurring series |
| `SyncSchedule` | `runSync`, `scheduleCapabilities` and the loop over users under one budget |
| `AccountLink` | the account row, its secret and a sync's state, under link, relink, update mode, disconnect and runs in flight |
| `ApiClient` | a provider client under `mapConcurrent`: the 401, the refresh, rotation, what of several failures is reported |
| `LinkFlow` | connecting from the Field: panels, attempts, polling, callback, hosted sessions, notices |
| `ActionDispatch` | `dispatchAction` for one idempotency key, with `thread.create` |
| `IngestPipeline` | `ingest.submit`, `ingest-process`, `processIngestItem` |
| `Handoff` | `handoff.create` and `handoff.accept` by several devices |
| `People` | `ContextLinker.resolve` in several syncs, and `person.merge` |
| `TimeEvents` | `applyCalendarBatch`'s versions of a meeting against the user's decisions |
| `Now` | the score, bucket and decisions of an event as the hours pass |
| `OneCommand` | routing by name, focus and the hops of the executor, over rows that linkers and merges change |
| `ShareIntake` | the share plugin's queue, the Field's drain, submission |
| `FieldReads` | the version every change and action bumps, and the loads of one `useSpineQuery` |
| `PraxionClient` | Praxion's availability: the shared probe, the cache, corrections after a lost call, the poll |
| `KeychainChunks` | secrets longer than one keychain entry |
| `SpineRows`, `MemoryStore`, `SqlStore`, `SpineStore` | tables and conversions; the two stores, method by method; the comparison |
| `Stores` | sum of `SpineStore` and `People` (`Null` is what both call null) |
| `Sources` | sum of `CalendarSync` and `DeltaSync` |
| `Accounts` | sum of `AccountLink`, `SyncSchedule`, `ApiClient`, `KeychainChunks`, `LinkFlow` |
| `Context` | sum of `Handoff`, `TimeEvents`, `Now`, `OneCommand`, `ShareIntake`, `FieldReads`, `PraxionClient` |
| `Jobs` | sum of `IngestPipeline` and two instances of `ActionDispatch`: many calls of one key, or one client that fails and retries |
| `*_proofs` | theorems, section 5 |
| `MC*` | instances for TLC |

A **sum** composes components that share no row: the initial state picks the one
that moves, so that the states add up instead of multiplying. It is a module of
its own, so that its theorems are about the specification TLC checks: the first
lemma of its proofs is that every behaviour of the sum is one of each component.
Components that do interact are in one module (`AccountLink` has
the engine's view of the account, `TimeEvents` the user and the sync) or
instantiated (`GmailSync` over `SyncEngine`).

In every module an action is the code between two awaits that write; a record
of locals with a program counter is a call that is suspended; a `Killed` or
`Crash` action is the runtime ending it there. Variables marked "history" in
their comment exist for properties only.

### The sync engine and its sources

In `SyncEngine` a run is the locals of `runCapability` (`failures`,
`startedFrom`, `reconcile`: the snapshot of `getSyncState`) and its place:
`ReadState`, `MarkRunning`, `LoadCredential`, `Refresh`, `FetchPage`,
`Declare`, `ApplyUpserts`, `ApplyDeletes`, `AdvanceCheckpoint`,
`ReconcileUnit`, `SettleReconcile`, `Finish`; the catch block is
`SourceError`, `StoreError`, `ClearCheckpoint`, `Park`, `RecordFailure`.
`updated_at` stamps are the value of `clock`, which moves when a run marks the
pair running; only the order of rows relative to watermarks matters.
`Covers[scope]` is what `deleteUntouched` may reach, `UnitKey` is `unitKey`.

`GmailSync` replaces `SourceStep` by the suspended generator of each run. A
page takes two steps (`ListMessages` or `ListHistory`, then `GetMessages`),
because the mailbox changes between the request that lists ids and those that
fetch them. `DeltaSync` and `CalendarSync` have the engine at page granularity,
one run at a time: what is fetched, what of it can be resumed, what a dead link
or token resets. They differ from Gmail in what they are about: a listing whose
link dies, a window that moves, a series cancelled by its master alone.

### Accounts

`AccountLink` has each vault RPC as one action (it is one transaction) and a
link as a chain of round trips. `StartRun` reads the account row; everything a
run writes later (`Refreshed`, `Park`) is computed from that copy, as the code
does. `ApiClient` numbers tokens by the grant they came with. `SyncSchedule`
counts wall-clock time in pages; a status may change between passes.
`LinkFlow` has one attempt per `startLink`; `persistLinkedAccount` is one step
there.

### Actions and ingestion

`Insert` / `lookup` is `createActionRequest`; `Replay`, `Refuse` and `Take` are
the ways `dispatchAction` goes on with an existing row; `fresh` says whether
the row is younger than the staleness limit of its status, and `Age` ages it
only when no live call owns it, which is what `STALE_RUNNING_MS` ("older than
this cannot still be executing") is chosen for. In `IngestPipeline` the two
look-ups of `Find` are one step: each document they can find was inserted by a
step of its own. Text-only items make no document and are left out.

### What the Field shows

In `FieldReads` a table is the number of its revision and a load is a set of
reads, each at a time of its own; a page shows them together. `Change` and `End`
bump the version, `Effect` runs when the version or the focus has changed and
cancels the load before, whose reads go on unseen. A hook is the set of tables
it reads and which of them it must read first (`Pieces`, `Before`). In
`PraxionClient` a request meets Praxion at one moment and is answered at a
later one or times out; `held` is the history of how Praxion was, so that a
property can say how old a statement about it is.

### The spine

`MemoryStore` and `SqlStore` translate the interface of `spine-store.ts`
method by method over tables that are functions from keys to rows; `SqlStore`
sends statements, each of which checks the constraints of the schema and
applies all or nothing, pages through answers that PostgREST cuts at its row
cap, and runs the schema's deletion trigger. `SpineStore` gives both the same
calls: the in-memory store calls itself the executable specification of the
schema, and this is the comparison. It is the abstract specification and the
detailed one run in lock-step; the mapping is what is read of the database
(`Seen`), and `StoresAgree` says that memory holds just that and that both gave
the same answer, `ReadsAgree` that every read of either answers alike. Rows of a
batch are written by key: of a key that is repeated the last row stays, and
statements of `Chunk` rows go out in the order in which keys first occur.

## 3. Runs

Seven runs pass; between them they fire every action.

| Run | What it shows | Bounds |
| --- | --- | --- |
| `sync_engine_one_run` | One run at a time, killed or failing anywhere: the checkpoint stays behind the rows, a run never deletes what it touched, and every resync is reconciled by the run that completes it | 2 rows, 2 checkpoints, 2 scopes of one unit, 4 page shapes, 4 marks |
| `gmail_sync` | No message is lost (`NothingSkipped`) and a resync deletes only what Gmail stopped showing (`ReconcileSparesVisible`) | 2 messages, pages of 1; one mailbox with a moving window (3 days, 2 changes), one frozen with rejected page tokens (1 change); 3 marks |
| `sources` | A source that has caught up has the rows its provider shows; what can resume ends | 2 items or a series of 2 instances and an event of another calendar, 2 changes, 1-2 expired links, 1 kill, a window that moves one day |
| `accounts` | An undisturbed relink reactivates, a disconnect drops the secret for good, a broken credential is noticed, the budget holds, every pair is synced; refreshes use the latest token and refusals are reported; "Connected" is true; a cut-off keychain write reads whole and strands nothing | 2 grants, 1 kill, 1 revocation, 2 cuts; budget 8 for 4 pairs of 2 users; 2 workers, 3 items, 2 refreshes, 2 hiccups; 2 panels, 2 attempts, 3 minutes; values of 1-3 pieces, `GAP_TOLERANCE` 2, 4 operations |
| `context` | Handoffs, meetings, NOW, commands and shares keep their promises under races, kills and the user's decisions; a page never goes back and shows what it heard of; what is said of Praxion was so not long before | 3 devices, 2 kills; 2 versions, 3 changes, 2 decisions; 5 instants around the window and the due date; 3 writes and a command; 3 shares, 2 failures, 2 mounts; 2 hooks over 2 tables (one in the Realtime channel and in ingest), 1 write each, 2 loads at once; 3 contracts, 3 ticks, 2 switches, timeouts of 1 tick, cache and interval of 2 |
| `jobs` | One key is answered one way, runs once and settles; an item has one document, complete, and settles | 3 concurrent calls (one of another type); or 3 attempts and 3 crashes of one client; or 3 items (2 of one content), 2 attempts, 1 fault |
| `stores` | Both stores hold the same rows and answer alike, page for page; the cascade leaves nothing behind. No linked message loses its person, and nobody who lost the race for an address is listed | 9 families of tables, 3 calls, batches of 2, 2 accounts and an unlinked one, 2 keys, chunks of 1, answers cut at 2; 2 syncs and 1 merge over 2 messages and 3 people, 1 kill |

Why the bounds are enough: a resync needs one run to begin it, one to restart
it and one to complete it, and a row to lose and a row to keep; a lost update
needs two writers; a third device is the one that comes late; a stale token
needs two workers and a refresh; a stale page needs a load that outlives the
next one; paging needs more rows than a page; a piece
stranded behind a gap needs a value of three pieces. `MaxClock`, `MaxLog`,
`LastDay`, `MaxChanges`, `MaxKills`, `MaxCrash`, `MaxRuns`, `MaxOps`,
`MaxWrites`, `MaxBatch` and the like are bounds of the model, not of the code, and stand in
guards. `CacheTime`, `ProbeTimeout`, `RequestTimeout`, `Interval`, `Chunk`, `MaxRows`, `PageSize`, `Window`, `LINK_TIMEOUT` and
`MAX_REFRESHES_PER_RUN` are scaled-down constants of the code.

`CHECK_DEADLOCK FALSE` stands where these bounds, or the end of the work, stop
the system. In the Gmail runs the hold times are 0 (a forced run ignores
`holdReason`); `sync_engine_one_run` keeps the real shape of hold and backoff.

Each property has a mutant in `PROJECT.json`: a plausible bug in the mapped
code under which TLC finds it violated.

### What the code does not keep

Five runs end in a counterexample; each contradicts a sentence of a comment or
document, quoted in `PROJECT.json`.

1. `gmail_token_rejected`: the engine clears a rejected checkpoint in the
   database but keeps `retriedCheckpoint` in memory. If that pass dies, the
   next one starts a later window, declares nothing and reconciles the
   abandoned unit: rows Gmail still shows are deleted.
2. `people_merged_twice`: `resolve` follows `mergedIntoId` one hop, so mail is
   linked to a person the list hides.
3. `relink_after_disconnect`: a disconnect between the put of a relinked
   credential and the write of its reference leaves a reference to nothing; the
   next relink is answered with success and stores no secret.
4. `refresh_not_stored`: a refreshed Microsoft credential that cannot be stored
   while attachments are fetched is taken for a malformed message; the page is
   applied without it.
5. `calendar_series_beyond_window`: an instance beyond the future edge is
   forgotten by its series, and stays when the series is cancelled.

More divergences are reproduced by changing a constant of a configuration, or
by checking a property that is defined next to the others:

- `Sources`, `BankResyncWhole`: a bank listing that starts over with the
  units of the first one is reconciled against the wrong start.
- `MCGmailSync` with `Runner = {r1, r2}`: of two overlapping runs a stale page
  may be applied after a newer one, and a crash then leaves a checkpoint that
  no longer leads to the message.
- `ActionDispatch`: with failures and two retries of a waiting key both run,
  and the slower one re-executes a settled key; a crash between the handler and
  the done write makes a second thread.
- `IngestPipeline` with two processors: both find nothing and both insert.
- `Handoff`: two devices that both read it pending are both told accepted, and
  the row names the second (`TooLateIsRefused` is about a device that asks
  later); a kill between the accept and the dismissal leaves the prompt
  (`PromptResolved` excludes kills).
- `SpineStore`, `MemoryNothingDangles` in the family `nested`: the in-memory
  cascade goes one level, though `in-memory-spine-store.ts:972` says it mirrors
  the trigger.
- `KeychainChunks`, `NothingStranded` with `GAP_TOLERANCE` below the number of
  pieces a clean-up can skip.
- `Now`, `SnoozeHolds`: a snooze after an attend has the key of the first snooze
  and replays its outcome (against `apps/desktop/src/data/actions.ts:29-34`).
- `OneCommand`, `AnswersTheLiving`: a command in the focus of a merged person is
  answered without following `mergedIntoId` (against `actions.ts:464-466`).
- `PraxionClient`: `invalidate()` does not force a probe while one is under way,
  which the next asker joins (against `docs/praxion-contract.md:169` and the
  comment of `usePraxionAvailability`: what the state mark shows may be older than
  its poll by a probe's timeout, and `SaidIsFresh` allows for that); an action
  that finds Praxion gone fails with `PraxionRequestError` and does not correct
  the cache (against `docs/praxion-contract.md:176`); a document is not opened in
  the OS viewer when Praxion quit since the last probe (against
  `open-document.ts:1-4`).
- `FieldReads`: nothing is read again when the Realtime channel comes up, so a
  change of that time is not heard of (`ShowsWhatItHeard` is about what is); after
  a failed load the rows of the focus before stay, under an error.
- `ShareIntake`, `NothingUnread`: a share between the drain's last reading and
  `clear()` is deleted unread (against `share-intake.ts:47-52`).
- `LinkFlow`, `NoticeStands`, `ControlsStay`: after `finish` succeeded, the
  poll of the same attempt wakes up aborted and overwrites the notice; the end
  of an earlier attempt removes the controls of a later one.

## 4. Fairness and liveness

| Property | Fairness, and why the code gives it |
| --- | --- |
| `KeySettles` | a call that is not killed goes on (`WF Run`); the client sends the envelope again until it is settled (`WF Answer`: the Field retries a 409 and a retryable failure); time passes (`WF Age`) |
| `ItemSettles` | `WF Step`; `SF` on processing each received item: the Field calls `ingest-process` after every submit and at start, and a call goes through all received items. Kills are bounded, for a run that leaves no trace in the row cannot count towards `MAX_INGEST_ATTEMPTS` |
| `BrokenIsNoticed` | cron keeps starting runs, a run and a link that started go on (`WF`); a run that is refused over and over is at last told so rather than failing for another reason (`SF Unauthorized`) |
| `SyncsEveryPair` | pg_cron ticks and an invocation that runs goes on (`WF Step`) |
| `ResumableFinishes` | cron starts runs and a run goes on (`WF RunStep`); kills are bounded |

`OwnRowsSurviveReconcile`, `SettledOnlyWhenReconciled`, `ReconcileSparesVisible`,
`DebtsDoNotFade`, `MergeKeepsAnswers` and `NeverBack` are action properties.

## 5. Proofs

TLAPS proves these for every value of the constants, under the named
assumptions of each module (which TLC evaluates in the runs): any number of
runs, messages, devices, workers, panels, calls, kills, changes and ticks.

`SyncEngine_proofs`

| Theorem | Property | Inductive argument |
| --- | --- | --- |
| `TypeCorrect`, `ApplyBeforeCheckpoint`, `OwnRowsSurvive` | `TypeOK`, `CheckpointOnlyAfterApply`, `OwnRowsSurviveReconcile` | `IInv` (`Invariance`): a run past its mark has a watermark no later than the clock; every unit it holds has one no later than its own; every row it touched carries a stamp no earlier; a run about to advance has applied its page |
| `SettledWhenReconciled` | `SettledOnlyWhenReconciled` | the units a lone run holds are those in the row but for the ones it has reconciled, and those have no row left to delete |

`GmailSync_proofs`

| Theorem | Property | Inductive argument |
| --- | --- | --- |
| `RefinesEngine` | `Spec => Engine!Spec` | the refinement of the abstract source by Gmail's: every page `syncMail` yields is one of the engine's, every step of a generator or of the mailbox is a step of the engine or a stutter; the mapping is the identity, so each theorem of `SyncEngine_proofs` holds here too |
| `NoMailSkipped`, `ReconcileSpares` | `NothingSkipped`, `ReconcileSparesVisible` | `OneRun`: each visible message has a row that no pending unit will take, or the stored checkpoint still leads to it (its history records it, its backfill has not passed it), or the run has it in hand; a run's checkpoint leads to what the stored one does, less what it has applied |

`Sources_proofs`

| Theorem | Property | Inductive argument |
| --- | --- | --- |
| `MirrorsSourceHolds` | `MirrorsSource` | `DeltaOK`, `CalendarOK`: every wrong row will be put right. The link still leads to the item, or the pending unit takes the row away, or the row was gone before a listing that could not tell; a stored state keeps that truth unless it will be refused and everything listed anew. The calendars have one state each and a series that is known by its master alone |

`Accounts_proofs`

| Theorem | Property | Inductive argument |
| --- | --- | --- |
| `RelinkWorks`, `DisconnectIsFinal` | `RelinkReactivates`, `DisconnectDropsSecret` | while no run or second link crosses it, the row's reference names the secret, a link's copy of the row is the row, and no secret is left behind a disconnect |
| `OneBudgetForAll`, `ReauthStops` | `BudgetRespected`, `ReauthStopsAccount` (no run) | a page starts before the deadline; the pass knows every parked account of those it goes on with |
| `RacesDoNotPark` | `OnlyRevokedParks` | `ParkInv`: as long as no grant is withdrawn and refreshes are left, every call's token is current, lapsed or about to be refreshed, and no failure is `unauthorized`; a Microsoft worker fails with what ended the refresh it waits for |
| `LatestTokenOnly`, `RefusalReported` | `RefreshesWithTheLatest`, `RefusalIsReported` | the tokens spent are all older than the credential's, which is no newer than the last granted; once a fetch was refused for good, the queue's failure is not retryable |
| `CutOffReadsWhole`, `NoSecretStranded` | `ReadsWhole`, `NothingStranded` | a rewrite goes to the generation the manifest does not name; no scan of a clean-up reaches a piece in use, and every piece in no use is still ahead of a scan |
| `ConnectedTells` | `ConnectedIsTrue` | an attempt's answer is what its own poll or callback brought, and a notice is written only by an attempt that knows what was linked under it |

`Context_proofs`

| Theorem | Property | Inductive argument |
| --- | --- | --- |
| `TypeCorrect`, `LateDevicesRefused`, `AcceptResolvesPrompt` | types, `TooLateIsRefused`, `PromptResolved` (no run) | a handoff never is pending again once a device is about to be told accepted; without kills, the device an accepted row names is still to dismiss the prompt it saw or has been answered |
| `OneVersionStands`, `DismissedStaysAway` | `OneVersionShown`, `DismissalRespected` | a sync with no action of the user beside it sees the rows as it listed them but for those it wrote, and what it has still to retire is all that is shown beside its version; a dismissed version is never one a sync brings back |
| `DecisionsStand`, `DebtsStay` | `DecisionsHold`, `DebtsDoNotFade` | the row's attention is the one the last decision set, with no snooze but its own; the score of what is overdue grows with the hours |
| `NounAnswersFocus`, `MergesKeepAnswers` | `FocusAnswers` (no run), `MergeKeepsAnswers` | a scoped command carries the name and kind of its focus; no index names a merged person without an edge that says the same |
| `DrainKeepsShares` | `SharesKept` | what the drain has processed is dispatched; only late shares are cleared unread |
| `PagesNeverGoBack`, `PagesShowWhatWasHeard` | `NeverBack`, `ShowsWhatItHeard` | at most one load is not cancelled; it began after what is shown was read, so it reads no less of any table; and while the version is the one it began with, it reads at least what was heard |
| `PraxionIsFresh` | `SaidIsFresh` | what a request met was so after it was sent, and no request outlives its timeout: a cache entry speaks of an instant at most one timeout before it, a poll of one at most a probe's timeout before it |

`Jobs_proofs`

| Theorem | Property | Inductive argument |
| --- | --- | --- |
| `OneAnswer`, `HandledOnce` | `SameAnswer`, `OneThreadPerKey` | the call that inserted the row is the only one that works on it, the row is young for as long, and nobody has been told anything before it is settled |
| `AttemptsAreAccounted` | (no run) a key whose attempts are spent is not queued again; at most one attempt was neither deferred nor killed | what a lone run knows of the attempts is what the row says, and it defers only while they are below `MAX_ACTION_ATTEMPTS`. A kill is not bounded by it: a stale row is run again however often it was, so each kill may add an attempt |
| `OneDocumentEach`, `NothingByHalves` | `OneDocument`, `ProcessedIsComplete` | the document an item's look-up finds is the one it finds ever after; so the event and the row name the same one |

`StoreRows_proofs`, `Stores_proofs`

| Theorem | Property | Inductive argument |
| --- | --- | --- |
| `StoreType`, `StoresAreOne` | types, `StoresAgree` | `StoreInv`: the database has the columns of its tables (`DbType`), every stored row satisfies every constraint (`AllValid`), and outside the family `nested` nothing is about an event or a conclusion (`Flat`), memory is what is read of the database, and the answers are equal |
| `ReadsAreOne` | `ReadsAgree` | the same rows (`StoresAgree`), sorted by a column that is read as it is stored, so both sort the same list; and of any list the pages read after `got` rows are the slice that is left (`OneRead`, `PagesAreOne`), however few rows one page holds |
| `SchemaNothingDangles` | `SqlNothingDangles` | the same: what a row refers to is there because its row is valid, and a deletion takes all that is about what it deletes |
| `RacesLeaveNobody`, `MergeKeepsLinks` | `NoDuplicatePeople`, `LinksSurviveMerges` | a listed person without an identity is one a live call will fold; an edge is asserted on the survivor before it is removed |

`StoresAgree` needs all of `StoreInv`: two stores that hold the same rows stay
the same only if a statement that the database refuses is one that memory
refuses, which depends on the constraints of rows written long before
(`AllValid`); only if what was written is read again unchanged, a decimal, a
sender or a focus, which depends on the types (`DbType`); and the two cascades
are the same only where they are one level deep (`Flat`). Each call has a lemma
of its own (`UpsertMailMessagesAgrees` and so on): over any database that
satisfies the invariant, memory given the same call is left with what is read of
the database it leaves. `StoreRows_proofs` has those that write rows and the
lemmas about operators they rest on: `ChunkedAccepted` (statements of `Chunk`
rows, sent in the order of first occurrence, write the last row of every key),
`NumericKeeps` (a decimal of at most four digits survives `numeric(20, 4)`).
`Stores_proofs` has the deletions (`WithDependents` is the least set that holds
the row and all that is about what it holds), the context, the steps, and the
reads. `ReadsAgree` needs an argument of its own. `pageAll` is a recursive
function of how many rows it has read: that it equals the slice `page()` cuts is
shown from its last page backwards, by the least number of rows left for which
it would not. And the two stores sort by `CHOOSE` of an order: that one exists
for any finite set of keys (`OrderExists`) is what makes the lists sequences, of
the length `page()` and `pageAll` count with. Lists that tie are left out of
`ReadsAgree`: the code promises no order between equal keys, and that both
operators choose the same one says nothing of it.

None of these properties is inductive by itself: each speaks of what was
answered, stored or shown, and the step that could break it is taken by a call
whose locals were read earlier. The invariants say what those locals still mean.

Hypotheses of theorems beyond the assumptions on constants, each because the
code does not keep the property without it:

- one run of a pair at a time (`Runner = {r}`) in `SettledWhenReconciled`,
  `NoMailSkipped` and `ReconcileSpares`: of two, a stale page may be applied
  after a newer one (section 3). `RefinesEngine` and the other theorems about
  the engine hold for any number.
- one call of the pipeline at a time (`Processor = {p}`) in `OneDocumentEach`
  and `NothingByHalves`: two do insert two documents.
- one merge at a time in `MergeKeepsLinks`: two opposite ones can drop a link.
- `Crossable` (no value has more pieces than a clean-up's gap tolerance
  crosses) in `NoSecretStranded`.
- `Mails <= MAIL_ATTACHMENT_SCAN` in `MergesKeepAnswers`: the answer about two
  people together reaches no further back than the one about each.
- `PromptResolved` and `NoDuplicatePeople` exclude kills in their own statement,
  `OneVersionShown` and `DismissalRespected` overlapping work, `SameAnswer`
  failures with a second client.

Every invariant and every action property of the passing runs is stated by a
theorem. Only model-checked:

- liveness (`KeySettles`, `ItemSettles`, `BrokenIsNoticed`, `SyncsEveryPair`,
  `ResumableFinishes`): liveness under fairness is out of the prover's reach;
- the counterexamples of section 3, which are about what does not hold.

## 6. External assumptions

- A vault RPC and a PostgREST statement are atomic; `vault.update_secret` on a
  missing id changes nothing and raises nothing; an answer is cut at the row cap.
- Providers keep what their APIs promise about delta links, cursors and sync
  tokens; rounds on a sync token carry no `timeMax`; a token outlives the calls
  that are under way when it is granted.
- One keychain entry is written atomically; Tauri's synchronous commands run
  one at a time; the event loop runs one worker between two awaits.
- A panel shows `needs_reauth` by the time Reconnect is pressed.

## 7. Not modelled

**Data.** Titles, MIME parts, confidences, the text of URLs and requests, the
grammar of One Command, the PKCE digest, logs and reports. A mail row is its id
and its stamp. `MAX_PAGES`, `redactCredential` and delays of 429 retries.
Rendering, sign-in, notifications; row-level security.
Intelligence, the registry of screen contexts and the build scripts keep no state.
What Praxion answers (documents, selections, the wording of its errors).
`commitment.*`, `document.*`, `thread.update` and `person.update` are updates
of one row. Commitments and importance rules of `rules.ts` are data.

**Calls the stores are not compared on.** The count of updates and the versions
handed back for a key repeated within one batch (of context events memory keeps
the first, Supabase the last); person and document foreign keys; a handoff whose focus is cleared
by migration 11, which memory neither clears nor validates; a batch with good
and bad rows, or an empty one with an unknown account; `create` with an id that
exists; a query of existing keys that is itself cut; `findDocumentBySourceRef`
over more than ten supersets; `relate` against a concurrent deletion; decimals
of more than four digits; offsets past the end. `isoFromDb` truncates
microseconds, in the safe direction. `listSyncStates` and `listMoneyAccounts`
are compared as sets, for the order differs.

**Hazards met and left to a later model.** Two merges in opposite directions;
an accept overwritten by the write of an expiry, or made between
`createHandoff` and the upsert of its prompt; `handoff.create` retried after a
kill; the prompt of an expired handoff, which stays; `attend` against the
read-merge-write of `setContextEventAttention`; `markNeedsReauth` over a fresh
link; a link of a disconnected account killed after `status = active`; a Plaid
link killed between exchange and persist, which loses the item, and
`hostedSessionPublicToken`, which links only the first; `waitForNewAccount`,
which takes any new account for its own and never a reconnected one
(`apps/desktop/src/data/link.ts:96`); a pass that cannot resume and is longer
than the budget, or a delta round that is, which never ends; offset paging under
concurrent writes; two runs that both find no attachment document
(`context-linker.ts:208-229`); workers of the Microsoft client that go on after
a rejection; 403, which Microsoft's client reports as `unauthorized` and
Google's as `unsupported`; a corrupt manifest, which makes a long set fail
until a short set or a delete; the share queue, lost with its process; a failed
batch, which dispatches its successes again; `docs/sync.md:404`, which says
quiet is keyed by subject while the code gives it fresh keys; an overdue item
of middling score, which drops from "changed" to "can wait" past the window;
rows older than 30 days, which leave NOW's query; a bank batch that read people
before a merge and writes its edge to the merged one; a merchant that becomes
ambiguous, whose column is cleared while its edge stays.
