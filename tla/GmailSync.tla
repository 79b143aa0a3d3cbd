----------------------------- MODULE GmailSync ------------------------------
(***************************************************************************)
(* The Gmail mail source under the sync engine: syncMail (a resumable      *)
(* backfill over messages.list, then history.list), its checkpoint, and    *)
(* the engine of SyncEngine driving it.  The mailbox is external: messages *)
(* arrive, are hidden (Trash, Spam), shown again and purged at any moment, *)
(* also between the request that lists a message and the one that gets it; *)
(* the provider forgets old history and may reject a stored page token.    *)
(***************************************************************************)
EXTENDS Integers, Sequences, FiniteSets

CONSTANTS
  Runner,        \* invocations that may run the pair at the same time
  Msg,           \* message ids: numbers, in the order messages.list runs backwards
  ReceivedOn,    \* [Msg -> Day]: internalDate, in the units after: counts in
  InitialBoxes,  \* what the mailbox may be before the first sync
  Window,        \* backfillDays, in the same units
  PageSize,      \* LIST_PAGE_SIZE
  None,          \* null
  FirstDay, LastDay,  \* bound: the time that passes
  MaxLog,        \* bound: mailbox changes
  MaxClock       \* bound: runs that may mark the pair running

VARIABLES
  account, credential, syncState, rows, clock, run, applied,  \* SyncEngine
  box,      \* [Msg -> BoxState]: what Gmail holds
  history,  \* the mailbox history: a sequence of records
  oldest,   \* history ids below it are forgotten: history.list answers 404
  today,    \* ctx.now()
  source,   \* the generator each run iterates over
  horizon,  \* history: the latest day from which a listing has started
  rejected  \* history: a stored page token has been rejected

engineVars == <<account, credential, syncState, rows, clock, run, applied>>
mailVars == <<box, history, oldest, today>>
vars == <<engineVars, mailVars, source, horizon, rejected>>

Day == 0..LastDay + 1
Records == {"added", "hidden", "shown", "purged"}
BoxState == {"absent", "visible", "hidden", "purged"}

\* parseGmailCheckpoint: { historyId, backfill? }.
Backfill == [pageToken : Msg, since : 0..LastDay, fullResync : BOOLEAN]
GmailCheckpoint ==
  [historyId : 0..MaxLog, backfill : Backfill \cup {None}]

GmailPage ==
  [upserts : SUBSET Msg, deletes : SUBSET Msg, checkpoint : GmailCheckpoint,
   done : BOOLEAN, full : BOOLEAN, scopes : {{}} \cup {{d} : d \in Day}]

\* A mail scope is receivedSince; mail has a single listing unit.  With the
\* hold times at 0 a run may begin whenever another one has died, been forced
\* past, or overlaps it.
Engine == INSTANCE SyncEngine WITH
  Row <- Msg, Checkpoint <- GmailCheckpoint, Scope <- Day, Page <- GmailPage,
  UnitKey <- [d \in Day |-> "mail"],
  Covers <- [d \in Day |-> {m \in Msg : ReceivedOn[m] >= d}],
  RunningStale <- 0, BackoffBase <- 0, BackoffMax <- 0, FailureCap <- 1

\* Message ids are numbers above 0, which is the cursor of a listing that starts;
\* null is no checkpoint, position or page.
ASSUME MailAssumption ==
  /\ \A m \in Msg : m \in Nat \ {0}
  /\ ReceivedOn \in [Msg -> Nat]
  /\ InitialBoxes \subseteq [Msg -> BoxState]
  /\ Window \in Nat /\ FirstDay \in Nat /\ LastDay \in Nat /\ FirstDay <= LastDay
  /\ MaxLog \in Nat /\ MaxClock \in Nat
  /\ None \notin Backfill \cup GmailCheckpoint \cup GmailPage

Closed == [stage |-> "closed"]

Init ==
  /\ Engine!Init
  /\ box \in InitialBoxes
  /\ history = <<>>
  /\ oldest = 0
  /\ today = FirstDay
  /\ source = [r \in Runner |-> Closed]
  /\ horizon = 0
  /\ rejected = FALSE

-----------------------------------------------------------------------------
(***************************************************************************)
(* Gmail.                                                                  *)
(***************************************************************************)
Change(m, kind, state) ==
  /\ Len(history) < MaxLog
  /\ box' = [box EXCEPT ![m] = state]
  /\ history' = Append(history, [msg |-> m, kind |-> kind])
  /\ UNCHANGED <<oldest, today>>

Arrive(m) == box[m] = "absent" /\ ReceivedOn[m] = today /\ Change(m, "added", "visible")
Hide(m) == box[m] = "visible" /\ Change(m, "hidden", "hidden")
Show(m) == box[m] = "hidden" /\ Change(m, "shown", "visible")
Purge(m) == box[m] \in {"visible", "hidden"} /\ Change(m, "purged", "purged")

ForgetHistory ==
  /\ oldest < Len(history)
  /\ oldest' = Len(history)
  /\ UNCHANGED <<box, history, today>>

NextDay ==
  /\ today < LastDay
  /\ today' = today + 1
  /\ UNCHANGED <<box, history, oldest>>

Mailbox ==
  /\ \/ \E m \in Msg : Arrive(m) \/ Hide(m) \/ Show(m) \/ Purge(m)
     \/ ForgetHistory \/ NextDay
  /\ UNCHANGED <<engineVars, source, horizon, rejected>>

-----------------------------------------------------------------------------
(***************************************************************************)
(* The generator.  closed -> list -> get -> (yield) -> list ...            *)
(* historyId is the id its checkpoints carry; cursor is the page token of  *)
(* messages.list (0: from the top) or the position reached in the history. *)
(***************************************************************************)
Open(r, s) == source' = [source EXCEPT ![r] = s]

Listing(mode, historyId, cursor, since, full) ==
  [stage |-> "list", mode |-> mode, historyId |-> historyId,
   cursor |-> cursor, since |-> since, full |-> full]

\* A backfill that starts from nothing: historyId comes from users/me/profile
\* before anything is listed, and the window is fixed now.
SinceOf(day) == IF day > Window THEN day - Window ELSE 0

FreshBackfill(r, full) ==
  /\ Open(r, Listing("backfill", Len(history), 0, SinceOf(today), full))
  /\ horizon' = SinceOf(today) + 1

\* syncMail: no checkpoint, a backfill to resume, or a history id.
Start(r) ==
  /\ run[r].pc = "fetch" /\ source[r] = Closed
  /\ LET cp == run[r].startedFrom
     IN  IF cp = None THEN FreshBackfill(r, FALSE)
         ELSE /\ UNCHANGED horizon
              /\ IF cp.backfill = None
                 THEN Open(r, Listing("history", cp.historyId, cp.historyId, 0, FALSE))
                 ELSE Open(r, Listing("backfill", cp.historyId, cp.backfill.pageToken,
                                      cp.backfill.since, cp.backfill.fullResync))
  /\ UNCHANGED <<engineVars, mailVars, rejected>>

\* What a list request has answered: the ids to fetch, the ids known to be
\* deletions, the checkpoint of the page and whether it is the last.
Listed(s, ids, gone, next, last) ==
  [stage |-> "get", mode |-> s.mode, since |-> s.since, full |-> s.full,
   historyId |-> s.historyId, ids |-> ids, gone |-> gone,
   next |-> next, last |-> last]

IsNewest(picked, all) ==
  \A m \in picked, o \in all \ picked : m > o

\* messages.list: the newest visible messages below the token and inside the
\* window, and a token where to go on unless these are all.  after: is
\* second-granular, so the first day may be in or out.
ListMessages(r) ==
  LET s == source[r]
      inWindow(lo) == {m \in Msg : /\ box[m] = "visible"
                                   /\ ReceivedOn[m] >= lo
                                   /\ s.cursor = 0 \/ m < s.cursor}
      page(refs, backfill) ==
        Listed(s, refs, {}, [historyId |-> s.historyId, backfill |-> backfill], backfill = None)
  IN  /\ run[r].pc = "fetch" /\ s.stage = "list" /\ s.mode = "backfill"
      /\ \E lo \in {s.since, s.since + 1} : \E refs \in SUBSET inWindow(lo) :
           /\ Cardinality(refs) <= PageSize
           /\ IF refs = inWindow(lo) THEN Open(r, page(refs, None))
              ELSE /\ IsNewest(refs, inWindow(lo))
                   /\ Cardinality(refs) = PageSize
                   /\ \E token \in refs :
                        /\ \A o \in refs : token <= o
                        /\ Open(r, page(refs, [pageToken |-> token, since |-> s.since,
                                               fullResync |-> s.full]))
      /\ UNCHANGED <<engineVars, mailVars, horizon, rejected>>

\* planHistory: the last move of a message wins, a purge always wins.
Moved(records, m, kinds) ==
  \E i \in DOMAIN records :
    /\ records[i].msg = m /\ records[i].kind \in kinds
    /\ \A j \in i + 1..Len(records) : records[j].msg = m => records[j].kind = "purged"
Purged(records, m) ==
  \E i \in DOMAIN records : records[i].msg = m /\ records[i].kind = "purged"
ToFetch(records) ==
  {m \in Msg : Moved(records, m, {"added", "shown"}) /\ ~Purged(records, m)}
Deleted(records) ==
  {m \in Msg : Moved(records, m, {"hidden"}) \/ Purged(records, m)}

\* Mutant: every page of a history run carries the mailbox's own historyId.
EagerListHistory(r) ==
  LET s == source[r]
  IN  /\ run[r].pc = "fetch" /\ s.stage = "list" /\ s.mode = "history"
      /\ s.historyId >= oldest
      /\ \E n \in s.cursor..Len(history) :
           LET records == SubSeq(history, s.cursor + 1, n)
               last == n = Len(history)
           IN  /\ records = <<>> => last
               /\ Open(r, Listed(s, ToFetch(records), Deleted(records),
                                 [historyId |-> Len(history), backfill |-> None], last))
      /\ UNCHANGED <<engineVars, mailVars, horizon, rejected>>

\* history.list: a page of records; the cursor moves to the last record of
\* the page, and to the mailbox's historyId with the last one.
ListHistory(r) ==
  LET s == source[r]
  IN  /\ run[r].pc = "fetch" /\ s.stage = "list" /\ s.mode = "history"
      /\ s.historyId >= oldest
      /\ \E n \in s.cursor..Len(history) :
           LET records == SubSeq(history, s.cursor + 1, n)
               last == n = Len(history)
           IN  /\ records = <<>> => last
               /\ Open(r, Listed(s, ToFetch(records), Deleted(records),
                                 [historyId |-> n, backfill |-> None], last))
      /\ UNCHANGED <<engineVars, mailVars, horizon, rejected>>

\* history.list answers 404: a fresh backfill, declared a full resync.
HistoryGone(r) ==
  /\ run[r].pc = "fetch" /\ source[r].stage = "list" /\ source[r].mode = "history"
  /\ source[r].historyId < oldest
  /\ FreshBackfill(r, TRUE)
  /\ UNCHANGED <<engineVars, mailVars, rejected>>

\* Mutant: the declared scope starts with the second after: names.
WideScope(s) == {s.since}

\* resyncScope: the first full second the listing is sure to contain.
ResyncScope(s) == {s.since + 1}

\* fetchMessages, then the yield: what became hidden since it was listed is a
\* deletion; what is gone is one only on the history path.
GetMessages(r) ==
  LET s == source[r]
      visible == {m \in s.ids : box[m] = "visible"}
      hidden == {m \in s.ids : box[m] = "hidden"}
      missing == s.ids \ (visible \cup hidden)
      backfill == s.mode = "backfill"
  IN  /\ run[r].pc = "fetch" /\ s.stage = "get"
      /\ Engine!FetchPage(r,
           [upserts |-> visible,
            deletes |-> s.gone \cup hidden \cup (IF backfill THEN {} ELSE missing),
            checkpoint |-> s.next, done |-> s.last,
            full |-> backfill /\ s.full,
            scopes |-> IF backfill THEN ResyncScope(s) ELSE {}])
      /\ Open(r, IF s.last THEN Closed
                 ELSE Listing(s.mode, s.historyId,
                              IF backfill THEN s.next.backfill.pageToken
                              ELSE s.next.historyId,
                              s.since, s.full))
      /\ UNCHANGED <<mailVars, horizon, rejected>>

\* A stored page token is rejected (checkpoint_invalid): the engine restarts
\* the pass once, then fails it.
TokenRejected(r) ==
  /\ run[r].pc = "fetch" /\ source[r].stage = "list"
  /\ source[r].mode = "backfill" /\ source[r].cursor # 0
  /\ IF run[r].retried THEN Engine!FailWith(r, FALSE) ELSE Engine!Goto(r, "clear")
  /\ Open(r, Closed)
  /\ rejected' = TRUE
  /\ UNCHANGED <<account, credential, syncState, rows, clock, applied,
                 mailVars, horizon>>

\* Any other request fails.
RequestFails(r) ==
  /\ run[r].pc = "fetch"
  /\ Engine!FailWith(r, TRUE)
  /\ Open(r, Closed)
  /\ UNCHANGED <<account, credential, syncState, rows, clock, applied,
                 mailVars, horizon, rejected>>

\* A step of the engine; leaving the page loop abandons the generator.
EngineStep(r) ==
  /\ Engine!RunStep(r)
  /\ Open(r, IF run'[r].pc \in {"idle", "finish", "fail"} THEN Closed ELSE source[r])
  /\ UNCHANGED <<mailVars, horizon, rejected>>

Next ==
  \/ Mailbox
  \/ \E r \in Runner :
       \/ EngineStep(r) \/ Start(r) \/ ListMessages(r) \/ ListHistory(r)
       \/ HistoryGone(r) \/ GetMessages(r) \/ TokenRejected(r) \/ RequestFails(r)

Spec == Init /\ [][Next]_vars

-----------------------------------------------------------------------------
(***************************************************************************)
(* Properties.                                                             *)
(***************************************************************************)
TypeOK ==
  /\ Engine!TypeOK
  /\ box \in [Msg -> BoxState]
  /\ history \in Seq([msg : Msg, kind : Records])
  /\ oldest \in 0..Len(history)
  /\ today \in FirstDay..LastDay
  /\ horizon \in Day

\* The stored history id still has a record of m to replay, or is so old that
\* the next run will resync.
Pending(m) ==
  \/ syncState.checkpoint = None
  \/ syncState.checkpoint.historyId < oldest
  \/ \E i \in syncState.checkpoint.historyId + 1..Len(history) : history[i].msg = m

\* The stored backfill has not reached m yet.
StillToList(m) ==
  /\ syncState.checkpoint # None
  /\ syncState.checkpoint.backfill # None
  /\ m < syncState.checkpoint.backfill.pageToken

\* "A crash never loses data": at any instant, every message Gmail shows and
\* a listing window has covered is stored, or the stored checkpoint (all that
\* a killed run leaves behind) still leads to it.
NothingSkipped ==
  \A m \in Msg : box[m] = "visible" /\ ReceivedOn[m] >= horizon
    => rows[m] # 0 \/ Pending(m) \/ StillToList(m)

\* A full resync deletes only what Gmail no longer shows: a row that
\* deleteUntouched removes is hidden or purged, or was moved so recently that
\* the history still to be read brings it back.
Spares(r, u) ==
  Engine!ReconcileUnit(r, u) =>
    \A m \in Msg : rows[m] # 0 /\ rows'[m] = 0 => box[m] # "visible" \/ Pending(m)

\* As long as no page token has been rejected or the window has not moved.
SparesStep ==
  ~rejected \/ today = FirstDay => \A r \in Runner : \A u \in run[r].reconcile : Spares(r, u)

ReconcileSparesVisible == [][SparesStep]_vars

\* "Anything else of that unit is gone from the source, so delete it", always.
ResyncSparesVisible ==
  [][\A r \in Runner : \A u \in run[r].reconcile : Spares(r, u)]_vars

=============================================================================
