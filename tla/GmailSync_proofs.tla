-------------------------- MODULE GmailSync_proofs --------------------------
(***************************************************************************)
(* What is proved of GmailSync: its types, that it implements SyncEngine,  *)
(* and, for one run at a time, that no message Gmail shows is skipped and  *)
(* that a full resync takes none away.  The modules named E are the engine *)
(* at the mailbox; OneRun is the inductive invariant.                      *)
(***************************************************************************)
EXTENDS GmailSync, TLAPS, SequenceTheorems, WellFoundedInduction

\* The lemmas about the engine, of its instance here.
E == INSTANCE SyncEngine_proofs WITH
  Row <- Msg, Checkpoint <- GmailCheckpoint, Scope <- Day, Page <- GmailPage,
  UnitKey <- [d \in Day |-> "mail"],
  Covers <- [d \in Day |-> {m \in Msg : ReceivedOn[m] >= d}],
  RunningStale <- 0, BackoffBase <- 0, BackoffMax <- 0, FailureCap <- 1

\* What the engine asks of a source holds of this one.
LEMMA EngineAssumptions ==
  E!PageAssumption /\ E!NoneAssumption /\ E!ScopeAssumption /\ E!TimeAssumption
  <1>1. E!PageAssumption
    <2>1. GmailPage \subseteq E!PageShape
      BY MailAssumption DEF GmailPage, E!PageShape, Day
    <2>2. ASSUME NEW p \in GmailPage, NEW s \in p.scopes, NEW t \in p.scopes PROVE s = t
      BY DEF GmailPage
    <2>3. QED
      BY <2>1, <2>2 DEF E!PageAssumption
  <1>2. E!NoneAssumption
    BY MailAssumption DEF E!NoneAssumption
  <1>3. E!ScopeAssumption
    BY DEF E!ScopeAssumption
  <1>4. E!TimeAssumption
    BY MailAssumption DEF E!TimeAssumption
  <1>5. QED
    BY <1>1, <1>2, <1>3, <1>4

LEMMA SameInit == Engine!Init => E!Init
  BY DEF Engine!Init, E!Init, Engine!IdleRun, E!IdleRun

\* A step of the engine is one of the instance the lemmas are about.
LEMMA SameRunStep ==
  ASSUME NEW r \in Runner PROVE Engine!RunStep(r) = E!RunStep(r)
  <1> USE DEF Engine!IdleRun, E!IdleRun, Engine!At, E!At, Engine!Goto, E!Goto, Engine!Stop, E!Stop,
        Engine!FailWith, E!FailWith, Engine!Held, E!Held, Engine!Backoff, E!Backoff, Engine!Min2, E!Min2
  <1>1. \A force \in BOOLEAN : Engine!Begin(r, force) = E!Begin(r, force)
    BY DEF Engine!Begin, E!Begin
  <1>2. Engine!Skip(r) = E!Skip(r)
    BY DEF Engine!Skip, E!Skip
  <1>3. Engine!ReadState(r) = E!ReadState(r)
    BY DEF Engine!ReadState, E!ReadState
  <1>4. Engine!NoConnector(r) = E!NoConnector(r)
    BY DEF Engine!NoConnector, E!NoConnector
  <1>5. Engine!MarkRunning(r) = E!MarkRunning(r)
    BY DEF Engine!MarkRunning, E!MarkRunning
  <1>6. Engine!LoadCredential(r) = E!LoadCredential(r)
    BY DEF Engine!LoadCredential, E!LoadCredential
  <1>7. Engine!Refresh(r) = E!Refresh(r)
    BY DEF Engine!Refresh, E!Refresh
  <1>8. Engine!Declare(r) = E!Declare(r)
    BY DEF Engine!Declare, E!Declare
  <1>9. Engine!ApplyUpserts(r) = E!ApplyUpserts(r)
    BY DEF Engine!ApplyUpserts, E!ApplyUpserts
  <1>10. Engine!ApplyDeletes(r) = E!ApplyDeletes(r)
    BY DEF Engine!ApplyDeletes, E!ApplyDeletes
  <1>11. Engine!AdvanceCheckpoint(r) = E!AdvanceCheckpoint(r)
    BY DEF Engine!AdvanceCheckpoint, E!AdvanceCheckpoint, Engine!Advances, E!Advances
  <1>12. \A u : Engine!ReconcileUnit(r, u) = E!ReconcileUnit(r, u)
    BY DEF Engine!ReconcileUnit, E!ReconcileUnit, Engine!Untouched, E!Untouched
  <1>13. Engine!SettleReconcile(r) = E!SettleReconcile(r)
    BY DEF Engine!SettleReconcile, E!SettleReconcile
  <1>14. Engine!Finish(r) = E!Finish(r)
    BY DEF Engine!Finish, E!Finish
  <1>15. Engine!ClearCheckpoint(r) = E!ClearCheckpoint(r)
    BY DEF Engine!ClearCheckpoint, E!ClearCheckpoint
  <1>16. Engine!StoreError(r) = E!StoreError(r)
    BY DEF Engine!StoreError, E!StoreError, Engine!Advances, E!Advances
  <1>17. Engine!Park(r) = E!Park(r)
    BY DEF Engine!Park, E!Park
  <1>18. Engine!RecordFailure(r) = E!RecordFailure(r)
    BY DEF Engine!RecordFailure, E!RecordFailure
  <1>19. Engine!Crash(r) = E!Crash(r)
    BY DEF Engine!Crash, E!Crash
  <1> HIDE DEF Engine!IdleRun, E!IdleRun, Engine!At, E!At, Engine!Goto, E!Goto, Engine!Stop, E!Stop,
        Engine!FailWith, E!FailWith, Engine!Held, E!Held, Engine!Backoff, E!Backoff, Engine!Min2, E!Min2
  <1> QED
    BY <1>1, <1>2, <1>3, <1>4, <1>5, <1>6, <1>7, <1>8, <1>9, <1>10, <1>11, <1>12, <1>13, <1>14,
       <1>15, <1>16, <1>17, <1>18, <1>19
    DEF Engine!RunStep, E!RunStep

LEMMA SameFetchPage ==
  ASSUME NEW r \in Runner, NEW p PROVE Engine!FetchPage(r, p) = E!FetchPage(r, p)
  BY DEF Engine!FetchPage, E!FetchPage, Engine!At, E!At, Engine!DeclareResync, E!DeclareResync
LEMMA SameFailWith ==
  ASSUME NEW r \in Runner, NEW b PROVE Engine!FailWith(r, b) = E!FailWith(r, b)
  BY DEF Engine!FailWith, E!FailWith
LEMMA SameGoto ==
  ASSUME NEW r \in Runner, NEW l PROVE Engine!Goto(r, l) = E!Goto(r, l)
  BY DEF Engine!Goto, E!Goto
LEMMA SameReconcile ==
  ASSUME NEW r \in Runner, NEW u PROVE Engine!ReconcileUnit(r, u) = E!ReconcileUnit(r, u)
  BY DEF Engine!ReconcileUnit, E!ReconcileUnit, Engine!Untouched, E!Untouched, Engine!At, E!At

-----------------------------------------------------------------------------
(***************************************************************************)
(* What the variables of the source hold, for any number of runs.          *)
(***************************************************************************)
ListState ==
  [stage : {"list"}, mode : {"backfill", "history"}, historyId : Nat, cursor : Nat,
   since : 0..LastDay, full : BOOLEAN]
GetState ==
  [stage : {"get"}, mode : {"backfill", "history"}, since : 0..LastDay, full : BOOLEAN,
   historyId : Nat, ids : SUBSET Msg, gone : SUBSET Msg, next : GmailCheckpoint,
   last : BOOLEAN]

\* Where a generator may be.
SourceState ==
  {Closed}
    \cup {s \in ListState : /\ s.historyId <= MaxLog
                            /\ s.mode = "history" => s.cursor <= MaxLog
                            /\ s.mode = "backfill" => s.cursor \in Msg \cup {0}}
    \cup {s \in GetState : /\ s.historyId <= MaxLog
                           /\ s.mode = "backfill" /\ ~s.last => s.next.backfill # None
                           /\ s.last => s.next.backfill = None}

MailOK ==
  /\ box \in [Msg -> BoxState]
  /\ history \in Seq([msg : Msg, kind : Records])
  /\ Len(history) <= MaxLog
  /\ oldest \in 0..Len(history)
  /\ today \in FirstDay..LastDay
  /\ horizon \in Day
  /\ rejected \in BOOLEAN

SourcesOK == source \in [Runner -> SourceState]

LEMMA InitOK == Init => E!IInv /\ MailOK /\ SourcesOK
  <1> SUFFICES ASSUME Init PROVE E!IInv /\ MailOK /\ SourcesOK
    OBVIOUS
  <1>1. E!IInv
    BY EngineAssumptions, SameInit, E!InitIInv DEF Init
  <1>2. MailOK
    <2>1. history = <<>> /\ Len(history) = 0
      BY DEF Init
    <2>2. history \in Seq([msg : Msg, kind : Records])
      BY <2>1
    <2>3. /\ box \in [Msg -> BoxState] /\ oldest = 0 /\ today = FirstDay
          /\ horizon = 0 /\ rejected = FALSE
      BY MailAssumption DEF Init
    <2>4. /\ Len(history) = 0 /\ 0 <= MaxLog /\ 0 \in 0..0 /\ FirstDay \in FirstDay..LastDay
          /\ 0 \in Day
      BY <2>1, MailAssumption DEF Day
    <2>5. QED
      BY <2>2, <2>3, <2>4 DEF MailOK
  <1>3. SourcesOK
    BY DEF Init, SourcesOK, SourceState
  <1> QED
    BY <1>1, <1>2, <1>3

\* A page of what s has listed.
LEMMA PageOfSource ==
  ASSUME MailOK, NEW s \in GetState, NEW b \in BOOLEAN, NEW ups \in SUBSET s.ids,
         NEW dels \in SUBSET (s.gone \cup s.ids)
  PROVE  [upserts |-> ups, deletes |-> dels, checkpoint |-> s.next, done |-> s.last,
          full |-> b /\ s.full, scopes |-> IF b THEN ResyncScope(s) ELSE {}] \in GmailPage
  <1>1. ResyncScope(s) \in {{d} : d \in Day}
    BY MailAssumption DEF ResyncScope, GetState, Day
  <1>2. (b /\ s.full) \in BOOLEAN /\ s.next \in GmailCheckpoint /\ s.last \in BOOLEAN
    BY DEF GetState
  <1>3. ups \in SUBSET Msg /\ dels \in SUBSET Msg
    BY DEF GetState
  <1>4. (IF b THEN ResyncScope(s) ELSE {}) \in {{}} \cup {{d} : d \in Day}
    BY <1>1
  <1> HIDE DEF ResyncScope
  <1> QED
    BY <1>2, <1>3, <1>4 DEF GmailPage

\* Each step of the source is one that the engine allows its sources.
LEMMA StepRefines ==
  ASSUME MailOK, SourcesOK, [Next]_vars
  PROVE  [E!Next]_E!vars
  <1>1. CASE UNCHANGED vars \/ Mailbox
    BY <1>1 DEF vars, engineVars, Mailbox, E!vars
  <1>2. ASSUME NEW r \in Runner, EngineStep(r) PROVE E!Next
    BY <1>2, SameRunStep DEF EngineStep, E!Next
  <1>3. ASSUME NEW r \in Runner, Start(r) \/ ListMessages(r) \/ ListHistory(r) \/ HistoryGone(r)
        PROVE  UNCHANGED E!vars
    BY <1>3 DEF Start, ListMessages, ListHistory, HistoryGone, engineVars, E!vars
  <1>4. ASSUME NEW r \in Runner, GetMessages(r) PROVE E!Next
    <2> DEFINE s == source[r]
               visible == {m \in s.ids : box[m] = "visible"}
               hidden == {m \in s.ids : box[m] = "hidden"}
               missing == s.ids \ (visible \cup hidden)
               backfill == s.mode = "backfill"
               dels == s.gone \cup hidden \cup (IF backfill THEN {} ELSE missing)
               p == [upserts |-> visible, deletes |-> dels, checkpoint |-> s.next, done |-> s.last,
                     full |-> backfill /\ s.full, scopes |-> IF backfill THEN ResyncScope(s) ELSE {}]
    <2>1. s.stage = "get" /\ Engine!FetchPage(r, p)
      BY <1>4 DEF GetMessages
    <2>2. s \in GetState
      BY <2>1 DEF SourcesOK, SourceState, Closed, ListState
    <2>3. visible \in SUBSET s.ids /\ dels \in SUBSET (s.gone \cup s.ids) /\ backfill \in BOOLEAN
      OBVIOUS
    <2> HIDE DEF visible, hidden, missing, dels, s
    <2>4. p \in GmailPage
      BY <2>2, <2>3, PageOfSource
    <2> HIDE DEF p
    <2>5. E!FetchPage(r, p)
      BY <2>1, SameFetchPage
    <2>6. QED
      BY <2>4, <2>5 DEF E!Next, E!SourceStep
  <1>5. ASSUME NEW r \in Runner, TokenRejected(r) \/ RequestFails(r) PROVE E!Next
    <2>1. \/ Engine!FailWith(r, TRUE) \/ Engine!FailWith(r, FALSE)
          \/ (~run[r].retried /\ Engine!Goto(r, "clear"))
      BY <1>5 DEF TokenRejected, RequestFails
    <2>2. \/ E!FailWith(r, TRUE) \/ E!FailWith(r, FALSE) \/ (~run[r].retried /\ E!Goto(r, "clear"))
      BY <2>1, SameFailWith, SameGoto
    <2>3. E!SourceError(r)
      BY <1>5, <2>2 DEF TokenRejected, RequestFails, E!SourceError, E!At
    <2>4. QED
      BY <2>3 DEF E!Next, E!SourceStep
  <1>6. QED
    BY <1>1, <1>2, <1>3, <1>4, <1>5 DEF Next

\* A change of the mailbox.
LEMMA MailboxOK ==
  ASSUME MailOK, Mailbox
  PROVE  /\ MailOK' /\ oldest <= oldest' /\ today <= today'
         /\ Len(history) <= Len(history)'
         /\ \A i \in 1..Len(history) : history'[i] = history[i]
         /\ horizon' = horizon /\ rejected' = rejected
  <1>0. /\ history \in Seq([msg : Msg, kind : Records]) /\ Len(history) \in Nat /\ MaxLog \in Nat
        /\ oldest \in Nat /\ oldest <= Len(history) /\ today \in FirstDay..LastDay
        /\ box \in [Msg -> BoxState]
        /\ UNCHANGED <<horizon, rejected>>
    BY MailAssumption DEF MailOK, Mailbox
  <1>1. ASSUME NEW m \in Msg, NEW kind \in Records, NEW state \in BoxState, Change(m, kind, state)
        PROVE  /\ box' \in [Msg -> BoxState] /\ oldest' = oldest /\ today' = today
               /\ history' \in Seq([msg : Msg, kind : Records]) /\ Len(history') = Len(history) + 1
               /\ Len(history') <= MaxLog
               /\ \A i \in 1..Len(history) : history'[i] = history[i]
    <2>1. [msg |-> m, kind |-> kind] \in [msg : Msg, kind : Records]
      OBVIOUS
    <2> DEFINE e == [msg |-> m, kind |-> kind]
    <2>2. history' = Append(history, e) /\ box' = [box EXCEPT ![m] = state]
          /\ Len(history) < MaxLog /\ UNCHANGED <<oldest, today>>
      BY <1>1 DEF Change
    <2> HIDE DEF e
    <2>3. QED
      BY <1>0, <2>1, <2>2 DEF e
  <1>2. CASE \E m \in Msg : Arrive(m) \/ Hide(m) \/ Show(m) \/ Purge(m)
    <2>1. PICK m \in Msg, kind \in Records, state \in BoxState : Change(m, kind, state)
      BY <1>2 DEF Arrive, Hide, Show, Purge, Records, BoxState
    <2>2. /\ box' \in [Msg -> BoxState] /\ oldest' = oldest /\ today' = today
          /\ history' \in Seq([msg : Msg, kind : Records]) /\ Len(history') = Len(history) + 1
          /\ Len(history') <= MaxLog
          /\ \A i \in 1..Len(history) : history'[i] = history[i]
      BY <1>1, <2>1
    <2>3. oldest' \in 0..Len(history') /\ Len(history) <= Len(history')
      BY <1>0, <2>2
    <2>4. QED
      BY <1>0, <2>2, <2>3 DEF MailOK
  <1>3. CASE ForgetHistory
    BY <1>0, <1>3, MailAssumption DEF ForgetHistory, MailOK
  <1>4. CASE NextDay
    BY <1>0, <1>4, MailAssumption DEF NextDay, MailOK
  <1>5. QED
    BY <1>2, <1>3, <1>4 DEF Mailbox

\* What a step leaves as it is of the mailbox, and what it may only add to.
LEMMA MailStep ==
  ASSUME MailOK, [Next]_vars
  PROVE  /\ MailOK' /\ oldest <= oldest' /\ today <= today'
         /\ Len(history) <= Len(history)'
         /\ \A i \in 1..Len(history) : history'[i] = history[i]
         /\ rejected => rejected'
  <1>0. /\ oldest \in Nat /\ today \in Nat /\ Len(history) \in Nat /\ Window \in Nat
        /\ today <= LastDay /\ LastDay \in Nat
    BY MailAssumption DEF MailOK
  <1>1. CASE Mailbox
    BY <1>1, MailboxOK
  <1>2. ASSUME UNCHANGED mailVars,
               horizon' = horizon \/ horizon' = SinceOf(today) + 1,
               rejected' = rejected \/ rejected' = TRUE
        PROVE  /\ MailOK' /\ oldest <= oldest' /\ today <= today'
               /\ Len(history) <= Len(history)'
               /\ \A i \in 1..Len(history) : history'[i] = history[i]
               /\ rejected => rejected'
    <2>1. SinceOf(today) + 1 \in Day
      BY <1>0 DEF SinceOf, Day
    <2>2. horizon' \in Day /\ rejected' \in BOOLEAN
      BY <1>2, <2>1 DEF MailOK
    <2>3. QED
      BY <1>0, <1>2, <2>2 DEF MailOK, mailVars
  <1>3. CASE UNCHANGED vars
    BY <1>2, <1>3 DEF vars
  <1>4. ASSUME NEW r \in Runner,
               \/ EngineStep(r) \/ Start(r) \/ ListMessages(r) \/ ListHistory(r)
               \/ HistoryGone(r) \/ GetMessages(r) \/ TokenRejected(r) \/ RequestFails(r)
        PROVE  /\ UNCHANGED mailVars
               /\ horizon' = horizon \/ horizon' = SinceOf(today) + 1
               /\ rejected' = rejected \/ rejected' = TRUE
    <2>1. CASE EngineStep(r) \/ ListMessages(r) \/ ListHistory(r) \/ GetMessages(r)
               \/ TokenRejected(r) \/ RequestFails(r)
      BY <2>1 DEF EngineStep, ListMessages, ListHistory, GetMessages, TokenRejected, RequestFails, mailVars
    <2>2. CASE Start(r) \/ HistoryGone(r)
      BY <2>2 DEF Start, HistoryGone, FreshBackfill, mailVars
    <2>3. QED
      BY <1>4, <2>1, <2>2
  <1>5. QED
    BY <1>1, <1>2, <1>3, <1>4 DEF Next

LEMMA ListingTyped ==
  ASSUME MailOK, NEW mode \in {"backfill", "history"}, NEW historyId \in Nat,
         NEW cursor \in Nat, NEW since \in 0..LastDay, NEW full \in BOOLEAN
  PROVE  Listing(mode, historyId, cursor, since, full) \in ListState
  BY DEF Listing, ListState

LEMMA SinceTyped == ASSUME MailOK PROVE SinceOf(today) \in 0..LastDay
  BY MailAssumption DEF MailOK, SinceOf

\* A new listing from the top.
LEMMA FreshTyped ==
  ASSUME MailOK, NEW full \in BOOLEAN
  PROVE  Listing("backfill", Len(history), 0, SinceOf(today), full) \in SourceState
  <1>1. Len(history) \in Nat /\ Len(history) <= MaxLog
    BY DEF MailOK
  <1>2. Listing("backfill", Len(history), 0, SinceOf(today), full) \in ListState
    BY <1>1, SinceTyped, ListingTyped
  <1>3. QED
    BY <1>1, <1>2, MailAssumption DEF SourceState, Listing, MailOK

\* The checkpoints a run has read.
LEMMA CheckpointTyped ==
  ASSUME E!IInv, NEW r \in Runner
  PROVE  /\ run[r].startedFrom \in GmailCheckpoint \cup {None}
         /\ syncState.checkpoint \in GmailCheckpoint \cup {None}
  BY EngineAssumptions DEF E!IInv, E!GlobalOK, E!SyncStateRow, E!RunState

\* A generator that is to list, and one that has listed.
LEMMA PlaceTyped ==
  ASSUME NEW s \in SourceState
  PROVE  /\ s.stage = "list" =>
              /\ s \in ListState /\ s.historyId <= MaxLog
              /\ s.mode = "backfill" => s.cursor \in Msg \cup {0}
              /\ s.mode = "history" => s.cursor <= MaxLog
         /\ s.stage = "get" =>
              /\ s \in GetState /\ s.historyId <= MaxLog
              /\ s.mode = "backfill" /\ ~s.last => s.next.backfill # None
              /\ s.last => s.next.backfill = None
  <1> DEFINE listing == /\ s \in ListState /\ s.historyId <= MaxLog
                        /\ s.mode = "backfill" => s.cursor \in Msg \cup {0}
                        /\ s.mode = "history" => s.cursor <= MaxLog
             getting == /\ s \in GetState /\ s.historyId <= MaxLog
                        /\ s.mode = "backfill" /\ ~s.last => s.next.backfill # None
                        /\ s.last => s.next.backfill = None
  <1>1. s = Closed \/ listing \/ getting
    BY DEF SourceState
  <1>2. s = Closed => s.stage = "closed"
    BY DEF Closed
  <1>3. listing => s.stage = "list"
    BY DEF ListState
  <1>4. getting => s.stage = "get"
    BY DEF GetState
  <1>5. (s.stage = "list" => listing) /\ (s.stage = "get" => getting)
    <2> HIDE DEF listing, getting
    <2> QED
      BY <1>1, <1>2, <1>3, <1>4
  <1>6. QED
    BY <1>5

\* A step of a source leaves it at a place it may be.
LEMMA SourceStep ==
  ASSUME E!IInv, MailOK, SourcesOK, NEW r \in Runner,
         \/ EngineStep(r) \/ Start(r) \/ ListMessages(r) \/ ListHistory(r)
         \/ HistoryGone(r) \/ GetMessages(r) \/ TokenRejected(r) \/ RequestFails(r)
  PROVE  \E s \in SourceState : Open(r, s)
  <1>0. /\ source[r] \in SourceState /\ Closed \in SourceState
        /\ Len(history) \in Nat /\ Len(history) <= MaxLog /\ MaxLog \in Nat
    BY MailAssumption DEF SourcesOK, SourceState, MailOK
  <1>1. CASE EngineStep(r)
    BY <1>0, <1>1 DEF EngineStep
  <1>2. CASE TokenRejected(r) \/ RequestFails(r)
    BY <1>0, <1>2 DEF TokenRejected, RequestFails
  <1>3. CASE HistoryGone(r)
    BY <1>3, FreshTyped DEF HistoryGone, FreshBackfill
  <1>4. CASE Start(r)
    <2> DEFINE cp == run[r].startedFrom
    <2>1. cp \in GmailCheckpoint \cup {None}
      BY CheckpointTyped
    <2>2. CASE cp = None
      BY <1>4, <2>2, FreshTyped DEF Start, FreshBackfill
    <2>3. CASE cp # None /\ cp.backfill = None
      <3>1. cp.historyId \in Nat /\ cp.historyId <= MaxLog
        BY <2>1, <2>3, MailAssumption DEF GmailCheckpoint
      <3>2. Listing("history", cp.historyId, cp.historyId, 0, FALSE) \in ListState
        BY <3>1, MailAssumption DEF Listing, ListState
      <3>3. Listing("history", cp.historyId, cp.historyId, 0, FALSE) \in SourceState
        BY <3>1, <3>2 DEF SourceState, Listing
      <3>4. QED
        BY <1>4, <2>3, <3>3 DEF Start
    <2>4. CASE cp # None /\ cp.backfill # None
      <3>1. cp.historyId \in Nat /\ cp.historyId <= MaxLog /\ cp.backfill \in Backfill
        BY <2>1, <2>4, MailAssumption DEF GmailCheckpoint
      <3>2. /\ cp.backfill.pageToken \in Msg /\ cp.backfill.pageToken \in Nat
            /\ cp.backfill.since \in 0..LastDay /\ cp.backfill.fullResync \in BOOLEAN
        <4>1. /\ cp.backfill.pageToken \in Msg
              /\ cp.backfill.since \in 0..LastDay /\ cp.backfill.fullResync \in BOOLEAN
          BY <3>1 DEF Backfill
        <4>2. QED
          BY <4>1, MailAssumption
      <3>3. Listing("backfill", cp.historyId, cp.backfill.pageToken, cp.backfill.since,
                    cp.backfill.fullResync) \in ListState
        BY <3>1, <3>2 DEF Listing, ListState
      <3>4. Listing("backfill", cp.historyId, cp.backfill.pageToken, cp.backfill.since,
                    cp.backfill.fullResync) \in SourceState
        BY <3>1, <3>2, <3>3 DEF SourceState, Listing
      <3>5. QED
        BY <1>4, <2>4, <3>4 DEF Start
    <2>5. QED
      BY <2>2, <2>3, <2>4
  <1>5. CASE ListMessages(r)
    <2> DEFINE s == source[r]
    <2>1. s \in ListState /\ s.historyId \in Nat /\ s.historyId <= MaxLog /\ s.since \in 0..LastDay
          /\ s.full \in BOOLEAN /\ s.mode = "backfill"
      <3>1. s.stage = "list" /\ s.mode = "backfill"
        BY <1>5 DEF ListMessages
      <3>2. s \in ListState /\ s.historyId <= MaxLog
        BY <1>0, <3>1, PlaceTyped
      <3>3. QED
        BY <3>1, <3>2 DEF ListState
    <2>2. ASSUME NEW refs \in SUBSET Msg, NEW b \in Backfill \cup {None}
          PROVE  Listed(s, refs, {}, [historyId |-> s.historyId, backfill |-> b], b = None) \in SourceState
      <3>1. [historyId |-> s.historyId, backfill |-> b] \in GmailCheckpoint
        BY <2>1, <2>2, MailAssumption DEF GmailCheckpoint
      <3>2. Listed(s, refs, {}, [historyId |-> s.historyId, backfill |-> b], b = None) \in GetState
        BY <2>1, <2>2, <3>1 DEF GetState, Listed
      <3>3. QED
        BY <2>1, <3>2 DEF SourceState, Listed
    <2>3. PICK refs \in SUBSET Msg, b \in Backfill \cup {None} :
            Open(r, Listed(s, refs, {}, [historyId |-> s.historyId, backfill |-> b], b = None))
      <3>1. PICK lo \in {s.since, s.since + 1} :
              \E refs \in SUBSET {m \in Msg : /\ box[m] = "visible"
                                              /\ ReceivedOn[m] >= lo
                                              /\ s.cursor = 0 \/ m < s.cursor} :
                \/ Open(r, Listed(s, refs, {}, [historyId |-> s.historyId, backfill |-> None], None = None))
                \/ \E token \in refs :
                     LET b == [pageToken |-> token, since |-> s.since, fullResync |-> s.full]
                     IN  Open(r, Listed(s, refs, {}, [historyId |-> s.historyId, backfill |-> b], b = None))
        BY <1>5 DEF ListMessages
      <3>2. PICK refs \in SUBSET Msg :
                \/ Open(r, Listed(s, refs, {}, [historyId |-> s.historyId, backfill |-> None], None = None))
                \/ \E token \in refs :
                     LET b == [pageToken |-> token, since |-> s.since, fullResync |-> s.full]
                     IN  Open(r, Listed(s, refs, {}, [historyId |-> s.historyId, backfill |-> b], b = None))
        BY <3>1
      <3>3. \A token \in refs : [pageToken |-> token, since |-> s.since, fullResync |-> s.full] \in Backfill
        BY <2>1 DEF Backfill
      <3>4. QED
        BY <3>2, <3>3
    <2>4. QED
      BY <2>2, <2>3
  <1>6. CASE ListHistory(r)
    <2> DEFINE s == source[r]
    <2>1. s \in ListState /\ s.historyId \in Nat /\ s.historyId <= MaxLog /\ s.cursor \in Nat
          /\ s.mode = "history"
      <3>1. s.stage = "list" /\ s.mode = "history"
        BY <1>6 DEF ListHistory
      <3>2. s \in ListState /\ s.historyId <= MaxLog
        BY <1>0, <3>1, PlaceTyped
      <3>3. QED
        BY <3>1, <3>2 DEF ListState
    <2>2. PICK n \in s.cursor..Len(history) :
            LET records == SubSeq(history, s.cursor + 1, n)
            IN  Open(r, Listed(s, ToFetch(records), Deleted(records),
                               [historyId |-> n, backfill |-> None], n = Len(history)))
      BY <1>6 DEF ListHistory
    <2> DEFINE records == SubSeq(history, s.cursor + 1, n)
               t == Listed(s, ToFetch(records), Deleted(records),
                           [historyId |-> n, backfill |-> None], n = Len(history))
    <2>3. ToFetch(records) \in SUBSET Msg /\ Deleted(records) \in SUBSET Msg
      BY DEF ToFetch, Deleted
    <2> HIDE DEF records
    <2>4. [historyId |-> n, backfill |-> None] \in GmailCheckpoint
      BY <1>0, <2>1, <2>2 DEF GmailCheckpoint
    <2>5. t \in GetState
      BY <2>1, <2>3, <2>4 DEF GetState, Listed, ListState
    <2>6. t \in SourceState
      BY <2>1, <2>5 DEF SourceState, Listed
    <2>7. Open(r, t)
      BY <2>2 DEF records
    <2>8. QED
      BY <2>6, <2>7
  <1>7. CASE GetMessages(r)
    <2> DEFINE s == source[r]
               cursor == IF s.mode = "backfill" THEN s.next.backfill.pageToken ELSE s.next.historyId
    <2>1. s \in GetState /\ s.historyId <= MaxLog
          /\ (s.mode = "backfill" /\ ~s.last => s.next.backfill # None)
      <3>1. s.stage = "get"
        BY <1>7 DEF GetMessages
      <3>2. QED
        BY <1>0, <3>1, PlaceTyped
    <2>2. Open(r, IF s.last THEN Closed ELSE Listing(s.mode, s.historyId, cursor, s.since, s.full))
      BY <1>7 DEF GetMessages
    <2>3. ASSUME ~s.last PROVE Listing(s.mode, s.historyId, cursor, s.since, s.full) \in SourceState
      <3>1. /\ s.historyId \in Nat /\ s.since \in 0..LastDay /\ s.full \in BOOLEAN
            /\ s.mode \in {"backfill", "history"} /\ s.next \in GmailCheckpoint
        BY <2>1 DEF GetState
      <3>2. s.mode = "backfill" => s.next.backfill.pageToken \in Msg
        BY <2>1, <2>3, <3>1 DEF GmailCheckpoint, Backfill
      <3>3. s.next.historyId \in Nat /\ s.next.historyId <= MaxLog
        BY <3>1, MailAssumption DEF GmailCheckpoint
      <3>4. /\ cursor \in Nat
            /\ s.mode = "history" => cursor <= MaxLog
            /\ s.mode = "backfill" => cursor \in Msg
        BY <3>1, <3>2, <3>3, MailAssumption
      <3> HIDE DEF cursor
      <3>5. Listing(s.mode, s.historyId, cursor, s.since, s.full) \in ListState
        BY <3>1, <3>4 DEF Listing, ListState
      <3>6. QED
        BY <2>1, <3>4, <3>5 DEF SourceState, Listing
    <2>4. QED
      BY <1>0, <2>2, <2>3
  <1>8. QED
    BY <1>1, <1>2, <1>3, <1>4, <1>5, <1>6, <1>7

LEMMA SourcesStep ==
  ASSUME E!IInv, MailOK, SourcesOK, [Next]_vars
  PROVE  SourcesOK'
  <1>1. CASE Mailbox \/ UNCHANGED vars
    BY <1>1 DEF Mailbox, vars, SourcesOK
  <1>2. ASSUME NEW r \in Runner, NEW s \in SourceState, Open(r, s) PROVE SourcesOK'
    BY <1>2 DEF Open, SourcesOK
  <1>3. QED
    BY <1>1, <1>2, SourceStep DEF Next

-----------------------------------------------------------------------------
\* The Gmail source under the engine is one of the sources the engine allows, and
\* every value of the columns and the locals stays typed, for any number of
\* overlapping runs.
LEMMA TypesInvariant == Spec => [](E!IInv /\ MailOK /\ SourcesOK)
  <1>1. E!IInv /\ MailOK /\ SourcesOK /\ [Next]_vars => (E!IInv /\ MailOK /\ SourcesOK)'
    <2> SUFFICES ASSUME E!IInv, MailOK, SourcesOK, [Next]_vars
                 PROVE  (E!IInv /\ MailOK /\ SourcesOK)'
      OBVIOUS
    <2>1. E!IInv'
      BY StepRefines, EngineAssumptions, E!NextIInv
    <2>2. QED
      BY <2>1, MailStep, SourcesStep
  <1>2. QED
    BY InitOK, <1>1, PTL DEF Spec

\* The Gmail source is one of those the engine allows: what is said of the engine
\* with any source holds of the engine with this one, however many runs overlap.
THEOREM RefinesEngine == Spec => Engine!Spec
  <1>1. Init => Engine!Init
    BY DEF Init
  <1>2. MailOK /\ SourcesOK /\ [Next]_vars =>
          [Engine!Next]_<<account, credential, syncState, rows, clock, run, applied>>
    <2> SUFFICES ASSUME MailOK, SourcesOK, [Next]_vars
                 PROVE  [Engine!Next]_<<account, credential, syncState, rows, clock, run, applied>>
      OBVIOUS
    <2>1. [E!Next]_E!vars
      BY StepRefines
    <2>2. ASSUME NEW r \in Runner PROVE E!SourceStep(r) = Engine!SourceStep(r)
      BY SameFetchPage DEF E!SourceStep, Engine!SourceStep, E!SourceError, Engine!SourceError,
         E!At, Engine!At, E!Goto, Engine!Goto, E!FailWith, Engine!FailWith
    <2>3. E!Next => Engine!Next
      BY <2>2, SameRunStep DEF E!Next, Engine!Next, E!Tick, Engine!Tick,
         E!ExpireCredential, Engine!ExpireCredential
    <2>4. QED
      BY <2>1, <2>3 DEF E!vars
  <1>3. QED
    BY <1>1, <1>2, TypesInvariant, PTL DEF Spec, Engine!Spec, Engine!vars

-----------------------------------------------------------------------------
(***************************************************************************)
(* One run at a time.                                                      *)
(***************************************************************************)
\* The box is what the history says: a visible message was last added or
\* shown, a purged one is gone for good.
BoxFollows ==
  \A i \in 1..Len(history) :
    /\ history[i].kind = "purged" => box[history[i].msg] = "purged"
    /\ /\ box[history[i].msg] = "visible"
       /\ \A j \in i + 1..Len(history) : history[j].msg # history[i].msg
       => history[i].kind \in {"added", "shown"}

\* A run that starts from checkpoint c comes across the message m.
Leads(c, m) ==
  \/ c = None
  \/ c.historyId < oldest
  \/ \E i \in c.historyId + 1..Len(history) : history[i].msg = m
  \/ c.backfill # None /\ m < c.backfill.pageToken

\* No token was rejected, or the window has not moved.
Steady == ~rejected \/ today = FirstDay

\* The message m is stored, and no unit of Q takes it away.
Kept(m, Q) ==
  /\ ReceivedOn[m] >= horizon => rows[m] # 0
  /\ \A u \in Q : ReceivedOn[m] >= u.scope /\ (Steady \/ ReceivedOn[m] >= horizon)
       => rows[m] >= u.since

Visible(m) == box[m] = "visible"

\* What is visible is stored, or the stored checkpoint leads to it.
Stored == \A m \in Msg : Visible(m) =>
            Kept(m, syncState.reconcile) \/ Leads(syncState.checkpoint, m)

\* The windows of listings and units that a checkpoint c goes with.
InWindow(since) ==
  horizon = since + 1 /\ (today = FirstDay => since = SinceOf(FirstDay))
UnitsFit(c, Q) ==
  /\ today = FirstDay => \A u \in Q : u.scope = SinceOf(FirstDay) + 1
  /\ c # None /\ c.backfill # None =>
       /\ InWindow(c.backfill.since)
       /\ Steady => \A u \in Q : u.scope = c.backfill.since + 1
       /\ c.backfill.fullResync => \E u \in Q : u.scope = c.backfill.since + 1
  /\ c = None /\ ~rejected => Q = {}
  /\ c # None => c.historyId <= Len(history)

\* The history is forgotten past c: only a full resync can follow.
Stale(c) == c # None /\ c.backfill = None /\ c.historyId < oldest

\* A listing that begins, for a run that has b as startedFrom.
Fresh(s, c, b) ==
  /\ s.mode = "backfill"
  /\ \/ c = None /\ b = None /\ ~s.full
     \/ Stale(c) /\ b # None /\ b.historyId < s.historyId /\ s.full

\* The listing of s goes on from the token t, which b had or has passed.
Beyond(s, t, b) ==
  \/ b = None
  \/ b.historyId < s.historyId
  \/ b.historyId = s.historyId /\ b.backfill # None /\ t <= b.backfill.pageToken

HistoryPlace(s, c, b) ==
  /\ s.mode = "history"
  /\ c # None /\ c.backfill = None
  /\ b = [historyId |-> s.historyId, backfill |-> None]
  /\ s.historyId <= c.historyId
  /\ c.historyId = s.historyId \/ c.historyId < Len(history)
  /\ oldest <= s.historyId \/ oldest > c.historyId

Declared(s, R) == R.retried => \E u \in R.reconcile : u.scope = s.since + 1

\* The generator waits at s, after a page with checkpoint c.
ListOK(s, c, R) ==
  /\ s \in ListState
  /\ s.historyId <= Len(history)
  /\ s.mode = "backfill" => InWindow(s.since)
  /\ \/ s.cursor = 0 /\ Fresh(s, c, R.startedFrom)
     \/ /\ s.mode = "backfill" /\ s.cursor # 0
        /\ c = [historyId |-> s.historyId,
                backfill |-> [pageToken |-> s.cursor, since |-> s.since, fullResync |-> s.full]]
        /\ Beyond(s, s.cursor, R.startedFrom)
        /\ Declared(s, R)
     \/ /\ HistoryPlace(s, c, R.startedFrom)
        /\ c.historyId = s.cursor

\* The pending units once the page that s has listed is yielded.
Planned(s, R) ==
  IF (s.mode = "backfill" /\ s.full) \/ R.retried
  THEN Engine!DeclareResync(R.reconcile, IF s.mode = "backfill" THEN {s.since + 1} ELSE {}, R.since)
  ELSE R.reconcile

GetOK(s, c, R) ==
  /\ s \in GetState
  /\ s.historyId <= Len(history)
  /\ s.next.historyId <= Len(history)
  /\ s.last => s.next.backfill = None
  /\ \A m \in s.gone : Visible(m) => Leads(s.next, m)
  /\ \A m \in Msg : Visible(m) => m \in s.ids \/ Leads(s.next, m) \/ Kept(m, Planned(s, R))
  /\ \/ /\ HistoryPlace(s, c, R.startedFrom)
        /\ s.next.backfill = None
        /\ c.historyId <= s.next.historyId
        /\ ~s.last => HistoryPlace(s, s.next, R.startedFrom)
     \/ /\ s.mode = "backfill"
        /\ InWindow(s.since)
        /\ s.next.historyId = s.historyId
        /\ ~s.last => /\ s.next.backfill # None
                      /\ s.next.backfill.since = s.since
                      /\ s.next.backfill.fullResync = s.full
        /\ \/ Fresh(s, c, R.startedFrom)
           \/ /\ c # None /\ c.backfill # None
              /\ c.historyId = s.historyId
              /\ c.backfill.since = s.since /\ c.backfill.fullResync = s.full
              /\ ~s.last => s.next.backfill.pageToken < c.backfill.pageToken
              /\ Beyond(s, c.backfill.pageToken, R.startedFrom)
              /\ Declared(s, R)

\* c comes before d: what d leads to, c leads to.
Before(c, d) ==
  \/ c = None
  \/ c.historyId < oldest
  \/ /\ c.historyId <= d.historyId
     /\ d.backfill # None => c.backfill # None /\ d.backfill.pageToken <= c.backfill.pageToken

\* A page P that the run R holds, with the generator waiting at s.
PageOK(P, s, c, R) ==
  /\ P \in GmailPage
  /\ P.checkpoint.historyId <= Len(history)
  /\ Before(c, P.checkpoint)
  /\ P.checkpoint = R.startedFrom => c = R.startedFrom
  /\ \A m \in P.deletes : Visible(m) => Leads(P.checkpoint, m)
  /\ \A m \in Msg : Visible(m) =>
       \/ Kept(m, R.reconcile)
       \/ Leads(P.checkpoint, m)
       \/ R.pc \in {"declare", "upsert"} /\ m \in P.upserts
  /\ UnitsFit(P.checkpoint, R.reconcile)
  /\ R.pc = "declare" => (c = None /\ rejected) \/ Stale(c)
  /\ P.done => P.checkpoint.backfill = None /\ s = Closed
  /\ ~P.done => ListOK(s, P.checkpoint, R)

\* What a run's place says of its locals and of its source.
RunAt(r) ==
  LET R == run[r]
      c == syncState.checkpoint
      s == source[r]
  IN  /\ R.retried => rejected /\ R.startedFrom = None
      /\ R.pc \in {"idle", "read"} => ~R.retried
      /\ R.pc = "clear" => rejected
      /\ R.pc \in {"mark", "credential", "refresh"} => R.startedFrom = c
      /\ R.pc \in {"credential", "refresh", "clear", "fetch", "declare", "upsert", "delete", "advance"}
           => clock > 0
      /\ R.pc \notin {"fetch", "declare", "upsert", "delete", "advance"} => s = Closed
      /\ R.pc = "fetch" =>
           \/ s = Closed /\ R.startedFrom = c
           \/ ListOK(s, c, R) \/ GetOK(s, c, R)
      /\ R.pc \in {"declare", "upsert", "delete", "advance"} => PageOK(R.page, s, c, R)
      /\ R.pc \in {"reconcile", "settle"} =>
           c # None /\ c.backfill = None /\ R.reconcile \subseteq syncState.reconcile

OneRun(r) ==
  /\ horizon <= SinceOf(today) + 1
  /\ BoxFollows
  /\ Stored
  /\ UnitsFit(syncState.checkpoint, syncState.reconcile)
  /\ RunAt(r)

-----------------------------------------------------------------------------
(***************************************************************************)
(* What the provider and the clock leave true.                             *)
(***************************************************************************)
LEMMA RunTypes ==
  ASSUME E!IInv, NEW r \in Runner
  PROVE  /\ run \in [Runner -> E!RunState] /\ run[r] \in E!RunState
         /\ syncState \in E!SyncStateRow
         /\ syncState.reconcile \in SUBSET E!Unit /\ run[r].reconcile \in SUBSET E!Unit
         /\ rows \in [Msg -> Nat] /\ clock \in Nat
         /\ E!RunOK(run[r], clock, rows, applied)
  <1>1. E!GlobalOK /\ run \in [Runner -> E!RunState] /\ E!RunOK(run[r], clock, rows, applied)
    BY DEF E!IInv
  <1>2. syncState \in E!SyncStateRow /\ rows \in [Msg -> Nat] /\ clock \in Nat
    BY <1>1 DEF E!GlobalOK
  <1>3. run[r] \in E!RunState
    BY <1>1
  <1>4. syncState.reconcile \in SUBSET E!Unit
    BY <1>2 DEF E!SyncStateRow
  <1>5. run[r].reconcile \in SUBSET E!Unit
    BY <1>3 DEF E!RunState
  <1>6. QED
    BY <1>1, <1>2, <1>3, <1>4, <1>5

LEMMA UnitTypes ==
  ASSUME NEW Q \in SUBSET E!Unit, NEW u \in Q
  PROVE  u.since \in Nat /\ u.scope \in Nat
  BY MailAssumption DEF E!Unit, Day

Known(c) == c = None \/ (c \in GmailCheckpoint /\ c.historyId <= Len(history))

\* A step of the provider or of the clock.
Grows ==
  /\ oldest <= oldest' /\ (oldest' = oldest \/ oldest' = Len(history))
  /\ today <= today'
  /\ Len(history) <= Len(history)'
  /\ \A i \in 1..Len(history) : history'[i] = history[i]
  /\ \A m \in Msg : Visible(m)' /\ ~Visible(m) =>
       Len(history)' = Len(history) + 1 /\ history'[Len(history) + 1].msg = m
  /\ UNCHANGED <<horizon, rejected>>

LEMMA MailboxGrows == ASSUME MailOK, Mailbox PROVE Grows
  <1>1. /\ oldest <= oldest' /\ today <= today' /\ Len(history) <= Len(history)'
        /\ \A i \in 1..Len(history) : history'[i] = history[i]
        /\ UNCHANGED <<horizon, rejected>>
    BY MailboxOK
  <1>2. history \in Seq([msg : Msg, kind : Records]) /\ Len(history) \in Nat /\ box \in [Msg -> BoxState]
    BY DEF MailOK
  <1>3. ASSUME NEW n \in Msg, NEW kind, NEW state, Change(n, kind, state)
        PROVE  /\ oldest' = oldest
               /\ \A m \in Msg : Visible(m)' /\ ~Visible(m) =>
                    Len(history)' = Len(history) + 1 /\ history'[Len(history) + 1].msg = m
    <2> DEFINE e == [msg |-> n, kind |-> kind]
    <2>1. oldest' = oldest /\ history' = Append(history, e) /\ box' = [box EXCEPT ![n] = state]
      BY <1>3 DEF Change
    <2>2. e.msg = n
      OBVIOUS
    <2> HIDE DEF e
    <2>3. Len(history') = Len(history) + 1 /\ history'[Len(history) + 1] = e
      BY <1>2, <2>1
    <2>4. \A m \in Msg : Visible(m)' /\ ~Visible(m) => m = n
      BY <1>2, <2>1 DEF Visible
    <2>5. QED
      BY <2>1, <2>2, <2>3, <2>4
  <1>4. CASE \E m \in Msg : Arrive(m) \/ Hide(m) \/ Show(m) \/ Purge(m)
    <2>1. PICK m \in Msg : \/ Change(m, "added", "visible") \/ Change(m, "hidden", "hidden")
                           \/ Change(m, "shown", "visible") \/ Change(m, "purged", "purged")
      BY <1>4 DEF Arrive, Hide, Show, Purge
    <2>2. QED
      BY <1>1, <1>3, <2>1 DEF Grows
  <1>5. CASE ForgetHistory \/ NextDay
    BY <1>1, <1>5 DEF ForgetHistory, NextDay, Grows, Visible
  <1>6. QED
    BY <1>4, <1>5 DEF Mailbox

\* A message that is visible now is led to now, if it was led to when it was visible.
LEMMA LeadsStays ==
  ASSUME MailOK, MailOK', Grows, NEW c, Known(c), NEW m \in Msg,
         Visible(m)', Visible(m) => Leads(c, m)
  PROVE  Leads(c, m)'
  <1>0. /\ Len(history) \in Nat /\ Len(history)' \in Nat
        /\ oldest \in Nat /\ oldest' \in Nat
    BY DEF MailOK
  <1>1. CASE c = None
    BY <1>1 DEF Leads
  <1>2. CASE c # None /\ ~Visible(m)
    <2>1. c.historyId \in Nat /\ c.historyId <= Len(history)
      BY <1>2, MailAssumption DEF Known, GmailCheckpoint
    <2>2. Len(history)' = Len(history) + 1 /\ history'[Len(history) + 1].msg = m
      BY <1>2 DEF Grows
    <2>3. Len(history) + 1 \in c.historyId + 1..Len(history)'
      BY <1>0, <2>1, <2>2
    <2>4. QED
      BY <2>2, <2>3 DEF Leads
  <1>3. CASE c # None /\ Visible(m)
    <2>1. c.historyId \in Nat /\ c.historyId <= Len(history)
      BY <1>3, MailAssumption DEF Known, GmailCheckpoint
    <2>2. CASE c.historyId < oldest
      BY <1>0, <2>1, <2>2 DEF Leads, Grows
    <2>3. CASE \E i \in c.historyId + 1..Len(history) : history[i].msg = m
      <3>1. PICK i \in c.historyId + 1..Len(history) : history[i].msg = m
        BY <2>3
      <3>2. i \in c.historyId + 1..Len(history)' /\ history'[i] = history[i]
        BY <1>0, <2>1, <3>1 DEF Grows
      <3>3. QED
        BY <3>1, <3>2 DEF Leads
    <2>4. CASE c.backfill # None /\ m < c.backfill.pageToken
      BY <2>4 DEF Leads
    <2>5. QED
      BY <1>3, <2>2, <2>3, <2>4 DEF Leads
  <1>4. QED
    BY <1>1, <1>2, <1>3

LEMMA FirstDayBefore ==
  ASSUME MailOK, MailOK', today <= today'
  PROVE  today' = FirstDay => today = FirstDay
  BY MailAssumption DEF MailOK

LEMMA SteadyBefore ==
  ASSUME MailOK, MailOK', today <= today', rejected => rejected', Steady'
  PROVE  Steady
  BY FirstDayBefore DEF Steady, MailOK

\* A stored message stays stored while rows change only in its favour.
LEMMA KeptStays ==
  ASSUME MailOK, MailOK', today <= today', rejected => rejected', horizon <= horizon',
         NEW m \in Msg, rows[m] \in Nat, rows'[m] = rows[m], ReceivedOn[m] \in Nat,
         NEW Q, NEW P \in SUBSET Q, Kept(m, Q)
  PROVE  Kept(m, P)'
  <1>1. ReceivedOn[m] >= horizon' => ReceivedOn[m] >= horizon
    BY MailAssumption DEF MailOK, Day
  <1>2. Steady' => Steady
    BY SteadyBefore
  <1>3. QED
    BY <1>1, <1>2 DEF Kept

LEMMA UnitsFitStays ==
  ASSUME MailOK, MailOK', Grows, NEW c, NEW Q, Known(c), UnitsFit(c, Q)
  PROVE  UnitsFit(c, Q)' /\ Known(c)'
  <1>1. today' = FirstDay => today = FirstDay
    BY FirstDayBefore DEF Grows
  <1>2. Steady' => Steady
    BY SteadyBefore DEF Grows
  <1>3. /\ Len(history) \in Nat /\ Len(history)' \in Nat /\ Len(history) <= Len(history)'
        /\ horizon' = horizon /\ rejected' = rejected
    BY DEF MailOK, Grows
  <1>4. \A s : InWindow(s) => InWindow(s)'
    BY <1>1, <1>3 DEF InWindow
  <1>5. c # None => c.historyId \in Nat /\ c.historyId <= Len(history) /\ c.historyId <= Len(history)'
    BY <1>3, MailAssumption DEF Known, GmailCheckpoint
  <1>6. Known(c)'
    BY <1>5 DEF Known
  <1>7. QED
    BY <1>1, <1>2, <1>3, <1>4, <1>5, <1>6 DEF UnitsFit

LEMMA StaleStays ==
  ASSUME MailOK, MailOK', Grows, NEW c, Known(c), Stale(c)
  PROVE  Stale(c)'
  <1>1. c.historyId \in Nat /\ oldest \in Nat /\ oldest' \in Nat
    BY MailAssumption DEF Stale, Known, GmailCheckpoint, MailOK
  <1>2. QED
    BY <1>1 DEF Stale, Grows

LEMMA PlaceStays ==
  ASSUME MailOK, MailOK', Grows, NEW s, NEW c, NEW b, Known(c), s.historyId \in Nat,
         HistoryPlace(s, c, b)
  PROVE  HistoryPlace(s, c, b)'
  <1>1. /\ c.historyId \in Nat /\ oldest \in Nat /\ oldest' \in Nat
        /\ Len(history) \in Nat /\ Len(history)' \in Nat /\ Len(history) <= Len(history)'
        /\ oldest' = oldest \/ oldest' = Len(history)
    BY MailAssumption DEF HistoryPlace, Known, GmailCheckpoint, MailOK, Grows
  <1>2. QED
    BY <1>1 DEF HistoryPlace

LEMMA ListStays ==
  ASSUME MailOK, MailOK', Grows, NEW s, NEW c, NEW R, Known(c), ListOK(s, c, R)
  PROVE  ListOK(s, c, R)'
  <1>1. /\ s \in ListState /\ s.historyId \in Nat /\ s.historyId <= Len(history)'
    BY DEF ListOK, ListState, MailOK, Grows
  <1>2. InWindow(s.since) => InWindow(s.since)'
    BY FirstDayBefore DEF InWindow, Grows
  <1>3. Fresh(s, c, R.startedFrom) => Fresh(s, c, R.startedFrom)'
    BY StaleStays DEF Fresh
  <1>4. HistoryPlace(s, c, R.startedFrom) => HistoryPlace(s, c, R.startedFrom)'
    BY <1>1, PlaceStays
  <1>5. QED
    BY <1>1, <1>2, <1>3, <1>4 DEF ListOK, Beyond, Declared

LEMMA GetStays ==
  ASSUME MailOK, MailOK', Grows, rows' = rows, rows \in [Msg -> Nat],
         NEW s, NEW c, NEW R, Known(c), GetOK(s, c, R)
  PROVE  GetOK(s, c, R)'
  <1>1. /\ s \in GetState /\ s.historyId \in Nat /\ s.historyId <= Len(history)'
        /\ s.next \in GmailCheckpoint /\ s.next.historyId \in Nat
        /\ s.next.historyId <= Len(history) /\ s.next.historyId <= Len(history)'
    BY DEF GetOK, GetState, GmailCheckpoint, MailOK, Grows
  <1>2. Known(s.next)
    BY <1>1 DEF Known
  <1>3. InWindow(s.since) => InWindow(s.since)'
    BY FirstDayBefore DEF InWindow, Grows
  <1>4. Fresh(s, c, R.startedFrom) => Fresh(s, c, R.startedFrom)'
    BY StaleStays DEF Fresh
  <1>5. /\ HistoryPlace(s, c, R.startedFrom) => HistoryPlace(s, c, R.startedFrom)'
        /\ HistoryPlace(s, s.next, R.startedFrom) => HistoryPlace(s, s.next, R.startedFrom)'
    BY <1>1, <1>2, PlaceStays
  <1>6. \A m \in s.gone : Visible(m)' => Leads(s.next, m)'
    <2>1. s.gone \subseteq Msg
      BY <1>1 DEF GetState
    <2>2. QED
      BY <1>2, <2>1, LeadsStays DEF GetOK
  <1>7. Planned(s, R)' = Planned(s, R)
    BY DEF Planned, Engine!DeclareResync
  <1>8. ASSUME NEW m \in Msg, Visible(m)' PROVE m \in s.ids \/ Leads(s.next, m)' \/ Kept(m, Planned(s, R))'
    <2>1. CASE Visible(m) /\ Kept(m, Planned(s, R))
      <3>1. /\ rows'[m] = rows[m] /\ rows[m] \in Nat /\ ReceivedOn[m] \in Nat
            /\ today <= today' /\ horizon <= horizon' /\ (rejected => rejected')
        BY MailAssumption DEF Grows, MailOK, Day
      <3>2. \A Q : Kept(m, Q) => Kept(m, Q)'
        BY <3>1, KeptStays
      <3>3. QED
        BY <1>7, <2>1, <3>2 DEF Kept
    <2>2. CASE ~(Visible(m) /\ Kept(m, Planned(s, R)))
      <3>1. m \in s.ids \/ (Visible(m) => Leads(s.next, m))
        BY <2>2 DEF GetOK
      <3>2. QED
        BY <1>2, <1>8, <3>1, LeadsStays
    <2>3. QED
      BY <2>1, <2>2
  <1>9. QED
    BY <1>1, <1>3, <1>4, <1>5, <1>6, <1>8 DEF GetOK, Beyond, Declared

LEMMA RecordAt ==
  ASSUME NEW S, NEW h \in Seq(S) PROVE \A i \in 1..Len(h) : h[i] \in S
  OBVIOUS

LEMMA SinceGrows ==
  ASSUME NEW d \in Nat, NEW e \in Nat, d <= e
  PROVE  SinceOf(d) <= SinceOf(e) /\ SinceOf(d) \in Nat /\ SinceOf(e) \in Nat
  BY MailAssumption DEF SinceOf

LEMMA BeforeStays ==
  ASSUME MailOK, MailOK', oldest <= oldest', NEW c, NEW d, Known(c), Before(c, d)
  PROVE  Before(c, d)'
  <1>1. oldest \in Nat /\ oldest' \in Nat /\ (c # None => c.historyId \in Nat)
    BY MailAssumption DEF MailOK, Known, GmailCheckpoint
  <1>2. QED
    BY <1>1 DEF Before

LEMMA PageStays ==
  ASSUME MailOK, MailOK', Grows, rows' = rows, rows \in [Msg -> Nat],
         NEW P, NEW s, NEW c, NEW R, Known(c), PageOK(P, s, c, R)
  PROVE  PageOK(P, s, c, R)'
  <1>1. /\ P \in GmailPage /\ P.checkpoint \in GmailCheckpoint /\ P.deletes \subseteq Msg
        /\ Len(history) \in Nat /\ Len(history)' \in Nat /\ Len(history) <= Len(history)'
        /\ P.checkpoint.historyId \in Nat /\ P.checkpoint.historyId <= Len(history)
    BY DEF PageOK, GmailPage, GmailCheckpoint, MailOK, Grows
  <1>2. Known(P.checkpoint) /\ P.checkpoint.historyId <= Len(history)'
    BY <1>1 DEF Known
  <1>3. Before(c, P.checkpoint)'
    BY BeforeStays DEF PageOK, Grows
  <1>4. \A m \in P.deletes : Visible(m)' => Leads(P.checkpoint, m)'
    BY <1>1, <1>2, LeadsStays DEF PageOK
  <1>5. ASSUME NEW m \in Msg, Visible(m)'
        PROVE  \/ Kept(m, R.reconcile)' \/ Leads(P.checkpoint, m)'
               \/ R.pc \in {"declare", "upsert"} /\ m \in P.upserts
    <2>1. CASE Visible(m) /\ Kept(m, R.reconcile)
      <3>1. /\ rows'[m] = rows[m] /\ rows[m] \in Nat /\ ReceivedOn[m] \in Nat
            /\ today <= today' /\ horizon <= horizon' /\ (rejected => rejected')
        BY MailAssumption DEF Grows, MailOK, Day
      <3>2. Kept(m, R.reconcile)'
        BY <2>1, <3>1, KeptStays
      <3>3. QED
        BY <3>2
    <2>2. CASE ~(Visible(m) /\ Kept(m, R.reconcile))
      <3>1. \/ R.pc \in {"declare", "upsert"} /\ m \in P.upserts
            \/ (Visible(m) => Leads(P.checkpoint, m))
        BY <2>2 DEF PageOK
      <3>2. QED
        BY <1>2, <1>5, <3>1, LeadsStays
    <2>3. QED
      BY <2>1, <2>2
  <1>6. UnitsFit(P.checkpoint, R.reconcile)'
    BY <1>2, UnitsFitStays DEF PageOK
  <1>7. R.pc = "declare" => ((c = None /\ rejected) \/ Stale(c))'
    BY StaleStays DEF PageOK, Grows
  <1>8. ~P.done => ListOK(s, P.checkpoint, R)'
    BY <1>2, ListStays DEF PageOK
  <1>9. QED
    BY <1>1, <1>2, <1>3, <1>4, <1>5, <1>6, <1>7, <1>8 DEF PageOK

LEMMA BoxStays == ASSUME MailOK, Mailbox, BoxFollows PROVE BoxFollows'
  <1>0. history \in Seq([msg : Msg, kind : Records]) /\ Len(history) \in Nat /\ box \in [Msg -> BoxState]
    BY DEF MailOK
  <1>1. ASSUME NEW n \in Msg, NEW kind, NEW state, Change(n, kind, state), box[n] # "purged",
               kind = "purged" <=> state = "purged",
               state = "visible" => kind \in {"added", "shown"}
        PROVE  BoxFollows'
    <2> DEFINE e == [msg |-> n, kind |-> kind]
    <2>1. history' = Append(history, e) /\ box' = [box EXCEPT ![n] = state]
      BY <1>1 DEF Change
    <2>2. e.msg = n /\ e.kind = kind
      OBVIOUS
    <2> HIDE DEF e
    <2>3. /\ Len(history') = Len(history) + 1 /\ history'[Len(history) + 1] = e
          /\ \A i \in 1..Len(history) : history'[i] = history[i]
      BY <1>0, <2>1
    <2>4. \A i \in 1..Len(history) : history[i].msg \in Msg
      <3>1. \A i \in 1..Len(history) : history[i] \in [msg : Msg, kind : Records]
        BY <1>0, RecordAt
      <3>2. QED
        BY <3>1
    <2>5. ASSUME NEW i \in 1..Len(history)'
          PROVE  /\ history'[i].kind = "purged" => box'[history'[i].msg] = "purged"
                 /\ /\ box'[history'[i].msg] = "visible"
                    /\ \A j \in i + 1..Len(history)' : history'[j].msg # history'[i].msg
                    => history'[i].kind \in {"added", "shown"}
      <3>1. CASE i = Len(history) + 1
        <4>1. history'[i] = e /\ box'[n] = state
          BY <1>0, <2>1, <2>3, <3>1
        <4>2. QED
          BY <1>1, <2>2, <4>1
      <3>2. CASE i # Len(history) + 1
        <4>1. i \in 1..Len(history) /\ history'[i] = history[i] /\ history[i].msg \in Msg
          BY <1>0, <2>3, <2>4, <3>2
        <4>2. history[i].kind = "purged" => history[i].msg # n /\ box[history[i].msg] = "purged"
          BY <1>1, <4>1 DEF BoxFollows
        <4>3. history'[i].kind = "purged" => box'[history'[i].msg] = "purged"
          BY <1>0, <2>1, <4>1, <4>2
        <4>4. ASSUME box'[history'[i].msg] = "visible",
                     \A j \in i + 1..Len(history)' : history'[j].msg # history'[i].msg
              PROVE  history'[i].kind \in {"added", "shown"}
          <5>1. Len(history) + 1 \in i + 1..Len(history)'
            BY <1>0, <2>3, <4>1
          <5>2. history[i].msg # n
            BY <2>2, <2>3, <4>1, <4>4, <5>1
          <5>3. box[history[i].msg] = "visible"
            BY <1>0, <2>1, <4>1, <4>4, <5>2
          <5>4. \A j \in i + 1..Len(history) : j \in i + 1..Len(history)' /\ j \in 1..Len(history)
            BY <1>0, <2>3, <4>1
          <5>5. \A j \in i + 1..Len(history) : history[j].msg # history[i].msg
            BY <2>3, <4>1, <4>4, <5>4
          <5>6. QED
            BY <4>1, <5>3, <5>5 DEF BoxFollows
        <4>5. QED
          BY <4>3, <4>4
      <3>3. QED
        BY <3>1, <3>2
    <2>6. QED
      BY <2>5 DEF BoxFollows
  <1>2. CASE \E m \in Msg : Arrive(m) \/ Hide(m) \/ Show(m) \/ Purge(m)
    <2>1. PICK m \in Msg : Arrive(m) \/ Hide(m) \/ Show(m) \/ Purge(m)
      BY <1>2
    <2>2. box[m] # "purged"
      BY <2>1 DEF Arrive, Hide, Show, Purge
    <2>3. \/ Change(m, "added", "visible") \/ Change(m, "hidden", "hidden")
          \/ Change(m, "shown", "visible") \/ Change(m, "purged", "purged")
      BY <2>1 DEF Arrive, Hide, Show, Purge
    <2>4. QED
      BY <1>1, <2>2, <2>3
  <1>3. CASE ForgetHistory \/ NextDay
    BY <1>3 DEF ForgetHistory, NextDay, BoxFollows
  <1>4. QED
    BY <1>2, <1>3 DEF Mailbox

\* Nothing the provider or the clock does falsifies the invariant.
LEMMA MailboxStep ==
  ASSUME NEW r \in Runner, E!IInv, MailOK, Mailbox, OneRun(r)
  PROVE  OneRun(r)'
  <1> DEFINE c == syncState.checkpoint
             R == run[r]
  <1>0. MailOK' /\ Grows /\ UNCHANGED <<engineVars, source, horizon, rejected>>
    BY MailboxOK, MailboxGrows DEF Mailbox
  <1>1. /\ syncState' = syncState /\ run' = run /\ rows' = rows /\ clock' = clock /\ source' = source
        /\ rows \in [Msg -> Nat] /\ syncState.reconcile \in SUBSET E!Unit
    BY <1>0, RunTypes DEF engineVars
  <1>2. Known(c)
    BY CheckpointTyped DEF OneRun, UnitsFit, Known
  <1>3. (horizon <= SinceOf(today) + 1)'
    <2>1. today \in Nat /\ today' \in Nat /\ today <= today' /\ Window \in Nat /\ horizon \in Nat
      BY <1>0, MailAssumption DEF MailOK, Grows, Day
    <2>2. horizon' = horizon /\ horizon <= SinceOf(today) + 1
      BY <1>0 DEF OneRun
    <2>3. SinceOf(today) <= SinceOf(today)' /\ SinceOf(today) \in Nat /\ SinceOf(today)' \in Nat
      BY <2>1, SinceGrows
    <2>4. QED
      BY <2>1, <2>2, <2>3
  <1>4. BoxFollows'
    BY BoxStays DEF OneRun
  <1>5. Stored'
    <2>1. ASSUME NEW m \in Msg, Visible(m)'
          PROVE  Kept(m, syncState.reconcile)' \/ Leads(c, m)'
      <3>1. CASE Visible(m) /\ Kept(m, syncState.reconcile)
        <4>1. /\ rows'[m] = rows[m] /\ rows[m] \in Nat /\ ReceivedOn[m] \in Nat
              /\ today <= today' /\ horizon <= horizon' /\ (rejected => rejected')
          BY <1>0, <1>1, MailAssumption DEF Grows, MailOK, Day
        <4> DEFINE Q == syncState.reconcile
        <4>2. Q' = Q /\ Kept(m, Q)
          BY <1>1, <3>1
        <4> HIDE DEF Q
        <4>3. Kept(m, Q)'
          BY <1>0, <4>1, <4>2, KeptStays
        <4>4. QED
          BY <4>3 DEF Q
      <3>2. CASE ~(Visible(m) /\ Kept(m, syncState.reconcile))
        <4>1. Visible(m) => Leads(c, m)
          BY <3>2 DEF OneRun, Stored
        <4>2. c' = c
          BY <1>1
        <4> HIDE DEF c
        <4>3. QED
          BY <1>0, <1>2, <2>1, <4>1, <4>2, LeadsStays
      <3>3. QED
        BY <3>1, <3>2
    <2>2. QED
      BY <2>1 DEF Stored
  <1>6. UnitsFit(syncState.checkpoint, syncState.reconcile)'
    BY <1>0, <1>1, <1>2, UnitsFitStays DEF OneRun
  <1>7. RunAt(r)'
    <2>1. ListOK(source[r], c, R) => ListOK(source[r], c, R)'
      BY <1>0, <1>1, <1>2, ListStays
    <2>2. GetOK(source[r], c, R) => GetOK(source[r], c, R)'
      BY <1>0, <1>1, <1>2, GetStays
    <2>3. PageOK(R.page, source[r], c, R) => PageOK(R.page, source[r], c, R)'
      BY <1>0, <1>1, <1>2, PageStays
    <2>4. RunAt(r) /\ rejected' = rejected
      BY <1>0 DEF OneRun
    <2>5. QED
      BY <1>1, <2>1, <2>2, <2>3, <2>4 DEF RunAt
  <1>8. QED
    BY <1>3, <1>4, <1>5, <1>6, <1>7 DEF OneRun

-----------------------------------------------------------------------------
(***************************************************************************)
(* Steps that leave the mailbox and the clock alone.                       *)
(***************************************************************************)
Quiet == UNCHANGED <<mailVars, horizon, rejected>>

LEMMA Same ==
  ASSUME Quiet
  PROVE  /\ \A m : Visible(m)' <=> Visible(m)
         /\ \A c, m : Leads(c, m)' <=> Leads(c, m)
         /\ \A c : Stale(c)' <=> Stale(c)
         /\ Steady' <=> Steady
         /\ \A c, Q : UnitsFit(c, Q)' <=> UnitsFit(c, Q)
         /\ \A c, d : Before(c, d)' <=> Before(c, d)
         /\ \A s, c, R : ListOK(s, c, R)' <=> ListOK(s, c, R)
         /\ BoxFollows' <=> BoxFollows
  <1>0. UNCHANGED <<box, history, oldest, today, horizon, rejected>>
    BY DEF Quiet, mailVars
  <1>1. \A m : Visible(m)' <=> Visible(m)
    BY <1>0 DEF Visible
  <1>2. \A c, m : Leads(c, m)' <=> Leads(c, m)
    BY <1>0 DEF Leads
  <1>3. \A c : Stale(c)' <=> Stale(c)
    BY <1>0 DEF Stale
  <1>4. Steady' <=> Steady
    BY <1>0 DEF Steady
  <1>5. \A x : InWindow(x)' <=> InWindow(x)
    BY <1>0 DEF InWindow
  <1>6. \A c, Q : UnitsFit(c, Q)' <=> UnitsFit(c, Q)
    BY <1>0, <1>4, <1>5 DEF UnitsFit
  <1>7. \A c, d : Before(c, d)' <=> Before(c, d)
    BY <1>0 DEF Before
  <1>8. \A s, c, b : Fresh(s, c, b)' <=> Fresh(s, c, b)
    BY <1>3 DEF Fresh
  <1>9. \A s, c, b : HistoryPlace(s, c, b)' <=> HistoryPlace(s, c, b)
    BY <1>0 DEF HistoryPlace
  <1>10. \A s, c, R : ListOK(s, c, R)' <=> ListOK(s, c, R)
    BY <1>0, <1>5, <1>8, <1>9 DEF ListOK, Beyond, Declared
  <1>11. BoxFollows' <=> BoxFollows
    BY <1>0 DEF BoxFollows
  <1>12. QED
    BY <1>1, <1>2, <1>3, <1>4, <1>6, <1>7, <1>10, <1>11

LEMMA SameKept ==
  ASSUME Quiet, NEW m, rows'[m] = rows[m], NEW Q, Kept(m, Q)
  PROVE  Kept(m, Q)'
  <1>1. horizon' = horizon /\ (Steady' <=> Steady)
    BY Same DEF Quiet
  <1>2. QED
    BY <1>1 DEF Kept

\* Besides what is stored, only the place of the run has to be looked at.
LEMMA QuietStep ==
  ASSUME NEW r \in Runner, Quiet, OneRun(r),
         Stored', UnitsFit(syncState.checkpoint, syncState.reconcile)', RunAt(r)'
  PROVE  OneRun(r)'
  <1>1. BoxFollows' /\ horizon' = horizon /\ today' = today /\ horizon <= SinceOf(today) + 1
    BY Same DEF OneRun, Quiet, mailVars
  <1>2. (horizon <= SinceOf(today) + 1)'
    BY <1>1
  <1>3. QED
    BY <1>1, <1>2 DEF OneRun

\* When the database is left alone, only the place of the run.
LEMMA LocalStep ==
  ASSUME NEW r \in Runner, Quiet, OneRun(r), rows' = rows,
         syncState'.checkpoint = syncState.checkpoint, syncState'.reconcile = syncState.reconcile,
         RunAt(r)'
  PROVE  OneRun(r)'
  <1>1. UnitsFit(syncState.checkpoint, syncState.reconcile)'
    BY Same DEF OneRun
  <1>2. ASSUME NEW m \in Msg, Visible(m)'
        PROVE  Kept(m, syncState.reconcile)' \/ Leads(syncState.checkpoint, m)'
    <2>1. Kept(m, syncState.reconcile) \/ Leads(syncState.checkpoint, m)
      BY <1>2, Same DEF OneRun, Stored
    <2>2. CASE Kept(m, syncState.reconcile)
      <3>1. rows'[m] = rows[m]
        OBVIOUS
      <3>2. \A Q : Kept(m, Q) => Kept(m, Q)'
        BY <3>1, SameKept
      <3>3. QED
        BY <2>2, <3>2 DEF Kept
    <2>3. CASE Leads(syncState.checkpoint, m)
      BY <2>3, Same DEF Leads
    <2>4. QED
      BY <2>1, <2>2, <2>3
  <1>3. Stored'
    BY <1>2 DEF Stored
  <1>4. QED
    BY <1>1, <1>3, QuietStep

\* Where a run holds neither a page nor a place in a listing.
LEMMA PlainPlace ==
  ASSUME NEW r \in Runner, Quiet, source[r]' = Closed,
         run[r]'.pc \in {"idle", "read", "park", "finish", "fail"},
         run[r]'.retried => rejected' /\ run[r]'.startedFrom = None,
         run[r]'.pc \in {"idle", "read"} => ~run[r]'.retried
  PROVE  RunAt(r)'
  BY DEF RunAt

\* What the next checkpoint leads to, the one before it leads to.
LEMMA BeforeLeads ==
  ASSUME MailOK, NEW c, Known(c), NEW d \in GmailCheckpoint, d.historyId <= Len(history),
         Before(c, d), NEW m \in Msg, Leads(d, m)
  PROVE  Leads(c, m)
  <1>1. /\ Len(history) \in Nat /\ oldest \in Nat /\ d.historyId \in Nat /\ m \in Nat
        /\ d # None
        /\ c # None => c \in GmailCheckpoint /\ c.historyId \in Nat
    BY MailAssumption DEF MailOK, Known, GmailCheckpoint
  <1>2. CASE c = None \/ c.historyId < oldest
    BY <1>2 DEF Leads
  <1>3. CASE /\ c # None /\ c.historyId <= d.historyId
             /\ d.backfill # None => c.backfill # None /\ d.backfill.pageToken <= c.backfill.pageToken
    <2>1. CASE d.historyId < oldest
      BY <1>1, <1>3, <2>1 DEF Leads
    <2>2. CASE \E i \in d.historyId + 1..Len(history) : history[i].msg = m
      <3>1. PICK i \in d.historyId + 1..Len(history) : history[i].msg = m
        BY <2>2
      <3>2. i \in c.historyId + 1..Len(history)
        BY <1>1, <1>3, <3>1
      <3>3. QED
        BY <3>1, <3>2 DEF Leads
    <2>3. CASE d.backfill # None /\ m < d.backfill.pageToken
      <3>1. c.backfill # None /\ d.backfill.pageToken <= c.backfill.pageToken
        BY <1>3, <2>3
      <3>2. c.backfill \in Backfill /\ d.backfill \in Backfill
        BY <1>1, <1>3, <2>3, <3>1 DEF GmailCheckpoint
      <3>3. c.backfill.pageToken \in Nat /\ d.backfill.pageToken \in Nat
        BY <3>2, MailAssumption DEF Backfill
      <3>4. m < c.backfill.pageToken
        BY <1>1, <2>3, <3>1, <3>3
      <3>5. QED
        BY <3>1, <3>4 DEF Leads
    <2>4. QED
      BY <1>1, <2>1, <2>2, <2>3 DEF Leads
  <1>4. QED
    BY <1>2, <1>3 DEF Before

\* A page in hand, once its next part has been applied.
LEMMA PagePasses ==
  ASSUME Quiet, NEW P, NEW s, NEW c, NEW R, NEW S, PageOK(P, s, c, R),
         S.startedFrom = R.startedFrom, S.retried = R.retried, S.reconcile = R.reconcile,
         S.pc # "declare",
         \A m \in Msg : Visible(m) =>
           Kept(m, S.reconcile)' \/ Leads(P.checkpoint, m) \/ (S.pc = "upsert" /\ m \in P.upserts)
  PROVE  PageOK(P, s, c, S)'
  <1>1. history' = history
    BY DEF Quiet, mailVars
  <1>2. \A t, d : ListOK(t, d, R) => ListOK(t, d, S)
    BY DEF ListOK, Declared
  <1>3. \A m \in Msg : Visible(m)' =>
          Kept(m, S.reconcile)' \/ Leads(P.checkpoint, m)' \/ (S.pc \in {"declare", "upsert"} /\ m \in P.upserts)
    BY Same
  <1>4. \A m \in P.deletes : Visible(m)' => Leads(P.checkpoint, m)'
    BY Same DEF PageOK
  <1>5. Before(c, P.checkpoint)' /\ UnitsFit(P.checkpoint, S.reconcile)'
    BY Same DEF PageOK
  <1>6. ~P.done => ListOK(s, P.checkpoint, S)'
    BY <1>2, Same DEF PageOK
  <1>7. QED
    BY <1>1, <1>3, <1>4, <1>5, <1>6 DEF PageOK

-----------------------------------------------------------------------------
(***************************************************************************)
(* The steps of the engine.                                                *)
(***************************************************************************)
LEMMA EngineSource ==
  ASSUME NEW r \in Runner, E!IInv, MailOK, SourcesOK, EngineStep(r)
  PROVE  /\ Quiet
         /\ source'[r] = IF run'[r].pc \in {"idle", "finish", "fail"} THEN Closed ELSE source[r]
         /\ E!RunStep(r)
  <1>1. Quiet
    BY DEF EngineStep, Quiet, mailVars
  <1>2. E!RunStep(r)
    BY SameRunStep DEF EngineStep
  <1>3. source' = [source EXCEPT ![r] = IF run'[r].pc \in {"idle", "finish", "fail"} THEN Closed ELSE source[r]]
    BY DEF EngineStep, Open
  <1>4. QED
    BY <1>1, <1>2, <1>3 DEF SourcesOK

\* Steps outside the page loop, and those that end a run.
LEMMA PlainSteps ==
  ASSUME NEW r \in Runner, E!IInv, MailOK, SourcesOK, OneRun(r), EngineStep(r),
         \/ \E force \in BOOLEAN : E!Begin(r, force)
         \/ E!Skip(r) \/ E!NoConnector(r) \/ E!Finish(r) \/ E!StoreError(r) \/ E!Park(r)
         \/ E!RecordFailure(r) \/ E!Crash(r)
  PROVE  OneRun(r)'
  <1> USE DEF E!At, E!Goto, E!Stop, E!FailWith
  <1>0. /\ Quiet /\ run \in [Runner -> E!RunState] /\ run[r] \in E!RunState /\ syncState \in E!SyncStateRow
        /\ source'[r] = IF run'[r].pc \in {"idle", "finish", "fail"} THEN Closed ELSE source[r]
    BY EngineSource, RunTypes
  <1>1. CASE \E force \in BOOLEAN : E!Begin(r, force)
    <2>1. PICK force \in BOOLEAN : E!Begin(r, force)
      BY <1>1
    <2>2. /\ run[r].pc = "idle" /\ run'[r].pc = "read" /\ run'[r].retried = run[r].retried
          /\ rows' = rows /\ syncState' = syncState
      BY <1>0, <2>1 DEF E!Begin, E!RunState
    <2>3. source'[r] = Closed /\ ~run'[r].retried
      BY <1>0, <2>2 DEF OneRun, RunAt
    <2>4. RunAt(r)'
      BY <1>0, <2>2, <2>3, PlainPlace
    <2>5. QED
      BY <1>0, <2>2, <2>4, LocalStep
  <1>2. CASE E!Skip(r) \/ E!Finish(r) \/ E!RecordFailure(r) \/ E!Crash(r)
    <2>1. run' = [run EXCEPT ![r] = E!IdleRun] /\ rows' = rows
      BY <1>2 DEF E!Skip, E!Finish, E!RecordFailure, E!Crash
    <2>2. syncState'.checkpoint = syncState.checkpoint /\ syncState'.reconcile = syncState.reconcile
      BY <1>0, <1>2 DEF E!Skip, E!Finish, E!RecordFailure, E!Crash, E!SyncStateRow
    <2>3. run'[r].pc = "idle" /\ run'[r].retried = FALSE
      BY <1>0, <2>1 DEF E!IdleRun
    <2>4. RunAt(r)'
      BY <1>0, <2>3, PlainPlace
    <2>5. QED
      BY <1>0, <2>1, <2>2, <2>4, LocalStep
  <1>3. CASE E!NoConnector(r) \/ E!StoreError(r) \/ E!Park(r)
    <2>1. rows' = rows /\ syncState' = syncState
      BY <1>3 DEF E!NoConnector, E!StoreError, E!Park
    <2>2. PICK b \in BOOLEAN : \/ run' = [run EXCEPT ![r].pc = "fail", ![r].retryable = b]
                               \/ run' = [run EXCEPT ![r].pc = "fail"]
      BY <1>3 DEF E!NoConnector, E!StoreError, E!Park
    <2>3. /\ run'[r].pc = "fail" /\ run'[r].retried = run[r].retried
          /\ run'[r].startedFrom = run[r].startedFrom
      BY <1>0, <2>2 DEF E!RunState
    <2>4. rejected' = rejected
      BY <1>0 DEF Quiet
    <2>5. RunAt(r)'
      BY <1>0, <2>3, <2>4, PlainPlace DEF OneRun, RunAt
    <2>6. QED
      BY <1>0, <2>1, <2>5, LocalStep
  <1>4. QED
    BY <1>1, <1>2, <1>3

\* The way to the page loop.
LEMMA EntrySteps ==
  ASSUME NEW r \in Runner, E!IInv, MailOK, SourcesOK, OneRun(r), EngineStep(r),
         E!ReadState(r) \/ E!MarkRunning(r) \/ E!LoadCredential(r) \/ E!Refresh(r)
  PROVE  OneRun(r)'
  <1> USE DEF E!At, E!Goto, E!Stop, E!FailWith
  <1>0. /\ Quiet /\ run \in [Runner -> E!RunState] /\ run[r] \in E!RunState /\ syncState \in E!SyncStateRow
        /\ source'[r] = IF run'[r].pc \in {"idle", "finish", "fail"} THEN Closed ELSE source[r]
        /\ clock \in Nat /\ rejected' = rejected
    BY EngineSource, RunTypes DEF Quiet
  <1>1. CASE E!ReadState(r)
    <2>1. /\ run[r].pc = "read" /\ run'[r].pc = "mark" /\ run'[r].startedFrom = syncState.checkpoint
          /\ run'[r].retried = run[r].retried /\ rows' = rows /\ syncState' = syncState
      BY <1>0, <1>1 DEF E!ReadState, E!RunState
    <2>2. source'[r] = Closed /\ ~run'[r].retried
      BY <1>0, <2>1 DEF OneRun, RunAt
    <2>3. RunAt(r)'
      BY <2>1, <2>2 DEF RunAt
    <2>4. QED
      BY <1>0, <2>1, <2>3, LocalStep
  <1>2. CASE E!MarkRunning(r)
    <2>1. /\ run[r].pc = "mark" /\ run'[r].pc = "credential" /\ run'[r].startedFrom = run[r].startedFrom
          /\ run'[r].retried = run[r].retried /\ rows' = rows /\ clock' = clock + 1
      BY <1>0, <1>2 DEF E!MarkRunning, E!RunState
    <2>2. syncState'.checkpoint = syncState.checkpoint /\ syncState'.reconcile = syncState.reconcile
      BY <1>0, <1>2 DEF E!MarkRunning, E!SyncStateRow
    <2>3. /\ source'[r] = Closed /\ clock' > 0 /\ run[r].startedFrom = syncState.checkpoint
          /\ run[r].retried => rejected /\ run[r].startedFrom = None
      BY <1>0, <2>1 DEF OneRun, RunAt
    <2>4. RunAt(r)'
      BY <1>0, <2>1, <2>2, <2>3 DEF RunAt
    <2>5. QED
      BY <1>0, <2>1, <2>2, <2>4, LocalStep
  <1>3. CASE E!LoadCredential(r) \/ E!Refresh(r)
    <2>1. PICK l \in {"fetch", "refresh", "park", "fail"}, b \in BOOLEAN :
            \/ run' = [run EXCEPT ![r].pc = l]
            \/ run' = [run EXCEPT ![r].pc = l, ![r].retryable = b]
      BY <1>3 DEF E!LoadCredential, E!Refresh
    <2>2. /\ run[r].pc \in {"credential", "refresh"} /\ rows' = rows /\ syncState' = syncState
          /\ clock' = clock
      BY <1>3 DEF E!LoadCredential, E!Refresh
    <2>3. /\ run'[r].pc = l /\ run'[r].startedFrom = run[r].startedFrom /\ run'[r].retried = run[r].retried
      BY <1>0, <2>1 DEF E!RunState
    <2>4. /\ source[r] = Closed /\ source'[r] = Closed /\ clock' > 0 /\ run[r].startedFrom = syncState.checkpoint
          /\ run[r].retried => rejected /\ run[r].startedFrom = None
      BY <1>0, <2>2 DEF OneRun, RunAt
    <2>5. RunAt(r)'
      BY <1>0, <2>2, <2>3, <2>4 DEF RunAt
    <2>6. QED
      BY <1>0, <2>2, <2>5, LocalStep
  <1>4. QED
    BY <1>1, <1>2, <1>3

\* A run that holds a page: its fields.
LEMMA PageFacts ==
  ASSUME NEW r \in Runner, E!IInv, MailOK, OneRun(r), run[r].pc \in {"declare", "upsert", "delete", "advance"}
  PROVE  /\ PageOK(run[r].page, source[r], syncState.checkpoint, run[r])
         /\ clock > 0
         /\ run[r].page \in GmailPage /\ run[r].page.checkpoint \in GmailCheckpoint
         /\ run[r].page.upserts \subseteq Msg /\ run[r].page.deletes \subseteq Msg
         /\ Known(run[r].page.checkpoint) /\ Known(syncState.checkpoint)
  <1>1. PageOK(run[r].page, source[r], syncState.checkpoint, run[r]) /\ clock > 0
    BY DEF OneRun, RunAt
  <1>2. run[r].page \in GmailPage /\ run[r].page.checkpoint \in GmailCheckpoint
    BY <1>1 DEF PageOK, GmailPage
  <1>3. Known(run[r].page.checkpoint)
    BY <1>1, <1>2 DEF PageOK, Known
  <1>4. Known(syncState.checkpoint)
    BY CheckpointTyped DEF OneRun, UnitsFit, Known
  <1>5. QED
    BY <1>1, <1>2, <1>3, <1>4 DEF GmailPage

LEMMA DeclareStep ==
  ASSUME NEW r \in Runner, E!IInv, MailOK, SourcesOK, OneRun(r), EngineStep(r), E!Declare(r)
  PROVE  OneRun(r)'
  <1> DEFINE c == syncState.checkpoint
             P == run[r].page
  <1>0. /\ Quiet /\ run \in [Runner -> E!RunState] /\ run[r] \in E!RunState /\ syncState \in E!SyncStateRow
        /\ source'[r] = IF run'[r].pc \in {"idle", "finish", "fail"} THEN Closed ELSE source[r]
        /\ rejected' = rejected
    BY EngineSource, RunTypes DEF Quiet
  <1>1. /\ run[r].pc = "declare" /\ run'[r] = [run[r] EXCEPT !.pc = "upsert"]
        /\ rows' = rows /\ clock' = clock
        /\ syncState'.checkpoint = syncState.checkpoint /\ syncState'.reconcile = run[r].reconcile
    BY <1>0 DEF E!Declare, E!At, E!Goto, E!SyncStateRow
  <1>2. /\ run'[r].pc = "upsert" /\ run'[r].startedFrom = run[r].startedFrom
        /\ run'[r].retried = run[r].retried /\ run'[r].reconcile = run[r].reconcile
        /\ run'[r].page = run[r].page
    BY <1>0, <1>1 DEF E!RunState
  <1>3. PageOK(P, source[r], c, run[r]) /\ clock > 0
    BY <1>1, PageFacts
  <1>4. (c = None /\ rejected) \/ Stale(c)
    BY <1>1, <1>3 DEF PageOK
  <1>5. Stored'
    <2>1. \A m : Leads(syncState.checkpoint, m)
      BY <1>4 DEF Leads, Stale
    <2>2. \A m : Leads(syncState.checkpoint, m)'
      BY <1>0, <1>1, <2>1, Same DEF Leads
    <2>3. QED
      BY <2>2 DEF Stored
  <1>6. UnitsFit(syncState.checkpoint, syncState.reconcile)'
    <2>1. UnitsFit(P.checkpoint, run[r].reconcile) /\ UnitsFit(c, syncState.reconcile)
      BY <1>3 DEF PageOK, OneRun
    <2>2. UnitsFit(c, run[r].reconcile)
      BY <1>4, <2>1 DEF UnitsFit, Stale
    <2>3. UnitsFit(c, run[r].reconcile)'
      BY <1>0, <1>1, <1>2, <2>2, Same
    <2>4. QED
      BY <1>1, <2>3 DEF UnitsFit
  <1>7. PageOK(P, source[r], c, run[r])'
    <2>1. ASSUME NEW m \in Msg, Visible(m)
          PROVE  Kept(m, run[r].reconcile)' \/ Leads(P.checkpoint, m) \/ m \in P.upserts
      <3>1. Kept(m, run[r].reconcile) \/ Leads(P.checkpoint, m) \/ m \in P.upserts
        BY <1>3, <2>1 DEF PageOK
      <3>2. rows'[m] = rows[m]
        BY <1>1
      <3>3. \A Q : Kept(m, Q) => Kept(m, Q)'
        BY <1>0, <3>2, SameKept
      <3>4. QED
        BY <1>2, <3>1, <3>3 DEF Kept
    <2>2. \A S : /\ S.startedFrom = run[r].startedFrom /\ S.retried = run[r].retried
                 /\ S.reconcile = run[r].reconcile /\ S.pc = "upsert"
                 /\ \A m \in Msg : Visible(m) =>
                      Kept(m, S.reconcile)' \/ Leads(P.checkpoint, m) \/ (S.pc = "upsert" /\ m \in P.upserts)
                 => PageOK(P, source[r], c, S)'
      BY <1>0, <1>1, <1>2, <1>3, PagePasses
    <2>3. QED
      BY <1>2, <2>1, <2>2
  <1>8. RunAt(r)'
    BY <1>0, <1>1, <1>2, <1>3, <1>7 DEF RunAt, OneRun
  <1>9. QED
    BY <1>0, <1>5, <1>6, <1>8, QuietStep

\* Applying a part of the page in hand.
LEMMA PageStep ==
  ASSUME NEW r \in Runner, E!IInv, MailOK, OneRun(r), Quiet, source'[r] = source[r],
         run[r].pc \in {"upsert", "delete"}, run'[r].pc \in {"delete", "advance"},
         run'[r].startedFrom = run[r].startedFrom, run'[r].retried = run[r].retried,
         run'[r].reconcile = run[r].reconcile, run'[r].page = run[r].page,
         syncState' = syncState, clock' = clock, Stored',
         \A m \in Msg : Visible(m) =>
           Kept(m, run[r].reconcile)' \/ Leads(run[r].page.checkpoint, m)
  PROVE  OneRun(r)'
  <1> DEFINE c == syncState.checkpoint
             P == run[r].page
  <1>1. PageOK(P, source[r], c, run[r]) /\ clock > 0 /\ rejected' = rejected
    BY PageFacts DEF Quiet
  <1>2. \A S : /\ S.startedFrom = run[r].startedFrom /\ S.retried = run[r].retried
               /\ S.reconcile = run[r].reconcile /\ S.pc \in {"delete", "advance"}
               /\ \A m \in Msg : Visible(m) => Kept(m, S.reconcile)' \/ Leads(P.checkpoint, m)
               => PageOK(P, source[r], c, S)'
    BY <1>1, PagePasses
  <1>3. PageOK(P, source[r], c, run[r])'
    BY <1>2
  <1>4. RunAt(r)'
    BY <1>1, <1>3 DEF RunAt, OneRun
  <1>5. UnitsFit(syncState.checkpoint, syncState.reconcile)'
    BY Same DEF OneRun
  <1>6. QED
    BY <1>4, <1>5, QuietStep

\* The watermark of a unit is not in the future.
LEMMA Watermarks ==
  ASSUME NEW r \in Runner, E!IInv
  PROVE  /\ \A u \in syncState.reconcile : u.since \in Nat /\ u.since <= clock
         /\ \A u \in run[r].reconcile : u.since \in Nat /\ u.since <= clock
  <1>1. E!GlobalOK /\ E!RunOK(run[r], clock, rows, applied)
    BY DEF E!IInv
  <1>2. /\ \A u \in syncState.reconcile : u.since <= clock
        /\ \A u \in run[r].reconcile : u.since <= clock
    BY <1>1 DEF E!GlobalOK, E!RunOK
  <1>3. QED
    BY <1>2, RunTypes, UnitTypes

LEMMA UpsertStep ==
  ASSUME NEW r \in Runner, E!IInv, MailOK, SourcesOK, OneRun(r), EngineStep(r), E!ApplyUpserts(r)
  PROVE  OneRun(r)'
  <1> DEFINE c == syncState.checkpoint
             P == run[r].page
  <1>0. /\ Quiet /\ run \in [Runner -> E!RunState] /\ run[r] \in E!RunState
        /\ source'[r] = IF run'[r].pc \in {"idle", "finish", "fail"} THEN Closed ELSE source[r]
        /\ clock \in Nat
    BY EngineSource, RunTypes
  <1>1. /\ run[r].pc = "upsert" /\ run'[r] = [run[r] EXCEPT !.pc = "delete", !.touched = @ \cup run[r].page.upserts]
        /\ rows' = [m \in Msg |-> IF m \in run[r].page.upserts THEN clock ELSE rows[m]]
        /\ clock' = clock /\ syncState' = syncState
    BY <1>0 DEF E!ApplyUpserts, E!At
  <1>2. /\ run'[r].pc = "delete" /\ run'[r].startedFrom = run[r].startedFrom
        /\ run'[r].retried = run[r].retried /\ run'[r].reconcile = run[r].reconcile
        /\ run'[r].page = run[r].page
    BY <1>0, <1>1 DEF E!RunState
  <1>3. PageOK(P, source[r], c, run[r]) /\ clock > 0
    BY <1>1, PageFacts
  <1>4. ASSUME NEW m \in Msg, m \in P.upserts, NEW Q, \A u \in Q : u.since \in Nat /\ u.since <= clock
        PROVE  Kept(m, Q)'
    BY <1>0, <1>1, <1>3, <1>4 DEF Kept
  <1>5. ASSUME NEW m \in Msg, m \notin P.upserts PROVE \A Q : Kept(m, Q) => Kept(m, Q)'
    <2>1. rows'[m] = rows[m]
      BY <1>1, <1>5
    <2>2. QED
      BY <1>0, <2>1, SameKept
  <1>6. ASSUME NEW m \in Msg, Visible(m)
        PROVE  Kept(m, run[r].reconcile)' \/ Leads(P.checkpoint, m)
    <2>1. CASE m \in P.upserts
      BY <1>2, <1>4, <2>1, Watermarks
    <2>2. CASE m \notin P.upserts
      BY <1>2, <1>3, <1>5, <1>6, <2>2 DEF PageOK
    <2>3. QED
      BY <2>1, <2>2
  <1>7. Stored'
    <2>1. ASSUME NEW m \in Msg, Visible(m)'
          PROVE  Kept(m, syncState.reconcile)' \/ Leads(syncState.checkpoint, m)'
      <3>1. CASE m \in P.upserts
        BY <1>1, <1>4, <3>1, Watermarks
      <3>2. CASE m \notin P.upserts
        <4>1. Kept(m, syncState.reconcile) \/ Leads(c, m)
          BY <1>0, <2>1, Same DEF OneRun, Stored
        <4>2. Leads(c, m) => Leads(c, m)'
          BY <1>0, <1>1, Same
        <4>3. QED
          BY <1>1, <1>5, <3>2, <4>1, <4>2
      <3>3. QED
        BY <3>1, <3>2
    <2>2. QED
      BY <2>1 DEF Stored
  <1>8. QED
    BY <1>0, <1>1, <1>2, <1>6, <1>7, PageStep

LEMMA DeleteStep ==
  ASSUME NEW r \in Runner, E!IInv, MailOK, SourcesOK, OneRun(r), EngineStep(r), E!ApplyDeletes(r)
  PROVE  OneRun(r)'
  <1> DEFINE c == syncState.checkpoint
             P == run[r].page
  <1>0. /\ Quiet /\ run \in [Runner -> E!RunState] /\ run[r] \in E!RunState
        /\ source'[r] = IF run'[r].pc \in {"idle", "finish", "fail"} THEN Closed ELSE source[r]
    BY EngineSource, RunTypes
  <1>1. /\ run[r].pc = "delete" /\ run'[r] = [run[r] EXCEPT !.pc = "advance", !.touched = @ \ run[r].page.deletes]
        /\ rows' = [m \in Msg |-> IF m \in run[r].page.deletes THEN 0 ELSE rows[m]]
        /\ clock' = clock /\ syncState' = syncState
    BY <1>0 DEF E!ApplyDeletes, E!At
  <1>2. /\ run'[r].pc = "advance" /\ run'[r].startedFrom = run[r].startedFrom
        /\ run'[r].retried = run[r].retried /\ run'[r].reconcile = run[r].reconcile
        /\ run'[r].page = run[r].page
    BY <1>0, <1>1 DEF E!RunState
  <1>3. /\ PageOK(P, source[r], c, run[r]) /\ Known(c) /\ P.checkpoint \in GmailCheckpoint
        /\ P.checkpoint.historyId <= Len(history) /\ Before(c, P.checkpoint)
    BY <1>1, PageFacts DEF PageOK
  <1>4. ASSUME NEW m \in Msg, m \in P.deletes, Visible(m)
        PROVE  Leads(P.checkpoint, m) /\ Leads(c, m)
    <2>1. Leads(P.checkpoint, m)
      BY <1>3, <1>4 DEF PageOK
    <2> HIDE DEF c, P
    <2>2. QED
      BY <1>3, <2>1, BeforeLeads
  <1>5. ASSUME NEW m \in Msg, m \notin P.deletes PROVE \A Q : Kept(m, Q) => Kept(m, Q)'
    <2>1. rows'[m] = rows[m]
      BY <1>1, <1>5
    <2>2. QED
      BY <1>0, <2>1, SameKept
  <1>6. ASSUME NEW m \in Msg, Visible(m)
        PROVE  Kept(m, run[r].reconcile)' \/ Leads(P.checkpoint, m)
    <2>1. CASE m \in P.deletes
      BY <1>4, <1>6, <2>1
    <2>2. CASE m \notin P.deletes
      BY <1>1, <1>2, <1>3, <1>5, <1>6, <2>2 DEF PageOK
    <2>3. QED
      BY <2>1, <2>2
  <1>7. Stored'
    <2>1. ASSUME NEW m \in Msg, Visible(m)'
          PROVE  Kept(m, syncState.reconcile)' \/ Leads(syncState.checkpoint, m)'
      <3>0. Visible(m) /\ (Leads(c, m) => Leads(c, m)')
        BY <1>0, <1>1, <2>1, Same
      <3>1. CASE m \in P.deletes
        BY <1>4, <3>0, <3>1
      <3>2. CASE m \notin P.deletes
        <4>1. Kept(m, syncState.reconcile) \/ Leads(c, m)
          BY <3>0 DEF OneRun, Stored
        <4>2. QED
          BY <1>1, <1>5, <3>0, <3>2, <4>1
      <3>3. QED
        BY <3>1, <3>2
    <2>2. QED
      BY <2>1 DEF Stored
  <1>8. QED
    BY <1>0, <1>1, <1>2, <1>6, <1>7, PageStep

LEMMA AdvanceStep ==
  ASSUME NEW r \in Runner, E!IInv, MailOK, SourcesOK, OneRun(r), E!Settling(r), EngineStep(r),
         E!AdvanceCheckpoint(r)
  PROVE  OneRun(r)'
  <1> DEFINE c == syncState.checkpoint
             P == run[r].page
  <1>0. /\ Quiet /\ run \in [Runner -> E!RunState] /\ run[r] \in E!RunState /\ syncState \in E!SyncStateRow
        /\ source'[r] = IF run'[r].pc \in {"idle", "finish", "fail"} THEN Closed ELSE source[r]
        /\ rejected' = rejected
    BY EngineSource, RunTypes DEF Quiet
  <1>1. PICK l \in IF P.done THEN {"finish", "reconcile"} ELSE {"fetch", "finish"} :
          run' = [run EXCEPT ![r].pc = l, ![r].page = None]
    BY DEF E!AdvanceCheckpoint
  <1>2. /\ run[r].pc = "advance" /\ run'[r].pc = l /\ run'[r].startedFrom = run[r].startedFrom
        /\ run'[r].retried = run[r].retried /\ run'[r].reconcile = run[r].reconcile
        /\ rows' = rows /\ clock' = clock
    BY <1>0, <1>1 DEF E!AdvanceCheckpoint, E!At, E!RunState
  <1>3. /\ PageOK(P, source[r], c, run[r]) /\ P.checkpoint \in GmailCheckpoint /\ clock > 0
        /\ run[r].reconcile = syncState.reconcile
    BY <1>2, PageFacts DEF E!Settling
  <1>4. syncState'.checkpoint = P.checkpoint /\ syncState'.reconcile = syncState.reconcile
    <2>1. P.checkpoint # None
      BY <1>3, MailAssumption
    <2>2. P.checkpoint = run[r].startedFrom => c = P.checkpoint
      BY <1>3 DEF PageOK
    <2>3. QED
      BY <1>0, <2>1, <2>2 DEF E!AdvanceCheckpoint, E!Advances, E!SyncStateRow
  <1>5. Stored'
    <2>1. ASSUME NEW m \in Msg, Visible(m)'
          PROVE  Kept(m, syncState.reconcile)' \/ Leads(syncState.checkpoint, m)'
      <3>1. Visible(m) /\ (Leads(P.checkpoint, m) => Leads(syncState.checkpoint, m)')
        BY <1>0, <1>4, <2>1, Same
      <3>2. Kept(m, run[r].reconcile) \/ Leads(P.checkpoint, m)
        BY <1>2, <1>3, <3>1 DEF PageOK
      <3>3. \A Q : Kept(m, Q) => Kept(m, Q)'
        BY <1>0, <1>2, SameKept
      <3>4. QED
        BY <1>3, <1>4, <3>1, <3>2, <3>3
    <2>2. QED
      BY <2>1 DEF Stored
  <1>6. UnitsFit(syncState.checkpoint, syncState.reconcile)'
    BY <1>0, <1>3, <1>4, Same DEF PageOK
  <1>7. RunAt(r)'
    <2>1. run[r].retried => rejected /\ run[r].startedFrom = None
      BY DEF OneRun, RunAt
    <2>2. CASE l = "finish"
      BY <1>0, <1>2, <2>1, <2>2, PlainPlace
    <2>3. CASE l = "fetch"
      <3>1. ListOK(source[r], P.checkpoint, run[r])
        BY <1>1, <1>3, <2>3 DEF PageOK
      <3>2. ListOK(source[r], syncState.checkpoint, run[r])'
        <4>1. \A S : /\ S.startedFrom = run[r].startedFrom /\ S.retried = run[r].retried
                     /\ S.reconcile = run[r].reconcile
                     => ListOK(source[r], P.checkpoint, S)
          BY <3>1 DEF ListOK, Declared
        <4>2. QED
          BY <1>0, <1>2, <1>4, <2>3, <4>1, Same
      <3>3. QED
        BY <1>0, <1>2, <1>3, <1>4, <2>1, <2>3, <3>2 DEF RunAt
    <2>4. CASE l = "reconcile"
      <3>1. P.checkpoint.backfill = None /\ source[r] = Closed
        BY <1>1, <1>3, <2>4 DEF PageOK
      <3>2. QED
        BY <1>0, <1>2, <1>3, <1>4, <2>1, <2>4, <3>1, MailAssumption DEF RunAt
    <2>5. QED
      BY <1>1, <2>2, <2>3, <2>4
  <1>8. QED
    BY <1>0, <1>5, <1>6, <1>7, QuietStep

\* deleteUntouched of one unit takes nothing that is kept.
LEMMA Spared ==
  ASSUME NEW r \in Runner, E!IInv, MailOK, OneRun(r), NEW u \in run[r].reconcile, E!ReconcileUnit(r, u),
         NEW m \in Msg, Kept(m, syncState.reconcile)
  PROVE  rows'[m] = rows[m] \/ (rows'[m] = 0 /\ ~Steady /\ ReceivedOn[m] < horizon)
  <1>1. /\ run[r].pc = "reconcile"
        /\ rows' = [x \in Msg |-> IF x \in E!Untouched(u) THEN 0 ELSE rows[x]]
    BY DEF E!ReconcileUnit, E!At
  <1>2. u \in syncState.reconcile
    BY <1>1 DEF OneRun, RunAt
  <1>3. CASE m \in E!Untouched(u)
    <2>1. u.scope \in Day /\ u.since \in Nat /\ rows[m] \in Nat /\ ReceivedOn[m] \in Nat
      BY RunTypes, MailAssumption DEF E!Unit
    <2>2. ReceivedOn[m] >= u.scope /\ rows[m] \in 1..(u.since - 1)
      BY <1>3, <2>1 DEF E!Untouched
    <2>3. ~(Steady \/ ReceivedOn[m] >= horizon)
      BY <1>2, <2>1, <2>2 DEF Kept
    <2>4. horizon \in Nat
      BY MailAssumption DEF MailOK, Day
    <2>5. ReceivedOn[m] < horizon
      BY <2>1, <2>3, <2>4
    <2>6. QED
      BY <1>1, <1>3, <2>3, <2>5
  <1>4. CASE m \notin E!Untouched(u)
    BY <1>1, <1>4
  <1>5. QED
    BY <1>3, <1>4

LEMMA ReconcileStep ==
  ASSUME NEW r \in Runner, E!IInv, MailOK, SourcesOK, OneRun(r), EngineStep(r),
         NEW u \in run[r].reconcile, E!ReconcileUnit(r, u)
  PROVE  OneRun(r)'
  <1> DEFINE c == syncState.checkpoint
  <1>0. /\ Quiet /\ run \in [Runner -> E!RunState] /\ run[r] \in E!RunState
        /\ source'[r] = IF run'[r].pc \in {"idle", "finish", "fail"} THEN Closed ELSE source[r]
        /\ horizon' = horizon /\ rejected' = rejected
    BY EngineSource, RunTypes DEF Quiet
  <1>h. horizon \in Nat
    BY MailAssumption DEF MailOK, Day
  <1>1. /\ run[r].pc = "reconcile" /\ run'[r].pc \in {"settle", "reconcile"}
        /\ run'[r].reconcile \subseteq run[r].reconcile
        /\ run'[r].retried = run[r].retried /\ run'[r].startedFrom = run[r].startedFrom
        /\ syncState' = syncState
    BY <1>0 DEF E!ReconcileUnit, E!At, E!RunState
  <1>2. ASSUME NEW m \in Msg, Visible(m)'
        PROVE  Kept(m, syncState.reconcile)' \/ Leads(syncState.checkpoint, m)'
    <2>1. Visible(m) /\ (Leads(c, m) => Leads(c, m)') /\ (Steady' <=> Steady)
      BY <1>0, <1>1, <1>2, Same
    <2>2. Kept(m, syncState.reconcile) \/ Leads(c, m)
      BY <2>1 DEF OneRun, Stored
    <2>3. CASE Kept(m, syncState.reconcile) /\ rows'[m] = rows[m]
      <3>1. \A Q : Kept(m, Q) => Kept(m, Q)'
        BY <1>0, <2>3, SameKept
      <3>2. QED
        BY <1>1, <2>3, <3>1
    <2>4. CASE Kept(m, syncState.reconcile) /\ rows'[m] # rows[m]
      <3>1. ~Steady /\ ReceivedOn[m] < horizon
        BY <2>4, Spared
      <3>2. ~(ReceivedOn[m] >= horizon) /\ ~Steady'
        BY <1>0, <1>h, <2>1, <3>1, MailAssumption
      <3>3. QED
        BY <1>0, <3>2 DEF Kept
    <2>5. QED
      BY <1>1, <2>1, <2>2, <2>3, <2>4
  <1>3. UnitsFit(syncState.checkpoint, syncState.reconcile)'
    BY <1>0, <1>1, Same DEF OneRun
  <1>4. RunAt(r)'
    BY <1>0, <1>1 DEF OneRun, RunAt
  <1>5. Stored'
    BY <1>2 DEF Stored
  <1>6. QED
    BY <1>0, <1>3, <1>4, <1>5, QuietStep

LEMMA SettleStep ==
  ASSUME NEW r \in Runner, E!IInv, MailOK, SourcesOK, OneRun(r), EngineStep(r), E!SettleReconcile(r)
  PROVE  OneRun(r)'
  <1> DEFINE c == syncState.checkpoint
  <1>0. /\ Quiet /\ run \in [Runner -> E!RunState] /\ run[r] \in E!RunState /\ syncState \in E!SyncStateRow
        /\ source'[r] = IF run'[r].pc \in {"idle", "finish", "fail"} THEN Closed ELSE source[r]
        /\ horizon' = horizon /\ rejected' = rejected
    BY EngineSource, RunTypes DEF Quiet
  <1>1. /\ run[r].pc = "settle" /\ run'[r].pc = "finish"
        /\ run'[r].retried = run[r].retried /\ run'[r].startedFrom = run[r].startedFrom
        /\ syncState'.checkpoint = c /\ syncState'.reconcile = {} /\ rows' = rows
    BY <1>0 DEF E!SettleReconcile, E!At, E!Goto, E!RunState, E!SyncStateRow
  <1>2. c # None /\ c.backfill = None
    BY <1>1 DEF OneRun, RunAt
  <1>3. UnitsFit(c, {})
    BY <1>2 DEF OneRun, UnitsFit
  <1>4. UnitsFit(syncState.checkpoint, syncState.reconcile)'
    BY <1>0, <1>1, <1>3, Same
  <1>5. ASSUME NEW m \in Msg, Visible(m)'
        PROVE  Kept(m, syncState.reconcile)' \/ Leads(syncState.checkpoint, m)'
    <2>1. Visible(m) /\ (Leads(c, m) => Leads(c, m)')
      BY <1>0, <1>1, <1>5, Same
    <2>2. Kept(m, syncState.reconcile) \/ Leads(c, m)
      BY <2>1 DEF OneRun, Stored
    <2>3. Kept(m, syncState.reconcile) => Kept(m, {})
      BY DEF Kept
    <2>4. Kept(m, {}) => Kept(m, {})'
      BY <1>0, <1>1, SameKept
    <2>5. QED
      BY <1>1, <2>1, <2>2, <2>3, <2>4
  <1>6. RunAt(r)'
    BY <1>0, <1>1, PlainPlace DEF OneRun, RunAt
  <1>7. QED
    BY <1>0, <1>4, <1>5, <1>6, QuietStep DEF Stored

LEMMA ClearStep ==
  ASSUME NEW r \in Runner, E!IInv, MailOK, SourcesOK, OneRun(r), EngineStep(r), E!ClearCheckpoint(r)
  PROVE  OneRun(r)'
  <1>0. /\ Quiet /\ run \in [Runner -> E!RunState] /\ run[r] \in E!RunState /\ syncState \in E!SyncStateRow
        /\ source'[r] = IF run'[r].pc \in {"idle", "finish", "fail"} THEN Closed ELSE source[r]
        /\ horizon' = horizon /\ rejected' = rejected
    BY EngineSource, RunTypes DEF Quiet
  <1>1. /\ run[r].pc = "clear" /\ run'[r].pc = "fetch"
        /\ run'[r].retried = TRUE /\ run'[r].startedFrom = None
        /\ syncState'.checkpoint = None /\ syncState'.reconcile = syncState.reconcile
        /\ rows' = rows /\ clock' = clock
    BY <1>0 DEF E!ClearCheckpoint, E!At, E!RunState, E!SyncStateRow
  <1>2. rejected /\ source[r] = Closed /\ clock > 0
    BY <1>1 DEF OneRun, RunAt
  <1>3. UnitsFit(None, syncState.reconcile)
    BY <1>2 DEF OneRun, UnitsFit
  <1>4. UnitsFit(syncState.checkpoint, syncState.reconcile)'
    BY <1>0, <1>1, <1>3, Same
  <1>5. Stored'
    BY <1>1 DEF Stored, Leads
  <1>6. RunAt(r)'
    BY <1>0, <1>1, <1>2 DEF RunAt
  <1>7. QED
    BY <1>0, <1>4, <1>5, <1>6, QuietStep

LEMMA EngineOneRun ==
  ASSUME NEW r \in Runner, E!IInv, MailOK, SourcesOK, OneRun(r), E!Settling(r), EngineStep(r)
  PROVE  OneRun(r)'
  <1>1. E!RunStep(r)
    BY EngineSource
  <1>2. QED
    BY <1>1, PlainSteps, EntrySteps, DeclareStep, UpsertStep, DeleteStep, AdvanceStep, ReconcileStep,
       SettleStep, ClearStep
    DEF E!RunStep

-----------------------------------------------------------------------------
(***************************************************************************)
(* The steps of the source.                                                *)
(***************************************************************************)
LEMMA FetchPlace ==
  ASSUME NEW r \in Runner, OneRun(r), run[r].pc = "fetch"
  PROVE  /\ source[r] = Closed => run[r].startedFrom = syncState.checkpoint
         /\ source[r].stage = "list" => ListOK(source[r], syncState.checkpoint, run[r])
         /\ source[r].stage = "get" => GetOK(source[r], syncState.checkpoint, run[r])
         /\ clock > 0
         /\ run[r].retried => rejected /\ run[r].startedFrom = None
  <1>1. /\ \/ source[r] = Closed /\ run[r].startedFrom = syncState.checkpoint
           \/ ListOK(source[r], syncState.checkpoint, run[r])
           \/ GetOK(source[r], syncState.checkpoint, run[r])
        /\ clock > 0
        /\ run[r].retried => rejected /\ run[r].startedFrom = None
    BY DEF OneRun, RunAt
  <1>2. ListOK(source[r], syncState.checkpoint, run[r]) => source[r].stage = "list"
    BY DEF ListOK, ListState
  <1>3. GetOK(source[r], syncState.checkpoint, run[r]) => source[r].stage = "get"
    BY DEF GetOK, GetState
  <1>4. Closed.stage = "closed"
    BY DEF Closed
  <1>5. QED
    BY <1>1, <1>2, <1>3, <1>4

\* A step of the generator that only looks at the mailbox.
LEMMA LookStep ==
  ASSUME NEW r \in Runner, E!IInv, OneRun(r), UNCHANGED engineVars, Quiet, run[r].pc = "fetch",
         \/ ListOK(source[r], syncState.checkpoint, run[r])'
         \/ GetOK(source[r], syncState.checkpoint, run[r])'
  PROVE  OneRun(r)'
  <1>1. /\ rows' = rows /\ syncState' = syncState /\ run' = run /\ clock' = clock /\ rejected' = rejected
    BY DEF engineVars, Quiet
  <1>2. RunAt(r)'
    BY <1>1, FetchPlace DEF RunAt
  <1>3. QED
    BY <1>1, <1>2, LocalStep

\* A listing that begins fixes its window.
LEMMA FreshStep ==
  ASSUME NEW r \in Runner, E!IInv, MailOK, SourcesOK, OneRun(r), run[r].pc = "fetch",
         UNCHANGED <<engineVars, mailVars, rejected>>,
         NEW full \in BOOLEAN, FreshBackfill(r, full),
         \/ syncState.checkpoint = None /\ run[r].startedFrom = None /\ ~full
         \/ /\ Stale(syncState.checkpoint) /\ run[r].startedFrom # None /\ full
            /\ run[r].startedFrom.historyId < Len(history)
  PROVE  OneRun(r)'
  <1> DEFINE c == syncState.checkpoint
             t == Listing("backfill", Len(history), 0, SinceOf(today), full)
  <1>1. /\ box' = box /\ history' = history /\ oldest' = oldest /\ today' = today /\ rejected' = rejected
        /\ rows' = rows /\ syncState' = syncState /\ run' = run /\ clock' = clock
        /\ horizon' = SinceOf(today) + 1
    BY DEF mailVars, engineVars, FreshBackfill
  <1>2. source'[r] = t
    BY DEF FreshBackfill, Open, SourcesOK
  <1>3. Len(history) \in Nat /\ SinceOf(today) \in 0..LastDay
    BY SinceTyped DEF MailOK
  <1>4. t \in ListState
    BY <1>3, ListingTyped
  <1>5. /\ t.mode = "backfill" /\ t.historyId = Len(history) /\ t.cursor = 0
        /\ t.since = SinceOf(today) /\ t.full = full
    BY DEF Listing
  <1>6. (today = FirstDay => SinceOf(today) = SinceOf(FirstDay))
    OBVIOUS
  <1>t. t' = t
    BY <1>1
  <1> HIDE DEF t
  <1>7. InWindow(t.since)'
    BY <1>1, <1>5, <1>6, <1>t DEF InWindow
  <1>8. Stored'
    BY <1>1 DEF Stored, Leads, Stale
  <1>9. UnitsFit(syncState.checkpoint, syncState.reconcile)'
    <2>1. UnitsFit(c, syncState.reconcile) /\ (c = None \/ c.backfill = None)
      BY DEF OneRun, Stale
    <2>2. QED
      BY <1>1, <2>1 DEF UnitsFit
  <1>10. Fresh(t, c, run[r].startedFrom)'
    BY <1>1, <1>5, <1>t DEF Fresh, Stale
  <1>11. ListOK(source[r], syncState.checkpoint, run[r])'
    <2>1. t \in ListState /\ t.historyId <= Len(history) /\ t.cursor = 0
      BY <1>3, <1>4, <1>5
    <2>2. ListOK(t, c, run[r])'
      BY <1>1, <1>7, <1>10, <1>t, <2>1 DEF ListOK
    <2>3. QED
      BY <1>1, <1>2, <1>t, <2>2
  <1>12. RunAt(r)'
    BY <1>1, <1>11, FetchPlace DEF RunAt
  <1>13. (horizon <= SinceOf(today) + 1)'
    BY <1>1, <1>3
  <1>14. BoxFollows'
    BY <1>1 DEF OneRun, BoxFollows
  <1>15. QED
    BY <1>8, <1>9, <1>12, <1>13, <1>14 DEF OneRun

LEMMA HistoryGoneStep ==
  ASSUME NEW r \in Runner, E!IInv, MailOK, SourcesOK, OneRun(r), HistoryGone(r)
  PROVE  OneRun(r)'
  <1> DEFINE c == syncState.checkpoint
             s == source[r]
             b == run[r].startedFrom
  <1>1. /\ run[r].pc = "fetch" /\ s.stage = "list" /\ s.mode = "history" /\ s.historyId < oldest
        /\ FreshBackfill(r, TRUE) /\ UNCHANGED <<engineVars, mailVars, rejected>>
    BY DEF HistoryGone
  <1>2. ListOK(s, c, run[r])
    BY <1>1, FetchPlace
  <1>3. HistoryPlace(s, c, b) /\ s.historyId \in Nat
    BY <1>1, <1>2 DEF ListOK, Fresh, ListState
  <1>4. oldest \in Nat /\ Len(history) \in Nat /\ oldest <= Len(history)
    BY DEF MailOK
  <1>5. b = [historyId |-> s.historyId, backfill |-> None] /\ c # None /\ c.backfill = None
    BY <1>3 DEF HistoryPlace
  <1>6. b.historyId = s.historyId
    BY <1>5
  <1>7. b # None
    <2>1. run[r].startedFrom \in GmailCheckpoint \cup {None}
      BY CheckpointTyped
    <2>2. s.historyId <= MaxLog /\ MaxLog \in Nat
      BY <1>1, PlaceTyped, MailAssumption DEF SourcesOK
    <2>3. [historyId |-> s.historyId, backfill |-> None] \in GmailCheckpoint
      BY <1>3, <2>2 DEF GmailCheckpoint
    <2>4. QED
      BY <1>5, <2>3, MailAssumption
  <1>8. Stale(c)
    BY <1>1, <1>3, <1>4, <1>5 DEF HistoryPlace, Stale
  <1>9. b.historyId < Len(history)
    BY <1>1, <1>3, <1>4, <1>6
  <1>10. QED
    BY <1>1, <1>7, <1>8, <1>9, FreshStep

LEMMA StartStep ==
  ASSUME NEW r \in Runner, E!IInv, MailOK, SourcesOK, OneRun(r), Start(r)
  PROVE  OneRun(r)'
  <1> DEFINE c == syncState.checkpoint
  <1>1. /\ run[r].pc = "fetch" /\ source[r] = Closed /\ UNCHANGED <<engineVars, mailVars, rejected>>
        /\ run[r].startedFrom = c
    BY FetchPlace DEF Start
  <1>2. CASE c = None
    <2>1. FreshBackfill(r, FALSE)
      BY <1>1, <1>2 DEF Start
    <2>2. QED
      BY <1>1, <1>2, <2>1, FreshStep
  <1>3. ASSUME c # None PROVE OneRun(r)'
    <2>1. /\ c \in GmailCheckpoint /\ c.historyId \in Nat /\ c.historyId <= Len(history)
          /\ c.backfill \in Backfill \cup {None} /\ UnitsFit(c, syncState.reconcile)
      BY <1>3, CheckpointTyped DEF GmailCheckpoint, OneRun, UnitsFit
    <2>2. Quiet /\ UNCHANGED engineVars /\ ~run[r].retried
      BY <1>1, <1>3, FetchPlace DEF Start, Quiet
    <2>3. c = [historyId |-> c.historyId, backfill |-> c.backfill]
      BY <2>1 DEF GmailCheckpoint
    <2>4. ASSUME NEW t, source'[r] = t, ListOK(t, c, run[r]) PROVE OneRun(r)'
      <3>1. ListOK(t, c, run[r])'
        BY <2>2, <2>4, Same DEF engineVars
      <3>2. ListOK(source[r], syncState.checkpoint, run[r])'
        BY <2>2, <2>4, <3>1
      <3>3. QED
        BY <1>1, <2>2, <3>2, LookStep
    <2>5. CASE c.backfill = None
      <3> DEFINE t == Listing("history", c.historyId, c.historyId, 0, FALSE)
      <3>1. t \in ListState
        <4>1. 0 \in 0..LastDay
          BY MailAssumption
        <4>2. QED
          BY <2>1, <4>1, ListingTyped
      <3>2. /\ t.mode = "history" /\ t.historyId = c.historyId /\ t.cursor = c.historyId
        BY DEF Listing
      <3>3. source'[r] = t
        BY <1>1, <1>3, <2>5 DEF Start, Open, SourcesOK
      <3> HIDE DEF t
      <3>4. HistoryPlace(t, c, run[r].startedFrom)
        <4>1. oldest \in Nat
          BY DEF MailOK
        <4>2. QED
          BY <1>1, <1>3, <2>1, <2>3, <2>5, <3>2, <4>1 DEF HistoryPlace
      <3>5. ListOK(t, c, run[r])
        BY <2>1, <3>1, <3>2, <3>4 DEF ListOK
      <3>6. QED
        BY <2>4, <3>3, <3>5
    <2>6. CASE c.backfill # None
      <3> DEFINE b == c.backfill
                 t == Listing("backfill", c.historyId, b.pageToken, b.since, b.fullResync)
      <3>1. /\ b \in Backfill /\ b.pageToken \in Nat \ {0} /\ b.since \in 0..LastDay
            /\ b.fullResync \in BOOLEAN
            /\ b = [pageToken |-> b.pageToken, since |-> b.since, fullResync |-> b.fullResync]
        <4>1. b \in Backfill
          BY <2>1, <2>6
        <4> HIDE DEF b
        <4>2. QED
          BY <4>1, MailAssumption DEF Backfill
      <3>2. t \in ListState
        BY <2>1, <3>1, ListingTyped
      <3>3. /\ t.mode = "backfill" /\ t.historyId = c.historyId /\ t.cursor = b.pageToken
            /\ t.since = b.since /\ t.full = b.fullResync
        BY DEF Listing
      <3>4. source'[r] = t
        BY <1>1, <1>3, <2>6 DEF Start, Open, SourcesOK
      <3>5. InWindow(b.since)
        BY <1>3, <2>1, <2>6 DEF UnitsFit
      <3> HIDE DEF t
      <3>6. Beyond(t, t.cursor, run[r].startedFrom)
        BY <1>1, <2>6, <3>1, <3>3 DEF Beyond
      <3>7. c = [historyId |-> t.historyId,
                 backfill |-> [pageToken |-> t.cursor, since |-> t.since, fullResync |-> t.full]]
        BY <2>3, <3>1, <3>3
      <3>8. ListOK(t, c, run[r])
        BY <2>1, <2>2, <3>1, <3>2, <3>3, <3>5, <3>6, <3>7 DEF ListOK, Declared
      <3>9. QED
        BY <2>4, <3>4, <3>8
    <2>7. QED
      BY <2>5, <2>6
  <1>4. QED
    BY <1>2, <1>3

LEMMA FailureSteps ==
  ASSUME NEW r \in Runner, E!IInv, MailOK, MailOK', SourcesOK, OneRun(r),
         TokenRejected(r) \/ RequestFails(r)
  PROVE  OneRun(r)'
  <1> USE DEF E!At, E!Goto, E!FailWith
  <1> DEFINE c == syncState.checkpoint
  <1>0. /\ run \in [Runner -> E!RunState] /\ run[r] \in E!RunState /\ rows \in [Msg -> Nat]
    BY RunTypes
  <1>1. /\ run[r].pc = "fetch" /\ source'[r] = Closed
        /\ UNCHANGED <<account, credential, syncState, rows, clock, applied, mailVars, horizon>>
        /\ rejected' = rejected \/ rejected' = TRUE
    BY DEF TokenRejected, RequestFails, Open, SourcesOK
  <1>2. \/ rejected' = TRUE /\ E!Goto(r, "clear")
        \/ \E b \in BOOLEAN : E!FailWith(r, b)
    BY SameGoto, SameFailWith DEF TokenRejected, RequestFails
  <1>3. PICK l \in {"clear", "fail"}, b \in BOOLEAN :
          /\ run' = [run EXCEPT ![r].pc = l] \/ run' = [run EXCEPT ![r].pc = l, ![r].retryable = b]
          /\ l = "clear" => rejected'
    BY <1>2
  <1>4. run'[r].pc = l /\ run'[r].retried = run[r].retried /\ run'[r].startedFrom = run[r].startedFrom
    BY <1>0, <1>3 DEF E!RunState
  <1>5. /\ box' = box /\ history' = history /\ oldest' = oldest /\ today' = today /\ horizon' = horizon
        /\ syncState' = syncState /\ rows' = rows /\ clock' = clock /\ (rejected => rejected')
        /\ today <= today' /\ horizon <= horizon'
    BY <1>1, MailAssumption DEF mailVars, MailOK, Day
  <1>6. Steady' => Steady
    BY <1>5 DEF Steady
  <1>7. UnitsFit(syncState.checkpoint, syncState.reconcile)'
    BY <1>5, <1>6 DEF OneRun, UnitsFit, InWindow
  <1>8. ASSUME NEW m \in Msg, Visible(m)'
        PROVE  Kept(m, syncState.reconcile)' \/ Leads(syncState.checkpoint, m)'
    <2>1. Kept(m, syncState.reconcile) \/ Leads(c, m)
      BY <1>5, <1>8 DEF Visible, OneRun, Stored
    <2>2. \A Q : Kept(m, Q) => Kept(m, Q)'
      BY <1>5, <1>6 DEF Kept
    <2>3. Leads(c, m) => Leads(c, m)'
      BY <1>5 DEF Leads
    <2>4. QED
      BY <1>5, <2>1, <2>2, <2>3
  <1>9. RunAt(r)'
    BY <1>1, <1>3, <1>4, <1>5, FetchPlace DEF RunAt
  <1>10. /\ BoxFollows' /\ (horizon <= SinceOf(today) + 1)' /\ Stored'
    BY <1>5, <1>8 DEF OneRun, BoxFollows, Stored
  <1>11. QED
    BY <1>7, <1>9, <1>10 DEF OneRun

LEMMA LastOne ==
  ASSUME NEW T \in SUBSET Nat, T # {}, NEW n \in Nat, \A i \in T : i <= n
  PROVE  \E i \in T : \A j \in T : j <= i
  <1> DEFINE D == {n - i : i \in T}
  <1>1. D \in SUBSET Nat /\ D # {}
    <2>1. \A i \in T : i \in Nat /\ i <= n /\ n - i \in Nat
      OBVIOUS
    <2>2. PICK i \in T : TRUE
      OBVIOUS
    <2>3. n - i \in D
      OBVIOUS
    <2>4. QED
      BY <2>1, <2>3
  <1>2. PICK d \in D : \A e \in D : ~(<<e, d>> \in OpToRel(<, Nat))
    BY <1>1, NatLessThanWellFounded, WFMin
  <1>3. PICK i \in T : d = n - i
    BY <1>2
  <1>4. ASSUME NEW j \in T PROVE j <= i
    <2>1. n - j \in D /\ n - j \in Nat
      OBVIOUS
    <2>2. ~(n - j < d)
      BY <1>1, <1>2, <2>1 DEF OpToRel
    <2>3. QED
      BY <1>3, <2>2
  <1>5. QED
    BY <1>4

\* The pending units of a page to come.
LEMMA PlannedFacts ==
  ASSUME NEW r \in Runner, E!IInv, MailOK, NEW s, s.since \in 0..LastDay
  PROVE  LET Q == run[r].reconcile
             declared == (s.mode = "backfill" /\ s.full) \/ run[r].retried
         IN  /\ ~declared => Planned(s, run[r]) = Q
             /\ s.mode = "backfill" /\ declared =>
                  /\ \A u \in Planned(s, run[r]) : u.scope = s.since + 1
                  /\ \E u \in Planned(s, run[r]) : u.scope = s.since + 1
             /\ s.mode = "backfill" /\ (\E u \in Q : u.scope = s.since + 1) => Planned(s, run[r]) = Q
  <1> DEFINE Q == run[r].reconcile
             d == s.since + 1
             declared == (s.mode = "backfill" /\ s.full) \/ run[r].retried
             K == [x \in Day |-> "mail"]
             D == Engine!DeclareResync(Q, {d}, run[r].since)
  <1>1. /\ Q \in SUBSET E!Unit /\ \A u \in Q : u.scope \in Day
        /\ \A u, v \in Q : K[u.scope] = K[v.scope] => u = v
    <2>1. Q \in SUBSET E!Unit /\ E!OneEntryPerUnit(Q)
      BY RunTypes DEF E!RunOK
    <2>2. QED
      BY <2>1 DEF E!Unit, E!OneEntryPerUnit
  <1>2. d \in Day
    BY MailAssumption DEF Day
  <1>3. \A x, y \in Day : K[x] = K[y]
    OBVIOUS
  <1> HIDE DEF K
  <1>4. \A u, v \in Q : u = v
    BY <1>1, <1>3
  <1>5. D = {u \in Q : \A t \in {d} : K[t] = K[u.scope] => t = u.scope}
              \cup {[since |-> run[r].since, scope |-> t] :
                      t \in {x \in {d} : ~\E u \in Q : u.scope = x}}
    BY DEF Engine!DeclareResync, K
  <1> HIDE DEF Q, D, d
  <1>6. \A u \in D : u.scope = d
    <2>1. ASSUME NEW u \in D PROVE u.scope = d
      <3>1. CASE u \in Q /\ \A t \in {d} : K[t] = K[u.scope] => t = u.scope
        <4>1. K[d] = K[u.scope]
          BY <1>1, <1>2, <1>3, <3>1
        <4>2. QED
          BY <3>1, <4>1
      <3>2. CASE \E t \in {d} : u = [since |-> run[r].since, scope |-> t]
        BY <3>2
      <3>3. QED
        BY <1>5, <2>1, <3>1, <3>2
    <2>2. QED
      BY <2>1
  <1>7. \E u \in D : u.scope = d
    <2>1. CASE \E u \in Q : u.scope = d
      <3>1. PICK u \in Q : u.scope = d
        BY <2>1
      <3>2. u \in D
        BY <1>5, <3>1
      <3>3. QED
        BY <3>1, <3>2
    <2>2. CASE ~\E u \in Q : u.scope = d
      <3>1. [since |-> run[r].since, scope |-> d] \in D
        BY <1>5, <2>2
      <3>2. QED
        BY <3>1
    <2>3. QED
      BY <2>1, <2>2
  <1>8. (\E u \in Q : u.scope = d) => D = Q
    <2>1. ASSUME NEW u \in Q, u.scope = d PROVE D = Q
      <3>1. Q = {u}
        BY <1>4, <2>1
      <3>2. u \in D
        BY <1>5, <2>1
      <3>3. \A v \in D : v \in Q
        BY <1>5, <2>1
      <3>4. QED
        BY <3>1, <3>2, <3>3
    <2>2. QED
      BY <2>1
  <1>9. /\ ~declared => Planned(s, run[r]) = Q
        /\ s.mode = "backfill" /\ declared => Planned(s, run[r]) = D
    BY DEF Planned, Q, D, d
  <1>10. QED
    BY <1>6, <1>7, <1>8, <1>9 DEF Q, D, d

\* The listing of s is one that begins, or the one that c is about.
Placed(s, c, R) ==
  /\ s.mode = "backfill" /\ s.since \in 0..LastDay
  /\ InWindow(s.since)
  /\ \/ Fresh(s, c, R.startedFrom)
     \/ /\ c # None /\ c.backfill # None
        /\ c.backfill.since = s.since /\ c.backfill.fullResync = s.full
        /\ Declared(s, R)

LEMMA PlannedScopes ==
  ASSUME NEW r \in Runner, E!IInv, MailOK, NEW s, NEW c, UnitsFit(c, run[r].reconcile),
         Placed(s, c, run[r])
  PROVE  /\ Steady => \A u \in Planned(s, run[r]) : u.scope = s.since + 1
         /\ today = FirstDay => \A u \in Planned(s, run[r]) : u.scope = SinceOf(FirstDay) + 1
         /\ c # None /\ c.backfill # None => Planned(s, run[r]) = run[r].reconcile
         /\ s.full \/ run[r].retried => \E u \in Planned(s, run[r]) : u.scope = s.since + 1
  <1> DEFINE Q == run[r].reconcile
             declared == s.full \/ run[r].retried
  <1>1. /\ ~declared => Planned(s, run[r]) = Q
        /\ declared => /\ \A u \in Planned(s, run[r]) : u.scope = s.since + 1
                       /\ \E u \in Planned(s, run[r]) : u.scope = s.since + 1
        /\ (\E u \in Q : u.scope = s.since + 1) => Planned(s, run[r]) = Q
    BY PlannedFacts DEF Placed
  <1>2. today = FirstDay => (\A u \in Q : u.scope = SinceOf(FirstDay) + 1) /\ s.since = SinceOf(FirstDay)
    BY DEF UnitsFit, Placed, InWindow
  <1>3. today = FirstDay => \A u \in Planned(s, run[r]) : u.scope = SinceOf(FirstDay) + 1
    BY <1>1, <1>2
  <1>4. Steady => \A u \in Planned(s, run[r]) : u.scope = s.since + 1
    <2>1. CASE today = FirstDay
      BY <1>2, <1>3, <2>1
    <2>2. CASE declared
      BY <1>1, <2>2
    <2>3. CASE ~declared /\ ~rejected
      <3>1. CASE c = None
        BY <1>1, <2>3, <3>1 DEF UnitsFit
      <3>2. CASE c # None
        BY <1>1, <2>3, <3>2 DEF UnitsFit, Placed, Fresh, Steady
      <3>3. QED
        BY <3>1, <3>2
    <2>4. QED
      BY <2>1, <2>2, <2>3 DEF Steady
  <1>5. c # None /\ c.backfill # None => Planned(s, run[r]) = Q
    <2>1. ASSUME c # None, c.backfill # None, declared PROVE \E u \in Q : u.scope = s.since + 1
      <3>1. c.backfill.since = s.since /\ c.backfill.fullResync = s.full /\ Declared(s, run[r])
        BY <2>1 DEF Placed, Fresh, Stale
      <3>2. QED
        BY <2>1, <3>1 DEF UnitsFit, Declared
    <2>2. QED
      BY <1>1, <2>1
  <1>6. QED
    BY <1>1, <1>3, <1>4, <1>5

LEMMA SameGet ==
  ASSUME Quiet, rows' = rows, NEW s, NEW c, NEW R, GetOK(s, c, R)
  PROVE  GetOK(s, c, R)'
  <1>1. UNCHANGED <<box, history, oldest, today, horizon, rejected, rows>>
    BY DEF Quiet, mailVars
  <1>2. /\ \A x : InWindow(x)' <=> InWindow(x)
        /\ \A x, d, b : Fresh(x, d, b)' <=> Fresh(x, d, b)
        /\ \A x, d, b : HistoryPlace(x, d, b)' <=> HistoryPlace(x, d, b)
    BY <1>1 DEF InWindow, Fresh, Stale, HistoryPlace
  <1>3. \A m, Q : Kept(m, Q)' <=> Kept(m, Q)
    BY <1>1 DEF Kept, Steady
  <1>4. Planned(s, R)' = Planned(s, R)
    BY DEF Planned, Engine!DeclareResync
  <1>5. /\ \A m : Visible(m)' <=> Visible(m)
        /\ \A d, m : Leads(d, m)' <=> Leads(d, m)
    BY Same
  <1>6. QED
    BY <1>1, <1>2, <1>3, <1>4, <1>5 DEF GetOK, Beyond, Declared

\* What messages.list may answer: the messages it leaves out are older than its
\* token, or outside the window.
LEMMA ListedPage ==
  ASSUME NEW r \in Runner, MailOK, SourcesOK, ListMessages(r)
  PROVE  \E lo \in {source[r].since, source[r].since + 1}, refs \in SUBSET Msg, b \in Backfill \cup {None} :
           LET s == source[r]
               W == {m \in Msg : /\ box[m] = "visible"
                                 /\ ReceivedOn[m] >= lo
                                 /\ s.cursor = 0 \/ m < s.cursor}
           IN  /\ refs \subseteq W
               /\ source'[r] = Listed(s, refs, {}, [historyId |-> s.historyId, backfill |-> b], b = None)
               /\ \A m \in W : m \in refs \/ (b # None /\ m < b.pageToken)
               /\ b # None => b.pageToken \in refs /\ b.since = s.since /\ b.fullResync = s.full
  <1> DEFINE s == source[r]
             W(lo) == {m \in Msg : /\ box[m] = "visible"
                                   /\ ReceivedOn[m] >= lo
                                   /\ s.cursor = 0 \/ m < s.cursor}
             page(refs, b) == Listed(s, refs, {}, [historyId |-> s.historyId, backfill |-> b], b = None)
             back(token) == [pageToken |-> token, since |-> s.since, fullResync |-> s.full]
  <1>1. PICK lo \in {s.since, s.since + 1} : \E refs \in SUBSET W(lo) :
          IF refs = W(lo) THEN Open(r, page(refs, None))
          ELSE /\ IsNewest(refs, W(lo))
               /\ \E token \in refs : (\A o \in refs : token <= o) /\ Open(r, page(refs, back(token)))
    BY DEF ListMessages
  <1>2. PICK refs \in SUBSET W(lo) :
          IF refs = W(lo) THEN Open(r, page(refs, None))
          ELSE /\ IsNewest(refs, W(lo))
               /\ \E token \in refs : (\A o \in refs : token <= o) /\ Open(r, page(refs, back(token)))
    BY <1>1
  <1>3. ASSUME NEW b, Open(r, page(refs, b)) PROVE source'[r] = page(refs, b)
    BY <1>3 DEF Open, SourcesOK
  <1>4. CASE refs = W(lo)
    <2>1. source'[r] = page(refs, None)
      BY <1>2, <1>3, <1>4
    <2> HIDE DEF page
    <2>2. QED
      BY <1>4, <2>1 DEF page
  <1>5. CASE refs # W(lo)
    <2>1. PICK token \in refs : /\ IsNewest(refs, W(lo)) /\ \A o \in refs : token <= o
                                /\ Open(r, page(refs, back(token)))
      BY <1>2, <1>5
    <2>2. source'[r] = page(refs, back(token))
      BY <1>3, <2>1
    <2>3. \A m \in W(lo) : m \in refs \/ m < token
      <3>1. token \in Msg /\ token \in Nat
        BY <1>2, MailAssumption
      <3>2. \A m \in W(lo) : m \in Nat
        BY MailAssumption
      <3>3. QED
        BY <2>1, <3>1, <3>2 DEF IsNewest
    <2>4. ~(None \in Backfill)
      BY MailAssumption
    <2>5. back(token) \in Backfill /\ back(token) # None /\ back(token).pageToken = token /\ back(token).since = s.since
          /\ back(token).fullResync = s.full
      <3>1. token \in Msg /\ s.since \in 0..LastDay /\ s.full \in BOOLEAN
        BY <1>2, PlaceTyped DEF SourcesOK, ListState, ListMessages
      <3>2. back(token) \in Backfill
        BY <3>1 DEF Backfill
      <3>3. QED
        BY <2>4, <3>2
    <2> HIDE DEF page, back
    <2>6. QED
      BY <1>2, <2>1, <2>2, <2>3, <2>5 DEF page
  <1>6. QED
    BY <1>4, <1>5

LEMMA ListMessagesStep ==
  ASSUME NEW r \in Runner, E!IInv, MailOK, SourcesOK, SourcesOK', OneRun(r), E!Settling(r),
         ListMessages(r)
  PROVE  OneRun(r)'
  <1> DEFINE s == source[r]
             c == syncState.checkpoint
             R == run[r]
  <1>1. /\ R.pc = "fetch" /\ s.stage = "list" /\ s.mode = "backfill"
        /\ Quiet /\ UNCHANGED engineVars
    BY DEF ListMessages, Quiet
  <1>2. ListOK(s, c, R)
    BY <1>1, FetchPlace
  <1>3. PICK lo \in {s.since, s.since + 1}, refs \in SUBSET Msg, b \in Backfill \cup {None} :
          LET W == {m \in Msg : /\ box[m] = "visible"
                                /\ ReceivedOn[m] >= lo
                                /\ s.cursor = 0 \/ m < s.cursor}
          IN  /\ refs \subseteq W
              /\ source'[r] = Listed(s, refs, {}, [historyId |-> s.historyId, backfill |-> b], b = None)
              /\ \A m \in W : m \in refs \/ (b # None /\ m < b.pageToken)
              /\ b # None => b.pageToken \in refs /\ b.since = s.since /\ b.fullResync = s.full
    BY ListedPage
  <1> DEFINE n == [historyId |-> s.historyId, backfill |-> b]
             t == Listed(s, refs, {}, n, b = None)
  <1>4. /\ t.stage = "get" /\ t.mode = "backfill" /\ t.since = s.since /\ t.full = s.full
        /\ t.historyId = s.historyId /\ t.ids = refs /\ t.gone = {} /\ t.next = n
        /\ t.last = (b = None) /\ source'[r] = t
        /\ n.historyId = s.historyId /\ n.backfill = b
    BY <1>1, <1>3 DEF Listed
  <1> HIDE DEF n, t
  <1>5. t \in GetState
    <2>1. source'[r] \in SourceState
      BY DEF SourcesOK
    <2>2. QED
      BY <1>4, <2>1, PlaceTyped
  <1>6. /\ s \in ListState /\ s.since \in 0..LastDay /\ s.historyId <= Len(history) /\ InWindow(s.since)
        /\ s.cursor \in Nat
    BY <1>1, <1>2 DEF ListOK, ListState
  <1>7. R.reconcile = syncState.reconcile
    BY <1>1 DEF E!Settling
  <1>8. \/ s.cursor = 0 /\ Fresh(s, c, R.startedFrom)
        \/ /\ s.cursor # 0
           /\ c = [historyId |-> s.historyId,
                   backfill |-> [pageToken |-> s.cursor, since |-> s.since, fullResync |-> s.full]]
           /\ Beyond(s, s.cursor, R.startedFrom) /\ Declared(s, R)
    BY <1>1, <1>2 DEF ListOK, HistoryPlace
  <1>9. c \in GmailCheckpoint \cup {None}
    BY CheckpointTyped
  <1>10. s.cursor # 0 => /\ c # None /\ c.historyId = s.historyId
                         /\ c.backfill # None /\ c.backfill.pageToken = s.cursor
                         /\ c.backfill.since = s.since /\ c.backfill.fullResync = s.full
    <2>1. ASSUME s.cursor # 0 PROVE c # None /\ c.backfill # None
      <3>1. c.backfill = [pageToken |-> s.cursor, since |-> s.since, fullResync |-> s.full]
        BY <1>8, <2>1
      <3>2. s.cursor \in Msg
        BY <1>1, <2>1, PlaceTyped DEF SourcesOK
      <3>3. c.backfill \in Backfill
        BY <1>1, <1>6, <3>1, <3>2 DEF Backfill, ListState
      <3>4. c = [historyId |-> s.historyId, backfill |-> c.backfill]
        BY <1>8, <2>1
      <3>5. s.historyId \in 0..MaxLog
        BY <1>1, <1>6, PlaceTyped, MailAssumption DEF SourcesOK, ListState
      <3>6. c \in GmailCheckpoint
        BY <3>3, <3>4, <3>5 DEF GmailCheckpoint
      <3>7. QED
        BY <3>3, <3>6, MailAssumption
    <2>2. QED
      BY <1>8, <2>1
  <1>11. Placed(s, c, R) /\ Placed(t, c, R) /\ Planned(t, R) = Planned(s, R)
    <2>1. Placed(s, c, R)
      BY <1>1, <1>6, <1>8, <1>10 DEF Placed
    <2>2. \A q : Fresh(s, c, q) => Fresh(t, c, q)
      BY <1>1, <1>4 DEF Fresh
    <2>3. Placed(t, c, R)
      BY <1>1, <1>4, <2>1, <2>2 DEF Placed, Declared
    <2>4. QED
      BY <1>1, <1>4, <2>1, <2>3 DEF Planned
  <1>12. /\ UnitsFit(c, R.reconcile)
         /\ Steady => \A u \in Planned(t, R) : u.scope = s.since + 1
         /\ c # None /\ c.backfill # None => Planned(t, R) = R.reconcile
    <2>1. UnitsFit(c, R.reconcile)
      BY <1>7 DEF OneRun
    <2>2. QED
      BY <1>11, <2>1, PlannedScopes
  <1>13. ASSUME NEW m \in Msg, Visible(m)
         PROVE  m \in refs \/ Leads(n, m) \/ Kept(m, Planned(t, R))
    <2>0. m \in Nat /\ ReceivedOn[m] \in Nat /\ horizon = s.since + 1 /\ lo \in Nat /\ lo <= s.since + 1
      BY <1>3, <1>6, MailAssumption DEF InWindow
    <2>1. CASE ReceivedOn[m] >= lo /\ (s.cursor = 0 \/ m < s.cursor)
      <3>1. m \in refs \/ (b # None /\ m < b.pageToken)
        BY <1>3, <1>13, <2>1 DEF Visible
      <3>2. QED
        BY <1>4, <3>1 DEF Leads
    <2>2. CASE s.cursor # 0 /\ ~(m < s.cursor)
      <3>1. Kept(m, R.reconcile) \/ Leads(c, m)
        BY <1>7, <1>13 DEF OneRun, Stored
      <3>2. Leads(c, m) => Leads(n, m)
        BY <1>4, <1>10, <2>2 DEF Leads
      <3>3. Planned(t, R) = R.reconcile
        BY <1>10, <1>12, <2>2
      <3>4. QED
        BY <3>1, <3>2, <3>3
    <2>3. CASE ~(ReceivedOn[m] >= lo)
      <3>1. ~(ReceivedOn[m] >= horizon) /\ ~(ReceivedOn[m] >= s.since + 1)
        BY <1>6, <2>0, <2>3
      <3>2. QED
        BY <1>12, <3>1 DEF Kept
    <2>4. QED
      BY <2>1, <2>2, <2>3
  <1>14. GetOK(t, c, R)
    <2>1. /\ t.historyId <= Len(history) /\ t.next.historyId <= Len(history)
          /\ t.last => t.next.backfill = None
          /\ \A m \in t.gone : Visible(m) => Leads(t.next, m)
          /\ \A m \in Msg : Visible(m) => m \in t.ids \/ Leads(t.next, m) \/ Kept(m, Planned(t, R))
      BY <1>4, <1>6, <1>13
    <2>2. /\ t.mode = "backfill" /\ InWindow(t.since) /\ t.next.historyId = t.historyId
          /\ ~t.last => /\ t.next.backfill # None
                        /\ t.next.backfill.since = t.since
                        /\ t.next.backfill.fullResync = t.full
      BY <1>3, <1>4, <1>6
    <2>3. \/ Fresh(t, c, R.startedFrom)
          \/ /\ c # None /\ c.backfill # None
             /\ c.historyId = t.historyId
             /\ c.backfill.since = t.since /\ c.backfill.fullResync = t.full
             /\ ~t.last => t.next.backfill.pageToken < c.backfill.pageToken
             /\ Beyond(t, c.backfill.pageToken, R.startedFrom)
             /\ Declared(t, R)
      <3>1. CASE s.cursor = 0
        BY <1>1, <1>4, <1>8, <3>1 DEF Fresh
      <3>2. CASE s.cursor # 0
        <4>1. ~t.last => b.pageToken < s.cursor
          BY <1>3, <1>4, <3>2
        <4>2. QED
          BY <1>4, <1>8, <1>10, <3>2, <4>1 DEF Beyond, Declared
      <3>3. QED
        BY <3>1, <3>2
    <2>4. QED
      BY <1>5, <2>1, <2>2, <2>3 DEF GetOK
  <1>15. GetOK(source[r], syncState.checkpoint, run[r])'
    <2>1. rows' = rows /\ syncState' = syncState /\ run' = run
      BY <1>1 DEF engineVars
    <2>2. QED
      BY <1>1, <1>4, <1>14, <2>1, SameGet
  <1>16. QED
    BY <1>1, <1>15, LookStep

LEMMA PageOfRecords ==
  ASSUME MailOK, NEW k \in Nat, NEW n \in k..Len(history)
  PROVE  /\ Len(SubSeq(history, k + 1, n)) = n - k
         /\ DOMAIN SubSeq(history, k + 1, n) = 1..n - k
         /\ \A i \in 1..n - k : /\ k + i \in 1..Len(history)
                                /\ SubSeq(history, k + 1, n)[i] = history[k + i]
  <1>1. history \in Seq([msg : Msg, kind : Records]) /\ Len(history) \in Nat /\ n \in Nat
    BY DEF MailOK
  <1>2. \A i \in k + 1..n : i \in 1..Len(history) /\ history[i] \in [msg : Msg, kind : Records]
    <2>1. \A i \in 1..Len(history) : history[i] \in [msg : Msg, kind : Records]
      BY <1>1, RecordAt
    <2>2. \A i \in k + 1..n : i \in 1..Len(history)
      BY <1>1
    <2>3. QED
      BY <2>1, <2>2
  <1>3. /\ SubSeq(history, k + 1, n) \in Seq([msg : Msg, kind : Records])
        /\ Len(SubSeq(history, k + 1, n)) = IF k + 1 <= n THEN n - (k + 1) + 1 ELSE 0
        /\ \A i \in 1..n - (k + 1) + 1 : SubSeq(history, k + 1, n)[i] = history[k + 1 + i - 1]
    BY <1>1, <1>2, SubSeqProperties
  <1>4. Len(SubSeq(history, k + 1, n)) = n - k
    BY <1>1, <1>3
  <1>5. DOMAIN SubSeq(history, k + 1, n) = 1..n - k
    BY <1>3, <1>4
  <1>6. ASSUME NEW i \in 1..n - k
        PROVE  k + i \in 1..Len(history) /\ SubSeq(history, k + 1, n)[i] = history[k + i]
    <2>1. i \in 1..n - (k + 1) + 1 /\ k + 1 + i - 1 = k + i
      BY <1>1
    <2>2. SubSeq(history, k + 1, n)[i] = history[k + 1 + i - 1]
      BY <1>3, <2>1
    <2>3. QED
      BY <1>1, <2>1, <2>2
  <1>7. QED
    BY <1>4, <1>5, <1>6

\* planHistory takes a visible message for deleted only when it moves again later.
LEMMA DeletedMoves ==
  ASSUME MailOK, BoxFollows, NEW k \in Nat, NEW n \in k..Len(history),
         NEW m \in Deleted(SubSeq(history, k + 1, n)), Visible(m)
  PROVE  \E i \in n + 1..Len(history) : history[i].msg = m
  <1> DEFINE rec == SubSeq(history, k + 1, n)
  <1>1. /\ Len(rec) = n - k /\ DOMAIN rec = 1..n - k /\ n \in Nat /\ Len(history) \in Nat
        /\ \A i \in 1..n - k : k + i \in 1..Len(history) /\ rec[i] = history[k + i]
    BY PageOfRecords DEF MailOK
  <1> HIDE DEF rec
  <1>2. \A i \in DOMAIN rec : rec[i].msg = m => rec[i].kind # "purged"
    BY <1>1 DEF BoxFollows, Visible
  <1>3. PICK i \in DOMAIN rec :
          /\ rec[i].msg = m /\ rec[i].kind = "hidden"
          /\ \A j \in i + 1..Len(rec) : rec[j].msg = m => rec[j].kind = "purged"
    BY <1>2 DEF Deleted, Moved, Purged, rec
  <1>4. SUFFICES ASSUME \A j \in n + 1..Len(history) : history[j].msg # m
                 PROVE  FALSE
    OBVIOUS
  <1>5. ASSUME NEW j \in k + i + 1..Len(history) PROVE history[j].msg # m
    <2>1. CASE j \in n + 1..Len(history)
      BY <1>4, <2>1
    <2>2. CASE j \notin n + 1..Len(history)
      <3>1. j - k \in i + 1..Len(rec) /\ j - k \in DOMAIN rec /\ j - k \in 1..n - k /\ k + (j - k) = j
        BY <1>1, <1>5, <2>2
      <3>2. rec[j - k] = history[j]
        BY <1>1, <3>1
      <3>3. QED
        BY <1>2, <1>3, <3>1, <3>2
    <2>3. QED
      BY <2>1, <2>2
  <1>6. k + i \in 1..Len(history) /\ rec[i] = history[k + i]
    BY <1>1
  <1>7. history[k + i].kind \in {"added", "shown"}
    BY <1>3, <1>5, <1>6 DEF BoxFollows, Visible
  <1>8. QED
    BY <1>3, <1>6, <1>7

\* A visible message that has moved is fetched with this page, or moves later.
LEMMA MovedFetched ==
  ASSUME MailOK, BoxFollows, NEW k \in Nat, NEW n \in k..Len(history), NEW m \in Msg, Visible(m),
         \E i \in k + 1..Len(history) : history[i].msg = m
  PROVE  \/ m \in ToFetch(SubSeq(history, k + 1, n))
         \/ \E i \in n + 1..Len(history) : history[i].msg = m
  <1> DEFINE rec == SubSeq(history, k + 1, n)
             T == {i \in k + 1..Len(history) : history[i].msg = m}
  <1>1. /\ Len(rec) = n - k /\ DOMAIN rec = 1..n - k /\ n \in Nat /\ Len(history) \in Nat
        /\ \A i \in 1..n - k : k + i \in 1..Len(history) /\ rec[i] = history[k + i]
    BY PageOfRecords DEF MailOK
  <1> HIDE DEF rec
  <1>2. PICK x \in T : \A j \in T : j <= x
    <2>1. T \in SUBSET Nat /\ T # {} /\ \A i \in T : i <= Len(history)
      BY <1>1
    <2> HIDE DEF T
    <2>2. QED
      BY <1>1, <2>1, LastOne
  <1>3. x \in 1..Len(history) /\ x \in k + 1..Len(history) /\ history[x].msg = m
    BY <1>1
  <1>4. \A j \in x + 1..Len(history) : history[j].msg # m
    <2>1. ASSUME NEW j \in x + 1..Len(history), history[j].msg = m PROVE FALSE
      <3>1. j \in T /\ ~(j <= x)
        BY <1>1, <1>3, <2>1
      <3>2. QED
        BY <1>2, <3>1
    <2>2. QED
      BY <2>1
  <1>5. history[x].kind \in {"added", "shown"}
    BY <1>3, <1>4 DEF BoxFollows, Visible
  <1>6. CASE x > n
    BY <1>1, <1>3, <1>6
  <1>7. CASE ~(x > n)
    <2>1. x - k \in DOMAIN rec /\ x - k \in 1..n - k /\ k + (x - k) = x
      BY <1>1, <1>3, <1>7
    <2>2. rec[x - k] = history[x]
      BY <1>1, <2>1
    <2>3. \A j \in x - k + 1..Len(rec) : rec[j].msg # m
      <3>1. ASSUME NEW j \in x - k + 1..Len(rec) PROVE rec[j].msg # m
        <4>1. j \in 1..n - k /\ k + j \in x + 1..Len(history)
          BY <1>1, <2>1
        <4>2. QED
          BY <1>1, <1>4, <4>1
      <3>2. QED
        BY <3>1
    <2>4. Moved(rec, m, {"added", "shown"})
      BY <1>3, <1>5, <2>1, <2>2, <2>3 DEF Moved
    <2>5. ~Purged(rec, m)
      BY <1>1 DEF Purged, BoxFollows, Visible
    <2>6. QED
      BY <2>4, <2>5 DEF ToFetch, rec
  <1>8. QED
    BY <1>6, <1>7

LEMMA ListHistoryStep ==
  ASSUME NEW r \in Runner, E!IInv, MailOK, SourcesOK, SourcesOK', OneRun(r), E!Settling(r),
         ListHistory(r)
  PROVE  OneRun(r)'
  <1> DEFINE s == source[r]
             c == syncState.checkpoint
             R == run[r]
  <1>1. /\ R.pc = "fetch" /\ s.stage = "list" /\ s.mode = "history" /\ s.historyId >= oldest
        /\ Quiet /\ UNCHANGED engineVars
    BY DEF ListHistory, Quiet
  <1>2. ListOK(s, c, R)
    BY <1>1, FetchPlace
  <1>3. /\ s \in ListState /\ s.historyId \in Nat /\ s.cursor \in Nat /\ s.historyId <= Len(history)
        /\ HistoryPlace(s, c, R.startedFrom) /\ c.historyId = s.cursor
    BY <1>1, <1>2 DEF ListOK, ListState, Fresh
  <1>4. PICK n \in s.cursor..Len(history) :
          source'[r] = Listed(s, ToFetch(SubSeq(history, s.cursor + 1, n)),
                              Deleted(SubSeq(history, s.cursor + 1, n)),
                              [historyId |-> n, backfill |-> None], n = Len(history))
    BY DEF ListHistory, Open, SourcesOK
  <1> DEFINE ids == ToFetch(SubSeq(history, s.cursor + 1, n))
             gone == Deleted(SubSeq(history, s.cursor + 1, n))
             d == [historyId |-> n, backfill |-> None]
             t == Listed(s, ids, gone, d, n = Len(history))
  <1>5. /\ t.stage = "get" /\ t.mode = "history" /\ t.since = s.since /\ t.full = s.full
        /\ t.historyId = s.historyId /\ t.ids = ids /\ t.gone = gone /\ t.next = d
        /\ t.last = (n = Len(history)) /\ source'[r] = t
        /\ d.historyId = n /\ d.backfill = None
    BY <1>1, <1>4 DEF Listed
  <1> HIDE DEF d, t
  <1>6. t \in GetState
    <2>1. source'[r] \in SourceState
      BY DEF SourcesOK
    <2>2. QED
      BY <1>5, <2>1, PlaceTyped
  <1>7. /\ oldest \in Nat /\ Len(history) \in Nat /\ n \in Nat /\ s.cursor <= n /\ n <= Len(history)
        /\ BoxFollows /\ c # None /\ c.backfill = None /\ c.historyId = s.cursor
        /\ s.historyId <= s.cursor
    BY <1>3 DEF MailOK, OneRun, HistoryPlace
  <1>8. Planned(t, R) = syncState.reconcile
    <2>1. R.startedFrom # None
      <3>1. R.startedFrom = [historyId |-> s.historyId, backfill |-> None]
        BY <1>3 DEF HistoryPlace
      <3>2. s.historyId <= MaxLog /\ MaxLog \in Nat
        BY <1>3, <1>7, MailAssumption DEF MailOK
      <3>3. [historyId |-> s.historyId, backfill |-> None] \in GmailCheckpoint
        BY <1>3, <3>2 DEF GmailCheckpoint
      <3>4. QED
        BY <3>1, <3>3, MailAssumption
    <2>2. ~R.retried
      BY <1>1, <2>1, FetchPlace
    <2>3. R.reconcile = syncState.reconcile
      BY <1>1 DEF E!Settling
    <2>4. QED
      BY <1>5, <2>2, <2>3 DEF Planned
  <1>9. ASSUME NEW m \in gone, Visible(m) PROVE Leads(d, m)
    <2>1. \E i \in n + 1..Len(history) : history[i].msg = m
      BY <1>3, <1>7, <1>9, DeletedMoves
    <2>2. QED
      BY <1>5, <2>1 DEF Leads
  <1>10. ASSUME NEW m \in Msg, Visible(m) PROVE m \in ids \/ Leads(d, m) \/ Kept(m, syncState.reconcile)
    <2>1. CASE Kept(m, syncState.reconcile)
      BY <2>1
    <2>2. CASE Leads(c, m)
      <3>1. \E i \in s.cursor + 1..Len(history) : history[i].msg = m
        BY <1>1, <1>3, <1>7, <2>2 DEF Leads
      <3>2. m \in ids \/ \E i \in n + 1..Len(history) : history[i].msg = m
        BY <1>3, <1>7, <1>10, <3>1, MovedFetched
      <3>3. QED
        BY <1>5, <3>2 DEF Leads
    <2>3. QED
      BY <1>10, <2>1, <2>2 DEF OneRun, Stored
  <1>11. HistoryPlace(t, c, R.startedFrom)
    BY <1>3, <1>5 DEF HistoryPlace
  <1>12. ~t.last => HistoryPlace(t, t.next, R.startedFrom)
    <2>1. d # None
      <3>1. n <= MaxLog /\ MaxLog \in Nat
        BY <1>7, MailAssumption DEF MailOK
      <3>2. d \in GmailCheckpoint
        BY <1>7, <3>1 DEF d, GmailCheckpoint
      <3>3. QED
        BY <3>2, MailAssumption
    <2>2. s.historyId <= n /\ oldest <= s.historyId /\ (n # Len(history) => n < Len(history))
      BY <1>1, <1>3, <1>7
    <2>3. R.startedFrom = [historyId |-> t.historyId, backfill |-> None]
      BY <1>3, <1>5 DEF HistoryPlace
    <2>4. QED
      BY <1>1, <1>5, <2>1, <2>2, <2>3 DEF HistoryPlace
  <1>13. GetOK(t, c, R)
    <2>1. /\ t.historyId <= Len(history) /\ t.next.historyId <= Len(history)
          /\ t.last => t.next.backfill = None
          /\ c.historyId <= t.next.historyId /\ t.next.backfill = None
      BY <1>3, <1>5, <1>7
    <2>2. /\ \A m \in t.gone : Visible(m) => Leads(t.next, m)
          /\ \A m \in Msg : Visible(m) => m \in t.ids \/ Leads(t.next, m) \/ Kept(m, Planned(t, R))
      BY <1>5, <1>8, <1>9, <1>10
    <2>3. QED
      BY <1>6, <1>11, <1>12, <2>1, <2>2 DEF GetOK
  <1>14. GetOK(source[r], syncState.checkpoint, run[r])'
    <2>1. rows' = rows /\ syncState' = syncState /\ run' = run
      BY <1>1 DEF engineVars
    <2>2. QED
      BY <1>1, <1>5, <1>13, <2>1, SameGet
  <1>15. QED
    BY <1>1, <1>14, LookStep

\* A run takes up a page p that fits its place.
LEMMA YieldStep ==
  ASSUME NEW r \in Runner, OneRun(r), Quiet, run[r].pc = "fetch",
         UNCHANGED <<syncState, rows, clock>>, clock > 0,
         NEW p \in GmailPage, NEW l \in {"declare", "upsert"}, NEW Q, NEW t,
         run'[r].pc = l, run'[r].page = p, run'[r].reconcile = Q,
         run'[r].startedFrom = run[r].startedFrom, run'[r].retried = run[r].retried,
         source'[r] = (IF p.done THEN Closed ELSE t),
         p.checkpoint.historyId <= Len(history),
         p.done => p.checkpoint.backfill = None,
         Before(syncState.checkpoint, p.checkpoint),
         p.checkpoint = run[r].startedFrom => syncState.checkpoint = run[r].startedFrom,
         \A m \in p.deletes : Visible(m) => Leads(p.checkpoint, m),
         \A m \in Msg : Visible(m) => Kept(m, Q) \/ Leads(p.checkpoint, m) \/ m \in p.upserts,
         UnitsFit(p.checkpoint, Q),
         l = "declare" => (syncState.checkpoint = None /\ rejected) \/ Stale(syncState.checkpoint),
         ~p.done => ListOK(t, p.checkpoint, run'[r])
  PROVE  OneRun(r)'
  <1>1. history' = history /\ rejected' = rejected
    BY DEF Quiet, mailVars
  <1>2. /\ Before(syncState.checkpoint, p.checkpoint)'
        /\ \A m \in p.deletes : Visible(m)' => Leads(p.checkpoint, m)'
        /\ UnitsFit(p.checkpoint, Q)'
        /\ l = "declare" => ((syncState.checkpoint = None /\ rejected) \/ Stale(syncState.checkpoint))'
    BY <1>1, Same
  <1>3. ~p.done => ListOK(t, p.checkpoint, run[r])'
    BY Same
  <1>4. ASSUME NEW m \in Msg, Visible(m)'
        PROVE  Kept(m, Q)' \/ Leads(p.checkpoint, m)' \/ m \in p.upserts
    <2>1. Kept(m, Q) => Kept(m, Q)'
      BY SameKept
    <2>2. QED
      BY <1>4, <2>1, Same
  <1>5. PageOK(run[r].page, source[r], syncState.checkpoint, run[r])'
    BY <1>1, <1>2, <1>3, <1>4 DEF PageOK
  <1>6. RunAt(r)'
    BY <1>1, <1>5, FetchPlace DEF RunAt
  <1>7. QED
    BY <1>6, LocalStep

\* The page that GetMessages yields, and what the run does with it.
LEMMA Yielded ==
  ASSUME NEW r \in Runner, E!IInv, MailOK, SourcesOK, GetMessages(r)
  PROVE  \E p \in GmailPage, l \in {"declare", "upsert"} :
           LET s == source[r]
               next == IF s.mode = "backfill" THEN s.next.backfill.pageToken ELSE s.next.historyId
           IN  /\ p.checkpoint = s.next /\ p.done = s.last
               /\ \A m \in s.ids : Visible(m) => m \in p.upserts
               /\ \A m \in p.deletes : Visible(m) => m \in s.gone
               /\ run' = [run EXCEPT ![r].pc = l, ![r].page = p, ![r].reconcile = Planned(s, run[r])]
               /\ l = "declare" => Planned(s, run[r]) # run[r].reconcile
               /\ source'[r] = IF s.last THEN Closed
                               ELSE Listing(s.mode, s.historyId, next, s.since, s.full)
  <1> DEFINE s == source[r]
             visible == {m \in s.ids : box[m] = "visible"}
             hidden == {m \in s.ids : box[m] = "hidden"}
             missing == s.ids \ (visible \cup hidden)
             backfill == s.mode = "backfill"
             dels == s.gone \cup hidden \cup (IF backfill THEN {} ELSE missing)
             p == [upserts |-> visible, deletes |-> dels, checkpoint |-> s.next, done |-> s.last,
                   full |-> backfill /\ s.full, scopes |-> IF backfill THEN ResyncScope(s) ELSE {}]
             Q == IF p.full \/ run[r].retried
                  THEN E!DeclareResync(run[r].reconcile, p.scopes, run[r].since)
                  ELSE run[r].reconcile
             l == IF Q # run[r].reconcile THEN "declare" ELSE "upsert"
             next == IF s.mode = "backfill" THEN s.next.backfill.pageToken ELSE s.next.historyId
  <1>1. s.stage = "get" /\ Engine!FetchPage(r, p)
    BY DEF GetMessages
  <1>2. s \in GetState
    BY <1>1, PlaceTyped DEF SourcesOK
  <1>3. E!FetchPage(r, p)
    BY <1>1, SameFetchPage
  <1>4. run' = [run EXCEPT ![r].pc = l, ![r].page = p, ![r].reconcile = Q]
    BY <1>3 DEF E!FetchPage
  <1>5. source'[r] = IF s.last THEN Closed ELSE Listing(s.mode, s.historyId, next, s.since, s.full)
    BY DEF GetMessages, Open, SourcesOK
  <1>6. p.full = (backfill /\ s.full) /\ p.scopes = (IF backfill THEN {s.since + 1} ELSE {})
        /\ p.checkpoint = s.next /\ p.done = s.last /\ p.upserts = visible /\ p.deletes = dels
    BY DEF ResyncScope
  <1>7. /\ \A m \in s.ids : Visible(m) => m \in visible
        /\ \A m \in dels : Visible(m) => m \in s.gone
    BY DEF Visible
  <1>8. p \in GmailPage
    <2>1. visible \in SUBSET s.ids /\ dels \in SUBSET (s.gone \cup s.ids) /\ backfill \in BOOLEAN
      OBVIOUS
    <2> HIDE DEF visible, hidden, missing, dels, s
    <2>2. QED
      BY <1>2, <2>1, PageOfSource
  <1> HIDE DEF p, visible, dels
  <1>9. Q = Planned(s, run[r])
    BY <1>6 DEF Planned, Engine!DeclareResync, E!DeclareResync
  <1>10. l \in {"declare", "upsert"} /\ (l = "declare" => Planned(s, run[r]) # run[r].reconcile)
    BY <1>9
  <1> HIDE DEF Q, l
  <1>11. QED
    BY <1>4, <1>5, <1>6, <1>7, <1>8, <1>9, <1>10

LEMMA GetMessagesStep ==
  ASSUME NEW r \in Runner, E!IInv, MailOK, SourcesOK, SourcesOK', OneRun(r), E!Settling(r),
         GetMessages(r)
  PROVE  OneRun(r)'
  <1> DEFINE s == source[r]
             c == syncState.checkpoint
             R == run[r]
             b == run[r].startedFrom
             Q == Planned(source[r], run[r])
             d == source[r].next
             next == IF s.mode = "backfill" THEN d.backfill.pageToken ELSE d.historyId
             t == Listing(s.mode, s.historyId, next, s.since, s.full)
  <1>1. /\ R.pc = "fetch" /\ s.stage = "get" /\ Quiet
        /\ UNCHANGED <<syncState, rows, clock>>
    BY DEF GetMessages, Quiet, Engine!FetchPage
  <1>2. GetOK(s, c, R) /\ clock > 0 /\ (R.retried => rejected /\ R.startedFrom = None)
    BY <1>1, FetchPlace
  <1>3. PICK p \in GmailPage, l \in {"declare", "upsert"} :
          /\ p.checkpoint = d /\ p.done = s.last
          /\ \A m \in s.ids : Visible(m) => m \in p.upserts
          /\ \A m \in p.deletes : Visible(m) => m \in s.gone
          /\ run' = [run EXCEPT ![r].pc = l, ![r].page = p, ![r].reconcile = Q]
          /\ l = "declare" => Q # R.reconcile
          /\ source'[r] = IF s.last THEN Closed ELSE t
    BY Yielded
  <1>4. /\ run'[r].pc = l /\ run'[r].page = p /\ run'[r].reconcile = Q
        /\ run'[r].startedFrom = b /\ run'[r].retried = R.retried
    BY <1>3, RunTypes DEF E!RunState
  <1>5. /\ s \in GetState /\ s.since \in 0..LastDay /\ s.historyId \in Nat
        /\ d \in GmailCheckpoint /\ d.historyId \in Nat /\ d # None /\ d.historyId <= Len(history)
        /\ s.historyId <= Len(history) /\ s.full \in BOOLEAN /\ s.mode \in {"backfill", "history"}
        /\ s.last => d.backfill = None
    BY <1>2, MailAssumption DEF GetOK, GetState, GmailCheckpoint
  <1>6. /\ c \in GmailCheckpoint \cup {None} /\ (c # None => c.historyId \in Nat)
        /\ Known(c) /\ UnitsFit(c, R.reconcile) /\ R.reconcile = syncState.reconcile
    <2>1. R.reconcile = syncState.reconcile
      BY <1>1 DEF E!Settling
    <2>2. QED
      BY <2>1, CheckpointTyped DEF OneRun, UnitsFit, Known, GmailCheckpoint
  <1>7. \A m \in p.deletes : Visible(m) => Leads(d, m)
    BY <1>2, <1>3 DEF GetOK
  <1>8. \A m \in Msg : Visible(m) => Kept(m, Q) \/ Leads(d, m) \/ m \in p.upserts
    BY <1>2, <1>3 DEF GetOK
  \* A page of the history.
  <1>9. CASE s.mode # "backfill"
    <2>1. /\ HistoryPlace(s, c, b) /\ d.backfill = None /\ c.historyId <= d.historyId
          /\ ~s.last => HistoryPlace(s, d, b)
      BY <1>2, <1>9 DEF GetOK
    <2>2. /\ s.mode = "history" /\ c # None /\ c.backfill = None
          /\ b = [historyId |-> s.historyId, backfill |-> None] /\ s.historyId <= c.historyId
      BY <2>1 DEF HistoryPlace
    <2>3. b # None
      <3>1. s.historyId <= MaxLog /\ MaxLog \in Nat
        BY <1>5, MailAssumption DEF MailOK
      <3>2. b \in GmailCheckpoint
        BY <1>5, <2>2, <3>1 DEF GmailCheckpoint
      <3>3. QED
        BY <3>2, MailAssumption
    <2>4. ~R.retried /\ Q = R.reconcile /\ l = "upsert"
      <3>1. ~R.retried
        BY <1>2, <2>3
      <3>2. Planned(s, R) = R.reconcile
        BY <1>9, <3>1 DEF Planned
      <3>3. QED
        BY <1>3, <3>1, <3>2
    <2>5. Before(c, d)
      BY <2>1 DEF Before
    <2>6. d = b => c = b
      <3>1. c = [historyId |-> c.historyId, backfill |-> c.backfill]
        BY <1>6, <2>2 DEF GmailCheckpoint
      <3>2. d = b => c.historyId = s.historyId
        BY <1>5, <1>6, <2>1, <2>2
      <3>3. QED
        BY <2>2, <3>1, <3>2
    <2>7. UnitsFit(d, Q)
      BY <1>5, <1>6, <2>1, <2>4 DEF UnitsFit
    <2>8. ~s.last => ListOK(t, d, run'[r])
      <3>1. ASSUME ~s.last PROVE ListOK(t, d, run'[r])
        <4>1. t \in ListState
          BY <1>5, <2>2, ListingTyped
        <4>2. t.mode = "history" /\ t.historyId = s.historyId /\ t.cursor = d.historyId
          BY <2>2 DEF Listing
        <4> HIDE DEF t
        <4>3. HistoryPlace(t, d, b)
          BY <2>1, <3>1, <4>2 DEF HistoryPlace
        <4>4. QED
          BY <1>4, <1>5, <4>1, <4>2, <4>3 DEF ListOK
      <3>2. QED
        BY <3>1
    <2>9. QED
      <3>1. /\ p.checkpoint.historyId <= Len(history) /\ (p.done => p.checkpoint.backfill = None)
            /\ Before(c, p.checkpoint) /\ (p.checkpoint = b => c = b)
            /\ \A m \in p.deletes : Visible(m) => Leads(p.checkpoint, m)
            /\ \A m \in Msg : Visible(m) => Kept(m, Q) \/ Leads(p.checkpoint, m) \/ m \in p.upserts
            /\ UnitsFit(p.checkpoint, Q)
            /\ l = "declare" => (c = None /\ rejected) \/ Stale(c)
            /\ ~p.done => ListOK(t, p.checkpoint, run'[r])
            /\ source'[r] = IF p.done THEN Closed ELSE t
        BY <1>3, <1>5, <1>7, <1>8, <2>4, <2>5, <2>6, <2>7, <2>8
      <3> HIDE DEF Q, t
      <3>2. QED
        BY <1>1, <1>2, <1>4, <3>1, YieldStep
  \* A page of the listing.
  <1>10. CASE s.mode = "backfill"
    <2>1. /\ InWindow(s.since) /\ d.historyId = s.historyId
          /\ ~s.last => /\ d.backfill # None
                        /\ d.backfill.since = s.since
                        /\ d.backfill.fullResync = s.full
          /\ \/ Fresh(s, c, b)
             \/ /\ c # None /\ c.backfill # None
                /\ c.historyId = s.historyId
                /\ c.backfill.since = s.since /\ c.backfill.fullResync = s.full
                /\ ~s.last => d.backfill.pageToken < c.backfill.pageToken
                /\ Beyond(s, c.backfill.pageToken, b)
                /\ Declared(s, R)
      BY <1>2, <1>10 DEF GetOK, HistoryPlace
    <2>2. Placed(s, c, R)
      BY <1>5, <1>10, <2>1 DEF Placed
    <2>3. /\ Steady => \A u \in Q : u.scope = s.since + 1
          /\ today = FirstDay => \A u \in Q : u.scope = SinceOf(FirstDay) + 1
          /\ c # None /\ c.backfill # None => Q = R.reconcile
          /\ s.full \/ R.retried => \E u \in Q : u.scope = s.since + 1
      BY <1>6, <2>2, PlannedScopes
    <2>4. d.backfill # None => /\ ~s.last /\ d.backfill \in Backfill
                               /\ d.backfill.pageToken \in Nat \ {0}
      BY <1>5, MailAssumption DEF GmailCheckpoint, Backfill
    <2>5. c # None /\ c.backfill # None => c.backfill.pageToken \in Nat
      BY <1>6, MailAssumption DEF GmailCheckpoint, Backfill
    <2>6. b # None => b \in GmailCheckpoint /\ b.historyId \in Nat
                      /\ (b.backfill # None => b.backfill.pageToken \in Nat)
      <3>1. run[r].startedFrom \in GmailCheckpoint \cup {None}
        BY CheckpointTyped
      <3>2. QED
        BY <3>1, MailAssumption DEF GmailCheckpoint, Backfill
    <2>7. l = "declare" => (c = None /\ rejected) \/ Stale(c)
      <3>1. CASE c = None /\ ~rejected /\ Fresh(s, c, b)
        <4>1. ~R.retried /\ ~s.full
          BY <1>2, <3>1 DEF Fresh, Stale
        <4>2. Planned(s, R) = R.reconcile
          BY <4>1 DEF Planned
        <4>3. QED
          BY <1>3, <4>2
      <3>2. CASE c # None /\ c.backfill # None
        BY <1>3, <2>3, <3>2
      <3>3. QED
        BY <2>1, <3>1, <3>2 DEF Fresh
    <2>8. Before(c, d)
      BY <1>5, <1>6, <2>1, <2>4, <2>5 DEF Before, Fresh, Stale
    <2>9. d = b => c = b
      <3>1. CASE Fresh(s, c, b)
        BY <1>5, <2>1, <3>1 DEF Fresh
      <3>2. CASE ~Fresh(s, c, b)
        <4>1. /\ ~s.last => d.backfill.pageToken < c.backfill.pageToken
              /\ Beyond(s, c.backfill.pageToken, b) /\ c # None /\ c.backfill # None
          BY <2>1, <3>2
        <4>2. ASSUME d = b PROVE FALSE
          <5>1. b # None /\ b.historyId = s.historyId
            BY <1>5, <2>1, <4>2
          <5>2. b.backfill # None /\ c.backfill.pageToken <= b.backfill.pageToken
            BY <1>5, <4>1, <5>1 DEF Beyond
          <5>3. ~s.last /\ d.backfill.pageToken < c.backfill.pageToken /\ b.backfill.pageToken \in Nat
            BY <2>4, <2>6, <4>1, <4>2, <5>1, <5>2
          <5>4. QED
            BY <2>5, <4>1, <4>2, <5>2, <5>3
        <4>3. QED
          BY <4>2
      <3>3. QED
        BY <3>1, <3>2
    <2>10. UnitsFit(d, Q)
      BY <1>5, <2>1, <2>3, <2>4 DEF UnitsFit
    <2>11. ~s.last => ListOK(t, d, run'[r])
      <3>1. ASSUME ~s.last PROVE ListOK(t, d, run'[r])
        <4>0. d.backfill # None /\ d.backfill.pageToken \in Nat \ {0} /\ d.backfill \in Backfill
          BY <2>1, <2>4, <3>1
        <4>1. t \in ListState
          BY <1>5, <1>10, <4>0, ListingTyped
        <4>2. /\ t.mode = "backfill" /\ t.historyId = s.historyId /\ t.cursor = d.backfill.pageToken
              /\ t.since = s.since /\ t.full = s.full
          BY <1>10 DEF Listing
        <4> HIDE DEF t
        <4>3. d = [historyId |-> t.historyId,
                   backfill |-> [pageToken |-> t.cursor, since |-> t.since, fullResync |-> t.full]]
          <5>1. d = [historyId |-> d.historyId, backfill |-> d.backfill]
            BY <1>5 DEF GmailCheckpoint
          <5>2. d.backfill = [pageToken |-> d.backfill.pageToken, since |-> d.backfill.since,
                              fullResync |-> d.backfill.fullResync]
            BY <4>0 DEF Backfill
          <5>3. QED
            BY <2>1, <3>1, <4>2, <5>1, <5>2
        <4>4. Beyond(t, t.cursor, b)
          <5>1. CASE Fresh(s, c, b)
            BY <4>2, <5>1 DEF Fresh, Beyond
          <5>2. CASE ~Fresh(s, c, b)
            BY <2>1, <2>5, <2>6, <3>1, <4>0, <4>2, <5>2 DEF Beyond
          <5>3. QED
            BY <5>1, <5>2
        <4>5. Declared(t, run'[r])
          BY <1>4, <2>3, <4>2 DEF Declared
        <4>6. QED
          BY <1>4, <1>5, <2>1, <4>0, <4>1, <4>2, <4>3, <4>4, <4>5 DEF ListOK
      <3>2. QED
        BY <3>1
    <2>12. QED
      <3>1. /\ p.checkpoint.historyId <= Len(history) /\ (p.done => p.checkpoint.backfill = None)
            /\ Before(c, p.checkpoint) /\ (p.checkpoint = b => c = b)
            /\ \A m \in p.deletes : Visible(m) => Leads(p.checkpoint, m)
            /\ \A m \in Msg : Visible(m) => Kept(m, Q) \/ Leads(p.checkpoint, m) \/ m \in p.upserts
            /\ UnitsFit(p.checkpoint, Q)
            /\ l = "declare" => (c = None /\ rejected) \/ Stale(c)
            /\ ~p.done => ListOK(t, p.checkpoint, run'[r])
            /\ source'[r] = IF p.done THEN Closed ELSE t
        BY <1>3, <1>5, <1>7, <1>8, <2>7, <2>8, <2>9, <2>10, <2>11
      <3> HIDE DEF Q, t
      <3>2. QED
        BY <1>1, <1>2, <1>4, <3>1, YieldStep
  <1>11. QED
    BY <1>9, <1>10

-----------------------------------------------------------------------------
(***************************************************************************)
(* The invariant, and what it gives.                                       *)
(***************************************************************************)
LEMMA InitOneRun == ASSUME NEW r \in Runner, Init PROVE OneRun(r)
  <1>1. /\ history = <<>> /\ Len(history) = 0 /\ oldest = 0 /\ today = FirstDay /\ horizon = 0
        /\ syncState.checkpoint = None /\ syncState.reconcile = {}
        /\ run[r] = Engine!IdleRun /\ source[r] = Closed
    BY DEF Init, Engine!Init
  <1>2. horizon <= SinceOf(today) + 1
    <2>1. SinceOf(FirstDay) \in Nat
      BY MailAssumption, SinceGrows
    <2>2. QED
      BY <1>1, <2>1
  <1>3. BoxFollows
    BY <1>1 DEF BoxFollows
  <1>4. Stored
    BY <1>1 DEF Stored, Leads
  <1>5. UnitsFit(syncState.checkpoint, syncState.reconcile)
    BY <1>1 DEF UnitsFit
  <1>6. RunAt(r)
    BY <1>1 DEF RunAt, Engine!IdleRun
  <1>7. QED
    BY <1>2, <1>3, <1>4, <1>5, <1>6 DEF OneRun

LEMMA NextOneRun ==
  ASSUME NEW r, Runner = {r}, E!IInv, MailOK, SourcesOK, E!Settling(r), OneRun(r), [Next]_vars
  PROVE  OneRun(r)'
  <1>0. r \in Runner /\ MailOK' /\ SourcesOK'
    BY MailStep, SourcesStep
  <1>1. CASE UNCHANGED vars
    <2>1. Quiet /\ UNCHANGED <<syncState, rows, run, clock, source, rejected, history>>
      BY <1>1 DEF vars, engineVars, mailVars, Quiet
    <2>2. ListOK(source[r], syncState.checkpoint, run[r]) => ListOK(source[r], syncState.checkpoint, run[r])'
      BY <2>1, Same
    <2>3. GetOK(source[r], syncState.checkpoint, run[r]) => GetOK(source[r], syncState.checkpoint, run[r])'
      BY <2>1, SameGet
    <2>4. PageOK(run[r].page, source[r], syncState.checkpoint, run[r])
            => PageOK(run[r].page, source[r], syncState.checkpoint, run[r])'
      <3>1. \A m, Q : Kept(m, Q)' <=> Kept(m, Q)
        BY <1>1 DEF Kept, Steady, vars, mailVars, engineVars
      <3>2. \A P, s, c, R : PageOK(P, s, c, R) => PageOK(P, s, c, R)'
        BY <2>1, <3>1, Same DEF PageOK
      <3>3. QED
        BY <2>1, <3>2
    <2>5. RunAt(r)'
      BY <2>1, <2>2, <2>3, <2>4 DEF OneRun, RunAt
    <2>6. QED
      BY <1>0, <2>1, <2>5, LocalStep
  <1>2. CASE Mailbox
    BY <1>0, <1>2, MailboxStep
  <1>3. CASE EngineStep(r)
    BY <1>0, <1>3, EngineOneRun
  <1>4. CASE Start(r)
    BY <1>0, <1>4, StartStep
  <1>5. CASE ListMessages(r)
    BY <1>0, <1>5, ListMessagesStep
  <1>6. CASE ListHistory(r)
    BY <1>0, <1>6, ListHistoryStep
  <1>7. CASE HistoryGone(r)
    BY <1>0, <1>7, HistoryGoneStep
  <1>8. CASE GetMessages(r)
    BY <1>0, <1>8, GetMessagesStep
  <1>9. CASE TokenRejected(r) \/ RequestFails(r)
    BY <1>0, <1>9, FailureSteps
  <1>10. QED
    BY <1>1, <1>2, <1>3, <1>4, <1>5, <1>6, <1>7, <1>8, <1>9 DEF Next

LEMMA OneRunInvariant ==
  ASSUME NEW r, Runner = {r}
  PROVE  Spec => [](E!IInv /\ MailOK /\ SourcesOK /\ E!Settling(r) /\ OneRun(r))
  <1>1. Init => E!Settling(r) /\ OneRun(r)
    <2> SUFFICES ASSUME Init PROVE E!Settling(r) /\ OneRun(r)
      OBVIOUS
    <2>1. OneRun(r)
      BY InitOneRun
    <2>2. run[r].pc = "idle"
      BY DEF Init, Engine!Init, Engine!IdleRun
    <2>3. E!Settling(r)
      BY <2>2 DEF E!Settling
    <2>4. QED
      BY <2>1, <2>3
  <1>2. /\ E!IInv /\ MailOK /\ SourcesOK /\ (E!IInv /\ MailOK /\ SourcesOK)'
        /\ E!Settling(r) /\ OneRun(r) /\ [Next]_vars
        => E!Settling(r)' /\ OneRun(r)'
    BY NextOneRun, StepRefines, EngineAssumptions, E!SettlingStep
  <1>3. QED
    BY <1>1, <1>2, TypesInvariant, PTL DEF Spec

\* "A crash never loses data": at any instant, whatever the mailbox, the provider
\* and the clock do between two steps, and wherever a run was killed, failed or
\* stopped, every message that Gmail shows inside a window a listing has covered is
\* stored, or the stored checkpoint still leads to it.
THEOREM NoMailSkipped ==
  ASSUME NEW r, Runner = {r} PROVE Spec => []NothingSkipped
  <1>1. Stored /\ MailOK => NothingSkipped
    <2> SUFFICES ASSUME Stored, MailOK, NEW m \in Msg, box[m] = "visible", ReceivedOn[m] >= horizon
                 PROVE  rows[m] # 0 \/ Pending(m) \/ StillToList(m)
      BY DEF NothingSkipped
    <2>1. Kept(m, syncState.reconcile) \/ Leads(syncState.checkpoint, m)
      BY DEF Stored, Visible
    <2>2. QED
      BY <2>1 DEF Kept, Leads, Pending, StillToList
  <1>2. MailOK /\ OneRun(r) => NothingSkipped
    BY <1>1 DEF OneRun
  <1>3. QED
    BY <1>2, OneRunInvariant, PTL

\* A full resync takes away no message that Gmail shows, unless the history still
\* to be read brings it back: as long as no page token has been rejected, or the
\* window has not moved since.
THEOREM ReconcileSpares ==
  ASSUME NEW r, Runner = {r} PROVE Spec => ReconcileSparesVisible
  <1>1. ASSUME E!IInv, MailOK, OneRun(r), Steady, NEW u \in run[r].reconcile, Engine!ReconcileUnit(r, u),
               NEW m \in Msg, rows[m] # 0, rows'[m] = 0, box[m] = "visible"
        PROVE  Pending(m)
    <2>1. r \in Runner /\ E!ReconcileUnit(r, u) /\ run[r].pc = "reconcile"
      BY <1>1, SameReconcile DEF E!ReconcileUnit, E!At
    <2>2. ~Kept(m, syncState.reconcile)
      BY <1>1, <2>1, Spared
    <2>3. Leads(syncState.checkpoint, m)
      BY <1>1, <2>2 DEF OneRun, Stored, Visible
    <2>4. QED
      BY <1>1, <2>1, <2>3 DEF OneRun, RunAt, Leads, Pending
  <1>2. E!IInv /\ MailOK /\ OneRun(r) /\ [Next]_vars => [SparesStep]_vars
    BY <1>1 DEF SparesStep, Spares, Steady
  <1>3. QED
    BY <1>2, OneRunInvariant, PTL DEF Spec, ReconcileSparesVisible

=============================================================================
