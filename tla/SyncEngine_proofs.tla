-------------------------- MODULE SyncEngine_proofs --------------------------
(***************************************************************************)
(* Proofs about SyncEngine, for every set of runs, rows, checkpoints,      *)
(* scopes and pages: type correctness, apply-before-checkpoint, and that a *)
(* pass never reconciles away a row it has touched itself.                 *)
(***************************************************************************)
EXTENDS SyncEngine, TLAPS

\* What DeclareResync returns is again a well-formed list of pending units,
\* and its watermarks are old ones or the one it was given.
LEMMA DeclareResyncLemma ==
  ASSUME NEW pending \in SUBSET Unit, NEW scopes \in SUBSET Scope,
         NEW since \in Nat,
         OneEntryPerUnit(pending),
         \A s, t \in scopes : UnitKey[s] = UnitKey[t] => s = t
  PROVE  /\ DeclareResync(pending, scopes, since) \in SUBSET Unit
         /\ OneEntryPerUnit(DeclareResync(pending, scopes, since))
         /\ \A u \in DeclareResync(pending, scopes, since) :
              u \in pending \/ u.since = since
  <1> DEFINE known(s) == \E u \in pending : u.scope = s
             kept == {u \in pending : \A s \in scopes :
                        UnitKey[s] = UnitKey[u.scope] => s = u.scope}
             new == {[since |-> since, scope |-> s] :
                       s \in {x \in scopes : ~known(x)}}
  <1>1. DeclareResync(pending, scopes, since) = kept \cup new
    BY DEF DeclareResync
  <1>2. kept \subseteq pending /\ kept \subseteq Unit
    OBVIOUS
  <1>3. \A u \in new : /\ u \in Unit /\ u.since = since
                       /\ u.scope \in scopes /\ ~known(u.scope)
    BY DEF Unit
  <1>4. ASSUME NEW u \in kept \cup new, NEW v \in kept \cup new,
               UnitKey[u.scope] = UnitKey[v.scope]
        PROVE  u = v
    <2>1. CASE u \in kept /\ v \in kept
      BY <2>1, <1>2, <1>4 DEF OneEntryPerUnit
    <2>2. CASE u \in new /\ v \in new
      <3>1. u.scope = v.scope
        BY <2>2, <1>3, <1>4
      <3>2. QED
        BY <2>2, <3>1
    <2>3. CASE u \in kept /\ v \in new
      <3>1. v.scope = u.scope
        BY <2>3, <1>3, <1>4
      <3>2. QED
        BY <2>3, <3>1, <1>3
    <2>4. CASE u \in new /\ v \in kept
      <3>1. u.scope = v.scope
        BY <2>4, <1>3, <1>4
      <3>2. QED
        BY <2>4, <3>1, <1>3
    <2>5. QED
      BY <2>1, <2>2, <2>3, <2>4
  <1> HIDE DEF kept, new
  <1>5. QED
    BY <1>1, <1>2, <1>3, <1>4 DEF OneEntryPerUnit

-----------------------------------------------------------------------------
(***************************************************************************)
(* The inductive invariant.  RunOK is what holds of the locals s of a run  *)
(* when the clock shows now, the rows carry the stamps st and the pages of *)
(* the checkpoints app have been applied.                                  *)
(***************************************************************************)
HoldsPage == {"declare", "upsert", "delete", "advance"}
NotStarted == {"idle", "read", "mark"}
NotPaging == NotStarted \cup {"park", "fail"}

RunOK(s, now, st, app) ==
  /\ s \in RunState
  /\ OneEntryPerUnit(s.reconcile)
  /\ s.pc \in HoldsPage => s.page \in Page
  /\ s.pc = "advance" => s.page.checkpoint \in app \cup {None}
  /\ s.since <= now
  /\ \A u \in s.reconcile : u.since <= now
  /\ s.pc \notin NotPaging => \A u \in s.reconcile : u.since <= s.since
  /\ \A x \in s.touched : st[x] = 0 \/ st[x] >= s.since
  /\ s.pc \in NotStarted => s.touched = {}

GlobalOK ==
  /\ account \in AccountStatus
  /\ credential \in {"missing", "valid", "expired"}
  /\ syncState \in SyncStateRow
  /\ OneEntryPerUnit(syncState.reconcile)
  /\ \A u \in syncState.reconcile : u.since <= clock
  /\ syncState.checkpoint \in applied \cup {None}
  /\ rows \in [Row -> Nat]
  /\ clock \in Nat
  /\ applied \in SUBSET Checkpoint

IInv ==
  /\ GlobalOK
  /\ run \in [Runner -> RunState]
  /\ \A r \in Runner : RunOK(run[r], clock, rows, applied)

LEMMA IInvTypeOK == IInv => TypeOK /\ CheckpointOnlyAfterApply
  BY DEF IInv, GlobalOK, RunOK, TypeOK, CheckpointOnlyAfterApply

LEMMA InitIInv == Init => IInv
  <1> SUFFICES ASSUME Init PROVE IInv
    OBVIOUS
  <1>1. IdleRun \in RunState
    BY TimeAssumption DEF IdleRun, RunState, PCs
  <1>2. GlobalOK
    BY TimeAssumption, NoneAssumption
    DEF Init, GlobalOK, AccountStatus, SyncStateRow, OneEntryPerUnit
  <1>3. RunOK(IdleRun, clock, rows, applied)
    BY <1>1 DEF Init, RunOK, IdleRun, HoldsPage, NotPaging, NotStarted,
                OneEntryPerUnit
  <1>4. QED
    BY <1>1, <1>2, <1>3 DEF Init, IInv

\* The clock never goes back, applied checkpoints stay applied, and a row is
\* kept, removed, or stamped with the time of the write.
Monotone ==
  /\ clock <= clock'
  /\ applied \subseteq applied'
  /\ \A x \in Row : rows'[x] \in {rows[x], 0, clock'}

\* A run that takes no part in a step keeps what holds of it.
LEMMA Frame ==
  ASSUME NEW s, RunOK(s, clock, rows, applied), GlobalOK, GlobalOK', Monotone
  PROVE  RunOK(s, clock', rows', applied')
  <1>1. \A u \in s.reconcile : u.since \in Nat
    BY DEF RunOK, RunState, Unit
  <1>2. \A u \in s.reconcile : u.since <= clock'
    BY <1>1 DEF RunOK, Monotone, GlobalOK
  <1>3. s.since \in Nat /\ s.touched \subseteq Row
    BY DEF RunOK, RunState
  <1>4. s.since <= clock'
    BY <1>3 DEF RunOK, Monotone, GlobalOK
  <1>5. \A x \in s.touched : rows'[x] = 0 \/ rows'[x] >= s.since
    BY <1>3, <1>4 DEF RunOK, Monotone, GlobalOK
  <1>6. QED
    BY <1>2, <1>4, <1>5 DEF RunOK, Monotone

\* One run changes its locals to s, the others keep theirs.
LEMMA RunStepFrame ==
  ASSUME NEW r \in Runner, NEW s, IInv, GlobalOK', Monotone,
         run' = [run EXCEPT ![r] = s],
         RunOK(s, clock', rows', applied')
  PROVE  IInv'
  <1>1. s \in RunState
    BY DEF RunOK
  <1>2. run' \in [Runner -> RunState]
    BY <1>1 DEF IInv
  <1>3. ASSUME NEW q \in Runner PROVE RunOK(run'[q], clock', rows', applied')
    <2>1. CASE q = r
      BY <2>1 DEF IInv
    <2>2. CASE q # r
      <3>1. run'[q] = run[q]
        BY <2>2 DEF IInv
      <3>2. QED
        BY <3>1, Frame DEF IInv
    <2>3. QED
      BY <2>1, <2>2
  <1>4. QED
    BY <1>2, <1>3 DEF IInv

-----------------------------------------------------------------------------
(***************************************************************************)
(* Steps that touch no page and no pending list: the run moves to another  *)
(* location, or forgets its locals.                                        *)
(***************************************************************************)
LEMMA IdleRunOK ==
  ASSUME GlobalOK, GlobalOK' PROVE RunOK(IdleRun, clock', rows', applied')
  <1>1. IdleRun \in RunState
    BY TimeAssumption DEF IdleRun, RunState, PCs
  <1>2. QED
    BY <1>1 DEF GlobalOK, RunOK, IdleRun, HoldsPage, NotPaging, NotStarted,
                OneEntryPerUnit

LEMMA StopStep ==
  ASSUME NEW r \in Runner, IInv, GlobalOK', Monotone, Stop(r)
  PROVE  IInv'
  BY IdleRunOK, RunStepFrame DEF Stop, IInv

\* Steps of a run that leave the database alone.
Local == UNCHANGED <<account, credential, syncState, rows, clock, applied>>

LEMMA LocalGlobal ==
  ASSUME GlobalOK, Local PROVE GlobalOK' /\ Monotone
  BY DEF GlobalOK, Local, Monotone

LEMMA BeginIInv ==
  ASSUME NEW r \in Runner, NEW force \in BOOLEAN, IInv, Begin(r, force)
  PROVE  IInv'
  <1> DEFINE s == [run[r] EXCEPT !.pc = "read", !.force = force]
  <1>1. GlobalOK' /\ Monotone
    BY LocalGlobal DEF IInv, Begin, Local
  <1>2. s \in RunState
    BY DEF IInv, RunState, PCs
  <1>3. RunOK(s, clock', rows', applied')
    BY <1>2 DEF IInv, Begin, At, RunOK, RunState, HoldsPage, NotPaging, NotStarted
  <1>4. run' = [run EXCEPT ![r] = s]
    BY DEF Begin, IInv
  <1>5. QED
    BY <1>1, <1>3, <1>4, RunStepFrame

\* A run that moves on without changing what RunOK relates.
LEMMA MoveOK ==
  ASSUME NEW r \in Runner, IInv, NEW l \in PCs, NEW b \in BOOLEAN,
         l \notin HoldsPage \cup NotStarted,
         l \notin NotPaging => run[r].pc \notin NotPaging
  PROVE  /\ RunOK([run[r] EXCEPT !.pc = l], clock, rows, applied)
         /\ RunOK([run[r] EXCEPT !.pc = l, !.retryable = b], clock, rows, applied)
  <1>1. run[r] \in RunState /\ RunOK(run[r], clock, rows, applied)
    BY DEF IInv
  <1>2. /\ [run[r] EXCEPT !.pc = l] \in RunState
        /\ [run[r] EXCEPT !.pc = l, !.retryable = b] \in RunState
    BY <1>1 DEF RunState
  <1>3. QED
    BY <1>1, <1>2 DEF RunOK, RunState, HoldsPage, NotStarted

LEMMA FailWithIInv ==
  ASSUME NEW r \in Runner, NEW b \in BOOLEAN, IInv, GlobalOK', Monotone,
         FailWith(r, b)
  PROVE  IInv'
  <1> DEFINE s == [run[r] EXCEPT !.pc = "fail", !.retryable = b]
  <1>1. RunOK(s, clock, rows, applied)
    BY MoveOK DEF PCs, HoldsPage, NotStarted, NotPaging
  <1>2. RunOK(s, clock', rows', applied')
    BY <1>1, Frame DEF IInv
  <1>3. run' = [run EXCEPT ![r] = s]
    BY DEF FailWith, IInv
  <1>4. QED
    BY <1>2, <1>3, RunStepFrame

LEMMA GotoIInv ==
  ASSUME NEW r \in Runner, NEW l \in PCs, IInv, GlobalOK', Monotone,
         l \notin HoldsPage \cup NotStarted,
         l \notin NotPaging => run[r].pc \notin NotPaging,
         Goto(r, l)
  PROVE  IInv'
  <1> DEFINE s == [run[r] EXCEPT !.pc = l]
  <1>1. RunOK(s, clock, rows, applied)
    BY MoveOK
  <1>2. RunOK(s, clock', rows', applied')
    BY <1>1, Frame DEF IInv
  <1>3. run' = [run EXCEPT ![r] = s]
    BY DEF Goto, IInv
  <1>4. QED
    BY <1>2, <1>3, RunStepFrame

LEMMA ParkWithIInv ==
  ASSUME NEW r \in Runner, IInv, GlobalOK', Monotone,
         run' = [run EXCEPT ![r].pc = "park", ![r].retryable = FALSE]
  PROVE  IInv'
  <1> DEFINE s == [run[r] EXCEPT !.pc = "park", !.retryable = FALSE]
  <1>1. RunOK(s, clock, rows, applied)
    BY MoveOK DEF PCs, HoldsPage, NotStarted, NotPaging
  <1>2. RunOK(s, clock', rows', applied')
    BY <1>1, Frame DEF IInv
  <1>3. run' = [run EXCEPT ![r] = s]
    BY DEF IInv
  <1>4. QED
    BY <1>2, <1>3, RunStepFrame

LEMMA SkipIInv ==
  ASSUME NEW r \in Runner, IInv, Skip(r) PROVE IInv'
  BY LocalGlobal, StopStep DEF Skip, Local, IInv

LEMMA ReadStateIInv ==
  ASSUME NEW r \in Runner, IInv, ReadState(r) PROVE IInv'
  <1> DEFINE s == [run[r] EXCEPT !.pc = "mark", !.force = FALSE,
                     !.failures = syncState.failures,
                     !.startedFrom = syncState.checkpoint,
                     !.reconcile = syncState.reconcile]
  <1>1. GlobalOK' /\ Monotone
    BY LocalGlobal DEF IInv, ReadState, Local
  <1> run[r] \in RunState /\ syncState \in SyncStateRow
    BY DEF IInv, GlobalOK
  <1>2. s \in RunState
    BY DEF RunState, SyncStateRow, PCs
  <1>3. RunOK(s, clock', rows', applied')
    BY <1>2 DEF IInv, GlobalOK, ReadState, At, RunOK, RunState, HoldsPage,
                NotPaging, NotStarted
  <1>4. run' = [run EXCEPT ![r] = s]
    BY DEF ReadState, IInv
  <1>5. QED
    BY <1>1, <1>3, <1>4, RunStepFrame

LEMMA NoConnectorIInv ==
  ASSUME NEW r \in Runner, IInv, NoConnector(r) PROVE IInv'
  BY LocalGlobal, FailWithIInv DEF NoConnector, Local, IInv

\* The new watermark is above every stamp and every pending unit.
LEMMA MarkRunningIInv ==
  ASSUME NEW r \in Runner, IInv, MarkRunning(r) PROVE IInv'
  <1> DEFINE s == [run[r] EXCEPT !.pc = "credential", !.since = clock']
  <1>1. clock \in Nat /\ clock' = clock + 1
    BY DEF IInv, GlobalOK, MarkRunning
  <1>2. \A u \in syncState.reconcile : u.since \in Nat /\ u.since <= clock
    BY DEF IInv, GlobalOK, SyncStateRow, Unit
  <1>3. syncState' \in SyncStateRow
    <2>1. syncState \in SyncStateRow
      BY DEF IInv, GlobalOK
    <2>2. syncState' = [syncState EXCEPT !.status = "running", !.age = 0]
      BY DEF MarkRunning
    <2>3. 0 \in (0..BackoffMax) \cup {None}
      BY TimeAssumption
    <2> DEFINE age == (0..BackoffMax) \cup {None}
               failures == 0..FailureCap
    <2>4. /\ 0 \in age
          /\ SyncStateRow = [enabled : BOOLEAN,
               status : {"idle", "running", "error"}, age : age,
               checkpoint : Checkpoint \cup {None}, reconcile : SUBSET Unit,
               failures : failures, retryable : BOOLEAN]
      BY <2>3 DEF SyncStateRow
    <2> HIDE DEF age, failures
    <2>5. QED
      BY <2>1, <2>2, <2>4
  <1>4. syncState'.reconcile = syncState.reconcile
        /\ syncState'.checkpoint = syncState.checkpoint
    BY DEF IInv, GlobalOK, MarkRunning, SyncStateRow
  <1>5. GlobalOK'
    BY <1>1, <1>2, <1>3, <1>4 DEF IInv, GlobalOK, MarkRunning, OneEntryPerUnit
  <1>6. Monotone
    BY <1>1 DEF Monotone, MarkRunning
  <1>7. s \in RunState
    <2>1. run[r] \in RunState /\ clock' \in Nat
      BY <1>1 DEF IInv
    <2>2. QED
      BY <2>1 DEF RunState, PCs
  <1>8. \A u \in run[r].reconcile : u.since \in Nat /\ u.since <= clock
    BY DEF IInv, RunOK, RunState, Unit
  <1>9. RunOK(s, clock', rows', applied')
    BY <1>1, <1>7, <1>8 DEF IInv, MarkRunning, At, RunOK, RunState, HoldsPage,
                            NotPaging, NotStarted
  <1>10. run' = [run EXCEPT ![r] = s]
    BY DEF MarkRunning, IInv
  <1>11. QED
    BY <1>5, <1>6, <1>9, <1>10, RunStepFrame

LEMMA LoadCredentialIInv ==
  ASSUME NEW r \in Runner, IInv, LoadCredential(r) PROVE IInv'
  <1>1. GlobalOK' /\ Monotone
    BY LocalGlobal DEF IInv, LoadCredential, Local
  <1>2. run[r].pc \notin NotPaging
    BY DEF LoadCredential, At, NotPaging, NotStarted
  <1>3. CASE Goto(r, "fetch")
    BY <1>1, <1>2, <1>3, GotoIInv DEF PCs, HoldsPage, NotStarted
  <1>4. CASE Goto(r, "refresh")
    BY <1>1, <1>2, <1>4, GotoIInv DEF PCs, HoldsPage, NotStarted
  <1>5. CASE FailWith(r, TRUE)
    BY <1>1, <1>5, FailWithIInv
  <1>6. CASE run' = [run EXCEPT ![r].pc = "park", ![r].retryable = FALSE]
    BY <1>1, <1>6, ParkWithIInv
  <1>7. QED
    BY <1>3, <1>4, <1>5, <1>6 DEF LoadCredential

LEMMA RefreshIInv ==
  ASSUME NEW r \in Runner, IInv, Refresh(r) PROVE IInv'
  <1>1. GlobalOK'
    BY DEF IInv, GlobalOK, Refresh, OneEntryPerUnit
  <1>2. Monotone
    BY DEF IInv, GlobalOK, Refresh, Monotone
  <1>3. run[r].pc \notin NotPaging
    BY DEF Refresh, At, NotPaging, NotStarted
  <1>4. CASE Goto(r, "fetch")
    BY <1>1, <1>2, <1>3, <1>4, GotoIInv DEF PCs, HoldsPage, NotStarted
  <1>5. ASSUME NEW b \in BOOLEAN, FailWith(r, b) PROVE IInv'
    BY <1>1, <1>2, <1>5, FailWithIInv
  <1>6. CASE run' = [run EXCEPT ![r].pc = "park", ![r].retryable = FALSE]
    BY <1>1, <1>2, <1>6, ParkWithIInv
  <1>7. QED
    BY <1>4, <1>5, <1>6 DEF Refresh

-----------------------------------------------------------------------------
(***************************************************************************)
(* The page loop.                                                          *)
(***************************************************************************)
\* The page in hand, field by field.
LEMMA PageTyped ==
  ASSUME NEW r \in Runner, IInv, run[r].pc \in HoldsPage
  PROVE  /\ run[r].page \in Page
         /\ run[r].page.upserts \subseteq Row
         /\ run[r].page.deletes \subseteq Row
         /\ run[r].page.checkpoint \in Checkpoint \cup {None}
         /\ run[r].page.done \in BOOLEAN
  <1>1. run[r].page \in Page
    BY DEF IInv, RunOK
  <1>2. QED
    BY <1>1, PageAssumption DEF PageShape

\* The units a page declares carry the run's own watermark: none is newer.
LEMMA FetchPageIInv ==
  ASSUME NEW r \in Runner, NEW p \in Page, IInv, FetchPage(r, p)
  PROVE  IInv'
  <1> DEFINE next == IF p.full \/ run[r].retried
                     THEN DeclareResync(run[r].reconcile, p.scopes, run[r].since)
                     ELSE run[r].reconcile
             l == IF next # run[r].reconcile THEN "declare" ELSE "upsert"
             s == [run[r] EXCEPT !.pc = l, !.page = p, !.reconcile = next]
  <1>1. GlobalOK' /\ Monotone
    BY LocalGlobal DEF IInv, FetchPage, Local
  <1>2. /\ run[r] \in RunState /\ RunOK(run[r], clock, rows, applied)
        /\ run[r].pc = "fetch"
    BY DEF IInv, FetchPage, At
  <1>3. /\ run[r].reconcile \in SUBSET Unit /\ run[r].since \in Nat
        /\ run[r].since <= clock
        /\ OneEntryPerUnit(run[r].reconcile)
        /\ \A u \in run[r].reconcile : u.since <= run[r].since
    BY <1>2 DEF RunOK, RunState, NotPaging, NotStarted
  <1>4. /\ p.scopes \in SUBSET Scope
        /\ \A x, y \in p.scopes : UnitKey[x] = UnitKey[y] => x = y
    BY PageAssumption DEF PageShape
  <1>5. /\ next \in SUBSET Unit /\ OneEntryPerUnit(next)
        /\ \A u \in next : u.since <= run[r].since
    BY <1>3, <1>4, DeclareResyncLemma
  <1>6. \A u \in next : u.since <= clock
    BY <1>3, <1>5, clock \in Nat DEF Unit, IInv, GlobalOK
  <1>7. l \in {"declare", "upsert"}
    OBVIOUS
  <1>8. run' = [run EXCEPT ![r] = s]
    BY DEF FetchPage, IInv
  <1> HIDE DEF next, l
  <1>9. s \in RunState
    BY <1>2, <1>5, <1>7 DEF RunState, PCs
  <1>10. RunOK(s, clock, rows, applied)
    BY <1>2, <1>5, <1>6, <1>7, <1>9 DEF RunOK, RunState, HoldsPage, NotStarted
  <1>11. RunOK(s, clock', rows', applied')
    BY <1>1, <1>10 DEF FetchPage
  <1>12. QED
    BY <1>1, <1>8, <1>11, RunStepFrame

LEMMA DeclareIInv ==
  ASSUME NEW r \in Runner, IInv, Declare(r) PROVE IInv'
  <1> DEFINE s == [run[r] EXCEPT !.pc = "upsert"]
  <1>1. /\ run[r] \in RunState /\ RunOK(run[r], clock, rows, applied)
        /\ run[r].pc = "declare" /\ syncState \in SyncStateRow /\ GlobalOK
    BY DEF IInv, GlobalOK, Declare, At
  <1>2. syncState' \in SyncStateRow
    BY <1>1 DEF Declare, SyncStateRow, RunState
  <1>3. /\ syncState'.reconcile = run[r].reconcile
        /\ syncState'.checkpoint = syncState.checkpoint
    BY <1>1 DEF Declare, SyncStateRow
  <1>4. GlobalOK'
    BY <1>1, <1>2, <1>3 DEF Declare, GlobalOK, RunOK, OneEntryPerUnit
  <1>5. Monotone
    BY <1>1 DEF Declare, Monotone, GlobalOK
  <1>6. s \in RunState
    BY <1>1 DEF RunState, PCs
  <1>7. RunOK(s, clock, rows, applied)
    BY <1>1, <1>6 DEF RunOK, RunState, HoldsPage, NotPaging, NotStarted
  <1>8. RunOK(s, clock', rows', applied')
    BY <1>1, <1>4, <1>5, <1>7, Frame
  <1>9. run' = [run EXCEPT ![r] = s]
    BY DEF Declare, Goto, IInv
  <1>10. QED
    BY <1>4, <1>5, <1>8, <1>9, RunStepFrame

\* A row the run upserts is stamped no earlier than its watermark.
LEMMA ApplyUpsertsIInv ==
  ASSUME NEW r \in Runner, IInv, ApplyUpserts(r) PROVE IInv'
  <1> DEFINE up == run[r].page.upserts
             s == [run[r] EXCEPT !.pc = "delete", !.touched = @ \cup up]
  <1>1. /\ run[r] \in RunState /\ RunOK(run[r], clock, rows, applied)
        /\ run[r].pc = "upsert" /\ GlobalOK /\ up \subseteq Row
    BY PageTyped DEF IInv, ApplyUpserts, At, HoldsPage
  <1>2. rows \in [Row -> Nat] /\ clock \in Nat
    BY <1>1 DEF GlobalOK
  <1>3. /\ rows' = [x \in Row |-> IF x \in up THEN clock ELSE rows[x]]
        /\ clock' = clock /\ applied' = applied
    BY DEF ApplyUpserts
  <1> HIDE DEF up
  <1>4. rows' \in [Row -> Nat]
    BY <1>2, <1>3
  <1>5. GlobalOK'
    BY <1>1, <1>4 DEF ApplyUpserts, GlobalOK, OneEntryPerUnit
  <1>6. Monotone
    BY <1>2, <1>3 DEF Monotone
  <1>7. s \in RunState
    BY <1>1 DEF RunState, PCs
  <1>8. /\ run[r].since \in Nat /\ run[r].since <= clock
        /\ run[r].touched \subseteq Row
    BY <1>1 DEF RunOK, RunState
  <1>9. \A x \in run[r].touched \cup up : rows'[x] = 0 \/ rows'[x] >= run[r].since
    BY <1>1, <1>2, <1>3, <1>8 DEF RunOK
  <1>10. /\ s.pc = "delete" /\ s.touched = run[r].touched \cup up
         /\ s.since = run[r].since /\ s.reconcile = run[r].reconcile
         /\ s.page = run[r].page
    BY <1>1 DEF RunState
  <1>11. RunOK(s, clock', rows', applied')
    BY <1>1, <1>3, <1>7, <1>9, <1>10
    DEF RunOK, HoldsPage, NotPaging, NotStarted
  <1>12. run' = [run EXCEPT ![r] = s]
    BY DEF ApplyUpserts, IInv, up
  <1>13. QED
    BY <1>5, <1>6, <1>11, <1>12, RunStepFrame

LEMMA ApplyDeletesIInv ==
  ASSUME NEW r \in Runner, IInv, ApplyDeletes(r) PROVE IInv'
  <1> DEFINE del == run[r].page.deletes
             s == [run[r] EXCEPT !.pc = "advance", !.touched = @ \ del]
  <1>1. /\ run[r] \in RunState /\ RunOK(run[r], clock, rows, applied)
        /\ run[r].pc = "delete" /\ GlobalOK
        /\ run[r].page.checkpoint \in Checkpoint \cup {None}
    BY PageTyped DEF IInv, ApplyDeletes, At, HoldsPage
  <1>2. rows \in [Row -> Nat] /\ clock \in Nat
    BY <1>1 DEF GlobalOK
  <1>3. /\ rows' = [x \in Row |-> IF x \in del THEN 0 ELSE rows[x]]
        /\ clock' = clock
        /\ applied' = applied \cup ({run[r].page.checkpoint} \ {None})
    BY DEF ApplyDeletes
  <1> HIDE DEF del
  <1>4. rows' \in [Row -> Nat]
    BY <1>2, <1>3
  <1>5. GlobalOK'
    BY <1>1, <1>3, <1>4 DEF ApplyDeletes, GlobalOK, OneEntryPerUnit
  <1>6. Monotone
    BY <1>2, <1>3 DEF Monotone
  <1>7. s \in RunState
    BY <1>1 DEF RunState, PCs
  <1>8. \A x \in run[r].touched \ del : rows'[x] = 0 \/ rows'[x] >= run[r].since
    BY <1>1, <1>2, <1>3 DEF RunOK, RunState
  <1>9. /\ s.pc = "advance" /\ s.touched = run[r].touched \ del
        /\ s.since = run[r].since /\ s.reconcile = run[r].reconcile
        /\ s.page = run[r].page
    BY <1>1 DEF RunState
  <1>10. RunOK(s, clock', rows', applied')
    BY <1>1, <1>3, <1>7, <1>8, <1>9
    DEF RunOK, HoldsPage, NotPaging, NotStarted
  <1>11. run' = [run EXCEPT ![r] = s]
    BY DEF ApplyDeletes, IInv, del
  <1>12. QED
    BY <1>5, <1>6, <1>10, <1>11, RunStepFrame

LEMMA AdvanceCheckpointIInv ==
  ASSUME NEW r \in Runner, IInv, AdvanceCheckpoint(r) PROVE IInv'
  <1>1. PICK l \in {"finish", "reconcile", "fetch"} :
          run' = [run EXCEPT ![r].pc = l, ![r].page = None]
    BY DEF AdvanceCheckpoint
  <1> DEFINE s == [run[r] EXCEPT !.pc = l, !.page = None]
  <1>2. /\ run[r] \in RunState /\ RunOK(run[r], clock, rows, applied)
        /\ run[r].pc = "advance" /\ GlobalOK /\ syncState \in SyncStateRow
        /\ run[r].page.checkpoint \in Checkpoint \cup {None}
        /\ run[r].page.checkpoint \in applied \cup {None}
    BY PageTyped DEF IInv, GlobalOK, AdvanceCheckpoint, At, HoldsPage, RunOK
  <1>3. /\ syncState' \in SyncStateRow
        /\ syncState'.reconcile = syncState.reconcile
        /\ syncState'.checkpoint \in {syncState.checkpoint, run[r].page.checkpoint}
    BY <1>2 DEF AdvanceCheckpoint, SyncStateRow
  <1>4. GlobalOK'
    BY <1>2, <1>3 DEF AdvanceCheckpoint, GlobalOK, OneEntryPerUnit
  <1>5. Monotone
    BY <1>2 DEF AdvanceCheckpoint, Monotone, GlobalOK
  <1>6. s \in RunState
    BY <1>2 DEF RunState, PCs
  <1>7. RunOK(s, clock, rows, applied)
    BY <1>2, <1>6 DEF RunOK, RunState, HoldsPage, NotPaging, NotStarted
  <1>8. RunOK(s, clock', rows', applied')
    BY <1>2, <1>4, <1>5, <1>7, Frame
  <1>9. run' = [run EXCEPT ![r] = s]
    BY <1>1 DEF IInv
  <1>10. QED
    BY <1>4, <1>5, <1>8, <1>9, RunStepFrame

LEMMA ReconcileUnitIInv ==
  ASSUME NEW r \in Runner, NEW u \in run[r].reconcile, IInv, ReconcileUnit(r, u)
  PROVE  IInv'
  <1> DEFINE l == IF run[r].reconcile = {u} THEN "settle" ELSE "reconcile"
             s == [run[r] EXCEPT !.reconcile = @ \ {u}, !.pc = l]
  <1>1. /\ run[r] \in RunState /\ RunOK(run[r], clock, rows, applied)
        /\ run[r].pc = "reconcile" /\ GlobalOK
        /\ rows \in [Row -> Nat] /\ clock \in Nat
    BY DEF IInv, GlobalOK, ReconcileUnit, At
  <1>2. /\ rows' = [x \in Row |-> IF x \in Untouched(u) THEN 0 ELSE rows[x]]
        /\ clock' = clock /\ applied' = applied
    BY DEF ReconcileUnit
  <1>3. rows' \in [Row -> Nat]
    BY <1>1, <1>2
  <1>4. GlobalOK'
    BY <1>1, <1>3 DEF ReconcileUnit, GlobalOK, OneEntryPerUnit
  <1>5. Monotone
    BY <1>1, <1>2 DEF Monotone
  <1>6. l \in {"settle", "reconcile"}
    OBVIOUS
  <1>7. run' = [run EXCEPT ![r] = s]
    BY DEF ReconcileUnit, IInv
  <1> HIDE DEF l
  <1>8. s \in RunState
    BY <1>1, <1>6 DEF RunState, PCs
  <1>9. RunOK(s, clock, rows, applied)
    BY <1>1, <1>6, <1>8
    DEF RunOK, RunState, HoldsPage, NotPaging, NotStarted, OneEntryPerUnit
  <1>10. RunOK(s, clock', rows', applied')
    BY <1>1, <1>4, <1>5, <1>9, Frame
  <1>11. QED
    BY <1>4, <1>5, <1>7, <1>10, RunStepFrame

\* What an action that writes only fields of the sync-state row other than
\* the checkpoint and the pending units has to show.
LEMMA GlobalFrame ==
  ASSUME GlobalOK, syncState' \in SyncStateRow,
         syncState'.reconcile \in {syncState.reconcile, {}},
         syncState'.checkpoint \in {syncState.checkpoint, None},
         account' \in AccountStatus, UNCHANGED <<credential, rows, clock, applied>>
  PROVE  GlobalOK' /\ Monotone
  BY DEF GlobalOK, OneEntryPerUnit, Monotone

LEMMA SettleReconcileIInv ==
  ASSUME NEW r \in Runner, IInv, SettleReconcile(r) PROVE IInv'
  <1>1. syncState \in SyncStateRow /\ GlobalOK
    BY DEF IInv, GlobalOK
  <1>2. /\ syncState' \in SyncStateRow /\ syncState'.reconcile = {}
        /\ syncState'.checkpoint = syncState.checkpoint
    BY <1>1 DEF SettleReconcile, SyncStateRow
  <1>3. GlobalOK' /\ Monotone
    BY <1>1, <1>2, GlobalFrame DEF SettleReconcile, GlobalOK
  <1>4. run[r].pc \notin NotPaging
    BY DEF SettleReconcile, At, NotPaging, NotStarted
  <1>5. QED
    BY <1>3, <1>4, GotoIInv DEF SettleReconcile, PCs, HoldsPage, NotStarted

LEMMA FinishIInv ==
  ASSUME NEW r \in Runner, IInv, Finish(r) PROVE IInv'
  <1>1. syncState \in SyncStateRow /\ GlobalOK /\ 0 \in 0..FailureCap
    BY TimeAssumption DEF IInv, GlobalOK
  <1>2. /\ syncState' \in SyncStateRow
        /\ syncState'.reconcile = syncState.reconcile
        /\ syncState'.checkpoint = syncState.checkpoint
    BY <1>1 DEF Finish, SyncStateRow
  <1>3. GlobalOK' /\ Monotone
    BY <1>1, <1>2, GlobalFrame DEF Finish, GlobalOK
  <1>4. QED
    BY <1>3, StopStep DEF Finish

-----------------------------------------------------------------------------
(***************************************************************************)
(* Failures and the environment.                                           *)
(***************************************************************************)
LEMMA SourceErrorIInv ==
  ASSUME NEW r \in Runner, IInv, SourceError(r) PROVE IInv'
  <1>1. GlobalOK' /\ Monotone
    BY LocalGlobal DEF IInv, SourceError, Local
  <1>2. run[r].pc \notin NotPaging
    BY DEF SourceError, At, NotPaging, NotStarted
  <1>3. CASE Goto(r, "clear")
    BY <1>1, <1>2, <1>3, GotoIInv DEF PCs, HoldsPage, NotStarted
  <1>4. CASE run' = [run EXCEPT ![r].pc = "park", ![r].retryable = FALSE]
    BY <1>1, <1>4, ParkWithIInv
  <1>5. ASSUME NEW b \in BOOLEAN, FailWith(r, b) PROVE IInv'
    BY <1>1, <1>5, FailWithIInv
  <1>6. QED
    BY <1>3, <1>4, <1>5 DEF SourceError

LEMMA ClearCheckpointIInv ==
  ASSUME NEW r \in Runner, IInv, ClearCheckpoint(r) PROVE IInv'
  <1> DEFINE s == [run[r] EXCEPT !.pc = "fetch", !.retried = TRUE,
                                 !.startedFrom = None]
  <1>1. /\ run[r] \in RunState /\ RunOK(run[r], clock, rows, applied)
        /\ run[r].pc = "clear" /\ syncState \in SyncStateRow /\ GlobalOK
    BY DEF IInv, GlobalOK, ClearCheckpoint, At
  <1>2. /\ syncState' \in SyncStateRow
        /\ syncState'.reconcile = syncState.reconcile
        /\ syncState'.checkpoint = None
    BY <1>1 DEF ClearCheckpoint, SyncStateRow
  <1>3. GlobalOK' /\ Monotone
    BY <1>1, <1>2, GlobalFrame DEF ClearCheckpoint, GlobalOK
  <1>4. s \in RunState
    BY <1>1 DEF RunState, PCs
  <1>5. RunOK(s, clock, rows, applied)
    BY <1>1, <1>4 DEF RunOK, RunState, HoldsPage, NotPaging, NotStarted
  <1>6. RunOK(s, clock', rows', applied')
    BY <1>1, <1>3, <1>5, Frame
  <1>7. run' = [run EXCEPT ![r] = s]
    BY DEF ClearCheckpoint, IInv
  <1>8. QED
    BY <1>3, <1>6, <1>7, RunStepFrame

LEMMA StoreErrorIInv ==
  ASSUME NEW r \in Runner, IInv, StoreError(r) PROVE IInv'
  BY LocalGlobal, FailWithIInv DEF StoreError, Local, IInv

LEMMA ParkIInv ==
  ASSUME NEW r \in Runner, IInv, Park(r) PROVE IInv'
  <1>1. syncState \in SyncStateRow /\ GlobalOK
    BY DEF IInv, GlobalOK
  <1>2. GlobalOK' /\ Monotone
    BY <1>1, GlobalFrame DEF Park, AccountStatus
  <1>3. QED
    BY <1>2, GotoIInv DEF Park, PCs, HoldsPage, NotStarted, NotPaging

LEMMA RecordFailureIInv ==
  ASSUME NEW r \in Runner, IInv, RecordFailure(r) PROVE IInv'
  <1>1. syncState \in SyncStateRow /\ GlobalOK /\ run[r] \in RunState
    BY DEF IInv, GlobalOK
  <1>2. run[r].failures \in 0..FailureCap /\ run[r].retryable \in BOOLEAN
    BY <1>1 DEF RunState
  <1>3. Min2(run[r].failures + 1, FailureCap) \in 0..FailureCap
    BY <1>2, TimeAssumption DEF Min2
  <1>4. /\ syncState' \in SyncStateRow
        /\ syncState'.reconcile = syncState.reconcile
        /\ syncState'.checkpoint = syncState.checkpoint
    BY <1>1, <1>2, <1>3 DEF RecordFailure, SyncStateRow
  <1>5. GlobalOK' /\ Monotone
    BY <1>1, <1>4, GlobalFrame DEF RecordFailure, GlobalOK
  <1>6. QED
    BY <1>5, StopStep DEF RecordFailure

LEMMA CrashIInv ==
  ASSUME NEW r \in Runner, IInv, Crash(r) PROVE IInv'
  BY LocalGlobal, StopStep DEF Crash, Local, IInv

LEMMA TickIInv == ASSUME IInv, Tick PROVE IInv'
  <1>1. syncState \in SyncStateRow /\ GlobalOK
    BY DEF IInv, GlobalOK
  <1>2. syncState.age + 1 \in (0..BackoffMax) \cup {None}
    <2>1. syncState.age \in 0..BackoffMax /\ syncState.age < BackoffMax
      BY <1>1 DEF Tick, SyncStateRow
    <2>2. QED
      BY <2>1, TimeAssumption
  <1>3. /\ syncState' \in SyncStateRow
        /\ syncState'.reconcile = syncState.reconcile
        /\ syncState'.checkpoint = syncState.checkpoint
    BY <1>1, <1>2 DEF Tick, SyncStateRow
  <1>4. GlobalOK'
    BY <1>1, <1>3, GlobalFrame DEF Tick, GlobalOK
  <1>5. QED
    BY <1>4 DEF IInv, Tick

LEMMA ExpireCredentialIInv == ASSUME IInv, ExpireCredential PROVE IInv'
  BY DEF IInv, GlobalOK, ExpireCredential, OneEntryPerUnit

LEMMA StutterIInv == ASSUME IInv, UNCHANGED vars PROVE IInv'
  BY DEF IInv, GlobalOK, vars, OneEntryPerUnit

LEMMA RunStepIInv ==
  ASSUME NEW r \in Runner, IInv, RunStep(r) PROVE IInv'
  <1>1. ASSUME NEW force \in BOOLEAN, Begin(r, force) PROVE IInv'
    BY <1>1, BeginIInv
  <1>2. CASE Skip(r)              BY <1>2, SkipIInv
  <1>3. CASE ReadState(r)         BY <1>3, ReadStateIInv
  <1>4. CASE NoConnector(r)       BY <1>4, NoConnectorIInv
  <1>5. CASE MarkRunning(r)       BY <1>5, MarkRunningIInv
  <1>6. CASE LoadCredential(r)    BY <1>6, LoadCredentialIInv
  <1>7. CASE Refresh(r)           BY <1>7, RefreshIInv
  <1>8. CASE Declare(r)           BY <1>8, DeclareIInv
  <1>9. CASE ApplyUpserts(r)      BY <1>9, ApplyUpsertsIInv
  <1>10. CASE ApplyDeletes(r)     BY <1>10, ApplyDeletesIInv
  <1>11. CASE AdvanceCheckpoint(r) BY <1>11, AdvanceCheckpointIInv
  <1>12. ASSUME NEW u \in run[r].reconcile, ReconcileUnit(r, u) PROVE IInv'
    BY <1>12, ReconcileUnitIInv
  <1>13. CASE SettleReconcile(r)  BY <1>13, SettleReconcileIInv
  <1>14. CASE Finish(r)           BY <1>14, FinishIInv
  <1>15. CASE ClearCheckpoint(r)  BY <1>15, ClearCheckpointIInv
  <1>16. CASE StoreError(r)       BY <1>16, StoreErrorIInv
  <1>17. CASE Park(r)             BY <1>17, ParkIInv
  <1>18. CASE RecordFailure(r)    BY <1>18, RecordFailureIInv
  <1>19. CASE Crash(r)            BY <1>19, CrashIInv
  <1>20. QED
    BY <1>1, <1>2, <1>3, <1>4, <1>5, <1>6, <1>7, <1>8, <1>9, <1>10, <1>11,
       <1>12, <1>13, <1>14, <1>15, <1>16, <1>17, <1>18, <1>19
    DEF RunStep

LEMMA NextIInv == ASSUME IInv, [Next]_vars PROVE IInv'
  <1>1. ASSUME NEW r \in Runner, RunStep(r) PROVE IInv'
    BY <1>1, RunStepIInv
  <1>2. ASSUME NEW r \in Runner, SourceStep(r) PROVE IInv'
    BY <1>2, FetchPageIInv, SourceErrorIInv DEF SourceStep
  <1>3. CASE Tick               BY <1>3, TickIInv
  <1>4. CASE ExpireCredential   BY <1>4, ExpireCredentialIInv
  <1>5. CASE UNCHANGED vars     BY <1>5, StutterIInv
  <1>6. QED
    BY <1>1, <1>2, <1>3, <1>4, <1>5 DEF Next

\* The inductive invariant holds in every reachable state of the engine.
THEOREM Invariance == Spec => []IInv
  <1>1. Init => IInv
    BY InitIInv
  <1>2. IInv /\ [Next]_vars => IInv'
    BY NextIInv
  <1>3. QED
    BY <1>1, <1>2, PTL DEF Spec

-----------------------------------------------------------------------------
(***************************************************************************)
(* The results.                                                            *)
(***************************************************************************)
\* Every column and local of runCapability keeps its type, and every pending
\* list keeps one entry per listing unit, whatever pages arrive and however
\* runs interleave or die.
THEOREM TypeCorrect == Spec => []TypeOK
  <1>1. IInv => TypeOK
    BY IInvTypeOK
  <1>2. QED
    BY <1>1, Invariance, PTL

\* No interleaving, crash or failed write leaves a stored checkpoint whose
\* page has not been applied in full.
THEOREM ApplyBeforeCheckpoint == Spec => []CheckpointOnlyAfterApply
  <1>1. IInv => CheckpointOnlyAfterApply
    BY IInvTypeOK
  <1>2. QED
    BY <1>1, Invariance, PTL

\* No unit a pass reconciles has a watermark above the stamps of the rows the
\* pass itself has touched, so deleteUntouched spares them.
THEOREM OwnRowsSurvive == Spec => OwnRowsSurviveReconcile
  <1>1. ASSUME IInv, NEW r \in Runner, NEW u \in run[r].reconcile,
               ReconcileUnit(r, u), NEW x \in run[r].touched
        PROVE  rows'[x] = rows[x]
    <2>1. /\ RunOK(run[r], clock, rows, applied) /\ rows \in [Row -> Nat]
          /\ run[r].pc \notin NotPaging
      BY <1>1 DEF IInv, GlobalOK, ReconcileUnit, At, NotPaging, NotStarted
    <2>2. /\ x \in Row /\ rows[x] \in Nat
          /\ run[r].since \in Nat /\ u.since \in Nat
          /\ u.since <= run[r].since
          /\ rows[x] = 0 \/ rows[x] >= run[r].since
      BY <2>1 DEF RunOK, RunState, Unit
    <2>3. ~(rows[x] \in 1..(u.since - 1))
      BY <2>2
    <2>4. x \notin Untouched(u)
      BY <2>3 DEF Untouched
    <2>5. QED
      BY <1>1, <2>2, <2>4 DEF ReconcileUnit
  <1>2. IInv /\ [Next]_vars =>
          [\A r \in Runner : \A u \in run[r].reconcile :
             ReconcileUnit(r, u) => \A x \in run[r].touched : rows'[x] = rows[x]]_vars
    BY <1>1
  <1>3. QED
    BY <1>2, Invariance, PTL DEF Spec, OwnRowsSurviveReconcile

-----------------------------------------------------------------------------
(***************************************************************************)
(* One run at a time: what the run r knows of the pending units is what    *)
(* the row says, up to the units it has reconciled already.                *)
(***************************************************************************)
Settling(r) ==
  /\ run[r].pc \in {"mark", "credential", "refresh", "fetch", "clear", "upsert", "delete", "advance"}
       => run[r].reconcile = syncState.reconcile
  /\ run[r].pc = "declare" /\ syncState.reconcile # {} => run[r].reconcile # {}
  /\ run[r].pc \in {"reconcile", "settle"} =>
       \A u \in syncState.reconcile : u \in run[r].reconcile \/ Untouched(u) = {}
  /\ run[r].pc = "settle" => run[r].reconcile = {}

\* Declaring replaces units; it never drops the last one.
LEMMA DeclareKeepsOne ==
  ASSUME NEW pending, pending # {}, NEW scopes, NEW since,
         \A s, t \in scopes : UnitKey[s] = UnitKey[t] => s = t
  PROVE  DeclareResync(pending, scopes, since) # {}
  <1>1. PICK u \in pending : TRUE
    OBVIOUS
  <1>2. CASE \A s \in scopes : UnitKey[s] = UnitKey[u.scope] => s = u.scope
    BY <1>1, <1>2 DEF DeclareResync
  <1>3. ASSUME NEW s \in scopes, UnitKey[s] = UnitKey[u.scope], s # u.scope
        PROVE  DeclareResync(pending, scopes, since) # {}
    <2>1. CASE \E v \in pending : v.scope = s
      <3>1. PICK v \in pending : v.scope = s
        BY <2>1
      <3>2. \A t \in scopes : UnitKey[t] = UnitKey[v.scope] => t = v.scope
        BY <3>1
      <3>3. QED
        BY <3>1, <3>2 DEF DeclareResync
    <2>2. CASE ~\E v \in pending : v.scope = s
      <3>1. s \in {x \in scopes : ~\E v \in pending : v.scope = x}
        BY <2>2
      <3>2. [since |-> since, scope |-> s] \in DeclareResync(pending, scopes, since)
        BY <3>1 DEF DeclareResync
      <3>3. QED
        BY <3>2
    <2>3. QED
      BY <2>1, <2>2
  <1>4. QED
    BY <1>2, <1>3

LEMMA SettlingStep ==
  ASSUME NEW r, Runner = {r}, IInv, Settling(r), [Next]_vars
  PROVE  Settling(r)'
  <1> USE DEF At, Goto, Stop, FailWith
  <1>0. /\ r \in Runner /\ run \in [Runner -> RunState] /\ run[r] \in RunState
        /\ syncState \in SyncStateRow /\ rows \in [Row -> Nat]
    BY DEF IInv, GlobalOK
  \* A step that ends the run, or moves it where nothing is known of the units.
  <1>1. ASSUME run'[r].pc \in {"idle", "read", "finish", "park", "fail"}
        PROVE  Settling(r)'
    BY <1>1 DEF Settling
  \* A step that leaves the units alone.
  <1>2. ASSUME run'[r].reconcile = run[r].reconcile, syncState'.reconcile = syncState.reconcile,
               run[r].pc \in {"mark", "credential", "refresh", "fetch", "clear", "upsert", "delete", "advance"},
               run'[r].pc \in {"credential", "refresh", "fetch", "clear", "delete", "advance"}
        PROVE  Settling(r)'
    BY <1>2 DEF Settling
  <1>3. CASE \E force \in BOOLEAN : Begin(r, force)
    <2>1. run'[r].pc = "read"
      BY <1>0, <1>3 DEF Begin
    <2>2. QED
      BY <1>1, <2>1
  <1>4. CASE \/ Skip(r) \/ NoConnector(r) \/ Finish(r) \/ StoreError(r) \/ Park(r)
             \/ RecordFailure(r) \/ Crash(r)
    <2>1. run'[r].pc \in {"idle", "fail"}
      <3>1. CASE Skip(r) \/ Finish(r) \/ RecordFailure(r) \/ Crash(r)
        BY <1>0, <3>1 DEF Skip, Finish, RecordFailure, Crash, IdleRun
      <3>2. CASE NoConnector(r) \/ StoreError(r)
        <4>1. PICK b \in BOOLEAN : run' = [run EXCEPT ![r].pc = "fail", ![r].retryable = b]
          BY <3>2 DEF NoConnector, StoreError
        <4>2. QED
          BY <1>0, <4>1 DEF RunState
      <3>3. CASE Park(r)
        BY <1>0, <3>3 DEF Park, RunState
      <3>4. QED
        BY <1>4, <3>1, <3>2, <3>3
    <2>2. QED
      BY <1>1, <2>1
  <1>5. CASE ReadState(r)
    <2>1. run'[r].pc = "mark" /\ run'[r].reconcile = syncState.reconcile /\ syncState' = syncState
      BY <1>0, <1>5 DEF ReadState, RunState
    <2>2. QED
      BY <2>1 DEF Settling
  <1>6. CASE MarkRunning(r)
    <2>1. /\ run[r].pc = "mark" /\ run'[r].pc = "credential"
          /\ run'[r].reconcile = run[r].reconcile
      BY <1>0, <1>6 DEF MarkRunning, RunState
    <2>2. syncState'.reconcile = syncState.reconcile
      BY <1>0, <1>6 DEF MarkRunning, SyncStateRow
    <2>3. QED
      BY <1>2, <2>1, <2>2
  <1>7. CASE LoadCredential(r) \/ Refresh(r) \/ SourceError(r)
    <2>1. PICK l \in {"fetch", "refresh", "clear", "park", "fail"}, b \in BOOLEAN :
            \/ run' = [run EXCEPT ![r].pc = l]
            \/ run' = [run EXCEPT ![r].pc = l, ![r].retryable = b]
      BY <1>7 DEF LoadCredential, Refresh, SourceError
    <2>2. run'[r].pc = l /\ run'[r].reconcile = run[r].reconcile
      BY <1>0, <2>1 DEF RunState
    <2>3. /\ run[r].pc \in {"credential", "refresh", "fetch"}
          /\ syncState' = syncState
      BY <1>7 DEF LoadCredential, Refresh, SourceError
    <2>4. QED
      BY <1>1, <1>2, <2>2, <2>3
  <1>8. CASE ClearCheckpoint(r)
    <2>1. /\ run[r].pc = "clear" /\ run'[r].pc = "fetch"
          /\ run'[r].reconcile = run[r].reconcile
      BY <1>0, <1>8 DEF ClearCheckpoint, RunState
    <2>2. syncState'.reconcile = syncState.reconcile
      BY <1>0, <1>8 DEF ClearCheckpoint, SyncStateRow
    <2>3. QED
      BY <1>2, <2>1, <2>2
  <1>9. ASSUME NEW p \in Page, FetchPage(r, p) PROVE Settling(r)'
    <2> DEFINE next == IF p.full \/ run[r].retried
                       THEN DeclareResync(run[r].reconcile, p.scopes, run[r].since)
                       ELSE run[r].reconcile
               l == IF next # run[r].reconcile THEN "declare" ELSE "upsert"
    <2>1. /\ run[r].pc = "fetch" /\ syncState' = syncState
          /\ run' = [run EXCEPT ![r].pc = l, ![r].page = p, ![r].reconcile = next]
      BY <1>9 DEF FetchPage
    <2> HIDE DEF next, l
    <2>2. run'[r].pc = l /\ run'[r].reconcile = next
      BY <1>0, <2>1 DEF RunState
    <2>3. run[r].reconcile = syncState.reconcile
      BY <2>1 DEF Settling
    <2>4. syncState.reconcile # {} => next # {}
      BY <2>3, DeclareKeepsOne, PageAssumption DEF next
    <2>5. l = "declare" \/ (l = "upsert" /\ next = run[r].reconcile)
      BY DEF l
    <2>6. QED
      BY <2>1, <2>2, <2>3, <2>4, <2>5 DEF Settling
  <1>10. CASE Declare(r)
    <2>1. /\ run'[r].pc = "upsert" /\ run'[r].reconcile = run[r].reconcile
      BY <1>0, <1>10 DEF Declare, RunState
    <2>2. syncState'.reconcile = run[r].reconcile
      BY <1>0, <1>10 DEF Declare, SyncStateRow
    <2>3. QED
      BY <2>1, <2>2 DEF Settling
  <1>11. CASE ApplyUpserts(r) \/ ApplyDeletes(r)
    <2>1. /\ run[r].pc \in {"upsert", "delete"} /\ run'[r].pc \in {"delete", "advance"}
          /\ run'[r].reconcile = run[r].reconcile /\ syncState' = syncState
      BY <1>0, <1>11 DEF ApplyUpserts, ApplyDeletes, RunState
    <2>2. QED
      BY <1>2, <2>1
  <1>12. CASE AdvanceCheckpoint(r)
    <2>1. PICK l \in {"finish", "reconcile", "fetch"} :
            run' = [run EXCEPT ![r].pc = l, ![r].page = None]
      BY <1>12 DEF AdvanceCheckpoint
    <2>2. /\ run[r].pc = "advance" /\ run'[r].pc = l /\ run'[r].reconcile = run[r].reconcile
      BY <1>0, <1>12, <2>1 DEF AdvanceCheckpoint, RunState
    <2>3. syncState'.reconcile = syncState.reconcile
      BY <1>0, <1>12 DEF AdvanceCheckpoint, SyncStateRow
    <2>4. run[r].reconcile = syncState.reconcile
      BY <2>2 DEF Settling
    <2>5. QED
      BY <2>2, <2>3, <2>4 DEF Settling
  <1>13. ASSUME NEW u \in run[r].reconcile, ReconcileUnit(r, u) PROVE Settling(r)'
    <2>1. /\ run[r].pc = "reconcile" /\ syncState' = syncState
          /\ rows' = [x \in Row |-> IF x \in Untouched(u) THEN 0 ELSE rows[x]]
      BY <1>13 DEF ReconcileUnit
    <2>2. /\ run'[r].reconcile = run[r].reconcile \ {u}
          /\ run'[r].pc = IF run[r].reconcile = {u} THEN "settle" ELSE "reconcile"
      BY <1>0, <1>13 DEF ReconcileUnit, RunState
    <2>3. ASSUME NEW v \in syncState.reconcile, Untouched(v) = {} \/ v = u
          PROVE  Untouched(v)' = {}
      <3>1. v.scope \in Scope /\ v.since \in Nat
        BY <1>0 DEF SyncStateRow, Unit
      <3>2. Covers[v.scope] \subseteq Row
        BY <3>1, ScopeAssumption
      <3>3. ASSUME NEW x \in Covers[v.scope], rows'[x] \in 1..(v.since - 1) PROVE FALSE
        <4>1. x \in Row /\ rows'[x] = IF x \in Untouched(u) THEN 0 ELSE rows[x]
          BY <2>1, <3>2
        <4>2. x \notin Untouched(u) /\ rows'[x] = rows[x]
          BY <3>1, <3>3, <4>1
        <4>3. x \in Untouched(v)
          BY <3>3, <4>2 DEF Untouched
        <4>4. QED
          BY <2>3, <4>2, <4>3
      <3>4. QED
        BY <3>3 DEF Untouched
    <2>4. ASSUME NEW v \in syncState'.reconcile PROVE v \in run'[r].reconcile \/ Untouched(v)' = {}
      <3>1. v \in run[r].reconcile \/ Untouched(v) = {}
        BY <2>1, <2>4 DEF Settling
      <3>2. QED
        BY <2>1, <2>2, <2>3, <3>1
    <2>5. QED
      BY <2>2, <2>4 DEF Settling
  <1>14. CASE SettleReconcile(r)
    <2>1. run'[r].pc = "finish"
      BY <1>0, <1>14 DEF SettleReconcile, RunState
    <2>2. QED
      BY <1>1, <2>1
  <1>15. CASE Tick \/ ExpireCredential \/ UNCHANGED vars
    <2>1. run' = run /\ rows' = rows
      BY <1>15 DEF Tick, ExpireCredential, vars
    <2>2. syncState'.reconcile = syncState.reconcile
      BY <1>0, <1>15 DEF Tick, ExpireCredential, vars, SyncStateRow
    <2>3. QED
      BY <2>1, <2>2 DEF Settling, Untouched
  <1>16. QED
    BY <1>3, <1>4, <1>5, <1>6, <1>7, <1>8, <1>9, <1>10, <1>11, <1>12, <1>13, <1>14, <1>15
    DEF Next, RunStep, SourceStep

\* The only steps that write the stored units: a declaration, which never empties
\* them, and the settling of a run that has reconciled each.
LEMMA SettledStep ==
  ASSUME NEW r, Runner = {r}, IInv, Settling(r), [Next]_vars,
         syncState.reconcile # {}, syncState'.reconcile = {}
  PROVE  \A u \in syncState.reconcile : Untouched(u) = {}
  <1>1. syncState \in SyncStateRow
    BY DEF IInv, GlobalOK
  <1>2. ~Declare(r)
    BY <1>1 DEF Declare, At, Settling, SyncStateRow
  <1>3. CASE SettleReconcile(r)
    BY <1>3 DEF SettleReconcile, At, Settling
  <1>4. ASSUME ~SettleReconcile(r) PROVE syncState'.reconcile = syncState.reconcile
    <2>1. CASE UNCHANGED syncState
      BY <2>1
    <2>2. CASE \/ MarkRunning(r) \/ AdvanceCheckpoint(r) \/ Finish(r) \/ ClearCheckpoint(r)
               \/ RecordFailure(r) \/ Tick
      BY <1>1, <2>2
      DEF MarkRunning, AdvanceCheckpoint, Finish, ClearCheckpoint, RecordFailure, Tick, SyncStateRow
    <2>3. QED
      BY <1>2, <1>4, <2>1, <2>2
      DEF Next, RunStep, SourceStep, Begin, Skip, ReadState, NoConnector, LoadCredential, Refresh,
          ApplyUpserts, ApplyDeletes, ReconcileUnit, StoreError, Park, Crash, FetchPage, SourceError,
          ExpireCredential, vars
  <1>5. QED
    BY <1>3, <1>4

\* One run at a time: "the pass is complete" only when every unit it inherited or
\* declared has been reconciled, however many runs before it were killed, failed or
\* stopped at their deadline.
THEOREM SettledWhenReconciled ==
  ASSUME NEW r, Runner = {r} PROVE Spec => SettledOnlyWhenReconciled
  <1>1. Init => Settling(r)
    BY DEF Init, Settling, IdleRun
  <1>2. IInv /\ Settling(r) /\ [Next]_vars => Settling(r)'
    BY SettlingStep
  <1>3. IInv /\ Settling(r) /\ [Next]_vars =>
          [syncState.reconcile # {} /\ syncState'.reconcile = {}
             => \A u \in syncState.reconcile : Untouched(u) = {}]_vars
    BY SettledStep
  <1>4. QED
    BY <1>1, <1>2, <1>3, Invariance, PTL DEF Spec, SettledOnlyWhenReconciled

=============================================================================
