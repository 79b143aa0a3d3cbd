------------------------------ MODULE DeltaSync ------------------------------
(***************************************************************************)
(* The delta sources under the sync engine: Microsoft mail, Microsoft      *)
(* calendar and the bank.  Each lists from nothing or asks for the changes *)
(* since a link of its checkpoint; they differ in what a page lets the     *)
(* engine resume from and in what happens when a link is dead.  The        *)
(* provider is external; the engine is that of SyncEngine, one run at a    *)
(* time.  Times are days; a page is an item, or the empty last page.       *)
(***************************************************************************)
EXTENDS Integers, Sequences, FiniteSets

CONSTANTS
  Sources,      \* the sources to look at: a subset of Source
  Item,         \* messages, events or transactions
  DayOf,        \* [Item -> Nat], counted from the start of the first window
  Span,         \* days in a calendar window
  MaxAge,       \* WINDOW_MAX_AGE_DAYS
  MaxAttempts,  \* BankConnectorOptions.maxAttempts
  LastDay,      \* bound: the days that pass
  MaxChanges,   \* bound: changes at the provider
  MaxExpiries,  \* bound: times the provider drops every link it has issued
  MaxKills,     \* bound: runs that die
  None

Source == {"mail", "calendar", "bank"}

VARIABLES
  source,      \* the source this behaviour is about
  alive,       \* items the provider shows
  log,         \* the provider's changes: a sequence of items
  epoch,       \* links issued in an earlier epoch are dead
  today,
  rows,        \* items stored here
  checkpoint,  \* the stored link, or None
  reconcile,   \* the pending unit: the first day its scope covers, or None
  touched,     \* rows written since the unit's watermark
  run,         \* the run at work
  kills,
  unlisted,    \* history: rows gone before a listing that declared nothing
  vouched      \* history: rows gone before a listing, touched for its unit

provider == <<source, alive, log, epoch, today>>
history == <<unlisted, vouched>>
vars == <<provider, rows, checkpoint, reconcile, touched, run, kills, history>>

\* A link: what it has still to list, the change it has caught up with, the
\* window it was opened with.  "next" continues a backfill, "delta" asks for
\* what has changed since.
Link == [kind : {"next", "delta"}, left : SUBSET Item, at : 0..MaxChanges,
         epoch : 0..MaxExpiries, from : 0..LastDay, full : BOOLEAN]

DeltaSyncAssumption ==
  /\ Sources \subseteq Source /\ DayOf \in [Item -> Nat] /\ Span \in Nat /\ MaxAge \in Nat
  /\ MaxAttempts \in Nat \ {0} /\ None \notin Nat \cup Link
  /\ LastDay \in Nat /\ MaxChanges \in Nat /\ MaxExpiries \in Nat /\ MaxKills \in Nat

Idle == [pc |-> "idle"]

\* previous: what the pass started from; link: the request to make;
\* fresh: this run opened the listing; page: what came back.
Run == [pc : {"fetch", "apply", "save", "reconcile"}, previous : Link \cup {None},
        link : Link \cup {None}, full : BOOLEAN, retried : BOOLEAN, attempt : 1..MaxAttempts,
        touched : SUBSET Item, page : SUBSET Item, upserts : SUBSET Item]

TypeOK ==
  /\ source \in Source /\ alive \subseteq Item /\ log \in Seq(Item)
  /\ epoch \in 0..MaxExpiries /\ today \in 0..LastDay
  /\ rows \subseteq Item /\ touched \subseteq Item
  /\ checkpoint \in Link \cup {None} /\ reconcile \in 0..LastDay \cup {None}
  /\ run \in Run \cup {Idle} /\ kills \in 0..MaxKills
  /\ unlisted \subseteq Item /\ vouched \subseteq Item
  /\ checkpoint # None /\ checkpoint.kind = "next" => source = "mail"

Init ==
  /\ source \in Sources /\ alive \in SUBSET Item /\ log = <<>> /\ epoch = 0 /\ today = 0
  /\ rows = {} /\ checkpoint = None /\ reconcile = None /\ touched = {}
  /\ run = Idle /\ kills = 0 /\ unlisted = {} /\ vouched = {}

-----------------------------------------------------------------------------
\* The provider.
Change(i) ==
  /\ Len(log) < MaxChanges
  /\ alive' \in {alive \cup {i}} \cup (IF i \in alive THEN {alive \ {i}} ELSE {})
  /\ log' = Append(log, i)
  /\ UNCHANGED <<source, epoch, today>>

Expire == epoch < MaxExpiries /\ epoch' = epoch + 1 /\ UNCHANGED <<source, alive, log, today>>

NextDay == today < LastDay /\ today' = today + 1 /\ UNCHANGED <<source, alive, log, epoch>>

Provider ==
  /\ (\E i \in Item : Change(i)) \/ Expire \/ NextDay
  /\ UNCHANGED <<rows, checkpoint, reconcile, touched, run, kills, history>>

\* A mail listing has a lower edge, a calendar window two, an Item none.
Covers(from, i) ==
  \/ source = "bank"
  \/ DayOf[i] >= from /\ (source = "mail" \/ DayOf[i] <= from + Span)

\* A listing from nothing, and the round after a delta link.
Listing == [kind |-> "next", left |-> {i \in alive : Covers(today, i)}, at |-> Len(log),
            epoch |-> epoch, from |-> today, full |-> FALSE]

Round(d) ==
  [d EXCEPT !.left = {i \in Item : Covers(d.from, i) /\ \E n \in d.at + 1..Len(log) : log[n] = i},
            !.at = Len(log)]

\* The link a completed pass leaves.
DeltaLink(l) == [l EXCEPT !.kind = "delta", !.left = {}, !.full = FALSE]

-----------------------------------------------------------------------------
\* The connector.
Quiet == UNCHANGED <<rows, checkpoint, reconcile, touched, kills>>

\* A pass over a checkpoint.
Pass(previous, full, retried, rowsTouched) ==
  [pc |-> "fetch", previous |-> previous, link |-> previous, full |-> full,
   retried |-> retried, attempt |-> 1, touched |-> rowsTouched,
   page |-> {}, upserts |-> {}]

\* isWindowStale: the stored window lags behind a fresh one.
Stale(l) == source = "calendar" /\ today - l.from > MaxAge

\* syncMail, syncCalendar, syncBank: from the stored checkpoint; a mail
\* backfill keeps its flag, a stale window is opened anew.
StartRun ==
  /\ run = Idle
  /\ run' = IF checkpoint = None THEN Pass(None, FALSE, FALSE, {})
            ELSE IF Stale(checkpoint) THEN Pass(None, TRUE, FALSE, {})
            ELSE Pass(checkpoint, checkpoint.full, FALSE, {})
  /\ Quiet /\ UNCHANGED <<provider, history>>

\* The rows the provider no longer has when a listing opens, which nothing the
\* listing reports will remove: the reconcile at its end does, unless no
\* resync is declared, or the unit's watermark is older than the row.
Opening ==
  LET declares == run.full \/ run.retried
      declared == declares \/ reconcile # None
      fresh == declares /\ ~(source = "bank" /\ reconcile # None)
      spared == IF fresh THEN run.touched ELSE touched
  IN  /\ unlisted' = IF declared THEN unlisted ELSE unlisted \cup (rows \ alive)
      /\ vouched' = IF declared THEN vouched \cup ((rows \ alive) \cap spared) ELSE vouched

\* A page: an item with its present state.  The first request of a pass opens
\* a listing, or the round after its delta link.
Fetch ==
  /\ run.pc = "fetch"
  /\ run.link # None => run.link.epoch = epoch
  /\ LET l == IF run.link = None THEN Listing
              ELSE IF run.link = run.previous /\ run.link.kind = "delta" THEN Round(run.link)
              ELSE run.link
     IN  \E page \in SUBSET l.left :
           /\ Cardinality(page) = IF l.left = {} THEN 0 ELSE 1
           /\ run' = [run EXCEPT !.pc = "apply", !.page = page,
                                 !.upserts = page \cap alive,
                                 !.link = [l EXCEPT !.left = @ \ page, !.full = run.full]]
  /\ IF run.link = None THEN Opening ELSE UNCHANGED history
  /\ Quiet /\ UNCHANGED provider

Failed == run' = Idle

\* The engine drops the checkpoint and retries the pass from scratch, once.
CheckpointInvalid ==
  IF run.retried THEN Failed /\ UNCHANGED checkpoint
  ELSE run' = Pass(None, FALSE, TRUE, run.touched) /\ checkpoint' = None

\* isDeadCheckpoint: Microsoft lists again by itself, unless it was listing
\* from nothing; a cursor the bank rejects is the engine's.
DeadLink ==
  /\ run.pc = "fetch" /\ run.link # None /\ run.link.epoch # epoch
  /\ IF source # "bank" /\ run.previous # None
     THEN run' = Pass(None, TRUE, run.retried, run.touched) /\ UNCHANGED checkpoint
     ELSE CheckpointInvalid
  /\ UNCHANGED <<provider, rows, reconcile, touched, kills, history>>

\* The cursor an attempt starts with: that of the previous update.
StartCursor == run.previous

\* BankPaginationMutationError: the provider changed between two pages, and the
\* pass starts over, at most maxAttempts times.
Mutation ==
  /\ source = "bank" /\ run.pc = "fetch" /\ run.link # run.previous
  /\ run.link.at < Len(log)
  /\ IF run.attempt = MaxAttempts THEN Failed
     ELSE run' = [run EXCEPT !.attempt = @ + 1, !.link = StartCursor]
  /\ Quiet /\ UNCHANGED <<provider, history>>

-----------------------------------------------------------------------------
\* The engine.  A page of a listing from nothing that is a real resync
\* declares its scope; the unit of the same scope is that listing continuing.
LinkPage(unit, seen) ==
  /\ reconcile' = unit
  /\ touched' = IF unit = None THEN {} ELSE seen \cup run.upserts
  /\ rows' = (rows \ run.page) \cup run.upserts
  /\ run' = [run EXCEPT !.pc = "save", !.touched = @ \cup run.upserts]

\* previous is the link the listing resumes, if any; Plaid's scope is always all.
Declares == (run.full \/ run.retried) /\ (run.previous = None \/ run.previous.kind = "next")
SameScope == reconcile # None /\ (source = "bank" \/ run.previous # None)

\* Mutant: a page declares nothing.
ApplyUndeclared ==
  /\ run.pc = "apply"
  /\ LinkPage(reconcile, touched)
  /\ UNCHANGED <<provider, checkpoint, kills, history>>

\* A listing this run has declared already has its unit.
Apply ==
  /\ run.pc = "apply"
  /\ IF Declares /\ ~SameScope THEN LinkPage(run.link.from, run.touched)
     ELSE LinkPage(reconcile, touched)
  /\ UNCHANGED <<provider, checkpoint, kills, history>>

Done == run.link.left = {}

\* Mutant: every page is where the engine may resume.
AnyPage == IF Done THEN DeltaLink(run.link) ELSE run.link

\* The checkpoint of the page: the new delta link; the next page of a mail
\* backfill; else the link the pass started from.
PageCheckpoint ==
  IF Done THEN DeltaLink(run.link)
  ELSE IF source = "mail" /\ (run.previous = None \/ run.previous.kind = "next") THEN run.link
  ELSE run.previous

\* A checkpoint that differs from the one the pass started from is stored; a
\* page that is not the last may be where the run is out of time.
Save ==
  /\ run.pc = "save"
  /\ checkpoint' = IF PageCheckpoint # None THEN PageCheckpoint ELSE checkpoint
  /\ IF Done THEN run' = IF reconcile = None THEN Idle ELSE [run EXCEPT !.pc = "reconcile"]
     ELSE run' = Idle \/ run' = [run EXCEPT !.pc = "fetch"]
  /\ UNCHANGED <<provider, rows, reconcile, touched, kills, history>>

\* deleteUntouched over the unit's scope.
Reconcile ==
  /\ run.pc = "reconcile"
  /\ rows' = {i \in rows : i \in touched \/ ~Covers(reconcile, i)}
  /\ reconcile' = None /\ touched' = {}
  /\ run' = Idle
  /\ UNCHANGED <<provider, checkpoint, kills, history>>

\* The runtime kills the run, or a request of it fails.
Kill ==
  /\ run # Idle /\ kills < MaxKills
  /\ kills' = kills + 1 /\ Failed
  /\ UNCHANGED <<provider, rows, checkpoint, reconcile, touched, history>>

RunStep == StartRun \/ Fetch \/ DeadLink \/ Mutation \/ Apply \/ Save \/ Reconcile

Next == Provider \/ RunStep \/ Kill

Spec == Init /\ [][Next]_vars

\* The cron job starts runs, and a run goes on.
Fairness == WF_vars(RunStep)
FairSpec == Spec /\ Fairness

-----------------------------------------------------------------------------
\* The checkpoint has caught up with everything the provider did.
CaughtUp ==
  /\ run = Idle /\ reconcile = None
  /\ checkpoint # None /\ checkpoint.kind = "delta" /\ checkpoint.at = Len(log)

Mirrors(except) ==
  \A i \in Item : Covers(checkpoint.from, i) =>
    /\ i \in alive => i \in rows
    /\ i \in rows => i \in alive \cup except

\* When the checkpoint has caught up, the rows are what the provider shows:
\* whatever died, expired or changed under the listing on the way there.  Rows
\* gone before a first-ever listing stay (that is not a resync), and so do
\* those an earlier part of the same run or unit had touched.
MirrorsProvider == CaughtUp => Mirrors(unlisted \cup vouched)

\* What the reconcile of a full resync promises: "everything the provider
\* still has inside each unit was touched after that unit's watermark; the
\* rest is gone there".
ResyncLeavesNoGhosts == CaughtUp => Mirrors(unlisted)

\* A mail backfill ends however little of it fits a run.
BackfillDone == source = "mail" => checkpoint # None /\ checkpoint.kind = "delta"
BackfillFinishes == <>BackfillDone
=============================================================================
