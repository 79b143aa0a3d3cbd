----------------------------- MODULE CalendarSync -----------------------------
(***************************************************************************)
(* The Google calendar source under the sync engine.  Each selected        *)
(* calendar has a state of its own in the checkpoint: a sync token, the    *)
(* page of a listing in progress, and the stored instances of recurring    *)
(* series, for Google reports a cancelled series by its master alone.      *)
(* Times are days; a page is one thing, or the empty last page; the past   *)
(* edge of a window is the day it is opened, and a run fits in a day.      *)
(***************************************************************************)
EXTENDS Integers, Sequences, FiniteSets

CONSTANTS
  Calendar,     \* calendars
  Rank,         \* [Calendar -> Nat]: their order in calendarList, any order on a tie
  Primary,      \* the calendar that is always selected
  Event,        \* single events and instances
  Master,       \* recurring series
  CalendarOf,   \* [Event \cup Master -> calendar]
  MasterOf,     \* [Event -> Master \cup {None}]
  DayOf,        \* [Event -> Nat]
  Ahead,        \* futureDays
  LastDay,      \* bound: the days that pass
  MaxChanges,   \* bound: changes at Google
  MaxExpiries,  \* bound: times Google drops its tokens
  MaxKills,     \* bound: runs that die
  None

Thing == Event \cup Master

VARIABLES
  alive,       \* events Google shows
  selected,    \* calendars the user has selected there
  log,         \* Google's changes: events, cancelled masters, calendars (de)selected
  epoch,       \* tokens issued in an earlier epoch are dead
  today,
  rows,        \* events stored here
  checkpoint,  \* [calendars with a stored state -> State]
  reconcile,   \* [Calendar -> first day of its pending unit, or None]
  touched,     \* rows written since the watermark of their calendar's unit
  run,
  kills,
  unlisted,    \* history: rows gone before a listing that could not tell
  vouched,     \* history: the same, touched since the unit's watermark
  forgotten    \* history: stored instances, beyond the window, that their series has lost

google == <<alive, selected, log, epoch, today>>
store == <<rows, checkpoint, reconcile, touched>>
history == <<unlisted, vouched, forgotten>>
vars == <<google, store, run, kills, history>>

SyncToken == [at : 0..MaxChanges, epoch : 0..MaxExpiries, from : 0..LastDay]
PageState == [left : SUBSET Thing, at : 0..MaxChanges, epoch : 0..MaxExpiries,
              from : 0..LastDay, listing : BOOLEAN, full : BOOLEAN]

CalendarSyncAssumption ==
  /\ Primary \in Calendar /\ Rank \in [Calendar -> Nat] /\ CalendarOf \in [Thing -> Calendar]
  /\ MasterOf \in [Event -> Master \cup {None}] /\ DayOf \in [Event -> Nat]
  /\ \A e \in Event : MasterOf[e] # None => CalendarOf[MasterOf[e]] = CalendarOf[e]
  /\ Event \cap Master = {} /\ Thing \cap Calendar = {}
  /\ None \notin Nat \cup Master \cup SyncToken \cup PageState
  /\ {Ahead, LastDay, MaxChanges, MaxExpiries, MaxKills} \subseteq Nat

State == [sync : SyncToken \cup {None}, page : PageState \cup {None}, series : SUBSET Event]

Idle == [pc |-> "idle"]

\* left: calendars not done, here among them; fresh: the listing was opened by
\* this run; resumed: no page of this run has confirmed the stored token.
RunOK ==
  /\ run.pc \in {"fetch", "apply", "save", "reconcile"} /\ run.left \subseteq DOMAIN run.states
  /\ run.left # {} => run.here \in run.left
  /\ \A c \in DOMAIN run.states : run.states[c] \in State
  /\ {run.full, run.fresh, run.resumed} \subseteq BOOLEAN
  /\ UNION {run.touched, run.upserts, run.deletes} \subseteq Event
  /\ run.scope \in 0..LastDay \cup {None}

TypeOK ==
  /\ alive \subseteq Event /\ selected \subseteq Calendar /\ log \in Seq(Thing \cup Calendar)
  /\ epoch \in 0..MaxExpiries /\ today \in 0..LastDay
  /\ rows \subseteq Event /\ touched \subseteq Event
  /\ DOMAIN checkpoint \subseteq Calendar
  /\ \A c \in DOMAIN checkpoint : checkpoint[c] \in State
  /\ reconcile \in [Calendar -> 0..LastDay \cup {None}]
  /\ (run = Idle \/ RunOK) /\ kills \in 0..MaxKills
  /\ \A c \in DOMAIN checkpoint :
       checkpoint[c].page # None => checkpoint[c].page.listing = (checkpoint[c].sync = None)

Init ==
  /\ alive = Event /\ selected = Calendar /\ log = <<>> /\ epoch = 0 /\ today = 0
  /\ rows = {} /\ checkpoint = <<>> /\ reconcile = [c \in Calendar |-> None] /\ touched = {}
  /\ run = Idle /\ kills = 0 /\ unlisted = {} /\ vouched = {} /\ forgotten = {}

-----------------------------------------------------------------------------
\* Google.  An event changes, or is cancelled; a whole series is cancelled,
\* which is reported by its master alone.
Report(x) == Len(log) < MaxChanges /\ log' = Append(log, x)

ChangeEvent(e) == e \in alive /\ Report(e) /\ UNCHANGED alive
CancelEvent(e) == e \in alive /\ Report(e) /\ alive' = alive \ {e}
CancelSeries(m) ==
  /\ \E e \in alive : MasterOf[e] = m
  /\ Report(m) /\ alive' = {e \in alive : MasterOf[e] # m}

Google ==
  /\ \/ /\ \/ \E e \in Event : ChangeEvent(e) \/ CancelEvent(e)
           \/ \E m \in Master : CancelSeries(m)
        /\ UNCHANGED <<selected, epoch, today>>
     \/ \E c \in Calendar \ {Primary} :
          /\ Report(c)
          /\ selected' = IF c \in selected THEN selected \ {c} ELSE selected \cup {c}
          /\ UNCHANGED <<alive, epoch, today>>
     \/ epoch < MaxExpiries /\ epoch' = epoch + 1 /\ UNCHANGED <<alive, selected, log, today>>
     \/ run = Idle /\ today < LastDay /\ today' = today + 1
        /\ UNCHANGED <<alive, selected, log, epoch>>
  /\ UNCHANGED <<store, run, kills, history>>

InWindow(from, e) == DayOf[e] \in from..from + Ahead

\* What a fresh listing has to show, and what has happened since a sync token.
Listing(c, full) ==
  [left |-> {e \in alive : CalendarOf[e] = c /\ InWindow(today, e)}, at |-> Len(log),
   epoch |-> epoch, from |-> today, listing |-> TRUE, full |-> full]

Round(c, token, full) ==
  [left |-> {x \in Thing : CalendarOf[x] = c /\ \E n \in token.at + 1..Len(log) : log[n] = x},
   at |-> Len(log), epoch |-> epoch, from |-> token.from, listing |-> FALSE, full |-> full]

-----------------------------------------------------------------------------
\* The connector.  loadState: the instances outside the window are dropped.
NewState == [sync |-> None, page |-> None, series |-> {}]
Stored(c) == IF c \in DOMAIN checkpoint THEN checkpoint[c] ELSE NewState
LoadState(c) == [Stored(c) EXCEPT !.series = {e \in @ : InWindow(today, e)}]

\* The next calendar of the run: a stored page is resumed.
Visit(r, c, left) ==
  LET page == r.states[c].page
  IN  [r EXCEPT !.here = c, !.left = left, !.full = page # None /\ page.full,
                !.fresh = page = None, !.resumed = page # None]

\* The next calendar, in the order of calendarList.
First(left) == {c \in left : \A d \in left : Rank[c] <= Rank[d]}

\* listCalendars and selectCalendars: state is kept for these calendars only.
StartRun ==
  /\ run = Idle
  /\ \E c \in First(selected) :
       run' = Visit([pc |-> "fetch", here |-> c, left |-> selected,
                     states |-> [d \in selected |-> LoadState(d)],
                     full |-> FALSE, fresh |-> FALSE, resumed |-> FALSE, touched |-> {},
                     upserts |-> {}, deletes |-> {}, scope |-> None], c, selected)
  /\ forgotten' = forgotten \cup
       UNION {{e \in Stored(c).series : DayOf[e] > today + Ahead} : c \in selected}
  /\ UNCHANGED <<google, store, kills, unlisted, vouched>>

Here == run.here
My == run.states[Here]
Instances(m, series) == {e \in series : MasterOf[e] = m}

\* Mutant: a cancelled id is the deletion of that id.
NoFanOut(x, series) == IF x \in Event THEN {x} \ alive ELSE {}

\* fold: what a cancelled thing deletes; a known master, all its instances.
Cancelled(x, series) == IF x \in Event THEN {x} \ alive ELSE Instances(x, series)

\* The next page of this calendar, fetched and folded.
Respond(request) ==
  \E xs \in SUBSET request.left :
    /\ Cardinality(xs) = IF request.left = {} THEN 0 ELSE 1
    /\ LET upserts == xs \cap alive
           deletes == UNION {Cancelled(x, My.series) : x \in xs}
           rest == [request EXCEPT !.left = @ \ xs]
           done == rest.left = {}
       IN  run' = [run EXCEPT
             !.pc = "apply", !.resumed = FALSE, !.upserts = upserts, !.deletes = deletes,
             !.scope = IF request.listing THEN request.from ELSE None,
             !.states[Here] =
               [sync |-> IF done THEN [at |-> request.at, epoch |-> epoch, from |-> request.from]
                         ELSE @.sync,
                page |-> IF done THEN None ELSE rest,
                series |-> (@.series \ deletes) \cup {e \in upserts : MasterOf[e] # None}]]

\* The rows that are gone when a listing opens and that only a reconcile
\* removes: for it to do so the unit must be declared, cover them, and be
\* younger than the last time they were written.
Opening ==
  LET gone == {e \in rows \ alive : CalendarOf[e] = Here}
      covered == IF run.full THEN {e \in gone : InWindow(today, e)} ELSE {}
  IN  /\ unlisted' = unlisted \cup (gone \ covered)
      /\ vouched' = vouched \cup (covered \cap run.touched)
      /\ forgotten' = forgotten \cup
           {e \in rows \ My.series : MasterOf[e] # None /\ CalendarOf[e] = Here /\ ~InWindow(today, e)}

Live(token) == token # None => token.epoch = epoch

Fetch ==
  /\ run # Idle /\ run.pc = "fetch" /\ Live(My.page) /\ Live(My.sync)
  /\ IF My.page # None THEN Respond(My.page) /\ UNCHANGED history
     ELSE IF My.sync # None THEN Respond(Round(Here, My.sync, run.full)) /\ UNCHANGED history
     ELSE Respond(Listing(Here, run.full)) /\ Opening
  /\ UNCHANGED <<google, store, kills>>

\* 410: the sync token is gone, this calendar lists again, as a full resync.
SyncTokenExpired ==
  /\ run # Idle /\ run.pc = "fetch" /\ My.sync # None /\ ~Live(My.sync)
  /\ run' = [run EXCEPT !.full = TRUE, !.fresh = TRUE, !.resumed = FALSE,
                        !.states[Here].sync = None, !.states[Here].page = None]
  /\ UNCHANGED <<google, store, kills, history>>

\* 400 on the page token the run resumed with: this calendar starts over.  On a
\* token of this run it is an error.
PageTokenRejected ==
  /\ run # Idle /\ run.pc = "fetch" /\ My.page # None /\ ~Live(My.page)
  /\ IF run.resumed
     THEN run' = [run EXCEPT !.fresh = TRUE, !.resumed = FALSE, !.states[Here].page = None]
     ELSE My.sync = None /\ run' = Idle
  /\ UNCHANGED <<google, store, kills, history>>

-----------------------------------------------------------------------------
\* The engine.  A page of a listing that is a full resync declares its
\* calendar's unit; one the run has opened replaces the pending unit.
Apply ==
  /\ run # Idle /\ run.pc = "apply"
  /\ LET mine == {e \in Event : CalendarOf[e] = Here}
         declares == run.full /\ run.scope # None
         replaces == declares /\ (run.fresh \/ reconcile[Here] = None)
         unit == IF replaces THEN run.scope ELSE reconcile[Here]
         seen == IF replaces THEN (touched \ mine) \cup (run.touched \cap mine) ELSE touched
     IN  /\ reconcile' = [reconcile EXCEPT ![Here] = unit]
         /\ touched' = IF unit = None THEN touched \ mine ELSE seen \cup run.upserts
  /\ rows' = (rows \ run.deletes) \cup run.upserts
  /\ run' = [run EXCEPT !.pc = "save", !.touched = @ \cup run.upserts]
  /\ UNCHANGED <<google, checkpoint, kills, history>>

\* Mutant: the checkpoint holds the calendar of the page alone.
OnlyHere == [c \in {Here} |-> run.states[c]]

\* toCheckpoint: every calendar that has a state.
ToCheckpoint ==
  LET kept == {c \in DOMAIN run.states : run.states[c] # NewState}
  IN  [c \in kept |-> run.states[c]]

\* A page of a listing may be where the run is out of time; a run has room for
\* the rounds of its calendars and one more page.
Save ==
  /\ run # Idle /\ run.pc = "save"
  /\ checkpoint' = ToCheckpoint
  /\ IF My.page # None \/ run.left # {Here}
     THEN \/ run.scope # None /\ run' = Idle
          \/ My.page # None /\ run' = [run EXCEPT !.pc = "fetch"]
          \/ My.page = None /\ \E c \in First(run.left \ {Here}) :
               run' = [Visit(run, c, run.left \ {Here}) EXCEPT !.pc = "fetch"]
     ELSE run' = IF \A c \in Calendar : reconcile[c] = None THEN Idle
                 ELSE [run EXCEPT !.pc = "reconcile", !.left = {}]
  /\ UNCHANGED <<google, rows, reconcile, touched, kills, history>>

\* deleteUntouched, for each pending unit.
Reconcile ==
  /\ run # Idle /\ run.pc = "reconcile"
  /\ rows' = {e \in rows : LET from == reconcile[CalendarOf[e]]
                           IN  from = None \/ e \in touched \/ ~InWindow(from, e)}
  /\ reconcile' = [c \in Calendar |-> None] /\ touched' = {} /\ run' = Idle
  /\ UNCHANGED <<google, checkpoint, kills, history>>

Kill ==
  /\ run # Idle /\ kills < MaxKills
  /\ kills' = kills + 1 /\ run' = Idle
  /\ UNCHANGED <<google, store, history>>

RunStep == StartRun \/ Fetch \/ SyncTokenExpired \/ PageTokenRejected \/ Apply \/ Save \/ Reconcile

Next == Google \/ RunStep \/ Kill

Spec == Init /\ [][Next]_vars

\* The cron job starts runs, and a run goes on.
Fairness == WF_vars(RunStep)
FairSpec == Spec /\ Fairness

-----------------------------------------------------------------------------
\* Every selected calendar has caught up with Google.
CaughtUp ==
  /\ run = Idle /\ selected \subseteq DOMAIN checkpoint
  /\ \A c \in selected : /\ reconcile[c] = None /\ checkpoint[c].page = None
                         /\ checkpoint[c].sync # None /\ checkpoint[c].sync.at = Len(log)

Mirrors(except) ==
  \A e \in Event : CalendarOf[e] \in selected /\ DayOf[e] >= today =>
    /\ e \in alive /\ InWindow(checkpoint[CalendarOf[e]].sync.from, e) => e \in rows
    /\ e \in rows => e \in alive \cup except

\* When every calendar has caught up, the rows that have not left the past
\* window are what Google shows, whatever expired, was cancelled, deselected or
\* killed on the way; but for rows gone before a listing that could not tell.
MirrorsCalendars == CaughtUp => Mirrors(unlisted \cup vouched \cup forgotten)

\* "When Google reports the master id as cancelled, the page emits a deletion
\* for every instance under it": none that has not left the past window stays.
SeriesDeletedWhole == CaughtUp => Mirrors(unlisted \cup vouched)

\* A listing ends however little of it fits a run.
ListingsDone == \A c \in selected : c \in DOMAIN checkpoint /\ checkpoint[c].sync # None
ListingFinishes == <>ListingsDone
=============================================================================
