------------------------------- MODULE Sources -------------------------------
(***************************************************************************)
(* The delta sources and the Google calendars side by side: the initial    *)
(* state picks the source.  The two modules share the names of the state   *)
(* every source has; `ofGoogle' says which of them owns it.                *)
(***************************************************************************)
EXTENDS CalendarSync

CONSTANTS
  DeltaSources, Item, ItemDay, Span, MaxAge, MaxAttempts,
  DeltaExpiries \* MaxExpiries of the delta sources

VARIABLES ofGoogle, source

D == INSTANCE DeltaSync WITH
  Sources <- DeltaSources, DayOf <- ItemDay, MaxExpiries <- DeltaExpiries

ASSUME SourcesAssumption == CalendarSyncAssumption /\ D!DeltaSyncAssumption

deltaVars == D!vars
allVars == <<vars, ofGoogle, source>>

SourcesInit ==
  \/ ofGoogle = TRUE /\ Init /\ source = "calendar"
  \/ ofGoogle = FALSE /\ D!Init /\ selected = {} /\ forgotten = {}

SourcesNext ==
  \/ ofGoogle /\ Next /\ UNCHANGED <<ofGoogle, source>>
  \/ ~ofGoogle /\ D!Next /\ UNCHANGED <<ofGoogle, selected, forgotten>>

SourcesSpec ==
  /\ SourcesInit /\ [][SourcesNext]_allVars
  /\ WF_vars(ofGoogle /\ RunStep) /\ WF_deltaVars(~ofGoogle /\ D!RunStep)

-----------------------------------------------------------------------------
\* A source that has caught up has the rows its provider shows: the delta
\* sources item by item, the Google calendars with the instances of series.
MirrorsSource == IF ofGoogle THEN MirrorsCalendars ELSE D!MirrorsProvider

\* A mail backfill and the calendar listings end, however little fits a run.
ResumableFinishes == <>(IF ofGoogle THEN ListingsDone ELSE D!BackfillDone)

\* A listing of the bank that starts over reconciles what it no longer names.
BankResyncWhole == ~ofGoogle => D!ResyncLeavesNoGhosts

\* A cancelled series leaves no instance behind.
SeriesGone == ofGoogle => SeriesDeletedWhole
=============================================================================
