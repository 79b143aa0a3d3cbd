----------------------------- MODULE TimeEvents -----------------------------
(***************************************************************************)
(* The context events of one calendar event.  A sync that sees a changed   *)
(* event stores a context event of the new version and retires the others  *)
(* (applyCalendarBatch); the user moves the ones NOW and Quiet show        *)
(* (context_event.dismiss, quiet, snooze, attend).  setContextEventAttention *)
(* with metadata reads the row and writes it back, so every action of one  *)
(* side may fall between two round trips of the other.                     *)
(***************************************************************************)
EXTENDS Integers, FiniteSets

CONSTANTS
  Version,     \* hashes of title, start, end and status
  MaxChanges,  \* bound: changes made at the provider
  MaxUser,     \* bound: things the user does
  MaxKills,    \* bound: syncs killed
  None         \* null

VARIABLES
  provider,  \* the version the calendar has, or None once it is deleted
  events,    \* [Version -> context event of that dedupe key, or None]
  sync,      \* the locals of the sync that applies the calendar's pages
  user,      \* the locals of the action the user dispatched
  spent,     \* versions whose context_event.dismiss key is done
  dropped,   \* history: versions the user dismissed while no sync was at work
  applied,   \* history: the version whose batch was last applied in full
  overlap,   \* history: a user's action and that sync were at work together
  changes, acts, kills

vars == <<provider, events, sync, user, spent, dropped, applied, overlap,
          changes, acts, kills>>

Attention == {"needs_attention", "quiet", "dismissed"}
Metadata == [supersededBy : Version \cup {None}, snoozed : BOOLEAN]
Event == [attention : Attention, metadata : Metadata]
NoEvents == [v \in Version |-> None]

\* What the constants must be.
TimeEventsAssumption ==
  /\ MaxChanges \in Nat /\ MaxUser \in Nat /\ MaxKills \in Nat
  /\ None \notin Version \cup Event

IdleSync == [pc |-> "idle", version |-> None, prior |-> NoEvents, stale |-> {},
             metadata |-> None, row |-> None]
IdleUser == [pc |-> "idle", row |-> None, attention |-> None, snoozed |-> FALSE,
             metadata |-> None]

TypeOK ==
  /\ provider \in Version \cup {None}
  /\ events \in [Version -> Event \cup {None}]
  /\ sync.version \in Version \cup {None} /\ sync.prior \in [Version -> Event \cup {None}]
  /\ sync.stale \subseteq Version
  /\ sync.pc # "idle" => sync.version # None
  /\ user.attention \in Attention \cup {None}
  /\ spent \subseteq Version /\ dropped \subseteq Version
  /\ applied \in Version \cup {None} /\ overlap \in BOOLEAN
  /\ changes \in 0..MaxChanges /\ acts \in 0..MaxUser /\ kills \in 0..MaxKills

Init ==
  /\ provider \in Version
  /\ events = NoEvents
  /\ sync = IdleSync /\ user = IdleUser
  /\ spent = {} /\ dropped = {} /\ applied = None /\ overlap = FALSE
  /\ changes = 0 /\ acts = 0 /\ kills = 0

Shown(v) == events[v] # None /\ events[v].attention # "dismissed"

-----------------------------------------------------------------------------
(***************************************************************************)
(* The calendar.                                                           *)
(***************************************************************************)
Change ==
  /\ changes < MaxChanges
  /\ changes' = changes + 1
  /\ \E v \in Version \cup {None} : v # provider /\ provider' = v
  /\ UNCHANGED <<events, sync, user, spent, dropped, applied, overlap, acts, kills>>

-----------------------------------------------------------------------------
(***************************************************************************)
(* applyCalendarBatch.                                                     *)
(***************************************************************************)
\* The events about the row are listed before the batch's own is stored.
ListPrior ==
  /\ sync.pc = "idle" /\ provider # None
  /\ sync' = [IdleSync EXCEPT !.pc = "store", !.version = provider, !.prior = events]
  /\ overlap' = (user.pc # "idle")
  /\ applied' = None
  /\ UNCHANGED <<provider, events, user, spent, dropped, changes, acts, kills>>

\* timeAttention: an event that has ended is filed as quiet.
FiledAs == {"needs_attention", "quiet"}

\* Mutant: only a version never seen before retires the others.
StaleForNew ==
  {v \in Version \ {sync.version} :
     /\ sync.prior[sync.version] = None
     /\ sync.prior[v] # None /\ sync.prior[v].attention # "dismissed"}

Stale ==
  {v \in Version \ {sync.version} :
     sync.prior[v] # None /\ sync.prior[v].attention # "dismissed"}

\* upsertContextEvents: an event of the key that exists is left as it is.
StoreEvent ==
  /\ sync.pc = "store"
  /\ \E filed \in FiledAs :
       events' = [events EXCEPT ![sync.version] =
         IF @ # None THEN @
         ELSE [attention |-> filed,
               metadata |-> [supersededBy |-> None, snoozed |-> FALSE]]]
  /\ sync' = [sync EXCEPT !.pc = "retire", !.stale = Stale]
  /\ UNCHANGED <<provider, user, spent, dropped, applied, overlap, changes, acts, kills>>

\* The event of this version was retired by a later one and has come back.
\* Mutant: anything dismissed is brought back.
AnyCameBack ==
  LET current == sync.prior[sync.version]
  IN  current # None /\ current.attention = "dismissed"

CameBack ==
  LET current == sync.prior[sync.version]
  IN  /\ current # None /\ current.attention = "dismissed"
      /\ current.metadata.supersededBy # None

\* setContextEventAttention reads the metadata it will write back.
ReadRow(v, pc) ==
  /\ sync' = [sync EXCEPT !.pc = pc, !.row = v, !.metadata = events[v].metadata]
  /\ UNCHANGED <<provider, events, user, spent, dropped, applied, overlap,
                 changes, acts, kills>>

ReadStale == sync.pc = "retire" /\ \E v \in sync.stale : ReadRow(v, "retiring")

Retire ==
  /\ sync.pc = "retiring"
  /\ events' = [events EXCEPT ![sync.row] =
       [attention |-> "dismissed",
        metadata |-> [sync.metadata EXCEPT !.supersededBy = sync.version]]]
  /\ sync' = [sync EXCEPT !.pc = "retire", !.stale = @ \ {sync.row}, !.row = None,
                          !.metadata = None]
  /\ UNCHANGED <<provider, user, spent, dropped, applied, overlap, changes, acts, kills>>

ReadCurrent ==
  sync.pc = "retire" /\ sync.stale = {} /\ CameBack /\ ReadRow(sync.version, "reviving")

BatchDone ==
  /\ sync' = IdleSync
  /\ applied' = sync.version
  /\ UNCHANGED <<provider, user, spent, dropped, overlap, changes, acts, kills>>

Revive ==
  /\ sync.pc = "reviving"
  /\ \E filed \in FiledAs :
       events' = [events EXCEPT ![sync.version] =
         [attention |-> filed, metadata |-> [sync.metadata EXCEPT !.supersededBy = None]]]
  /\ BatchDone

NothingToRevive ==
  /\ sync.pc = "retire" /\ sync.stale = {} /\ ~CameBack
  /\ BatchDone /\ UNCHANGED events

\* batch.deleted: the row goes, and its events with it.
Delete ==
  /\ sync.pc = "idle" /\ provider = None
  /\ events' = NoEvents
  /\ spent' = {} /\ dropped' = {} /\ applied' = None
  /\ UNCHANGED <<provider, sync, user, overlap, changes, acts, kills>>

Killed ==
  /\ sync.pc # "idle" /\ kills < MaxKills
  /\ kills' = kills + 1
  /\ sync' = IdleSync
  /\ UNCHANGED <<provider, events, user, spent, dropped, applied, overlap, changes, acts>>

-----------------------------------------------------------------------------
(***************************************************************************)
(* The user.                                                               *)
(***************************************************************************)
\* dismiss writes the attention alone; its key is the event, so a second one
\* is answered with the first one's outcome.
Dismiss(v) ==
  /\ user.pc = "idle" /\ acts < MaxUser /\ Shown(v)
  /\ acts' = acts + 1
  /\ spent' = spent \cup {v}
  /\ overlap' = (overlap \/ sync.pc # "idle")
  /\ IF v \in spent THEN UNCHANGED <<events, dropped>>
     ELSE /\ events' = [events EXCEPT ![v].attention = "dismissed"]
          /\ dropped' = IF sync.pc = "idle" THEN dropped \cup {v} ELSE dropped
  /\ UNCHANGED <<provider, sync, user, applied, changes, kills>>

\* quiet and attend clear the snooze, snooze sets it: read the metadata ...
Set(v, attention, snoozed) ==
  /\ user.pc = "idle" /\ acts < MaxUser /\ Shown(v)
  /\ acts' = acts + 1
  /\ user' = [pc |-> "write", row |-> v, attention |-> attention, snoozed |-> snoozed,
              metadata |-> events[v].metadata]
  /\ overlap' = (overlap \/ sync.pc # "idle")
  /\ UNCHANGED <<provider, events, sync, spent, dropped, applied, changes, kills>>

Quiet(v) == events[v].attention = "needs_attention" /\ Set(v, "quiet", FALSE)
Snooze(v) == events[v].attention = "needs_attention" /\ Set(v, "quiet", TRUE)
Attend(v) == events[v].attention = "quiet" /\ Set(v, "needs_attention", FALSE)

\* ... and write it back with the attention.
WriteBack ==
  /\ user.pc = "write"
  /\ events' = [events EXCEPT ![user.row] =
       IF @ = None THEN @
       ELSE [attention |-> user.attention,
             metadata |-> [user.metadata EXCEPT !.snoozed = user.snoozed]]]
  /\ user' = IdleUser
  /\ UNCHANGED <<provider, sync, spent, dropped, applied, overlap, changes, acts, kills>>

UserStep ==
  \/ \E v \in Version : events[v] # None /\ (Dismiss(v) \/ Quiet(v) \/ Snooze(v) \/ Attend(v))
  \/ WriteBack

SyncStep ==
  \/ ListPrior \/ StoreEvent \/ ReadStale \/ Retire \/ ReadCurrent \/ Revive
  \/ NothingToRevive \/ Delete

Next == Change \/ SyncStep \/ Killed \/ UserStep

Spec == Init /\ [][Next]_vars

-----------------------------------------------------------------------------
(***************************************************************************)
(* Properties.                                                             *)
(***************************************************************************)
\* A rescheduled meeting leaves no old item in NOW: once a version's batch has
\* been applied, however many syncs were killed before, no other version is
\* shown, unless the user's own action overlapped with that sync.
OneVersionShown ==
  sync.pc = "idle" /\ user.pc = "idle" /\ applied # None /\ ~overlap =>
    \A v \in Version : Shown(v) => v = applied

\* A dismissal the user made carries no supersededBy and is respected: however
\* the meeting is moved and moved back, no sync brings that version back.
DismissalRespected == \A v \in dropped : ~Shown(v)

=============================================================================
