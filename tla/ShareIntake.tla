---------------------------- MODULE ShareIntake -----------------------------
(***************************************************************************)
(* The Android share sheet into ingestion: the plugin's queue and cached   *)
(* copies (SharePlugin.kt, ShareInbox.kt), the Field's drain of it         *)
(* (useShareIntake.ts, share-intake.ts) and the submission of one item     *)
(* (data/ingest.ts: look-up by hash, upload, ingest.submit).               *)
(*                                                                         *)
(* The queue lives in the app's process, the drain in its web view; shares *)
(* arrive on the activity's thread at any time.  A share is one item; what *)
(* it holds does not matter, but for whether it is a file.                 *)
(***************************************************************************)
EXTENDS Naturals, FiniteSets

CONSTANTS
  Shares,       \* what the user shares
  Files,        \* those with bytes: the others are text or a URL
  MaxFailures,  \* bound: uploads and dispatches that fail
  MaxMounts     \* bound: starts of the Field, the first included

ShareAssumption == Files \subseteq Shares /\ MaxFailures \in Nat /\ MaxMounts \in Nat

VARIABLES
  inbox,      \* ShareInbox.items
  cached,     \* copies under cacheDir/vixera-shares
  drain,      \* drainShares: where it is, its batch, what it has processed
  wiping,     \* clear(): the items of its toList(), between that and items.clear()
  submitted,  \* ingest.submit answered: share -> how often
  shared,     \* ghost: all that was ever shared
  late,       \* ghost: shared between a drain's last reading and its clear
  mounts, failures

plugin == <<inbox, cached, wiping>>
vars == <<plugin, drain, submitted, shared, late, mounts, failures>>

Idle == [at |-> "idle", batch |-> {}, todo |-> {}, processed |-> {}, failed |-> FALSE, held |-> {}]

Init ==
  /\ inbox = {} /\ cached = {} /\ wiping = {}
  /\ drain = Idle /\ submitted = [s \in Shares |-> 0]
  /\ shared = {} /\ late = {} /\ mounts = 0 /\ failures = 0

\* handle(pending): the queue as it was read or announced; one drain at a time.
Handle(pending) ==
  IF drain.at # "idle" \/ pending = {} THEN drain
  ELSE [Idle EXCEPT !.at = "batch", !.batch = pending, !.todo = pending]

-----------------------------------------------------------------------------
(* The plugin.                                                             *)

\* An intent is taken once: its streams are copied, the queue grows, and an
\* event with the whole queue goes to whoever listens.
Share(s) ==
  /\ s \notin shared
  /\ shared' = shared \cup {s}
  /\ inbox' = inbox \cup {s}
  /\ cached' = cached \cup ({s} \cap Files)
  /\ drain' = IF mounts = 0 THEN drain ELSE Handle(inbox')
  /\ late' = late \cup {t \in {s} : drain.at \in {"clear", "wipe"}}
  /\ UNCHANGED <<wiping, submitted, mounts, failures>>

\* The Field starts and reads what is pending.
Mount ==
  /\ mounts < MaxMounts /\ drain = Idle
  /\ mounts' = mounts + 1
  /\ drain' = Handle(inbox)
  /\ UNCHANGED <<plugin, submitted, shared, late, failures>>

-----------------------------------------------------------------------------
(* The drain.                                                              *)

\* Files go first, one by one.
Ready(s) ==
  /\ s \in drain.todo
  /\ s \notin Files => drain.todo \cap Files = {}
  /\ drain.held \subseteq {s}

\* A file's bytes are read, and uploaded unless a document has the same hash.
Upload(s) ==
  /\ drain.at = "batch" /\ Ready(s) /\ s \in Files \ drain.held /\ s \in cached
  /\ drain' = [drain EXCEPT !.held = {s}]
  /\ UNCHANGED <<plugin, submitted, shared, late, mounts, failures>>

Dispatch(s) ==
  /\ drain.at = "batch" /\ Ready(s) /\ s \notin Files \ drain.held
  /\ submitted' = [submitted EXCEPT ![s] = @ + 1]
  /\ drain' = [drain EXCEPT !.todo = @ \ {s}, !.held = {}]
  /\ UNCHANGED <<plugin, shared, late, mounts, failures>>

\* The upload, the dispatch or its answer fails: the others go on.
Fail(s) ==
  /\ drain.at = "batch" /\ Ready(s) /\ failures < MaxFailures
  /\ failures' = failures + 1
  /\ \/ UNCHANGED submitted
     \/ s \notin Files \ drain.held /\ submitted' = [submitted EXCEPT ![s] = @ + 1]
  /\ drain' = [drain EXCEPT !.todo = @ \ {s}, !.held = {}, !.failed = TRUE]
  /\ UNCHANGED <<plugin, shared, late, mounts>>

\* A batch with a failure leaves the queue as it is.
BatchDone ==
  /\ drain.at = "batch" /\ drain.todo = {}
  /\ drain' = IF drain.failed THEN Idle
              ELSE [drain EXCEPT !.at = "read", !.processed = @ \cup drain.batch]
  /\ UNCHANGED <<plugin, submitted, shared, late, mounts, failures>>

\* The queue is read again, until nothing in it is new.
Unread(pending) == {}
NewIn(pending) == pending \ drain.processed

Reread ==
  /\ drain.at = "read"
  /\ drain' = [drain EXCEPT !.at = IF NewIn(inbox) = {} THEN "clear" ELSE "batch",
                            !.batch = NewIn(inbox), !.todo = NewIn(inbox)]
  /\ UNCHANGED <<plugin, submitted, shared, late, mounts, failures>>

\* clear(): the list is copied, then emptied; the copies of what it held are
\* deleted.
Clear ==
  /\ drain.at = "clear"
  /\ wiping' = inbox
  /\ drain' = [drain EXCEPT !.at = "wipe"]
  /\ UNCHANGED <<inbox, cached, submitted, shared, late, mounts, failures>>

Wipe ==
  /\ drain.at = "wipe"
  /\ inbox' = {} /\ wiping' = {}
  /\ cached' = cached \ wiping
  /\ drain' = Idle
  /\ UNCHANGED <<submitted, shared, late, mounts, failures>>

\* The web view goes away with its drain; the activity and the queue stay.
Unload ==
  /\ drain # Idle /\ drain.at # "wipe" /\ mounts < MaxMounts
  /\ drain' = Idle
  /\ UNCHANGED <<plugin, submitted, shared, late, mounts, failures>>

Next ==
  \/ Mount \/ BatchDone \/ Reread \/ Clear \/ Wipe \/ Unload
  \/ \E s \in Shares : Share(s) \/ Upload(s) \/ Dispatch(s) \/ Fail(s)

Spec == Init /\ [][Next]_vars

-----------------------------------------------------------------------------
(* What the user shared is submitted or still in the queue with its bytes, *)
(* however shares, failures and restarts of the Field interleave; but for  *)
(* what arrives between a drain's last reading of the queue and its clear, *)
(* which is deleted unread.                                                *)
SharesKept ==
  \A s \in shared \ late :
    submitted[s] > 0 \/ (s \in inbox /\ (s \in Files => s \in cached))

(* The queue is cleared only once every item in it has been dispatched:    *)
(* what share-intake.ts promises without the exception.                    *)
NothingUnread ==
  \A s \in shared : submitted[s] > 0 \/ s \in inbox
=============================================================================
