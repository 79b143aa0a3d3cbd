----------------------------- MODULE FieldReads -----------------------------
(***************************************************************************)
(* What a page of the Field shows of the spine: SpineProvider's version,   *)
(* which every realtime change and every completed action bumps, and one   *)
(* useSpineQuery, which reads again whenever the version or what it is     *)
(* about changes (spine-provider.tsx, realtime.ts, hooks.ts).              *)
(*                                                                         *)
(* A table is the number of its revision; a load is a set of reads, each   *)
(* at a time of its own, and shows them together.  Loads, calls and        *)
(* announcements of changes overlap freely; loads that were superseded are *)
(* not aborted, they go on unseen.                                         *)
(***************************************************************************)
EXTENDS Integers, FiniteSets

CONSTANTS
  Hooks,     \* the hooks looked at, of those in Pieces
  Watched,   \* the tables that change
  Subject,   \* what can be in focus, searched for, ...
  MaxRevision, MaxCalls, MaxMoves, MaxLoads,  \* bounds: writes per table, calls,
             \* moves of the user and of the network, loads under way at once
  None       \* null

\* The tables of the channel.
REALTIME_TABLES == {"context_events", "handoffs", "connector_accounts",
                    "connector_sync_states", "ingest_items", "threads"}

\* What ingest-process leaves behind.
IngestTables == {"ingest_items", "documents", "context_events", "relationships"}

Entities == {"people", "documents", "mail_messages", "time_events", "money_transactions",
             "threads", "conclusions"}

\* The tables a hook lists, all at once.
NowTables == {"context_events", "time_events", "money_transactions", "threads", "relationships"}
Tables(h) ==
  CASE h = "now" -> NowTables
    [] h = "threads" -> {"threads"}
    [] h = "people" -> {"people"}
    [] h = "time" -> {"time_events"}
    [] h = "money" -> {"money_accounts", "money_transactions"}
    [] h = "files" -> {"documents", "ingest_items"}
    [] h = "quiet" -> {"context_events"}
    [] h = "connectors" -> {"connector_accounts", "connector_sync_states"}
    [] h = "handoffs" -> {"handoffs", "devices"}
    [] h = "devices" -> {"devices"}
    [] OTHER -> {}

\* The neighbors of an entity, and then their rows.
Neighborhood == {<<"neighbors", "relationships">>} \cup ({"get"} \X Entities)

\* What it reads about one subject.
Details(h) ==
  CASE h = "thread" -> {<<"subject", "threads">>} \cup Neighborhood
    [] h = "on_screen" -> {<<"subject", "documents">>, <<"beside", "conclusions">>}
    [] h = "person_for_mail" -> {<<"subject", "mail_messages">>, <<"neighbors", "relationships">>}
    [] h = "person" -> {<<"subject", "people">>} \cup Neighborhood
         \cup ({"beside"} \X {"person_identities", "mail_messages", "money_transactions"})
    [] h = "document" -> {<<"subject", "documents">>}
    [] OTHER -> {}

Pieces(h) == {p \in ({"list"} \X Tables(h)) \cup Details(h) : p[2] \in Watched}

\* What a load may have read.
Shown == UNION {[D -> Nat] : D \in SUBSET UNION {Pieces(h) : h \in Hooks}}
Data == [focus : Subject \cup {None}, read : Shown]

ReadsAssumption ==
  /\ MaxRevision \in Nat /\ MaxCalls \in Nat /\ MaxMoves \in Nat /\ MaxLoads \in Nat
  /\ None \notin Subject \cup (Nat \X (Subject \cup {None})) \cup Data

\* Each of these waits for the other.
Before(q, p) ==
  \/ q[1] = "subject" /\ p[1] # "subject"
  \/ q[1] = "neighbors" /\ p[1] = "get"

BySubject == {"thread", "on_screen", "person_for_mail", "person", "document"}

\* useNow and its like depend on nothing but the version.
Unfocused == {"now", "threads", "quiet", "connectors", "handoffs", "devices"}

VARIABLES
  hook,     \* the hook of the page
  rows,     \* table -> its revision
  channel,  \* RealtimeStatus
  news,     \* changes on their way to the client
  online,   \* navigator.onLine, as SpineProvider has it
  calls,    \* act and processIngest under way
  version,  \* the version of SpineProvider
  focus,    \* what the hook is asked for
  query,    \* its state, and what its effect ran for last
  loads,    \* its loads under way
  heard,    \* history: table -> the last revision a bump of the version told of
  dispatched, moves

server == <<rows, channel, news>>
provider == <<online, calls, version, heard, dispatched>>
page == <<focus, query, loads, moves>>
vars == <<hook, server, provider, page>>

Deps == IF hook \in Unfocused THEN None ELSE focus

Unmounted == [ran |-> None, data |-> None, loading |-> TRUE, error |-> FALSE]

Call(kind, t) == [kind |-> kind, table |-> t, revision |-> 0, cancelled |-> FALSE]

\* Items left received get a run when the Field starts.
Init ==
  /\ hook \in Hooks
  /\ rows = [t \in Watched |-> 0] /\ heard = rows
  /\ channel = "connecting" /\ news = {}
  /\ online = TRUE
  /\ calls \in {{}} \cup {{Call("ingest", t)} : t \in Watched \cap IngestTables}
  /\ version = 0 /\ dispatched = Cardinality(calls)
  /\ focus \in Subject /\ query = Unmounted /\ loads = {} /\ moves = 0

-----------------------------------------------------------------------------
(* The server.                                                             *)

\* A row is written; the channel announces it, if it is up and the table is
\* in it.  It is told of no deletion.
Write(t) ==
  /\ rows[t] < MaxRevision
  /\ rows' = [rows EXCEPT ![t] = @ + 1]
  /\ \/ /\ channel = "live" /\ t \in REALTIME_TABLES
        /\ news' = news \cup {[table |-> t, revision |-> rows[t] + 1]}
     \/ UNCHANGED news

\* A sync, another device.
WrittenElsewhere ==
  /\ \E t \in Watched : Write(t)
  /\ UNCHANGED <<hook, channel, provider, page>>

\* Nothing is read again when the channel comes (back) up.
Subscribed ==
  /\ channel # "live" /\ channel' = "live"
  /\ UNCHANGED <<hook, rows, news, provider, page>>

Dropped ==
  /\ channel = "live" /\ moves < MaxMoves
  /\ channel' = "offline" /\ news' = {}
  /\ moves' = moves + 1
  /\ UNCHANGED <<hook, rows, provider, focus, query, loads>>

-----------------------------------------------------------------------------
(* SpineProvider.                                                          *)
Later(m, n) == IF m < n THEN n ELSE m

\* refresh(), for what is known of revision r of table t.
Refresh(t, r) ==
  /\ version' = version + 1
  /\ heard' = [heard EXCEPT ![t] = Later(@, r)]

Change ==
  /\ \E change \in news :
       /\ news' = news \ {change}
       /\ Refresh(change.table, change.revision)
  /\ UNCHANGED <<hook, rows, channel, online, calls, dispatched, page>>

\* act: an envelope goes to the server, which writes at a time of its own.
Act ==
  /\ dispatched < MaxCalls /\ dispatched' = dispatched + 1
  /\ \E t \in Watched : calls' = calls \cup {Call("act", t)}
  /\ UNCHANGED <<hook, server, online, version, heard, page>>

\* And when the connection is back.
Online ==
  /\ ~online /\ dispatched < MaxCalls /\ dispatched' = dispatched + 1
  /\ online' = TRUE
  /\ \E t \in Watched \cap IngestTables : calls' = calls \cup {Call("ingest", t)}
  /\ UNCHANGED <<hook, server, version, heard, page>>

Offline ==
  /\ online /\ moves < MaxMoves /\ moves' = moves + 1
  /\ online' = FALSE
  /\ calls' = {IF c.kind = "ingest" THEN [c EXCEPT !.cancelled = TRUE] ELSE c : c \in calls}
  /\ UNCHANGED <<hook, server, version, heard, dispatched, focus, query, loads>>

Carry(c) ==
  /\ c.revision = 0 /\ Write(c.table)
  /\ calls' = (calls \ {c}) \cup {[c EXCEPT !.revision = rows[c.table] + 1]}
  /\ UNCHANGED <<hook, channel, online, version, heard, dispatched, page>>

\* Mutant: an action that is answered with an error refreshes nothing.
RefreshedWhenDone(c, ok) == ok
\* act refreshes however the dispatch ends; ingest-process only if it said that
\* it did something, and still in the same connection.
RefreshedAfter(c, ok) ==
  c.kind = "act" \/ (ok /\ c.revision > 0 /\ ~c.cancelled)

\* The answer, or an error: what was written stays written.
End(c, ok) ==
  /\ calls' = calls \ {c}
  /\ IF RefreshedAfter(c, ok) THEN Refresh(c.table, c.revision)
     ELSE /\ UNCHANGED version
          /\ heard' = IF c.kind = "act" THEN [heard EXCEPT ![c.table] = Later(@, c.revision)]
                      ELSE heard
  /\ UNCHANGED <<hook, server, online, dispatched, page>>

-----------------------------------------------------------------------------
(* useSpineQuery.                                                          *)
Load == [focus |-> Deps, read |-> [p \in {} |-> 0], cancelled |-> FALSE]
Cancelled(all) == {[l EXCEPT !.cancelled = TRUE] : l \in all}

\* Mutant: the load before goes on, and shows what it read.
KeepLoads(all) == all
\* The cleanup of the last effect: its load shows nothing any more.
Superseded(all) == Cancelled(all)

\* The page has been rendered with another version or other dependencies.
Effect ==
  /\ query.ran # <<version, Deps>>
  /\ Cardinality(loads) < MaxLoads
  /\ query' = [query EXCEPT !.ran = <<version, Deps>>, !.loading = TRUE]
  /\ loads' = Superseded(loads) \cup {Load}
  /\ UNCHANGED <<hook, server, provider, focus, moves>>

\* One read of a load comes back.
Read(l, p) ==
  /\ p \notin DOMAIN l.read
  /\ \A q \in Pieces(hook) : Before(q, p) => q \in DOMAIN l.read
  /\ loads' = (loads \ {l}) \cup
       {[l EXCEPT !.read = [q \in DOMAIN l.read \cup {p} |->
                              IF q = p THEN rows[p[2]] ELSE l.read[q]]]}
  /\ UNCHANGED <<hook, server, provider, focus, query, moves>>

\* It has all it reads; or there is no subject; or the subject is not there.
Loaded(l) ==
  \/ Pieces(hook) \subseteq DOMAIN l.read
  \/ hook \in BySubject /\ l.focus = None
  \/ hook \in BySubject /\ \A p \in Pieces(hook) : p[1] = "subject" => p \in DOMAIN l.read

Resolve(l) ==
  /\ Loaded(l)
  /\ loads' = loads \ {l}
  /\ query' = IF l.cancelled THEN query
              ELSE [query EXCEPT !.data = [focus |-> l.focus, read |-> l.read],
                                 !.loading = FALSE, !.error = FALSE]
  /\ UNCHANGED <<hook, server, provider, focus, moves>>

\* A read fails: what was shown stays.
Reject(l) ==
  /\ loads' = loads \ {l}
  /\ query' = IF l.cancelled THEN query ELSE [query EXCEPT !.loading = FALSE, !.error = TRUE]
  /\ UNCHANGED <<hook, server, provider, focus, moves>>

-----------------------------------------------------------------------------
(* The user.                                                               *)
Focus ==
  /\ moves < MaxMoves /\ moves' = moves + 1
  /\ focus' \in (Subject \cup {None}) \ {focus}
  /\ UNCHANGED <<hook, server, provider, query, loads>>

\* Another area and back: the page starts with nothing to show.
Remount ==
  /\ moves < MaxMoves /\ moves' = moves + 1
  /\ query' = Unmounted /\ loads' = Superseded(loads)
  /\ UNCHANGED <<hook, server, provider, focus>>

Next ==
  \/ WrittenElsewhere \/ Subscribed \/ Dropped \/ Change \/ Act \/ Online \/ Offline
  \/ \E c \in calls : Carry(c) \/ \E ok \in BOOLEAN : End(c, ok)
  \/ Effect \/ Focus \/ Remount
  \/ \E l \in loads : Resolve(l) \/ Reject(l) \/ \E p \in Pieces(hook) : Read(l, p)

Spec == Init /\ [][Next]_vars

-----------------------------------------------------------------------------
(* "Stale results are dropped": what a page shows of a table never goes    *)
(* back to an earlier revision while it stays open, however its loads      *)
(* overlap and fail.                                                       *)
NeverBack ==
  [][query.data # None /\ query'.data # None =>
       \A p \in DOMAIN query.data.read \cap DOMAIN query'.data.read :
         query.data.read[p] =< query'.data.read[p]]_vars

(* A page at rest is about what it is asked for, and has every change the  *)
(* Field was told of and every write of its own actions, failed ones       *)
(* included: it never depends on Realtime to see its own writes.           *)
Settled == query.ran = <<version, Deps>> /\ ~query.loading /\ ~query.error
ShowsWhatItHeard ==
  Settled =>
    /\ query.data # None /\ query.data.focus = Deps
    /\ \A p \in DOMAIN query.data.read : query.data.read[p] >= heard[p[2]]
=============================================================================
