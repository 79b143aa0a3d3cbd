------------------------------ MODULE SqlStore ------------------------------
(***************************************************************************)
(* SupabaseSpineStore over PostgREST and the schema of the migrations: the *)
(* same methods as MemoryStore, each built from the statements it sends.   *)
(* A statement checks the constraints and validation triggers of its rows  *)
(* and applies all of them or none; PostgREST returns at most MaxRows rows *)
(* of any answer.  other, where an operator takes it, is what a concurrent *)
(* writer commits between the method's read and its write.                 *)
(***************************************************************************)
EXTENDS SpineRows

CONSTANTS
  Chunk,     \* rows per statement or page (500)
  MaxRows    \* rows PostgREST returns at most (db-max-rows, 1000)

Least(m, n) == IF m > n THEN n ELSE m

\* What PostgREST returns of the rows of an answer.
AtMostMaxRows(keys) ==
  CHOOSE some \in SUBSET keys : Cardinality(some) = Least(Cardinality(keys), MaxRows)

-----------------------------------------------------------------------------
(* The schema. *)
Updatable == {"people", "threads", "documents", "mail_messages", "money_accounts",
              "money_transactions", "time_events", "connector_accounts", "sync_states",
              "action_requests"}

\* vx_set_updated_at and the default of the column.
Stamp(table, now) == IF table \in Updatable THEN [updatedAt |-> now] ELSE <<>>

EntityExists(db, ref) == ref[1] \in EntityTables /\ ref \in RowIds(db[ref[1]])

Subject(row) == Ref(row.subjectType, row.subjectId)

Refers(db, table, id) == id = None \/ id \in RowIds(db[table])

\* The foreign keys, checks and validation triggers of a row.
Valid(db, table, key, row) ==
  CASE table \in {"mail_messages", "money_accounts"} ->
         /\ key[1] \in DOMAIN db.connector_accounts
         /\ table = "mail_messages" => Refers(db, "people", row.fromPersonId)
    [] table = "people" -> Refers(db, "people", row.mergedIntoId)
    [] table = "ingest_items" -> Refers(db, "documents", row.documentId)
    [] table = "money_transactions" -> key[1] \in DOMAIN db.connector_accounts
    [] table = "time_events" -> key[1] \in DOMAIN db.connector_accounts /\ row.endsAt >= row.startsAt
    [] table = "context_events" -> row.importance \in 0..100 /\ EntityExists(db, Subject(row))
    [] table = "conclusions" -> EntityExists(db, Subject(row))
    [] table = "person_identities" -> row.personId \in DOMAIN db.people
    [] table = "sync_states" -> key[1] \in DOMAIN db.connector_accounts
    [] table = "handoffs" -> /\ row.sourceDeviceId \in DOMAIN db.devices
                             /\ FocusFromRow(row) = None \/ EntityExists(db, FocusFromRow(row))
    [] table = "relationships" -> /\ EntityExists(db, key.from) /\ EntityExists(db, key.to)
                                  /\ key.from # key.to
    [] OTHER -> TRUE

\* Mutant: what is about an event that goes stays.
OneLevelDependents(db, refs) ==
  refs \cup {db.context_events[k].id : k \in {k \in DOMAIN db.context_events :
                Subject(db.context_events[k]) \in refs}}
\* vx_on_entity_deleted fires for the events and conclusions it deletes too,
\* so what is about them goes with them; a handoff loses its focus.
WithDependents(db, refs) ==
  LET About(table, gone) ==
        {db[table][k].id : k \in {k \in DOMAIN db[table] : Subject(db[table][k]) \in gone}}
      all == refs \cup RowIds(db.context_events) \cup RowIds(db.conclusions)
      complete == {gone \in SUBSET all :
                     /\ refs \subseteq gone
                     /\ About("context_events", gone) \cup About("conclusions", gone) \subseteq gone}
  IN {id \in all : \A gone \in complete : id \in gone}

OnEntityDeleted(db, refs) ==
  LET gone == WithDependents(db, refs)
      Kept(table) == Without(table, {k \in DOMAIN table : table[k].id \in gone})
  IN [db EXCEPT
       !.context_events = Kept(@), !.conclusions = Kept(@),
       !.relationships = Without(@, {e \in DOMAIN @ : e.from \in gone \/ e.to \in gone}),
       !.handoffs = [k \in DOMAIN @ |-> IF FocusFromRow(@[k]) \in gone
                       THEN Over(FocusToRow(None), @[k]) ELSE @[k]]]

-----------------------------------------------------------------------------
(* Statements. *)

\* The row an upsert writes; defaults fill what an insert leaves out.
RowOf(db, table, key, fields, defaults, now) ==
  IF key \in DOMAIN db[table]
  THEN Over(fields, Over(Stamp(table, now), db[table][key]))
  ELSE Over(fields, Over(defaults, Over(Stamp(table, now),
                                        [id |-> <<table, key, now>>, createdAt |-> now])))

\* insert .. on conflict do update (or do nothing): rows maps each key to its
\* fields.  A trigger sees every row, a foreign key only those that are written.
Insert(db, table, rows, defaults, ignoreDuplicates, now) ==
  LET Row(k) == RowOf(db, table, k, rows[k], defaults, now)
      written == IF ignoreDuplicates THEN DOMAIN rows \ DOMAIN db[table] ELSE DOMAIN rows
      checked == IF table = "context_events" THEN DOMAIN rows ELSE written
  IN IF \E k \in checked : ~Valid(db, table, k, Row(k))
     THEN [ok |-> FALSE, db |-> db, keys |-> {}]
     ELSE [ok |-> TRUE, db |-> [db EXCEPT ![table] = Over([k \in written |-> Row(k)], @)],
           keys |-> AtMostMaxRows(written)]

\* One row; the row is what .select().single() answers.
InsertOne(db, table, key, fields, defaults, now) ==
  LET done == Insert(db, table, [k \in {key} |-> fields], defaults, FALSE, now)
  IN IF done.ok THEN Done(done.db, done.db[table][key]) ELSE Refused(db, "integrity")

\* update .. where id = ..: no row is a SpineNotFoundError.
UpdateOne(db, table, key, fields, now) ==
  IF key \notin DOMAIN db[table] THEN Refused(db, "not_found")
  ELSE LET row == Over(fields, Over(Stamp(table, now), db[table][key]))
       IN IF ~Valid(db, table, key, row) THEN Refused(db, "integrity")
          ELSE Done([db EXCEPT ![table] = Put(@, key, row)], row)

\* The row answered, as the method reads it.
Read(done, FromRow(_)) ==
  IF done.answer[1] = "ok" THEN Done(done.db, FromRow(done.answer[2])) ELSE done

\* .. where <natural key>, maybeSingle().
Find(db, table, key, FromRow(_)) ==
  Done(db, IF key \in DOMAIN db[table] THEN FromRow(db[table][key]) ELSE None)

Delete(db, table, keys) ==
  LET refs == {db[table][k].id : k \in keys}
  IN OnEntityDeleted([db EXCEPT ![table] = Without(@, keys)], refs)

\* Mutant: a single range, cut at the size of a page.
OnePage(list, query) ==
  LET limit == IF query.limit = None THEN Len(list) ELSE query.limit
  IN SubSeq(list, query.offset + 1, Least(query.offset + Least(limit, Chunk), Len(list)))
\* pageAll: read page after page until the exact count is reached.  What is
\* asked beyond the end of the list is not asked at all.
PageAll(list, query) ==
  LET want == IF query.limit = None THEN Len(list) ELSE query.limit
      read[got \in 0..Len(list)] ==
        LET offset == query.offset + got
            size == Least(Chunk, want - got)
            upto == Least(offset + Least(size, MaxRows), Len(list))
            page == SubSeq(list, offset + 1, upto)
        IN IF got >= want \/ page = <<>> THEN <<>>
           ELSE IF offset + Len(page) - query.offset >= Len(list) THEN page
           ELSE page \o read[got + Len(page)]
  IN read[0]

-----------------------------------------------------------------------------
(* Natural-key helpers. *)

\* lastByKey, and statements of Chunk rows in the order in which the keys first
\* occur.  The first statement that fails ends the call; those before it stay.
\* No row is about another row of the call, whose id nobody knows yet: every
\* statement is checked against the tables the call found.
UpsertChunked(db, table, rows, keys, ignoreDuplicates, now) ==
  LET FirstIndex(k) == Min({i \in DOMAIN rows : rows[i].key = k})
      Place(k) == Cardinality(keys \cap {rows[j].key : j \in 1..FirstIndex(k)})
      ChunkOf(k) == (Place(k) - 1) \div Chunk
      Rows(some) == [k \in some |-> LastOf(rows, k)]
      Statement(n) ==
        Insert(db, table, Rows({k \in keys : ChunkOf(k) = n}), <<>>, ignoreDuplicates, now)
      stay == {k \in keys : \A n \in 0..ChunkOf(k) : Statement(n).ok}
  IN [ok |-> stay = keys,
      db |-> Insert(db, table, Rows(stay), <<>>, ignoreDuplicates, now).db,
      keys |-> UNION {Statement(ChunkOf(k)).keys : k \in stay}]

\* The rows that came back, each at the place of the caller's row; a repeated
\* key is counted once.
UpsertByKey(db, table, rows, existing, now) ==
  LET done == UpsertChunked(db, table, rows, KeysOf(rows), FALSE, now)
      saved == {i \in DOMAIN rows : rows[i].key \in done.keys}
  IN IF ~done.ok THEN [Refused(db, "integrity") EXCEPT !.db = done.db]
     ELSE Done(done.db, [rows |-> [i \in saved |-> done.db[table][rows[i].key].id],
                         inserted |-> Cardinality(done.keys \ existing)])

ExistingExternalIds(db, table, rows) == DOMAIN db[table] \cap KeysOf(rows)

OfAccount(db, table, account, externalIds) ==
  {k \in DOMAIN db[table] : k[1] = account /\ k[2] \in externalIds}

DeleteByExternalIds(db, table, keys) == Done(Delete(db, table, keys), Cardinality(keys))

-----------------------------------------------------------------------------
(* People. *)
ListPeople(db, includeMerged) ==
  Done(db, {k \in DOMAIN db.people : includeMerged \/ db.people[k].mergedIntoId = None})
FindPersonByIdentity(db, value) ==
  Done(db, IF value \in DOMAIN db.person_identities
           THEN db.person_identities[value].personId ELSE None)
UpsertPerson(db, id, p, now) == InsertOne(db, "people", id, PersonToRow(p), <<>>, now)
UpdatePerson(db, id, patch, now) == UpdateOne(db, "people", id, PersonPatchToRow(patch), now)

\* on conflict do nothing, then the row that is there.
UpsertPersonIdentity(db, value, i, now) ==
  LET done == Insert(db, "person_identities",
                [k \in {value} |-> PersonIdentityToRow(i)], <<>>, TRUE, now)
  IN IF ~done.ok THEN Refused(db, "integrity")
     ELSE Done(done.db, done.db.person_identities[value])

-----------------------------------------------------------------------------
(* Threads and documents. *)
ListThreads(db, status) ==
  Done(db, {k \in DOMAIN db.threads : status = None \/ db.threads[k].status = status})
CreateThread(db, id, t, now) == InsertOne(db, "threads", id, ThreadToRow(t), <<>>, now)
UpdateThread(db, id, patch, now) == UpdateOne(db, "threads", id, ThreadPatchToRow(patch), now)
ListDocuments(db, updatedSince, query) ==
  LET wanted == {k \in DOMAIN db.documents : db.documents[k].updatedAt >= updatedSince}
  IN Done(db, PageAll(Descending(wanted, Column(db.documents, "updatedAt")), query))
FindDocumentByHash(db, hash) ==
  Done(db, \E k \in DOMAIN db.documents : db.documents[k].contentHash = hash)

\* contains() answers every superset; the exact one is filtered out of them.
FindDocumentBySourceRef(db, sourceRef) ==
  LET contained == {k \in DOMAIN db.documents : sourceRef \subseteq db.documents[k].sourceRef}
  IN Done(db, {k \in contained : db.documents[k].sourceRef = sourceRef})
UpsertDocument(db, id, d, now) == InsertOne(db, "documents", id, DocumentToRow(d), <<>>, now)
UpdateDocument(db, id, patch, now) == UpdateOne(db, "documents", id, DocumentPatchToRow(patch), now)

-----------------------------------------------------------------------------
(* Mail. *)
ListMailMessages(db, account, query) ==
  LET own == {k \in DOMAIN db.mail_messages : k[1] = account}
  IN Done(db, PageAll(Descending(own, Column(db.mail_messages, "receivedAt")), query))
FindMailMessageByExternalId(db, account, externalId) ==
  Find(db, "mail_messages", <<account, externalId>>, MailMessageFromRow)
UpsertMailMessages(db, account, batch, now) ==
  LET rows == [i \in DOMAIN batch |->
                 [key |-> <<account, batch[i].externalId>>, fields |-> MailMessageToRow(batch[i])]]
  IN UpsertByKey(db, "mail_messages", rows, ExistingExternalIds(db, "mail_messages", rows), now)
DeleteMailMessages(db, account, externalIds) ==
  DeleteByExternalIds(db, "mail_messages", OfAccount(db, "mail_messages", account, externalIds))

-----------------------------------------------------------------------------
(* Money. *)
ListMoneyAccounts(db, account) ==
  Done(db, {MoneyAccountFromRow(db.money_accounts[k]) :
              k \in {k \in DOMAIN db.money_accounts : account \in {None, k[1]}}})
ListMoneyTransactions(db, account) ==
  Done(db, {k \in DOMAIN db.money_transactions : k[1] = account})

\* The column pads what the client canonicalized.
UpsertMoneyAccounts(db, account, batch, now) ==
  LET Stored(row) == [row EXCEPT !.balance = IF @ = None THEN None ELSE Numeric(@)]
      rows == [i \in DOMAIN batch |-> [key |-> <<account, batch[i].externalId>>,
                                       fields |-> Stored(MoneyAccountToRow(batch[i]))]]
  IN UpsertByKey(db, "money_accounts", rows, ExistingExternalIds(db, "money_accounts", rows), now)

\* The account ids are resolved before anything is written.
UpsertMoneyTransactions(db, account, batch, now) ==
  LET AccountRow(t) == db.money_accounts[<<account, t.accountExternalId>>]
      Stored(row) == [row EXCEPT !.amount = Numeric(@)]
      rows == [i \in DOMAIN batch |-> [key |-> <<account, batch[i].externalId>>,
                 fields |-> Stored(MoneyTransactionToRow(batch[i], AccountRow(batch[i]).id))]]
  IN IF \E i \in DOMAIN batch : <<account, batch[i].accountExternalId>> \notin DOMAIN db.money_accounts
     THEN Refused(db, "integrity")
     ELSE UpsertByKey(db, "money_transactions", rows,
                      ExistingExternalIds(db, "money_transactions", rows), now)
DeleteMoneyTransactions(db, account, externalIds) ==
  DeleteByExternalIds(db, "money_transactions",
                      OfAccount(db, "money_transactions", account, externalIds))

-----------------------------------------------------------------------------
(* Time. *)
ListTimeEvents(db, from, to) ==
  Done(db, {k \in DOMAIN db.time_events :
              db.time_events[k].startsAt =< to /\ db.time_events[k].endsAt >= from})

\* The known events are read by external id alone, from every calendar.
UpsertTimeEvents(db, account, batch, now) ==
  LET ids == {batch[i].externalId : i \in DOMAIN batch}
      existing == AtMostMaxRows({k \in DOMAIN db.time_events : k[1] = account /\ k[2][2] \in ids})
      rows == [i \in DOMAIN batch |->
                 [key |-> <<account, <<batch[i].externalCalendarId, batch[i].externalId>>>>,
                  fields |-> TimeEventToRow(batch[i])]]
  IN UpsertByKey(db, "time_events", rows, existing, now)
DeleteTimeEvents(db, account, externalIds, calendar) ==
  DeleteByExternalIds(db, "time_events",
    {k \in DOMAIN db.time_events : k[1] = account /\ k[2][2] \in externalIds
                                   /\ (calendar = None \/ k[2][1] = calendar)})

\* Rounds of delete .. returning until one returns nothing: the count is a
\* floor when a round was capped, the deletion is complete.
DeleteUntouched(db, account, capability, since, scope) ==
  LET Stale(table, InScope(_)) ==
        LET keys == {k \in DOMAIN db[table] :
                       k[1] = account /\ db[table][k].updatedAt < since /\ InScope(k)}
        IN Done(Delete(db, table, keys), Least(Cardinality(keys), MaxRows))
  IN CASE capability = "mail" /\ scope.kind = "mail" ->
            Stale("mail_messages", LAMBDA k : db.mail_messages[k].receivedAt >= scope.receivedSince)
       [] capability = "mail" /\ scope.kind = "all" -> Stale("mail_messages", LAMBDA k : TRUE)
       [] capability = "calendar" /\ scope.kind = "calendar" ->
            Stale("time_events", LAMBDA k : /\ k[2][1] \in scope.calendarIds
                                            /\ db.time_events[k].endsAt > scope.from
                                            /\ db.time_events[k].startsAt < scope.to)
       [] capability = "calendar" /\ scope.kind = "all" -> Stale("time_events", LAMBDA k : TRUE)
       [] capability = "bank" /\ scope.kind = "all" -> Stale("money_transactions", LAMBDA k : TRUE)
       [] OTHER -> Done(db, 0)

-----------------------------------------------------------------------------
(* Context events, conclusions and the graph. *)
ListContextEvents(db, attention, query) ==
  LET wanted == {k \in DOMAIN db.context_events : db.context_events[k].attention \in attention}
  IN Done(db, PageAll(Descending(wanted, Column(db.context_events, "importance")), query))

\* What the read found is left alone; the rest is inserted unless another
\* writer was faster, and what could not be inserted is read again.
UpsertContextEvents(db, batch, other, now) ==
  LET rows == [i \in DOMAIN batch |->
                 [key |-> batch[i].dedupeKey, fields |-> ContextEventToRow(batch[i])]]
      fresh == KeysOf(rows) \ DOMAIN db.context_events
      raced == UpsertChunked(db, "context_events", other, KeysOf(other), TRUE, now).db
      done == UpsertChunked(raced, "context_events", rows, fresh, TRUE, now)
  IN IF ~done.ok THEN [Refused(db, "integrity") EXCEPT !.db = done.db]
     ELSE Done(done.db, [rows |-> [i \in DOMAIN rows |-> done.db.context_events[rows[i].key].id],
                         inserted |-> Cardinality(done.keys)])

\* The metadata are read, merged and written back.
SetContextEventAttention(db, key, attention, metadata) ==
  IF key \notin DOMAIN db.context_events THEN Refused(db, "not_found")
  ELSE Read(UpdateOne(db, "context_events", key,
              [attention |-> attention,
               metadata |-> db.context_events[key].metadata \cup metadata], 0),
            ContextEventFromRow)

InsertConclusion(db, id, subject, now) ==
  Read(InsertOne(db, "conclusions", id, ConclusionToRow([subject |-> subject]), <<>>, now),
       ConclusionFromRow)
ListConclusions(db, subject) ==
  Done(db, {k \in DOMAIN db.conclusions : Subject(db.conclusions[k]) = subject})

\* Mutant: on conflict the latest confidence.
LatestRelate(db, from, to, confidence, now) ==
  InsertOne(db, "relationships", [from |-> from, to |-> to], [confidence |-> confidence], <<>>, now)
\* vx_relate: on conflict the greatest confidence.
Relate(db, from, to, confidence, now) ==
  LET edge == [from |-> from, to |-> to]
      greatest == IF edge \in DOMAIN db.relationships
                  THEN Max({confidence, db.relationships[edge].confidence}) ELSE confidence
  IN InsertOne(db, "relationships", edge, [confidence |-> greatest], <<>>, now)
Unrelate(db, from, to) ==
  LET edges == {e \in DOMAIN db.relationships : e.from = from /\ e.to = to}
  IN Done([db EXCEPT !.relationships = Without(@, edges)], edges # {})

\* vx_neighbors: the edges out, and the edges in.
Neighbors(db, node) ==
  LET edges == DOMAIN db.relationships
      Row(e, direction, ref) ==
        [direction |-> direction, ref |-> ref, confidence |-> db.relationships[e].confidence]
  IN Done(db, {Row(e, "out", e.to) : e \in {e \in edges : e.from = node}}
              \cup {Row(e, "in", e.from) : e \in {e \in edges : e.to = node}})
ListRelationships(db, query) ==
  Done(db, PageAll(Ascending(DOMAIN db.relationships, Column(db.relationships, "createdAt")), query))

-----------------------------------------------------------------------------
(* Connector accounts and sync states. *)
ListConnectorAccounts(db) == Done(db, DOMAIN db.connector_accounts)
FindConnectorAccount(db, key) ==
  Find(db, "connector_accounts", key, LAMBDA r : r)
ListSyncStates(db, account) ==
  Done(db, {SyncStateFromRow(db.sync_states[k]) :
              k \in {k \in DOMAIN db.sync_states : account \in {None, k[1]}}})
GetSyncState(db, account, capability) ==
  Find(db, "sync_states", <<account, capability>>, SyncStateFromRow)
CreateConnectorAccount(db, key, a, now) ==
  IF key \in DOMAIN db.connector_accounts THEN Refused(db, "integrity")
  ELSE InsertOne(db, "connector_accounts", key, ConnectorAccountToRow(a), <<>>, now)
UpdateConnectorAccount(db, key, patch, now) ==
  UpdateOne(db, "connector_accounts", key, ConnectorAccountPatchToRow(patch), now)

\* The columns in the body are written, the others keep or get their default.
SyncStateDefaults ==
  [status |-> "idle", checkpoint |-> None, consecutiveFailures |-> 0, reconcile |-> None]
UpsertSyncState(db, account, capability, patch, now) ==
  Read(InsertOne(db, "sync_states", <<account, capability>>, SyncStatePatchToRow(patch),
                 SyncStateDefaults, now), SyncStateFromRow)

-----------------------------------------------------------------------------
(* Devices, handoffs, ingest items and action requests. *)
ListDevices(db) ==
  Done(db, Ascending(DOMAIN db.devices, Column(db.devices, "createdAt")))
UpsertDevice(db, id, d, now) == InsertOne(db, "devices", id, DeviceToRow(d), <<>>, now)
UpdateDevice(db, id, patch) == UpdateOne(db, "devices", id, DevicePatchToRow(patch), 0)
CreateHandoff(db, id, h, now) ==
  Read(InsertOne(db, "handoffs", id, HandoffToRow(h), <<>>, now), HandoffFromRow)
UpdateHandoff(db, id, patch) ==
  Read(UpdateOne(db, "handoffs", id, HandoffPatchToRow(patch), 0), HandoffFromRow)
ListHandoffs(db, states) == Done(db, {k \in DOMAIN db.handoffs : db.handoffs[k].state \in states})
ListIngestItems(db, status, query) ==
  LET wanted == {k \in DOMAIN db.ingest_items : status \in {None, db.ingest_items[k].status}}
  IN Done(db, PageAll(Descending(wanted, Column(db.ingest_items, "createdAt")), query))
CreateIngestItem(db, id, i, now) ==
  InsertOne(db, "ingest_items", id, IngestItemToRow(i), <<>>, now)
UpdateIngestItem(db, id, patch) == UpdateOne(db, "ingest_items", id, IngestItemPatchToRow(patch), 0)

FindActionRequestByKey(db, key) ==
  Find(db, "action_requests", key, LAMBDA r : r)
\* on conflict do nothing, then the request that is there.
CreateActionRequest(db, key, input, now) ==
  LET done == Insert(db, "action_requests",
                [k \in {key} |-> ActionRequestToRow(input)],
                [result |-> None, attempts |-> 0], TRUE, now)
  IN Done(done.db, [created |-> done.keys # {}, row |-> done.db.action_requests[key]])
UpdateActionRequest(db, key, patch, now) ==
  UpdateOne(db, "action_requests", key, ActionRequestPatchToRow(patch), now)
=============================================================================
