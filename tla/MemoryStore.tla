----------------------------- MODULE MemoryStore -----------------------------
(***************************************************************************)
(* InMemorySpineStore: the executable specification of the schema.  Every  *)
(* operator is one method: from the tables and the arguments to the tables *)
(* it leaves and what it answers.  now is the clock when it is called.     *)
(***************************************************************************)
EXTENDS SpineRows

EntityExists(db, ref) == ref[1] \in EntityTables /\ ref \in RowIds(db[ref[1]])

\* Mirrors vx_on_entity_deleted: edges, context events and conclusions about
\* the entity.
OnEntityDeleted(db, refs) ==
  [db EXCEPT
    !.relationships = Without(@, {e \in DOMAIN @ : e.from \in refs \/ e.to \in refs}),
    !.context_events = Without(@, {k \in DOMAIN @ : @[k].subject \in refs}),
    !.conclusions = Without(@, {k \in DOMAIN @ : @[k].subject \in refs})]

DeleteRows(db, table, keys) ==
  LET gone == keys \cap DOMAIN db[table]
      refs == {db[table][k].id : k \in gone}
  IN Done(OnEntityDeleted([db EXCEPT ![table] = Without(@, gone)], refs), Cardinality(gone))

\* An object under its key: a known key keeps its id and its birth.
StoredAs(db, table, key, fields, now) ==
  IF key \in DOMAIN db[table] THEN Over(fields, db[table][key])
  ELSE Over(fields, [id |-> <<table, key, now>>, createdAt |-> now])

UpsertOne(db, table, key, fields, now) ==
  LET row == StoredAs(db, table, key, fields, now)
  IN Done([db EXCEPT ![table] = Put(@, key, row)], row)

PatchOne(db, table, key, fields) ==
  IF key \notin DOMAIN db[table] THEN Refused(db, "not_found")
  ELSE LET row == Over(fields, db[table][key])
       IN Done([db EXCEPT ![table] = Put(@, key, row)], row)

\* One write per row, in order: the last write of a key is what stays.
UpsertEach(db, table, rows, now) ==
  LET new == [k \in KeysOf(rows) |-> StoredAs(db, table, k, LastOf(rows, k), now)]
  IN Done([db EXCEPT ![table] = Over(new, @)],
          [rows |-> [i \in DOMAIN rows |-> new[rows[i].key].id],
           inserted |-> Cardinality(KeysOf(rows) \ DOMAIN db[table])])

OfAccount(db, table, account, externalIds) ==
  {k \in DOMAIN db[table] : k[1] = account /\ k[2] \in externalIds}

Get(db, table, key) == Done(db, IF key \in DOMAIN db[table] THEN db[table][key] ELSE None)

\* page(): the slice of a sorted list a query asks for.
Page(list, query) ==
  LET limit == IF query.limit = None THEN Len(list) ELSE query.limit
      last == query.offset + limit
  IN SubSeq(list, query.offset + 1, IF last < Len(list) THEN last ELSE Len(list))

-----------------------------------------------------------------------------
(* People. *)
ListPeople(db, includeMerged) ==
  Done(db, {k \in DOMAIN db.people : includeMerged \/ db.people[k].mergedIntoId = None})

FindPersonByIdentity(db, value) ==
  Done(db, IF value \notin DOMAIN db.person_identities THEN None
           ELSE db.person_identities[value].personId)

UpsertPerson(db, id, p, now) ==
  UpsertOne(db, "people", id,
    [displayName |-> p.displayName, updatedAt |-> now,
     mergedIntoId |-> IF "mergedIntoId" \in DOMAIN p THEN p.mergedIntoId ELSE None], now)

UpdatePerson(db, id, patch, now) == PatchOne(db, "people", id, Over(patch, [updatedAt |-> now]))

UpsertPersonIdentity(db, value, i, now) ==
  IF value \in DOMAIN db.person_identities THEN Done(db, db.person_identities[value])
  ELSE IF i.personId \notin DOMAIN db.people THEN Refused(db, "integrity")
  ELSE UpsertOne(db, "person_identities", value, [personId |-> i.personId], now)

-----------------------------------------------------------------------------
(* Threads and documents. *)
ListThreads(db, status) ==
  Done(db, {k \in DOMAIN db.threads : status = None \/ db.threads[k].status = status})
CreateThread(db, id, t, now) ==
  UpsertOne(db, "threads", id, Over(t, [updatedAt |-> now]), now)
UpdateThread(db, id, patch, now) == PatchOne(db, "threads", id, Over(patch, [updatedAt |-> now]))

ListDocuments(db, updatedSince, query) ==
  LET wanted == {k \in DOMAIN db.documents : db.documents[k].updatedAt >= updatedSince}
  IN Done(db, Page(Descending(wanted, Column(db.documents, "updatedAt")), query))
FindDocumentByHash(db, hash) ==
  Done(db, \E k \in DOMAIN db.documents : db.documents[k].contentHash = hash)
FindDocumentBySourceRef(db, sourceRef) ==
  Done(db, {k \in DOMAIN db.documents : db.documents[k].sourceRef = sourceRef})
UpsertDocument(db, id, d, now) ==
  UpsertOne(db, "documents", id, Over(d, [updatedAt |-> now]), now)
UpdateDocument(db, id, patch, now) == PatchOne(db, "documents", id, Over(patch, [updatedAt |-> now]))

-----------------------------------------------------------------------------
(* Mail. *)
ListMailMessages(db, account, query) ==
  LET own == {k \in DOMAIN db.mail_messages : k[1] = account}
  IN Done(db, Page(Descending(own, Column(db.mail_messages, "receivedAt")), query))

FindMailMessageByExternalId(db, account, externalId) ==
  Get(db, "mail_messages", <<account, externalId>>)

UpsertMailMessages(db, account, batch, now) ==
  IF account \notin DOMAIN db.connector_accounts THEN Refused(db, "integrity")
  ELSE UpsertEach(db, "mail_messages", [i \in DOMAIN batch |->
         [key |-> <<account, batch[i].externalId>>,
          fields |-> [data |-> batch[i].data, receivedAt |-> batch[i].receivedAt, updatedAt |-> now,
                      from |-> IF batch[i].from = None THEN None
                               ELSE [email |-> batch[i].from, personId |-> batch[i].fromPersonId]]]],
         now)

DeleteMailMessages(db, account, externalIds) ==
  DeleteRows(db, "mail_messages", OfAccount(db, "mail_messages", account, externalIds))

-----------------------------------------------------------------------------
(* Money. *)
ListMoneyAccounts(db, account) ==
  Done(db, {db.money_accounts[k] : k \in {k \in DOMAIN db.money_accounts : account \in {None, k[1]}}})
ListMoneyTransactions(db, account) ==
  Done(db, {k \in DOMAIN db.money_transactions : k[1] = account})

UpsertMoneyAccounts(db, account, batch, now) ==
  IF account \notin DOMAIN db.connector_accounts THEN Refused(db, "integrity")
  ELSE UpsertEach(db, "money_accounts", [i \in DOMAIN batch |->
         [key |-> <<account, batch[i].externalId>>,
          fields |-> [updatedAt |-> now, balance |-> IF batch[i].balance = None THEN None
                                                     ELSE CanonicalDecimal(batch[i].balance)]]], now)

\* The loop stops at the first transaction whose account is missing.
UpsertMoneyTransactions(db, account, batch, now) ==
  IF \/ account \notin DOMAIN db.connector_accounts
     \/ \E i \in DOMAIN batch : <<account, batch[i].accountExternalId>> \notin DOMAIN db.money_accounts
  THEN Refused(db, "integrity")
  ELSE UpsertEach(db, "money_transactions", [i \in DOMAIN batch |->
         [key |-> <<account, batch[i].externalId>>,
          fields |-> [moneyAccountId |-> db.money_accounts[<<account, batch[i].accountExternalId>>].id,
                      amount |-> CanonicalDecimal(batch[i].amount), updatedAt |-> now]]], now)

DeleteMoneyTransactions(db, account, externalIds) ==
  DeleteRows(db, "money_transactions", OfAccount(db, "money_transactions", account, externalIds))

-----------------------------------------------------------------------------
(* Time. *)
ListTimeEvents(db, from, to) ==
  Done(db, {k \in DOMAIN db.time_events :
              db.time_events[k].startsAt =< to /\ db.time_events[k].endsAt >= from})

UpsertTimeEvents(db, account, batch, now) ==
  LET PersonOf(e) == IF e.participantPersonId # None THEN e.participantPersonId
                     ELSE e.participant.personId
      Fields(e) ==
        [startsAt |-> e.startsAt, endsAt |-> e.endsAt, updatedAt |-> now,
         participant |-> [email |-> e.participant.email, personId |-> PersonOf(e)],
         organizer |-> IF e.organizer = None THEN None
                       ELSE [email |-> e.organizer,
                             personId |-> IF e.participant.email = e.organizer
                                          THEN PersonOf(e) ELSE None]]
  IN IF \/ account \notin DOMAIN db.connector_accounts
        \/ \E i \in DOMAIN batch : batch[i].endsAt < batch[i].startsAt
     THEN Refused(db, "integrity")
     ELSE UpsertEach(db, "time_events", [i \in DOMAIN batch |->
            [key |-> <<account, <<batch[i].externalCalendarId, batch[i].externalId>>>>,
             fields |-> Fields(batch[i])]], now)

DeleteTimeEvents(db, account, externalIds, calendar) ==
  DeleteRows(db, "time_events",
    {k \in DOMAIN db.time_events : k[1] = account /\ k[2][2] \in externalIds
                                   /\ (calendar = None \/ k[2][1] = calendar)})

\* What a full pass did not touch, inside its scope; both edges of a calendar
\* window are exclusive, as the providers list them.
DeleteUntouched(db, account, capability, since, scope) ==
  LET Untouched(table, InScope(_)) ==
        DeleteRows(db, table, {k \in DOMAIN db[table] :
          k[1] = account /\ db[table][k].updatedAt < since /\ InScope(k)})
  IN IF capability = "mail" /\ scope.kind \in {"mail", "all"}
     THEN Untouched("mail_messages", LAMBDA k :
            scope.kind = "mail" => db.mail_messages[k].receivedAt >= scope.receivedSince)
     ELSE IF capability = "calendar" /\ scope.kind \in {"calendar", "all"}
     THEN Untouched("time_events", LAMBDA k : scope.kind = "calendar" =>
            /\ k[2][1] \in scope.calendarIds
            /\ db.time_events[k].endsAt > scope.from
            /\ db.time_events[k].startsAt < scope.to)
     ELSE IF capability = "bank" /\ scope.kind = "all"
     THEN Untouched("money_transactions", LAMBDA k : TRUE)
     ELSE Done(db, 0)

-----------------------------------------------------------------------------
(* Context events, conclusions and the graph. *)
ListContextEvents(db, attention, query) ==
  LET wanted == {k \in DOMAIN db.context_events : db.context_events[k].attention \in attention}
  IN Done(db, Page(Descending(wanted, Column(db.context_events, "importance")), query))

\* A known key is returned as it is: no attention decision is overwritten, and
\* of the rows that share a new key the first one stays.
UpsertContextEvents(db, batch, now) ==
  LET keys == {batch[i].dedupeKey : i \in DOMAIN batch}
      fresh == keys \ DOMAIN db.context_events
      Bad(e) == e.importance \notin 0..100 \/ ~EntityExists(db, e.subject)
      First(k) == batch[Min({i \in DOMAIN batch : batch[i].dedupeKey = k})]
      RowOf(k, e) == [subject |-> e.subject, importance |-> e.importance,
                      attention |-> e.attention, metadata |-> e.metadata,
                      id |-> <<"context_events", k, now>>, createdAt |-> now]
      events == Over([k \in fresh |-> RowOf(k, First(k))], db.context_events)
  IN IF \E i \in DOMAIN batch : batch[i].dedupeKey \in fresh /\ Bad(batch[i])
     THEN Refused(db, "integrity")
     ELSE Done([db EXCEPT !.context_events = events],
               [rows |-> [i \in DOMAIN batch |-> events[batch[i].dedupeKey].id],
                inserted |-> Cardinality(fresh)])

SetContextEventAttention(db, key, attention, metadata) ==
  IF key \notin DOMAIN db.context_events THEN Refused(db, "not_found")
  ELSE PatchOne(db, "context_events", key,
         [attention |-> attention, metadata |-> db.context_events[key].metadata \cup metadata])

InsertConclusion(db, id, subject, now) ==
  IF ~EntityExists(db, subject) THEN Refused(db, "integrity")
  ELSE UpsertOne(db, "conclusions", id, [subject |-> subject], now)

ListConclusions(db, subject) ==
  Done(db, {k \in DOMAIN db.conclusions : db.conclusions[k].subject = subject})

\* An edge asserted again keeps its row and takes the greater confidence.
Relate(db, from, to, confidence, now) ==
  LET edge == [from |-> from, to |-> to]
      strongest == IF edge \notin DOMAIN db.relationships THEN confidence
                   ELSE Max({confidence, db.relationships[edge].confidence})
  IN IF ~EntityExists(db, from) \/ ~EntityExists(db, to) \/ from = to
     THEN Refused(db, "integrity")
     ELSE UpsertOne(db, "relationships", edge, [confidence |-> strongest], now)

Unrelate(db, from, to) ==
  LET edge == [from |-> from, to |-> to]
  IN Done([db EXCEPT !.relationships = Without(@, {edge})], edge \in DOMAIN db.relationships)

Neighbors(db, node) ==
  Done(db, {[direction |-> IF e.from = node THEN "out" ELSE "in",
             ref |-> IF e.from = node THEN e.to ELSE e.from,
             confidence |-> db.relationships[e].confidence] :
              e \in {e \in DOMAIN db.relationships : node \in {e.from, e.to}}})

ListRelationships(db, query) ==
  Done(db, Page(Ascending(DOMAIN db.relationships, Column(db.relationships, "createdAt")), query))

-----------------------------------------------------------------------------
(* Connector accounts and sync states. *)
ListConnectorAccounts(db) == Done(db, DOMAIN db.connector_accounts)
FindConnectorAccount(db, key) == Get(db, "connector_accounts", key)
ListSyncStates(db, account) ==
  Done(db, {db.sync_states[k] : k \in {k \in DOMAIN db.sync_states : account \in {None, k[1]}}})
GetSyncState(db, account, capability) == Get(db, "sync_states", <<account, capability>>)

CreateConnectorAccount(db, key, a, now) ==
  IF key \in DOMAIN db.connector_accounts THEN Refused(db, "integrity")
  ELSE UpsertOne(db, "connector_accounts", key, Over(a, [updatedAt |-> now]), now)

UpdateConnectorAccount(db, key, patch, now) ==
  PatchOne(db, "connector_accounts", key, Over(patch, [updatedAt |-> now]))

UpsertSyncState(db, account, capability, patch, now) ==
  LET key == <<account, capability>>
      base == [status |-> "idle", checkpoint |-> None, consecutiveFailures |-> 0,
               reconcile |-> <<>>]
  IN IF account \notin DOMAIN db.connector_accounts THEN Refused(db, "integrity")
     ELSE UpsertOne(db, "sync_states", key,
            Over(patch, IF key \in DOMAIN db.sync_states THEN [updatedAt |-> now]
                        ELSE Over(base, [updatedAt |-> now])), now)

-----------------------------------------------------------------------------
(* Devices, handoffs, ingest items and action requests. *)
ListDevices(db) ==
  Done(db, Ascending(DOMAIN db.devices, Column(db.devices, "createdAt")))
UpsertDevice(db, id, d, now) == UpsertOne(db, "devices", id, d, now)
UpdateDevice(db, id, patch) == PatchOne(db, "devices", id, patch)

CreateHandoff(db, id, h, now) ==
  IF h.sourceDeviceId \notin DOMAIN db.devices THEN Refused(db, "integrity")
  ELSE UpsertOne(db, "handoffs", id, h, now)
UpdateHandoff(db, id, patch) == PatchOne(db, "handoffs", id, patch)
ListHandoffs(db, states) == Done(db, {k \in DOMAIN db.handoffs : db.handoffs[k].state \in states})

ListIngestItems(db, status, query) ==
  LET wanted == {k \in DOMAIN db.ingest_items : status \in {None, db.ingest_items[k].status}}
  IN Done(db, Page(Descending(wanted, Column(db.ingest_items, "createdAt")), query))
CreateIngestItem(db, id, i, now) ==
  UpsertOne(db, "ingest_items", id, Over(i, [attempts |-> 0]), now)
UpdateIngestItem(db, id, patch) == PatchOne(db, "ingest_items", id, patch)

FindActionRequestByKey(db, key) == Get(db, "action_requests", key)
CreateActionRequest(db, key, input, now) ==
  IF key \in DOMAIN db.action_requests
  THEN Done(db, [created |-> FALSE, row |-> db.action_requests[key]])
  ELSE LET row == [payload |-> input.payload, status |-> "queued", result |-> None,
                   attempts |-> 0, id |-> <<"action_requests", key, now>>,
                   createdAt |-> now, updatedAt |-> now]
       IN Done([db EXCEPT !.action_requests = Put(@, key, row)], [created |-> TRUE, row |-> row])
UpdateActionRequest(db, key, patch, now) ==
  PatchOne(db, "action_requests", key, Over(patch, [updatedAt |-> now]))
=============================================================================
