----------------------------- MODULE SpineStore -----------------------------
(***************************************************************************)
(* One contract, two implementations: the in-memory store and the Supabase *)
(* store are given the same calls, one at a time, and what they hold and   *)
(* answer is compared.  The calls of one behaviour are of one family, the  *)
(* tables of which they share.  Calls outside the contract the two share   *)
(* (a key that is not fresh where one is created, a batch with good and    *)
(* bad rows) are not made; the README lists them.                          *)
(***************************************************************************)
EXTENDS SpineRows

CONSTANTS
  Account,    \* connector accounts that are linked
  Unlinked,   \* one that is not (yet)
  Key,        \* external ids, dedupe keys, idempotency keys
  Contact, Object, \* ids callers may give to people, and to other rows
  Family,     \* the families of calls the run makes
  Chunk, MaxRows,
  MaxBatch,   \* bound: rows in a batch
  MaxCalls    \* bound: calls in a behaviour

Tables == {"people", "person_identities", "threads", "documents", "mail_messages",
           "money_accounts", "money_transactions", "time_events", "context_events",
           "conclusions", "relationships", "connector_accounts", "sync_states", "devices",
           "handoffs", "ingest_items", "action_requests"}

Calendars == {"primary", "shared"}

\* The project configures max_rows above the chunk the store writes, and above
\* the number of calendars that hold an event under one id.
StoreAssumption ==
  /\ Chunk \in Nat \ {0} /\ MaxRows \in Nat
  /\ Chunk =< MaxRows /\ Cardinality(Calendars) =< MaxRows
  /\ MaxBatch \in Nat \ {0} /\ MaxCalls \in Nat /\ Unlinked \notin Account
  /\ \A ids \in {Account, Key, Contact, Object} : ids # {} /\ IsFiniteSet(ids)
  /\ None \notin Tables /\ None \notin Object \X Nat
  /\ None \notin Decimal /\ None \notin Seq(Nat)

VARIABLES memory, sql, answers, now, family

storeVars == <<memory, sql, answers, now, family>>

M == INSTANCE MemoryStore
S == INSTANCE SqlStore

\* What a reader of the database gets.
Seen(db) ==
  LET As(table, FromRow(_)) == [k \in DOMAIN db[table] |-> FromRow(db[table][k])]
  IN [db EXCEPT
       !.mail_messages = As("mail_messages", MailMessageFromRow),
       !.money_accounts = As("money_accounts", MoneyAccountFromRow),
       !.money_transactions = As("money_transactions", MoneyTransactionFromRow),
       !.context_events = As("context_events", ContextEventFromRow),
       !.conclusions = As("conclusions", ConclusionFromRow),
       !.sync_states = As("sync_states", SyncStateFromRow),
       !.handoffs = As("handoffs", HandoffFromRow)]

\* A user with the accounts linked, one person, thread, document and device.
FirstAccount == CHOOSE a \in Account : TRUE
FirstKey == CHOOSE k \in Key : TRUE
FirstPerson == CHOOSE p \in Contact : TRUE
FirstObject == CHOOSE o \in Object : TRUE
Stored(table, key, fields) ==
  [k \in {key} |-> Over(fields, [id |-> <<table, key, 0>>, createdAt |-> 0])]
Seeded ==
  [t \in Tables |->
    CASE t = "connector_accounts" ->
           [a \in Account |-> [status |-> "active", credentialRef |-> None, updatedAt |-> 0,
                               id |-> <<t, a, 0>>, createdAt |-> 0]]
      [] t = "people" -> Stored(t, FirstPerson, [displayName |-> 0, mergedIntoId |-> None, updatedAt |-> 0])
      [] t = "threads" -> Stored(t, FirstObject, [title |-> 0, status |-> "active", updatedAt |-> 0])
      [] t = "documents" -> Stored(t, FirstObject, [title |-> 0, sourceRef |-> {}, contentHash |-> None,
                                                    updatedAt |-> 0])
      [] t = "devices" -> Stored(t, FirstObject, [name |-> 0])
      [] OTHER -> <<>>]

FirstRef == CHOOSE id \in RowIds(Seeded.people) : TRUE
Mail(key, version) ==
  [externalId |-> key, data |-> version, receivedAt |-> version,
   from |-> IF version = 0 THEN None ELSE 1,
   fromPersonId |-> FirstRef]

\* A message for the context to be about.
StoreInit ==
  /\ family \in Family
  /\ IF family \in {"context", "nested"}
     THEN LET mail == <<Mail(FirstKey, 1)>>
          IN /\ memory = M!UpsertMailMessages(Seeded, FirstAccount, mail, 0).db
             /\ sql = S!UpsertMailMessages(Seeded, FirstAccount, mail, 0).db
     ELSE memory = Seeded /\ sql = Seeded
  /\ answers = <<None, None>> /\ now = 1

\* The same call on both.
Call(m, s) ==
  /\ memory' = m.db /\ sql' = s.db
  /\ answers' = <<m.answer, s.answer>>

-----------------------------------------------------------------------------
(* Inputs. *)
Batches(rows) == UNION {[1..n -> rows] : n \in 0..MaxBatch}

\* Memory keeps what it wrote before a bad row, a statement keeps nothing.
AllOrNone(batch, Bad(_)) ==
  (\E i \in DOMAIN batch : Bad(batch[i])) => \A i \in DOMAIN batch : Bad(batch[i])

\* An empty batch is not checked against the account by the Supabase store.
Addressed(account, batch) == account \in Account \/ batch # <<>>

\* Rows an event, a conclusion or an edge may be about, and one that is not there.
Refs ==
  {<<"people", None, 0>>} \cup RowIds(memory.people) \cup RowIds(memory.mail_messages)
  \cup (IF family = "nested" THEN RowIds(memory.context_events) ELSE {})

-----------------------------------------------------------------------------
(* Mail, money and time. *)
Mails == {Mail(k, v) : k \in Key, v \in {0, 1}}

UpsertMailMessages ==
  \E a \in Account \cup {Unlinked}, batch \in Batches(Mails) :
    /\ Addressed(a, batch)
    /\ Call(M!UpsertMailMessages(memory, a, batch, now),
                      S!UpsertMailMessages(sql, a, batch, now))

DeleteMailMessages ==
  \E a \in Account, ids \in SUBSET Key :
    Call(M!DeleteMailMessages(memory, a, ids),
                                        S!DeleteMailMessages(sql, a, ids))

Amounts == {[sign |-> "-", whole |-> 0, fraction |-> <<0, 0>>],
            [sign |-> "+", whole |-> 12, fraction |-> <<5, 0>>],
            [sign |-> "-", whole |-> 2400, fraction |-> <<0, 0, 1>>]}

SmallAmounts == {d \in Amounts : d.whole < 100}

UpsertMoneyAccounts ==
  \E a \in {FirstAccount, Unlinked},
     batch \in Batches([externalId : Key, balance : Amounts \cup {None}]) :
    /\ Addressed(a, batch)
    /\ Call(M!UpsertMoneyAccounts(memory, a, batch, now),
                       S!UpsertMoneyAccounts(sql, a, batch, now))

UpsertMoneyTransactions ==
  \E a \in {FirstAccount},
     batch \in Batches([externalId : Key, accountExternalId : Key, amount : SmallAmounts]) :
    /\ AllOrNone(batch, LAMBDA t : <<a, t.accountExternalId>> \notin DOMAIN memory.money_accounts)
    /\ Call(M!UpsertMoneyTransactions(memory, a, batch, now),
                       S!UpsertMoneyTransactions(sql, a, batch, now))

DeleteMoneyTransactions ==
  \E ids \in SUBSET Key :
    Call(M!DeleteMoneyTransactions(memory, FirstAccount, ids),
                    S!DeleteMoneyTransactions(sql, FirstAccount, ids))

\* One event in either calendar; the participant has address 0, and the linker
\* may have found the person.
Event(calendar, span, organizer, person) ==
  [externalCalendarId |-> calendar, externalId |-> 0, startsAt |-> span[1], endsAt |-> span[2],
   participant |-> [email |-> 0, personId |-> None], organizer |-> organizer,
   participantPersonId |-> person]

UpsertTimeEvents ==
  \E a \in {FirstAccount, Unlinked}, calendar \in Calendars, span \in {<<0, 1>>, <<2, 3>>, <<2, 1>>},
     organizer \in {None, 0, 1}, person \in {None} \cup RowIds(memory.people),
     rest \in {<<>>} \cup {<<Event(c, <<1, 2>>, None, None)>> : c \in Calendars} :
    LET batch == <<Event(calendar, span, organizer, person)>> \o rest
    IN /\ AllOrNone(batch, LAMBDA e : e.endsAt < e.startsAt)
       /\ Call(M!UpsertTimeEvents(memory, a, batch, now),
                         S!UpsertTimeEvents(sql, a, batch, now))

DeleteTimeEvents ==
  \E calendar \in Calendars \cup {None} :
    Call(M!DeleteTimeEvents(memory, FirstAccount, {0}, calendar),
                   S!DeleteTimeEvents(sql, FirstAccount, {0}, calendar))

Scopes ==
  {[kind |-> "all"], [kind |-> "mail", receivedSince |-> 1]}
  \cup [kind : {"calendar"}, calendarIds : SUBSET Calendars, from : {1}, to : {2}]

\* What the Supabase store counts of a round stops at max_rows.
DeleteUntouched ==
  \E a \in Account, since \in {now - 1, now}, scope \in Scopes,
     capability \in {CASE family = "mail" -> "mail" [] family = "time" -> "calendar"
                       [] family = "money" -> "bank"} :
    LET m == M!DeleteUntouched(memory, a, capability, since, scope)
    IN Call([m EXCEPT !.answer[2] = IF @ > MaxRows THEN MaxRows ELSE @],
            S!DeleteUntouched(sql, a, capability, since, scope))

-----------------------------------------------------------------------------
(* Context events, conclusions and the graph. *)
ContextEvent(key, subject, importance) ==
  [dedupeKey |-> key, subject |-> subject, importance |-> importance,
   attention |-> "none", metadata |-> {}]

\* An importance above 100 is refused; what is about what matters more in "nested".
Importances == IF family = "nested" THEN {40} ELSE {40, 100, 101}

ContextEvents == {ContextEvent(k, s, i) : k \in Key, s \in Refs, i \in Importances}

\* Another writer may commit an event between the read and the insert.
Races == {<<>>} \cup {<<ContextEvent(k, FirstRef, 0)>> : k \in Key}

\* Of two events of one key memory keeps the first and the Supabase store the
\* last, so a batch that repeats a key repeats the event.
UpsertContextEvents ==
  \E batch \in Batches(ContextEvents), raced \in Races :
    LET Bad(e) == e.importance = 101 \/ ~M!EntityExists(memory, e.subject)
        other == [i \in DOMAIN raced |-> [key |-> raced[i].dedupeKey, fields |->
                                            ContextEventToRow(raced[i])]]
        first == M!UpsertContextEvents(memory, raced, now).db
    IN /\ AllOrNone(batch, Bad)
       /\ \A i, j \in DOMAIN batch : batch[i].dedupeKey = batch[j].dedupeKey => batch[i] = batch[j]
       /\ raced # <<>> => /\ \A i \in DOMAIN batch : ~Bad(batch[i])
                          /\ \E i \in DOMAIN batch : batch[i].dedupeKey = raced[1].dedupeKey
                          /\ raced[1].dedupeKey \notin DOMAIN memory.context_events
       /\ Call(M!UpsertContextEvents(first, batch, now),
                                      S!UpsertContextEvents(sql, batch, other, now))

SetContextEventAttention ==
  \E k \in Key, attention \in {"none", "dismissed"}, metadata \in SUBSET {"because"} :
    Call(M!SetContextEventAttention(memory, k, attention, metadata),
                      S!SetContextEventAttention(sql, k, attention, metadata))

InsertConclusion ==
  \E id \in Object \ DOMAIN memory.conclusions, subject \in Refs :
    Call(M!InsertConclusion(memory, id, subject, now),
                                S!InsertConclusion(sql, id, subject, now))

Relate ==
  \E from, to \in Refs, confidence \in IF family = "nested" THEN {1} ELSE {1, 2} :
    Call(M!Relate(memory, from, to, confidence, now),
                                S!Relate(sql, from, to, confidence, now))

Unrelate ==
  \E from, to \in Refs :
    Call(M!Unrelate(memory, from, to), S!Unrelate(sql, from, to))

-----------------------------------------------------------------------------
(* People, threads and documents. *)
UpsertPerson ==
  \E id \in Contact, p \in [displayName : {1, 2}]
                          \cup [displayName : {1}, mergedIntoId : RowIds(memory.people)] :
    Call(M!UpsertPerson(memory, id, p, now), S!UpsertPerson(sql, id, p, now))

UpdatePerson ==
  \E id \in Contact, patch \in [displayName : {3}] \cup [mergedIntoId : {None} \cup RowIds(memory.people)] :
    Call(M!UpdatePerson(memory, id, patch, now), S!UpdatePerson(sql, id, patch, now))

UpsertPersonIdentity ==
  \E value \in Key, id \in Contact :
    Call(M!UpsertPersonIdentity(memory, value, [personId |-> id], now),
                     S!UpsertPersonIdentity(sql, value, [personId |-> id], now))

CreateThread ==
  \E id \in Object \ DOMAIN memory.threads, t \in [title : {1}, status : {"active", "archived"}] :
    Call(M!CreateThread(memory, id, t, now), S!CreateThread(sql, id, t, now))

UpdateThread ==
  \E id \in Object, patch \in [title : {2}] \cup [status : {"archived"}] :
    Call(M!UpdateThread(memory, id, patch, now), S!UpdateThread(sql, id, patch, now))

SourceRefs == {{"a"}, {"a", "b"}}

UpsertDocument ==
  \E id \in Object, d \in [title : {1}, sourceRef : SourceRefs, contentHash : {None, 1}] :
    Call(M!UpsertDocument(memory, id, d, now), S!UpsertDocument(sql, id, d, now))

\* The linker's attachment: the document of that source, if there is one, keeps
\* its id and its hash; otherwise a new one.
UpsertAttachmentDocument ==
  \E ref \in SourceRefs, fresh \in Object :
    LET existing == M!FindDocumentBySourceRef(memory, ref).answer[2]
        id == IF existing = {} THEN fresh ELSE CHOOSE k \in existing : TRUE
        d == [title |-> 2, sourceRef |-> ref,
              contentHash |-> IF existing = {} THEN None ELSE memory.documents[id].contentHash]
    IN /\ Cardinality(existing) <= 1 /\ (existing = {} => fresh \notin DOMAIN memory.documents)
       /\ Call(M!UpsertDocument(memory, id, d, now), S!UpsertDocument(sql, id, d, now))

UpdateDocument ==
  \E id \in Object, patch \in [contentHash : {2}] \cup [sourceRef : SourceRefs] :
    Call(M!UpdateDocument(memory, id, patch, now), S!UpdateDocument(sql, id, patch, now))

-----------------------------------------------------------------------------
(* Accounts and jobs. *)
CreateConnectorAccount ==
  \E a \in Account \cup {Unlinked} :
    LET account == [status |-> "active", credentialRef |-> 1]
    IN Call(M!CreateConnectorAccount(memory, a, account, now),
                          S!CreateConnectorAccount(sql, a, account, now))

UpdateConnectorAccount ==
  \E a \in Account \cup {Unlinked},
     patch \in [status : {"needs_reauth"}] \cup [credentialRef : {None, 2}] :
    Call(M!UpdateConnectorAccount(memory, a, patch, now),
                       S!UpdateConnectorAccount(sql, a, patch, now))

UpsertSyncState ==
  \E a \in Account \cup {Unlinked},
     patch \in [status : {"running"}] \cup [reconcile : {<<>>, <<1>>}]
               \cup [checkpoint : {1, None}, status : {"idle"}]
               \cup [consecutiveFailures : {1}, status : {"error"}] :
    Call(M!UpsertSyncState(memory, a, "mail", patch, now),
                       S!UpsertSyncState(sql, a, "mail", patch, now))

UpsertDevice ==
  \E id \in Object : Call(M!UpsertDevice(memory, id, [name |-> 1], now),
                                    S!UpsertDevice(sql, id, [name |-> 1], now))

UpdateDevice ==
  \E id \in Object : Call(M!UpdateDevice(memory, id, [name |-> 2]),
                                    S!UpdateDevice(sql, id, [name |-> 2]))

\* The focus of a handoff is something the device shows.
CreateHandoff ==
  \E id \in Object \ DOMAIN memory.handoffs,
     h \in [sourceDeviceId : Object, state : {"pending"}, focus : {None} \cup RowIds(memory.threads)] :
    Call(M!CreateHandoff(memory, id, h, now), S!CreateHandoff(sql, id, h, now))

UpdateHandoff ==
  \E id \in Object,
     patch \in [state : {"accepted"}] \cup [focus : {None} \cup RowIds(memory.threads)] :
    Call(M!UpdateHandoff(memory, id, patch), S!UpdateHandoff(sql, id, patch))

CreateIngestItem ==
  \E id \in Object \ DOMAIN memory.ingest_items,
     i \in [status : {"received"}, documentId : {None}]
           \cup [status : {"received"}, documentId : {None}, attempts : {1}] :
    Call(M!CreateIngestItem(memory, id, i, now), S!CreateIngestItem(sql, id, i, now))

UpdateIngestItem ==
  \E id \in Object, patch \in [status : {"failed"}, attempts : {2}] \cup [documentId : RowIds(memory.documents)] :
    Call(M!UpdateIngestItem(memory, id, patch), S!UpdateIngestItem(sql, id, patch))

CreateActionRequest ==
  \E key \in Key, payload \in {1, 2} :
    Call(M!CreateActionRequest(memory, key, [payload |-> payload], now),
                   S!CreateActionRequest(sql, key, [payload |-> payload], now))

UpdateActionRequest ==
  \E key \in Key, patch \in [status : {"done"}, result : {1}] \cup [attempts : {1}] :
    Call(M!UpdateActionRequest(memory, key, patch, now),
                   S!UpdateActionRequest(sql, key, patch, now))

-----------------------------------------------------------------------------
StoreNext ==
  /\ now =< MaxCalls /\ now' = now + 1 /\ UNCHANGED family
  /\ \/ family = "mail" /\ (UpsertMailMessages \/ DeleteMailMessages \/ DeleteUntouched)
     \/ family = "money" /\ (\/ UpsertMoneyAccounts \/ UpsertMoneyTransactions
                             \/ DeleteMoneyTransactions \/ DeleteUntouched)
     \/ family = "time" /\ (UpsertTimeEvents \/ DeleteTimeEvents \/ DeleteUntouched)
     \/ family \in {"context", "nested"} /\ (\/ UpsertContextEvents \/ InsertConclusion
                                             \/ Relate \/ DeleteMailMessages)
     \/ family = "context" /\ (Unrelate \/ SetContextEventAttention)
     \/ family = "people" /\ (UpsertPerson \/ UpdatePerson \/ UpsertPersonIdentity)
     \/ family = "objects" /\ (CreateThread \/ UpdateThread \/ UpsertDocument
                               \/ UpsertAttachmentDocument \/ UpdateDocument)
     \/ family = "accounts" /\ (\/ CreateConnectorAccount \/ UpdateConnectorAccount
                                \/ UpsertSyncState)
     \/ family = "jobs" /\ (\/ UpsertDevice \/ UpdateDevice \/ CreateHandoff \/ UpdateHandoff
                            \/ CreateIngestItem \/ UpdateIngestItem
                            \/ CreateActionRequest \/ UpdateActionRequest)

StoreSpec == StoreInit /\ [][StoreNext]_storeVars

-----------------------------------------------------------------------------
\* The contract is one (spine-store.ts, conformance.ts): after the same calls
\* the two stores hold the same rows and gave the same answers.  Rows about
\* context events are outside it (MemoryNothingDangles).
StoresAgree ==
  family # "nested" => memory = Seen(sql) /\ answers[1] = answers[2]

\* Every query is answered alike, page for page, although PostgREST cuts every
\* response at its own cap.  An offset past the end is not asked for, nor an
\* order that ties.
ReadsAgree ==
  LET Queries(n) == {q \in [offset : {0, 1}, limit : {1, 2, None}] : q.offset < n \/ q.offset = 0}
      Distinct(table, keys, field) ==
        \A k, l \in keys : k # l => memory[table][k][field] # memory[table][l][field]
      OwnMail(a) == {k \in DOMAIN memory.mail_messages : k[1] = a}
      Surfaced(attention) ==
        {k \in DOMAIN memory.context_events : memory.context_events[k].attention \in attention}
      Same(m, s) == m.answer = s.answer
  IN CASE family = "mail" ->
            /\ \A a \in Account : Distinct("mail_messages", OwnMail(a), "receivedAt") =>
              \A q \in Queries(Cardinality(OwnMail(a))) :
                Same(M!ListMailMessages(memory, a, q), S!ListMailMessages(sql, a, q))
            /\ \A a \in Account, x \in Key :
                 Same(M!FindMailMessageByExternalId(memory, a, x), S!FindMailMessageByExternalId(sql, a, x))
       [] family = "money" ->
            /\ \A a \in Account : Same(M!ListMoneyTransactions(memory, a), S!ListMoneyTransactions(sql, a))
            /\ \A a \in Account \cup {None} : Same(M!ListMoneyAccounts(memory, a), S!ListMoneyAccounts(sql, a))
       [] family = "time" ->
            \A from, to \in 0..3 : Same(M!ListTimeEvents(memory, from, to), S!ListTimeEvents(sql, from, to))
       [] family = "context" ->
            /\ \A attention \in SUBSET {"none", "dismissed"} :
                 Distinct("context_events", Surfaced(attention), "importance") =>
                   \A q \in Queries(Cardinality(Surfaced(attention))) :
                     Same(M!ListContextEvents(memory, attention, q), S!ListContextEvents(sql, attention, q))
            /\ Distinct("relationships", DOMAIN memory.relationships, "createdAt") =>
                 \A q \in Queries(Cardinality(DOMAIN memory.relationships)) :
                   Same(M!ListRelationships(memory, q), S!ListRelationships(sql, q))
            /\ \A ref \in Refs : /\ Same(M!Neighbors(memory, ref), S!Neighbors(sql, ref))
                                 /\ Same(M!ListConclusions(memory, ref), S!ListConclusions(sql, ref))
       [] family = "people" ->
            /\ \A merged \in BOOLEAN : Same(M!ListPeople(memory, merged), S!ListPeople(sql, merged))
            /\ \A value \in Key : Same(M!FindPersonByIdentity(memory, value), S!FindPersonByIdentity(sql, value))
       [] family = "objects" ->
            /\ \A status \in {None, "active", "archived"} :
                 Same(M!ListThreads(memory, status), S!ListThreads(sql, status))
            /\ \A since \in {0, 2} :
                 LET wanted == {k \in DOMAIN memory.documents : memory.documents[k].updatedAt >= since}
                 IN Distinct("documents", wanted, "updatedAt") =>
                      \A q \in Queries(Cardinality(wanted)) :
                        Same(M!ListDocuments(memory, since, q), S!ListDocuments(sql, since, q))
            /\ \A hash \in {1, 2} : Same(M!FindDocumentByHash(memory, hash), S!FindDocumentByHash(sql, hash))
            /\ \A ref \in SourceRefs :
                 Same(M!FindDocumentBySourceRef(memory, ref), S!FindDocumentBySourceRef(sql, ref))
       [] family = "accounts" ->
            /\ Same(M!ListConnectorAccounts(memory), S!ListConnectorAccounts(sql))
            /\ \A a \in Account \cup {Unlinked} :
                 /\ Same(M!FindConnectorAccount(memory, a), S!FindConnectorAccount(sql, a))
                 /\ Same(M!ListSyncStates(memory, a), S!ListSyncStates(sql, a))
                 /\ Same(M!GetSyncState(memory, a, "mail"), S!GetSyncState(sql, a, "mail"))
       [] family = "jobs" ->
            /\ \A states \in SUBSET {"pending", "accepted"} :
                 Same(M!ListHandoffs(memory, states), S!ListHandoffs(sql, states))
            /\ Distinct("devices", DOMAIN memory.devices, "createdAt") =>
                 Same(M!ListDevices(memory), S!ListDevices(sql))
            /\ \A status \in {None, "received", "failed"} :
                 LET wanted == {k \in DOMAIN memory.ingest_items :
                                  status \in {None, memory.ingest_items[k].status}}
                 IN Distinct("ingest_items", wanted, "createdAt") =>
                      \A q \in Queries(Cardinality(wanted)) :
                        Same(M!ListIngestItems(memory, status, q), S!ListIngestItems(sql, status, q))
            /\ \A key \in Key : Same(M!FindActionRequestByKey(memory, key), S!FindActionRequestByKey(sql, key))
       [] OTHER -> TRUE

\* An event, a conclusion or an edge never outlives what it is about.
NothingDangles(db, Exists(_, _)) ==
  /\ \A table \in {"context_events", "conclusions"} :
       \A k \in DOMAIN db[table] : Exists(db, db[table][k].subject)
  /\ \A e \in DOMAIN db.relationships : Exists(db, e.from) /\ Exists(db, e.to)

\* The schema keeps that through any depth of deletions.
SqlNothingDangles == NothingDangles(Seen(sql), S!EntityExists)

\* in-memory-spine-store.ts:972 says its onEntityDeleted mirrors the trigger.
MemoryNothingDangles == NothingDangles(memory, M!EntityExists)
=============================================================================
