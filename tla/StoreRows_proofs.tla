-------------------------- MODULE StoreRows_proofs --------------------------
(***************************************************************************)
(* Rows written through either store: the type of a row, what a client     *)
(* reads of it, and that inserts, updates and chunked upserts leave the    *)
(* in-memory store with what is read of the Supabase database, give the    *)
(* same answer and keep every constraint of the schema.  For any accounts, *)
(* keys, chunk size and page size.                                         *)
(***************************************************************************)
EXTENDS SpineStore, FiniteSetTheorems, SequenceTheorems, WellFoundedInduction, TLAPS

(***************************************************************************)
(* What the Supabase database always is.                                   *)
(***************************************************************************)
Columns(table) ==
  {"id", "createdAt"} \cup
  (CASE table = "people" -> {"displayName", "mergedIntoId", "updatedAt"}
     [] table = "person_identities" -> {"personId"}
     [] table = "threads" -> {"title", "status", "updatedAt"}
     [] table = "documents" -> {"title", "sourceRef", "contentHash", "updatedAt"}
     [] table = "mail_messages" -> {"data", "receivedAt", "fromAddress", "fromPersonId", "updatedAt"}
     [] table = "money_accounts" -> {"balance", "updatedAt"}
     [] table = "money_transactions" -> {"moneyAccountId", "amount", "updatedAt"}
     [] table = "time_events" -> {"startsAt", "endsAt", "participant", "organizer", "updatedAt"}
     [] table = "context_events" -> {"subjectType", "subjectId", "importance", "attention", "metadata"}
     [] table = "conclusions" -> {"subjectType", "subjectId"}
     [] table = "relationships" -> {"confidence"}
     [] table = "connector_accounts" -> {"status", "credentialRef", "updatedAt"}
     [] table = "sync_states" -> {"status", "checkpoint", "consecutiveFailures", "reconcile", "updatedAt"}
     [] table = "devices" -> {"name"}
     [] table = "handoffs" -> {"sourceDeviceId", "state", "focusType", "focusId"}
     [] table = "ingest_items" -> {"status", "documentId", "attempts"}
     [] OTHER -> {"payload", "status", "result", "attempts", "updatedAt"})

\* The events of the accounts, in either calendar.
EventKeys == {<<a, <<c, 0>>>> : a \in Account \cup {Unlinked}, c \in Calendars}

\* A row has the columns of its table, and an id of its own.
RowType(table, key, row) ==
  /\ row = [c \in Columns(table) |-> row[c]]
  /\ row.id[3] \in Nat /\ row.id = <<table, key, row.id[3]>>
  /\ \A c \in Columns(table) \cap {"createdAt", "updatedAt", "receivedAt", "importance", "confidence"} :
       row[c] \in Nat
  /\ table = "handoffs" => row.focusType \in {None, "threads"}
  /\ table = "threads" => key \in Object
  /\ table = "time_events" => key \in EventKeys
  /\ table = "relationships" => key = [from |-> key.from, to |-> key.to]

TableType(table, rows) ==
  /\ rows = [k \in DOMAIN rows |-> rows[k]] /\ IsFiniteSet(DOMAIN rows)
  /\ \A k \in DOMAIN rows : RowType(table, k, rows[k])

DbType(db) == db = [t \in Tables |-> db[t]] /\ \A t \in Tables : TableType(t, db[t])

\* Every row satisfies the constraints of its table, not only when it is written.
AllValid(db) == \A t \in Tables : \A k \in DOMAIN db[t] : S!Valid(db, t, k, db[t][k])

\* Nothing is about an event or a conclusion.
Derived == {"context_events", "conclusions"}
Flat(db) ==
  /\ \A t \in Derived : \A k \in DOMAIN db[t] : db[t][k].subjectType \notin Derived
  /\ \A e \in DOMAIN db.relationships : e.from[1] \notin Derived /\ e.to[1] \notin Derived

\* The seeded account and person stay.
DbInv(db) ==
  /\ DbType(db) /\ AllValid(db) /\ FirstRef \in RowIds(db.people)
  /\ Account \subseteq DOMAIN db.connector_accounts

StoreInv ==
  /\ now \in Nat /\ DbInv(sql)
  /\ family # "nested" => Flat(sql) /\ memory = Seen(sql) /\ answers[1] = answers[2]

-----------------------------------------------------------------------------
(***************************************************************************)
(* What both stores are built from, and what a reader of the database gets. *)
(***************************************************************************)
\* The stores share the helpers of SpineRows.
LEMMA SameHelpers ==
  /\ \A f, g : M!Over(f, g) = Over(f, g) /\ S!Over(f, g) = Over(f, g)
  /\ \A f, k, r : M!Put(f, k, r) = Put(f, k, r) /\ S!Put(f, k, r) = Put(f, k, r)
  /\ \A f, K : M!Without(f, K) = Without(f, K) /\ S!Without(f, K) = Without(f, K)
  /\ \A f : M!RowIds(f) = RowIds(f) /\ S!RowIds(f) = RowIds(f)
  /\ \A db, v : M!Done(db, v) = [db |-> db, answer |-> <<"ok", v>>] /\ S!Done(db, v) = [db |-> db, answer |-> <<"ok", v>>]
  /\ \A db, v : M!Refused(db, v) = [db |-> db, answer |-> <<v, None>>] /\ S!Refused(db, v) = [db |-> db, answer |-> <<v, None>>]
  /\ \A rows : M!KeysOf(rows) = KeysOf(rows) /\ S!KeysOf(rows) = KeysOf(rows)
  /\ \A rows, k : M!LastOf(rows, k) = LastOf(rows, k) /\ S!LastOf(rows, k) = LastOf(rows, k)
<1>1. \A f, g : M!Over(f, g) = Over(f, g) /\ S!Over(f, g) = Over(f, g)
  BY DEF M!Over, S!Over, Over
<1>2. \A f, k, r : M!Put(f, k, r) = Put(f, k, r) /\ S!Put(f, k, r) = Put(f, k, r)
  BY DEF M!Put, S!Put, Put
<1>3. \A f, K : M!Without(f, K) = Without(f, K) /\ S!Without(f, K) = Without(f, K)
  BY DEF M!Without, S!Without, Without, M!Restrict, S!Restrict, Restrict
<1>4. \A f : M!RowIds(f) = RowIds(f) /\ S!RowIds(f) = RowIds(f)
  BY DEF M!RowIds, S!RowIds, RowIds
<1>5. /\ \A db, v : M!Done(db, v) = [db |-> db, answer |-> <<"ok", v>>] /\ S!Done(db, v) = [db |-> db, answer |-> <<"ok", v>>]
      /\ \A db, v : M!Refused(db, v) = [db |-> db, answer |-> <<v, None>>] /\ S!Refused(db, v) = [db |-> db, answer |-> <<v, None>>]
  BY DEF M!Done, S!Done, M!Refused, S!Refused
<1>6. \A rows : M!KeysOf(rows) = KeysOf(rows) /\ S!KeysOf(rows) = KeysOf(rows)
  BY DEF M!KeysOf, S!KeysOf, KeysOf
<1>7. ASSUME NEW rows, NEW k
      PROVE  M!LastOf(rows, k) = LastOf(rows, k) /\ S!LastOf(rows, k) = LastOf(rows, k)
  BY DEF M!LastOf, S!LastOf, LastOf, M!Max, S!Max, Max
<1> QED BY <1>1, <1>2, <1>3, <1>4, <1>5, <1>6, <1>7

LEMMA OverIs ==
  ASSUME NEW new, NEW old
  PROVE  /\ Over(new, old) = [x \in DOMAIN Over(new, old) |-> Over(new, old)[x]]
         /\ DOMAIN Over(new, old) = DOMAIN new \cup DOMAIN old
         /\ \A x \in DOMAIN new : Over(new, old)[x] = new[x]
         /\ \A x \in DOMAIN old \ DOMAIN new : Over(new, old)[x] = old[x]
BY DEF Over

LEMMA PutIs ==
  ASSUME NEW table, NEW key, NEW row
  PROVE  Put(table, key, row) = Over([k \in {key} |-> row], table)
BY DEF Put, Over

\* Columns, one table at a time.
LEMMA ColumnsOf ==
  /\ Columns("people") = {"id", "createdAt", "displayName", "mergedIntoId", "updatedAt"}
  /\ Columns("person_identities") = {"id", "createdAt", "personId"}
  /\ Columns("threads") = {"id", "createdAt", "title", "status", "updatedAt"}
  /\ Columns("documents") = {"id", "createdAt", "title", "sourceRef", "contentHash", "updatedAt"}
  /\ Columns("mail_messages") =
       {"id", "createdAt", "data", "receivedAt", "fromAddress", "fromPersonId", "updatedAt"}
  /\ Columns("money_accounts") = {"id", "createdAt", "balance", "updatedAt"}
  /\ Columns("money_transactions") = {"id", "createdAt", "moneyAccountId", "amount", "updatedAt"}
  /\ Columns("time_events") =
       {"id", "createdAt", "startsAt", "endsAt", "participant", "organizer", "updatedAt"}
  /\ Columns("context_events") =
       {"id", "createdAt", "subjectType", "subjectId", "importance", "attention", "metadata"}
  /\ Columns("conclusions") = {"id", "createdAt", "subjectType", "subjectId"}
  /\ Columns("relationships") = {"id", "createdAt", "confidence"}
  /\ Columns("connector_accounts") = {"id", "createdAt", "status", "credentialRef", "updatedAt"}
  /\ Columns("sync_states") =
       {"id", "createdAt", "status", "checkpoint", "consecutiveFailures", "reconcile", "updatedAt"}
  /\ Columns("devices") = {"id", "createdAt", "name"}
  /\ Columns("handoffs") = {"id", "createdAt", "sourceDeviceId", "state", "focusType", "focusId"}
  /\ Columns("ingest_items") = {"id", "createdAt", "status", "documentId", "attempts"}
  /\ Columns("action_requests") =
       {"id", "createdAt", "payload", "status", "result", "attempts", "updatedAt"}
BY DEF Columns

\* A row as a reader of the database gets it.
View(table, row) ==
  CASE table = "mail_messages" -> MailMessageFromRow(row)
    [] table = "money_accounts" -> MoneyAccountFromRow(row)
    [] table = "money_transactions" -> MoneyTransactionFromRow(row)
    [] table = "context_events" -> ContextEventFromRow(row)
    [] table = "conclusions" -> ConclusionFromRow(row)
    [] table = "sync_states" -> SyncStateFromRow(row)
    [] table = "handoffs" -> HandoffFromRow(row)
    [] OTHER -> row

LEMMA SeenIs ==
  ASSUME NEW db, DbType(db)
  PROVE  Seen(db) = [t \in Tables |-> [k \in DOMAIN db[t] |-> View(t, db[t][k])]]
<1>1. DOMAIN db = Tables /\ \A t \in Tables : db[t] = [k \in DOMAIN db[t] |-> db[t][k]]
  BY DEF DbType, TableType
<1>2. DOMAIN Seen(db) = Tables /\ Seen(db) = [t \in DOMAIN Seen(db) |-> Seen(db)[t]]
  BY <1>1 DEF Seen
<1>3. ASSUME NEW t \in Tables PROVE Seen(db)[t] = [k \in DOMAIN db[t] |-> View(t, db[t][k])]
  BY <1>1 DEF Seen, View, Tables
<1> QED BY <1>2, <1>3

\* What is read has the id, the birth and the update time of the row.
LEMMA ViewKeeps ==
  ASSUME NEW t \in Tables, NEW k, NEW r, RowType(t, k, r)
  PROVE  /\ View(t, r).id = r.id /\ "id" \in DOMAIN View(t, r)
         /\ View(t, r).createdAt = r.createdAt
         /\ t \in {"mail_messages", "time_events", "money_transactions"} => View(t, r).updatedAt = r.updatedAt
BY ColumnsOf DEF View, RowType, Tables, MailMessageFromRow, MoneyAccountFromRow, MoneyTransactionFromRow,
  ContextEventFromRow, ConclusionFromRow, SyncStateFromRow, HandoffFromRow

LEMMA SeenIds ==
  ASSUME NEW db, DbType(db), NEW t \in Tables
  PROVE  /\ RowIds(Seen(db)[t]) = RowIds(db[t]) /\ DOMAIN Seen(db)[t] = DOMAIN db[t]
         /\ \A k \in DOMAIN db[t] : Seen(db)[t][k].id = db[t][k].id
<1>1. \A k \in DOMAIN db[t] : View(t, db[t][k]).id = db[t][k].id
  BY ViewKeeps DEF DbType, TableType
<1> QED BY <1>1, SeenIs DEF RowIds

LEMMA SameExists ==
  ASSUME NEW db, DbType(db), NEW ref
  PROVE  M!EntityExists(Seen(db), ref) = S!EntityExists(db, ref)
<1>1. \A t \in EntityTables : RowIds(Seen(db)[t]) = RowIds(db[t])
  BY SeenIds DEF EntityTables, Tables
<1> QED BY <1>1, SameHelpers DEF M!EntityExists, S!EntityExists, EntityTables, M!EntityTables, S!EntityTables

-----------------------------------------------------------------------------
(***************************************************************************)
(* Constraints, when rows are added or changed.                            *)
(***************************************************************************)
\* A constraint that holds keeps holding while rows are only added or changed.
LEMMA ValidGrows ==
  ASSUME NEW db, NEW more, DOMAIN db = Tables, DOMAIN more = Tables,
         \A u \in Tables : DOMAIN db[u] \subseteq DOMAIN more[u] /\ RowIds(db[u]) \subseteq RowIds(more[u]),
         NEW t \in Tables, NEW key, NEW row, S!Valid(db, t, key, row)
  PROVE  S!Valid(more, t, key, row)
<1>1. \A ref : S!EntityExists(db, ref) => S!EntityExists(more, ref)
  BY SameHelpers DEF S!EntityExists, S!EntityTables, Tables
<1>2. \A u \in Tables : \A id : S!Refers(db, u, id) => S!Refers(more, u, id)
  BY SameHelpers DEF S!Refers
<1>3. /\ "people" \in Tables /\ "documents" \in Tables /\ "connector_accounts" \in Tables
      /\ "devices" \in Tables
  BY DEF Tables
<1> DEFINE Ok(d, u) == S!Valid(d, u, key, row)
<1>4. CASE t \in {"mail_messages", "money_accounts", "people", "ingest_items"}
  BY <1>1, <1>2, <1>3, <1>4 DEF S!Valid
<1>5. CASE t \in {"money_transactions", "time_events", "sync_states", "person_identities", "handoffs"}
  BY <1>1, <1>2, <1>3, <1>5 DEF S!Valid
<1>6. CASE t \in {"context_events", "conclusions", "relationships"}
  BY <1>1, <1>2, <1>3, <1>6 DEF S!Valid
<1>7. CASE t \in {"threads", "documents", "connector_accounts", "devices", "action_requests"}
  BY <1>7 DEF S!Valid
<1> QED BY <1>4, <1>5, <1>6, <1>7 DEF Tables

\* The database after valid rows are written.
Written(db, t, new) == [db EXCEPT ![t] = Over(new, @)]

LEMMA WriteKeeps ==
  ASSUME NEW db, DbType(db), AllValid(db), NEW t \in Tables, NEW new, IsFiniteSet(DOMAIN new),
         \A k \in DOMAIN new :
           /\ RowType(t, k, new[k]) /\ S!Valid(db, t, k, new[k])
           /\ k \in DOMAIN db[t] => new[k].id = db[t][k].id
  PROVE  /\ DbType(Written(db, t, new)) /\ AllValid(Written(db, t, new))
         /\ \A u \in Tables : RowIds(db[u]) \subseteq RowIds(Written(db, t, new)[u])
         /\ Seen(Written(db, t, new)) =
              [Seen(db) EXCEPT ![t] = Over([k \in DOMAIN new |-> View(t, new[k])], @)]
<1> DEFINE after == Written(db, t, new)
<1>1. /\ DOMAIN db = Tables /\ DOMAIN after = Tables /\ after = [u \in Tables |-> after[u]]
      /\ after[t] = Over(new, db[t]) /\ \A u \in Tables \ {t} : after[u] = db[u]
  BY DEF DbType, Written
<1>2. TableType(t, db[t]) /\ \A u \in Tables : TableType(u, db[u])
  BY DEF DbType
<1>3. /\ DOMAIN after[t] = DOMAIN new \cup DOMAIN db[t]
      /\ \A k \in DOMAIN new : after[t][k] = new[k]
      /\ \A k \in DOMAIN db[t] \ DOMAIN new : after[t][k] = db[t][k]
      /\ after[t] = [k \in DOMAIN after[t] |-> after[t][k]]
  <2> DEFINE rows == db[t]
  <2>1. /\ Over(new, rows) = [x \in DOMAIN Over(new, rows) |-> Over(new, rows)[x]]
        /\ DOMAIN Over(new, rows) = DOMAIN new \cup DOMAIN rows
        /\ \A x \in DOMAIN new : Over(new, rows)[x] = new[x]
        /\ \A x \in DOMAIN rows \ DOMAIN new : Over(new, rows)[x] = rows[x]
    BY DEF Over
  <2> HIDE DEF after
  <2> QED BY <1>1, <2>1
<1>4. IsFiniteSet(DOMAIN after[t])
  <2>1. IsFiniteSet(DOMAIN db[t])
    BY <1>2 DEF TableType
  <2>2. IsFiniteSet(DOMAIN new \cup DOMAIN db[t])
    BY <2>1, FS_Union
  <2> QED BY <1>3, <2>2
<1>5. TableType(t, after[t])
  BY <1>2, <1>3, <1>4 DEF TableType
<1>6. DbType(after)
  BY <1>1, <1>2, <1>5 DEF DbType
<1>7. \A u \in Tables : DOMAIN db[u] \subseteq DOMAIN after[u] /\ RowIds(db[u]) \subseteq RowIds(after[u])
  <2>1. \A k \in DOMAIN db[t] : k \in DOMAIN after[t] /\ after[t][k].id = db[t][k].id
    BY <1>3
  <2> QED BY <1>1, <2>1 DEF RowIds
<1>8. ASSUME NEW u \in Tables, NEW k \in DOMAIN after[u]
      PROVE  S!Valid(after, u, k, after[u][k])
  <2>1. S!Valid(db, u, k, after[u][k])
    BY <1>1, <1>3, <1>8 DEF AllValid
  <2> QED BY <1>1, <1>7, <2>1, ValidGrows
<1>9. Seen(after) = [Seen(db) EXCEPT ![t] = Over([k \in DOMAIN new |-> View(t, new[k])], @)]
  <2> DEFINE views == [k \in DOMAIN new |-> View(t, new[k])]
             seen == [Seen(db) EXCEPT ![t] = Over(views, @)]
  <2>1. /\ DOMAIN seen = Tables /\ seen = [u \in Tables |-> seen[u]]
        /\ seen[t] = Over(views, Seen(db)[t]) /\ \A u \in Tables \ {t} : seen[u] = Seen(db)[u]
    BY SeenIs
  <2>2. Seen(after) = [u \in Tables |-> [k \in DOMAIN after[u] |-> View(u, after[u][k])]]
    BY <1>6, SeenIs
  <2>3. Seen(db) = [u \in Tables |-> [k \in DOMAIN db[u] |-> View(u, db[u][k])]]
    BY SeenIs
  <2>4. ASSUME NEW u \in Tables \ {t} PROVE Seen(after)[u] = seen[u]
    BY <1>1, <2>1, <2>2, <2>3
  <2>5. Seen(after)[t] = seen[t]
    <3>1. Over(views, Seen(db)[t]) = [k \in DOMAIN new \cup DOMAIN db[t] |->
             IF k \in DOMAIN new THEN View(t, new[k]) ELSE View(t, db[t][k])]
      BY <2>3 DEF Over
    <3>2. Seen(after)[t] = [k \in DOMAIN new \cup DOMAIN db[t] |-> View(t, after[t][k])]
      BY <1>3, <2>2
    <3> QED BY <1>3, <2>1, <3>1, <3>2
  <2> QED BY <2>1, <2>2, <2>4, <2>5
<1> QED BY <1>6, <1>7, <1>8, <1>9 DEF AllValid

-----------------------------------------------------------------------------
(***************************************************************************)
(* Deletions.                                                              *)
(***************************************************************************)
LEMMA SubjectIs == \A row : S!Subject(row) = Ref(row.subjectType, row.subjectId)
BY DEF S!Subject, S!Ref, Ref

\* What goes with refs, and with what is about them, is complete and no more
\* than the dependents.
LEMMA DependentsClosed ==
  ASSUME NEW db, NEW refs
  PROVE  LET gone == S!WithDependents(db, refs)
         IN  /\ refs \subseteq gone
             /\ \A t \in Derived : \A k \in DOMAIN db[t] :
                  S!Subject(db[t][k]) \in gone => db[t][k].id \in gone
             /\ gone \subseteq refs \cup RowIds(db.context_events) \cup RowIds(db.conclusions)
<1> DEFINE About(t, g) == {db[t][k].id : k \in {k \in DOMAIN db[t] : S!Subject(db[t][k]) \in g}}
           all == refs \cup RowIds(db.context_events) \cup RowIds(db.conclusions)
           complete == {g \in SUBSET all :
                          refs \subseteq g /\ About("context_events", g) \cup About("conclusions", g) \subseteq g}
           gone == {id \in all : \A g \in complete : id \in g}
<1>1. S!WithDependents(db, refs) = gone
  BY SameHelpers DEF S!WithDependents
<1>2. refs \subseteq gone /\ gone \subseteq all
  OBVIOUS
<1>3. ASSUME NEW t \in Derived, NEW k \in DOMAIN db[t], S!Subject(db[t][k]) \in gone
      PROVE  db[t][k].id \in gone
  <2>1. db[t][k].id \in all
    BY <1>3 DEF RowIds, Derived
  <2>2. ASSUME NEW g \in complete PROVE db[t][k].id \in g
    <3>1. S!Subject(db[t][k]) \in g
      BY <1>3
    <3>2. db[t][k].id \in About(t, g)
      BY <3>1
    <3> QED BY <3>2 DEF Derived
  <2> QED BY <2>1, <2>2
<1> QED BY <1>1, <1>2, <1>3

-----------------------------------------------------------------------------
(***************************************************************************)
(* Rows written one at a time.                                             *)
(***************************************************************************)

LEMMA WriteInv ==
  ASSUME NEW db, DbInv(db), NEW t \in Tables, NEW new, IsFiniteSet(DOMAIN new),
         \A k \in DOMAIN new :
           /\ RowType(t, k, new[k]) /\ S!Valid(db, t, k, new[k])
           /\ k \in DOMAIN db[t] => new[k].id = db[t][k].id
  PROVE  /\ DbInv(Written(db, t, new))
         /\ t \notin Derived \cup {"relationships"} => (Flat(db) => Flat(Written(db, t, new)))
         /\ Seen(Written(db, t, new)) =
              [Seen(db) EXCEPT ![t] = Over([k \in DOMAIN new |-> View(t, new[k])], @)]
<1> DEFINE after == Written(db, t, new)
<1>1. /\ DbType(after) /\ AllValid(after) /\ \A u \in Tables : RowIds(db[u]) \subseteq RowIds(after[u])
      /\ Seen(after) = [Seen(db) EXCEPT ![t] = Over([k \in DOMAIN new |-> View(t, new[k])], @)]
  BY WriteKeeps DEF DbInv
<1>2. /\ DOMAIN db = Tables /\ after[t] = Over(new, db[t]) /\ \A u \in Tables \ {t} : after[u] = db[u]
      /\ "people" \in Tables /\ "connector_accounts" \in Tables
  BY DEF DbInv, DbType, Written, Tables
<1>3. \A u \in Tables : DOMAIN db[u] \subseteq DOMAIN after[u]
  BY <1>2 DEF Over
<1>4. DbInv(after)
  BY <1>1, <1>2, <1>3 DEF DbInv
<1>5. ASSUME t \notin Derived \cup {"relationships"}, Flat(db) PROVE Flat(after)
  <2>1. Derived \cup {"relationships"} \subseteq Tables
    BY DEF Derived, Tables
  <2> QED BY <1>2, <1>5, <2>1 DEF Flat
<1> QED BY <1>1, <1>4, <1>5

\* Fields a caller may give for a row of a table.
Fits(t, fields) ==
  /\ DOMAIN fields \subseteq Columns(t) \ {"id", "createdAt", "updatedAt"}
  /\ \A c \in DOMAIN fields \cap {"receivedAt", "importance", "confidence"} : fields[c] \in Nat
  /\ "focusType" \in DOMAIN fields => fields["focusType"] \in {None, "threads"}
Fills(t, fields, defaults) ==
  Columns(t) \subseteq DOMAIN fields \cup DOMAIN defaults \cup {"id", "createdAt", "updatedAt"}
KeyFits(t, key) ==
  /\ t = "threads" => key \in Object
  /\ t = "time_events" => key \in EventKeys
  /\ t = "relationships" => key = [from |-> key.from, to |-> key.to]

LEMMA NothingFits ==
  ASSUME NEW t PROVE Fits(t, <<>>)
BY DEF Fits

LEMMA StampIs ==
  ASSUME NEW t \in Tables, NEW n
  PROVE  /\ DOMAIN S!Stamp(t, n) = Columns(t) \cap {"updatedAt"}
         /\ t \in S!Updatable => S!Stamp(t, n) = [updatedAt |-> n]
         /\ t \notin S!Updatable => S!Stamp(t, n) = <<>>
         /\ t \in S!Updatable <=> "updatedAt" \in Columns(t)
         /\ "updatedAt" \in Columns(t) => S!Stamp(t, n)["updatedAt"] = n
<1>1. t \in S!Updatable <=> "updatedAt" \in Columns(t)
  BY ColumnsOf DEF S!Updatable, Tables
<1>2. /\ t \in S!Updatable => S!Stamp(t, n) = [updatedAt |-> n]
      /\ t \notin S!Updatable => S!Stamp(t, n) = <<>>
  BY DEF S!Stamp
<1>3. DOMAIN S!Stamp(t, n) = Columns(t) \cap {"updatedAt"}
  <2>1. DOMAIN [updatedAt |-> n] = {"updatedAt"} /\ DOMAIN <<>> = {}
    OBVIOUS
  <2> QED BY <1>1, <1>2, <2>1
<1> QED BY <1>1, <1>2, <1>3

\* The row an insert or an update writes has the columns of its table, and
\* keeps its id.
LEMMA RowOfType ==
  ASSUME NEW db, DbType(db), NEW t \in Tables, NEW key, NEW fields, NEW defaults, NEW n \in Nat,
         Fits(t, fields), Fits(t, defaults), KeyFits(t, key),
         key \notin DOMAIN db[t] => Fills(t, fields, defaults)
  PROVE  /\ RowType(t, key, S!RowOf(db, t, key, fields, defaults, n))
         /\ key \in DOMAIN db[t] => S!RowOf(db, t, key, fields, defaults, n).id = db[t][key].id
<1> DEFINE row == S!RowOf(db, t, key, fields, defaults, n)
           typed == {"createdAt", "updatedAt", "receivedAt", "importance", "confidence"}
<1>0. {"id", "createdAt"} \subseteq Columns(t)
  BY DEF Columns
<1>1. CASE key \in DOMAIN db[t]
  <2> DEFINE old == db[t][key]
             mid == Over(S!Stamp(t, n), old)
  <2>1. RowType(t, key, old)
    BY <1>1 DEF DbType, TableType
  <2>2. row = Over(fields, mid)
    BY <1>1, SameHelpers DEF S!RowOf
  <2>3. DOMAIN old = Columns(t)
    BY <2>1 DEF RowType
  <2>a. "updatedAt" \in Columns(t) => S!Stamp(t, n)["updatedAt"] = n
    BY StampIs
  <2>b. DOMAIN S!Stamp(t, n) = Columns(t) \cap {"updatedAt"}
    BY StampIs
  <2>4. /\ DOMAIN mid = Columns(t) /\ \A c \in Columns(t) \ {"updatedAt"} : mid[c] = old[c]
        /\ "updatedAt" \in Columns(t) => mid["updatedAt"] = n
    BY <2>3, <2>a, <2>b DEF Over
  <2>5. /\ row = [c \in DOMAIN row |-> row[c]] /\ DOMAIN row = Columns(t)
        /\ \A c \in DOMAIN fields : row[c] = fields[c]
        /\ \A c \in Columns(t) \ DOMAIN fields : row[c] = mid[c]
    BY <2>2, <2>4 DEF Over, Fits
  <2>6. row["id"] = old["id"]
    BY <1>0, <2>4, <2>5 DEF Fits
  <2>7. \A c \in Columns(t) \cap typed : row[c] \in Nat
    BY <2>1, <2>4, <2>5 DEF Fits, RowType
  <2>8. ASSUME t = "handoffs" PROVE row["focusType"] \in {None, "threads"}
    BY <2>1, <2>4, <2>5, <2>8, ColumnsOf DEF Fits, RowType
  <2>9. row.id[3] \in Nat /\ row.id = <<t, key, row.id[3]>> /\ row.id = old.id
    BY <2>1, <2>6 DEF RowType
  <2>10. RowType(t, key, row)
    <3> HIDE DEF row, mid
    <3> QED BY <1>1, <2>5, <2>7, <2>8, <2>9 DEF RowType, KeyFits
  <2> QED BY <1>1, <2>9, <2>10
<1>2. CASE key \notin DOMAIN db[t]
  <2> DEFINE born == [id |-> <<t, key, n>>, createdAt |-> n]
             mid == Over(S!Stamp(t, n), born)
             with == Over(defaults, mid)
  <2>1. row = Over(fields, with)
    BY <1>2, SameHelpers DEF S!RowOf
  <2>a. "updatedAt" \in Columns(t) => S!Stamp(t, n)["updatedAt"] = n
    BY StampIs
  <2>b. DOMAIN S!Stamp(t, n) = Columns(t) \cap {"updatedAt"}
    BY StampIs
  <2>2. /\ DOMAIN mid = {"id", "createdAt"} \cup (Columns(t) \cap {"updatedAt"})
        /\ mid["id"] = <<t, key, n>> /\ mid["createdAt"] = n
        /\ "updatedAt" \in Columns(t) => mid["updatedAt"] = n
    BY <2>a, <2>b DEF Over
  <2>3. /\ DOMAIN with = DOMAIN defaults \cup DOMAIN mid
        /\ \A c \in DOMAIN defaults : with[c] = defaults[c]
        /\ \A c \in DOMAIN mid : with[c] = mid[c]
    BY <2>2 DEF Over, Fits
  <2>4. /\ row = [c \in DOMAIN row |-> row[c]] /\ DOMAIN row = DOMAIN fields \cup DOMAIN with
        /\ \A c \in DOMAIN fields : row[c] = fields[c]
        /\ \A c \in DOMAIN with \ DOMAIN fields : row[c] = with[c]
    BY <2>1 DEF Over
  <2>5. DOMAIN row = Columns(t)
    BY <1>0, <1>2, <2>2, <2>3, <2>4 DEF Fits, Fills
  <2>6. row["id"] = <<t, key, n>> /\ row["createdAt"] = n /\ ("updatedAt" \in Columns(t) => row["updatedAt"] = n)
    BY <2>2, <2>3, <2>4 DEF Fits
  <2>7. \A c \in Columns(t) \cap typed : row[c] \in Nat
    BY <2>2, <2>3, <2>4, <2>5, <2>6 DEF Fits
  <2>8. ASSUME t = "handoffs" PROVE row["focusType"] \in {None, "threads"}
    BY <2>2, <2>3, <2>4, <2>5, <2>8, ColumnsOf DEF Fits
  <2>9. row.id[3] \in Nat /\ row.id = <<t, key, row.id[3]>>
    BY <2>6
  <2>10. RowType(t, key, row)
    <3> HIDE DEF row, mid, with
    <3> QED BY <1>2, <2>4, <2>5, <2>7, <2>8, <2>9 DEF RowType, KeyFits
  <2> QED BY <1>2, <2>10
<1> QED BY <1>1, <1>2

-----------------------------------------------------------------------------
(***************************************************************************)
(* An insert and an update, in either store.                               *)
(***************************************************************************)
\* The rows an insert writes, and those whose constraints it checks.
ToWrite(db, t, rows, ignoreDuplicates) ==
  IF ignoreDuplicates THEN DOMAIN rows \ DOMAIN db[t] ELSE DOMAIN rows
ToCheck(db, t, rows, ignoreDuplicates) ==
  IF t = "context_events" THEN DOMAIN rows ELSE ToWrite(db, t, rows, ignoreDuplicates)
NewRows(db, t, rows, defaults, ignoreDuplicates, n) ==
  [k \in ToWrite(db, t, rows, ignoreDuplicates) |-> S!RowOf(db, t, k, rows[k], defaults, n)]
Accepted(db, t, rows, defaults, ignoreDuplicates, n) ==
  \A k \in ToCheck(db, t, rows, ignoreDuplicates) :
    S!Valid(db, t, k, S!RowOf(db, t, k, rows[k], defaults, n))

NewViews(db, t, rows, defaults, ignoreDuplicates, n) ==
  [k \in ToWrite(db, t, rows, ignoreDuplicates) |->
     View(t, S!RowOf(db, t, k, rows[k], defaults, n))]

\* A database with a row written.
WithRow(db, t, key, row) == [db EXCEPT ![t] = Put(@, key, row)]

LEMMA InsertIs ==
  ASSUME NEW db, NEW t, NEW rows, NEW defaults, NEW ign, NEW n
  PROVE  S!Insert(db, t, rows, defaults, ign, n) =
           IF Accepted(db, t, rows, defaults, ign, n)
           THEN [ok |-> TRUE, db |-> Written(db, t, NewRows(db, t, rows, defaults, ign, n)),
                 keys |-> S!AtMostMaxRows(ToWrite(db, t, rows, ign))]
           ELSE [ok |-> FALSE, db |-> db, keys |-> {}]
<1> DEFINE written == IF ign THEN DOMAIN rows \ DOMAIN db[t] ELSE DOMAIN rows
           checked == IF t = "context_events" THEN DOMAIN rows ELSE written
           new == [k \in written |-> S!RowOf(db, t, k, rows[k], defaults, n)]
           bad == \E k \in checked : ~S!Valid(db, t, k, S!RowOf(db, t, k, rows[k], defaults, n))
<1>1. S!Insert(db, t, rows, defaults, ign, n) =
        IF bad THEN [ok |-> FALSE, db |-> db, keys |-> {}]
        ELSE [ok |-> TRUE, db |-> [db EXCEPT ![t] = S!Over(new, @)], keys |-> S!AtMostMaxRows(written)]
  BY DEF S!Insert
<1>2. [db EXCEPT ![t] = S!Over(new, @)] = Written(db, t, new)
  BY SameHelpers DEF Written
<1>3. /\ new = NewRows(db, t, rows, defaults, ign, n) /\ written = ToWrite(db, t, rows, ign)
      /\ checked = ToCheck(db, t, rows, ign)
  BY DEF NewRows, ToWrite, ToCheck
<1>4. bad <=> ~Accepted(db, t, rows, defaults, ign, n)
  BY <1>3 DEF Accepted
<1> HIDE DEF bad, new, written
<1> QED BY <1>1, <1>2, <1>3, <1>4

LEMMA InsertKeeps ==
  ASSUME NEW db, DbInv(db), NEW t \in Tables, NEW rows, IsFiniteSet(DOMAIN rows),
         NEW defaults, Fits(t, defaults), NEW ign, NEW n \in Nat,
         \A k \in DOMAIN rows :
           /\ KeyFits(t, k) /\ Fits(t, rows[k])
           /\ k \notin DOMAIN db[t] => Fills(t, rows[k], defaults)
  PROVE  /\ DbInv(S!Insert(db, t, rows, defaults, ign, n).db)
         /\ t \notin Derived \cup {"relationships"} =>
              (Flat(db) => Flat(S!Insert(db, t, rows, defaults, ign, n).db))
         /\ Accepted(db, t, rows, defaults, ign, n) =>
              Seen(S!Insert(db, t, rows, defaults, ign, n).db) =
                Written(Seen(db), t, NewViews(db, t, rows, defaults, ign, n))
<1> DEFINE done == S!Insert(db, t, rows, defaults, ign, n)
           new == NewRows(db, t, rows, defaults, ign, n)
           views == NewViews(db, t, rows, defaults, ign, n)
<1>1. CASE ~Accepted(db, t, rows, defaults, ign, n)
  <2>1. done.db = db
    BY <1>1, InsertIs
  <2> QED BY <1>1, <2>1
<1>2. CASE Accepted(db, t, rows, defaults, ign, n)
  <2>1. done.db = Written(db, t, new)
    BY <1>2, InsertIs
  <2>2. DOMAIN new \subseteq DOMAIN rows /\ DOMAIN new \subseteq ToCheck(db, t, rows, ign)
    BY DEF NewRows, ToWrite, ToCheck
  <2>3. IsFiniteSet(DOMAIN new)
    BY <2>2, FS_Subset
  <2>4. ASSUME NEW k \in DOMAIN new
        PROVE  /\ RowType(t, k, new[k]) /\ S!Valid(db, t, k, new[k])
               /\ k \in DOMAIN db[t] => new[k].id = db[t][k].id
    <3>1. new[k] = S!RowOf(db, t, k, rows[k], defaults, n)
      BY DEF NewRows
    <3>2. S!Valid(db, t, k, new[k])
      BY <1>2, <2>2, <3>1 DEF Accepted
    <3>3. /\ RowType(t, k, S!RowOf(db, t, k, rows[k], defaults, n))
          /\ k \in DOMAIN db[t] => S!RowOf(db, t, k, rows[k], defaults, n).id = db[t][k].id
      BY <2>2, RowOfType DEF DbInv
    <3> QED BY <3>1, <3>2, <3>3
  <2>5. [k \in DOMAIN new |-> View(t, new[k])] = views
    BY DEF NewRows, NewViews
  <2>6. /\ DbInv(Written(db, t, new))
        /\ t \notin Derived \cup {"relationships"} => (Flat(db) => Flat(Written(db, t, new)))
        /\ Seen(Written(db, t, new)) =
             [Seen(db) EXCEPT ![t] = Over([k \in DOMAIN new |-> View(t, new[k])], @)]
    <3> HIDE DEF new
    <3> QED BY <2>3, <2>4, WriteInv
  <2> HIDE DEF new, done, views
  <2>7. Seen(done.db) = Written(Seen(db), t, views)
    BY <2>1, <2>5, <2>6 DEF Written
  <2> QED BY <2>1, <2>6, <2>7 DEF done, views
<1> QED BY <1>1, <1>2

\* One row, written by both stores.
LEMMA OneInserted ==
  ASSUME NEW db, DbInv(db), NEW t \in Tables, NEW key, NEW fields, NEW defaults, NEW n \in Nat,
         Fits(t, fields), Fits(t, defaults), KeyFits(t, key),
         key \notin DOMAIN db[t] => Fills(t, fields, defaults)
  PROVE  LET row == S!RowOf(db, t, key, fields, defaults, n)
             s == S!InsertOne(db, t, key, fields, defaults, n)
         IN /\ DbInv(s.db) /\ (t \notin Derived \cup {"relationships"} => (Flat(db) => Flat(s.db)))
            /\ S!Valid(db, t, key, row) =>
                 /\ s.db = WithRow(db, t, key, row) /\ s.answer = <<"ok", row>>
                 /\ Seen(s.db) = WithRow(Seen(db), t, key, View(t, row))
            /\ ~S!Valid(db, t, key, row) => s.db = db /\ s.answer = <<"integrity", None>>
<1> DEFINE row == S!RowOf(db, t, key, fields, defaults, n)
           rows == [k \in {key} |-> fields]
           done == S!Insert(db, t, rows, defaults, FALSE, n)
           new == NewRows(db, t, rows, defaults, FALSE, n)
           s == S!InsertOne(db, t, key, fields, defaults, n)
           views == NewViews(db, t, rows, defaults, FALSE, n)
<1>1. /\ ToWrite(db, t, rows, FALSE) = {key} /\ ToCheck(db, t, rows, FALSE) = {key} /\ rows[key] = fields
      /\ DOMAIN rows = {key} /\ IsFiniteSet({key})
  BY FS_Singleton DEF ToCheck, ToWrite
<1>2. new = [k \in {key} |-> row]
  BY <1>1 DEF NewRows
<1>3. Accepted(db, t, rows, defaults, FALSE, n) <=> S!Valid(db, t, key, row)
  BY <1>1 DEF Accepted
<1>4. Written(db, t, new) = WithRow(db, t, key, row)
  <2>1. Over(new, db[t]) = Put(db[t], key, row)
    BY <1>2 DEF Put, Over
  <2> QED BY <2>1 DEF Written, WithRow
<1>5. WithRow(db, t, key, row)[t][key] = row
  BY DEF DbInv, DbType, Put, WithRow
<1>6. s = IF done.ok THEN [db |-> done.db, answer |-> <<"ok", done.db[t][key]>>]
          ELSE [db |-> db, answer |-> <<"integrity", None>>]
  BY SameHelpers DEF S!InsertOne
<1>7. done = IF S!Valid(db, t, key, row)
             THEN [ok |-> TRUE, db |-> WithRow(db, t, key, row),
                   keys |-> S!AtMostMaxRows(ToWrite(db, t, rows, FALSE))]
             ELSE [ok |-> FALSE, db |-> db, keys |-> {}]
  BY <1>3, <1>4, InsertIs
<1>8. /\ DbInv(done.db)
      /\ t \notin Derived \cup {"relationships"} => (Flat(db) => Flat(done.db))
      /\ S!Valid(db, t, key, row) => Seen(done.db) = Written(Seen(db), t, views)
  <2>1. \A k \in DOMAIN rows :
           /\ KeyFits(t, k) /\ Fits(t, rows[k])
           /\ k \notin DOMAIN db[t] => Fills(t, rows[k], defaults)
    BY <1>1
  <2>2. IsFiniteSet(DOMAIN rows)
    BY <1>1
  <2> HIDE DEF rows, row
  <2>3. DbInv(done.db)
    BY <2>1, <2>2, InsertKeeps
  <2>4. t \notin Derived \cup {"relationships"} => (Flat(db) => Flat(done.db))
    BY <2>1, <2>2, InsertKeeps
  <2>5. S!Valid(db, t, key, row) => Seen(done.db) = Written(Seen(db), t, views)
    <3>1. ASSUME Accepted(db, t, rows, defaults, FALSE, n)
          PROVE  Seen(S!Insert(db, t, rows, defaults, FALSE, n).db) =
                   Written(Seen(db), t, NewViews(db, t, rows, defaults, FALSE, n))
      BY <2>1, <2>2, <3>1, InsertKeeps
    <3> QED BY <1>3, <3>1
  <2> QED BY <2>3, <2>4, <2>5
<1>9. Over(views, Seen(db)[t]) = Put(Seen(db)[t], key, View(t, row))
  BY <1>1 DEF Over, Put, NewViews
<1> DEFINE after == WithRow(db, t, key, row)
<1> HIDE DEF done, row, views, after
<1>11. CASE S!Valid(db, t, key, row)
  <2>1. done.ok = TRUE /\ done.db = after
    BY <1>7, <1>11 DEF after
  <2>2. s = [db |-> after, answer |-> <<"ok", after[t][key]>>]
    BY <1>6, <2>1
  <2>3. after[t][key] = row
    BY <1>5 DEF after
  <2>4. s.db = after /\ s.answer = <<"ok", row>>
    BY <2>2, <2>3
  <2>5. Seen(after) = WithRow(Seen(db), t, key, View(t, row))
    BY <1>8, <1>9, <1>11, <2>1 DEF Written, WithRow
  <2> HIDE DEF s
  <2>6. /\ DbInv(s.db) /\ (t \notin Derived \cup {"relationships"} => (Flat(db) => Flat(s.db)))
        /\ s.db = after /\ s.answer = <<"ok", row>>
        /\ Seen(s.db) = WithRow(Seen(db), t, key, View(t, row))
    BY <1>8, <2>1, <2>4, <2>5
  <2> QED BY <1>11, <2>6 DEF s, after, row
<1>12. CASE ~S!Valid(db, t, key, row)
  <2>1. done.ok = FALSE
    BY <1>7, <1>12
  <2>2. s = [db |-> db, answer |-> <<"integrity", None>>]
    BY <1>6, <2>1
  <2>3. s.db = db /\ s.answer = <<"integrity", None>>
    BY <2>2
  <2> HIDE DEF s
  <2> QED BY <1>12, <2>3 DEF s, row
<1> QED BY <1>11, <1>12 DEF row

\* Both stores are left with the same rows, and gave the same answer.
Agrees(db, m, s) ==
  /\ DbInv(s.db) /\ (Flat(db) => Flat(s.db))
  /\ m.db = Seen(s.db) /\ m.answer = s.answer

LEMMA PutInv ==
  ASSUME NEW db, DbInv(db), NEW t \in Tables, NEW key, NEW row,
         RowType(t, key, row), S!Valid(db, t, key, row),
         key \in DOMAIN db[t] => row.id = db[t][key].id
  PROVE  LET after == WithRow(db, t, key, row)
         IN /\ DbInv(after) /\ (t \notin Derived \cup {"relationships"} => (Flat(db) => Flat(after)))
            /\ Seen(after) = WithRow(Seen(db), t, key, View(t, row))
<1> DEFINE new == [k \in {key} |-> row]
           views == [k \in DOMAIN new |-> View(t, new[k])]
<1>1. DOMAIN new = {key} /\ new[key] = row /\ IsFiniteSet({key})
  BY FS_Singleton
<1>2. Over(new, db[t]) = Put(db[t], key, row) /\ Over(views, Seen(db)[t]) = Put(Seen(db)[t], key, View(t, row))
  BY DEF Over, Put
<1>3. Written(db, t, new) = WithRow(db, t, key, row)
  BY <1>2 DEF Written, WithRow
<1>4. [Seen(db) EXCEPT ![t] = Over(views, @)] = WithRow(Seen(db), t, key, View(t, row))
  BY <1>2 DEF WithRow
<1>5. \A k \in DOMAIN new :
           /\ RowType(t, k, new[k]) /\ S!Valid(db, t, k, new[k])
           /\ k \in DOMAIN db[t] => new[k].id = db[t][k].id
  BY <1>1
<1>6. IsFiniteSet(DOMAIN new)
  BY <1>1
<1>7. /\ DbInv(Written(db, t, new))
      /\ t \notin Derived \cup {"relationships"} => (Flat(db) => Flat(Written(db, t, new)))
      /\ Seen(Written(db, t, new)) = [Seen(db) EXCEPT ![t] = Over(views, @)]
  <2> HIDE DEF new
  <2> QED BY <1>5, <1>6, WriteInv
<1> QED BY <1>3, <1>4, <1>7

LEMMA OnePatched ==
  ASSUME NEW db, DbInv(db), NEW t \in Tables, NEW key, NEW fields, NEW n \in Nat, Fits(t, fields)
  PROVE  LET row == Over(fields, Over(S!Stamp(t, n), db[t][key]))
             s == S!UpdateOne(db, t, key, fields, n)
         IN /\ DbInv(s.db) /\ (t \notin Derived \cup {"relationships"} => (Flat(db) => Flat(s.db)))
            /\ key \notin DOMAIN db[t] => s.db = db /\ s.answer = <<"not_found", None>>
            /\ key \in DOMAIN db[t] /\ S!Valid(db, t, key, row) =>
                 /\ s.db = WithRow(db, t, key, row) /\ s.answer = <<"ok", row>>
                 /\ Seen(s.db) = WithRow(Seen(db), t, key, View(t, row))
<1> DEFINE row == Over(fields, Over(S!Stamp(t, n), db[t][key]))
           s == S!UpdateOne(db, t, key, fields, n)
           after == WithRow(db, t, key, row)
<1>1. CASE key \notin DOMAIN db[t]
  <2>1. s = [db |-> db, answer |-> <<"not_found", None>>]
    BY <1>1, SameHelpers DEF S!UpdateOne
  <2>2. s.db = db /\ s.answer = <<"not_found", None>>
    BY <2>1
  <2> HIDE DEF s
  <2> QED BY <1>1, <2>2 DEF s
<1>2. CASE key \in DOMAIN db[t]
  <2>1. row = S!RowOf(db, t, key, fields, <<>>, n)
    BY <1>2, SameHelpers DEF S!RowOf
  <2>2. RowType(t, key, db[t][key])
    BY <1>2 DEF DbInv, DbType, TableType
  <2>3. KeyFits(t, key)
    BY <2>2 DEF KeyFits, RowType
  <2>4. RowType(t, key, row) /\ row.id = db[t][key].id
    <3>1. DbType(db) /\ Fits(t, <<>>)
      BY NothingFits DEF DbInv
    <3>2. /\ RowType(t, key, S!RowOf(db, t, key, fields, <<>>, n))
          /\ S!RowOf(db, t, key, fields, <<>>, n).id = db[t][key].id
      BY <1>2, <2>3, <3>1, RowOfType
    <3> QED BY <2>1, <3>2
  <2>5. s = IF ~S!Valid(db, t, key, row) THEN [db |-> db, answer |-> <<"integrity", None>>]
            ELSE [db |-> after, answer |-> <<"ok", row>>]
    BY <1>2, SameHelpers DEF S!UpdateOne, WithRow
  <2>6. CASE ~S!Valid(db, t, key, row)
    <3>1. s = [db |-> db, answer |-> <<"integrity", None>>]
      BY <2>5, <2>6
    <3>2. s.db = db
      BY <3>1
    <3> HIDE DEF s, row
    <3> QED BY <1>2, <2>6, <3>2 DEF s, row
  <2>7. CASE S!Valid(db, t, key, row)
    <3>1. s = [db |-> after, answer |-> <<"ok", row>>]
      BY <2>5, <2>7
    <3>2. s.db = after /\ s.answer = <<"ok", row>>
      BY <3>1
    <3>3. /\ DbInv(after) /\ (t \notin Derived \cup {"relationships"} => (Flat(db) => Flat(after)))
          /\ Seen(after) = WithRow(Seen(db), t, key, View(t, row))
      <4> HIDE DEF row
      <4> QED BY <2>4, <2>7, PutInv
    <3> HIDE DEF s, row
    <3> QED BY <1>2, <3>2, <3>3 DEF s, row
  <2> QED BY <2>6, <2>7
<1> QED BY <1>1, <1>2

\* What the in-memory store does with a row, over what is seen of a database.
LEMMA StoredIs ==
  ASSUME NEW db, DbInv(db), NEW t \in Tables, NEW key, NEW fields, NEW n
  PROVE  M!StoredAs(Seen(db), t, key, fields, n) =
           IF key \in DOMAIN db[t] THEN Over(fields, View(t, db[t][key]))
           ELSE Over(fields, [id |-> <<t, key, n>>, createdAt |-> n])
<1>1. DOMAIN Seen(db)[t] = DOMAIN db[t] /\ \A k \in DOMAIN db[t] : Seen(db)[t][k] = View(t, db[t][k])
  BY SeenIs DEF DbInv
<1> QED BY <1>1, SameHelpers DEF M!StoredAs

LEMMA MemoryInsert ==
  ASSUME NEW db, NEW t, NEW key, NEW fields, NEW n
  PROVE  M!UpsertOne(db, t, key, fields, n) =
           [db |-> WithRow(db, t, key, M!StoredAs(db, t, key, fields, n)),
            answer |-> <<"ok", M!StoredAs(db, t, key, fields, n)>>]
BY SameHelpers DEF M!UpsertOne, WithRow

LEMMA MemoryPatch ==
  ASSUME NEW db, DbInv(db), NEW t \in Tables, NEW key, NEW fields
  PROVE  M!PatchOne(Seen(db), t, key, fields) =
              IF key \in DOMAIN db[t]
              THEN [db |-> WithRow(Seen(db), t, key, Over(fields, View(t, db[t][key]))),
                    answer |-> <<"ok", Over(fields, View(t, db[t][key]))>>]
              ELSE [db |-> Seen(db), answer |-> <<"not_found", None>>]
<1>1. DOMAIN Seen(db)[t] = DOMAIN db[t] /\ \A k \in DOMAIN db[t] : Seen(db)[t][k] = View(t, db[t][k])
  BY SeenIs DEF DbInv
<1>2. CASE key \in DOMAIN db[t]
  BY <1>1, <1>2, SameHelpers DEF M!PatchOne, WithRow
<1>3. CASE key \notin DOMAIN db[t]
  BY <1>1, <1>3, SameHelpers DEF M!PatchOne
<1> QED BY <1>2, <1>3

\* A row the two stores write alike.
LEMMA SameInsert ==
  ASSUME NEW db, DbInv(db), NEW t \in Tables \ (Derived \cup {"relationships"}),
         NEW key, NEW fields, NEW defaults, NEW given, NEW n \in Nat,
         Fits(t, fields), Fits(t, defaults), KeyFits(t, key),
         key \notin DOMAIN db[t] => Fills(t, fields, defaults),
         S!Valid(db, t, key, S!RowOf(db, t, key, fields, defaults, n)),
         View(t, S!RowOf(db, t, key, fields, defaults, n)) = M!StoredAs(Seen(db), t, key, given, n)
  PROVE  LET m == M!UpsertOne(Seen(db), t, key, given, n)
             s == S!InsertOne(db, t, key, fields, defaults, n)
         IN /\ DbInv(s.db) /\ (Flat(db) => Flat(s.db)) /\ m.db = Seen(s.db)
            /\ s.answer = <<"ok", S!RowOf(db, t, key, fields, defaults, n)>>
            /\ m.answer = <<"ok", View(t, S!RowOf(db, t, key, fields, defaults, n))>>
<1> DEFINE row == S!RowOf(db, t, key, fields, defaults, n)
           m == M!UpsertOne(Seen(db), t, key, given, n)
           s == S!InsertOne(db, t, key, fields, defaults, n)
<1>1. /\ DbInv(s.db) /\ (Flat(db) => Flat(s.db)) /\ s.answer = <<"ok", row>>
      /\ Seen(s.db) = WithRow(Seen(db), t, key, View(t, row))
  BY OneInserted
<1>2. m = [db |-> WithRow(Seen(db), t, key, View(t, row)), answer |-> <<"ok", View(t, row)>>]
  <2> HIDE DEF row
  <2>1. View(t, row) = M!StoredAs(Seen(db), t, key, given, n)
    BY DEF row
  <2>2. m = [db |-> WithRow(Seen(db), t, key, M!StoredAs(Seen(db), t, key, given, n)),
             answer |-> <<"ok", M!StoredAs(Seen(db), t, key, given, n)>>]
    BY MemoryInsert
  <2> QED BY <2>1, <2>2
<1> HIDE DEF s, m
<1> QED BY <1>1, <1>2 DEF s, m

LEMMA SamePatch ==
  ASSUME NEW db, DbInv(db), NEW t \in Tables \ (Derived \cup {"relationships"}),
         NEW key, NEW fields, NEW given, NEW n \in Nat, Fits(t, fields),
         key \in DOMAIN db[t] =>
           /\ S!Valid(db, t, key, Over(fields, Over(S!Stamp(t, n), db[t][key])))
           /\ View(t, Over(fields, Over(S!Stamp(t, n), db[t][key]))) = Over(given, View(t, db[t][key]))
  PROVE  LET m == M!PatchOne(Seen(db), t, key, given)
             s == S!UpdateOne(db, t, key, fields, n)
             row == Over(fields, Over(S!Stamp(t, n), db[t][key]))
         IN /\ DbInv(s.db) /\ (Flat(db) => Flat(s.db)) /\ m.db = Seen(s.db)
            /\ key \in DOMAIN db[t] => s.answer = <<"ok", row>> /\ m.answer = <<"ok", View(t, row)>>
            /\ key \notin DOMAIN db[t] => s.answer = <<"not_found", None>> /\ m.answer = s.answer
<1> DEFINE row == Over(fields, Over(S!Stamp(t, n), db[t][key]))
           m == M!PatchOne(Seen(db), t, key, given)
           s == S!UpdateOne(db, t, key, fields, n)
<1>1. DbInv(s.db) /\ (Flat(db) => Flat(s.db))
  BY OnePatched
<1>2. CASE key \in DOMAIN db[t]
  <2>1. /\ s.answer = <<"ok", row>>
        /\ Seen(s.db) = WithRow(Seen(db), t, key, View(t, row))
    BY <1>2, OnePatched
  <2>2. m = [db |-> WithRow(Seen(db), t, key, View(t, row)), answer |-> <<"ok", View(t, row)>>]
    BY <1>2, MemoryPatch
  <2> HIDE DEF s, m, row
  <2> QED BY <1>1, <1>2, <2>1, <2>2 DEF s, m, row
<1>3. CASE key \notin DOMAIN db[t]
  <2>1. s.db = db /\ s.answer = <<"not_found", None>>
    BY <1>3, OnePatched
  <2>2. m = [db |-> Seen(db), answer |-> <<"not_found", None>>]
    BY <1>3, MemoryPatch
  <2> HIDE DEF s, m, row
  <2> QED BY <1>1, <1>3, <2>1, <2>2 DEF s, m, row
<1> QED BY <1>2, <1>3

\* Tables that are read as they are stored.
Plain == {"people", "person_identities", "threads", "documents", "connector_accounts", "devices",
          "ingest_items", "action_requests"}

LEMMA PlainView ==
  ASSUME NEW t \in Plain
  PROVE  /\ t \in Tables \ (Derived \cup {"relationships"}) /\ t \in Tables
         /\ \A row : View(t, row) = row
BY DEF Plain, Tables, Derived, View

LEMMA PlainInsert ==
  ASSUME NEW db, DbInv(db), NEW t \in Plain, NEW key, NEW fields, NEW given, NEW n \in Nat,
         Fits(t, fields), Fills(t, fields, <<>>), KeyFits(t, key), given = Over(fields, S!Stamp(t, n)),
         S!Valid(db, t, key, S!RowOf(db, t, key, fields, <<>>, n))
  PROVE  Agrees(db, M!UpsertOne(Seen(db), t, key, given, n), S!InsertOne(db, t, key, fields, <<>>, n))
<1> DEFINE row == S!RowOf(db, t, key, fields, <<>>, n)
           stamp == S!Stamp(t, n)
<1>1. t \in Tables \ (Derived \cup {"relationships"}) /\ t \in Tables /\ View(t, row) = row /\ Fits(t, <<>>)
  BY PlainView, NothingFits
<1>2. row = M!StoredAs(Seen(db), t, key, given, n)
  <2>1. CASE key \in DOMAIN db[t]
    <3>1. row = Over(fields, Over(stamp, db[t][key]))
      BY <2>1, SameHelpers DEF S!RowOf
    <3>2. M!StoredAs(Seen(db), t, key, given, n) = Over(Over(fields, stamp), db[t][key])
      <4>1. M!StoredAs(Seen(db), t, key, given, n) = Over(given, View(t, db[t][key]))
        BY <1>1, <2>1, StoredIs
      <4>2. View(t, db[t][key]) = db[t][key]
        BY PlainView
      <4> QED BY <4>1, <4>2
    <3>3. Over(fields, Over(stamp, db[t][key])) = Over(Over(fields, stamp), db[t][key])
      BY DEF Over
    <3> QED BY <3>1, <3>2, <3>3
  <2>2. CASE key \notin DOMAIN db[t]
    <3> DEFINE born == [id |-> <<t, key, n>>, createdAt |-> n]
    <3>1. row = Over(fields, Over(<<>>, Over(stamp, born)))
      BY <2>2, SameHelpers DEF S!RowOf
    <3>2. M!StoredAs(Seen(db), t, key, given, n) = Over(Over(fields, stamp), born)
      BY <1>1, <2>2, StoredIs
    <3>3. Over(fields, Over(<<>>, Over(stamp, born))) = Over(Over(fields, stamp), born)
      <4> HIDE DEF born, stamp
      <4>1. Over(<<>>, Over(stamp, born)) = Over(stamp, born)
        BY DEF Over
      <4> QED BY <4>1 DEF Over
    <3> QED BY <3>1, <3>2, <3>3
  <2> QED BY <2>1, <2>2
<1>3. LET m == M!UpsertOne(Seen(db), t, key, given, n)
          s == S!InsertOne(db, t, key, fields, <<>>, n)
      IN /\ DbInv(s.db) /\ (Flat(db) => Flat(s.db)) /\ m.db = Seen(s.db)
         /\ s.answer = <<"ok", row>> /\ m.answer = <<"ok", View(t, row)>>
  BY <1>1, <1>2, SameInsert
<1> QED BY <1>1, <1>3 DEF Agrees

LEMMA PlainPatch ==
  ASSUME NEW db, DbInv(db), NEW t \in Plain, NEW key, NEW fields, NEW given, NEW n \in Nat,
         Fits(t, fields), given = Over(fields, S!Stamp(t, n)),
         key \in DOMAIN db[t] => S!Valid(db, t, key, Over(fields, Over(S!Stamp(t, n), db[t][key])))
  PROVE  Agrees(db, M!PatchOne(Seen(db), t, key, given), S!UpdateOne(db, t, key, fields, n))
<1> DEFINE stamp == S!Stamp(t, n)
           row == Over(fields, Over(stamp, db[t][key]))
<1>1. /\ t \in Tables \ (Derived \cup {"relationships"}) /\ t \in Tables /\ View(t, row) = row
      /\ View(t, db[t][key]) = db[t][key]
  BY PlainView
<1>2. row = Over(given, db[t][key])
  BY DEF Over
<1>3. LET m == M!PatchOne(Seen(db), t, key, given)
          s == S!UpdateOne(db, t, key, fields, n)
      IN /\ DbInv(s.db) /\ (Flat(db) => Flat(s.db)) /\ m.db = Seen(s.db)
         /\ key \in DOMAIN db[t] => s.answer = <<"ok", row>> /\ m.answer = <<"ok", View(t, row)>>
         /\ key \notin DOMAIN db[t] => s.answer = <<"not_found", None>> /\ m.answer = s.answer
  <2>1. key \in DOMAIN db[t] =>
           /\ S!Valid(db, t, key, Over(fields, Over(S!Stamp(t, n), db[t][key])))
           /\ View(t, Over(fields, Over(S!Stamp(t, n), db[t][key]))) = Over(given, View(t, db[t][key]))
    BY <1>1, <1>2
  <2> QED BY <1>1, <2>1, SamePatch
<1> QED BY <1>1, <1>3 DEF Agrees

\* Nothing is written, and both say why.
LEMMA NothingDone ==
  ASSUME NEW db, DbInv(db), NEW answer
  PROVE  Agrees(db, [db |-> Seen(db), answer |-> answer], [db |-> db, answer |-> answer])
BY DEF Agrees

-----------------------------------------------------------------------------
(***************************************************************************)
(* People, threads and documents.                                          *)
(***************************************************************************)
LEMMA RefersKept ==
  ASSUME NEW db, NEW t, NEW id, id = None \/ id \in RowIds(db[t])
  PROVE  S!Refers(db, t, id)
BY SameHelpers DEF S!Refers

\* The fields a patch defines are the patch.
LEMMA DefinedIs ==
  ASSUME NEW patch, NEW columns, DOMAIN patch \subseteq columns
  PROVE  /\ S!Defined(patch, columns) = [c \in DOMAIN patch |-> patch[c]]
         /\ DOMAIN S!Defined(patch, columns) = DOMAIN patch
<1>1. DOMAIN patch \cap columns = DOMAIN patch
  OBVIOUS
<1> QED BY <1>1 DEF S!Defined, S!Restrict

LEMMA UpsertPersonAgrees ==
  ASSUME NEW db, DbInv(db), NEW id, NEW n \in Nat,
         NEW p \in [displayName : {1, 2}] \cup [displayName : {1}, mergedIntoId : RowIds(db.people)]
  PROVE  Agrees(db, M!UpsertPerson(Seen(db), id, p, n), S!UpsertPerson(db, id, p, n))
<1> DEFINE t == "people"
           fields == S!PersonToRow(p)
           given == [displayName |-> p.displayName, updatedAt |-> n,
                     mergedIntoId |-> IF "mergedIntoId" \in DOMAIN p THEN p.mergedIntoId ELSE None]
           row == S!RowOf(db, t, id, fields, <<>>, n)
<1>1. fields = [displayName |-> p.displayName,
                mergedIntoId |-> IF "mergedIntoId" \in DOMAIN p THEN p.mergedIntoId ELSE None]
  BY DEF S!PersonToRow
<1>2. t \in Plain /\ t \in Tables /\ S!Stamp(t, n) = [updatedAt |-> n]
  BY StampIs DEF Plain, S!Stamp, S!Updatable, Tables
<1>3. Fits(t, fields) /\ Fills(t, fields, <<>>) /\ KeyFits(t, id)
  BY <1>1, ColumnsOf DEF Fits, Fills, KeyFits
<1>4. given = Over(fields, S!Stamp(t, n))
  BY <1>1, <1>2 DEF Over
<1>5. S!Valid(db, t, id, row)
  <2>1. row.mergedIntoId = fields.mergedIntoId
    BY <1>1, SameHelpers DEF S!RowOf, Over
  <2>2. fields.mergedIntoId = None \/ fields.mergedIntoId \in RowIds(db.people)
    BY <1>1
  <2> QED BY <2>1, <2>2, RefersKept DEF S!Valid
<1> HIDE DEF fields, given
<1>6. Agrees(db, M!UpsertOne(Seen(db), t, id, given, n), S!InsertOne(db, t, id, fields, <<>>, n))
  BY <1>2, <1>3, <1>4, <1>5, PlainInsert
<1> QED BY <1>6 DEF M!UpsertPerson, S!UpsertPerson, fields, given

LEMMA UpdatePersonAgrees ==
  ASSUME NEW db, DbInv(db), NEW id, NEW n \in Nat,
         NEW patch \in [displayName : {3}] \cup [mergedIntoId : {None} \cup RowIds(db.people)]
  PROVE  Agrees(db, M!UpdatePerson(Seen(db), id, patch, n), S!UpdatePerson(db, id, patch, n))
<1> DEFINE t == "people"
           fields == S!PersonPatchToRow(patch)
           given == Over(patch, [updatedAt |-> n])
           row == Over(fields, Over(S!Stamp(t, n), db[t][id]))
<1>1. fields = [c \in DOMAIN patch |-> patch[c]]
      /\ DOMAIN patch \subseteq {"displayName", "mergedIntoId"} /\ DOMAIN fields = DOMAIN patch
  <2>1. DOMAIN patch \subseteq {"displayName", "mergedIntoId"}
    OBVIOUS
  <2> QED BY <2>1, DefinedIs DEF S!PersonPatchToRow
<1>2. t \in Plain /\ t \in Tables /\ S!Stamp(t, n) = [updatedAt |-> n]
  BY StampIs DEF Plain, S!Stamp, S!Updatable, Tables
<1>3. Fits(t, fields)
  BY <1>1, ColumnsOf DEF Fits
<1>4. given = Over(fields, S!Stamp(t, n))
  BY <1>1, <1>2 DEF Over
<1>5. ASSUME id \in DOMAIN db[t] PROVE S!Valid(db, t, id, row)
  <2>1. S!Valid(db, t, id, db[t][id])
    BY <1>2, <1>5 DEF DbInv, AllValid
  <2>2. RowType(t, id, db[t][id])
    BY <1>2, <1>5 DEF DbInv, DbType, TableType
  <2>3. row["mergedIntoId"] = IF "mergedIntoId" \in DOMAIN patch THEN patch["mergedIntoId"]
                              ELSE db[t][id]["mergedIntoId"]
    BY <1>1, <1>2, <2>2, ColumnsOf DEF Over, RowType
  <2>4. S!Refers(db, "people", row["mergedIntoId"])
    BY <1>1, <2>1, <2>3, RefersKept DEF S!Valid
  <2> QED BY <2>4 DEF S!Valid
<1> HIDE DEF fields, given, row
<1>6. Agrees(db, M!PatchOne(Seen(db), t, id, given), S!UpdateOne(db, t, id, fields, n))
  BY <1>2, <1>3, <1>4, <1>5, PlainPatch DEF row
<1> QED BY <1>6, SameHelpers DEF M!UpdatePerson, S!UpdatePerson, fields, given

\* on conflict do nothing: the row that is there is the answer.
LEMMA UpsertPersonIdentityAgrees ==
  ASSUME NEW db, DbInv(db), NEW value, NEW person, NEW n \in Nat
  PROVE  Agrees(db, M!UpsertPersonIdentity(Seen(db), value, [personId |-> person], n),
                    S!UpsertPersonIdentity(db, value, [personId |-> person], n))
<1> DEFINE t == "person_identities"
           fields == [personId |-> person]
           rows == [k \in {value} |-> fields]
           done == S!Insert(db, t, rows, <<>>, TRUE, n)
           m == M!UpsertPersonIdentity(Seen(db), value, fields, n)
           s == S!UpsertPersonIdentity(db, value, fields, n)
           row == S!RowOf(db, t, value, fields, <<>>, n)
<1>1. /\ t \in Plain /\ t \in Tables /\ S!Stamp(t, n) = <<>> /\ "people" \in Tables
      /\ t \in Tables \ (Derived \cup {"relationships"})
  BY StampIs, PlainView DEF Plain, S!Stamp, S!Updatable, Tables
<1>2. DOMAIN Seen(db)[t] = DOMAIN db[t] /\ DOMAIN Seen(db).people = DOMAIN db.people
      /\ \A k \in DOMAIN db[t] : Seen(db)[t][k] = db[t][k]
  <2>1. DbType(db)
    BY DEF DbInv
  <2>2. Seen(db) = [u \in Tables |-> [k \in DOMAIN db[u] |-> View(u, db[u][k])]]
    BY <2>1, SeenIs
  <2> QED BY <1>1, <2>2, PlainView
<1>3. s = IF ~done.ok THEN [db |-> db, answer |-> <<"integrity", None>>]
          ELSE [db |-> done.db, answer |-> <<"ok", done.db.person_identities[value]>>]
  BY SameHelpers DEF S!UpsertPersonIdentity, S!PersonIdentityToRow
<1>4. m = IF value \in DOMAIN db[t] THEN [db |-> Seen(db), answer |-> <<"ok", db[t][value]>>]
          ELSE IF person \notin DOMAIN db.people THEN [db |-> Seen(db), answer |-> <<"integrity", None>>]
          ELSE M!UpsertOne(Seen(db), t, value, fields, n)
  BY <1>2, SameHelpers DEF M!UpsertPersonIdentity
<1>5. CASE value \in DOMAIN db[t]
  <2>1. ToWrite(db, t, rows, TRUE) = {} /\ ToCheck(db, t, rows, TRUE) = {}
    BY <1>5 DEF ToCheck, ToWrite
  <2>2. Accepted(db, t, rows, <<>>, TRUE, n)
    BY <2>1 DEF Accepted
  <2>3. Written(db, t, NewRows(db, t, rows, <<>>, TRUE, n)) = db
    <3>1. db[t] = [k \in DOMAIN db[t] |-> db[t][k]] /\ db = [u \in Tables |-> db[u]]
      BY <1>1 DEF DbInv, DbType, TableType
    <3>2. Over(NewRows(db, t, rows, <<>>, TRUE, n), db[t]) = db[t]
      BY <2>1, <3>1 DEF NewRows, Over
    <3> QED BY <1>1, <3>1, <3>2 DEF Written
  <2>4. done.ok = TRUE /\ done.db = db
    BY <2>2, <2>3, InsertIs
  <2>5. s = [db |-> db, answer |-> <<"ok", db[t][value]>>]
    BY <1>3, <2>4
  <2>6. m = [db |-> Seen(db), answer |-> <<"ok", db[t][value]>>]
    BY <1>4, <1>5
  <2> QED BY <2>5, <2>6, NothingDone
<1>6. CASE value \notin DOMAIN db[t]
  <2>1. /\ Fits(t, fields) /\ Fills(t, fields, <<>>) /\ KeyFits(t, value)
        /\ fields = Over(fields, S!Stamp(t, n))
    BY <1>1, ColumnsOf DEF Fits, Fills, KeyFits, Over
  <2>2. S!Valid(db, t, value, row) <=> person \in DOMAIN db.people
    <3>1. row.personId = person
      BY SameHelpers DEF S!RowOf, Over
    <3> QED BY <3>1 DEF S!Valid
  <2>3. /\ ToWrite(db, t, rows, TRUE) = {value} /\ ToCheck(db, t, rows, TRUE) = {value}
        /\ ToWrite(db, t, rows, FALSE) = {value} /\ ToCheck(db, t, rows, FALSE) = {value}
    BY <1>6 DEF ToCheck, ToWrite
  <2>4. /\ Accepted(db, t, rows, <<>>, TRUE, n) <=> S!Valid(db, t, value, row)
        /\ Accepted(db, t, rows, <<>>, FALSE, n) <=> S!Valid(db, t, value, row)
    BY <2>3 DEF Accepted
  <2>5. NewRows(db, t, rows, <<>>, TRUE, n) = NewRows(db, t, rows, <<>>, FALSE, n)
    BY <2>3 DEF NewRows
  <2>6. s = S!InsertOne(db, t, value, fields, <<>>, n)
    <3> DEFINE other == S!Insert(db, t, rows, <<>>, FALSE, n)
    <3>1. done.ok = other.ok /\ done.db = other.db
      BY <2>4, <2>5, InsertIs
    <3>2. S!InsertOne(db, t, value, fields, <<>>, n) =
            IF other.ok THEN [db |-> other.db, answer |-> <<"ok", other.db[t][value]>>]
            ELSE [db |-> db, answer |-> <<"integrity", None>>]
      BY SameHelpers DEF S!InsertOne
    <3> HIDE DEF done, other
    <3> QED BY <1>3, <3>1, <3>2
  <2>7. CASE person \in DOMAIN db.people
    <3>1. Agrees(db, M!UpsertOne(Seen(db), t, value, fields, n), S!InsertOne(db, t, value, fields, <<>>, n))
      <4> HIDE DEF fields
      <4> QED BY <1>1, <2>1, <2>2, <2>7, PlainInsert
    <3> QED BY <1>4, <1>6, <2>6, <2>7, <3>1
  <2>8. CASE person \notin DOMAIN db.people
    <3>1. done.ok = FALSE
      BY <2>2, <2>4, <2>8, InsertIs
    <3>2. s = [db |-> db, answer |-> <<"integrity", None>>]
      BY <1>3, <3>1
    <3>3. m = [db |-> Seen(db), answer |-> <<"integrity", None>>]
      BY <1>4, <1>6, <2>8
    <3> QED BY <3>2, <3>3, NothingDone
  <2> QED BY <2>7, <2>8
<1> QED BY <1>5, <1>6

\* Tables whose rows depend on no other.
Free == {"threads", "documents", "connector_accounts", "devices", "action_requests"}

LEMMA FreeValid ==
  ASSUME NEW t \in Free
  PROVE  t \in Plain /\ t \in Tables /\ \A db, key, row : S!Valid(db, t, key, row)
BY DEF Free, Plain, Tables, S!Valid

\* A patch of fields of the table, and the time of the update.
LEMMA PatchAgrees ==
  ASSUME NEW db, DbInv(db), NEW t \in Plain, t \in S!Updatable, NEW key, NEW patch, NEW columns, NEW n \in Nat,
         DOMAIN patch \subseteq columns, Fits(t, patch), t \in Free
  PROVE  Agrees(db, M!PatchOne(Seen(db), t, key, Over(patch, [updatedAt |-> n])),
                    S!UpdateOne(db, t, key, S!Defined(patch, columns), n))
<1> DEFINE fields == S!Defined(patch, columns)
           given == Over(patch, [updatedAt |-> n])
<1>1. fields = [c \in DOMAIN patch |-> patch[c]] /\ DOMAIN fields = DOMAIN patch
  BY DefinedIs
<1>2. S!Stamp(t, n) = [updatedAt |-> n]
  BY DEF S!Stamp
<1>3. Fits(t, fields)
  BY <1>1 DEF Fits
<1>4. given = Over(fields, S!Stamp(t, n))
  BY <1>1, <1>2 DEF Over
<1>5. \A row : S!Valid(db, t, key, row)
  BY FreeValid
<1> HIDE DEF fields, given
<1>6. Agrees(db, M!PatchOne(Seen(db), t, key, given), S!UpdateOne(db, t, key, fields, n))
  BY <1>3, <1>4, <1>5, PlainPatch
<1> QED BY <1>6 DEF fields, given

LEMMA InsertAgrees ==
  ASSUME NEW db, DbInv(db), NEW t \in Free, t \in S!Updatable, NEW key, NEW given, NEW fields, NEW n \in Nat,
         given = [c \in DOMAIN fields |-> fields[c]], KeyFits(t, key),
         Fits(t, fields), Fills(t, fields, <<>>)
  PROVE  Agrees(db, M!UpsertOne(Seen(db), t, key, Over(given, [updatedAt |-> n]), n),
                    S!InsertOne(db, t, key, fields, <<>>, n))
<1>1. S!Stamp(t, n) = [updatedAt |-> n]
  BY DEF S!Stamp
<1>2. Over(given, [updatedAt |-> n]) = Over(fields, S!Stamp(t, n))
  BY <1>1 DEF Over
<1>3. t \in Plain /\ \A row : S!Valid(db, t, key, row)
  BY FreeValid
<1> QED BY <1>2, <1>3, PlainInsert

LEMMA CreateThreadAgrees ==
  ASSUME NEW db, DbInv(db), NEW id \in Object, NEW n \in Nat,
         NEW th \in [title : {1}, status : {"active", "archived"}]
  PROVE  Agrees(db, M!CreateThread(Seen(db), id, th, n), S!CreateThread(db, id, th, n))
<1> DEFINE fields == S!ThreadToRow(th)
<1>1. /\ th = [c \in DOMAIN fields |-> fields[c]] /\ KeyFits("threads", id)
      /\ Fits("threads", fields) /\ Fills("threads", fields, <<>>)
  BY ColumnsOf DEF Fits, Fills, KeyFits, S!ThreadToRow
<1>2. "threads" \in Free /\ "threads" \in S!Updatable
  BY DEF Free, S!Updatable
<1> HIDE DEF fields
<1>3. Agrees(db, M!UpsertOne(Seen(db), "threads", id, Over(th, [updatedAt |-> n]), n),
                 S!InsertOne(db, "threads", id, fields, <<>>, n))
  BY <1>1, <1>2, InsertAgrees
<1> QED BY <1>3, SameHelpers DEF M!CreateThread, S!CreateThread, fields

LEMMA UpdateThreadAgrees ==
  ASSUME NEW db, DbInv(db), NEW id, NEW n \in Nat,
         NEW patch \in [title : {2}] \cup [status : {"archived"}]
  PROVE  Agrees(db, M!UpdateThread(Seen(db), id, patch, n), S!UpdateThread(db, id, patch, n))
<1>1. DOMAIN patch \subseteq {"title", "status"}
  OBVIOUS
<1>2. Fits("threads", patch) /\ "threads" \in Free /\ "threads" \in Plain /\ "threads" \in S!Updatable
  BY <1>1, ColumnsOf DEF Fits, Free, Plain, S!Updatable
<1>3. Agrees(db, M!PatchOne(Seen(db), "threads", id, Over(patch, [updatedAt |-> n])),
                 S!UpdateOne(db, "threads", id, S!Defined(patch, {"title", "status"}), n))
  BY <1>1, <1>2, PatchAgrees
<1> QED BY <1>3, SameHelpers DEF M!UpdateThread, S!UpdateThread, S!ThreadPatchToRow

LEMMA UpsertDocumentAgrees ==
  ASSUME NEW db, DbInv(db), NEW id, NEW n \in Nat, NEW d,
         d = [title |-> d.title, sourceRef |-> d.sourceRef, contentHash |-> d.contentHash]
  PROVE  Agrees(db, M!UpsertDocument(Seen(db), id, d, n), S!UpsertDocument(db, id, d, n))
<1> DEFINE fields == S!DocumentToRow(d)
<1>1. fields = d
  BY DEF S!DocumentToRow
<1>2. DOMAIN d = {"title", "sourceRef", "contentHash"} /\ d = [c \in DOMAIN d |-> d[c]]
  OBVIOUS
<1>3. /\ d = [c \in DOMAIN fields |-> fields[c]] /\ KeyFits("documents", id)
      /\ Fits("documents", fields) /\ Fills("documents", fields, <<>>)
  BY <1>1, <1>2, ColumnsOf DEF Fits, Fills, KeyFits
<1>4. "documents" \in Free /\ "documents" \in S!Updatable
  BY DEF Free, S!Updatable
<1> HIDE DEF fields
<1>5. Agrees(db, M!UpsertOne(Seen(db), "documents", id, Over(d, [updatedAt |-> n]), n),
                 S!InsertOne(db, "documents", id, fields, <<>>, n))
  BY <1>3, <1>4, InsertAgrees
<1> QED BY <1>5, SameHelpers DEF M!UpsertDocument, S!UpsertDocument, fields

LEMMA UpdateDocumentAgrees ==
  ASSUME NEW db, DbInv(db), NEW id, NEW n \in Nat,
         NEW patch \in [contentHash : {2}] \cup [sourceRef : SourceRefs]
  PROVE  Agrees(db, M!UpdateDocument(Seen(db), id, patch, n), S!UpdateDocument(db, id, patch, n))
<1>1. DOMAIN patch \subseteq {"title", "sourceRef", "contentHash"}
  OBVIOUS
<1>2. Fits("documents", patch) /\ "documents" \in Free /\ "documents" \in Plain /\ "documents" \in S!Updatable
  BY <1>1, ColumnsOf DEF Fits, Free, Plain, S!Updatable
<1>3. Agrees(db, M!PatchOne(Seen(db), "documents", id, Over(patch, [updatedAt |-> n])),
                 S!UpdateOne(db, "documents", id, S!Defined(patch, {"title", "sourceRef", "contentHash"}), n))
  BY <1>1, <1>2, PatchAgrees
<1> QED BY <1>3, SameHelpers DEF M!UpdateDocument, S!UpdateDocument, S!DocumentPatchToRow

(***************************************************************************)
(* Accounts and jobs.                                                      *)
(***************************************************************************)
LEMMA CreateConnectorAccountAgrees ==
  ASSUME NEW db, DbInv(db), NEW key, NEW n \in Nat
  PROVE  LET a == [status |-> "active", credentialRef |-> 1]
         IN Agrees(db, M!CreateConnectorAccount(Seen(db), key, a, n),
                       S!CreateConnectorAccount(db, key, a, n))
<1> DEFINE t == "connector_accounts"
           a == [status |-> "active", credentialRef |-> 1]
           fields == S!ConnectorAccountToRow(a)
<1>1. /\ a = [c \in DOMAIN fields |-> fields[c]] /\ KeyFits(t, key)
      /\ Fits(t, fields) /\ Fills(t, fields, <<>>)
  BY ColumnsOf DEF Fits, Fills, KeyFits, S!ConnectorAccountToRow
<1>2. t \in Free /\ t \in S!Updatable /\ t \in Tables
  BY DEF Free, S!Updatable, Tables
<1>3. DOMAIN Seen(db)[t] = DOMAIN db[t]
  BY <1>2, SeenIds DEF DbInv
<1> HIDE DEF fields, a
<1>4. Agrees(db, M!UpsertOne(Seen(db), t, key, Over(a, [updatedAt |-> n]), n),
                 S!InsertOne(db, t, key, fields, <<>>, n))
  BY <1>1, <1>2, InsertAgrees
<1>5. CASE key \in DOMAIN db[t]
  <2>1. M!CreateConnectorAccount(Seen(db), key, a, n) = [db |-> Seen(db), answer |-> <<"integrity", None>>]
    BY <1>3, <1>5, SameHelpers DEF M!CreateConnectorAccount
  <2>2. S!CreateConnectorAccount(db, key, a, n) = [db |-> db, answer |-> <<"integrity", None>>]
    BY <1>5, SameHelpers DEF S!CreateConnectorAccount
  <2> QED BY <2>1, <2>2, NothingDone DEF a
<1>6. CASE key \notin DOMAIN db[t]
  BY <1>3, <1>4, <1>6, SameHelpers DEF M!CreateConnectorAccount, S!CreateConnectorAccount, fields, a
<1> QED BY <1>5, <1>6

LEMMA UpdateConnectorAccountAgrees ==
  ASSUME NEW db, DbInv(db), NEW key, NEW n \in Nat,
         NEW patch \in [status : {"needs_reauth"}] \cup [credentialRef : {None, 2}]
  PROVE  Agrees(db, M!UpdateConnectorAccount(Seen(db), key, patch, n),
                    S!UpdateConnectorAccount(db, key, patch, n))
<1> DEFINE t == "connector_accounts"
<1>1. DOMAIN patch \subseteq {"status", "credentialRef"}
  OBVIOUS
<1>2. Fits(t, patch) /\ t \in Free /\ t \in Plain /\ t \in S!Updatable
  BY <1>1, ColumnsOf DEF Fits, Free, Plain, S!Updatable
<1>3. Agrees(db, M!PatchOne(Seen(db), t, key, Over(patch, [updatedAt |-> n])),
                 S!UpdateOne(db, t, key, S!Defined(patch, {"status", "credentialRef"}), n))
  BY <1>1, <1>2, PatchAgrees
<1> QED BY <1>3, SameHelpers DEF M!UpdateConnectorAccount, S!UpdateConnectorAccount, S!ConnectorAccountPatchToRow

LEMMA UpsertDeviceAgrees ==
  ASSUME NEW db, DbInv(db), NEW id, NEW n \in Nat
  PROVE  Agrees(db, M!UpsertDevice(Seen(db), id, [name |-> 1], n), S!UpsertDevice(db, id, [name |-> 1], n))
<1> DEFINE t == "devices"
           d == [name |-> 1]
<1>1. Fits(t, d) /\ Fills(t, d, <<>>) /\ KeyFits(t, id)
  BY ColumnsOf DEF Fits, Fills, KeyFits
<1>2. /\ t \in Plain /\ S!Stamp(t, n) = <<>>
      /\ \A row : S!Valid(db, t, id, row)
  BY FreeValid DEF Free, S!Stamp, S!Updatable
<1>3. d = Over(d, S!Stamp(t, n)) /\ S!DeviceToRow(d) = d
  BY <1>2 DEF Over, S!DeviceToRow
<1> HIDE DEF d
<1>4. Agrees(db, M!UpsertOne(Seen(db), t, id, d, n), S!InsertOne(db, t, id, d, <<>>, n))
  BY <1>1, <1>2, <1>3, PlainInsert
<1> QED BY <1>3, <1>4 DEF M!UpsertDevice, S!UpsertDevice, d

LEMMA UpdateDeviceAgrees ==
  ASSUME NEW db, DbInv(db), NEW id
  PROVE  Agrees(db, M!UpdateDevice(Seen(db), id, [name |-> 2]), S!UpdateDevice(db, id, [name |-> 2]))
<1> DEFINE t == "devices"
           patch == [name |-> 2]
           fields == S!Defined(patch, {"name"})
<1>1. DOMAIN patch = {"name"} /\ fields = patch
  BY DEF S!Defined, S!Restrict
<1>2. Fits(t, fields)
  BY <1>1, ColumnsOf DEF Fits
<1>3. t \in Plain /\ S!Stamp(t, 0) = <<>> /\ \A row : S!Valid(db, t, id, row)
  BY FreeValid DEF Free, S!Stamp, S!Updatable
<1>4. patch = Over(fields, S!Stamp(t, 0))
  BY <1>1, <1>3 DEF Over
<1> HIDE DEF patch, fields
<1>5. Agrees(db, M!PatchOne(Seen(db), t, id, patch), S!UpdateOne(db, t, id, fields, 0))
  BY <1>2, <1>3, <1>4, PlainPatch
<1> QED BY <1>5 DEF M!UpdateDevice, S!UpdateDevice, S!DevicePatchToRow, patch, fields

LEMMA CreateIngestItemAgrees ==
  ASSUME NEW db, DbInv(db), NEW id, NEW n \in Nat,
         NEW i \in [status : {"received"}, documentId : {None}]
                   \cup [status : {"received"}, documentId : {None}, attempts : {1}]
  PROVE  Agrees(db, M!CreateIngestItem(Seen(db), id, i, n), S!CreateIngestItem(db, id, i, n))
<1> DEFINE t == "ingest_items"
           fields == S!IngestItemToRow(i)
           given == Over(i, [attempts |-> 0])
           row == S!RowOf(db, t, id, fields, <<>>, n)
<1>1. /\ t \in Plain /\ S!Stamp(t, n) = <<>>
      /\ fields = [status |-> i.status, documentId |-> i.documentId,
                   attempts |-> IF "attempts" \in DOMAIN i THEN i.attempts ELSE 0]
  BY DEF Plain, S!Stamp, S!Updatable, S!IngestItemToRow
<1>2. Fits(t, fields) /\ Fills(t, fields, <<>>) /\ KeyFits(t, id)
  BY <1>1, ColumnsOf DEF Fits, Fills, KeyFits
<1>3. given = Over(fields, S!Stamp(t, n))
  <2>1. CASE "attempts" \in DOMAIN i
    BY <1>1, <2>1 DEF Over
  <2>2. CASE "attempts" \notin DOMAIN i
    BY <1>1, <2>2 DEF Over
  <2> QED BY <2>1, <2>2
<1>4. S!Valid(db, t, id, row)
  <2>1. "documentId" \in DOMAIN fields /\ fields["documentId"] = None
    BY <1>1
  <2>2. row["documentId"] = None
    <3> HIDE DEF fields
    <3> QED BY <2>1, SameHelpers DEF S!RowOf, Over
  <2>3. S!Refers(db, "documents", row["documentId"])
    BY <2>2, RefersKept
  <2> QED BY <2>3 DEF S!Valid
<1> HIDE DEF fields, given
<1>5. Agrees(db, M!UpsertOne(Seen(db), t, id, given, n), S!InsertOne(db, t, id, fields, <<>>, n))
  BY <1>1, <1>2, <1>3, <1>4, PlainInsert
<1> QED BY <1>5, SameHelpers DEF M!CreateIngestItem, S!CreateIngestItem, fields, given

LEMMA UpdateIngestItemAgrees ==
  ASSUME NEW db, DbInv(db), NEW id,
         NEW patch \in [status : {"failed"}, attempts : {2}] \cup [documentId : RowIds(db.documents)]
  PROVE  Agrees(db, M!UpdateIngestItem(Seen(db), id, patch), S!UpdateIngestItem(db, id, patch))
<1> DEFINE t == "ingest_items"
           fields == S!IngestItemPatchToRow(patch)
           row == Over(fields, Over(S!Stamp(t, 0), db[t][id]))
<1>1. /\ fields = [c \in DOMAIN patch |-> patch[c]]
      /\ DOMAIN patch \subseteq {"status", "documentId", "attempts"} /\ DOMAIN fields = DOMAIN patch
      /\ fields = patch
  <2>1. DOMAIN patch \subseteq {"status", "documentId", "attempts"}
    OBVIOUS
  <2>2. patch = [c \in DOMAIN patch |-> patch[c]]
    OBVIOUS
  <2> QED BY <2>1, <2>2, DefinedIs DEF S!IngestItemPatchToRow
<1>2. t \in Plain /\ t \in Tables /\ S!Stamp(t, 0) = <<>>
  BY DEF Plain, Tables, S!Stamp, S!Updatable
<1>3. Fits(t, fields)
  BY <1>1, ColumnsOf DEF Fits
<1>4. patch = Over(fields, S!Stamp(t, 0))
  <2> HIDE DEF fields
  <2>1. Over(fields, <<>>) = [c \in DOMAIN fields |-> fields[c]]
    BY DEF Over
  <2> QED BY <1>1, <1>2, <2>1
<1>5. ASSUME id \in DOMAIN db[t] PROVE S!Valid(db, t, id, row)
  <2>1. S!Valid(db, t, id, db[t][id])
    BY <1>2, <1>5 DEF DbInv, AllValid
  <2>2. RowType(t, id, db[t][id])
    BY <1>2, <1>5 DEF DbInv, DbType, TableType
  <2>3. row["documentId"] = IF "documentId" \in DOMAIN patch THEN patch["documentId"]
                            ELSE db[t][id]["documentId"]
    BY <1>1, <1>2, <2>2, ColumnsOf DEF Over, RowType
  <2>4. S!Refers(db, "documents", row["documentId"])
    BY <1>1, <2>1, <2>3, RefersKept DEF S!Valid
  <2> QED BY <2>4 DEF S!Valid
<1> HIDE DEF fields, row
<1>6. Agrees(db, M!PatchOne(Seen(db), t, id, patch), S!UpdateOne(db, t, id, fields, 0))
  BY <1>2, <1>3, <1>4, <1>5, PlainPatch DEF row
<1> QED BY <1>6 DEF M!UpdateIngestItem, S!UpdateIngestItem, fields

LEMMA UpdateActionRequestAgrees ==
  ASSUME NEW db, DbInv(db), NEW key, NEW n \in Nat,
         NEW patch \in [status : {"done"}, result : {1}] \cup [attempts : {1}]
  PROVE  Agrees(db, M!UpdateActionRequest(Seen(db), key, patch, n), S!UpdateActionRequest(db, key, patch, n))
<1> DEFINE t == "action_requests"
<1>1. DOMAIN patch \subseteq {"status", "result", "attempts"}
  OBVIOUS
<1>2. Fits(t, patch) /\ t \in Free /\ t \in Plain /\ t \in S!Updatable
  BY <1>1, ColumnsOf DEF Fits, Free, Plain, S!Updatable
<1>3. Agrees(db, M!PatchOne(Seen(db), t, key, Over(patch, [updatedAt |-> n])),
                 S!UpdateOne(db, t, key, S!Defined(patch, {"status", "result", "attempts"}), n))
  BY <1>1, <1>2, PatchAgrees
<1> QED BY <1>3, SameHelpers DEF M!UpdateActionRequest, S!UpdateActionRequest, S!ActionRequestPatchToRow

LEMMA SameCardinality ==
  ASSUME NEW X
  PROVE  S!Cardinality(X) = Cardinality(X) /\ M!Cardinality(X) = Cardinality(X)
BY DEF S!Cardinality, M!Cardinality, Cardinality

\* An answer that fits into max_rows is complete.
LEMMA AtMostAll ==
  ASSUME NEW keys, IsFiniteSet(keys), Cardinality(keys) =< MaxRows, MaxRows \in Nat
  PROVE  S!AtMostMaxRows(keys) = keys
<1> DEFINE n == S!Least(Cardinality(keys), MaxRows)
<1>1. Cardinality(keys) \in Nat /\ n = Cardinality(keys)
  BY FS_CardinalityType DEF S!Least
<1>2. \E some \in SUBSET keys : Cardinality(some) = n
  BY <1>1
<1>3. S!AtMostMaxRows(keys) \in SUBSET keys /\ Cardinality(S!AtMostMaxRows(keys)) = n
  <2> DEFINE fits(some) == S!Cardinality(some) = S!Least(S!Cardinality(keys), MaxRows)
  <2>1. S!AtMostMaxRows(keys) = CHOOSE some \in SUBSET keys : fits(some)
    BY DEF S!AtMostMaxRows
  <2>2. \A some : fits(some) <=> Cardinality(some) = n
    BY SameCardinality
  <2> HIDE DEF n, fits
  <2> QED BY <1>2, <2>1, <2>2
<1> QED BY <1>1, <1>3, FS_Subset

LEMMA OneKey ==
  ASSUME StoreAssumption, NEW key
  PROVE  S!AtMostMaxRows({key}) = {key} /\ S!AtMostMaxRows({}) = {}
<1>1. MaxRows \in Nat /\ 1 =< MaxRows
  BY DEF StoreAssumption
<1>2. IsFiniteSet({key}) /\ Cardinality({key}) = 1 /\ IsFiniteSet({}) /\ Cardinality({}) = 0
  BY FS_Singleton, FS_EmptySet
<1>3. S!AtMostMaxRows({key}) = {key}
  BY <1>1, <1>2, AtMostAll
<1>4. S!AtMostMaxRows({}) = {}
  BY <1>1, <1>2, AtMostAll
<1> QED BY <1>3, <1>4

\* on conflict do nothing, then the request that is there.
LEMMA CreateActionRequestAgrees ==
  ASSUME StoreAssumption, NEW db, DbInv(db), NEW key, NEW payload, NEW n \in Nat
  PROVE  Agrees(db, M!CreateActionRequest(Seen(db), key, [payload |-> payload], n),
                    S!CreateActionRequest(db, key, [payload |-> payload], n))
<1> DEFINE t == "action_requests"
           input == [payload |-> payload]
           fields == [payload |-> payload, status |-> "queued"]
           defaults == [result |-> None, attempts |-> 0]
           rows == [k \in {key} |-> fields]
           done == S!Insert(db, t, rows, defaults, TRUE, n)
           m == M!CreateActionRequest(Seen(db), key, input, n)
           s == S!CreateActionRequest(db, key, input, n)
           row == S!RowOf(db, t, key, fields, defaults, n)
           new == [payload |-> payload, status |-> "queued", result |-> None, attempts |-> 0,
                   id |-> <<"action_requests", key, n>>, createdAt |-> n, updatedAt |-> n]
<1>1. /\ t \in Plain /\ t \in Tables /\ S!Stamp(t, n) = [updatedAt |-> n]
      /\ t \in Tables \ (Derived \cup {"relationships"})
  BY PlainView DEF Plain, S!Stamp, S!Updatable, Tables
<1>2. DOMAIN Seen(db)[t] = DOMAIN db[t] /\ \A k \in DOMAIN db[t] : Seen(db)[t][k] = db[t][k]
  <2>1. DbType(db)
    BY DEF DbInv
  <2>2. Seen(db) = [u \in Tables |-> [k \in DOMAIN db[u] |-> View(u, db[u][k])]]
    BY <2>1, SeenIs
  <2> QED BY <1>1, <2>2, PlainView
<1>3. s = [db |-> done.db,
           answer |-> <<"ok", [created |-> done.keys # {}, row |-> done.db.action_requests[key]]>>]
  <2>1. S!ActionRequestToRow(input) = fields
    BY DEF S!ActionRequestToRow
  <2> QED BY <2>1, SameHelpers DEF S!CreateActionRequest
<1>4. m = IF key \in DOMAIN db[t]
          THEN [db |-> Seen(db), answer |-> <<"ok", [created |-> FALSE, row |-> db[t][key]]>>]
          ELSE [db |-> WithRow(Seen(db), t, key, new), answer |-> <<"ok", [created |-> TRUE, row |-> new]>>]
  BY <1>2, SameHelpers DEF M!CreateActionRequest, WithRow
<1>5. Accepted(db, t, rows, defaults, TRUE, n)
  BY FreeValid DEF Accepted, Free
<1>6. CASE key \in DOMAIN db[t]
  <2>1. ToWrite(db, t, rows, TRUE) = {}
    BY <1>6 DEF ToWrite
  <2>2. Written(db, t, NewRows(db, t, rows, defaults, TRUE, n)) = db
    <3>1. db[t] = [k \in DOMAIN db[t] |-> db[t][k]] /\ db = [u \in Tables |-> db[u]]
      BY <1>1 DEF DbInv, DbType, TableType
    <3>2. Over(NewRows(db, t, rows, defaults, TRUE, n), db[t]) = db[t]
      BY <2>1, <3>1 DEF NewRows, Over
    <3> QED BY <1>1, <3>1, <3>2 DEF Written
  <2>3. done.db = db /\ done.keys = {}
    BY <1>5, <2>1, <2>2, InsertIs, OneKey
  <2>4. s = [db |-> db, answer |-> <<"ok", [created |-> FALSE, row |-> db[t][key]]>>]
    BY <1>3, <2>3
  <2>5. m = [db |-> Seen(db), answer |-> <<"ok", [created |-> FALSE, row |-> db[t][key]]>>]
    BY <1>4, <1>6
  <2> QED BY <2>4, <2>5, NothingDone
<1>7. CASE key \notin DOMAIN db[t]
  <2>1. ToWrite(db, t, rows, TRUE) = {key}
    BY <1>7 DEF ToWrite
  <2>2. Fits(t, fields) /\ Fits(t, defaults) /\ Fills(t, fields, defaults) /\ KeyFits(t, key)
    BY ColumnsOf DEF Fits, Fills, KeyFits
  <2>3. row = new
    <3>1. row = Over(fields, Over(defaults, Over([updatedAt |-> n], [id |-> <<t, key, n>>, createdAt |-> n])))
      BY <1>1, <1>7, SameHelpers DEF S!RowOf
    <3> QED BY <3>1 DEF Over
  <2>4. Written(db, t, NewRows(db, t, rows, defaults, TRUE, n)) = WithRow(db, t, key, row)
    <3>1. NewRows(db, t, rows, defaults, TRUE, n) = [k \in {key} |-> row]
      BY <2>1 DEF NewRows
    <3>2. Over([k \in {key} |-> row], db[t]) = Put(db[t], key, row)
      BY DEF Over, Put
    <3> QED BY <3>1, <3>2 DEF Written, WithRow
  <2>5. done.db = WithRow(db, t, key, row) /\ done.keys = {key}
    BY <1>5, <2>1, <2>4, InsertIs, OneKey
  <2>6. /\ RowType(t, key, row) /\ S!Valid(db, t, key, row)
    <3>1. RowType(t, key, S!RowOf(db, t, key, fields, defaults, n))
      <4>1. DbType(db)
        BY DEF DbInv
      <4> HIDE DEF fields, defaults
      <4> QED BY <1>1, <2>2, <4>1, RowOfType
    <3> QED BY <3>1, FreeValid DEF Free
  <2>7. /\ DbInv(WithRow(db, t, key, row)) /\ (Flat(db) => Flat(WithRow(db, t, key, row)))
        /\ Seen(WithRow(db, t, key, row)) = WithRow(Seen(db), t, key, View(t, row))
    <3> HIDE DEF row
    <3> QED BY <1>1, <1>7, <2>6, PutInv
  <2>8. View(t, row) = row /\ WithRow(db, t, key, row)[t][key] = row
    BY <1>1, PlainView DEF WithRow, Put, DbInv, DbType
  <2> HIDE DEF done, row
  <2>9. s = [db |-> WithRow(db, t, key, row), answer |-> <<"ok", [created |-> TRUE, row |-> row]>>]
    <3>1. (done.keys # {}) = TRUE
      BY <2>5
    <3> QED BY <1>3, <2>5, <2>8, <3>1
  <2>10. m = [db |-> WithRow(Seen(db), t, key, row), answer |-> <<"ok", [created |-> TRUE, row |-> row]>>]
    BY <1>4, <1>7, <2>3
  <2>11. /\ s.db = WithRow(db, t, key, row) /\ m.db = WithRow(Seen(db), t, key, row)
         /\ m.answer = s.answer
    <3> HIDE DEF m, s
    <3> QED BY <2>9, <2>10
  <2> HIDE DEF m, s
  <2>12. Agrees(db, m, s)
    BY <2>7, <2>8, <2>11 DEF Agrees
  <2> QED BY <2>12 DEF m, s
<1> QED BY <1>6, <1>7

-----------------------------------------------------------------------------
(***************************************************************************)
(* Sync states.                                                            *)
(***************************************************************************)
\* The columns of a sync state are read as they are written, but for the
\* units in progress.
LEMMA SyncView ==
  ASSUME NEW r, NEW k, RowType("sync_states", k, r)
  PROVE  /\ DOMAIN View("sync_states", r) = DOMAIN r
         /\ View("sync_states", r) = [c \in DOMAIN r |-> View("sync_states", r)[c]]
         /\ \A c \in DOMAIN r \ {"reconcile"} : View("sync_states", r)[c] = r[c]
         /\ View("sync_states", r)["reconcile"] = IF r["reconcile"] = None THEN <<>> ELSE r["reconcile"]
<1>1. View("sync_states", r) = [r EXCEPT !.reconcile = IF @ = None THEN <<>> ELSE @]
  BY DEF View, SyncStateFromRow, ReconcileFromDb
<1>2. "reconcile" \in DOMAIN r
  BY ColumnsOf DEF RowType
<1> QED BY <1>1, <1>2

SyncPatches ==
  [status : {"running"}] \cup [reconcile : {<<>>, <<1>>}]
  \cup [checkpoint : {1, None}, status : {"idle"}] \cup [consecutiveFailures : {1}, status : {"error"}]

LEMMA SyncFields ==
  ASSUME StoreAssumption, NEW patch \in SyncPatches
  PROVE  LET fields == S!SyncStatePatchToRow(patch)
         IN /\ DOMAIN fields = DOMAIN patch
            /\ DOMAIN patch \subseteq {"status", "checkpoint", "consecutiveFailures", "reconcile"}
            /\ \A c \in DOMAIN patch \ {"reconcile"} : fields[c] = patch[c]
            /\ "reconcile" \in DOMAIN patch =>
                 (IF fields["reconcile"] = None THEN <<>> ELSE fields["reconcile"]) = patch["reconcile"]
<1> DEFINE fields == S!SyncStatePatchToRow(patch)
<1>1. CASE "reconcile" \in DOMAIN patch
  <2>1. DOMAIN patch = {"reconcile"} /\ patch["reconcile"] \in {<<>>, <<1>>}
    BY <1>1 DEF SyncPatches
  <2>2. S!Defined(patch, {"status", "checkpoint", "consecutiveFailures"}) = [c \in {} |-> patch[c]]
    <3>1. DOMAIN patch \cap {"status", "checkpoint", "consecutiveFailures"} = {}
      BY <2>1
    <3> QED BY <3>1 DEF S!Defined, S!Restrict
  <2>3. fields = Over([reconcile |-> S!ReconcileToRow(patch["reconcile"])], [c \in {} |-> patch[c]])
    BY <1>1, <2>2, SameHelpers DEF S!SyncStatePatchToRow
  <2>4. DOMAIN fields = {"reconcile"} /\ fields["reconcile"] = S!ReconcileToRow(patch["reconcile"])
    BY <2>3 DEF Over
  <2>5. <<1>> # None /\ <<1>> # <<>>
    <3>1. <<1>> \in Seq(Nat)
      OBVIOUS
    <3> QED BY <3>1 DEF StoreAssumption
  <2> HIDE DEF fields
  <2> QED BY <2>1, <2>4, <2>5 DEF S!ReconcileToRow, fields
<1>2. CASE "reconcile" \notin DOMAIN patch
  <2>1. DOMAIN patch \subseteq {"status", "checkpoint", "consecutiveFailures"}
    BY <1>2 DEF SyncPatches
  <2>2. fields = S!Defined(patch, {"status", "checkpoint", "consecutiveFailures"})
    BY <1>2 DEF S!SyncStatePatchToRow
  <2>3. fields = [c \in DOMAIN patch |-> patch[c]]
    BY <2>1, <2>2, DefinedIs
  <2> HIDE DEF fields
  <2>4. DOMAIN fields = DOMAIN patch /\ \A c \in DOMAIN patch : fields[c] = patch[c]
    BY <2>3
  <2> QED BY <1>2, <2>1, <2>4 DEF fields
<1> QED BY <1>1, <1>2

LEMMA UpsertSyncStateAgrees ==
  ASSUME StoreAssumption, NEW db, DbInv(db), NEW account, NEW patch \in SyncPatches, NEW n \in Nat
  PROVE  Agrees(db, M!UpsertSyncState(Seen(db), account, "mail", patch, n),
                    S!UpsertSyncState(db, account, "mail", patch, n))
<1> DEFINE t == "sync_states"
           key == <<account, "mail">>
           fields == S!SyncStatePatchToRow(patch)
           defaults == S!SyncStateDefaults
           base == [status |-> "idle", checkpoint |-> None, consecutiveFailures |-> 0, reconcile |-> <<>>]
           stamp == [updatedAt |-> n]
           given == Over(patch, IF key \in DOMAIN db[t] THEN stamp ELSE Over(base, stamp))
           row == S!RowOf(db, t, key, fields, defaults, n)
           m == M!UpsertSyncState(Seen(db), account, "mail", patch, n)
           s == S!UpsertSyncState(db, account, "mail", patch, n)
           one == S!InsertOne(db, t, key, fields, defaults, n)
           mone == M!UpsertOne(Seen(db), t, key, given, n)
<1>1. /\ t \in Tables /\ S!Stamp(t, n) = stamp /\ "connector_accounts" \in Tables
      /\ t \in Tables \ (Derived \cup {"relationships"})
  BY DEF Tables, Derived, S!Stamp, S!Updatable
<1>2. /\ DOMAIN fields = DOMAIN patch
      /\ DOMAIN patch \subseteq {"status", "checkpoint", "consecutiveFailures", "reconcile"}
      /\ \A c \in DOMAIN patch \ {"reconcile"} : fields[c] = patch[c]
      /\ "reconcile" \in DOMAIN patch =>
           (IF fields["reconcile"] = None THEN <<>> ELSE fields["reconcile"]) = patch["reconcile"]
  BY SyncFields
<1>3. defaults = [status |-> "idle", checkpoint |-> None, consecutiveFailures |-> 0, reconcile |-> None]
  BY DEF S!SyncStateDefaults
<1>4. Fits(t, fields) /\ Fits(t, defaults) /\ Fills(t, fields, defaults) /\ KeyFits(t, key)
  <2> HIDE DEF fields, key
  <2> QED BY <1>2, <1>3, ColumnsOf DEF Fits, Fills, KeyFits
<1>5. /\ DOMAIN Seen(db)[t] = DOMAIN db[t]
      /\ DOMAIN Seen(db).connector_accounts = DOMAIN db.connector_accounts
  BY <1>1, SeenIds DEF DbInv
<1>6. S!Valid(db, t, key, row) <=> account \in DOMAIN db.connector_accounts
  BY DEF S!Valid
<1>7. m = IF account \notin DOMAIN db.connector_accounts
          THEN [db |-> Seen(db), answer |-> <<"integrity", None>>] ELSE mone
  BY <1>5, SameHelpers DEF M!UpsertSyncState
<1>8. s = IF one.answer[1] = "ok" THEN [db |-> one.db, answer |-> <<"ok", S!SyncStateFromRow(one.answer[2])>>]
          ELSE one
  BY SameHelpers DEF S!UpsertSyncState, S!Read
<1>9. RowType(t, key, row)
  <2>1. DbType(db)
    BY DEF DbInv
  <2> HIDE DEF fields, defaults, key
  <2> QED BY <1>1, <1>4, <2>1, RowOfType
<1>10. View(t, row) = S!SyncStateFromRow(row)
  BY DEF View, SyncStateFromRow, S!SyncStateFromRow, ReconcileFromDb, S!ReconcileFromDb
<1>11. View(t, row) = M!StoredAs(Seen(db), t, key, given, n)
  <2> DEFINE view == View(t, row)
             cols == {"id", "createdAt", "updatedAt", "status", "checkpoint", "consecutiveFailures", "reconcile"}
             stored == M!StoredAs(Seen(db), t, key, given, n)
  <2>1. /\ DOMAIN row = cols /\ DOMAIN view = cols /\ view = [c \in cols |-> view[c]]
        /\ \A c \in cols \ {"reconcile"} : view[c] = row[c]
        /\ view["reconcile"] = IF row["reconcile"] = None THEN <<>> ELSE row["reconcile"]
    <3>1. DOMAIN row = cols
      BY <1>9, ColumnsOf DEF RowType
    <3> HIDE DEF row, key
    <3> QED BY <1>9, <3>1, SyncView
  <2>2. CASE key \in DOMAIN db[t]
    <3> DEFINE old == db[t][key]
               seen == View(t, old)
    <3>1. row = Over(fields, Over(stamp, old)) /\ stored = Over(Over(patch, stamp), seen)
      BY <1>1, <2>2, StoredIs, SameHelpers DEF S!RowOf
    <3>2. RowType(t, key, old)
      BY <1>1, <2>2 DEF DbInv, DbType, TableType
    <3>3. /\ DOMAIN old = cols /\ DOMAIN seen = cols
          /\ \A c \in cols \ {"reconcile"} : seen[c] = old[c]
          /\ seen["reconcile"] = IF old["reconcile"] = None THEN <<>> ELSE old["reconcile"]
      <4>1. DOMAIN old = cols
        BY <3>2, ColumnsOf DEF RowType
      <4> HIDE DEF old, key
      <4> QED BY <3>2, <4>1, SyncView
    <3> HIDE DEF fields, old, seen, row, view, stored, key
    <3>4. /\ DOMAIN stored = cols /\ stored = [c \in cols |-> stored[c]]
          /\ \A c \in cols : stored[c] = IF c \in DOMAIN patch THEN patch[c]
                                         ELSE IF c = "updatedAt" THEN n ELSE seen[c]
      BY <1>2, <3>1, <3>3 DEF Over
    <3>5. \A c \in cols : row[c] = IF c \in DOMAIN patch THEN fields[c]
                                   ELSE IF c = "updatedAt" THEN n ELSE old[c]
      BY <1>2, <3>1, <3>3 DEF Over
    <3>6. \A c \in cols : view[c] = stored[c]
      BY <1>2, <2>1, <3>3, <3>4, <3>5
    <3> QED BY <2>1, <3>4, <3>6 DEF view, stored
  <2>3. CASE key \notin DOMAIN db[t]
    <3> DEFINE born == [id |-> <<t, key, n>>, createdAt |-> n]
    <3>1. row = Over(fields, Over(defaults, Over(stamp, born)))
      BY <1>1, <2>3, SameHelpers DEF S!RowOf
    <3>2. stored = Over(Over(patch, Over(base, stamp)), born)
      BY <1>1, <2>3, StoredIs
    <3>3. DOMAIN born = {"id", "createdAt"}
      OBVIOUS
    <3> HIDE DEF fields, row, view, stored, key, defaults, born
    <3>4. /\ DOMAIN stored = cols /\ stored = [c \in cols |-> stored[c]]
          /\ \A c \in cols : stored[c] = IF c \in DOMAIN patch THEN patch[c]
               ELSE IF c \in DOMAIN base THEN base[c] ELSE IF c = "updatedAt" THEN n ELSE born[c]
      BY <1>2, <3>2, <3>3 DEF Over
    <3>5. \A c \in cols : row[c] = IF c \in DOMAIN patch THEN fields[c]
               ELSE IF c \in DOMAIN base THEN defaults[c] ELSE IF c = "updatedAt" THEN n ELSE born[c]
      BY <1>2, <1>3, <3>1, <3>3 DEF Over
    <3>6. /\ \A c \in DOMAIN base \ {"reconcile"} : defaults[c] = base[c]
          /\ defaults["reconcile"] = None /\ base["reconcile"] = <<>> /\ "reconcile" \in DOMAIN base
      BY <1>3
    <3> HIDE DEF base
    <3>7. ASSUME NEW c \in cols PROVE view[c] = stored[c]
      <4>1. CASE c # "reconcile"
        <5>1. row[c] = stored[c]
          BY <1>2, <3>4, <3>5, <3>6, <4>1
        <5> QED BY <2>1, <4>1, <5>1
      <4>2. CASE c = "reconcile" /\ c \in DOMAIN patch
        <5>1. row[c] = fields[c] /\ stored[c] = patch[c]
          BY <3>4, <3>5, <4>2
        <5> QED BY <1>2, <2>1, <4>2, <5>1
      <4>3. CASE c = "reconcile" /\ c \notin DOMAIN patch
        <5>1. row[c] = None /\ stored[c] = <<>>
          BY <3>4, <3>5, <3>6, <4>3
        <5> QED BY <2>1, <4>3, <5>1
      <4> QED BY <4>1, <4>2, <4>3
    <3> QED BY <2>1, <3>4, <3>7 DEF view, stored
  <2> QED BY <2>2, <2>3
<1> HIDE DEF fields, defaults, given, key, row, one, mone
<1>12. CASE account \in DOMAIN db.connector_accounts
  <2>1. /\ DbInv(one.db) /\ (Flat(db) => Flat(one.db)) /\ mone.db = Seen(one.db)
        /\ one.answer = <<"ok", row>> /\ mone.answer = <<"ok", View(t, row)>>
    BY <1>1, <1>4, <1>6, <1>11, <1>12, SameInsert DEF row, one, mone
  <2>2. s = [db |-> one.db, answer |-> <<"ok", View(t, row)>>] /\ m = mone
    BY <1>7, <1>8, <1>10, <1>12, <2>1
  <2>3. s.db = one.db /\ s.answer = <<"ok", View(t, row)>>
    BY <2>2
  <2> HIDE DEF s, m
  <2>4. Agrees(db, m, s)
    BY <2>1, <2>2, <2>3 DEF Agrees
  <2> QED BY <2>4 DEF s, m
<1>13. CASE account \notin DOMAIN db.connector_accounts
  <2>1. one.db = db /\ one.answer = <<"integrity", None>>
    BY <1>1, <1>4, <1>6, <1>13, OneInserted DEF row, one
  <2>2. s = one /\ m = [db |-> Seen(db), answer |-> <<"integrity", None>>]
    BY <1>7, <1>8, <1>13, <2>1
  <2>3. m.db = Seen(db) /\ m.answer = <<"integrity", None>>
    BY <2>2
  <2> HIDE DEF s, m
  <2>4. Agrees(db, m, s)
    BY <2>1, <2>2, <2>3 DEF Agrees
  <2> QED BY <2>4 DEF s, m
<1> QED BY <1>12, <1>13

-----------------------------------------------------------------------------
(***************************************************************************)
(* Handoffs, and what a device shows.                                      *)
(***************************************************************************)
\* What a device shows: nothing, or a thread.
Focuses(db) == {None} \cup RowIds(db.threads)
HandoffPatches(db) == [state : {"accepted"}] \cup [focus : Focuses(db)]

LEMMA FocusIs ==
  ASSUME StoreAssumption, NEW db, DbInv(db), NEW f \in Focuses(db)
  PROVE  /\ FocusFromRow(FocusToRow(f)) = f
         /\ DOMAIN FocusToRow(f) = {"focusType", "focusId"}
         /\ FocusToRow(f).focusType \in {None, "threads"}
         /\ f = None \/ (f[1] = "threads" /\ f \in RowIds(db.threads))
<1>1. CASE f = None
  <2>1. FocusToRow(f) = [focusType |-> None, focusId |-> None]
    BY <1>1 DEF FocusToRow
  <2>2. FocusFromRow(FocusToRow(f)) = None
    BY <2>1 DEF FocusFromRow
  <2> QED BY <1>1, <2>1, <2>2
<1>2. CASE f # None
  <2>1. PICK k \in DOMAIN db.threads : f = db.threads[k].id
    BY <1>2 DEF Focuses, RowIds
  <2>2. RowType("threads", k, db.threads[k])
    BY DEF DbInv, DbType, TableType, Tables
  <2>3. PICK n \in Nat : f = <<"threads", k, n>>
    BY <2>1, <2>2 DEF RowType
  <2>4. k \in Object
    BY <2>2 DEF RowType
  <2>5. <<k, n>> # None /\ "threads" # None
    BY <2>4 DEF StoreAssumption, Tables
  <2>6. RefType(f) = "threads" /\ RefId(f) = <<k, n>> /\ Ref("threads", <<k, n>>) = f
    BY <2>3 DEF RefType, RefId, Ref
  <2>7. FocusToRow(f) = [focusType |-> "threads", focusId |-> <<k, n>>]
    BY <1>2, <2>6 DEF FocusToRow
  <2>8. FocusFromRow([focusType |-> "threads", focusId |-> <<k, n>>]) = f
    BY <2>5, <2>6 DEF FocusFromRow
  <2>9. FocusFromRow(FocusToRow(f)) = f
    BY <2>7, <2>8
  <2>10. DOMAIN FocusToRow(f) = {"focusType", "focusId"} /\ FocusToRow(f).focusType = "threads"
    BY <2>7
  <2>11. f[1] = "threads" /\ f \in RowIds(db.threads)
    <3>1. f[1] = "threads"
      BY <2>3
    <3>2. db.threads[k].id \in RowIds(db.threads)
      BY DEF RowIds
    <3> QED BY <2>1, <3>1, <3>2
  <2> QED BY <2>9, <2>10, <2>11
<1> QED BY <1>1, <1>2

LEMMA SameFocus ==
  /\ \A f : S!FocusToRow(f) = FocusToRow(f)
  /\ \A r : S!FocusFromRow(r) = FocusFromRow(r)
BY DEF S!FocusToRow, FocusToRow, S!FocusFromRow, FocusFromRow, S!RefType, RefType, S!RefId, RefId,
  S!Ref, Ref

\* A handoff is read from its own columns.
LEMMA HandoffView ==
  ASSUME NEW r
  PROVE  View("handoffs", r) =
           [id |-> r.id, sourceDeviceId |-> r.sourceDeviceId, state |-> r.state,
            focus |-> FocusFromRow(r), createdAt |-> r.createdAt]
BY DEF View, HandoffFromRow

LEMMA SameHandoffView ==
  ASSUME NEW r
  PROVE  S!HandoffFromRow(r) = View("handoffs", r)
BY SameFocus, HandoffView DEF S!HandoffFromRow

\* Only the two columns of a focus tell what is shown.
LEMMA FocusColumns ==
  ASSUME NEW r, NEW q, r["focusType"] = q["focusType"], r["focusId"] = q["focusId"]
  PROVE  FocusFromRow(r) = FocusFromRow(q)
BY DEF FocusFromRow

LEMMA CreateHandoffAgrees ==
  ASSUME StoreAssumption, NEW db, DbInv(db), NEW id, id \notin DOMAIN db.handoffs, NEW n \in Nat,
         NEW h \in [sourceDeviceId : Object, state : {"pending"}, focus : Focuses(db)]
  PROVE  Agrees(db, M!CreateHandoff(Seen(db), id, h, n), S!CreateHandoff(db, id, h, n))
<1> DEFINE t == "handoffs"
           fields == S!HandoffToRow(h)
           row == S!RowOf(db, t, id, fields, <<>>, n)
           m == M!CreateHandoff(Seen(db), id, h, n)
           s == S!CreateHandoff(db, id, h, n)
           one == S!InsertOne(db, t, id, fields, <<>>, n)
           mone == M!UpsertOne(Seen(db), t, id, h, n)
           born == [id |-> <<t, id, n>>, createdAt |-> n]
           focus == FocusToRow(h.focus)
<1>1. /\ t \in Tables /\ S!Stamp(t, n) = <<>> /\ "devices" \in Tables /\ Fits(t, <<>>)
      /\ t \in Tables \ (Derived \cup {"relationships"})
  BY NothingFits DEF Tables, Derived, S!Stamp, S!Updatable
<1>2. /\ FocusFromRow(focus) = h.focus /\ DOMAIN focus = {"focusType", "focusId"}
      /\ focus.focusType \in {None, "threads"}
      /\ h.focus = None \/ (h.focus[1] = "threads" /\ h.focus \in RowIds(db.threads))
  BY FocusIs
<1>3. /\ DOMAIN fields = {"sourceDeviceId", "state", "focusType", "focusId"}
      /\ fields["sourceDeviceId"] = h.sourceDeviceId /\ fields["state"] = h.state
      /\ fields["focusType"] = focus["focusType"] /\ fields["focusId"] = focus["focusId"]
  <2>1. fields = Over([sourceDeviceId |-> h.sourceDeviceId, state |-> h.state], focus)
    BY SameHelpers, SameFocus DEF S!HandoffToRow
  <2> HIDE DEF focus
  <2> QED BY <1>2, <2>1 DEF Over
<1>4. Fits(t, fields) /\ Fills(t, fields, <<>>) /\ KeyFits(t, id)
  <2> HIDE DEF fields, focus
  <2> QED BY <1>2, <1>3, ColumnsOf DEF Fits, Fills, KeyFits
<1>5. row = Over(fields, Over(<<>>, Over(<<>>, born)))
  BY <1>1, SameHelpers DEF S!RowOf
<1>6. /\ row["sourceDeviceId"] = h.sourceDeviceId /\ row["state"] = h.state
      /\ row["focusType"] = focus["focusType"] /\ row["focusId"] = focus["focusId"]
      /\ row["id"] = <<t, id, n>> /\ row["createdAt"] = n
  <2>1. DOMAIN born = {"id", "createdAt"} /\ born["id"] = <<t, id, n>> /\ born["createdAt"] = n
    OBVIOUS
  <2>2. Over(<<>>, Over(<<>>, born)) = Over(<<>>, born)
    <3> HIDE DEF born
    <3> QED BY DEF Over
  <2>3. Over(<<>>, born) = [c \in DOMAIN born |-> born[c]]
    <3> HIDE DEF born
    <3> QED BY DEF Over
  <2> HIDE DEF fields, focus, born, row
  <2> QED BY <1>3, <1>5, <2>1, <2>2, <2>3 DEF Over
<1>7. FocusFromRow(row) = h.focus
  <2> HIDE DEF row, focus
  <2> QED BY <1>2, <1>6, FocusColumns
<1>8. View(t, row) = M!StoredAs(Seen(db), t, id, h, n)
  <2>1. M!StoredAs(Seen(db), t, id, h, n) = Over(h, born)
    BY <1>1, StoredIs
  <2>2. View(t, row) = [id |-> <<t, id, n>>, sourceDeviceId |-> h.sourceDeviceId, state |-> h.state,
                        focus |-> h.focus, createdAt |-> n]
    <3> HIDE DEF row
    <3> QED BY <1>6, <1>7, HandoffView
  <2>3. Over(h, born) = [id |-> <<t, id, n>>, sourceDeviceId |-> h.sourceDeviceId, state |-> h.state,
                         focus |-> h.focus, createdAt |-> n]
    BY DEF Over
  <2> QED BY <2>1, <2>2, <2>3
<1>9. S!Valid(db, t, id, row) <=> h.sourceDeviceId \in DOMAIN db.devices
  <2>1. h.focus # None => S!EntityExists(db, h.focus)
    BY <1>2, SameHelpers DEF S!EntityExists, S!EntityTables
  <2> HIDE DEF row
  <2> QED BY <1>6, <1>7, <2>1, SameFocus DEF S!Valid
<1>10. DOMAIN Seen(db).devices = DOMAIN db.devices
  BY <1>1, SeenIds DEF DbInv
<1>11. m = IF h.sourceDeviceId \notin DOMAIN db.devices
           THEN [db |-> Seen(db), answer |-> <<"integrity", None>>] ELSE mone
  BY <1>10, SameHelpers DEF M!CreateHandoff
<1>12. s = IF one.answer[1] = "ok" THEN [db |-> one.db, answer |-> <<"ok", View(t, one.answer[2])>>]
           ELSE one
  BY SameHelpers, SameHandoffView DEF S!CreateHandoff, S!Read
<1> HIDE DEF fields, row, one, mone
<1>13. CASE h.sourceDeviceId \in DOMAIN db.devices
  <2>1. /\ DbInv(one.db) /\ (Flat(db) => Flat(one.db)) /\ mone.db = Seen(one.db)
        /\ one.answer = <<"ok", row>> /\ mone.answer = <<"ok", View(t, row)>>
    BY <1>1, <1>4, <1>8, <1>9, <1>13, SameInsert DEF row, one, mone
  <2>2. s = [db |-> one.db, answer |-> <<"ok", View(t, row)>>] /\ m = mone
    BY <1>11, <1>12, <1>13, <2>1
  <2>3. s.db = one.db /\ s.answer = <<"ok", View(t, row)>>
    BY <2>2
  <2> HIDE DEF s, m
  <2>4. Agrees(db, m, s)
    BY <2>1, <2>2, <2>3 DEF Agrees
  <2> QED BY <2>4 DEF s, m
<1>14. CASE h.sourceDeviceId \notin DOMAIN db.devices
  <2>1. one.db = db /\ one.answer = <<"integrity", None>>
    BY <1>1, <1>4, <1>9, <1>14, OneInserted DEF row, one
  <2>2. s = one /\ m = [db |-> Seen(db), answer |-> <<"integrity", None>>]
    BY <1>11, <1>12, <1>14, <2>1
  <2>3. m.db = Seen(db) /\ m.answer = <<"integrity", None>>
    BY <2>2
  <2> HIDE DEF s, m
  <2>4. Agrees(db, m, s)
    BY <2>1, <2>2, <2>3 DEF Agrees
  <2> QED BY <2>4 DEF s, m
<1> QED BY <1>13, <1>14

LEMMA UpdateHandoffAgrees ==
  ASSUME StoreAssumption, NEW db, DbInv(db), NEW id,
         NEW patch \in HandoffPatches(db)
  PROVE  Agrees(db, M!UpdateHandoff(Seen(db), id, patch), S!UpdateHandoff(db, id, patch))
<1> DEFINE t == "handoffs"
           fields == S!HandoffPatchToRow(patch)
           old == db[t][id]
           row == Over(fields, Over(S!Stamp(t, 0), old))
           m == M!UpdateHandoff(Seen(db), id, patch)
           s == S!UpdateHandoff(db, id, patch)
           one == S!UpdateOne(db, t, id, fields, 0)
           mone == M!PatchOne(Seen(db), t, id, patch)
           cols == {"id", "createdAt", "sourceDeviceId", "state", "focusType", "focusId"}
<1>1. /\ t \in Tables /\ S!Stamp(t, 0) = <<>>
      /\ t \in Tables \ (Derived \cup {"relationships"})
  BY DEF Tables, Derived, S!Stamp, S!Updatable
<1>2. s = IF one.answer[1] = "ok" THEN [db |-> one.db, answer |-> <<"ok", View(t, one.answer[2])>>]
          ELSE one
  BY SameHelpers, SameHandoffView DEF S!UpdateHandoff, S!Read
<1>3. m = mone
  BY DEF M!UpdateHandoff
<1>4. Over(<<>>, old) = [c \in DOMAIN old |-> old[c]]
  BY DEF Over
<1>5. \/ /\ DOMAIN patch = {"state"} /\ DOMAIN fields = {"state"} /\ fields["state"] = patch["state"]
      \/ /\ DOMAIN patch = {"focus"} /\ patch["focus"] \in Focuses(db)
         /\ DOMAIN fields = {"focusType", "focusId"}
         /\ fields["focusType"] = FocusToRow(patch["focus"])["focusType"]
         /\ fields["focusId"] = FocusToRow(patch["focus"])["focusId"]
  <2>1. CASE patch \in [state : {"accepted"}]
    <3>1. DOMAIN patch = {"state"} /\ "focus" \notin DOMAIN patch
      BY <2>1
    <3>2. fields = [c \in DOMAIN patch |-> patch[c]]
      BY <3>1, DefinedIs DEF S!HandoffPatchToRow
    <3> HIDE DEF fields
    <3> QED BY <3>1, <3>2
  <2>2. CASE patch \in [focus : Focuses(db)]
    <3>1. DOMAIN patch = {"focus"} /\ patch["focus"] \in Focuses(db)
      BY <2>2
    <3>2. S!Defined(patch, {"state"}) = [c \in {} |-> patch[c]]
      <4>1. DOMAIN patch \cap {"state"} = {}
        BY <3>1
      <4> QED BY <4>1 DEF S!Defined, S!Restrict
    <3>3. fields = Over(FocusToRow(patch["focus"]), [c \in {} |-> patch[c]])
      BY <3>1, <3>2, SameHelpers, SameFocus DEF S!HandoffPatchToRow
    <3>4. DOMAIN FocusToRow(patch["focus"]) = {"focusType", "focusId"}
      BY <3>1, FocusIs
    <3> HIDE DEF fields
    <3> QED BY <3>1, <3>3, <3>4 DEF Over
  <2> QED BY <2>1, <2>2 DEF HandoffPatches
<1>6. Fits(t, fields)
  <2>1. DOMAIN patch = {"focus"} /\ patch["focus"] \in Focuses(db) =>
          FocusToRow(patch["focus"])["focusType"] \in {None, "threads"}
    BY FocusIs
  <2> HIDE DEF fields
  <2> QED BY <1>5, <2>1, ColumnsOf DEF Fits
<1>7. ASSUME id \in DOMAIN db[t]
      PROVE  S!Valid(db, t, id, row) /\ View(t, row) = Over(patch, View(t, old))
  <2>1. S!Valid(db, t, id, old) /\ RowType(t, id, old)
    BY <1>1, <1>7 DEF DbInv, AllValid, DbType, TableType
  <2>2. DOMAIN old = cols
    BY <2>1, ColumnsOf DEF RowType
  <2>3. \A c \in cols : row[c] = IF c \in DOMAIN fields THEN fields[c] ELSE old[c]
    <3>1. row = Over(fields, Over(<<>>, old))
      BY <1>1
    <3> HIDE DEF fields, row, old
    <3> QED BY <1>4, <2>2, <3>1 DEF Over
  <2>4. old.sourceDeviceId \in DOMAIN db.devices
        /\ (FocusFromRow(old) = None \/ S!EntityExists(db, FocusFromRow(old)))
    BY <2>1, SameFocus DEF S!Valid
  <2>5. View(t, old) = [id |-> old.id, sourceDeviceId |-> old.sourceDeviceId, state |-> old.state,
                        focus |-> FocusFromRow(old), createdAt |-> old.createdAt]
    BY HandoffView
  <2>6. View(t, row) = [id |-> row.id, sourceDeviceId |-> row.sourceDeviceId, state |-> row.state,
                        focus |-> FocusFromRow(row), createdAt |-> row.createdAt]
    BY HandoffView
  <2> HIDE DEF fields, row, old
  <2>7. CASE DOMAIN patch = {"state"} /\ DOMAIN fields = {"state"} /\ fields["state"] = patch["state"]
    <3>1. /\ row["id"] = old["id"] /\ row["sourceDeviceId"] = old["sourceDeviceId"]
          /\ row["createdAt"] = old["createdAt"] /\ row["state"] = patch["state"]
          /\ row["focusType"] = old["focusType"] /\ row["focusId"] = old["focusId"]
      BY <2>3, <2>7
    <3>2. FocusFromRow(row) = FocusFromRow(old)
      BY <3>1, FocusColumns
    <3>3. S!Valid(db, t, id, row)
      BY <2>4, <3>1, <3>2, SameFocus DEF S!Valid
    <3>4. View(t, row) = Over(patch, View(t, old))
      BY <2>5, <2>6, <2>7, <3>1, <3>2 DEF Over
    <3> QED BY <3>3, <3>4
  <2>8. CASE /\ DOMAIN patch = {"focus"} /\ patch["focus"] \in Focuses(db)
             /\ DOMAIN fields = {"focusType", "focusId"}
             /\ fields["focusType"] = FocusToRow(patch["focus"])["focusType"]
             /\ fields["focusId"] = FocusToRow(patch["focus"])["focusId"]
    <3> DEFINE f == patch["focus"]
    <3>1. /\ row["id"] = old["id"] /\ row["sourceDeviceId"] = old["sourceDeviceId"]
          /\ row["createdAt"] = old["createdAt"] /\ row["state"] = old["state"]
          /\ row["focusType"] = FocusToRow(f)["focusType"] /\ row["focusId"] = FocusToRow(f)["focusId"]
      BY <2>3, <2>8
    <3>2. FocusFromRow(row) = f /\ (f = None \/ (f[1] = "threads" /\ f \in RowIds(db.threads)))
      BY <2>8, <3>1, FocusColumns, FocusIs
    <3>3. f # None => S!EntityExists(db, f)
      BY <3>2, SameHelpers DEF S!EntityExists, S!EntityTables
    <3>4. S!Valid(db, t, id, row)
      BY <2>4, <3>1, <3>2, <3>3, SameFocus DEF S!Valid
    <3>5. View(t, row) = Over(patch, View(t, old))
      BY <2>5, <2>6, <2>8, <3>1, <3>2 DEF Over
    <3> QED BY <3>4, <3>5
  <2> QED BY <1>5, <2>7, <2>8 DEF row, old, fields
<1>8. /\ DbInv(one.db) /\ (Flat(db) => Flat(one.db)) /\ mone.db = Seen(one.db)
      /\ id \in DOMAIN db[t] => one.answer = <<"ok", row>> /\ mone.answer = <<"ok", View(t, row)>>
      /\ id \notin DOMAIN db[t] => one.answer = <<"not_found", None>> /\ mone.answer = one.answer
  <2>1. id \in DOMAIN db[t] =>
          /\ S!Valid(db, t, id, Over(fields, Over(S!Stamp(t, 0), db[t][id])))
          /\ View(t, Over(fields, Over(S!Stamp(t, 0), db[t][id]))) = Over(patch, View(t, db[t][id]))
    BY <1>7
  <2>2. t \in Tables \ (Derived \cup {"relationships"})
    BY <1>1
  <2> HIDE DEF fields
  <2>3. ASSUME NEW n \in Nat, n = 0
        PROVE  DbInv(S!UpdateOne(db, t, id, fields, n).db)
    BY <1>6, <2>1, <2>2, <2>3, SamePatch
  <2>4. ASSUME NEW n \in Nat, n = 0
        PROVE  mone.db = Seen(S!UpdateOne(db, t, id, fields, n).db)
    BY <1>6, <2>1, <2>2, <2>4, SamePatch
  <2>5. ASSUME NEW n \in Nat, n = 0
        PROVE  Flat(db) => Flat(S!UpdateOne(db, t, id, fields, n).db)
    BY <1>6, <2>1, <2>2, <2>5, SamePatch
  <2>6. ASSUME NEW n \in Nat, n = 0
        PROVE  /\ id \in DOMAIN db[t] =>
                    /\ S!UpdateOne(db, t, id, fields, n).answer =
                         <<"ok", Over(fields, Over(S!Stamp(t, n), db[t][id]))>>
                    /\ mone.answer = <<"ok", View(t, Over(fields, Over(S!Stamp(t, n), db[t][id])))>>
               /\ id \notin DOMAIN db[t] =>
                    /\ S!UpdateOne(db, t, id, fields, n).answer = <<"not_found", None>>
                    /\ mone.answer = S!UpdateOne(db, t, id, fields, n).answer
    BY <1>6, <2>1, <2>2, <2>6, SamePatch
  <2> QED BY <2>3, <2>4, <2>5, <2>6
<1> HIDE DEF row, one, mone
<1>9. s.db = one.db /\ m.answer = s.answer
  <2>1. CASE id \in DOMAIN db[t]
    <3>1. s = [db |-> one.db, answer |-> <<"ok", View(t, row)>>]
      BY <1>2, <1>8, <2>1
    <3> HIDE DEF s, m
    <3> QED BY <1>3, <1>8, <2>1, <3>1
  <2>2. CASE id \notin DOMAIN db[t]
    <3>1. s = one
      BY <1>2, <1>8, <2>2
    <3> QED BY <1>3, <1>8, <2>2, <3>1
  <2> QED BY <2>1, <2>2
<1> HIDE DEF s, m
<1>10. Agrees(db, m, s)
  BY <1>3, <1>8, <1>9 DEF Agrees
<1> QED BY <1>10 DEF s, m

-----------------------------------------------------------------------------
(***************************************************************************)
(* Batches.                                                                *)
(***************************************************************************)

\* The least and the greatest of places in a batch.
LEMMA MinIs ==
  ASSUME NEW T \in SUBSET Nat, T # {}
  PROVE  Min(T) \in T /\ \A i \in T : Min(T) =< i
<1>1. PICK d \in T : \A e \in T : ~(<<e, d>> \in OpToRel(<, Nat))
  BY NatLessThanWellFounded, WFMin
<1>2. ASSUME NEW e \in T PROVE d =< e
  <2>1. e \in Nat /\ d \in Nat
    OBVIOUS
  <2>2. ~(e < d)
    BY <1>1, <2>1 DEF OpToRel
  <2> QED BY <2>1, <2>2
<1> QED BY <1>2 DEF Min

LEMMA MaxIs ==
  ASSUME NEW n \in Nat, NEW T \in SUBSET (1..n), T # {}
  PROVE  Max(T) \in T /\ \A i \in T : i =< Max(T)
<1> DEFINE D == {n - i : i \in T}
<1>1. D \in SUBSET Nat /\ D # {}
  <2>1. \A i \in T : i \in Nat /\ i <= n /\ n - i \in Nat
    OBVIOUS
  <2>2. PICK i \in T : TRUE
    OBVIOUS
  <2>3. n - i \in D
    OBVIOUS
  <2> QED BY <2>1, <2>3
<1>2. PICK d \in D : \A e \in D : ~(<<e, d>> \in OpToRel(<, Nat))
  BY <1>1, NatLessThanWellFounded, WFMin
<1>3. PICK i \in T : d = n - i
  BY <1>2
<1>4. ASSUME NEW j \in T PROVE j =< i
  <2>1. n - j \in D /\ n - j \in Nat
    OBVIOUS
  <2>2. ~(n - j < d)
    BY <1>1, <1>2, <2>1 DEF OpToRel
  <2> QED BY <1>3, <2>2
<1> QED BY <1>4 DEF Max

\* Where a key first occurs, how many of the keys occur until then, and the
\* statement its row is part of.
FirstAt(rows, k) == Min({i \in DOMAIN rows : rows[i].key = k})
Until(rows, keys, k) == keys \cap {rows[j].key : j \in 1..FirstAt(rows, k)}
ChunkAt(rows, keys, k) == (Cardinality(Until(rows, keys, k)) - 1) \div Chunk
ChunkKeys(rows, keys, n) == {k \in keys : ChunkAt(rows, keys, k) = n}
Chosen(rows, some) == [k \in some |-> LastOf(rows, k)]
Statement(db, t, rows, keys, ign, now0, n) ==
  S!Insert(db, t, Chosen(rows, ChunkKeys(rows, keys, n)), <<>>, ign, now0)
Staying(db, t, rows, keys, ign, now0) ==
  {k \in keys : \A n \in 0..ChunkAt(rows, keys, k) : Statement(db, t, rows, keys, ign, now0, n).ok = TRUE}

LEMMA FirstAtIs ==
  ASSUME NEW size \in Nat, NEW rows, DOMAIN rows = 1..size, NEW k \in KeysOf(rows)
  PROVE  /\ FirstAt(rows, k) \in 1..size /\ rows[FirstAt(rows, k)].key = k
         /\ \A i \in 1..size : rows[i].key = k => FirstAt(rows, k) =< i
<1> DEFINE T == {i \in DOMAIN rows : rows[i].key = k}
<1>1. T \in SUBSET Nat /\ T # {}
  BY DEF KeysOf
<1>2. Min(T) \in T /\ \A i \in T : Min(T) =< i
  <2> HIDE DEF T
  <2> QED BY <1>1, MinIs
<1> QED BY <1>2 DEF FirstAt

LEMMA LastOfIs ==
  ASSUME NEW size \in Nat, NEW rows, DOMAIN rows = 1..size, NEW k \in KeysOf(rows)
  PROVE  \E i \in 1..size :
           /\ rows[i].key = k /\ LastOf(rows, k) = rows[i].fields
           /\ i = Max({j \in 1..size : rows[j].key = k})
<1> DEFINE T == {i \in 1..size : rows[i].key = k}
<1>1. T \in SUBSET (1..size) /\ T # {}
  BY DEF KeysOf
<1>2. Max(T) \in T
  <2> HIDE DEF T
  <2> QED BY <1>1, MaxIs
<1> QED BY <1>2 DEF LastOf

\* The keys of a batch are finitely many; those up to a place are as many as
\* the places.
LEMMA UntilIs ==
  ASSUME NEW size \in Nat, NEW rows, DOMAIN rows = 1..size, NEW keys \in SUBSET KeysOf(rows),
         NEW k \in keys
  PROVE  /\ k \in Until(rows, keys, k) /\ IsFiniteSet(Until(rows, keys, k))
         /\ Cardinality(Until(rows, keys, k)) \in Nat \ {0}
<1> DEFINE f == [j \in 1..FirstAt(rows, k) |-> rows[j].key]
           U == Until(rows, keys, k)
<1>1. FirstAt(rows, k) \in 1..size /\ rows[FirstAt(rows, k)].key = k
  BY FirstAtIs
<1>2. k \in U
  BY <1>1 DEF Until
<1>3. IsFiniteSet({rows[j].key : j \in 1..FirstAt(rows, k)})
  <2>1. IsFiniteSet(1..FirstAt(rows, k))
    BY <1>1, FS_Interval
  <2>2. f \in Surjection(1..FirstAt(rows, k), {rows[j].key : j \in 1..FirstAt(rows, k)})
    BY DEF Surjection
  <2> HIDE DEF f
  <2> QED BY <2>1, <2>2, FS_Surjection
<1>4. IsFiniteSet(U)
  BY <1>3, FS_Subset DEF Until
<1>5. Cardinality(U) \in Nat /\ Cardinality(U) # 0
  BY <1>2, <1>4, FS_CardinalityType, FS_EmptySet
<1> QED BY <1>2, <1>4, <1>5

LEMMA KeysFinite ==
  ASSUME NEW size \in Nat, NEW rows, DOMAIN rows = 1..size
  PROVE  IsFiniteSet(KeysOf(rows))
<1> DEFINE f == [j \in 1..size |-> rows[j].key]
<1>1. IsFiniteSet(1..size)
  BY FS_Interval
<1>2. f \in Surjection(1..size, KeysOf(rows))
  BY DEF Surjection, KeysOf
<1> HIDE DEF f
<1> QED BY <1>1, <1>2, FS_Surjection

\* Two keys are never at one place.
LEMMA PlacesDiffer ==
  ASSUME NEW size \in Nat, NEW rows, DOMAIN rows = 1..size, NEW keys \in SUBSET KeysOf(rows),
         NEW k \in keys, NEW l \in keys, k # l
  PROVE  Cardinality(Until(rows, keys, k)) # Cardinality(Until(rows, keys, l))
<1>1. ASSUME NEW p \in keys, NEW q \in keys, p # q, FirstAt(rows, p) =< FirstAt(rows, q)
      PROVE  Cardinality(Until(rows, keys, p)) # Cardinality(Until(rows, keys, q))
  <2>1. /\ FirstAt(rows, p) \in 1..size /\ FirstAt(rows, q) \in 1..size
        /\ rows[FirstAt(rows, p)].key = p /\ rows[FirstAt(rows, q)].key = q
        /\ \A i \in 1..size : rows[i].key = q => FirstAt(rows, q) =< i
    BY FirstAtIs
  <2>2. FirstAt(rows, p) < FirstAt(rows, q)
    BY <1>1, <2>1
  <2>3. Until(rows, keys, p) \subseteq Until(rows, keys, q)
    BY <2>1, <2>2 DEF Until
  <2>4. q \notin Until(rows, keys, p)
    BY <2>1, <2>2 DEF Until
  <2>5. q \in Until(rows, keys, q) /\ IsFiniteSet(Until(rows, keys, q))
    BY UntilIs
  <2> QED BY <2>3, <2>4, <2>5, FS_Subset
<1>2. FirstAt(rows, k) \in Int /\ FirstAt(rows, l) \in Int
  BY FirstAtIs
<1> QED BY <1>1, <1>2

\* No statement has more than Chunk rows.
LEMMA ChunksFit ==
  ASSUME StoreAssumption, NEW size \in Nat, NEW rows, DOMAIN rows = 1..size,
         NEW keys \in SUBSET KeysOf(rows), NEW n \in Nat
  PROVE  /\ IsFiniteSet(ChunkKeys(rows, keys, n)) /\ Cardinality(ChunkKeys(rows, keys, n)) =< Chunk
         /\ \A k \in keys : ChunkAt(rows, keys, k) \in Nat
<1> DEFINE place == [k \in ChunkKeys(rows, keys, n) |-> Cardinality(Until(rows, keys, k))]
           spots == (n * Chunk + 1) .. (n * Chunk + Chunk)
<1>0. Chunk \in Nat \ {0} /\ n * Chunk \in Nat
  BY DEF StoreAssumption
<1>1. ASSUME NEW k \in keys PROVE ChunkAt(rows, keys, k) \in Nat
  <2>1. Cardinality(Until(rows, keys, k)) \in Nat \ {0}
    BY UntilIs
  <2> QED BY <1>0, <2>1 DEF ChunkAt
<1>2. ASSUME NEW k \in ChunkKeys(rows, keys, n) PROVE place[k] \in spots
  <2>1. place[k] \in Nat \ {0} /\ (place[k] - 1) \div Chunk = n
    BY UntilIs DEF ChunkKeys, ChunkAt
  <2> HIDE DEF place
  <2>2. \A a \in Nat : a \div Chunk = n => n * Chunk =< a /\ a < n * Chunk + Chunk
    BY <1>0
  <2>3. place[k] - 1 \in Nat
    BY <2>1
  <2>4. n * Chunk =< place[k] - 1 /\ place[k] - 1 < n * Chunk + Chunk
    BY <2>1, <2>2, <2>3
  <2> QED BY <1>0, <2>1, <2>4
<1>3. \A k, l \in ChunkKeys(rows, keys, n) : place[k] = place[l] => k = l
  BY PlacesDiffer DEF ChunkKeys
<1>4. place \in Injection(ChunkKeys(rows, keys, n), spots)
  BY <1>2, <1>3 DEF Injection, IsInjective
<1>5. IsFiniteSet(spots) /\ Cardinality(spots) = Chunk
  <2>1. n * Chunk + 1 \in Int /\ n * Chunk + Chunk \in Int
    BY <1>0
  <2>2. /\ IsFiniteSet(spots)
        /\ Cardinality(spots) = IF n * Chunk + 1 > n * Chunk + Chunk THEN 0
                                ELSE (n * Chunk + Chunk) - (n * Chunk + 1) + 1
    BY <2>1, FS_Interval
  <2> QED BY <1>0, <2>2
<1> HIDE DEF place, spots
<1>6. IsFiniteSet(ChunkKeys(rows, keys, n)) /\ Cardinality(ChunkKeys(rows, keys, n)) =< Chunk
  BY <1>4, <1>5, FS_Injection
<1> QED BY <1>1, <1>6

-----------------------------------------------------------------------------
(***************************************************************************)
(* A chunked upsert writes the last row of every key, in one or more       *)
(* statements.                                                             *)
(***************************************************************************)
LEMMA ChunkedIs ==
  ASSUME NEW db, NEW t, NEW rows, NEW keys, NEW ign, NEW n0
  PROVE  S!UpsertChunked(db, t, rows, keys, ign, n0) =
           [ok |-> Staying(db, t, rows, keys, ign, n0) = keys,
            db |-> S!Insert(db, t, Chosen(rows, Staying(db, t, rows, keys, ign, n0)), <<>>, ign, n0).db,
            keys |-> UNION {Statement(db, t, rows, keys, ign, n0, ChunkAt(rows, keys, k)).keys :
                              k \in Staying(db, t, rows, keys, ign, n0)}]
<1> DEFINE First(k) == S!Min({i \in DOMAIN rows : rows[i].key = k})
           Place(k) == S!Cardinality(keys \cap {rows[j].key : j \in 1..First(k)})
           ChunkOf(k) == (Place(k) - 1) \div Chunk
           Rows(some) == [k \in some |-> S!LastOf(rows, k)]
           Piece(n) == S!Insert(db, t, Rows({k \in keys : ChunkOf(k) = n}), <<>>, ign, n0)
           stay == {k \in keys : \A n \in 0..ChunkOf(k) : Piece(n).ok}
<1>1. \A T : S!Min(T) = Min(T)
  BY DEF S!Min, Min
<1>2. \A k : ChunkOf(k) = ChunkAt(rows, keys, k)
  BY <1>1, SameCardinality DEF ChunkAt, Until, FirstAt
<1>3. \A some : Rows(some) = Chosen(rows, some)
  BY SameHelpers DEF Chosen
<1> HIDE DEF ChunkOf, Rows
<1>4. ASSUME NEW n PROVE Piece(n) = Statement(db, t, rows, keys, ign, n0, n)
  <2>1. {k \in keys : ChunkOf(k) = n} = ChunkKeys(rows, keys, n)
    BY <1>2 DEF ChunkKeys
  <2> QED BY <1>3, <2>1 DEF Statement
<1>5. ASSUME NEW n PROVE Statement(db, t, rows, keys, ign, n0, n).ok \in BOOLEAN
  <2> DEFINE some == Chosen(rows, ChunkKeys(rows, keys, n))
  <2>1. CASE Accepted(db, t, some, <<>>, ign, n0)
    <3>1. S!Insert(db, t, some, <<>>, ign, n0).ok = TRUE
      BY <2>1, InsertIs
    <3> QED BY <3>1 DEF Statement
  <2>2. CASE ~Accepted(db, t, some, <<>>, ign, n0)
    <3>1. S!Insert(db, t, some, <<>>, ign, n0).ok = FALSE
      BY <2>2, InsertIs
    <3> QED BY <3>1 DEF Statement
  <2> QED BY <2>1, <2>2
<1> HIDE DEF Piece
<1>6. stay = Staying(db, t, rows, keys, ign, n0)
  <2>1. \A n : Piece(n).ok <=> Statement(db, t, rows, keys, ign, n0, n).ok = TRUE
    BY <1>4, <1>5
  <2>2. ASSUME NEW k \in keys
        PROVE  k \in stay <=> k \in Staying(db, t, rows, keys, ign, n0)
    BY <1>2, <2>1 DEF Staying
  <2> QED BY <2>2 DEF Staying
<1>7. S!UpsertChunked(db, t, rows, keys, ign, n0) =
        [ok |-> stay = keys, db |-> S!Insert(db, t, Rows(stay), <<>>, ign, n0).db,
         keys |-> UNION {Piece(ChunkOf(k)).keys : k \in stay}]
  BY DEF S!UpsertChunked, Piece, Rows, ChunkOf
<1> HIDE DEF stay
<1>8. {Piece(ChunkOf(k)).keys : k \in stay} =
        {Statement(db, t, rows, keys, ign, n0, ChunkAt(rows, keys, k)).keys : k \in stay}
  BY <1>2, <1>4
<1> QED BY <1>3, <1>6, <1>7, <1>8

\* Every row of a batch is accepted: all are written, and all come back.
LEMMA ChunkedAccepted ==
  ASSUME StoreAssumption, NEW size \in Nat, NEW rows, DOMAIN rows = 1..size,
         NEW keys \in SUBSET KeysOf(rows), NEW db, NEW t, NEW ign, NEW n0,
         \A k \in keys : S!Valid(db, t, k, S!RowOf(db, t, k, LastOf(rows, k), <<>>, n0))
  PROVE  S!UpsertChunked(db, t, rows, keys, ign, n0) =
           [ok |-> TRUE, db |-> Written(db, t, NewRows(db, t, Chosen(rows, keys), <<>>, ign, n0)),
            keys |-> ToWrite(db, t, Chosen(rows, keys), ign)]
<1>1. ASSUME NEW some \in SUBSET keys PROVE Accepted(db, t, Chosen(rows, some), <<>>, ign, n0)
  <2>1. \A k \in some : Chosen(rows, some)[k] = LastOf(rows, k)
    BY DEF Chosen
  <2>2. ToCheck(db, t, Chosen(rows, some), ign) \subseteq some
    BY DEF ToCheck, ToWrite, Chosen
  <2> QED BY <2>1, <2>2 DEF Accepted
<1>2. ASSUME NEW n \in Nat
      PROVE  /\ Statement(db, t, rows, keys, ign, n0, n).ok = TRUE
             /\ Statement(db, t, rows, keys, ign, n0, n).keys =
                  ToWrite(db, t, Chosen(rows, ChunkKeys(rows, keys, n)), ign)
  <2> DEFINE some == Chosen(rows, ChunkKeys(rows, keys, n))
             want == ToWrite(db, t, some, ign)
  <2>1. Accepted(db, t, some, <<>>, ign, n0)
    BY <1>1 DEF ChunkKeys
  <2>2. /\ S!Insert(db, t, some, <<>>, ign, n0).ok = TRUE
        /\ S!Insert(db, t, some, <<>>, ign, n0).keys = S!AtMostMaxRows(want)
    BY <2>1, InsertIs
  <2>3. want \subseteq ChunkKeys(rows, keys, n)
    BY DEF ToWrite, Chosen
  <2>4. IsFiniteSet(ChunkKeys(rows, keys, n)) /\ Cardinality(ChunkKeys(rows, keys, n)) =< Chunk
    BY ChunksFit
  <2> HIDE DEF want
  <2>5. IsFiniteSet(want) /\ Cardinality(want) =< Cardinality(ChunkKeys(rows, keys, n))
    BY <2>3, <2>4, FS_Subset
  <2>6. Cardinality(want) =< MaxRows /\ MaxRows \in Nat
    <3>1. Cardinality(want) \in Nat /\ Cardinality(ChunkKeys(rows, keys, n)) \in Nat
      BY <2>4, <2>5, FS_CardinalityType
    <3> QED BY <2>4, <2>5, <3>1 DEF StoreAssumption
  <2>7. S!AtMostMaxRows(want) = want
    BY <2>5, <2>6, AtMostAll
  <2> QED BY <2>2, <2>7 DEF Statement, want
<1>3. Staying(db, t, rows, keys, ign, n0) = keys
  <2>1. \A k \in keys : ChunkAt(rows, keys, k) \in Nat
    BY ChunksFit DEF StoreAssumption
  <2>2. ASSUME NEW k \in keys, NEW n \in 0..ChunkAt(rows, keys, k)
        PROVE  Statement(db, t, rows, keys, ign, n0, n).ok = TRUE
    <3>1. ChunkAt(rows, keys, k) \in Nat
      BY <2>1, <2>2
    <3>2. n \in Nat
      BY <3>1, <2>2
    <3> QED BY <1>2, <3>2
  <2> QED BY <2>2 DEF Staying
<1>4. S!Insert(db, t, Chosen(rows, keys), <<>>, ign, n0).db =
        Written(db, t, NewRows(db, t, Chosen(rows, keys), <<>>, ign, n0))
  BY <1>1, InsertIs
<1>5. UNION {Statement(db, t, rows, keys, ign, n0, ChunkAt(rows, keys, k)).keys : k \in keys}
        = ToWrite(db, t, Chosen(rows, keys), ign)
  <2>1. \A k \in keys : ChunkAt(rows, keys, k) \in Nat
    BY ChunksFit
  <2>2. \A k \in keys : Statement(db, t, rows, keys, ign, n0, ChunkAt(rows, keys, k)).keys =
          ToWrite(db, t, Chosen(rows, ChunkKeys(rows, keys, ChunkAt(rows, keys, k))), ign)
    BY <1>2, <2>1
  <2>3. \A some : DOMAIN Chosen(rows, some) = some
    BY DEF Chosen
  <2>4. \A some : ToWrite(db, t, Chosen(rows, some), ign) = IF ign THEN some \ DOMAIN db[t] ELSE some
    BY <2>3 DEF ToWrite
  <2>5. \A k \in keys : k \in ChunkKeys(rows, keys, ChunkAt(rows, keys, k))
                        /\ ChunkKeys(rows, keys, ChunkAt(rows, keys, k)) \subseteq keys
    BY DEF ChunkKeys
  <2> QED BY <2>2, <2>4, <2>5
<1> QED BY <1>3, <1>4, <1>5, ChunkedIs

\* No row of a batch is accepted: nothing is written.
LEMMA ChunkedRefused ==
  ASSUME StoreAssumption, NEW size \in Nat, NEW rows, DOMAIN rows = 1..size,
         NEW keys \in SUBSET KeysOf(rows), keys # {}, NEW db, DbType(db), NEW t \in Tables, NEW n0,
         NEW ign, ign = FALSE \/ t = "context_events",
         \A k \in keys : ~S!Valid(db, t, k, S!RowOf(db, t, k, LastOf(rows, k), <<>>, n0))
  PROVE  S!UpsertChunked(db, t, rows, keys, ign, n0) = [ok |-> FALSE, db |-> db, keys |-> {}]
<1>1. ASSUME NEW k \in keys
      PROVE  Statement(db, t, rows, keys, ign, n0, ChunkAt(rows, keys, k)).ok = FALSE
  <2> DEFINE some == Chosen(rows, ChunkKeys(rows, keys, ChunkAt(rows, keys, k)))
  <2>1. DOMAIN some = ChunkKeys(rows, keys, ChunkAt(rows, keys, k)) /\ k \in DOMAIN some
        /\ some[k] = LastOf(rows, k)
    BY DEF Chosen, ChunkKeys
  <2>2. ToCheck(db, t, some, ign) = DOMAIN some
    BY DEF ToCheck, ToWrite
  <2>3. ~Accepted(db, t, some, <<>>, ign, n0)
    BY <2>1, <2>2 DEF Accepted
  <2> QED BY <2>3, InsertIs DEF Statement
<1>2. Staying(db, t, rows, keys, ign, n0) = {}
  <2>1. \A k \in keys : ChunkAt(rows, keys, k) \in Nat
    BY ChunksFit
  <2>2. \A k \in keys : ChunkAt(rows, keys, k) \in 0..ChunkAt(rows, keys, k)
    BY <2>1
  <2> QED BY <1>1, <2>2 DEF Staying
<1>3. S!Insert(db, t, Chosen(rows, {}), <<>>, ign, n0).db = db
  <2> DEFINE none == Chosen(rows, {})
  <2>1. DOMAIN none = {}
    BY DEF Chosen
  <2>2. ToWrite(db, t, none, ign) = {} /\ ToCheck(db, t, none, ign) = {}
    BY <2>1 DEF ToCheck, ToWrite
  <2>3. Accepted(db, t, none, <<>>, ign, n0)
    BY <2>2 DEF Accepted
  <2>4. S!Insert(db, t, none, <<>>, ign, n0).db = Written(db, t, NewRows(db, t, none, <<>>, ign, n0))
    BY <2>3, InsertIs
  <2>5. Over(NewRows(db, t, none, <<>>, ign, n0), db[t]) = db[t]
    <3>1. DOMAIN NewRows(db, t, none, <<>>, ign, n0) = {}
      BY <2>2 DEF NewRows
    <3>2. db[t] = [k \in DOMAIN db[t] |-> db[t][k]]
      BY DEF DbType, TableType
    <3> QED BY <3>1, <3>2 DEF Over
  <2>6. db = [u \in Tables |-> db[u]]
    BY DEF DbType
  <2> QED BY <2>4, <2>5, <2>6 DEF Written
<1>4. S!UpsertChunked(db, t, rows, keys, ign, n0) =
        [ok |-> {} = keys, db |-> db,
         keys |-> UNION {Statement(db, t, rows, keys, ign, n0, ChunkAt(rows, keys, k)).keys : k \in {}}]
  BY <1>2, <1>3, ChunkedIs
<1>5. ({} = keys) = FALSE
  OBVIOUS
<1> DEFINE back == UNION {Statement(db, t, rows, keys, ign, n0, ChunkAt(rows, keys, k)).keys : k \in {}}
<1>a. back = {}
  OBVIOUS
<1> HIDE DEF back
<1>6. S!UpsertChunked(db, t, rows, keys, ign, n0) = [ok |-> FALSE, db |-> db, keys |-> back]
  BY <1>4, <1>5 DEF back
<1> QED BY <1>a, <1>6

\* Whatever happens to a batch, the schema holds.
LEMMA ChunkedKeeps ==
  ASSUME StoreAssumption, NEW size \in Nat, NEW rows, DOMAIN rows = 1..size,
         NEW keys \in SUBSET KeysOf(rows), NEW db, DbInv(db), NEW t \in Tables, NEW n0 \in Nat, NEW ign,
         \A k \in keys : KeyFits(t, k) /\ Fits(t, LastOf(rows, k)) /\ Fills(t, LastOf(rows, k), <<>>)
  PROVE  /\ DbInv(S!UpsertChunked(db, t, rows, keys, ign, n0).db)
         /\ t \notin Derived \cup {"relationships"} =>
              (Flat(db) => Flat(S!UpsertChunked(db, t, rows, keys, ign, n0).db))
<1> DEFINE stay == Staying(db, t, rows, keys, ign, n0)
           some == Chosen(rows, stay)
           d == S!UpsertChunked(db, t, rows, keys, ign, n0)
<1>1. stay \subseteq keys
  BY DEF Staying
<1>2. DOMAIN some = stay /\ \A k \in stay : some[k] = LastOf(rows, k)
  BY DEF Chosen
<1>3. IsFiniteSet(DOMAIN some)
  <2>1. IsFiniteSet(KeysOf(rows))
    BY KeysFinite
  <2>2. DOMAIN some \subseteq KeysOf(rows)
    BY <1>1, <1>2
  <2> HIDE DEF some
  <2> QED BY <2>1, <2>2, FS_Subset
<1>4. \A k \in DOMAIN some :
        /\ KeyFits(t, k) /\ Fits(t, some[k]) /\ (k \notin DOMAIN db[t] => Fills(t, some[k], <<>>))
  BY <1>1, <1>2
<1>5. Fits(t, <<>>)
  BY NothingFits
<1>6. d.db = S!Insert(db, t, some, <<>>, ign, n0).db
  BY ChunkedIs
<1> HIDE DEF some, d
<1>7. DbInv(S!Insert(db, t, some, <<>>, ign, n0).db)
  BY <1>3, <1>4, <1>5, InsertKeeps
<1>8. t \notin Derived \cup {"relationships"} => (Flat(db) => Flat(S!Insert(db, t, some, <<>>, ign, n0).db))
  BY <1>3, <1>4, <1>5, InsertKeeps
<1> QED BY <1>6, <1>7, <1>8 DEF d

-----------------------------------------------------------------------------
(***************************************************************************)
(* Upserts of a batch.                                                     *)
(***************************************************************************)
\* The batch a caller gives, as the two stores write it.
RowsAgree(db, t, mrows, srows, n0) ==
  \A i \in DOMAIN srows :
    /\ mrows[i].key = srows[i].key /\ KeyFits(t, srows[i].key)
    /\ Fits(t, srows[i].fields) /\ Fills(t, srows[i].fields, <<>>)
    /\ S!Valid(db, t, srows[i].key, S!RowOf(db, t, srows[i].key, srows[i].fields, <<>>, n0))
    /\ View(t, S!RowOf(db, t, srows[i].key, srows[i].fields, <<>>, n0)) =
         M!StoredAs(Seen(db), t, srows[i].key, mrows[i].fields, n0)

LEMMA UpsertAgrees ==
  ASSUME StoreAssumption, NEW db, DbInv(db), NEW t \in Tables \ (Derived \cup {"relationships"}),
         NEW n0 \in Nat, NEW size \in Nat, NEW mrows, NEW srows,
         DOMAIN mrows = 1..size, DOMAIN srows = 1..size, RowsAgree(db, t, mrows, srows, n0),
         NEW existing, KeysOf(srows) \ existing = KeysOf(srows) \ DOMAIN db[t]
  PROVE  Agrees(db, M!UpsertEach(Seen(db), t, mrows, n0), S!UpsertByKey(db, t, srows, existing, n0))
<1> DEFINE K == KeysOf(srows)
           some == Chosen(srows, K)
           new == [k \in K |-> M!StoredAs(Seen(db), t, k, LastOf(mrows, k), n0)]
           Row(k) == S!RowOf(db, t, k, LastOf(srows, k), <<>>, n0)
           rows == NewRows(db, t, some, <<>>, FALSE, n0)
           after == Written(db, t, rows)
           count == Cardinality(K \ DOMAIN db[t])
           ids == [i \in 1..size |-> new[srows[i].key].id]
           m == M!UpsertEach(Seen(db), t, mrows, n0)
           s == S!UpsertByKey(db, t, srows, existing, n0)
           done == S!UpsertChunked(db, t, srows, K, FALSE, n0)
           saved == {i \in 1..size : srows[i].key \in done.keys}
<1>1. KeysOf(mrows) = K
  BY DEF RowsAgree, KeysOf
<1>2. ASSUME NEW k \in K
      PROVE  /\ KeyFits(t, k) /\ Fits(t, LastOf(srows, k)) /\ Fills(t, LastOf(srows, k), <<>>)
             /\ S!Valid(db, t, k, Row(k)) /\ View(t, Row(k)) = new[k]
  <2>1. PICK i \in 1..size : srows[i].key = k /\ LastOf(srows, k) = srows[i].fields
                             /\ i = Max({j \in 1..size : srows[j].key = k})
    BY LastOfIs
  <2>2. PICK j \in 1..size : mrows[j].key = k /\ LastOf(mrows, k) = mrows[j].fields
                             /\ j = Max({p \in 1..size : mrows[p].key = k})
    BY <1>1, LastOfIs
  <2>3. {j0 \in 1..size : srows[j0].key = k} = {p \in 1..size : mrows[p].key = k}
    BY DEF RowsAgree
  <2>4. i = j
    BY <2>1, <2>2, <2>3
  <2>5. /\ KeyFits(t, srows[i].key) /\ Fits(t, srows[i].fields) /\ Fills(t, srows[i].fields, <<>>)
        /\ S!Valid(db, t, srows[i].key, S!RowOf(db, t, srows[i].key, srows[i].fields, <<>>, n0))
        /\ View(t, S!RowOf(db, t, srows[i].key, srows[i].fields, <<>>, n0)) =
             M!StoredAs(Seen(db), t, srows[i].key, mrows[i].fields, n0)
    BY <2>1 DEF RowsAgree
  <2> QED BY <2>1, <2>2, <2>4, <2>5
<1>3. DOMAIN some = K /\ \A k \in K : some[k] = LastOf(srows, k)
  BY DEF Chosen
<1>4. IsFiniteSet(DOMAIN some)
  BY <1>3, KeysFinite
<1>5. t \in Tables /\ Fits(t, <<>>)
  BY NothingFits
<1>6. ToWrite(db, t, some, FALSE) = K /\ ToCheck(db, t, some, FALSE) \subseteq K
  BY <1>3 DEF ToCheck, ToWrite
<1>7. done = [ok |-> TRUE, db |-> after, keys |-> K]
  <2>1. \A k \in K : S!Valid(db, t, k, S!RowOf(db, t, k, LastOf(srows, k), <<>>, n0))
    BY <1>2
  <2> HIDE DEF K
  <2>2. K \in SUBSET KeysOf(srows)
    BY DEF K
  <2>3. ASSUME NEW ign
        PROVE  S!UpsertChunked(db, t, srows, K, ign, n0) =
                 [ok |-> TRUE, db |-> Written(db, t, NewRows(db, t, Chosen(srows, K), <<>>, ign, n0)),
                  keys |-> ToWrite(db, t, Chosen(srows, K), ign)]
    BY <2>1, <2>2, ChunkedAccepted
  <2> QED BY <1>6, <2>3
<1>8. Accepted(db, t, some, <<>>, FALSE, n0)
  BY <1>2, <1>3, <1>6 DEF Accepted
<1>9. S!Insert(db, t, some, <<>>, FALSE, n0).db = after
  BY <1>8, InsertIs
<1>10. NewViews(db, t, some, <<>>, FALSE, n0) = new
  BY <1>2, <1>3, <1>6 DEF NewViews
<1>11. DbInv(after) /\ (Flat(db) => Flat(after)) /\ Seen(after) = Written(Seen(db), t, new)
  <2>1. \A k \in DOMAIN some :
           /\ KeyFits(t, k) /\ Fits(t, some[k])
           /\ k \notin DOMAIN db[t] => Fills(t, some[k], <<>>)
    BY <1>2, <1>3
  <2> HIDE DEF some, after, new
  <2>2. DbInv(S!Insert(db, t, some, <<>>, FALSE, n0).db)
    BY <1>4, <1>5, <2>1, InsertKeeps
  <2>3. Flat(db) => Flat(S!Insert(db, t, some, <<>>, FALSE, n0).db)
    BY <1>4, <1>5, <2>1, InsertKeeps
  <2>4. ASSUME NEW ign, Accepted(db, t, some, <<>>, ign, n0)
        PROVE  Seen(S!Insert(db, t, some, <<>>, ign, n0).db) =
                 Written(Seen(db), t, NewViews(db, t, some, <<>>, ign, n0))
    BY <1>4, <1>5, <2>1, <2>4, InsertKeeps
  <2> QED BY <1>8, <1>9, <1>10, <2>2, <2>3, <2>4
<1>12. \A k \in K : after[t][k] = Row(k)
  <2>1. DOMAIN db = Tables
    BY DEF DbInv, DbType
  <2>2. after[t] = Over(rows, db[t])
    BY <2>1 DEF Written
  <2>3. DOMAIN rows = K /\ \A k \in K : rows[k] = Row(k)
    BY <1>3, <1>6 DEF NewRows
  <2> HIDE DEF rows, after
  <2> QED BY <2>2, <2>3 DEF Over
<1>13. \A k \in K : new[k].id = Row(k).id
  <2>1. ASSUME NEW k \in K PROVE RowType(t, k, Row(k))
    <3>1. DbType(db)
      BY DEF DbInv
    <3> QED BY <1>2, <1>5, <3>1, RowOfType
  <2>2. ASSUME NEW k \in K PROVE View(t, Row(k)).id = Row(k).id
    <3> HIDE DEF Row
    <3> QED BY <1>5, <2>1, ViewKeeps
  <2> QED BY <1>2, <2>2
<1>14. m = [db |-> Written(Seen(db), t, new),
            answer |-> <<"ok", [rows |-> ids, inserted |-> count]>>]
  <2>1. DOMAIN Seen(db)[t] = DOMAIN db[t]
    BY <1>5, SeenIds DEF DbInv
  <2>2. \A i \in 1..size : mrows[i].key = srows[i].key
    BY DEF RowsAgree
  <2>3. M!KeysOf(mrows) = K /\ \A k : M!LastOf(mrows, k) = LastOf(mrows, k)
    BY <1>1, SameHelpers
  <2> DEFINE mnew == [k \in M!KeysOf(mrows) |-> M!StoredAs(Seen(db), t, k, M!LastOf(mrows, k), n0)]
  <2>4. mnew = new
    BY <2>3
  <2>5. m = [db |-> [Seen(db) EXCEPT ![t] = M!Over(mnew, @)],
             answer |-> <<"ok", [rows |-> [i \in DOMAIN mrows |-> mnew[mrows[i].key].id],
                                 inserted |-> M!Cardinality(M!KeysOf(mrows) \ DOMAIN Seen(db)[t])]>>]
    BY SameHelpers DEF M!UpsertEach
  <2> HIDE DEF mnew, new
  <2>6. [Seen(db) EXCEPT ![t] = M!Over(mnew, @)] = Written(Seen(db), t, new)
    BY <2>4, SameHelpers DEF Written
  <2>7. [i \in DOMAIN mrows |-> mnew[mrows[i].key].id] = ids
    BY <2>2, <2>4
  <2>8. M!Cardinality(M!KeysOf(mrows) \ DOMAIN Seen(db)[t]) = count
    BY <2>1, <2>3, SameCardinality
  <2> HIDE DEF m, ids, count
  <2> QED BY <2>5, <2>6, <2>7, <2>8
<1>a. done.ok = TRUE /\ done.db = after /\ done.keys = K
  <2> HIDE DEF done, after, K
  <2> QED BY <1>7
<1>15. saved = 1..size
  <2>1. \A i \in 1..size : srows[i].key \in K
    BY DEF KeysOf
  <2> HIDE DEF done, K
  <2> QED BY <1>a, <2>1
<1>16. s = [db |-> after, answer |-> <<"ok", [rows |-> ids, inserted |-> count]>>]
  <2> DEFINE sids == [i \in saved |-> done.db[t][srows[i].key].id]
             scount == S!Cardinality(done.keys \ existing)
  <2>1. s = IF ~done.ok THEN [S!Refused(db, "integrity") EXCEPT !.db = done.db]
            ELSE [db |-> done.db, answer |-> <<"ok", [rows |-> sids, inserted |-> scount]>>]
    BY SameHelpers DEF S!UpsertByKey
  <2>3. scount = count
    BY <1>a, SameCardinality
  <2>4. sids = ids
    <3>1. \A i \in 1..size : srows[i].key \in K
      BY DEF KeysOf
    <3>2. \A i \in 1..size : after[t][srows[i].key].id = new[srows[i].key].id
      BY <1>12, <1>13, <3>1
    <3> HIDE DEF after, new, done, saved
    <3> QED BY <1>15, <1>a, <3>2
  <2> HIDE DEF s, sids, scount, done, after, ids, count
  <2> QED BY <1>a, <2>1, <2>3, <2>4
<1> HIDE DEF m, s, after, new, ids, count
<1>17. m.db = Seen(after) /\ s.db = after /\ m.answer = s.answer
  BY <1>11, <1>14, <1>16
<1>18. Agrees(db, m, s)
  BY <1>11, <1>17 DEF Agrees
<1> QED BY <1>18 DEF m, s

LEMMA UpsertRefused ==
  ASSUME StoreAssumption, NEW db, DbInv(db), NEW t \in Tables,
         NEW n0, NEW size \in Nat \ {0}, NEW srows, DOMAIN srows = 1..size, NEW existing,
         \A i \in 1..size :
           ~S!Valid(db, t, srows[i].key, S!RowOf(db, t, srows[i].key, srows[i].fields, <<>>, n0))
  PROVE  S!UpsertByKey(db, t, srows, existing, n0) = [db |-> db, answer |-> <<"integrity", None>>]
<1> DEFINE K == KeysOf(srows)
           done == S!UpsertChunked(db, t, srows, K, FALSE, n0)
<1>1. K # {} /\ K \in SUBSET KeysOf(srows)
  BY DEF KeysOf
<1>2. ASSUME NEW k \in K
      PROVE  ~S!Valid(db, t, k, S!RowOf(db, t, k, LastOf(srows, k), <<>>, n0))
  <2>1. PICK i \in 1..size : srows[i].key = k /\ LastOf(srows, k) = srows[i].fields
                             /\ i = Max({j \in 1..size : srows[j].key = k})
    BY LastOfIs
  <2> QED BY <2>1
<1>3. done.ok = FALSE /\ done.db = db
  <2>1. DbType(db)
    BY DEF DbInv
  <2>2. \A k \in K : ~S!Valid(db, t, k, S!RowOf(db, t, k, LastOf(srows, k), <<>>, n0))
    BY <1>2
  <2> HIDE DEF K
  <2>3. K \in SUBSET KeysOf(srows) /\ K # {}
    BY <1>1 DEF K
  <2>4. ASSUME NEW ign, ign = FALSE \/ t = "context_events"
        PROVE  S!UpsertChunked(db, t, srows, K, ign, n0) = [ok |-> FALSE, db |-> db, keys |-> {}]
    BY <2>1, <2>2, <2>3, <2>4, ChunkedRefused
  <2>5. S!UpsertChunked(db, t, srows, K, FALSE, n0) = [ok |-> FALSE, db |-> db, keys |-> {}]
    BY <2>4
  <2> HIDE DEF done
  <2>6. done = [ok |-> FALSE, db |-> db, keys |-> {}]
    BY <2>5 DEF done
  <2> QED BY <2>6
<1>4. S!UpsertByKey(db, t, srows, existing, n0) =
        IF ~done.ok THEN [S!Refused(db, "integrity") EXCEPT !.db = done.db]
        ELSE S!Done(done.db, [rows |-> [i \in {i \in DOMAIN srows : srows[i].key \in done.keys} |->
                                          done.db[t][srows[i].key].id],
                              inserted |-> S!Cardinality(done.keys \ existing)])
  BY SameHelpers DEF S!UpsertByKey
<1> HIDE DEF done
<1>5. S!UpsertByKey(db, t, srows, existing, n0) = [S!Refused(db, "integrity") EXCEPT !.db = db]
  BY <1>3, <1>4
<1>6. S!Refused(db, "integrity") = [db |-> db, answer |-> <<"integrity", None>>]
  BY SameHelpers
<1> QED BY <1>5, <1>6

\* The columns of a row that is written.
LEMMA RowOfIs ==
  ASSUME NEW db, DbType(db), NEW t \in Tables, NEW key, NEW fields, NEW n,
         Fits(t, fields), Fills(t, fields, <<>>)
  PROVE  LET row == S!RowOf(db, t, key, fields, <<>>, n)
         IN /\ \A c \in DOMAIN fields : row[c] = fields[c]
            /\ t \in S!Updatable => row["updatedAt"] = n
            /\ key \in DOMAIN db[t] => /\ row["id"] = db[t][key]["id"]
                                       /\ row["createdAt"] = db[t][key]["createdAt"]
            /\ key \notin DOMAIN db[t] => row["id"] = <<t, key, n>> /\ row["createdAt"] = n
<1> DEFINE row == S!RowOf(db, t, key, fields, <<>>, n)
<1>0. {"id", "createdAt"} \subseteq Columns(t)
  BY DEF Columns
<1>a. "updatedAt" \in Columns(t) => S!Stamp(t, n)["updatedAt"] = n
  BY StampIs
<1>b. DOMAIN S!Stamp(t, n) = Columns(t) \cap {"updatedAt"}
  BY StampIs
<1>c. t \in S!Updatable <=> "updatedAt" \in Columns(t)
  BY StampIs
<1>1. CASE key \in DOMAIN db[t]
  <2> DEFINE old == db[t][key]
             mid == Over(S!Stamp(t, n), old)
  <2>1. RowType(t, key, old)
    BY <1>1 DEF DbType, TableType
  <2>2. row = Over(fields, mid)
    BY <1>1, SameHelpers DEF S!RowOf
  <2>3. DOMAIN old = Columns(t)
    BY <2>1 DEF RowType
  <2>4. /\ DOMAIN mid = Columns(t) /\ \A c \in Columns(t) \ {"updatedAt"} : mid[c] = old[c]
        /\ "updatedAt" \in Columns(t) => mid["updatedAt"] = n
    BY <2>3, <1>a, <1>b DEF Over
  <2>5. /\ \A c \in DOMAIN fields : row[c] = fields[c]
        /\ \A c \in Columns(t) \ DOMAIN fields : row[c] = mid[c]
    BY <2>2, <2>4 DEF Over, Fits
  <2>6. row["id"] = old["id"] /\ row["createdAt"] = old["createdAt"]
    BY <1>0, <2>4, <2>5 DEF Fits
  <2>7. t \in S!Updatable => row["updatedAt"] = n
    BY <1>c, <2>4, <2>5 DEF Fits
  <2> HIDE DEF row
  <2> QED BY <1>1, <2>5, <2>6, <2>7 DEF row
<1>2. CASE key \notin DOMAIN db[t]
  <2> DEFINE born == [id |-> <<t, key, n>>, createdAt |-> n]
             mid == Over(S!Stamp(t, n), born)
             with == Over(<<>>, mid)
  <2>1. row = Over(fields, with)
    BY <1>2, SameHelpers DEF S!RowOf
  <2>2. /\ DOMAIN mid = {"id", "createdAt"} \cup (Columns(t) \cap {"updatedAt"})
        /\ mid["id"] = <<t, key, n>> /\ mid["createdAt"] = n
        /\ "updatedAt" \in Columns(t) => mid["updatedAt"] = n
    BY <1>a, <1>b DEF Over
  <2>3. DOMAIN with = DOMAIN mid /\ \A c \in DOMAIN mid : with[c] = mid[c]
    BY <2>2 DEF Over
  <2>4. /\ \A c \in DOMAIN fields : row[c] = fields[c]
        /\ \A c \in DOMAIN with \ DOMAIN fields : row[c] = with[c]
    BY <2>1 DEF Over
  <2>6. row["id"] = <<t, key, n>> /\ row["createdAt"] = n /\ ("updatedAt" \in Columns(t) => row["updatedAt"] = n)
    BY <2>2, <2>3, <2>4 DEF Fits
  <2> HIDE DEF row
  <2> QED BY <1>2, <1>c, <2>4, <2>6 DEF row
<1> QED BY <1>1, <1>2

LEMMA MailView ==
  ASSUME NEW r
  PROVE  View("mail_messages", r) =
           [id |-> r.id, data |-> r.data, receivedAt |-> r.receivedAt,
            from |-> IF r.fromAddress = None THEN None
                     ELSE [email |-> r.fromAddress, personId |-> r.fromPersonId],
            createdAt |-> r.createdAt, updatedAt |-> r.updatedAt]
BY DEF View, MailMessageFromRow

MailFields(w, n) ==
  [data |-> w.data, receivedAt |-> w.receivedAt, updatedAt |-> n,
   from |-> IF w.from = None THEN None ELSE [email |-> w.from, personId |-> w.fromPersonId]]

LEMMA MailRow ==
  ASSUME NEW db, DbInv(db), NEW key, key[1] \in DOMAIN db.connector_accounts, NEW w \in Mails, NEW n \in Nat
  PROVE  LET t == "mail_messages"
             fields == S!MailMessageToRow(w)
             row == S!RowOf(db, t, key, fields, <<>>, n)
         IN /\ Fits(t, fields) /\ Fills(t, fields, <<>>) /\ KeyFits(t, key) /\ S!Valid(db, t, key, row)
            /\ View(t, row) = M!StoredAs(Seen(db), t, key, MailFields(w, n), n)
<1> DEFINE t == "mail_messages"
           fields == S!MailMessageToRow(w)
           row == S!RowOf(db, t, key, fields, <<>>, n)
           old == db[t][key]
<1>1. t \in Tables /\ t \in S!Updatable
  BY DEF Tables, S!Updatable
<1>2. fields = [data |-> w.data, receivedAt |-> w.receivedAt, fromAddress |-> w.from,
                fromPersonId |-> IF w.from = None THEN None ELSE w.fromPersonId]
  BY DEF S!MailMessageToRow
<1>3. w.receivedAt \in Nat /\ w.fromPersonId = FirstRef
  BY DEF Mails, Mail
<1>4. Fits(t, fields) /\ Fills(t, fields, <<>>) /\ KeyFits(t, key)
  BY <1>2, <1>3, ColumnsOf DEF Fits, Fills, KeyFits
<1>5. /\ row["data"] = w.data /\ row["receivedAt"] = w.receivedAt /\ row["fromAddress"] = w.from
      /\ row["fromPersonId"] = (IF w.from = None THEN None ELSE w.fromPersonId)
      /\ row["updatedAt"] = n
      /\ key \in DOMAIN db[t] => row["id"] = old["id"] /\ row["createdAt"] = old["createdAt"]
      /\ key \notin DOMAIN db[t] => row["id"] = <<t, key, n>> /\ row["createdAt"] = n
  <2>1. DbType(db)
    BY DEF DbInv
  <2>2. /\ \A c \in DOMAIN fields : row[c] = fields[c]
        /\ t \in S!Updatable => row["updatedAt"] = n
        /\ key \in DOMAIN db[t] => row["id"] = old["id"] /\ row["createdAt"] = old["createdAt"]
        /\ key \notin DOMAIN db[t] => row["id"] = <<t, key, n>> /\ row["createdAt"] = n
    <3> HIDE DEF fields
    <3> QED BY <1>1, <1>4, <2>1, RowOfIs
  <2> HIDE DEF row
  <2> QED BY <1>1, <1>2, <2>2
<1>6. S!Valid(db, t, key, row)
  <2>1. S!Refers(db, "people", row["fromPersonId"])
    <3>1. row["fromPersonId"] = None \/ row["fromPersonId"] = FirstRef
      BY <1>3, <1>5
    <3> HIDE DEF row
    <3> QED BY <3>1, SameHelpers DEF S!Refers, DbInv
  <2> HIDE DEF row
  <2> QED BY <2>1 DEF S!Valid
<1>7. View(t, row) = M!StoredAs(Seen(db), t, key, MailFields(w, n), n)
  <2> DEFINE from == IF w.from = None THEN None ELSE [email |-> w.from, personId |-> w.fromPersonId]
  <2>1. View(t, row) = [id |-> row.id, data |-> w.data, receivedAt |-> w.receivedAt, from |-> from,
                        createdAt |-> row.createdAt, updatedAt |-> n]
    <3> HIDE DEF row
    <3> QED BY <1>5, MailView
  <2> HIDE DEF from
  <2>2. MailFields(w, n) = [data |-> w.data, receivedAt |-> w.receivedAt, updatedAt |-> n, from |-> from]
    BY DEF MailFields, from
  <2>3. CASE key \in DOMAIN db[t]
    <3>1. M!StoredAs(Seen(db), t, key, MailFields(w, n), n) = Over(MailFields(w, n), View(t, old))
      BY <1>1, <2>3, StoredIs
    <3>2. /\ DOMAIN View(t, old) = {"id", "data", "receivedAt", "from", "createdAt", "updatedAt"}
          /\ View(t, old)["id"] = old["id"] /\ View(t, old)["createdAt"] = old["createdAt"]
      BY MailView
    <3> HIDE DEF old, row
    <3> QED BY <1>5, <2>1, <2>2, <2>3, <3>1, <3>2 DEF Over
  <2>4. CASE key \notin DOMAIN db[t]
    <3>1. M!StoredAs(Seen(db), t, key, MailFields(w, n), n) =
            Over(MailFields(w, n), [id |-> <<t, key, n>>, createdAt |-> n])
      BY <1>1, <2>4, StoredIs
    <3> HIDE DEF row
    <3> QED BY <1>5, <2>1, <2>2, <2>4, <3>1 DEF Over
  <2> QED BY <2>3, <2>4
<1> QED BY <1>4, <1>6, <1>7

LEMMA BatchIs ==
  ASSUME StoreAssumption, NEW rows, NEW batch \in Batches(rows)
  PROVE  \E size \in Nat : /\ DOMAIN batch = 1..size /\ \A i \in 1..size : batch[i] \in rows
                           /\ batch # <<>> => size # 0
<1>1. PICK size \in 0..MaxBatch : batch \in [1..size -> rows]
  BY DEF Batches
<1>2. size \in Nat
  BY DEF StoreAssumption
<1>3. size = 0 => batch = <<>>
  BY <1>1
<1> QED BY <1>1, <1>2, <1>3

LEMMA UpsertMailMessagesAgrees ==
  ASSUME StoreAssumption, NEW db, DbInv(db), NEW a, NEW batch \in Batches(Mails), NEW n \in Nat,
         a \in DOMAIN db.connector_accounts \/ batch # <<>>
  PROVE  Agrees(db, M!UpsertMailMessages(Seen(db), a, batch, n), S!UpsertMailMessages(db, a, batch, n))
<1> DEFINE t == "mail_messages"
           srows == [i \in DOMAIN batch |-> [key |-> <<a, batch[i].externalId>>,
                                             fields |-> S!MailMessageToRow(batch[i])]]
           mrows == [i \in DOMAIN batch |-> [key |-> <<a, batch[i].externalId>>,
                                             fields |-> MailFields(batch[i], n)]]
           existing == DOMAIN db[t] \cap KeysOf(srows)
           m == M!UpsertMailMessages(Seen(db), a, batch, n)
           s == S!UpsertMailMessages(db, a, batch, n)
<1>1. PICK size \in Nat : /\ DOMAIN batch = 1..size /\ \A i \in 1..size : batch[i] \in Mails
                          /\ batch # <<>> => size # 0
  BY BatchIs
<1>2. t \in Tables \ (Derived \cup {"relationships"}) /\ t \in Tables /\ "connector_accounts" \in Tables
  BY DEF Tables, Derived
<1>3. DOMAIN Seen(db).connector_accounts = DOMAIN db.connector_accounts
  BY <1>2, SeenIds DEF DbInv
<1>4. m = IF a \notin DOMAIN db.connector_accounts
          THEN [db |-> Seen(db), answer |-> <<"integrity", None>>]
          ELSE M!UpsertEach(Seen(db), t, mrows, n)
  BY <1>3, SameHelpers DEF M!UpsertMailMessages, MailFields
<1>5. s = S!UpsertByKey(db, t, srows, existing, n)
  BY SameHelpers DEF S!UpsertMailMessages, S!ExistingExternalIds
<1>6. DOMAIN srows = 1..size /\ DOMAIN mrows = 1..size
  BY <1>1
<1>7. CASE a \in DOMAIN db.connector_accounts
  <2>1. RowsAgree(db, t, mrows, srows, n)
    <3> SUFFICES ASSUME NEW i \in 1..size
                 PROVE  /\ mrows[i].key = srows[i].key /\ KeyFits(t, srows[i].key)
                        /\ Fits(t, srows[i].fields) /\ Fills(t, srows[i].fields, <<>>)
                        /\ S!Valid(db, t, srows[i].key, S!RowOf(db, t, srows[i].key, srows[i].fields, <<>>, n))
                        /\ View(t, S!RowOf(db, t, srows[i].key, srows[i].fields, <<>>, n)) =
                             M!StoredAs(Seen(db), t, srows[i].key, mrows[i].fields, n)
      BY <1>6 DEF RowsAgree
    <3> DEFINE key == <<a, batch[i].externalId>>
    <3>1. /\ srows[i].key = key /\ mrows[i].key = key
          /\ srows[i].fields = S!MailMessageToRow(batch[i])
          /\ mrows[i].fields = MailFields(batch[i], n)
      BY <1>1
    <3>2. key[1] \in DOMAIN db.connector_accounts
      BY <1>7
    <3> HIDE DEF key, srows, mrows
    <3>3. /\ Fits(t, S!MailMessageToRow(batch[i])) /\ Fills(t, S!MailMessageToRow(batch[i]), <<>>)
          /\ KeyFits(t, key)
          /\ S!Valid(db, t, key, S!RowOf(db, t, key, S!MailMessageToRow(batch[i]), <<>>, n))
          /\ View(t, S!RowOf(db, t, key, S!MailMessageToRow(batch[i]), <<>>, n)) =
               M!StoredAs(Seen(db), t, key, MailFields(batch[i], n), n)
      BY <1>1, <3>2, MailRow
    <3> QED BY <3>1, <3>3
  <2>2. KeysOf(srows) \ existing = KeysOf(srows) \ DOMAIN db[t]
    OBVIOUS
  <2> HIDE DEF srows, mrows, existing
  <2>3. Agrees(db, M!UpsertEach(Seen(db), t, mrows, n), S!UpsertByKey(db, t, srows, existing, n))
    BY <1>2, <1>6, <2>1, <2>2, UpsertAgrees
  <2> QED BY <1>4, <1>5, <1>7, <2>3 DEF m, s
<1>8. CASE a \notin DOMAIN db.connector_accounts
  <2>1. size \in Nat \ {0}
    BY <1>1, <1>8
  <2>2. \A i \in 1..size : srows[i].key[1] = a
    BY <1>1
  <2>3. \A i \in 1..size :
           ~S!Valid(db, t, srows[i].key, S!RowOf(db, t, srows[i].key, srows[i].fields, <<>>, n))
    <3> HIDE DEF srows
    <3> QED BY <1>8, <2>2 DEF S!Valid
  <2> HIDE DEF srows, existing
  <2>4. s = [db |-> db, answer |-> <<"integrity", None>>]
    BY <1>2, <1>5, <1>6, <2>1, <2>3, UpsertRefused
  <2> QED BY <1>4, <1>8, <2>4, NothingDone
<1> QED BY <1>7, <1>8

-----------------------------------------------------------------------------
(***************************************************************************)
(* Money: numeric(20, 4) keeps a decimal of at most four digits.           *)
(***************************************************************************)
Significant(fraction) == {i \in DOMAIN fraction : fraction[i] # 0}
Shown(fraction) == IF Significant(fraction) = {} THEN 0 ELSE Max(Significant(fraction))

LEMMA ShownIs ==
  ASSUME NEW size \in Nat, NEW fraction, DOMAIN fraction = 1..size
  PROVE  /\ Shown(fraction) \in 0..size
         /\ \A i \in 1..size : i > Shown(fraction) => fraction[i] = 0
         /\ Shown(fraction) # 0 => fraction[Shown(fraction)] # 0
         /\ Shown(fraction) = 0 <=> Significant(fraction) = {}
<1> DEFINE T == Significant(fraction)
<1>1. T \in SUBSET (1..size)
  BY DEF Significant
<1>2. CASE T = {}
  BY <1>2 DEF Shown, Significant
<1>3. CASE T # {}
  <2>1. Max(T) \in T /\ \A i \in T : i =< Max(T)
    <3> HIDE DEF T
    <3> QED BY <1>1, <1>3, MaxIs
  <2>2. Shown(fraction) = Max(T)
    BY <1>3 DEF Shown
  <2>3. Max(T) \in 1..size
    BY <1>1, <2>1
  <2>4. \A i \in 1..size : i > Max(T) => i \notin T
    BY <1>1, <2>1, <2>3
  <2>5. \A i \in 1..size : i > Max(T) => fraction[i] = 0
    BY <2>4 DEF Significant
  <2>6. fraction[Max(T)] # 0
    BY <2>1 DEF Significant
  <2> HIDE DEF T
  <2> QED BY <1>3, <2>2, <2>3, <2>5, <2>6 DEF T
<1> QED BY <1>2, <1>3

LEMMA FrontIs ==
  ASSUME NEW size \in Nat, NEW fraction, DOMAIN fraction = 1..size,
         \A i \in 1..size : fraction[i] \in 0..9, NEW n \in 0..size
  PROVE  SubSeq(fraction, 1, n) = [i \in 1..n |-> fraction[i]]
<1> DEFINE front == SubSeq(fraction, 1, n)
<1>1. \A i \in 1..n : fraction[i] \in 0..9
  OBVIOUS
<1>2. n \in Int /\ 1 \in Int
  OBVIOUS
<1>3. /\ front \in Seq(0..9) /\ Len(front) = IF 1 <= n THEN n - 1 + 1 ELSE 0
      /\ \A i \in 1..n - 1 + 1 : front[i] = fraction[1 + i - 1]
  BY <1>1, <1>2, SubSeqProperties
<1>4. Len(front) = n /\ \A i \in 1..n : front[i] = fraction[i]
  BY <1>3
<1>5. front = [i \in 1..Len(front) |-> front[i]]
  BY <1>3
<1> HIDE DEF front
<1>6. front = [i \in 1..n |-> fraction[i]]
  BY <1>4, <1>5
<1> QED BY <1>6 DEF front

LEMMA CanonicalIs ==
  ASSUME NEW d, NEW size \in Nat, DOMAIN d.fraction = 1..size,
         \A i \in 1..size : d.fraction[i] \in 0..9
  PROVE  LET n == Shown(d.fraction)
             zero == d.whole = 0 /\ n = 0
         IN CanonicalDecimal(d) =
              [sign |-> IF d.sign = "+" \/ zero THEN "" ELSE d.sign, whole |-> d.whole,
               fraction |-> [i \in 1..n |-> d.fraction[i]]]
<1> DEFINE n == Shown(d.fraction)
           digits == SubSeq(d.fraction, 1, n)
<1>1. n \in 0..size
  BY ShownIs
<1>2. digits = [i \in 1..n |-> d.fraction[i]]
  BY <1>1, FrontIs
<1>3. digits = <<>> <=> n = 0
  <2>2. DOMAIN digits = 1..n
    BY <1>2
  <2>3. n = 0 => digits = <<>>
    BY <1>2
  <2>4. digits = <<>> => n = 0
    <3> HIDE DEF digits, n
    <3>1. DOMAIN <<>> = {}
      OBVIOUS
    <3> QED BY <1>1, <2>2, <3>1
  <2> QED BY <2>3, <2>4
<1>4. CanonicalDecimal(d) =
        [sign |-> IF d.sign = "+" \/ (d.whole = 0 /\ digits = <<>>) THEN "" ELSE d.sign,
         whole |-> d.whole, fraction |-> digits]
  BY DEF CanonicalDecimal, Shown, Significant
<1> HIDE DEF digits, n
<1> QED BY <1>2, <1>3, <1>4 DEF n

LEMMA SameDecimals ==
  ASSUME NEW d
  PROVE  /\ S!CanonicalDecimal(d) = CanonicalDecimal(d) /\ M!CanonicalDecimal(d) = CanonicalDecimal(d)
         /\ S!Numeric(d) = Numeric(d)
<1>1. \A T : S!Max(T) = Max(T) /\ M!Max(T) = Max(T)
  BY DEF S!Max, M!Max, Max
<1>2. S!CanonicalDecimal(d) = CanonicalDecimal(d)
  BY <1>1 DEF S!CanonicalDecimal, CanonicalDecimal
<1>3. M!CanonicalDecimal(d) = CanonicalDecimal(d)
  BY <1>1 DEF M!CanonicalDecimal, CanonicalDecimal
<1>4. S!Numeric(d) = Numeric(d)
  BY DEF S!Numeric, Numeric
<1> QED BY <1>2, <1>3, <1>4

\* What a client writes is what it reads again.
LEMMA NumericKeeps ==
  ASSUME NEW d \in Decimal, NEW size \in 0..4, DOMAIN d.fraction = 1..size
  PROVE  CanonicalDecimal(Numeric(CanonicalDecimal(d))) = CanonicalDecimal(d)
<1> DEFINE n == Shown(d.fraction)
           zero == d.whole = 0 /\ n = 0
           c == CanonicalDecimal(d)
           p == Numeric(c)
           short == [i \in 1..n |-> d.fraction[i]]
           padded == [i \in 1..4 |-> IF i \in 1..n THEN d.fraction[i] ELSE 0]
<1>1. size \in Nat /\ d.sign \in {"", "+", "-"} /\ \A i \in 1..size : d.fraction[i] \in 0..9
  <2>1. d.fraction \in Seq(0..9) /\ d.sign \in {"", "+", "-"}
    BY DEF Decimal
  <2> DEFINE f == d.fraction
  <2>2. f \in Seq(0..9) /\ DOMAIN f = 1..size
    BY <2>1
  <2> HIDE DEF f
  <2>3. \A i \in 1..size : f[i] \in 0..9
    <3>1. DOMAIN f = 1..Len(f) /\ \A i \in 1..Len(f) : f[i] \in 0..9
      BY <2>2
    <3> QED BY <2>2, <3>1
  <2>4. size \in Nat
    OBVIOUS
  <2> QED BY <2>1, <2>3, <2>4 DEF f
<1>2. /\ n \in 0..size /\ \A i \in 1..size : i > n => d.fraction[i] = 0
      /\ n # 0 => d.fraction[n] # 0
  BY <1>1, ShownIs
<1>3. c = [sign |-> IF d.sign = "+" \/ zero THEN "" ELSE d.sign, whole |-> d.whole, fraction |-> short]
  BY <1>1, CanonicalIs
<1>4. c.sign = (IF d.sign = "+" \/ zero THEN "" ELSE d.sign) /\ c.whole = d.whole /\ c.fraction = short
  <2> HIDE DEF c, short, zero
  <2> QED BY <1>3
<1>5. DOMAIN short = 1..n /\ \A i \in 1..n : short[i] = d.fraction[i]
  OBVIOUS
<1>6. p = [sign |-> IF c.sign = "-" /\ (c.whole # 0 \/ \E i \in DOMAIN c.fraction : c.fraction[i] # 0)
                    THEN "-" ELSE "",
           whole |-> c.whole,
           fraction |-> [i \in 1..4 |-> IF i \in DOMAIN c.fraction THEN c.fraction[i] ELSE 0]]
  BY DEF Numeric
<1> HIDE DEF c
<1>7. [i \in 1..4 |-> IF i \in DOMAIN c.fraction THEN c.fraction[i] ELSE 0] = padded
  BY <1>4, <1>5
<1>8. (IF c.sign = "-" /\ (c.whole # 0 \/ \E i \in DOMAIN c.fraction : c.fraction[i] # 0)
       THEN "-" ELSE "") = c.sign
  <2>1. c.sign = "-" => c.whole # 0 \/ \E i \in DOMAIN c.fraction : c.fraction[i] # 0
    <3> SUFFICES ASSUME c.sign = "-", c.whole = 0
                 PROVE  \E i \in DOMAIN c.fraction : c.fraction[i] # 0
      OBVIOUS
    <3>1. n # 0
      BY <1>4
    <3>2. n \in 1..n /\ short[n] # 0
      BY <1>2, <3>1
    <3> HIDE DEF short
    <3> QED BY <1>4, <1>5, <3>2
  <2>2. c.sign \in {"", "-"}
    BY <1>1, <1>4
  <2> QED BY <2>1, <2>2
<1> HIDE DEF p, padded
<1>9. p = [sign |-> c.sign, whole |-> d.whole, fraction |-> padded]
  BY <1>4, <1>6, <1>7, <1>8
<1>10. p.sign = c.sign /\ p.whole = d.whole /\ p.fraction = padded
  BY <1>9
<1>11. /\ DOMAIN padded = 1..4 /\ \A i \in 1..4 : padded[i] \in 0..9
       /\ \A i \in 1..4 : padded[i] = IF i \in 1..n THEN d.fraction[i] ELSE 0
  <2> HIDE DEF n
  <2>1. DOMAIN padded = 1..4 /\ \A i \in 1..4 : padded[i] = IF i \in 1..n THEN d.fraction[i] ELSE 0
    BY DEF padded
  <2>2. \A i \in 1..n : d.fraction[i] \in 0..9
    <3>1. n \in 0..size /\ size \in Nat
      BY <1>1, <1>2
    <3>2. \A i \in 1..n : i \in 1..size
      BY <3>1
    <3> QED BY <1>1, <3>2
  <2> QED BY <2>1, <2>2
<1>12. Shown(padded) = n
  <2>1. n \in 0..4
    BY <1>2
  <2>2. /\ Shown(padded) \in 0..4 /\ \A i \in 1..4 : i > Shown(padded) => padded[i] = 0
        /\ Shown(padded) # 0 => padded[Shown(padded)] # 0
    <3>1. ASSUME NEW four \in Nat, four = 4
          PROVE  /\ Shown(padded) \in 0..four /\ \A i \in 1..four : i > Shown(padded) => padded[i] = 0
                 /\ Shown(padded) # 0 => padded[Shown(padded)] # 0
      <4>1. DOMAIN padded = 1..four
        BY <1>11, <3>1
      <4> QED BY <3>1, <4>1, ShownIs
    <3> QED BY <3>1
  <2>3. ~(Shown(padded) > n)
    BY <1>11, <2>1, <2>2
  <2>4. ~(n > Shown(padded))
    <3> SUFFICES ASSUME n > Shown(padded) PROVE FALSE
      OBVIOUS
    <3>1. n \in 1..4 /\ n # 0
      BY <2>1, <2>2
    <3>2. padded[n] = 0
      BY <2>2, <3>1
    <3>3. padded[n] = d.fraction[n]
      BY <1>11, <3>1
    <3> QED BY <1>2, <3>1, <3>2, <3>3
  <2> HIDE DEF n
  <2> QED BY <2>1, <2>2, <2>3, <2>4
<1>13. CanonicalDecimal(p) =
         [sign |-> IF p.sign = "+" \/ (p.whole = 0 /\ Shown(p.fraction) = 0) THEN "" ELSE p.sign,
          whole |-> p.whole, fraction |-> [i \in 1..Shown(p.fraction) |-> p.fraction[i]]]
  <2>1. DOMAIN p.fraction = 1..4 /\ \A i \in 1..4 : p.fraction[i] \in 0..9
    BY <1>10, <1>11
  <2> HIDE DEF n
  <2> DEFINE want ==
         [sign |-> IF p.sign = "+" \/ (p.whole = 0 /\ Shown(p.fraction) = 0) THEN "" ELSE p.sign,
          whole |-> p.whole, fraction |-> [i \in 1..Shown(p.fraction) |-> p.fraction[i]]]
  <2>2. ASSUME NEW four \in Nat, four = 4 PROVE CanonicalDecimal(p) = want
    <3>1. DOMAIN p.fraction = 1..four /\ \A i \in 1..four : p.fraction[i] \in 0..9
      BY <2>1, <2>2
    <3> QED BY <2>2, <3>1, CanonicalIs
  <2> HIDE DEF want
  <2>3. CanonicalDecimal(p) = want
    BY <2>2
  <2> QED BY <2>3 DEF want
<1>14. [i \in 1..Shown(p.fraction) |-> p.fraction[i]] = short
  <2>1. \A i \in 1..n : i \in 1..4
    BY <1>2
  <2> HIDE DEF n
  <2> QED BY <1>10, <1>11, <1>12, <2>1
<1>15. (IF p.sign = "+" \/ (p.whole = 0 /\ Shown(p.fraction) = 0) THEN "" ELSE p.sign) = c.sign
  <2> HIDE DEF n
  <2> QED BY <1>1, <1>4, <1>10, <1>12
<1>16. CanonicalDecimal(p) = [sign |-> c.sign, whole |-> d.whole, fraction |-> short]
  BY <1>10, <1>13, <1>14, <1>15
<1>17. c = [sign |-> c.sign, whole |-> d.whole, fraction |-> short]
  BY <1>3, <1>4
<1> QED BY <1>16, <1>17 DEF c, p

\* The amounts of the inputs.
LEMMA AmountsFit ==
  ASSUME StoreAssumption, NEW d \in Amounts
  PROVE  /\ d \in Decimal /\ CanonicalDecimal(d) # None /\ Numeric(CanonicalDecimal(d)) # None
         /\ CanonicalDecimal(Numeric(CanonicalDecimal(d))) = CanonicalDecimal(d)
<1>1. d \in Decimal
  <2>1. CASE d = [sign |-> "-", whole |-> 0, fraction |-> <<0, 0>>]
    <3>1. <<0, 0>> \in Seq(0..9)
      OBVIOUS
    <3>2. 0 \in Nat /\ "-" \in {"", "+", "-"}
      OBVIOUS
    <3> DEFINE digits == <<0, 0>>
    <3> HIDE DEF digits
    <3>3. digits \in Seq(0..9) /\ d = [sign |-> "-", whole |-> 0, fraction |-> digits]
      BY <2>1, <3>1 DEF digits
    <3> QED BY <3>2, <3>3 DEF Decimal
  <2>2. CASE d = [sign |-> "+", whole |-> 12, fraction |-> <<5, 0>>]
    <3>1. <<5, 0>> \in Seq(0..9)
      OBVIOUS
    <3>2. 12 \in Nat /\ "+" \in {"", "+", "-"}
      OBVIOUS
    <3> DEFINE digits == <<5, 0>>
    <3> HIDE DEF digits
    <3>3. digits \in Seq(0..9) /\ d = [sign |-> "+", whole |-> 12, fraction |-> digits]
      BY <2>2, <3>1 DEF digits
    <3> QED BY <3>2, <3>3 DEF Decimal
  <2>3. CASE d = [sign |-> "-", whole |-> 2400, fraction |-> <<0, 0, 1>>]
    <3>1. <<0, 0, 1>> \in Seq(0..9)
      OBVIOUS
    <3>2. 2400 \in Nat /\ "-" \in {"", "+", "-"}
      OBVIOUS
    <3> DEFINE digits == <<0, 0, 1>>
    <3> HIDE DEF digits
    <3>3. digits \in Seq(0..9) /\ d = [sign |-> "-", whole |-> 2400, fraction |-> digits]
      BY <2>3, <3>1 DEF digits
    <3> QED BY <3>2, <3>3 DEF Decimal
  <2> QED BY <2>1, <2>2, <2>3 DEF Amounts
<1>2. PICK size \in 0..4 : DOMAIN d.fraction = 1..size
  <2>1. DOMAIN <<0, 0>> = 1..2 /\ DOMAIN <<5, 0>> = 1..2 /\ DOMAIN <<0, 0, 1>> = 1..3
    OBVIOUS
  <2> QED BY <2>1 DEF Amounts
<1>3. CanonicalDecimal(Numeric(CanonicalDecimal(d))) = CanonicalDecimal(d)
  BY <1>1, <1>2, NumericKeeps
<1> DEFINE n == Shown(d.fraction)
           c == CanonicalDecimal(d)
<1>4. size \in Nat /\ \A i \in 1..size : d.fraction[i] \in 0..9
  <2> DEFINE f == d.fraction
  <2>1. f \in Seq(0..9) /\ DOMAIN f = 1..size
    BY <1>1, <1>2 DEF Decimal
  <2> HIDE DEF f
  <2>2. DOMAIN f = 1..Len(f) /\ \A i \in 1..Len(f) : f[i] \in 0..9
    BY <2>1
  <2>3. \A i \in 1..size : f[i] \in 0..9
    BY <2>1, <2>2
  <2> QED BY <2>3 DEF f
<1>5. n \in 0..size
  BY <1>2, <1>4, ShownIs
<1>6. c = [sign |-> IF d.sign = "+" \/ (d.whole = 0 /\ n = 0) THEN "" ELSE d.sign, whole |-> d.whole,
           fraction |-> [i \in 1..n |-> d.fraction[i]]]
  BY <1>2, <1>4, CanonicalIs
<1> DEFINE short == [i \in 1..n |-> d.fraction[i]]
<1>7. short \in Seq(0..9)
  <2>1. \A i \in 1..n : d.fraction[i] \in 0..9
    <3> HIDE DEF n
    <3>1. \A i \in 1..n : i \in 1..size
      BY <1>4, <1>5
    <3> QED BY <1>4, <3>1
  <2>2. n \in Nat
    BY <1>5
  <2> HIDE DEF n
  <2> QED BY <2>1, <2>2
<1> HIDE DEF n, short
<1>8. c \in Decimal
  <2>1. d.sign \in {"", "+", "-"} /\ d.whole \in Nat
    BY <1>1 DEF Decimal
  <2> HIDE DEF c
  <2> QED BY <1>6, <1>7, <2>1 DEF Decimal, short
<1>9. Numeric(c) \in Decimal
  <2> HIDE DEF c
  <2> DEFINE padded == [i \in 1..4 |-> IF i \in DOMAIN c.fraction THEN c.fraction[i] ELSE 0]
  <2>1. c.whole \in Nat /\ c.fraction \in Seq(0..9)
    BY <1>8 DEF Decimal
  <2>2. \A i \in DOMAIN c.fraction : c.fraction[i] \in 0..9
    <3> DEFINE f == c.fraction
    <3>1. f \in Seq(0..9)
      BY <2>1
    <3> HIDE DEF f
    <3>2. \A i \in DOMAIN f : f[i] \in 0..9
      BY <3>1
    <3> QED BY <3>2 DEF f
  <2>3. padded \in Seq(0..9)
    <3>1. \A i \in 1..4 : padded[i] \in 0..9
      BY <2>2
    <3>2. padded \in [1..4 -> 0..9]
      BY <3>1
    <3>3. \A size4 \in Nat : \A f \in [1..size4 -> 0..9] : f \in Seq(0..9)
      OBVIOUS
    <3>4. 4 \in Nat
      OBVIOUS
    <3> QED BY <3>2, <3>3, <3>4, Zenon
  <2> DEFINE sign == IF c.sign = "-" /\ (c.whole # 0 \/ \E i \in DOMAIN c.fraction : c.fraction[i] # 0)
                     THEN "-" ELSE ""
  <2>4. Numeric(c) = [sign |-> sign, whole |-> c.whole, fraction |-> padded]
    BY DEF Numeric
  <2>5. sign \in {"", "+", "-"}
    OBVIOUS
  <2> HIDE DEF sign, padded
  <2>6. \A s \in {"", "+", "-"}, w \in Nat, f \in Seq(0..9) :
          [sign |-> s, whole |-> w, fraction |-> f] \in Decimal
    BY DEF Decimal
  <2> QED BY <2>1, <2>3, <2>4, <2>5, <2>6, Zenon
<1> QED BY <1>1, <1>3, <1>8, <1>9 DEF StoreAssumption

\* Accounts and transactions a batch may have.
MoneyAccounts == [externalId : Key, balance : Amounts \cup {None}]
MoneyTransactions == [externalId : Key, accountExternalId : Key, amount : SmallAmounts]

\* A column of a record, and the other columns.
LEMMA ExceptIs ==
  ASSUME NEW r, NEW c, NEW v
  PROVE  /\ DOMAIN [r EXCEPT ![c] = v] = DOMAIN r
         /\ c \in DOMAIN r => [r EXCEPT ![c] = v][c] = v
         /\ \A x \in DOMAIN r \ {c} : [r EXCEPT ![c] = v][x] = r[x]
         /\ [r EXCEPT ![c] = v] = [x \in DOMAIN r |-> [r EXCEPT ![c] = v][x]]
OBVIOUS

AccountFields(w, n) ==
  [updatedAt |-> n, balance |-> IF w.balance = None THEN None ELSE CanonicalDecimal(w.balance)]
AccountColumns(w) ==
  [balance |-> IF w.balance = None THEN None ELSE Numeric(CanonicalDecimal(w.balance))]
Balance(b) == IF b = None THEN None ELSE CanonicalDecimal(b)

LEMMA AccountView ==
  ASSUME NEW r, DOMAIN r = Columns("money_accounts")
  PROVE  View("money_accounts", r) =
           [c \in DOMAIN r |-> IF c = "balance" THEN Balance(r["balance"]) ELSE r[c]]
BY ColumnsOf DEF View, MoneyAccountFromRow, Balance

LEMMA AccountRow ==
  ASSUME StoreAssumption, NEW db, DbInv(db), NEW key, key[1] \in DOMAIN db.connector_accounts,
         NEW w \in MoneyAccounts, NEW n \in Nat
  PROVE  LET t == "money_accounts"
             fields == AccountColumns(w)
             row == S!RowOf(db, t, key, fields, <<>>, n)
         IN /\ Fits(t, fields) /\ Fills(t, fields, <<>>) /\ KeyFits(t, key) /\ S!Valid(db, t, key, row)
            /\ View(t, row) = M!StoredAs(Seen(db), t, key, AccountFields(w, n), n)
<1> DEFINE t == "money_accounts"
           fields == AccountColumns(w)
           given == AccountFields(w, n)
           row == S!RowOf(db, t, key, fields, <<>>, n)
           old == db[t][key]
           cols == {"id", "createdAt", "balance", "updatedAt"}
<1>1. t \in Tables /\ t \in S!Updatable /\ Columns(t) = cols
  BY ColumnsOf DEF Tables, S!Updatable
<1>2. DOMAIN fields = {"balance"} /\ DOMAIN given = {"balance", "updatedAt"} /\ given["updatedAt"] = n
  BY DEF AccountColumns, AccountFields
<1>3. Fits(t, fields) /\ Fills(t, fields, <<>>) /\ KeyFits(t, key)
  <2> HIDE DEF fields
  <2> QED BY <1>1, <1>2 DEF Fits, Fills, KeyFits
<1>4. Balance(fields["balance"]) = given["balance"]
  <2>1. CASE w.balance = None
    BY <2>1 DEF AccountColumns, AccountFields, Balance
  <2>2. CASE w.balance # None
    <3>1. w.balance \in Amounts
      BY <2>2 DEF MoneyAccounts
    <3>2. /\ Numeric(CanonicalDecimal(w.balance)) # None
          /\ CanonicalDecimal(Numeric(CanonicalDecimal(w.balance))) = CanonicalDecimal(w.balance)
      BY <3>1, AmountsFit
    <3> QED BY <2>2, <3>2 DEF AccountColumns, AccountFields, Balance
  <2> QED BY <2>1, <2>2
<1> HIDE DEF fields, given
<1>5. DbType(db)
  BY DEF DbInv
<1>6. /\ row["balance"] = fields["balance"] /\ row["updatedAt"] = n
      /\ key \in DOMAIN db[t] => row["id"] = old["id"] /\ row["createdAt"] = old["createdAt"]
      /\ key \notin DOMAIN db[t] => row["id"] = <<t, key, n>> /\ row["createdAt"] = n
  <2>1. /\ \A c \in DOMAIN fields : row[c] = fields[c]
        /\ t \in S!Updatable => row["updatedAt"] = n
        /\ key \in DOMAIN db[t] => row["id"] = old["id"] /\ row["createdAt"] = old["createdAt"]
        /\ key \notin DOMAIN db[t] => row["id"] = <<t, key, n>> /\ row["createdAt"] = n
    BY <1>1, <1>3, <1>5, RowOfIs
  <2> HIDE DEF row
  <2> QED BY <1>1, <1>2, <2>1
<1>7. S!Valid(db, t, key, row)
  <2> HIDE DEF row
  <2> QED BY DEF S!Valid
<1>8. DOMAIN row = cols
  <2>1. RowType(t, key, row)
    BY <1>1, <1>3, <1>5, NothingFits, RowOfType
  <2> HIDE DEF row
  <2> QED BY <1>1, <2>1 DEF RowType
<1>9. View(t, row) = [c \in cols |-> IF c = "balance" THEN given["balance"] ELSE row[c]]
  <2> HIDE DEF row
  <2> QED BY <1>1, <1>4, <1>6, <1>8, AccountView
<1>10. CASE key \in DOMAIN db[t]
  <2>1. M!StoredAs(Seen(db), t, key, given, n) = Over(given, View(t, old))
    BY <1>1, <1>10, StoredIs
  <2>2. RowType(t, key, old)
    BY <1>1, <1>5, <1>10 DEF DbType, TableType
  <2>3. DOMAIN old = cols
    BY <1>1, <2>2 DEF RowType
  <2>4. View(t, old) = [c \in cols |-> IF c = "balance" THEN Balance(old["balance"]) ELSE old[c]]
    <3> HIDE DEF old
    <3> QED BY <1>1, <2>3, AccountView
  <2> HIDE DEF old, row
  <2>5. View(t, row) = Over(given, View(t, old))
    BY <1>2, <1>6, <1>9, <1>10, <2>4 DEF Over
  <2> QED BY <1>3, <1>7, <2>1, <2>5 DEF fields, given, row
<1>11. CASE key \notin DOMAIN db[t]
  <2> DEFINE born == [id |-> <<t, key, n>>, createdAt |-> n]
  <2>1. M!StoredAs(Seen(db), t, key, given, n) = Over(given, born)
    BY <1>1, <1>11, StoredIs
  <2>2. DOMAIN born = {"id", "createdAt"} /\ born["id"] = <<t, key, n>> /\ born["createdAt"] = n
    OBVIOUS
  <2> HIDE DEF row, born
  <2>3. View(t, row) = Over(given, born)
    BY <1>2, <1>6, <1>9, <1>11, <2>2 DEF Over
  <2> QED BY <1>3, <1>7, <2>1, <2>3 DEF fields, given, row
<1> QED BY <1>10, <1>11

-----------------------------------------------------------------------------
(***************************************************************************)
(* Money accounts and transactions.                                        *)
(***************************************************************************)
LEMMA UpsertMoneyAccountsAgrees ==
  ASSUME StoreAssumption, NEW db, DbInv(db), NEW a, NEW batch \in Batches(MoneyAccounts), NEW n \in Nat,
         a \in DOMAIN db.connector_accounts \/ batch # <<>>
  PROVE  Agrees(db, M!UpsertMoneyAccounts(Seen(db), a, batch, n), S!UpsertMoneyAccounts(db, a, batch, n))
<1> DEFINE t == "money_accounts"
           srows == [i \in DOMAIN batch |-> [key |-> <<a, batch[i].externalId>>,
                                             fields |-> AccountColumns(batch[i])]]
           mrows == [i \in DOMAIN batch |-> [key |-> <<a, batch[i].externalId>>,
                                             fields |-> AccountFields(batch[i], n)]]
           existing == DOMAIN db[t] \cap KeysOf(srows)
           m == M!UpsertMoneyAccounts(Seen(db), a, batch, n)
           s == S!UpsertMoneyAccounts(db, a, batch, n)
<1>1. PICK size \in Nat : /\ DOMAIN batch = 1..size /\ \A i \in 1..size : batch[i] \in MoneyAccounts
                          /\ batch # <<>> => size # 0
  BY BatchIs
<1>2. t \in Tables \ (Derived \cup {"relationships"}) /\ t \in Tables /\ "connector_accounts" \in Tables
  BY DEF Tables, Derived
<1>3. DOMAIN Seen(db).connector_accounts = DOMAIN db.connector_accounts
  BY <1>2, SeenIds DEF DbInv
<1>4. m = IF a \notin DOMAIN db.connector_accounts
          THEN [db |-> Seen(db), answer |-> <<"integrity", None>>]
          ELSE M!UpsertEach(Seen(db), t, mrows, n)
  <2>1. mrows = [i \in DOMAIN batch |->
                  [key |-> <<a, batch[i].externalId>>,
                   fields |-> [updatedAt |-> n, balance |-> IF batch[i].balance = None THEN None
                                                            ELSE M!CanonicalDecimal(batch[i].balance)]]]
    BY SameDecimals DEF AccountFields
  <2> HIDE DEF mrows
  <2> QED BY <1>3, <2>1, SameHelpers DEF M!UpsertMoneyAccounts
<1>5. s = S!UpsertByKey(db, t, srows, existing, n)
  <2>1. ASSUME NEW i \in DOMAIN batch
        PROVE  [S!MoneyAccountToRow(batch[i]) EXCEPT !.balance = IF @ = None THEN None ELSE S!Numeric(@)]
                 = AccountColumns(batch[i])
    <3>1. batch[i].balance # None => CanonicalDecimal(batch[i].balance) # None
      BY <1>1, <2>1, AmountsFit DEF MoneyAccounts
    <3> QED BY <3>1, SameDecimals DEF S!MoneyAccountToRow, AccountColumns
  <2>2. srows = [i \in DOMAIN batch |->
                  [key |-> <<a, batch[i].externalId>>,
                   fields |-> [S!MoneyAccountToRow(batch[i]) EXCEPT !.balance =
                                 IF @ = None THEN None ELSE S!Numeric(@)]]]
    BY <2>1
  <2> HIDE DEF srows
  <2> QED BY <2>2, SameHelpers DEF S!UpsertMoneyAccounts, S!ExistingExternalIds
<1>6. DOMAIN srows = 1..size /\ DOMAIN mrows = 1..size
  BY <1>1
<1>7. CASE a \in DOMAIN db.connector_accounts
  <2>1. RowsAgree(db, t, mrows, srows, n)
    <3> SUFFICES ASSUME NEW i \in 1..size
                 PROVE  /\ mrows[i].key = srows[i].key /\ KeyFits(t, srows[i].key)
                        /\ Fits(t, srows[i].fields) /\ Fills(t, srows[i].fields, <<>>)
                        /\ S!Valid(db, t, srows[i].key, S!RowOf(db, t, srows[i].key, srows[i].fields, <<>>, n))
                        /\ View(t, S!RowOf(db, t, srows[i].key, srows[i].fields, <<>>, n)) =
                             M!StoredAs(Seen(db), t, srows[i].key, mrows[i].fields, n)
      BY <1>6 DEF RowsAgree
    <3> DEFINE key == <<a, batch[i].externalId>>
    <3>1. /\ srows[i].key = key /\ mrows[i].key = key
          /\ srows[i].fields = AccountColumns(batch[i])
          /\ mrows[i].fields = AccountFields(batch[i], n)
      BY <1>1
    <3>2. key[1] \in DOMAIN db.connector_accounts
      BY <1>7
    <3> HIDE DEF key, srows, mrows
    <3>3. /\ Fits(t, AccountColumns(batch[i])) /\ Fills(t, AccountColumns(batch[i]), <<>>)
          /\ KeyFits(t, key)
          /\ S!Valid(db, t, key, S!RowOf(db, t, key, AccountColumns(batch[i]), <<>>, n))
          /\ View(t, S!RowOf(db, t, key, AccountColumns(batch[i]), <<>>, n)) =
               M!StoredAs(Seen(db), t, key, AccountFields(batch[i], n), n)
      BY <1>1, <3>2, AccountRow
    <3> QED BY <3>1, <3>3
  <2>2. KeysOf(srows) \ existing = KeysOf(srows) \ DOMAIN db[t]
    OBVIOUS
  <2> HIDE DEF srows, mrows, existing
  <2>3. Agrees(db, M!UpsertEach(Seen(db), t, mrows, n), S!UpsertByKey(db, t, srows, existing, n))
    BY <1>2, <1>6, <2>1, <2>2, UpsertAgrees
  <2> QED BY <1>4, <1>5, <1>7, <2>3 DEF m, s
<1>8. CASE a \notin DOMAIN db.connector_accounts
  <2>1. size \in Nat \ {0}
    BY <1>1, <1>8
  <2>2. \A i \in 1..size : srows[i].key[1] = a
    BY <1>1
  <2>3. \A i \in 1..size :
           ~S!Valid(db, t, srows[i].key, S!RowOf(db, t, srows[i].key, srows[i].fields, <<>>, n))
    <3> HIDE DEF srows
    <3> QED BY <1>8, <2>2 DEF S!Valid
  <2> HIDE DEF srows, existing
  <2>4. s = [db |-> db, answer |-> <<"integrity", None>>]
    BY <1>2, <1>5, <1>6, <2>1, <2>3, UpsertRefused
  <2> QED BY <1>4, <1>8, <2>4, NothingDone
<1> QED BY <1>7, <1>8

\* Transactions: the two stores name the account of a transaction by its id.
TransactionColumns(db, a, w) ==
  [moneyAccountId |-> db.money_accounts[<<a, w.accountExternalId>>].id,
   amount |-> Numeric(CanonicalDecimal(w.amount))]
TransactionFields(db, a, w, n) ==
  [moneyAccountId |-> db.money_accounts[<<a, w.accountExternalId>>].id,
   amount |-> CanonicalDecimal(w.amount), updatedAt |-> n]

LEMMA TransactionView ==
  ASSUME NEW r, DOMAIN r = Columns("money_transactions")
  PROVE  View("money_transactions", r) =
           [c \in DOMAIN r |-> IF c = "amount" THEN CanonicalDecimal(r["amount"]) ELSE r[c]]
BY ColumnsOf DEF View, MoneyTransactionFromRow

LEMMA TransactionRow ==
  ASSUME StoreAssumption, NEW db, DbInv(db), NEW key, key[1] \in DOMAIN db.connector_accounts,
         NEW a, NEW w \in MoneyTransactions, NEW n \in Nat
  PROVE  LET t == "money_transactions"
             fields == TransactionColumns(db, a, w)
             row == S!RowOf(db, t, key, fields, <<>>, n)
         IN /\ Fits(t, fields) /\ Fills(t, fields, <<>>) /\ KeyFits(t, key) /\ S!Valid(db, t, key, row)
            /\ View(t, row) = M!StoredAs(Seen(db), t, key, TransactionFields(db, a, w, n), n)
<1> DEFINE t == "money_transactions"
           fields == TransactionColumns(db, a, w)
           given == TransactionFields(db, a, w, n)
           row == S!RowOf(db, t, key, fields, <<>>, n)
           old == db[t][key]
           cols == {"id", "createdAt", "moneyAccountId", "amount", "updatedAt"}
<1>1. t \in Tables /\ t \in S!Updatable /\ Columns(t) = cols
  BY ColumnsOf DEF Tables, S!Updatable
<1>2. /\ DOMAIN fields = {"moneyAccountId", "amount"}
      /\ DOMAIN given = {"moneyAccountId", "amount", "updatedAt"} /\ given["updatedAt"] = n
      /\ given["moneyAccountId"] = fields["moneyAccountId"]
  BY DEF TransactionColumns, TransactionFields
<1>3. Fits(t, fields) /\ Fills(t, fields, <<>>) /\ KeyFits(t, key)
  <2> HIDE DEF fields
  <2> QED BY <1>1, <1>2 DEF Fits, Fills, KeyFits
<1>4. CanonicalDecimal(fields["amount"]) = given["amount"]
  <2>1. w.amount \in Amounts
    BY DEF MoneyTransactions, SmallAmounts
  <2>2. CanonicalDecimal(Numeric(CanonicalDecimal(w.amount))) = CanonicalDecimal(w.amount)
    BY <2>1, AmountsFit
  <2> QED BY <2>2 DEF TransactionColumns, TransactionFields
<1> HIDE DEF fields, given
<1>5. DbType(db)
  BY DEF DbInv
<1>6. /\ row["amount"] = fields["amount"] /\ row["updatedAt"] = n
      /\ row["moneyAccountId"] = fields["moneyAccountId"]
      /\ key \in DOMAIN db[t] => row["id"] = old["id"] /\ row["createdAt"] = old["createdAt"]
      /\ key \notin DOMAIN db[t] => row["id"] = <<t, key, n>> /\ row["createdAt"] = n
  <2>1. /\ \A c \in DOMAIN fields : row[c] = fields[c]
        /\ t \in S!Updatable => row["updatedAt"] = n
        /\ key \in DOMAIN db[t] => row["id"] = old["id"] /\ row["createdAt"] = old["createdAt"]
        /\ key \notin DOMAIN db[t] => row["id"] = <<t, key, n>> /\ row["createdAt"] = n
    BY <1>1, <1>3, <1>5, RowOfIs
  <2> HIDE DEF row
  <2> QED BY <1>1, <1>2, <2>1
<1>7. S!Valid(db, t, key, row)
  <2> HIDE DEF row
  <2> QED BY DEF S!Valid
<1>8. DOMAIN row = cols
  <2>1. RowType(t, key, row)
    BY <1>1, <1>3, <1>5, NothingFits, RowOfType
  <2> HIDE DEF row
  <2> QED BY <1>1, <2>1 DEF RowType
<1>9. View(t, row) = [c \in cols |-> IF c = "amount" THEN given["amount"] ELSE row[c]]
  <2> HIDE DEF row
  <2> QED BY <1>1, <1>4, <1>6, <1>8, TransactionView
<1>10. CASE key \in DOMAIN db[t]
  <2>1. M!StoredAs(Seen(db), t, key, given, n) = Over(given, View(t, old))
    BY <1>1, <1>10, StoredIs
  <2>2. RowType(t, key, old)
    BY <1>1, <1>5, <1>10 DEF DbType, TableType
  <2>3. DOMAIN old = cols
    BY <1>1, <2>2 DEF RowType
  <2>4. View(t, old) = [c \in cols |-> IF c = "amount" THEN CanonicalDecimal(old["amount"]) ELSE old[c]]
    <3> HIDE DEF old
    <3> QED BY <1>1, <2>3, TransactionView
  <2> HIDE DEF old, row
  <2>5. View(t, row) = Over(given, View(t, old))
    BY <1>2, <1>6, <1>9, <1>10, <2>4 DEF Over
  <2> QED BY <1>3, <1>7, <2>1, <2>5 DEF fields, given, row
<1>11. CASE key \notin DOMAIN db[t]
  <2> DEFINE born == [id |-> <<t, key, n>>, createdAt |-> n]
  <2>1. M!StoredAs(Seen(db), t, key, given, n) = Over(given, born)
    BY <1>1, <1>11, StoredIs
  <2>2. DOMAIN born = {"id", "createdAt"} /\ born["id"] = <<t, key, n>> /\ born["createdAt"] = n
    OBVIOUS
  <2> HIDE DEF row, born
  <2>3. View(t, row) = Over(given, born)
    BY <1>2, <1>6, <1>9, <1>11, <2>2 DEF Over
  <2> QED BY <1>3, <1>7, <2>1, <2>3 DEF fields, given, row
<1> QED BY <1>10, <1>11

LEMMA UpsertMoneyTransactionsAgrees ==
  ASSUME StoreAssumption, NEW db, DbInv(db), NEW a \in DOMAIN db.connector_accounts,
         NEW batch \in Batches(MoneyTransactions), NEW n \in Nat
  PROVE  Agrees(db, M!UpsertMoneyTransactions(Seen(db), a, batch, n),
                    S!UpsertMoneyTransactions(db, a, batch, n))
<1> DEFINE t == "money_transactions"
           srows == [i \in DOMAIN batch |-> [key |-> <<a, batch[i].externalId>>,
                                             fields |-> TransactionColumns(db, a, batch[i])]]
           mrows == [i \in DOMAIN batch |-> [key |-> <<a, batch[i].externalId>>,
                                             fields |-> TransactionFields(db, a, batch[i], n)]]
           existing == DOMAIN db[t] \cap KeysOf(srows)
           m == M!UpsertMoneyTransactions(Seen(db), a, batch, n)
           s == S!UpsertMoneyTransactions(db, a, batch, n)
           missing == \E i \in DOMAIN batch : <<a, batch[i].accountExternalId>> \notin DOMAIN db.money_accounts
<1>1. PICK size \in Nat : /\ DOMAIN batch = 1..size /\ \A i \in 1..size : batch[i] \in MoneyTransactions
                          /\ batch # <<>> => size # 0
  BY BatchIs
<1>2. /\ t \in Tables \ (Derived \cup {"relationships"}) /\ t \in Tables
      /\ "connector_accounts" \in Tables /\ "money_accounts" \in Tables
  BY DEF Tables, Derived
<1>3. /\ DOMAIN Seen(db).connector_accounts = DOMAIN db.connector_accounts
      /\ DOMAIN Seen(db).money_accounts = DOMAIN db.money_accounts
      /\ \A k \in DOMAIN db.money_accounts : Seen(db).money_accounts[k].id = db.money_accounts[k].id
  BY <1>2, SeenIds DEF DbInv
<1>4. m = IF missing THEN [db |-> Seen(db), answer |-> <<"integrity", None>>]
          ELSE M!UpsertEach(Seen(db), t, mrows, n)
  <2>1. CASE missing
    BY <1>3, <2>1, SameHelpers DEF M!UpsertMoneyTransactions
  <2>2. CASE ~missing
    <3>1. mrows = [i \in DOMAIN batch |->
            [key |-> <<a, batch[i].externalId>>,
             fields |-> [moneyAccountId |-> Seen(db).money_accounts[<<a, batch[i].accountExternalId>>].id,
                         amount |-> M!CanonicalDecimal(batch[i].amount), updatedAt |-> n]]]
      BY <1>3, <2>2, SameDecimals DEF TransactionFields
    <3> HIDE DEF mrows
    <3> QED BY <1>3, <2>2, <3>1, SameHelpers DEF M!UpsertMoneyTransactions
  <2> QED BY <2>1, <2>2
<1>5. s = IF missing THEN [db |-> db, answer |-> <<"integrity", None>>]
          ELSE S!UpsertByKey(db, t, srows, existing, n)
  <2>1. ASSUME NEW i \in DOMAIN batch
        PROVE  [S!MoneyTransactionToRow(batch[i], db.money_accounts[<<a, batch[i].accountExternalId>>].id)
                  EXCEPT !.amount = S!Numeric(@)]
                 = TransactionColumns(db, a, batch[i])
    BY SameDecimals DEF S!MoneyTransactionToRow, TransactionColumns
  <2>2. srows = [i \in DOMAIN batch |->
                  [key |-> <<a, batch[i].externalId>>,
                   fields |-> [S!MoneyTransactionToRow(batch[i],
                                 db.money_accounts[<<a, batch[i].accountExternalId>>].id)
                                 EXCEPT !.amount = S!Numeric(@)]]]
    BY <2>1
  <2> HIDE DEF srows
  <2> QED BY <2>2, SameHelpers DEF S!UpsertMoneyTransactions, S!ExistingExternalIds
<1>6. DOMAIN srows = 1..size /\ DOMAIN mrows = 1..size
  BY <1>1
<1>7. CASE ~missing
  <2>1. RowsAgree(db, t, mrows, srows, n)
    <3> SUFFICES ASSUME NEW i \in 1..size
                 PROVE  /\ mrows[i].key = srows[i].key /\ KeyFits(t, srows[i].key)
                        /\ Fits(t, srows[i].fields) /\ Fills(t, srows[i].fields, <<>>)
                        /\ S!Valid(db, t, srows[i].key, S!RowOf(db, t, srows[i].key, srows[i].fields, <<>>, n))
                        /\ View(t, S!RowOf(db, t, srows[i].key, srows[i].fields, <<>>, n)) =
                             M!StoredAs(Seen(db), t, srows[i].key, mrows[i].fields, n)
      BY <1>6 DEF RowsAgree
    <3> DEFINE key == <<a, batch[i].externalId>>
    <3>1. /\ srows[i].key = key /\ mrows[i].key = key
          /\ srows[i].fields = TransactionColumns(db, a, batch[i])
          /\ mrows[i].fields = TransactionFields(db, a, batch[i], n)
      BY <1>1
    <3>2. key[1] \in DOMAIN db.connector_accounts
      OBVIOUS
    <3> HIDE DEF key, srows, mrows
    <3>3. /\ Fits(t, TransactionColumns(db, a, batch[i])) /\ Fills(t, TransactionColumns(db, a, batch[i]), <<>>)
          /\ KeyFits(t, key)
          /\ S!Valid(db, t, key, S!RowOf(db, t, key, TransactionColumns(db, a, batch[i]), <<>>, n))
          /\ View(t, S!RowOf(db, t, key, TransactionColumns(db, a, batch[i]), <<>>, n)) =
               M!StoredAs(Seen(db), t, key, TransactionFields(db, a, batch[i], n), n)
      BY <1>1, <3>2, TransactionRow
    <3> QED BY <3>1, <3>3
  <2>2. KeysOf(srows) \ existing = KeysOf(srows) \ DOMAIN db[t]
    OBVIOUS
  <2> HIDE DEF srows, mrows, existing
  <2>3. Agrees(db, M!UpsertEach(Seen(db), t, mrows, n), S!UpsertByKey(db, t, srows, existing, n))
    BY <1>2, <1>6, <2>1, <2>2, UpsertAgrees
  <2> QED BY <1>4, <1>5, <1>7, <2>3 DEF m, s
<1>8. CASE missing
  <2> HIDE DEF missing, srows, mrows
  <2> QED BY <1>4, <1>5, <1>8, NothingDone
<1> QED BY <1>7, <1>8

-----------------------------------------------------------------------------
(***************************************************************************)
(* Time events, known by calendar and id.                                  *)
(***************************************************************************)
\* No more calendars hold an event under one id than fit into an answer.
LEMMA KnownEventsFit ==
  ASSUME StoreAssumption, NEW known \in SUBSET EventKeys, \A k, l \in known : k[1] = l[1]
  PROVE  S!AtMostMaxRows(known) = known
<1> DEFINE a == (CHOOSE k \in known : TRUE)[1]
           all == {<<a, <<c, 0>>>> : c \in Calendars}
           named == [c \in Calendars |-> <<a, <<c, 0>>>>]
<1>1. IsFiniteSet(Calendars)
  <2>1. IsFiniteSet({"primary"})
    BY FS_Singleton
  <2>2. IsFiniteSet({"primary"} \cup {"shared"})
    BY <2>1, FS_AddElement
  <2> QED BY <2>2 DEF Calendars
<1>2. IsFiniteSet(all) /\ Cardinality(all) =< Cardinality(Calendars)
  <2>1. named \in Surjection(Calendars, all)
    BY DEF Surjection
  <2> HIDE DEF named, all
  <2> QED BY <1>1, <2>1, FS_Surjection
<1>3. known \in SUBSET all
  <2>1. ASSUME NEW k \in known PROVE k[1] = a
    BY <2>1
  <2> HIDE DEF a
  <2> QED BY <2>1 DEF EventKeys
<1>4. IsFiniteSet(known) /\ Cardinality(known) =< Cardinality(all)
  <2> HIDE DEF all
  <2> QED BY <1>2, <1>3, FS_Subset
<1>5. Cardinality(known) =< MaxRows /\ MaxRows \in Nat
  <2> HIDE DEF all
  <2>1. Cardinality(known) \in Nat /\ Cardinality(all) \in Nat /\ Cardinality(Calendars) \in Nat
    BY <1>1, <1>2, <1>4, FS_CardinalityType
  <2> QED BY <1>2, <1>4, <2>1 DEF StoreAssumption
<1> QED BY <1>4, <1>5, AtMostAll

EventFields(w, n) ==
  LET person == IF w.participantPersonId # None THEN w.participantPersonId
                ELSE w.participant.personId
  IN [startsAt |-> w.startsAt, endsAt |-> w.endsAt, updatedAt |-> n,
      participant |-> [email |-> w.participant.email, personId |-> person],
      organizer |-> IF w.organizer = None THEN None
                    ELSE [email |-> w.organizer,
                          personId |-> IF w.participant.email = w.organizer THEN person ELSE None]]

LEMMA EventRow ==
  ASSUME NEW db, DbInv(db), NEW key \in EventKeys, key[1] \in DOMAIN db.connector_accounts,
         NEW w, w.startsAt \in Nat, w.endsAt \in Nat, w.endsAt >= w.startsAt, NEW n \in Nat
  PROVE  LET t == "time_events"
             fields == S!TimeEventToRow(w)
             row == S!RowOf(db, t, key, fields, <<>>, n)
         IN /\ S!Valid(db, t, key, row)
            /\ View(t, row) = M!StoredAs(Seen(db), t, key, EventFields(w, n), n)
<1> DEFINE t == "time_events"
           fields == S!TimeEventToRow(w)
           given == EventFields(w, n)
           row == S!RowOf(db, t, key, fields, <<>>, n)
           stamp == [updatedAt |-> n]
           person == IF w.participantPersonId # None THEN w.participantPersonId
                     ELSE w.participant.personId
           participant == [email |-> w.participant.email, personId |-> person]
           organizer == IF w.organizer = None THEN None
                        ELSE [email |-> w.organizer,
                              personId |-> IF w.participant.email = w.organizer THEN person ELSE None]
<1>1. t \in Tables /\ S!Stamp(t, n) = stamp
  BY DEF Tables, S!Stamp, S!Updatable
<1>2. given = [startsAt |-> w.startsAt, endsAt |-> w.endsAt, updatedAt |-> n,
               participant |-> participant, organizer |-> organizer]
  BY DEF EventFields
<1>3. fields = [startsAt |-> w.startsAt, endsAt |-> w.endsAt,
                participant |-> participant, organizer |-> organizer]
  BY DEF S!TimeEventToRow, S!ParticipantToJson
<1> HIDE DEF participant, organizer
<1>4. given = Over(fields, stamp)
  BY <1>2, <1>3 DEF Over
<1>5. fields["startsAt"] = w.startsAt /\ fields["endsAt"] = w.endsAt
      /\ {"startsAt", "endsAt"} \subseteq DOMAIN fields
  BY <1>3
<1> HIDE DEF fields, given, stamp
<1>6. row = M!StoredAs(Seen(db), t, key, given, n) /\ View(t, row) = row
      /\ row["startsAt"] = w.startsAt /\ row["endsAt"] = w.endsAt
  <2>0. View(t, row) = row
    BY DEF View
  <2>1. CASE key \in DOMAIN db[t]
    <3>1. row = Over(fields, Over(stamp, db[t][key]))
      BY <1>1, <2>1, SameHelpers DEF S!RowOf
    <3>2. M!StoredAs(Seen(db), t, key, given, n) = Over(Over(fields, stamp), db[t][key])
      <4>1. M!StoredAs(Seen(db), t, key, given, n) = Over(given, View(t, db[t][key]))
        BY <1>1, <2>1, StoredIs
      <4>2. View(t, db[t][key]) = db[t][key]
        BY DEF View
      <4> QED BY <1>4, <4>1, <4>2
    <3>3. Over(fields, Over(stamp, db[t][key])) = Over(Over(fields, stamp), db[t][key])
      BY DEF Over
    <3>4. row["startsAt"] = w.startsAt /\ row["endsAt"] = w.endsAt
      BY <1>5, <3>1 DEF Over
    <3> QED BY <2>0, <3>1, <3>2, <3>3, <3>4
  <2>2. CASE key \notin DOMAIN db[t]
    <3> DEFINE born == [id |-> <<t, key, n>>, createdAt |-> n]
    <3>1. row = Over(fields, Over(<<>>, Over(stamp, born)))
      BY <1>1, <2>2, SameHelpers DEF S!RowOf
    <3>2. M!StoredAs(Seen(db), t, key, given, n) = Over(Over(fields, stamp), born)
      BY <1>1, <1>4, <2>2, StoredIs
    <3>3. Over(fields, Over(<<>>, Over(stamp, born))) = Over(Over(fields, stamp), born)
      <4> HIDE DEF born
      <4>1. Over(<<>>, Over(stamp, born)) = Over(stamp, born)
        BY DEF Over
      <4> QED BY <4>1 DEF Over
    <3>4. row["startsAt"] = w.startsAt /\ row["endsAt"] = w.endsAt
      BY <1>5, <3>1 DEF Over
    <3> QED BY <2>0, <3>1, <3>2, <3>3, <3>4
  <2> QED BY <2>1, <2>2
<1>7. S!Valid(db, t, key, row)
  <2> HIDE DEF row
  <2> QED BY <1>6 DEF S!Valid
<1> QED BY <1>6, <1>7 DEF given, fields

LEMMA EventColumns ==
  ASSUME NEW w
  PROVE  Fits("time_events", S!TimeEventToRow(w)) /\ Fills("time_events", S!TimeEventToRow(w), <<>>)
<1>1. DOMAIN S!TimeEventToRow(w) = {"startsAt", "endsAt", "participant", "organizer"}
  BY DEF S!TimeEventToRow
<1> QED BY <1>1, ColumnsOf DEF Fits, Fills

\* The events a batch may have.
EventGiven(w) ==
  w.externalCalendarId \in Calendars /\ w.externalId = 0 /\ w.startsAt \in Nat /\ w.endsAt \in Nat

LEMMA UpsertTimeEventsAgrees ==
  ASSUME StoreAssumption, NEW db, DbInv(db), NEW a \in Account \cup {Unlinked}, NEW batch,
         NEW size \in Nat \ {0}, DOMAIN batch = 1..size, \A i \in 1..size : EventGiven(batch[i]),
         (\E i \in 1..size : batch[i].endsAt < batch[i].startsAt) =>
           \A i \in 1..size : batch[i].endsAt < batch[i].startsAt,
         NEW n \in Nat
  PROVE  Agrees(db, M!UpsertTimeEvents(Seen(db), a, batch, n), S!UpsertTimeEvents(db, a, batch, n))
<1> DEFINE t == "time_events"
           Named(w) == <<a, <<w.externalCalendarId, w.externalId>>>>
           srows == [i \in 1..size |-> [key |-> Named(batch[i]),
                                        fields |-> S!TimeEventToRow(batch[i])]]
           mrows == [i \in 1..size |-> [key |-> Named(batch[i]),
                                        fields |-> EventFields(batch[i], n)]]
           ids == {batch[i].externalId : i \in 1..size}
           existing == {k \in DOMAIN db.time_events : k[1] = a /\ k[2][2] \in ids}
           m == M!UpsertTimeEvents(Seen(db), a, batch, n)
           s == S!UpsertTimeEvents(db, a, batch, n)
           bad == a \notin DOMAIN db.connector_accounts \/ \E i \in 1..size : batch[i].endsAt < batch[i].startsAt
<1>1. \A i \in 1..size : EventGiven(batch[i])
  OBVIOUS
<1>2. t \in Tables \ (Derived \cup {"relationships"}) /\ t \in Tables /\ "connector_accounts" \in Tables
  BY DEF Tables, Derived
<1>3. DOMAIN Seen(db).connector_accounts = DOMAIN db.connector_accounts
  BY <1>2, SeenIds DEF DbInv
<1>4. m = IF bad THEN [db |-> Seen(db), answer |-> <<"integrity", None>>]
          ELSE M!UpsertEach(Seen(db), t, mrows, n)
  BY <1>3, SameHelpers DEF M!UpsertTimeEvents, EventFields
<1>5. s = S!UpsertByKey(db, t, srows, existing, n)
  <2>1. s = S!UpsertByKey(db, t, srows, S!AtMostMaxRows(existing), n)
    BY SameHelpers DEF S!UpsertTimeEvents
  <2>2. S!AtMostMaxRows(existing) = existing
    <3> HIDE DEF ids
    <3>1. \A k \in DOMAIN db[t] : RowType(t, k, db[t][k])
      BY <1>2 DEF DbInv, DbType, TableType
    <3>2. \A k \in DOMAIN db[t] : k \in EventKeys
      BY <3>1 DEF RowType
    <3>3. existing \in SUBSET EventKeys /\ \A k, l \in existing : k[1] = l[1]
      BY <3>2
    <3> HIDE DEF existing
    <3> QED BY <3>3, KnownEventsFit
  <2> QED BY <2>1, <2>2
<1>6. DOMAIN srows = 1..size /\ DOMAIN mrows = 1..size
  OBVIOUS
<1>a. ASSUME NEW i \in 1..size
      PROVE  Named(batch[i]) \in EventKeys /\ Named(batch[i])[1] = a /\ KeyFits(t, Named(batch[i]))
  BY <1>1 DEF EventGiven, EventKeys, KeyFits
<1>7. CASE ~bad
  <2>1. RowsAgree(db, t, mrows, srows, n)
    <3> SUFFICES ASSUME NEW i \in 1..size
                 PROVE  /\ mrows[i].key = srows[i].key /\ KeyFits(t, srows[i].key)
                        /\ Fits(t, srows[i].fields) /\ Fills(t, srows[i].fields, <<>>)
                        /\ S!Valid(db, t, srows[i].key, S!RowOf(db, t, srows[i].key, srows[i].fields, <<>>, n))
                        /\ View(t, S!RowOf(db, t, srows[i].key, srows[i].fields, <<>>, n)) =
                             M!StoredAs(Seen(db), t, srows[i].key, mrows[i].fields, n)
      BY <1>6 DEF RowsAgree
    <3> DEFINE key == Named(batch[i])
               w == batch[i]
    <3>1. /\ srows[i].key = key /\ mrows[i].key = key
          /\ srows[i].fields = S!TimeEventToRow(w)
          /\ mrows[i].fields = EventFields(w, n)
      OBVIOUS
    <3>2. key \in EventKeys /\ key[1] \in DOMAIN db.connector_accounts /\ KeyFits(t, key)
      BY <1>7, <1>a
    <3>3. w.startsAt \in Nat /\ w.endsAt \in Nat /\ w.endsAt >= w.startsAt
      BY <1>1, <1>7 DEF EventGiven
    <3> HIDE DEF key, srows, mrows, w
    <3>4. /\ S!Valid(db, t, key, S!RowOf(db, t, key, S!TimeEventToRow(w), <<>>, n))
          /\ View(t, S!RowOf(db, t, key, S!TimeEventToRow(w), <<>>, n)) =
               M!StoredAs(Seen(db), t, key, EventFields(w, n), n)
      BY <3>2, <3>3, EventRow
    <3>5. Fits(t, S!TimeEventToRow(w)) /\ Fills(t, S!TimeEventToRow(w), <<>>)
      BY EventColumns
    <3> QED BY <3>1, <3>2, <3>4, <3>5
  <2>2. KeysOf(srows) \ existing = KeysOf(srows) \ DOMAIN db[t]
    <3>1. \A k \in KeysOf(srows) : k[1] = a /\ k[2][2] \in ids
      BY DEF KeysOf
    <3> QED BY <3>1
  <2> HIDE DEF srows, mrows, existing
  <2>3. Agrees(db, M!UpsertEach(Seen(db), t, mrows, n), S!UpsertByKey(db, t, srows, existing, n))
    BY <1>2, <1>6, <2>1, <2>2, UpsertAgrees
  <2> QED BY <1>4, <1>5, <1>7, <2>3 DEF m, s
<1>8. CASE bad
  <2>2. \A i \in 1..size : srows[i].key[1] = a /\ srows[i].fields = S!TimeEventToRow(batch[i])
    OBVIOUS
  <2>3. ASSUME NEW i \in 1..size
        PROVE  ~S!Valid(db, t, srows[i].key, S!RowOf(db, t, srows[i].key, srows[i].fields, <<>>, n))
    <3> DEFINE row == S!RowOf(db, t, srows[i].key, srows[i].fields, <<>>, n)
               key == srows[i].key
               w == batch[i]
               fields == S!TimeEventToRow(w)
    <3>1. Fits(t, fields) /\ Fills(t, fields, <<>>) /\ DbType(db)
      BY EventColumns DEF DbInv
    <3>2. {"startsAt", "endsAt"} \subseteq DOMAIN fields
          /\ fields["startsAt"] = w.startsAt /\ fields["endsAt"] = w.endsAt
      BY DEF S!TimeEventToRow
    <3>3. row = S!RowOf(db, t, key, fields, <<>>, n)
      BY <2>2
    <3> HIDE DEF fields
    <3>4. \A c \in DOMAIN fields : row[c] = fields[c]
      <4> HIDE DEF key, row
      <4> QED BY <1>2, <3>1, <3>3, RowOfIs
    <3>5. row["startsAt"] = w.startsAt /\ row["endsAt"] = w.endsAt
      <4> HIDE DEF row
      <4> QED BY <3>2, <3>4
    <3>6. CASE a \notin DOMAIN db.connector_accounts
      <4>1. key[1] \notin DOMAIN db.connector_accounts
        BY <2>2, <3>6
      <4> HIDE DEF row, key
      <4>2. ~S!Valid(db, t, key, row)
        BY <4>1 DEF S!Valid
      <4> QED BY <4>2 DEF row, key
    <3>7. CASE a \in DOMAIN db.connector_accounts
      <4>1. w.endsAt < w.startsAt /\ w.endsAt \in Nat /\ w.startsAt \in Nat
        BY <1>1, <1>8, <3>7 DEF EventGiven
      <4> HIDE DEF row, key, w
      <4>2. ~S!Valid(db, t, key, row)
        BY <3>5, <4>1 DEF S!Valid
      <4> QED BY <4>2 DEF row, key
    <3> QED BY <3>6, <3>7
  <2> HIDE DEF srows, existing
  <2>4. s = [db |-> db, answer |-> <<"integrity", None>>]
    <3>1. \A i \in 1..size :
            ~S!Valid(db, t, srows[i].key, S!RowOf(db, t, srows[i].key, srows[i].fields, <<>>, n))
      BY <2>3
    <3> QED BY <1>2, <1>5, <1>6, <3>1, UpsertRefused
  <2> HIDE DEF bad
  <2> QED BY <1>4, <1>8, <2>4, NothingDone
<1> QED BY <1>7, <1>8
=============================================================================
