------------------------------ MODULE SpineRows ------------------------------
(***************************************************************************)
(* What both SpineStore implementations share: the shape of their tables,  *)
(* and the conversions between a domain object and a database row.         *)
(*                                                                         *)
(* A store is a record of tables, a table a function from the key of a row *)
(* (its natural key, or the id the caller gave) to the row.  The id of a   *)
(* row is <<table, key, born>>: newId() never repeats, so neither does the *)
(* time a row was born under its key.  Text columns that nothing here      *)
(* tells apart are the one column "data"; a patch is a record with the     *)
(* fields it defines, and no other.                                        *)
(***************************************************************************)
EXTENDS Integers, Sequences, FiniteSets, SequencesExt, Null

\* The fields (or rows) of new, and those of old that new does not have.
Over(new, old) ==
  [x \in DOMAIN new \cup DOMAIN old |-> IF x \in DOMAIN new THEN new[x] ELSE old[x]]

Put(table, key, row) == [k \in DOMAIN table \cup {key} |-> IF k = key THEN row ELSE table[k]]
Without(table, keys) == Restrict(table, DOMAIN table \ keys)
RowIds(table) == {table[k].id : k \in DOMAIN table}

\* A batch is a sequence of [key, fields].  Of rows that share a key the last
\* one stays.
KeysOf(rows) == {rows[i].key : i \in DOMAIN rows}
LastOf(rows, key) == rows[Max({i \in DOMAIN rows : rows[i].key = key})].fields

\* The n keys in the order of their ranks.
Sorted(n, keys, rank) ==
  CHOOSE list \in [1..n -> keys] :
    \A i, j \in 1..n : i < j => list[i] # list[j] /\ rank[list[i]] =< rank[list[j]]
Ascending(keys, rank) == Sorted(Cardinality(keys), keys, rank)
Descending(keys, rank) == Reverse(Ascending(keys, rank))
Column(table, field) == [k \in DOMAIN table |-> table[k][field]]

\* What a call leaves behind and what it answers.
Done(db, value) == [db |-> db, answer |-> <<"ok", value>>]
Refused(db, error) == [db |-> db, answer |-> <<error, None>>]

-----------------------------------------------------------------------------
(* Scalars. *)

\* A decimal: its sign as written, whole part and fraction digits.
Decimal == [sign : {"", "+", "-"}, whole : Nat, fraction : Seq(0..9)]

\* Read back in its shortest exact form, never as -0.
CanonicalDecimal(d) ==
  LET significant == {i \in DOMAIN d.fraction : d.fraction[i] # 0}
      fraction == SubSeq(d.fraction, 1, IF significant = {} THEN 0 ELSE Max(significant))
      zero == d.whole = 0 /\ fraction = <<>>
  IN [sign |-> IF d.sign = "+" \/ zero THEN "" ELSE d.sign,
      whole |-> d.whole, fraction |-> fraction]

\* numeric(20, 4): the value, padded to the scale of the column.
Numeric(d) ==
  [sign |-> IF d.sign = "-" /\ (d.whole # 0 \/ \E i \in DOMAIN d.fraction : d.fraction[i] # 0)
            THEN "-" ELSE "",
   whole |-> d.whole,
   fraction |-> [i \in 1..4 |-> IF i \in DOMAIN d.fraction THEN d.fraction[i] ELSE 0]]

\* No unit in progress is stored as null, and null is read as none.
ReconcileToRow(units) == IF units = <<>> THEN None ELSE units
ReconcileFromDb(value) == IF value = None THEN <<>> ELSE value

Defined(patch, columns) == Restrict(patch, DOMAIN patch \cap columns)

-----------------------------------------------------------------------------
(* Domain object to row and back; a table without a FromRow is read as it  *)
(* is stored.                                                              *)
PersonToRow(p) ==
  [displayName |-> p.displayName,
   mergedIntoId |-> IF "mergedIntoId" \in DOMAIN p THEN p.mergedIntoId ELSE None]
PersonPatchToRow(patch) == Defined(patch, {"displayName", "mergedIntoId"})
PersonIdentityToRow(i) == [personId |-> i.personId]

ThreadToRow(t) == [title |-> t.title, status |-> t.status]
ThreadPatchToRow(patch) == Defined(patch, {"title", "status"})

DocumentToRow(d) == [title |-> d.title, sourceRef |-> d.sourceRef, contentHash |-> d.contentHash]
DocumentPatchToRow(patch) == Defined(patch, {"title", "sourceRef", "contentHash"})

\* A sender is two columns; the person is dropped when there is no sender.
MailMessageToRow(w) ==
  [data |-> w.data, receivedAt |-> w.receivedAt, fromAddress |-> w.from,
   fromPersonId |-> IF w.from = None THEN None ELSE w.fromPersonId]
MailMessageFromRow(r) ==
  [id |-> r.id, data |-> r.data, receivedAt |-> r.receivedAt,
   from |-> IF r.fromAddress = None THEN None
            ELSE [email |-> r.fromAddress, personId |-> r.fromPersonId],
   createdAt |-> r.createdAt, updatedAt |-> r.updatedAt]

MoneyAccountToRow(a) == [balance |-> IF a.balance = None THEN None ELSE CanonicalDecimal(a.balance)]
MoneyAccountFromRow(r) ==
  [r EXCEPT !.balance = IF @ = None THEN None ELSE CanonicalDecimal(@)]
MoneyTransactionToRow(t, moneyAccountId) ==
  [moneyAccountId |-> moneyAccountId, amount |-> CanonicalDecimal(t.amount)]
MoneyTransactionFromRow(r) == [r EXCEPT !.amount = CanonicalDecimal(@)]

\* The person the linker found wins over the one the connector named, and the
\* organizer is the participant with the same address.
ParticipantToJson(p, personId) ==
  [email |-> p.email, personId |-> IF personId = None THEN p.personId ELSE personId]
TimeEventToRow(e) ==
  LET participant == ParticipantToJson(e.participant, e.participantPersonId)
  IN [startsAt |-> e.startsAt, endsAt |-> e.endsAt, participant |-> participant,
      organizer |-> IF e.organizer = None THEN None
                    ELSE [email |-> e.organizer,
                          personId |-> IF participant.email = e.organizer
                                       THEN participant.personId ELSE None]]

\* entity_type: the tables whose rows an event or an edge may be about.
EntityTables ==
  {"people", "threads", "documents", "mail_messages", "money_accounts", "money_transactions",
   "time_events", "context_events", "conclusions", "ingest_items", "handoffs", "devices"}

\* A reference to an entity is two columns, its type and its id there.
Ref(type, id) == <<type, id[1], id[2]>>
RefType(ref) == ref[1]
RefId(ref) == <<ref[2], ref[3]>>

ContextEventToRow(e) ==
  [subjectType |-> RefType(e.subject), subjectId |-> RefId(e.subject),
   importance |-> e.importance, attention |-> e.attention, metadata |-> e.metadata]
ContextEventFromRow(r) ==
  [id |-> r.id, subject |-> Ref(r.subjectType, r.subjectId),
   importance |-> r.importance, attention |-> r.attention, metadata |-> r.metadata,
   createdAt |-> r.createdAt]
ConclusionToRow(c) == [subjectType |-> RefType(c.subject), subjectId |-> RefId(c.subject)]
ConclusionFromRow(r) ==
  [id |-> r.id, subject |-> Ref(r.subjectType, r.subjectId), createdAt |-> r.createdAt]

ConnectorAccountToRow(a) == [status |-> a.status, credentialRef |-> a.credentialRef]
ConnectorAccountPatchToRow(patch) == Defined(patch, {"status", "credentialRef"})
SyncStatePatchToRow(patch) ==
  LET columns == Defined(patch, {"status", "checkpoint", "consecutiveFailures"})
  IN IF "reconcile" \in DOMAIN patch
     THEN Over([reconcile |-> ReconcileToRow(patch.reconcile)], columns) ELSE columns
SyncStateFromRow(r) == [r EXCEPT !.reconcile = ReconcileFromDb(@)]

DeviceToRow(d) == [name |-> d.name]
DevicePatchToRow(patch) == Defined(patch, {"name"})

\* A focus is two columns, both null or neither (handoffs_focus_pair).
FocusToRow(focus) ==
  [focusType |-> IF focus = None THEN None ELSE RefType(focus),
   focusId |-> IF focus = None THEN None ELSE RefId(focus)]
FocusFromRow(r) ==
  IF r.focusType = None \/ r.focusId = None THEN None ELSE Ref(r.focusType, r.focusId)
HandoffToRow(h) ==
  Over([sourceDeviceId |-> h.sourceDeviceId, state |-> h.state], FocusToRow(h.focus))
HandoffPatchToRow(patch) ==
  LET columns == Defined(patch, {"state"})
  IN IF "focus" \in DOMAIN patch THEN Over(FocusToRow(patch.focus), columns) ELSE columns
HandoffFromRow(r) ==
  [id |-> r.id, sourceDeviceId |-> r.sourceDeviceId, state |-> r.state,
   focus |-> FocusFromRow(r), createdAt |-> r.createdAt]

IngestItemToRow(i) ==
  [status |-> i.status, documentId |-> i.documentId,
   attempts |-> IF "attempts" \in DOMAIN i THEN i.attempts ELSE 0]
IngestItemPatchToRow(patch) == Defined(patch, {"status", "documentId", "attempts"})

ActionRequestToRow(input) == [payload |-> input.payload, status |-> "queued"]
ActionRequestPatchToRow(patch) == Defined(patch, {"status", "result", "attempts"})
=============================================================================
