--------------------------- MODULE IngestPipeline ---------------------------
(***************************************************************************)
(* processIngestItem and its callers (ingest.submit, ingest-process): how  *)
(* shared items become documents.  Processors are the calls at work at the *)
(* same time; every database round trip is an action, and a call may be    *)
(* killed or the store may fail at each of them.                           *)
(***************************************************************************)
EXTENDS Integers, FiniteSets

CONSTANTS
  Processor,    \* calls that may be at work at the same time
  Item,         \* ingest_items that become documents (file, image, url)
  HashOf,       \* [Item -> content hash, or None]: metadata.contentHash
  MaxAttempts,  \* MAX_INGEST_ATTEMPTS
  MaxRuns,      \* bound: runs that a failed item may be named for
  MaxDocument,  \* bound: documents that may be created
  MaxFaults,    \* bound: calls killed, and failures that could not be persisted
  None          \* null

\* Assumed by Jobs.
IngestAssumption ==
  /\ MaxAttempts \in Nat \ {0} /\ MaxDocument \in Nat
  /\ MaxRuns \in Nat /\ MaxAttempts <= MaxRuns /\ MaxFaults \in Nat
  /\ IsFiniteSet(Item) /\ DOMAIN HashOf = Item

VARIABLES
  item,      \* [Item -> ingest_items row]
  documents, \* the documents, by the item of their source ref
  event,     \* [Item -> subject of the ingest.received event, or None]
  proc,      \* the locals of each call
  faults     \* killed calls and lost failures so far

vars == <<item, documents, event, proc, faults>>

DocumentId == 1..MaxDocument
Document == [id : DocumentId, item : Item]
Row ==
  [status : {"absent", "received", "processed", "failed"},
   attempts : 0..MaxRuns, document : DocumentId \cup {None}]

Idle == [pc |-> "idle", item |-> None, attempts |-> 0, document |-> None]
Proc ==
  [pc : {"idle", "find", "create", "link", "event", "finish", "error"},
   item : Item \cup {None}, attempts : 0..MaxRuns,
   document : DocumentId \cup {None}]

\* A received item has runs left: one more of them may still be deferred or
\* must settle it.
TypeOK ==
  /\ item \in [Item -> Row]
  /\ \A i \in Item : item[i].status = "received" => item[i].attempts < MaxAttempts
  /\ documents \subseteq Document
  /\ \A d, e \in documents : d.id = e.id => d = e
  /\ event \in [Item -> DocumentId \cup {None}]
  /\ proc \in [Processor -> Proc]
  /\ faults \in 0..MaxFaults

Init ==
  /\ item = [i \in Item |-> [status |-> "absent", attempts |-> 0, document |-> None]]
  /\ documents = {}
  /\ event = [i \in Item |-> None]
  /\ proc = [p \in Processor |-> Idle]
  /\ faults = 0

-----------------------------------------------------------------------------
At(p, pc) == proc[p].pc = pc
Goto(p, pc) == proc' = [proc EXCEPT ![p].pc = pc]
Return(p) == proc' = [proc EXCEPT ![p] = Idle]

Begin(p, i, attempts) ==
  proc' = [proc EXCEPT ![p] = [pc |-> "find", item |-> i, attempts |-> attempts,
                               document |-> None]]

\* ingest.submit: the item is stored as received and processed at once.
Submit(p, i) ==
  /\ At(p, "idle") /\ item[i].status = "absent"
  /\ item' = [item EXCEPT ![i].status = "received"]
  /\ Begin(p, i, 1)
  /\ UNCHANGED <<documents, event, faults>>

\* ingest-process: every received item, or a named one that is not processed.
Process(p, i) ==
  /\ At(p, "idle") /\ item[i].status \in {"received", "failed"}
  /\ item[i].attempts < MaxRuns
  /\ Begin(p, i, item[i].attempts + 1)
  /\ UNCHANGED <<item, documents, event, faults>>

\* Mutant: the content hash alone identifies a document.
HashOnly(i) == {d \in documents : HashOf[i] # None /\ HashOf[d.item] = HashOf[i]}

\* findDocumentBySourceRef, then findDocumentByHash.
Existing(i) ==
  IF \E d \in documents : d.item = i
  THEN {d \in documents : d.item = i}
  ELSE {d \in documents : HashOf[i] # None /\ HashOf[d.item] = HashOf[i]}

Find(p) ==
  /\ At(p, "find")
  /\ LET found == Existing(proc[p].item)
     IN  IF found = {} THEN Goto(p, "create")
         ELSE \E d \in found :
                proc' = [proc EXCEPT ![p].pc = "link", ![p].document = d.id]
  /\ UNCHANGED <<item, documents, event, faults>>

\* upsertDocument under a fresh id: an insert.
Create(p) ==
  /\ At(p, "create")
  /\ Cardinality(documents) < MaxDocument
  /\ LET id == Cardinality(documents) + 1
     IN  /\ documents' = documents \cup {[id |-> id, item |-> proc[p].item]}
         /\ proc' = [proc EXCEPT ![p].pc = "link", ![p].document = id]
  /\ UNCHANGED <<item, event, faults>>

\* Mutant: the item is marked before its event is stored.
EagerLink(p) == At(p, "link") /\ Goto(p, "finish") /\ UNCHANGED <<item, documents, event, faults>>

\* The edges are upserts on their natural key.
Link(p) == At(p, "link") /\ Goto(p, "event") /\ UNCHANGED <<item, documents, event, faults>>

\* upsertContextEvents: an existing event of the key is returned unchanged.
StoreEvent(p) ==
  /\ At(p, "event")
  /\ LET i == proc[p].item
     IN  event' = [event EXCEPT ![i] = IF @ = None THEN proc[p].document ELSE @]
  /\ Goto(p, "finish")
  /\ UNCHANGED <<item, documents, faults>>

Finish(p) ==
  /\ At(p, "finish")
  /\ item' = [item EXCEPT ![proc[p].item] =
                [status |-> "processed", attempts |-> proc[p].attempts,
                 document |-> proc[p].document]]
  /\ Return(p)
  /\ UNCHANGED <<documents, event, faults>>

\* A database call throws; the write itself may have gone through, which is
\* the case of the action followed by a Killed processor.
Throw(p) ==
  /\ proc[p].pc \in {"find", "create", "link", "event", "finish"}
  /\ Goto(p, "error")
  /\ UNCHANGED <<item, documents, event, faults>>

\* Mutant: a deferred run is not counted.
FreeDefer(p) == proc[p].attempts < MaxAttempts /\ UNCHANGED item

\* A transient failure only counts the run, until the runs are spent.
Defer(p) ==
  /\ proc[p].attempts < MaxAttempts
  /\ item' = [item EXCEPT ![proc[p].item].attempts = proc[p].attempts]

Fail(p) ==
  item' = [item EXCEPT ![proc[p].item].status = "failed",
                       ![proc[p].item].attempts = proc[p].attempts]

Recover(p) ==
  /\ At(p, "error")
  /\ \/ (Defer(p) \/ Fail(p)) /\ UNCHANGED faults
     \/ /\ faults < MaxFaults  \* the failure could not be persisted
        /\ faults' = faults + 1
        /\ UNCHANGED item
  /\ Return(p)
  /\ UNCHANGED <<documents, event>>

Killed(p) ==
  /\ ~At(p, "idle")
  /\ faults < MaxFaults
  /\ faults' = faults + 1
  /\ Return(p)
  /\ UNCHANGED <<item, documents, event>>

Step(p) ==
  \/ Find(p) \/ Create(p) \/ Link(p) \/ StoreEvent(p) \/ Finish(p) \/ Recover(p)

Next ==
  \E p \in Processor :
    \/ \E i \in Item : Submit(p, i) \/ Process(p, i)
    \/ Step(p) \/ Throw(p) \/ Killed(p)

Spec == Init /\ [][Next]_vars

\* A call that is not killed goes on; the Field calls ingest-process after
\* every submit, at launch and when the connection returns, and each such call
\* goes through all received items.
Fairness ==
  /\ \A p \in Processor : WF_vars(Step(p))
  /\ \A i \in Item :
       SF_vars(item[i].status = "received" /\ \E p \in Processor : Process(p, i))

FairSpec == Spec /\ Fairness

-----------------------------------------------------------------------------
(***************************************************************************)
(* Properties.                                                             *)
(***************************************************************************)
\* "Processed exactly once, re-processing is idempotent": however often an
\* item is processed, killed and retried, it has one document, and items of
\* the same content share it.
OneDocument ==
  \A d, e \in documents :
    d.item = e.item \/ (HashOf[d.item] # None /\ HashOf[d.item] = HashOf[e.item])
      => d = e

\* A processed item has its event in NOW, and the event, the item row and the
\* store agree on the document.
ProcessedIsComplete ==
  \A i \in Item : item[i].status = "processed" =>
    /\ event[i] = item[i].document
    /\ \E d \in documents : d.id = item[i].document

\* No received item is stuck: an item whose runs keep failing is failed for
\* good after MAX_INGEST_ATTEMPTS of them, however the failures and kills fall.
EventuallySettled ==
  \A i \in Item : item[i].status = "received" ~> item[i].status # "received"

=============================================================================
