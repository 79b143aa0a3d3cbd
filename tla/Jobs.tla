-------------------------------- MODULE Jobs --------------------------------
(***************************************************************************)
(* The idempotent jobs: ActionDispatch and IngestPipeline, as a sum: the   *)
(* initial state picks what moves.  "together" is any number of concurrent *)
(* calls of one key while nothing fails; "alone" is one client that        *)
(* retries its key through crashes and outages; "ingest" is the pipeline.  *)
(* The two of ActionDispatch share its variables.                          *)
(***************************************************************************)
EXTENDS Integers, FiniteSets

CONSTANTS
  None,
  Call, ActionType, ActionOf, MAX_ACTION_ATTEMPTS,
  Client, MaxCrash,   \* the call that is "alone", and how often it is killed
  Processor, Item, HashOf, MAX_INGEST_ATTEMPTS, MaxRuns, MaxDocument, MaxFaults

VARIABLES
  job,
  request, fresh, call, threads, told, deferrals, crashes,
  item, documents, event, proc, faults

Together == INSTANCE ActionDispatch WITH
  MaxAttempts <- MAX_ACTION_ATTEMPTS, Failures <- FALSE, MaxCrash <- 0

Alone == INSTANCE ActionDispatch WITH
  Call <- {Client}, ActionOf <- [c \in {Client} |-> ActionOf[c]],
  MaxAttempts <- MAX_ACTION_ATTEMPTS, Failures <- TRUE

Ingest == INSTANCE IngestPipeline WITH MaxAttempts <- MAX_INGEST_ATTEMPTS

\* What the constants of the jobs must be.
ASSUME JobsAssumption ==
  /\ Together!DispatchAssumption /\ Alone!DispatchAssumption /\ Client \in Call
  /\ Ingest!IngestAssumption

dispatchVars == <<request, fresh, call, threads, told, deferrals, crashes>>
ingestVars == <<item, documents, event, proc, faults>>
vars == <<job, dispatchVars, ingestVars>>

Init ==
  /\ job \in {"together", "alone", "ingest"}
  /\ IF job = "alone" THEN Alone!Init ELSE Together!Init
  /\ Ingest!Init

Next ==
  \/ job = "together" /\ Together!Next /\ UNCHANGED <<job, ingestVars>>
  \/ job = "alone" /\ Alone!Next /\ UNCHANGED <<job, ingestVars>>
  \/ job = "ingest" /\ Ingest!Next /\ UNCHANGED <<job, dispatchVars>>

Spec == Init /\ [][Next]_vars

\* Each job under the fairness of its component.
Fairness ==
  /\ WF_dispatchVars(job = "alone" /\ Alone!Age)
  /\ WF_dispatchVars(job = "alone" /\ Alone!Answer(Client))
  /\ WF_dispatchVars(job = "alone" /\ Alone!Run(Client))
  /\ \A p \in Processor : WF_ingestVars(job = "ingest" /\ Ingest!Step(p))
  /\ \A i \in Item :
       SF_ingestVars(/\ job = "ingest" /\ item[i].status = "received"
                     /\ \E p \in Processor : Ingest!Process(p, i))

FairSpec == Spec /\ Fairness

-----------------------------------------------------------------------------
\* Every retry of a key is told the same outcome.
SameAnswer == Together!SameAnswer

\* As long as nothing fails, the handler runs once, however many calls race.
OneThreadPerKey == job = "together" => Together!OneThread

\* One document for an item, and for a content.
OneDocument == Ingest!OneDocument

\* What is marked as processed is complete.
ProcessedIsComplete == Ingest!ProcessedIsComplete

\* A key whose client keeps retrying settles.
KeySettles == job = "alone" => Alone!EventuallySettles

\* No received item is retried without end.
ItemSettles == Ingest!EventuallySettled
=============================================================================
