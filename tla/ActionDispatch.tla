--------------------------- MODULE ActionDispatch ---------------------------
(***************************************************************************)
(* dispatchAction: the idempotent server-action seam, for one idempotency  *)
(* key.  Calls are the HTTP requests that carry the key: the first one,    *)
(* and the retries of a client that got no answer, a 409 or a retryable    *)
(* failure.  Each database round trip is an action.  The handler is the    *)
(* one of thread.create, whose first write is a plain insert.              *)
(***************************************************************************)
EXTENDS Integers, FiniteSets

CONSTANTS
  Call,         \* HTTP requests that may be in flight at the same time
  ActionType,   \* the action types clients send with the key
  ActionOf,     \* [Call -> ActionType]
  MaxAttempts,  \* MAX_ACTION_ATTEMPTS
  Failures,     \* whether the store may fail
  MaxCrash,     \* bound: calls killed half-way
  None          \* no row

VARIABLES
  request,   \* the action_requests row of the key
  fresh,     \* the row is younger than the staleness limit of its status
  call,      \* the locals of each call
  threads,   \* rows the handler has inserted
  told,      \* history: the settled outcomes clients have been told
  deferrals, \* history: runs recorded as transient failures
  crashes    \* calls killed so far

vars == <<request, fresh, call, threads, told, deferrals, crashes>>

Settled == {"done", "failed"}
Request ==
  [type : ActionType, status : {"queued", "running"} \cup Settled,
   attempts : 0..MaxAttempts + MaxCrash, error : BOOLEAN]

\* Assumed by Jobs, of each of its instances.
DispatchAssumption ==
  /\ MaxAttempts \in Nat \ {0} /\ MaxCrash \in Nat
  /\ IsFiniteSet(Call) /\ ActionOf \in [Call -> ActionType]
  /\ Failures \in BOOLEAN /\ None \notin Request

Idle == [pc |-> "idle", attempts |-> 0, created |-> FALSE]

\* A transient failure hands the key back fewer than MAX_ACTION_ATTEMPTS
\* times, also when calls are killed between two retries.
TypeOK ==
  /\ request \in Request \cup {None}
  /\ fresh \in BOOLEAN
  /\ call \in [Call -> [pc : {"idle", "lookup", "mark", "handle", "done", "defer", "fail"},
                        attempts : 0..MaxAttempts + MaxCrash,
                        created : BOOLEAN]]
  /\ threads \in Nat
  /\ told \subseteq Settled
  /\ deferrals \in 0..MaxAttempts - 1
  /\ crashes \in 0..MaxCrash

Init ==
  /\ request = None
  /\ fresh = FALSE
  /\ call = [c \in Call |-> Idle]
  /\ threads = 0
  /\ told = {}
  /\ deferrals = 0
  /\ crashes = 0

-----------------------------------------------------------------------------
At(c, pc) == call[c].pc = pc
Goto(c, pc) == call' = [call EXCEPT ![c].pc = pc]
Return(c) == call' = [call EXCEPT ![c] = Idle]

\* createActionRequest: insert unless the key exists ...
Insert(c) ==
  /\ At(c, "idle")
  /\ IF request = None
     THEN /\ request' = [type |-> ActionOf[c], status |-> "queued",
                         attempts |-> 0, error |-> FALSE]
          /\ fresh' = TRUE
          /\ call' = [call EXCEPT ![c] = [pc |-> "mark", attempts |-> 0, created |-> TRUE]]
     ELSE Goto(c, "lookup") /\ UNCHANGED <<request, fresh>>
  /\ UNCHANGED <<threads, told, deferrals, crashes>>

\* ... then read the row that was there.  A settled one is replayed; a
\* conflicting, running or about-to-run one is a 409; the others run again.
AwaitingRetry == request.status = "queued" /\ request.attempts > 0 /\ request.error

\* Mutant: a queued row is up for grabs.
QueuedIsFree == fresh /\ request.status = "running"

\* Mutant: a row that is running never goes stale.
NeverStale ==
  request.status = "running" \/ (fresh /\ request.status = "queued" /\ ~AwaitingRetry)

InProgress ==
  fresh /\ (request.status = "running" \/ (request.status = "queued" /\ ~AwaitingRetry))

Replay(c) ==
  /\ At(c, "lookup")
  /\ request.type = ActionOf[c] /\ request.status \in Settled
  /\ told' = told \cup {request.status}
  /\ Return(c)
  /\ UNCHANGED <<request, fresh, threads, deferrals, crashes>>

Refuse(c) ==
  /\ At(c, "lookup")
  /\ request.type # ActionOf[c] \/ InProgress
  /\ Return(c)
  /\ UNCHANGED <<request, fresh, threads, told, deferrals, crashes>>

\* Mutant: a settled failure is run again.
RetryTake(c) ==
  /\ At(c, "lookup")
  /\ request.type = ActionOf[c] /\ request.status # "done" /\ ~InProgress
  /\ call' = [call EXCEPT ![c].pc = "mark", ![c].attempts = request.attempts]
  /\ UNCHANGED <<request, fresh, threads, told, deferrals, crashes>>

Take(c) ==
  /\ At(c, "lookup")
  /\ request.type = ActionOf[c] /\ request.status \notin Settled /\ ~InProgress
  /\ call' = [call EXCEPT ![c].pc = "mark", ![c].attempts = request.attempts]
  /\ UNCHANGED <<request, fresh, threads, told, deferrals, crashes>>

\* Mark running: attempts + 1 over the snapshot this call has read.
Mark(c) ==
  /\ At(c, "mark")
  /\ request' = [request EXCEPT !.status = "running", !.error = FALSE,
                                !.attempts = call[c].attempts + 1]
  /\ fresh' = TRUE
  /\ call' = [call EXCEPT ![c] = [pc |-> "handle", created |-> FALSE,
                                  attempts |-> call[c].attempts + 1]]
  /\ UNCHANGED <<threads, told, deferrals, crashes>>

\* What a round trip may throw.  A failed fetch carries no code; a code of one
\* class says that the server was not available, of another that the request
\* will never do.
StoreErrors == {"no code", "unavailable", "integrity"}

\* isTransientStoreError: it says nothing about the request.
Transient(error) == error \in {"no code", "unavailable"}

\* A transient failure goes back to queued, until the attempts are spent.
DeferOrFail(c, error) ==
  Goto(c, IF Transient(error) /\ call[c].attempts < MaxAttempts THEN "defer" ELSE "fail")

\* The handler inserts its row and returns, violates a business rule, or is
\* cut short by an error before or after the insert.
Handle(c) ==
  /\ At(c, "handle")
  /\ \/ threads' = threads + 1 /\ Goto(c, "done")
     \/ threads' = threads /\ Goto(c, "fail")
     \/ /\ Failures /\ threads' \in {threads, threads + 1}
        /\ \E error \in StoreErrors : DeferOrFail(c, error)
  /\ UNCHANGED <<request, fresh, told, deferrals, crashes>>

\* The outcome is recorded and answered.  The done write is inside the try:
\* when it fails, so does the run.
RecordDone(c) ==
  /\ At(c, "done")
  /\ \/ /\ request' = [request EXCEPT !.status = "done", !.error = FALSE]
        /\ fresh' = TRUE
        /\ told' = told \cup {"done"}
        /\ Return(c)
     \/ /\ Failures
        /\ \E error \in StoreErrors : DeferOrFail(c, error)
        /\ UNCHANGED <<request, fresh, told>>
  /\ UNCHANGED <<threads, deferrals, crashes>>

Defer(c) ==
  /\ At(c, "defer")
  /\ request' = [request EXCEPT !.status = "queued", !.error = TRUE]
  /\ fresh' = TRUE
  /\ deferrals' = deferrals + 1
  /\ Return(c)
  /\ UNCHANGED <<threads, told, crashes>>

RecordFailed(c) ==
  /\ At(c, "fail")
  /\ request' = [request EXCEPT !.status = "failed", !.error = TRUE]
  /\ fresh' = TRUE
  /\ told' = told \cup {"failed"}
  /\ Return(c)
  /\ UNCHANGED <<threads, deferrals, crashes>>

\* The runtime kills the call, or a write outside the try throws (500).
Crash(c) ==
  /\ ~At(c, "idle")
  /\ crashes < MaxCrash
  /\ crashes' = crashes + 1
  /\ Return(c)
  /\ UNCHANGED <<request, fresh, threads, told, deferrals>>

\* The limits are chosen so that a row outlives the call that wrote it: the
\* edge runtime limit is below STALE_RUNNING_MS, and the insert and the
\* running write of a live call are less than STALE_QUEUED_MS apart.
Writing(c) == call[c].pc \in {"handle", "done", "defer", "fail"} \/ call[c].created
Age ==
  /\ request # None
  /\ fresh
  /\ \A c \in Call : ~Writing(c)
  /\ fresh' = FALSE
  /\ UNCHANGED <<request, call, threads, told, deferrals, crashes>>

Answer(c) == Insert(c) \/ Replay(c) \/ Refuse(c) \/ Take(c)
Run(c) == Mark(c) \/ Handle(c) \/ RecordDone(c) \/ Defer(c) \/ RecordFailed(c)

Next == Age \/ \E c \in Call : Answer(c) \/ Run(c) \/ Crash(c)

Spec == Init /\ [][Next]_vars

\* The client sends the envelope again until it is told a settled outcome, a
\* live call keeps running, and time passes.
Fairness ==
  /\ WF_vars(Age)
  /\ \A c \in Call : WF_vars(Answer(c)) /\ WF_vars(Run(c))

FairSpec == Spec /\ Fairness

-----------------------------------------------------------------------------
(***************************************************************************)
(* Properties.                                                             *)
(***************************************************************************)
\* Every retry of a key is told the same outcome.
SameAnswer == Cardinality(told) <= 1

\* The handler's row is inserted once, however often the key is dispatched.
OneThread == threads <= 1

\* Whatever fails and whoever is killed, a key whose client keeps retrying
\* settles: no status is a dead end.
EventuallySettles == <>[](request # None /\ request.status \in Settled)

=============================================================================
