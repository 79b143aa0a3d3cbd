---------------------------- MODULE SyncSchedule ----------------------------
(***************************************************************************)
(* The scheduled sync: connector-sync goes over the users with accounts to *)
(* sync and runSync over the (account, capability) pairs of each, all      *)
(* within one wall-clock budget.  A pass is its pages; the engine's own    *)
(* steps are in SyncEngine.                                                *)
(***************************************************************************)
EXTENDS Integers, Sequences, SequencesExt

CONSTANTS
  Users,           \* sequence of users, in the order the database lists them
  AccountsOf,      \* [user -> sequence of accounts, in the store's order]
  CapabilitiesOf,  \* [account -> sequence of capabilities]
  NonResumable,    \* capabilities whose pass has no checkpoint before its end
  Backlog,         \* [capability -> pages of a first pass]
  Budget,          \* DEFAULT_SYNC_BUDGET_MS
  MinBudget,       \* MIN_NON_RESUMABLE_BUDGET_MS
  MaxPageTime,     \* the longest a page may take
  MaxEvents,       \* bound: times an account's status is changed from outside
  None

Account == UNION {ToSet(AccountsOf[u]) : u \in ToSet(Users)}
Pair == {p \in Account \X UNION {ToSet(CapabilitiesOf[a]) : a \in Account} :
           p[2] \in ToSet(CapabilitiesOf[p[1]])}
Status == {"active", "needs_reauth", "disconnected"}

SyncScheduleAssumption ==
  /\ Budget \in Nat \ {0} /\ MinBudget \in 1..Budget /\ MaxPageTime \in Nat \ {0}
  /\ \A c \in DOMAIN Backlog : Backlog[c] \in Nat \ {0}
  /\ MaxEvents \in Nat

VARIABLES
  status,   \* [Account -> status of its row]
  todo,     \* [Pair -> pages the provider has for it, from its checkpoint on]
  synced,   \* pairs whose pass has reached its end
  users,    \* users this invocation has still to visit
  queue,    \* pairs runSync has still to visit for the user
  latest,   \* [Account -> status as runSync last read it]
  running,  \* the pair whose pass is running
  spent,    \* time since the invocation began
  active,   \* an invocation is at work
  events

vars == <<status, todo, synced, users, queue, latest, running, spent, active, events>>

TypeOK ==
  /\ status \in [Account -> Status] /\ latest \in [Account -> Status]
  /\ \A p \in Pair : todo[p] \in 1..Backlog[p[2]]
  /\ synced \subseteq Pair /\ running \in Pair \cup {None}
  /\ ToSet(users) \subseteq ToSet(Users) /\ ToSet(queue) \subseteq Pair
  /\ spent \in Nat /\ active \in BOOLEAN /\ events \in 0..MaxEvents
  /\ ~active => users = <<>> /\ queue = <<>> /\ running = None

Init ==
  /\ status = [a \in Account |-> "active"] /\ latest = status
  /\ todo = [p \in Pair |-> Backlog[p[2]]] /\ synced = {}
  /\ users = <<>> /\ queue = <<>> /\ running = None
  /\ spent = 0 /\ active = FALSE /\ events = 0

Resumable(p) == p[2] \notin NonResumable

-----------------------------------------------------------------------------
\* The cron tick: the users who have an account that is active.
Tick ==
  /\ ~active
  /\ active' = TRUE /\ spent' = 0
  /\ users' = SelectSeq(Users, LAMBDA u : \E a \in ToSet(AccountsOf[u]) : status[a] = "active")
  /\ UNCHANGED <<status, todo, synced, queue, latest, running, events>>

PairsOf(u) ==
  FlattenSeq([i \in DOMAIN AccountsOf[u] |->
    LET a == AccountsOf[u][i]
    IN  [j \in DOMAIN CapabilitiesOf[a] |-> <<a, CapabilitiesOf[a][j]>>]])

\* Mutant: the pairs in the order the store returned them.
StoreOrder(u) == PairsOf(u)

\* scheduleCapabilities: passes that cannot resume go first.
ScheduleCapabilities(u) ==
  SelectSeq(PairsOf(u), LAMBDA p : ~Resumable(p)) \o SelectSeq(PairsOf(u), Resumable)

Idle == active /\ running = None

\* The next user, unless the budget is spent; runSync lists the accounts.
NextUser ==
  /\ Idle /\ queue = <<>> /\ users # <<>>
  /\ users' = Tail(users)
  /\ IF spent >= Budget THEN UNCHANGED <<queue, latest>>
     ELSE /\ queue' = ScheduleCapabilities(Head(users))
          /\ latest' = [a \in Account |-> IF a \in ToSet(AccountsOf[Head(users)])
                                          THEN status[a] ELSE latest[a]]
  /\ UNCHANGED <<status, todo, synced, running, spent, active, events>>

\* Mutant: a user's own budget, which ends after that of the invocation.
OwnBudget == 2 * Budget - spent

\* deadlineAt is absolute: what is left of it is left for everyone.
Left == Budget - spent

MayStart(p) ==
  /\ latest[p[1]] = "active" /\ Left > 0
  /\ Resumable(p) \/ Left >= MinBudget

\* Every gate of runSync's loop; the engine then refuses a disabled pair.
NextPair ==
  /\ Idle /\ queue # <<>>
  /\ queue' = Tail(queue)
  /\ running' = IF MayStart(Head(queue)) /\ status[Head(queue)[1]] # "disconnected"
                THEN Head(queue) ELSE None
  /\ UNCHANGED <<status, todo, synced, users, latest, spent, active, events>>

\* The account row is re-read after each run.
Reread(a) == latest' = [latest EXCEPT ![a] = status'[a]]

\* A page.  A pass that reaches its end leaves what changes until the next one;
\* one that is out of time stops at its checkpoint, or starts over.
Page ==
  /\ running # None
  /\ UNCHANGED status
  /\ \E t \in 1..MaxPageTime : spent' = spent + t
  /\ LET p == running
         last == todo[p] = 1
         over == Left' <= 0
     IN  /\ todo' = [todo EXCEPT ![p] =
              IF last THEN 1 ELSE IF over /\ ~Resumable(p) THEN Backlog[p[2]] ELSE @ - 1]
         /\ synced' = IF last THEN synced \cup {p} ELSE synced
         /\ IF last \/ over THEN running' = None /\ Reread(p[1])
            ELSE UNCHANGED <<running, latest>>
  /\ UNCHANGED <<users, queue, active, events>>

\* The provider refuses the credential: the account is parked.
Unauthorized ==
  /\ running # None /\ events < MaxEvents
  /\ events' = events + 1
  /\ status' = [status EXCEPT ![running[1]] = "needs_reauth"]
  /\ running' = None /\ Reread(running[1])
  /\ todo' = [todo EXCEPT ![running] = IF Resumable(running) THEN @ ELSE Backlog[running[2]]]
  /\ UNCHANGED <<synced, users, queue, spent, active>>

\* Mutant: the invocation ends when the last user's pairs are listed.
EarlyFinish ==
  /\ Idle /\ users = <<>>
  /\ active' = FALSE
  /\ UNCHANGED <<status, todo, synced, users, queue, latest, running, spent, events>>

Finish ==
  /\ Idle /\ queue = <<>> /\ users = <<>>
  /\ active' = FALSE
  /\ UNCHANGED <<status, todo, synced, users, queue, latest, running, spent, events>>

\* The user links an account again, or disconnects it.
SetStatus(a) ==
  /\ \/ status[a] # "active" /\ status' = [status EXCEPT ![a] = "active"] /\ events' = events
     \/ /\ status[a] = "active" /\ events < MaxEvents
        /\ status' = [status EXCEPT ![a] = "disconnected"] /\ events' = events + 1
  /\ UNCHANGED <<todo, synced, users, queue, latest, running, spent, active>>

Step == Tick \/ NextUser \/ NextPair \/ Page \/ Finish

Next == Step \/ Unauthorized \/ \E a \in Account : SetStatus(a)

\* pg_cron ticks, and an invocation that runs goes on.
Fairness == WF_vars(Step)

Spec == Init /\ [][Next]_vars
FairSpec == Spec /\ Fairness

-----------------------------------------------------------------------------
\* One invocation holds the budget for all its users together: it ends at most
\* one page after the deadline, so that the runtime never kills it.
BudgetRespected == active => spent < Budget + MaxPageTime

\* A needs_reauth from mail stops calendar: no pass of an account starts after
\* another one of the same loop has parked it.
ReauthStopsAccount ==
  [][\A a \in Account :
       running = None /\ running' # None /\ running'[1] = a => status[a] # "needs_reauth"]_vars

\* Nothing starves while each pass that cannot resume fits the budget: every pair of
\* an account that stays active reaches the end of its backlog.
EveryPairSynced ==
  \A p \in Pair : <>[](status[p[1]] = "active") => <>(p \in synced)

=============================================================================
