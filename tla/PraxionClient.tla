--------------------------- MODULE PraxionClient ---------------------------
(***************************************************************************)
(* PraxionClient: what this device holds to be true of Praxion, a program  *)
(* of its own that starts and quits when the user likes (connector.ts).    *)
(* One health probe at a time is shared by all who ask and kept for        *)
(* CacheTime; reads and opens that find the connection gone correct what   *)
(* is kept; usePraxionAvailability drops it and asks again every Interval. *)
(*                                                                         *)
(* A request reaches the port at one moment ("seen") and is answered at a  *)
(* later one, or times out.                                                *)
(***************************************************************************)
EXTENDS Integers, Sequences

CONSTANTS
  Caller,         \* what of the Field asks the client
  Contracts,      \* the contract versions, <<major, minor>>, that may be installed
  clientVersion,  \* the version the client was written for
  CacheTime, ProbeTimeout, RequestTimeout, Interval,
  MaxTicks, MaxSwitches,  \* bounds: of the time, of starts and stops of Praxion
  Broken,         \* what answers is not Praxion, or an error
  None            \* null

\* PraxionAvailability, with the reasons of "unavailable".
Availability == {"available", "incompatible", "not_running", "timeout", "error"}

PraxionAssumption ==
  /\ Contracts \subseteq Nat \X Nat /\ clientVersion \in Nat \X Nat
  /\ CacheTime \in Nat \ {0} /\ ProbeTimeout \in Nat \ {0} /\ RequestTimeout \in Nat \ {0}
  /\ Interval \in Nat /\ ProbeTimeout < Interval
  /\ MaxTicks \in Nat /\ MaxSwitches \in Nat
  /\ Broken \notin Contracts /\ None \notin Contracts /\ Broken # None
  /\ None \notin Availability \cup {"ok"}

isContractCompatible(server) ==
  server[1] = clientVersion[1] /\ server[2] >= clientVersion[2]

\* interpretHealth, of what runs on the port.
Interpreted(server) ==
  IF server = None THEN "not_running"
  ELSE IF server = Broken THEN "error"
  ELSE IF isContractCompatible(server) THEN "available" ELSE "incompatible"

\* What a request other than the probe meets: 426 for a major it does not speak.
Met(server) ==
  IF server = None THEN "not_running"
  ELSE IF server = Broken THEN "error"
  ELSE IF server[1] # clientVersion[1] THEN "incompatible" ELSE "ok"

\* The calls of the client that each user of it makes, in order: a read;
\* openDocument of open-document.ts, with a document Praxion can be given;
\* requestArtifactAction.
Plans == {<<"read">>, <<"ask", "open">>, <<"present", "supports", "ask", "open", "action">>}

Slowest == IF ProbeTimeout < RequestTimeout THEN RequestTimeout ELSE ProbeTimeout

VARIABLES
  running,   \* what runs on the port: a contract version, Broken or None
  tick,      \* Date.now()
  held,      \* history: the last tick each availability other than the present was so
  cache,     \* PraxionClient.cache
  inFlight,  \* PraxionClient.inFlight: when its probe was sent, and what it met
  request,   \* Caller -> the calls it has to make, and where the first of them is
  mark,      \* what usePraxionAvailability shows, and when it asked for it
  polling,   \* when it asked for what it waits for
  nextPoll,
  switches

praxion == <<running, held, switches>>
client == <<cache, inFlight>>
poller == <<mark, polling, nextPoll>>
vars == <<praxion, tick, client, poller, request>>

Idle == [todo |-> <<>>, pc |-> "idle", sent |-> 0, seen |-> None]
Ready(plan) == [todo |-> plan, pc |-> "ready", sent |-> 0, seen |-> None]

\* The last tick at which it was so.
LastHeld(value) == IF value = Interpreted(running) THEN tick ELSE held[value]

Init ==
  /\ running \in Contracts \cup {None, Broken}
  /\ tick = 0 /\ switches = 0
  /\ held = [value \in Availability |-> -(CacheTime + ProbeTimeout + RequestTimeout)]
  /\ cache = None /\ inFlight = None
  /\ request = [c \in Caller |-> Idle]
  /\ mark = None /\ polling = None /\ nextPoll = 0

-----------------------------------------------------------------------------
(* Praxion, and the time.                                                  *)

\* The user starts, quits or updates Praxion, or something else has its port.
Switch ==
  /\ switches < MaxSwitches /\ switches' = switches + 1
  /\ running' \in (Contracts \cup {None, Broken}) \ {running}
  /\ held' = [held EXCEPT ![Interpreted(running)] = tick]
  /\ UNCHANGED <<tick, client, poller, request>>

\* No request outlives its timeout.
Tick ==
  /\ tick < MaxTicks
  /\ inFlight # None => tick < inFlight.sent + ProbeTimeout
  /\ \A c \in Caller : request[c].pc = "calling" => tick < request[c].sent + RequestTimeout
  /\ tick' = tick + 1
  /\ UNCHANGED <<praxion, client, poller, request>>

-----------------------------------------------------------------------------
(* availability()                                                          *)

\* Mutant: the entry is good for its last millisecond too.
FreshTooLong(now) == cache # None /\ now - cache.at =< CacheTime
Fresh(now) == cache # None /\ now - cache.at < CacheTime

\* What becomes of a caller that is told how Praxion is: it makes its call,
\* goes on with the next, or ends.  openDocument goes to the OS viewer.
Told(r, value, capable) ==
  LET available == value = "available"
  IN CASE Head(r.todo) \in {"read", "open", "action"} ->
            IF available /\ (capable \/ Head(r.todo) = "open")
            THEN [r EXCEPT !.pc = "calling", !.sent = tick, !.seen = None]
            ELSE Idle
       [] Head(r.todo) = "ask" ->
            IF available THEN Ready(Tail(r.todo))
            ELSE IF Len(r.todo) > 2 THEN Ready(Tail(Tail(r.todo))) ELSE Idle
       [] OTHER -> IF available /\ capable THEN Ready(Tail(r.todo)) ELSE Idle

\* All of these are told.
Tell(callers, value, capable) ==
  request' = [c \in Caller |-> IF c \in callers THEN Told(request[c], value, capable)
                               ELSE request[c]]

\* this.inFlight, or one more probe.
Join == inFlight' = IF inFlight # None THEN inFlight ELSE [sent |-> tick, seen |-> None]

Begin(c) ==
  /\ request[c].pc = "idle"
  /\ \E plan \in Plans : request' = [request EXCEPT ![c] = Ready(plan)]
  /\ UNCHANGED <<praxion, tick, client, poller>>

availability(c) ==
  /\ request[c].pc = "ready"
  /\ IF Fresh(tick)
     THEN (\E capable \in BOOLEAN : Tell({c}, cache.value, capable)) /\ UNCHANGED client
     ELSE /\ request' = [request EXCEPT ![c].pc = "waiting"]
          /\ Join
          /\ UNCHANGED cache
  /\ UNCHANGED <<praxion, tick, poller>>

\* usePraxionAvailability: invalidate() first, "so the cache never hides a
\* state change".
Poll ==
  /\ tick >= nextPoll /\ polling = None
  /\ nextPoll' = tick + Interval /\ polling' = tick
  /\ cache' = None
  /\ Join
  /\ UNCHANGED <<praxion, tick, mark, request>>

ProbeSeen ==
  /\ inFlight # None /\ inFlight.seen = None
  /\ inFlight' = [inFlight EXCEPT !.seen = Interpreted(running)]
  /\ UNCHANGED <<praxion, tick, cache, poller, request>>

\* The probe is over: the cache has it, and so have all who wait.
Probed(value, capable) ==
  /\ inFlight' = None
  /\ cache' = [value |-> value, at |-> tick]
  /\ Tell({c \in Caller : request[c].pc = "waiting"}, value, capable)
  /\ mark' = IF polling = None THEN mark ELSE [value |-> value, asked |-> polling]
  /\ polling' = None
  /\ UNCHANGED <<tick, running, switches, nextPoll>>

ProbeDone ==
  /\ inFlight # None /\ inFlight.seen # None
  /\ \E capable \in BOOLEAN : Probed(inFlight.seen, capable)
  /\ UNCHANGED held

ProbeTimedOut ==
  /\ inFlight # None /\ tick >= inFlight.sent + ProbeTimeout
  /\ Probed("timeout", FALSE)
  /\ held' = [held EXCEPT !["timeout"] = tick]

-----------------------------------------------------------------------------
(* read, write and requestAction, once Praxion was said to be available.   *)
CallSeen(c) ==
  /\ request[c].pc = "calling" /\ request[c].seen = None
  /\ request' = [request EXCEPT ![c].seen = Met(running)]
  /\ UNCHANGED <<praxion, tick, client, poller>>

\* What is left of the plan after a call that went well; else nothing is.
Done(r, well) ==
  IF well /\ Len(r.todo) > 1 THEN Ready(Tail(r.todo)) ELSE Idle

\* Mutant: a slow call is noted as a loss.
NotesTimeouts(call, seen) == seen \in {"not_running", "incompatible", "timeout"}
\* noteLost: only for a connection that could not be made or a contract that
\* was rejected, and not after requestAction.
NotesLoss(call, seen) == call # "action" /\ seen \in {"not_running", "incompatible"}

CallEnds(c, seen) ==
  /\ request' = [request EXCEPT ![c] = Done(@, seen = "ok")]
  /\ cache' = IF NotesLoss(Head(request[c].todo), seen) THEN [value |-> seen, at |-> tick]
              ELSE cache
  /\ UNCHANGED <<praxion, tick, inFlight, poller>>

CallDone(c) ==
  /\ request[c].pc = "calling" /\ request[c].seen # None
  /\ CallEnds(c, request[c].seen)

CallTimedOut(c) ==
  /\ request[c].pc = "calling" /\ tick >= request[c].sent + RequestTimeout
  /\ CallEnds(c, "timeout")

Next ==
  \/ Switch \/ Tick \/ Poll \/ ProbeSeen \/ ProbeDone \/ ProbeTimedOut
  \/ \E c \in Caller : Begin(c) \/ availability(c) \/ CallSeen(c) \/ CallDone(c) \/ CallTimedOut(c)

Spec == Init /\ [][Next]_vars

-----------------------------------------------------------------------------
(* What the client tells of Praxion was so not long before: less than      *)
(* CacheTime and one timeout before it is told, whatever probes, losses    *)
(* and polls crossed; and the state mark was so when it was polled, or at  *)
(* most the timeout of a probe earlier, for a poll joins the probe that is *)
(* under way.                                                              *)
SaidIsFresh ==
  /\ Fresh(tick) => tick - LastHeld(cache.value) < CacheTime + Slowest
  /\ mark # None => mark.asked - LastHeld(mark.value) =< ProbeTimeout
=============================================================================
