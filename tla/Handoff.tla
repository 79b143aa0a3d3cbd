------------------------------ MODULE Handoff ------------------------------
(***************************************************************************)
(* One handoff between the devices of a user: handoff.create, and          *)
(* handoff.accept dispatched by several devices at once under one          *)
(* idempotency key per device.  Every database round trip is an action; a  *)
(* call may be killed at each, and the device then sends its key again.    *)
(***************************************************************************)
EXTENDS Integers, FiniteSets

CONSTANTS
  Device,    \* devices that may ask for the handoff
  MaxKills,  \* bound: calls killed half-way
  None       \* null

Answer == [answer : {"accepted", "refused"}, prompted : BOOLEAN]
Asked == [expired : BOOLEAN, late : BOOLEAN]
Row == [state : {"pending", "accepted", "expired"}, target : Device \cup {None}]

\* What the constants must be.
HandoffAssumption ==
  MaxKills \in Nat /\ None \notin Device \cup Row \cup Asked \cup Answer

VARIABLES
  handoff,  \* the handoffs row
  prompt,   \* the handoff.created context event in NOW
  creating, \* where handoff.create is
  expired,  \* expiresAt has passed
  call,     \* the locals of each device's handoff.accept
  asked,    \* history: when each device first asked
  told,     \* the settled answer of each device's key
  kills

vars == <<handoff, prompt, creating, expired, call, asked, told, kills>>

NoCall == [pc |-> "idle", expired |-> FALSE, prompted |-> FALSE]
Call == [pc : {"idle", "read", "accept", "expire", "dismiss"}, expired : BOOLEAN,
         prompted : BOOLEAN]

TypeOK ==
  /\ handoff \in Row \cup {None}
  /\ handoff # None /\ handoff.state = "accepted" => handoff.target # None
  /\ prompt \in {"none", "needs_attention", "dismissed"}
  /\ creating \in {"row", "prompt", "done"} /\ expired \in BOOLEAN
  /\ call \in [Device -> Call]
  /\ asked \in [Device -> Asked \cup {None}]
  /\ told \in [Device -> Answer \cup {None}]
  /\ kills \in 0..MaxKills

Init ==
  /\ handoff = None /\ prompt = "none" /\ creating = "row" /\ expired = FALSE
  /\ call = [d \in Device |-> NoCall]
  /\ asked = [d \in Device |-> None]
  /\ told = [d \in Device |-> None]
  /\ kills = 0

-----------------------------------------------------------------------------
\* handoff.create: the row, for one device or any, then its prompt in NOW.
CreateRow ==
  /\ creating = "row"
  /\ \E t \in Device \cup {None} : handoff' = [state |-> "pending", target |-> t]
  /\ creating' = "prompt"
  /\ UNCHANGED <<prompt, expired, call, asked, told, kills>>

CreatePrompt ==
  /\ creating = "prompt"
  /\ prompt' = "needs_attention"
  /\ creating' = "done"
  /\ UNCHANGED <<handoff, expired, call, asked, told, kills>>

\* HANDOFF_TTL_MS goes by.
Expiry ==
  /\ handoff # None /\ ~expired
  /\ expired' = TRUE
  /\ UNCHANGED <<handoff, prompt, creating, call, asked, told, kills>>

-----------------------------------------------------------------------------
Goto(d, pc) == call' = [call EXCEPT ![d].pc = pc]

\* The key settles: done or failed, and every later request replays it.
Settle(d, answer) ==
  /\ told' = [told EXCEPT ![d] = [answer |-> answer, prompted |-> call[d].prompted]]
  /\ call' = [call EXCEPT ![d] = NoCall]

ToldAccepted(d) == told[d] # None /\ told[d].answer = "accepted"

\* The device finds the handoff in its list and asks; now() is read first.
Ask(d) ==
  /\ handoff # None /\ told[d] = None /\ call[d].pc = "idle"
  /\ call' = [call EXCEPT ![d] =
       [pc |-> "read", expired |-> expired, prompted |-> prompt # "none"]]
  /\ asked' = [asked EXCEPT ![d] =
       IF @ = None THEN [expired |-> expired, late |-> \E e \in Device : ToldAccepted(e)]
       ELSE @]
  /\ UNCHANGED <<handoff, prompt, creating, expired, told, kills>>

\* Mutant: only the state says whether it is still to be had.
StateOnly(d) == handoff.state = "expired"
Expired(d) == handoff.state = "expired" \/ call[d].expired

\* Mutant: a handoff taken by another device may be taken over.
TakeOver(d) == handoff.state = "pending" /\ handoff.target \notin {None, d}
Taken(d) == handoff.target \notin {None, d}

\* getHandoff, and the checks in their order.
Read(d) ==
  /\ call[d].pc = "read"
  /\ \/ /\ handoff.state = "accepted"
        /\ Settle(d, IF Taken(d) THEN "refused" ELSE "accepted")
     \/ /\ handoff.state # "accepted" /\ Expired(d)
        /\ IF handoff.state = "expired" THEN Settle(d, "refused")
           ELSE Goto(d, "expire") /\ UNCHANGED told
     \/ /\ handoff.state # "accepted" /\ ~Expired(d)
        /\ IF Taken(d) THEN Settle(d, "refused")
           ELSE Goto(d, "accept") /\ UNCHANGED told
  /\ UNCHANGED <<handoff, prompt, creating, expired, asked, kills>>

\* updateHandoff is by id alone: it overwrites what others wrote meanwhile.
MarkExpired(d) ==
  /\ call[d].pc = "expire"
  /\ handoff' = [handoff EXCEPT !.state = "expired"]
  /\ Settle(d, "refused")
  /\ UNCHANGED <<prompt, creating, expired, asked, kills>>

\* Mutant: the row does not name the device that accepted.
AcceptUnnamed(d) ==
  /\ call[d].pc = "accept"
  /\ handoff' = [handoff EXCEPT !.state = "accepted"]
  /\ Goto(d, "dismiss")
  /\ UNCHANGED <<prompt, creating, expired, asked, told, kills>>

Accept(d) ==
  /\ call[d].pc = "accept"
  /\ handoff' = [state |-> "accepted", target |-> d]
  /\ Goto(d, "dismiss")
  /\ UNCHANGED <<prompt, creating, expired, asked, told, kills>>

DismissPrompt(d) ==
  /\ call[d].pc = "dismiss"
  /\ prompt' = IF prompt = "none" THEN prompt ELSE "dismissed"
  /\ Settle(d, "accepted")
  /\ UNCHANGED <<handoff, creating, expired, asked, kills>>

Killed(d) ==
  /\ call[d].pc # "idle" /\ kills < MaxKills
  /\ kills' = kills + 1
  /\ call' = [call EXCEPT ![d] = NoCall]
  /\ UNCHANGED <<handoff, prompt, creating, expired, asked, told>>

Next ==
  \/ CreateRow \/ CreatePrompt \/ Expiry
  \/ \E d \in Device : \/ Ask(d) \/ Read(d) \/ MarkExpired(d) \/ Accept(d)
                       \/ DismissPrompt(d) \/ Killed(d)

Spec == Init /\ [][Next]_vars

-----------------------------------------------------------------------------
(***************************************************************************)
(* Properties.                                                             *)
(***************************************************************************)
\* "Already accepted by another device": a device that first asks after another
\* one was told accepted, or after the handoff expired, is never told it has it,
\* however calls overlap, are killed and are retried.
TooLateIsRefused == \A d \in Device : ToldAccepted(d) => ~asked[d].late /\ ~asked[d].expired

\* The prompt is resolved: it leaves NOW with the accept that found it there,
\* while no call is killed between the two writes.
PromptResolved ==
  kills = 0 => \A d \in Device :
    ToldAccepted(d) /\ told[d].prompted => prompt = "dismissed"
=============================================================================
