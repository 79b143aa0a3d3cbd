--------------------------- MODULE Context_proofs ---------------------------
(***************************************************************************)
(* Proofs about Context, for every value of its constants: the handoff,    *)
(* the events of a calendar, NOW, One Command, the shares, what a page     *)
(* reads and what is said of Praxion.  Each has an inductive invariant of  *)
(* its own; since no step of one touches what another keeps, every         *)
(* behaviour of Context is one of each (Components).                       *)
(***************************************************************************)
EXTENDS Context, Sequences, FiniteSetTheorems, TLAPS

\* What ContextAssumption says of each component.
LEMMA HandoffConstants ==
  MaxKills \in Nat /\ None \notin Device \cup H!Row \cup H!Asked \cup H!Answer
BY ContextAssumption DEF H!HandoffAssumption

LEMMA TimeConstants == None \notin Version \cup T!Event
BY ContextAssumption DEF T!TimeEventsAssumption

LEMMA NowConstants ==
  /\ Instants \subseteq Nat /\ 0 \in Instants
  /\ Starts \subseteq Int /\ Importances \subseteq 0..100 /\ Zones \subseteq -12..14
  /\ None \notin Int
BY ContextAssumption DEF N!NowAssumption

LEMMA CommandConstants ==
  /\ Mails \in Nat /\ MAIL_ATTACHMENT_SCAN \in Nat
  /\ Person \cap (Thread \cup Document \cup Transaction \cup O!Mail) = {} /\ None \notin Person
BY ContextAssumption DEF O!CommandAssumption

\* The module of OneCommand has the library's Cardinality under a name of its own.
LEMMA CommandCardinality == ASSUME NEW S PROVE O!Cardinality(S) = Cardinality(S)
BY DEF O!Cardinality, Cardinality

\* A step of the composition is a step of one component, and leaves the others.
LEMMA Components ==
  Spec => H!Spec /\ T!Spec /\ N!Spec /\ O!Spec /\ I!Spec /\ R!Spec /\ P!Spec
<1>1. Init => H!Init /\ T!Init /\ N!Init /\ O!Init /\ I!Init /\ R!Init /\ P!Init
  BY DEF Init
<1> USE DEF Next, vars, handoffVars, timeVars, nowVars, commandVars, shareVars, readVars,
            praxionVars
<1>2. [Next]_vars => [H!Next]_(H!vars)
  BY DEF H!vars
<1>3. [Next]_vars => [T!Next]_(T!vars)
  BY DEF T!vars
<1>4. [Next]_vars => [N!Next]_(N!vars)
  BY DEF N!vars
<1>5. [Next]_vars => [O!Next]_(O!vars)
  BY DEF O!vars, O!graph, O!field
<1>6. [Next]_vars => [I!Next]_(I!vars)
  BY DEF I!vars, I!plugin
<1>7. [Next]_vars => [R!Next]_(R!vars)
  BY DEF R!vars, R!server, R!provider, R!page
<1>8. [Next]_vars => [P!Next]_(P!vars)
  BY DEF P!vars, P!praxion, P!client, P!poller
<1> QED
  BY <1>1, <1>2, <1>3, <1>4, <1>5, <1>6, <1>7, <1>8, PTL
  DEF Spec, H!Spec, T!Spec, N!Spec, O!Spec, I!Spec, R!Spec, P!Spec

-----------------------------------------------------------------------------
(* Handoff *)
\* A device that asked in time: nobody had been told "accepted", nothing had expired.
InTime(d) == asked[d] # None /\ ~asked[d].late /\ ~asked[d].expired

\* What a device's call, its history and its answer say together.  The handoff
\* is never pending again once someone has passed its accept, so that a late
\* device cannot reach the accept.
DeviceInv(d) ==
  /\ call[d].pc # "idle" => asked[d] # None
  /\ asked[d] # None /\ asked[d].expired => expired
  /\ call[d].pc # "idle" /\ asked[d].expired => call[d].expired
  /\ call[d].pc \in {"accept", "dismiss"} \/ H!ToldAccepted(d) => InTime(d)
  /\ call[d].pc = "dismiss" \/ H!ToldAccepted(d) => handoff.state # "pending"
  /\ asked[d] # None /\ asked[d].late => handoff.state # "pending"

\* Nobody asks before there is a row, and only a device in time is ever named
\* by an accepted one.
HandoffInv ==
  /\ H!TypeOK
  /\ creating = "row" => handoff = None
  /\ handoff = None =>
       \A d \in Device : call[d].pc = "idle" /\ told[d] = None /\ asked[d] = None
  /\ handoff # None /\ handoff.state = "accepted" => InTime(handoff.target)
  /\ \A d \in Device : DeviceInv(d)

LEMMA HandoffInit == H!Init => HandoffInv
<1> SUFFICES ASSUME H!Init PROVE HandoffInv
  OBVIOUS
<1>1. H!TypeOK
  <2>1. H!NoCall \in H!Call
    BY DEF H!NoCall, H!Call
  <2>2. kills \in 0..MaxKills
    BY HandoffConstants DEF H!Init
  <2> QED BY <2>1, <2>2 DEF H!Init, H!TypeOK
<1>2. \A d \in Device : call[d].pc = "idle" /\ told[d] = None /\ asked[d] = None
  BY DEF H!Init, H!NoCall
<1> QED BY <1>1, <1>2 DEF H!Init, HandoffInv, DeviceInv, H!ToldAccepted

\* Creating the row, its prompt, and the passing of time.
LEMMA HandoffOutside ==
  ASSUME HandoffInv, H!CreateRow \/ H!CreatePrompt \/ H!Expiry \/ UNCHANGED H!vars
  PROVE  HandoffInv'
<1> USE HandoffConstants DEF H!TypeOK, H!Row
<1>1. CASE H!CreateRow
  BY <1>1 DEF H!CreateRow, HandoffInv, DeviceInv, H!ToldAccepted, InTime
<1>2. CASE H!CreatePrompt
  BY <1>2 DEF H!CreatePrompt, HandoffInv, DeviceInv, H!ToldAccepted, InTime
<1>3. CASE H!Expiry
  BY <1>3 DEF H!Expiry, HandoffInv, DeviceInv, H!ToldAccepted, InTime
<1>4. CASE UNCHANGED H!vars
  BY <1>4 DEF H!vars, HandoffInv, DeviceInv, H!ToldAccepted, InTime
<1> QED BY <1>1, <1>2, <1>3, <1>4

\* A device keeps its part of the invariant while another one moves.
LEMMA OtherDevice ==
  ASSUME NEW e \in Device, DeviceInv(e), call'[e] = call[e], asked'[e] = asked[e],
         told'[e] = told[e], expired' = expired,
         handoff.state # "pending" => handoff'.state # "pending"
  PROVE  DeviceInv(e)' /\ (InTime(e) => InTime(e)')
BY DEF DeviceInv, H!ToldAccepted, InTime

\* The round trips of one call of handoff.accept.
LEMMA HandoffCall ==
  ASSUME HandoffInv, NEW d \in Device,
         H!Ask(d) \/ H!Read(d) \/ H!MarkExpired(d) \/ H!Accept(d) \/ H!DismissPrompt(d) \/ H!Killed(d)
  PROVE  HandoffInv'
<1>0. H!NoCall \in H!Call /\ H!NoCall.pc = "idle"
  BY DEF H!NoCall, H!Call
<1>1. handoff # None /\ handoff \in H!Row
  BY DEF HandoffInv, H!TypeOK, H!Ask, H!Read, H!MarkExpired, H!Accept, H!DismissPrompt, H!Killed
<1>2. call \in [Device -> H!Call] /\ asked \in [Device -> H!Asked \cup {None}]
      /\ told \in [Device -> H!Answer \cup {None}]
  BY DEF HandoffInv, H!TypeOK
<1>9. handoff.state = "accepted" => handoff.target \in Device
  BY <1>1 DEF HandoffInv, H!TypeOK, H!Row
<1>3. ASSUME H!Ask(d)
      PROVE  HandoffInv'
  <2>1. H!TypeOK'
    BY <1>1, <1>3 DEF H!Ask, HandoffInv, H!TypeOK, H!Call, H!Asked
  <2>2. \A e \in Device \ {d} : DeviceInv(e)' /\ (InTime(e) => InTime(e)')
    BY <1>2, <1>3, OtherDevice DEF H!Ask, HandoffInv
  <2>3. DeviceInv(d)' /\ (InTime(d) => InTime(d)')
    <3>1. CASE asked[d] = None
      <4>1. asked'[d] = [expired |-> expired, late |-> \E e \in Device : H!ToldAccepted(e)]
        BY <1>2, <1>3, <3>1 DEF H!Ask
      <4>2. asked'[d].late => handoff.state # "pending"
        BY <4>1 DEF HandoffInv, DeviceInv
      <4>3. /\ asked'[d].expired => expired
            /\ asked'[d].expired => call'[d].expired
            /\ call'[d].pc = "read" /\ told'[d] = None
        <5>1. call'[d] = [pc |-> "read", expired |-> expired, prompted |-> prompt # "none"]
          BY <1>2, <1>3 DEF H!Ask
        <5>2. call'[d].expired = expired /\ call'[d].pc = "read"
          BY <5>1
        <5>3. asked'[d].expired = expired
          BY <4>1
        <5>4. told' = told /\ told[d] = None
          BY <1>3 DEF H!Ask
        <5> QED BY <5>2, <5>3, <5>4
      <4>4. asked'[d] # None
        <5>1. expired \in BOOLEAN /\ (\E e \in Device : H!ToldAccepted(e)) \in BOOLEAN
          BY DEF HandoffInv, H!TypeOK
        <5>2. asked'[d] \in H!Asked
          BY <4>1, <5>1 DEF H!Asked
        <5> QED BY <5>2, HandoffConstants
      <4>5. expired' = expired /\ handoff' = handoff
        BY <1>3 DEF H!Ask
      <4> QED BY <3>1, <4>2, <4>3, <4>4, <4>5 DEF DeviceInv, H!ToldAccepted, InTime
    <3>2. CASE asked[d] # None
      BY <1>2, <1>3, <3>2 DEF H!Ask, HandoffInv, DeviceInv, H!ToldAccepted, InTime
    <3> QED BY <3>1, <3>2
  <2> QED BY <1>1, <1>9, <1>3, <2>1, <2>2, <2>3 DEF H!Ask, HandoffInv
<1>4. ASSUME H!Read(d)
      PROVE  HandoffInv'
  <2>1. call' \in [Device -> H!Call] /\ told' \in [Device -> H!Answer \cup {None}]
    <3>1. \A a \in {"accepted", "refused"} :
            H!Settle(d, a) => call' \in [Device -> H!Call] /\ told' \in [Device -> H!Answer \cup {None}]
      BY <1>0, <1>2 DEF H!Settle, H!Call, H!Answer
    <3>2. \A pc \in {"expire", "accept"} : H!Goto(d, pc) => call' \in [Device -> H!Call]
      BY <1>2 DEF H!Goto, H!Call
    <3> QED BY <1>2, <1>4, <3>1, <3>2 DEF H!Read
  <2>2. H!TypeOK'
    BY <1>1, <1>4, <2>1 DEF H!Read, HandoffInv, H!TypeOK
  <2>3. \A e \in Device \ {d} : DeviceInv(e)' /\ (InTime(e) => InTime(e)')
    BY <1>2, <1>4, OtherDevice DEF H!Read, H!Goto, H!Settle, HandoffInv
  <2>4. DeviceInv(d)' /\ (InTime(d) => InTime(d)')
    <3>1. CASE handoff.state = "accepted"
      BY <1>0, <1>1, <1>2, <1>4, <3>1
      DEF H!Read, H!Settle, H!Taken, HandoffInv, H!TypeOK, DeviceInv, H!ToldAccepted, InTime
    <3>0. call[d].pc = "read" /\ DeviceInv(d) /\ asked'[d] = asked[d] /\ expired' = expired
          /\ handoff' = handoff
      BY <1>4 DEF H!Read, HandoffInv
    <3>2. ASSUME H!Settle(d, "refused")
          PROVE  DeviceInv(d)' /\ (InTime(d) => InTime(d)')
      <4>1. call'[d].pc = "idle" /\ told'[d].answer = "refused"
        BY <1>0, <1>2, <3>2 DEF H!Settle
      <4> QED BY <3>0, <4>1 DEF DeviceInv, H!ToldAccepted, InTime
    <3>3. CASE H!Goto(d, "expire") /\ UNCHANGED told
      <4>1. call'[d].pc = "expire" /\ call'[d].expired = call[d].expired
        BY <1>2, <3>3 DEF H!Goto, H!Call
      <4> QED BY <3>0, <3>3, <4>1 DEF DeviceInv, H!ToldAccepted, InTime
    <3>4. CASE handoff.state # "accepted" /\ ~H!Expired(d) /\ H!Goto(d, "accept") /\ UNCHANGED told
      <4>1. call'[d].pc = "accept" /\ call'[d].expired = call[d].expired
        BY <1>2, <3>4 DEF H!Goto, H!Call
      <4>2. handoff.state = "pending" /\ ~call[d].expired
        BY <1>1, <3>4 DEF H!Expired, H!Row
      <4>3. InTime(d)
        BY <3>0, <4>2 DEF DeviceInv, InTime
      <4> QED BY <3>0, <3>4, <4>1, <4>2, <4>3 DEF DeviceInv, H!ToldAccepted, InTime
    <3> QED BY <1>4, <3>1, <3>2, <3>3, <3>4 DEF H!Read
  <2> QED BY <1>1, <1>9, <1>4, <2>2, <2>3, <2>4 DEF H!Read, HandoffInv
<1>5. ASSUME H!MarkExpired(d)
      PROVE  HandoffInv'
  <2>1. H!TypeOK'
    BY <1>0, <1>1, <1>5 DEF H!MarkExpired, H!Settle, HandoffInv, H!TypeOK, H!Call, H!Answer, H!Row
  <2>2. handoff'.state = "expired"
    BY <1>1, <1>5 DEF H!MarkExpired, H!Row
  <2>3. \A e \in Device \ {d} : DeviceInv(e)'
    BY <1>2, <1>5, <2>2, OtherDevice DEF H!MarkExpired, H!Settle, HandoffInv
  <2>4. DeviceInv(d)'
    BY <1>0, <1>2, <1>5, <2>2 DEF H!MarkExpired, H!Settle, HandoffInv, DeviceInv, H!ToldAccepted, InTime
  <2> QED BY HandoffConstants, <1>1, <1>5, <2>1, <2>2, <2>3, <2>4 DEF H!MarkExpired, HandoffInv, H!Row
<1>6. ASSUME H!Accept(d)
      PROVE  HandoffInv'
  <2>1. H!TypeOK'
    <3>1. call' \in [Device -> H!Call]
      BY <1>2, <1>6 DEF H!Accept, H!Goto, H!Call
    <3>2. handoff' \in H!Row /\ handoff'.target = d
      BY <1>6 DEF H!Accept, H!Row
    <3>3. handoff'.target # None
      BY HandoffConstants, <3>2
    <3> QED BY <1>6, <3>1, <3>2, <3>3 DEF H!Accept, HandoffInv, H!TypeOK
  <2>2. handoff'.state = "accepted" /\ handoff'.target = d
    BY <1>6 DEF H!Accept
  <2>3. \A e \in Device \ {d} : DeviceInv(e)'
    BY <1>2, <1>6, <2>2, OtherDevice DEF H!Accept, H!Goto, HandoffInv
  <2>4. DeviceInv(d)' /\ InTime(d)'
    <3>1. call'[d].pc = "dismiss" /\ call'[d].expired = call[d].expired
      BY <1>2, <1>6 DEF H!Accept, H!Goto, H!Call
    <3>2. call[d].pc = "accept" /\ DeviceInv(d)
      BY <1>6 DEF H!Accept, HandoffInv
    <3> QED BY <1>6, <2>2, <3>1, <3>2 DEF H!Accept, DeviceInv, H!ToldAccepted, InTime
  <2> QED BY HandoffConstants, <1>6, <2>1, <2>2, <2>3, <2>4 DEF H!Accept, HandoffInv, InTime, H!Row
<1>7. ASSUME H!DismissPrompt(d)
      PROVE  HandoffInv'
  <2>1. H!TypeOK'
    BY <1>0, <1>7 DEF H!DismissPrompt, H!Settle, HandoffInv, H!TypeOK, H!Call, H!Answer
  <2>2. \A e \in Device \ {d} : DeviceInv(e)' /\ (InTime(e) => InTime(e)')
    BY <1>2, <1>7, OtherDevice DEF H!DismissPrompt, H!Settle, HandoffInv
  <2>3. DeviceInv(d)' /\ (InTime(d) => InTime(d)')
    BY <1>0, <1>2, <1>7 DEF H!DismissPrompt, H!Settle, HandoffInv, DeviceInv, H!ToldAccepted, InTime
  <2> QED BY <1>1, <1>9, <1>7, <2>1, <2>2, <2>3 DEF H!DismissPrompt, HandoffInv
<1>8. ASSUME H!Killed(d)
      PROVE  HandoffInv'
  <2>1. H!TypeOK'
    BY HandoffConstants, <1>0, <1>8 DEF H!Killed, HandoffInv, H!TypeOK
  <2>2. \A e \in Device \ {d} : DeviceInv(e)' /\ (InTime(e) => InTime(e)')
    BY <1>2, <1>8, OtherDevice DEF H!Killed, HandoffInv
  <2>3. DeviceInv(d)' /\ (InTime(d) => InTime(d)')
    BY <1>0, <1>2, <1>8 DEF H!Killed, HandoffInv, DeviceInv, H!ToldAccepted, InTime
  <2> QED BY <1>1, <1>9, <1>8, <2>1, <2>2, <2>3 DEF H!Killed, HandoffInv
<1> QED BY <1>3, <1>4, <1>5, <1>6, <1>7, <1>8

\* One step of the whole module.
LEMMA HandoffNext == HandoffInv /\ [H!Next]_H!vars => HandoffInv'
BY HandoffOutside, HandoffCall DEF H!Next

LEMMA HandoffInvariance == H!Spec => []HandoffInv
BY HandoffInit, HandoffNext, PTL DEF H!Spec

LEMMA HandoffTypes == H!Spec => []H!TypeOK
<1>1. HandoffInv => H!TypeOK
  BY DEF HandoffInv
<1> QED BY <1>1, HandoffInvariance, PTL

LEMMA HandoffLate == H!Spec => []H!TooLateIsRefused
<1>1. HandoffInv => H!TooLateIsRefused
  BY DEF HandoffInv, DeviceInv, InTime, H!TooLateIsRefused
<1> QED BY <1>1, HandoffInvariance, PTL

-----------------------------------------------------------------------------
\* Without kills a device has one call: the row cannot name a device that is
\* still on its way to the accept, so the accept goes on to the prompt it saw.
PromptInv ==
  /\ prompt = "none" <=> creating # "done"
  /\ kills = 0 => \A d \in Device :
       /\ call[d].pc # "idle" => told[d] = None
       /\ handoff # None /\ handoff.state = "accepted" /\ handoff.target = d =>
            call[d].pc = "dismiss" \/ told[d] # None
       /\ call[d].pc # "idle" /\ call[d].prompted => prompt # "none"
       /\ H!ToldAccepted(d) /\ told[d].prompted => prompt = "dismissed"

LEMMA InitPrompt == H!Init => PromptInv
<1> SUFFICES ASSUME H!Init PROVE PromptInv
  OBVIOUS
<1>1. \A d \in Device : call[d].pc = "idle" /\ told[d] = None
  BY DEF H!Init, H!NoCall
<1> QED BY <1>1 DEF H!Init, PromptInv, H!ToldAccepted

LEMMA OutsidePrompt ==
  ASSUME HandoffInv, PromptInv, H!CreateRow \/ H!CreatePrompt \/ H!Expiry \/ UNCHANGED H!vars
  PROVE  PromptInv'
<1>1. CASE H!CreateRow
  BY <1>1 DEF H!CreateRow, PromptInv, H!ToldAccepted
<1>2. CASE H!CreatePrompt
  BY <1>2 DEF H!CreatePrompt, PromptInv, H!ToldAccepted
<1>3. CASE H!Expiry
  BY <1>3 DEF H!Expiry, PromptInv, H!ToldAccepted
<1>4. CASE UNCHANGED H!vars
  BY <1>4 DEF H!vars, PromptInv, H!ToldAccepted
<1> QED BY <1>1, <1>2, <1>3, <1>4

LEMMA CallPrompt ==
  ASSUME HandoffInv, PromptInv, NEW d \in Device,
         H!Ask(d) \/ H!Read(d) \/ H!MarkExpired(d) \/ H!Accept(d) \/ H!DismissPrompt(d) \/ H!Killed(d)
  PROVE  PromptInv'
<1>0. H!NoCall.pc = "idle" /\ call \in [Device -> H!Call] /\ told \in [Device -> H!Answer \cup {None}]
      /\ kills \in 0..MaxKills /\ MaxKills \in Nat
  BY HandoffConstants DEF H!NoCall, HandoffInv, H!TypeOK
<1>1. \A r \in H!Answer : r # None
  BY HandoffConstants
<1>2. CASE H!Ask(d)
  <2>1. call'[d] = [pc |-> "read", expired |-> expired, prompted |-> prompt # "none"]
    BY <1>0, <1>2 DEF H!Ask
  <2>2. call'[d].pc = "read" /\ (call'[d].prompted => prompt # "none")
    <3>1. call'[d].prompted = (prompt # "none")
      BY <2>1
    <3>2. call'[d].pc = "read"
      BY <2>1
    <3>3. call'[d].prompted => prompt # "none"
      BY <3>1, Zenon
    <3> QED BY <3>2, <3>3
  <2>3. \A e \in Device \ {d} : call'[e] = call[e]
    BY <1>0, <1>2 DEF H!Ask
  <2>4. call[d].pc = "idle" /\ told[d] = None /\ UNCHANGED <<handoff, prompt, creating, told, kills>>
    BY <1>2 DEF H!Ask
  <2> QED BY <2>2, <2>3, <2>4 DEF PromptInv, H!ToldAccepted
<1>3. CASE H!Read(d)
  <2>1. UNCHANGED <<handoff, prompt, creating, kills>> /\ call[d].pc = "read" /\ handoff # None
    BY <1>3 DEF H!Read, HandoffInv, DeviceInv
  <2>2. ASSUME NEW a \in {"accepted", "refused"}, H!Settle(d, a),
               kills = 0 => a = "refused"
        PROVE  PromptInv'
    <3>1. /\ call'[d].pc = "idle" /\ told'[d].answer = a /\ told'[d] # None
          /\ \A e \in Device \ {d} : call'[e] = call[e] /\ told'[e] = told[e]
      <4>1. [answer |-> a, prompted |-> call[d].prompted] \in H!Answer
        BY <1>0 DEF H!Answer, H!Call
      <4> QED BY <1>0, <1>1, <2>2, <4>1 DEF H!Settle
    <3> QED BY <2>1, <2>2, <3>1 DEF PromptInv, H!ToldAccepted
  <2>3. ASSUME NEW pc \in {"expire", "accept"}, H!Goto(d, pc), UNCHANGED told
        PROVE  PromptInv'
    <3>1. /\ call'[d].pc = pc /\ call'[d].prompted = call[d].prompted
          /\ \A e \in Device \ {d} : call'[e] = call[e]
      BY <1>0, <2>3 DEF H!Goto, H!Call
    <3> QED BY <2>1, <2>3, <3>1 DEF PromptInv, H!ToldAccepted
  <2>4. CASE handoff.state = "accepted"
    <3>1. kills = 0 => handoff.target # d
      BY <2>1, <2>4 DEF PromptInv
    <3>2. handoff.target # None
      BY <2>1, <2>4 DEF HandoffInv, H!TypeOK
    <3>3. kills = 0 => H!Taken(d)
      BY <3>1, <3>2 DEF H!Taken
    <3> QED BY <1>3, <2>2, <2>4, <3>3 DEF H!Read
  <2> QED BY <1>3, <2>2, <2>3, <2>4 DEF H!Read
<1>4. CASE H!MarkExpired(d)
  <2>1. /\ call'[d].pc = "idle" /\ told'[d].answer = "refused"
        /\ \A e \in Device \ {d} : call'[e] = call[e] /\ told'[e] = told[e]
    BY <1>0, <1>4 DEF H!MarkExpired, H!Settle
  <2>2. handoff'.state = "expired"
    BY <1>4 DEF H!MarkExpired, HandoffInv, H!TypeOK, DeviceInv, H!Row
  <2> QED BY <1>4, <2>1, <2>2 DEF H!MarkExpired, PromptInv, H!ToldAccepted
<1>5. CASE H!Accept(d)
  <2>1. /\ call'[d].pc = "dismiss" /\ call'[d].prompted = call[d].prompted
        /\ \A e \in Device \ {d} : call'[e] = call[e]
    BY <1>0, <1>5 DEF H!Accept, H!Goto, H!Call
  <2>2. handoff'.target = d /\ call[d].pc = "accept" /\ UNCHANGED <<prompt, creating, told, kills>>
    BY <1>5 DEF H!Accept
  <2> QED BY <2>1, <2>2 DEF PromptInv, H!ToldAccepted
<1>6. CASE H!DismissPrompt(d)
  <2>1. /\ call'[d].pc = "idle" /\ told'[d].prompted = call[d].prompted /\ told'[d] # None
        /\ \A e \in Device \ {d} : call'[e] = call[e] /\ told'[e] = told[e]
    <3>1. [answer |-> "accepted", prompted |-> call[d].prompted] \in H!Answer
      BY <1>0 DEF H!Answer, H!Call
    <3> QED BY <1>0, <1>1, <1>6, <3>1 DEF H!DismissPrompt, H!Settle
  <2>2. /\ call[d].pc = "dismiss" /\ UNCHANGED <<handoff, creating, kills>>
        /\ prompt' = IF prompt = "none" THEN prompt ELSE "dismissed"
    BY <1>6 DEF H!DismissPrompt
  <2> QED BY <2>1, <2>2 DEF PromptInv, H!ToldAccepted
<1>7. CASE H!Killed(d)
  BY <1>0, <1>7 DEF H!Killed, PromptInv
<1> QED BY <1>2, <1>3, <1>4, <1>5, <1>6, <1>7

LEMMA HandoffPrompt == H!Spec => []H!PromptResolved
<1>1. PromptInv => H!PromptResolved
  BY DEF PromptInv, H!PromptResolved
<1>2. HandoffInv /\ PromptInv /\ [H!Next]_H!vars => PromptInv'
  BY OutsidePrompt, CallPrompt DEF H!Next
<1> QED BY <1>1, <1>2, InitPrompt, HandoffInvariance, PTL DEF H!Spec

-----------------------------------------------------------------------------
(* TimeEvents *)
SyncLocals ==
  [pc : {"idle", "store", "retire", "retiring", "reviving"}, version : Version \cup {None},
   prior : [Version -> T!Event \cup {None}], stale : SUBSET Version,
   metadata : T!Metadata \cup {None}, row : Version \cup {None}]
UserLocals ==
  [pc : {"idle", "write"}, row : Version \cup {None}, attention : T!Attention \cup {None},
   snoozed : BOOLEAN, metadata : T!Metadata \cup {None}]

\* What the locals of a sync and of a user's action hold at each of their steps.
Locals ==
  /\ events \in [Version -> T!Event \cup {None}]
  /\ sync \in SyncLocals /\ user \in UserLocals
  /\ provider \in Version \cup {None}
  /\ applied \in Version \cup {None} /\ overlap \in BOOLEAN
  /\ sync.pc # "idle" =>
       sync.version \in Version /\ \A v \in Version : sync.prior[v] # None => events[v] # None
  /\ sync.pc \in {"retire", "retiring"} => sync.stale \subseteq T!Stale
  /\ sync.pc = "retiring" => sync.row \in sync.stale
  /\ sync.pc \in {"retiring", "reviving"} => sync.metadata \in T!Metadata
  /\ sync.pc = "reviving" => sync.row = sync.version /\ T!CameBack /\ sync.stale = {}
  /\ user.pc = "write" =>
       user.row \in Version /\ user.metadata \in T!Metadata /\ user.attention \in T!Attention

\* What is shown was retired by nothing; a version the user dropped is dismissed
\* for good, and no sync at work, nor any action of the user, is about it.
Dropped(v) ==
  /\ events[v] # None /\ events[v].attention = "dismissed"
  /\ events[v].metadata.supersededBy = None
  /\ user.pc = "write" => user.row # v
  /\ sync.pc # "idle" =>
       sync.prior[v] # None /\ sync.prior[v].attention = "dismissed"
       /\ sync.prior[v].metadata.supersededBy = None

DropInv ==
  /\ \A v \in Version : T!Shown(v) => events[v].metadata.supersededBy = None
  /\ user.pc = "write" => user.metadata.supersededBy = None
  /\ dropped \subseteq Version
  /\ \A v \in dropped : Dropped(v)

\* While no action of the user has been at work beside it, a sync sees the rows
\* as it listed them, but for those it wrote; what it has still to retire is the
\* only thing shown beside its version.
VersionInv ==
  ~overlap =>
    /\ sync.pc # "idle" => user.pc = "idle" /\ applied = None
    /\ sync.pc = "store" => events = sync.prior
    /\ sync.pc \in {"retire", "retiring", "reviving"} =>
         \A v \in Version \ {sync.version} : T!Shown(v) => v \in sync.stale
    /\ sync.pc = "idle" /\ applied # None =>
         /\ \A v \in Version : T!Shown(v) => v = applied
         /\ user.pc = "write" => user.row = applied

TimeInv == Locals /\ DropInv /\ VersionInv

LEMMA NoneIsNoRow == None \notin Version /\ None \notin T!Event
BY TimeConstants

LEMMA IdleLocals ==
  /\ T!IdleSync \in SyncLocals /\ T!IdleSync.pc = "idle"
  /\ T!IdleUser \in UserLocals /\ T!IdleUser.pc = "idle"
BY DEF T!IdleSync, T!IdleUser, SyncLocals, UserLocals, T!NoEvents

LEMMA TimeInit == T!Init => TimeInv
<1> SUFFICES ASSUME T!Init PROVE TimeInv
  OBVIOUS
<1>1. sync \in SyncLocals /\ sync.pc = "idle" /\ user \in UserLocals /\ user.pc = "idle"
  BY IdleLocals DEF T!Init
<1>2. /\ events \in [Version -> T!Event \cup {None}] /\ \A v \in Version : events[v] = None
      /\ dropped = {} /\ applied = None /\ overlap = FALSE /\ provider \in Version
  BY DEF T!Init, T!NoEvents
<1>3. Locals
  BY <1>1, <1>2 DEF Locals
<1>4. DropInv
  BY <1>1, <1>2 DEF DropInv, T!Shown
<1>5. VersionInv
  BY <1>1, <1>2 DEF VersionInv, T!Shown
<1> QED BY <1>3, <1>4, <1>5 DEF TimeInv

LEMMA CalendarStep ==
  ASSUME TimeInv, T!Change \/ T!Delete \/ T!Killed \/ UNCHANGED T!vars
  PROVE  TimeInv'
<1>1. CASE T!Change
  BY <1>1 DEF T!Change, TimeInv, Locals, DropInv, VersionInv, Dropped, T!Shown, T!Stale, T!CameBack
<1>2. CASE T!Delete
  <2>1. events' \in [Version -> T!Event \cup {None}] /\ \A v \in Version : events'[v] = None
    BY <1>2 DEF T!Delete, T!NoEvents
  <2> QED BY <1>2, <2>1 DEF T!Delete, TimeInv, Locals, DropInv, VersionInv, Dropped, T!Shown, T!Stale, T!CameBack
<1>3. CASE T!Killed
  BY <1>3, IdleLocals DEF T!Killed, TimeInv, Locals, DropInv, VersionInv, Dropped, T!Shown, T!Stale, T!CameBack
<1>4. CASE UNCHANGED T!vars
  BY <1>4 DEF T!vars, TimeInv, Locals, DropInv, VersionInv, Dropped, T!Shown, T!Stale, T!CameBack
<1> QED BY <1>1, <1>2, <1>3, <1>4

LEMMA ListStep ==
  ASSUME TimeInv, T!ListPrior
  PROVE  TimeInv'
<1>1. /\ sync' = [T!IdleSync EXCEPT !.pc = "store", !.version = provider, !.prior = events]
      /\ overlap' = (user.pc # "idle") /\ applied' = None
      /\ UNCHANGED <<provider, events, user, dropped>>
  BY DEF T!ListPrior
<1>2. events \in [Version -> T!Event \cup {None}] /\ provider \in Version /\ user \in UserLocals
  BY DEF T!ListPrior, TimeInv, Locals
<1>3. sync' \in SyncLocals /\ sync'.pc = "store" /\ sync'.version = provider /\ sync'.prior = events
  BY <1>1, <1>2, IdleLocals DEF T!IdleSync, SyncLocals
<1>4. Locals'
  BY <1>1, <1>2, <1>3 DEF Locals, TimeInv
<1>5. DropInv'
  BY <1>1, <1>3 DEF TimeInv, DropInv, Dropped, T!Shown
<1>6. VersionInv'
  BY <1>1, <1>3 DEF VersionInv
<1> QED BY <1>4, <1>5, <1>6 DEF TimeInv

LEMMA StoreStep ==
  ASSUME TimeInv, T!StoreEvent
  PROVE  TimeInv'
<1> DEFINE Filed(a) == [attention |-> a, metadata |-> [supersededBy |-> None, snoozed |-> FALSE]]
<1>1. PICK filed \in T!FiledAs :
        events' = [events EXCEPT ![sync.version] = IF @ # None THEN @ ELSE Filed(filed)]
  BY DEF T!StoreEvent
<1>2. /\ sync.pc = "store" /\ sync.version \in Version /\ sync \in SyncLocals
      /\ events \in [Version -> T!Event \cup {None}]
  BY DEF T!StoreEvent, TimeInv, Locals
<1>3. /\ Filed(filed) \in T!Event /\ Filed(filed).metadata.supersededBy = None
      /\ Filed(filed).attention = filed
  BY DEF T!FiledAs, T!Event, T!Attention, T!Metadata
<1>4. /\ sync' \in SyncLocals /\ sync'.pc = "retire" /\ sync'.stale = T!Stale
      /\ sync'.version = sync.version /\ sync'.prior = sync.prior
      /\ UNCHANGED <<provider, user, dropped, applied, overlap>>
  BY <1>2 DEF T!StoreEvent, SyncLocals, T!Stale
<1> HIDE DEF Filed
<1>5. /\ events' \in [Version -> T!Event \cup {None}]
      /\ \A v \in Version \ {sync.version} : events'[v] = events[v]
      /\ events[sync.version] # None => events'[sync.version] = events[sync.version]
      /\ events[sync.version] = None => events'[sync.version] = Filed(filed)
  BY <1>1, <1>2, <1>3
<1>6. T!Stale' = T!Stale
  BY <1>4 DEF T!Stale
<1>7. Locals'
  BY <1>2, <1>4, <1>5, <1>6 DEF TimeInv, Locals
<1>8. DropInv'
  BY <1>2, <1>3, <1>4, <1>5 DEF TimeInv, DropInv, Dropped, T!Shown
<1>9. VersionInv'
  BY <1>2, <1>4, <1>5 DEF TimeInv, VersionInv, T!Shown, T!Stale
<1> QED BY <1>7, <1>8, <1>9 DEF TimeInv

\* The metadata is read, and the row remembered.
LEMMA ReadStep ==
  ASSUME TimeInv, T!ReadStale \/ T!ReadCurrent
  PROVE  TimeInv'
<1>1. PICK v \in Version, pc \in {"retiring", "reviving"} :
        /\ T!ReadRow(v, pc) /\ sync.pc = "retire"
        /\ pc = "retiring" => v \in sync.stale
        /\ pc = "reviving" => v = sync.version /\ T!CameBack /\ sync.stale = {}
  BY DEF T!ReadStale, T!ReadCurrent, TimeInv, Locals, SyncLocals
<1>2. /\ sync \in SyncLocals /\ events \in [Version -> T!Event \cup {None}]
      /\ sync.version \in Version
  BY <1>1 DEF TimeInv, Locals
<1>3. events[v] \in T!Event
  <2>1. sync.prior[v] # None
    BY <1>1, <1>2 DEF TimeInv, Locals, T!Stale, T!CameBack
  <2> QED BY <1>1, <1>2, <2>1 DEF TimeInv, Locals
<1>4. events[v].metadata \in T!Metadata
  BY <1>3 DEF T!Event
<1>5. /\ sync' \in SyncLocals /\ sync'.pc = pc /\ sync'.row = v /\ sync'.metadata = events[v].metadata
      /\ sync'.version = sync.version /\ sync'.prior = sync.prior /\ sync'.stale = sync.stale
      /\ UNCHANGED <<provider, events, user, dropped, applied, overlap>>
  BY <1>1, <1>2, <1>4 DEF T!ReadRow, SyncLocals
<1>6. T!Stale' = T!Stale /\ (T!CameBack <=> T!CameBack')
  BY <1>5 DEF T!Stale, T!CameBack
<1>7. Locals'
  BY <1>1, <1>4, <1>5, <1>6 DEF TimeInv, Locals
<1>8. DropInv'
  BY <1>1, <1>5 DEF TimeInv, DropInv, Dropped, T!Shown
<1>9. VersionInv'
  BY <1>1, <1>5 DEF TimeInv, VersionInv, T!Shown
<1> QED BY <1>7, <1>8, <1>9 DEF TimeInv

LEMMA RetireStep ==
  ASSUME TimeInv, T!Retire
  PROVE  TimeInv'
<1> DEFINE retired == [attention |-> "dismissed",
                       metadata |-> [sync.metadata EXCEPT !.supersededBy = sync.version]]
<1>1. /\ sync.pc = "retiring" /\ sync \in SyncLocals /\ sync.version \in Version
      /\ sync.row \in sync.stale /\ sync.stale \subseteq T!Stale /\ sync.row \in Version
      /\ sync.metadata \in T!Metadata /\ events \in [Version -> T!Event \cup {None}]
  BY DEF T!Retire, TimeInv, Locals, SyncLocals
<1>2. retired \in T!Event /\ retired.attention = "dismissed"
  BY <1>1 DEF T!Event, T!Attention, T!Metadata
<1>3. events' = [events EXCEPT ![sync.row] = retired]
  BY DEF T!Retire
<1> HIDE DEF retired
<1>4. /\ events' \in [Version -> T!Event \cup {None}] /\ events'[sync.row] = retired
      /\ \A v \in Version \ {sync.row} : events'[v] = events[v]
  BY <1>1, <1>2, <1>3
<1>5. /\ sync' \in SyncLocals /\ sync'.pc = "retire" /\ sync'.stale = sync.stale \ {sync.row}
      /\ sync'.version = sync.version /\ sync'.prior = sync.prior
      /\ UNCHANGED <<provider, user, dropped, applied, overlap>>
  BY <1>1 DEF T!Retire, SyncLocals
<1>6. T!Stale' = T!Stale
  BY <1>5 DEF T!Stale
<1>7. retired # None
  BY <1>2, NoneIsNoRow
<1>8. Locals'
  BY <1>1, <1>4, <1>5, <1>6, <1>7 DEF TimeInv, Locals
<1>9. sync.row \notin dropped
  BY <1>1 DEF TimeInv, DropInv, Dropped, T!Stale
<1>10. DropInv'
  BY <1>1, <1>2, <1>4, <1>5, <1>9 DEF TimeInv, DropInv, Dropped, T!Shown
<1>11. VersionInv'
  BY <1>1, <1>2, <1>4, <1>5 DEF TimeInv, VersionInv, T!Shown
<1> QED BY <1>8, <1>10, <1>11 DEF TimeInv

LEMMA DoneStep ==
  ASSUME TimeInv, T!Revive \/ T!NothingToRevive
  PROVE  TimeInv'
<1>1. /\ sync' \in SyncLocals /\ sync'.pc = "idle" /\ applied' = sync.version
      /\ UNCHANGED <<provider, user, dropped, overlap>>
      /\ sync.pc \in {"retire", "reviving"} /\ sync.stale = {} /\ sync.version \in Version
      /\ sync \in SyncLocals /\ events \in [Version -> T!Event \cup {None}]
  BY IdleLocals DEF T!Revive, T!NothingToRevive, T!BatchDone, TimeInv, Locals
<1>2. \/ events' = events
      \/ /\ sync.pc = "reviving" /\ T!CameBack
         /\ \E r \in T!Event : /\ events' = [events EXCEPT ![sync.version] = r]
                             /\ r.metadata.supersededBy = None
  <2>1. CASE T!NothingToRevive
    BY <2>1 DEF T!NothingToRevive
  <2>2. CASE T!Revive
    <3>1. sync.pc = "reviving" /\ T!CameBack /\ sync.metadata \in T!Metadata
      BY <2>2 DEF T!Revive, TimeInv, Locals
    <3>2. PICK filed \in T!FiledAs :
            events' = [events EXCEPT ![sync.version] =
              [attention |-> filed, metadata |-> [sync.metadata EXCEPT !.supersededBy = None]]]
      BY <2>2 DEF T!Revive
    <3> DEFINE r == [attention |-> filed, metadata |-> [sync.metadata EXCEPT !.supersededBy = None]]
    <3>3. r \in T!Event /\ r.metadata.supersededBy = None
      BY <3>1 DEF T!Event, T!Attention, T!FiledAs, T!Metadata
    <3> QED BY <3>1, <3>2, <3>3
  <2> QED BY <2>1, <2>2
<1>3. /\ events' \in [Version -> T!Event \cup {None}]
      /\ \A v \in Version \ {sync.version} : events'[v] = events[v]
  BY <1>1, <1>2
<1>4. Locals'
  BY <1>1, <1>3 DEF TimeInv, Locals
<1>5. DropInv'
  <2>1. CASE events' = events
    BY <1>1, <2>1 DEF TimeInv, DropInv, Dropped, T!Shown
  <2>2. CASE events' # events
    <3>1. sync.version \notin dropped /\ events'[sync.version].metadata.supersededBy = None
      BY <1>1, <1>2, <2>2 DEF TimeInv, DropInv, Dropped, T!CameBack
    <3>2. \A v \in dropped : v \in Version /\ events'[v] = events[v]
      BY <1>3, <3>1 DEF TimeInv, DropInv
    <3>3. ASSUME NEW v \in dropped PROVE Dropped(v)'
      <4>1. Dropped(v) /\ events'[v] = events[v] /\ user' = user /\ sync'.pc = "idle"
        BY <1>1, <3>2 DEF TimeInv, DropInv
      <4> QED BY <4>1 DEF Dropped
    <3>4. \A v \in Version : T!Shown(v)' => events'[v].metadata.supersededBy = None
      BY <1>1, <1>3, <3>1 DEF TimeInv, DropInv, T!Shown
    <3> QED BY <1>1, <3>3, <3>4 DEF TimeInv, DropInv
  <2> QED BY <2>1, <2>2
<1>6. VersionInv'
  BY <1>1, <1>3 DEF TimeInv, VersionInv, T!Shown
<1> QED BY <1>4, <1>5, <1>6 DEF TimeInv

-----------------------------------------------------------------------------
\* The user.
LEMMA DismissStep ==
  ASSUME TimeInv, NEW v \in Version, events[v] # None, T!Dismiss(v)
  PROVE  TimeInv'
<1>1. /\ user.pc = "idle" /\ T!Shown(v) /\ events[v] \in T!Event
      /\ events \in [Version -> T!Event \cup {None}] /\ sync \in SyncLocals
      /\ overlap' = (overlap \/ sync.pc # "idle")
      /\ UNCHANGED <<provider, sync, user, applied>>
  BY DEF T!Dismiss, TimeInv, Locals
<1>2. \/ UNCHANGED <<events, dropped>>
      \/ /\ events' = [events EXCEPT ![v].attention = "dismissed"]
         /\ dropped' = IF sync.pc = "idle" THEN dropped \cup {v} ELSE dropped
  BY DEF T!Dismiss
<1>3. /\ T!Stale' = T!Stale /\ (T!CameBack <=> T!CameBack')
      /\ overlap' \in BOOLEAN
  BY <1>1 DEF T!Stale, T!CameBack, TimeInv, Locals
<1>4. CASE UNCHANGED <<events, dropped>>
  BY <1>1, <1>3, <1>4 DEF TimeInv, Locals, DropInv, Dropped, VersionInv, T!Shown
<1>5. CASE /\ events' = [events EXCEPT ![v].attention = "dismissed"]
           /\ dropped' = IF sync.pc = "idle" THEN dropped \cup {v} ELSE dropped
  <2>1. /\ events'[v] \in T!Event /\ events'[v].attention = "dismissed"
        /\ events'[v].metadata = events[v].metadata
        /\ events' \in [Version -> T!Event \cup {None}]
        /\ \A w \in Version \ {v} : events'[w] = events[w]
    BY <1>1, <1>5 DEF T!Event, T!Attention
  <2>2. events'[v] # None
    BY <2>1, NoneIsNoRow
  <2>3. Locals'
    BY <1>1, <1>3, <2>1, <2>2 DEF TimeInv, Locals
  <2>4. DropInv'
    BY <1>1, <1>5, <2>1, <2>2 DEF TimeInv, DropInv, Dropped, T!Shown
  <2>5. VersionInv'
    BY <1>1, <2>1, <2>2 DEF TimeInv, VersionInv, T!Shown
  <2> QED BY <2>3, <2>4, <2>5 DEF TimeInv
<1> QED BY <1>2, <1>4, <1>5

LEMMA SetStep ==
  ASSUME TimeInv, NEW v \in Version, events[v] # None, T!Quiet(v) \/ T!Snooze(v) \/ T!Attend(v)
  PROVE  TimeInv'
<1>1. PICK attention \in T!Attention, snoozed \in BOOLEAN : T!Set(v, attention, snoozed)
  BY DEF T!Quiet, T!Snooze, T!Attend, T!Attention
<1>2. /\ user.pc = "idle" /\ T!Shown(v) /\ events[v] \in T!Event
      /\ overlap' = (overlap \/ sync.pc # "idle")
      /\ UNCHANGED <<provider, events, sync, dropped, applied>>
  BY <1>1 DEF T!Set, TimeInv, Locals
<1>3. events[v].metadata \in T!Metadata
  BY <1>2 DEF T!Event
<1>4. /\ user' \in UserLocals /\ user'.pc = "write" /\ user'.row = v
      /\ user'.metadata = events[v].metadata /\ user'.attention = attention
  BY <1>1, <1>3 DEF T!Set, UserLocals
<1>5. T!Stale' = T!Stale /\ (T!CameBack <=> T!CameBack') /\ overlap' \in BOOLEAN
  BY <1>2 DEF T!Stale, T!CameBack, TimeInv, Locals
<1>6. Locals'
  BY <1>2, <1>3, <1>4, <1>5 DEF TimeInv, Locals
<1>7. DropInv'
  BY <1>2, <1>4 DEF TimeInv, DropInv, Dropped, T!Shown
<1>8. VersionInv'
  BY <1>2, <1>4 DEF TimeInv, VersionInv, T!Shown
<1> QED BY <1>6, <1>7, <1>8 DEF TimeInv

LEMMA WriteStep ==
  ASSUME TimeInv, T!WriteBack
  PROVE  TimeInv'
<1> DEFINE written == [attention |-> user.attention,
                       metadata |-> [user.metadata EXCEPT !.snoozed = user.snoozed]]
<1>1. /\ user.pc = "write" /\ user \in UserLocals /\ user.row \in Version
      /\ user.metadata \in T!Metadata /\ user.attention \in T!Attention
      /\ events \in [Version -> T!Event \cup {None}] /\ sync \in SyncLocals
      /\ user' \in UserLocals /\ user'.pc = "idle"
      /\ UNCHANGED <<provider, sync, dropped, applied, overlap>>
  BY IdleLocals DEF T!WriteBack, TimeInv, Locals
<1>2. /\ written \in T!Event /\ written.attention = user.attention
      /\ written.metadata.supersededBy = user.metadata.supersededBy
  BY <1>1 DEF T!Event, T!Metadata, UserLocals
<1>3. events' = [events EXCEPT ![user.row] = IF @ = None THEN @ ELSE written]
  BY DEF T!WriteBack
<1> HIDE DEF written
<1>4. /\ events' \in [Version -> T!Event \cup {None}]
      /\ \A v \in Version \ {user.row} : events'[v] = events[v]
      /\ events[user.row] = None => events'[user.row] = None
      /\ events[user.row] # None => events'[user.row] = written
  BY <1>1, <1>2, <1>3
<1>5. T!Stale' = T!Stale /\ (T!CameBack <=> T!CameBack') /\ written # None
  BY <1>1, <1>2, NoneIsNoRow DEF T!Stale, T!CameBack
<1>6. Locals'
  BY <1>1, <1>4, <1>5 DEF TimeInv, Locals
<1>7. DropInv'
  BY <1>1, <1>2, <1>4 DEF TimeInv, DropInv, Dropped, T!Shown
<1>8. VersionInv'
  BY <1>1, <1>4 DEF TimeInv, VersionInv, T!Shown
<1> QED BY <1>6, <1>7, <1>8 DEF TimeInv

LEMMA TimeNext == TimeInv /\ [T!Next]_T!vars => TimeInv'
BY CalendarStep, ListStep, StoreStep, ReadStep, RetireStep, DoneStep, DismissStep, SetStep, WriteStep
DEF T!Next, T!SyncStep, T!UserStep

LEMMA TimeInvariance == T!Spec => []TimeInv
BY TimeInit, TimeNext, PTL DEF T!Spec

LEMMA TimeOneShown == T!Spec => []T!OneVersionShown
<1>1. TimeInv => T!OneVersionShown
  BY DEF TimeInv, VersionInv, T!OneVersionShown
<1> QED BY <1>1, TimeInvariance, PTL

LEMMA TimeDropped == T!Spec => []T!DismissalRespected
<1>1. TimeInv => T!DismissalRespected
  BY DEF TimeInv, DropInv, Dropped, T!DismissalRespected, T!Shown
<1> QED BY <1>1, TimeInvariance, PTL

-----------------------------------------------------------------------------
(* Now *)
Rows ==
  [importance : Int, attention : {"needs_attention", "quiet", "dismissed"},
   snoozedUntil : Int \cup {None}, occurred : Int \cup {None}, appointment : BOOLEAN,
   start : Int \cup {None}, end : Int \cup {None}]
Decisions ==
  [what : {"nothing", "quiet", "dismiss", "attend", "snooze"}, until : Int \cup {None},
   done : BOOLEAN]

\* A decision that was carried out stands in the row: the attention is the one it
\* set, and no snooze but its own is left beside it.
DecisionInv ==
  /\ event \in Rows /\ said \in Decisions /\ clock \in Nat /\ threaded \in BOOLEAN
  /\ said.what = "snooze" => said.until \in Int
  /\ event.appointment => event.start \in Int /\ event.end \in Int
  /\ said.done =>
       /\ said.what = "quiet" => event.attention = "quiet" /\ event.snoozedUntil = None
       /\ said.what = "dismiss" => event.attention = "dismissed"
       /\ said.what = "attend" => event.attention = "needs_attention" /\ event.snoozedUntil = None
       /\ said.what = "snooze" => event.attention = "quiet" /\ event.snoozedUntil = said.until

LEMMA RowTypes ==
  ASSUME NEW importance \in Int, NEW attention \in {"needs_attention", "quiet"},
         NEW occurred \in Int \cup {None}
  PROVE  /\ N!Row(importance, attention, occurred) \in Rows
         /\ ~N!Row(importance, attention, occurred).appointment
BY DEF N!Row, Rows

LEMMA DecisionInit == N!Init => DecisionInv
<1> SUFFICES ASSUME N!Init PROVE DecisionInv
  OBVIOUS
<1>1. ASSUME event \in N!FromMail(0) PROVE event \in Rows /\ ~event.appointment
  <2>1. CASE event = N!Row(15, "quiet", 0)
    BY <2>1, RowTypes
  <2>2. CASE event # N!Row(15, "quiet", 0)
    <3>1. PICK importance \in {25, 45, 60},
               received \in {0, 0 - N!Window, 0 - N!MAIL_QUIET_AFTER - 1} :
            event = N!Row(importance, N!MailAttention(received, 0), received)
      BY <1>1, <2>2 DEF N!FromMail
    <3>2. N!MailAttention(received, 0) \in {"needs_attention", "quiet"}
      BY DEF N!MailAttention
    <3>3. received \in Int /\ importance \in Int
      BY DEF N!Window, N!MAIL_QUIET_AFTER, N!Day
    <3> QED BY <3>1, <3>2, <3>3, RowTypes
  <2> QED BY <2>1, <2>2
<1>2. ASSUME event \in N!FromMoney(0) PROVE event \in Rows /\ ~event.appointment
  BY <1>2, RowTypes DEF N!FromMoney
<1>3. ASSUME event \in N!FromTime(0)
      PROVE  event \in Rows /\ event.start \in Int /\ event.end \in Int
  <2>1. PICK start \in Starts, allDay \in BOOLEAN, zone \in Zones, cancelled \in BOOLEAN :
          event = N!Appointment(start, allDay, zone, cancelled, 0)
    BY <1>3 DEF N!FromTime
  <2> DEFINE length == IF allDay THEN N!Day ELSE 1
             stored == N!Bounds(start, length, FALSE, 0)
             real == N!Bounds(start, length, allDay, zone)
             importance == IF cancelled THEN 50 ELSE N!TimeImportance(stored.start, stored.end, 0)
             attention == N!TimeAttention(stored.end, 0)
  <2>2. real.start \in Int /\ real.end \in Int
    BY NowConstants DEF N!Bounds, N!Day
  <2>3. importance \in Int /\ attention \in {"needs_attention", "quiet"}
    BY DEF N!TimeImportance, N!TimeAttention
  <2>4. event = [N!Row(importance, attention, 0)
                 EXCEPT !.appointment = TRUE, !.start = real.start, !.end = real.end]
    BY <2>1 DEF N!Appointment
  <2>5. N!Row(importance, attention, 0) \in Rows
    <3> HIDE DEF importance, attention
    <3> QED BY <2>3, RowTypes
  <2> HIDE DEF importance, attention, real
  <2> QED BY <2>2, <2>4, <2>5 DEF Rows
<1>4. ASSUME event \in N!WithDueDate(0) PROVE event \in Rows /\ ~event.appointment
  <2>1. PICK importance \in {60} \cup Importances, occurred \in {0, None}, due \in Starts :
          event = [N!Row(importance, "needs_attention", occurred) EXCEPT !.start = due]
    BY <1>4 DEF N!WithDueDate
  <2>2. importance \in Int /\ due \in Int
    BY NowConstants
  <2> QED BY <2>1, <2>2, RowTypes DEF Rows
<1>5. event \in Rows /\ (event.appointment => event.start \in Int /\ event.end \in Int)
  BY <1>1, <1>2, <1>3, <1>4 DEF N!Init
<1> QED BY <1>5 DEF N!Init, DecisionInv, Decisions

LEMMA DecisionNext == DecisionInv /\ [N!Next]_N!vars => DecisionInv'
<1> SUFFICES ASSUME DecisionInv, [N!Next]_N!vars PROVE DecisionInv'
  OBVIOUS
<1> USE DEF DecisionInv, Rows, Decisions
<1>1. CASE N!Tick
  BY <1>1, NowConstants DEF N!Tick
<1>2. CASE N!Attach
  BY <1>2 DEF N!Attach
<1>3. CASE N!Quiet
  BY <1>3 DEF N!Quiet, N!Decide
<1>4. CASE N!Attend
  BY <1>4 DEF N!Attend, N!Decide
<1>5. CASE N!Dismiss
  BY <1>5 DEF N!Dismiss, N!Decide
<1>6. ASSUME NEW until \in Instants, N!Snooze(until) PROVE DecisionInv'
  <2> DEFINE done == until \notin settled
  <2>1. done \in BOOLEAN /\ until \in Int /\ said' = [what |-> "snooze", until |-> until, done |-> done]
    BY <1>6, NowConstants DEF N!Snooze, N!Decide
  <2>2. ~done => UNCHANGED event
    BY <1>6 DEF N!Snooze
  <2>3. done => event' = [event EXCEPT !.attention = "quiet", !.snoozedUntil = until]
    BY <1>6 DEF N!Snooze
  <2>4. UNCHANGED <<clock, threaded>>
    BY <1>6 DEF N!Snooze, N!Decide
  <2> HIDE DEF done
  <2>5. said' \in Decisions /\ said'.what = "snooze" /\ said'.until = until
    BY <2>1
  <2>6. said'.done = done
    BY <2>1
  <2>7. CASE ~done
    BY <2>1, <2>2, <2>4, <2>5, <2>6, <2>7
  <2>8. CASE done
    BY <2>1, <2>3, <2>4, <2>5, <2>8
  <2> QED BY <2>7, <2>8
<1>7. CASE UNCHANGED N!vars
  BY <1>7 DEF N!vars
<1> QED BY <1>1, <1>2, <1>3, <1>4, <1>5, <1>6, <1>7 DEF N!Next

LEMMA DecisionInvariance == N!Spec => []DecisionInv
BY DecisionInit, DecisionNext, PTL DEF N!Spec

\* Snoozed until a time that has come, and put back, a row is filed alike.
LEMMA AsUntouched ==
  ASSUME DecisionInv, event.attention = "needs_attention" \/ N!SnoozeElapsed(event)
  PROVE  N!Bucket(event) =
           N!Bucket([event EXCEPT !.attention = "needs_attention", !.snoozedUntil = None])
<1> DEFINE u == [event EXCEPT !.attention = "needs_attention", !.snoozedUntil = None]
<1>1. /\ u.importance = event.importance /\ u.occurred = event.occurred
      /\ u.appointment = event.appointment /\ u.start = event.start /\ u.end = event.end
      /\ u.attention = "needs_attention"
  BY DEF DecisionInv, Rows
<1> HIDE DEF u
<1>2. N!Age(u) = N!Age(event) /\ (N!Over(u) <=> N!Over(event)) /\ N!Score(u) = N!Score(event)
  BY <1>1 DEF N!Age, N!Over, N!Score, N!Timeliness, N!Freshness, N!Recent, N!Overdue
<1>3. event.attention # "dismissed" /\ ~(event.attention = "quiet" /\ ~N!SnoozeElapsed(event))
  BY DEF N!SnoozeElapsed, N!Snoozed
<1> QED BY <1>1, <1>2, <1>3 DEF N!Bucket, u

LEMMA NowDecisions == N!Spec => []N!DecisionsHold
<1>1. DecisionInv => N!DecisionsHold
  <2> SUFFICES ASSUME DecisionInv, said.done PROVE N!DecisionsHold
    BY DEF N!DecisionsHold
  <2>1. said.what = "quiet" => N!Bucket(event) = "quiet"
    BY DEF DecisionInv, N!Bucket, N!SnoozeElapsed, N!Snoozed
  <2>2. said.what = "dismiss" => N!Bucket(event) = "none"
    BY DEF DecisionInv, N!Bucket
  <2>3. ASSUME said.what = "attend" \/ (said.what = "snooze" /\ said.until <= clock)
        PROVE  event.attention = "needs_attention" \/ N!SnoozeElapsed(event)
    BY <2>3, NowConstants DEF DecisionInv, N!SnoozeElapsed, N!Snoozed
  <2> QED BY <2>1, <2>2, <2>3, AsUntouched DEF N!DecisionsHold
<1> QED BY <1>1, DecisionInvariance, PTL

\* Past due and past the bonus for being new, no term of the score falls with time.
LEMMA DebtStep ==
  ASSUME DecisionInv, [N!Next]_N!vars,
         clock' > clock, N!Overdue(event), ~N!Recent(event), N!Bucket(event) = "needs_me"
  PROVE  N!Bucket(event)' = "needs_me"
<1>1. clock' \in Nat /\ clock \in Nat /\ event' = event /\ threaded' = threaded /\ event \in Rows
  <2>1. clock \in Nat /\ event \in Rows
    BY DEF DecisionInv
  <2>2. clock' # clock
    BY <2>1
  <2>3. N!Tick
    BY <2>2 DEF N!Next, N!vars, N!Attach, N!Quiet, N!Attend, N!Dismiss, N!Snooze, N!Decide
  <2> QED BY <2>1, <2>3, NowConstants DEF N!Tick
<1>2. /\ ~event.appointment /\ event.start # None /\ event.start <= clock /\ event.start <= clock'
      /\ event.start \in Int
  BY <1>1 DEF N!Overdue, Rows
<1>3. N!Timeliness(event) = 30 /\ N!Timeliness(event)' = 30 /\ ~N!Over(event) /\ ~N!Over(event)'
  BY <1>1, <1>2 DEF N!Timeliness, N!Over
<1>4. N!Freshness(event) = 0 /\ N!Freshness(event)' \in {0, 10}
  BY <1>1, <1>2 DEF N!Freshness, N!Overdue
<1>5. N!Score(event)' >= N!Score(event)
  BY <1>1, <1>3, <1>4 DEF N!Score, Rows
<1>6. N!Score(event) >= 70 /\ N!Score(event) \in Int /\ N!Score(event)' \in Int
  BY <1>1, <1>3, <1>4 DEF N!Bucket, N!Score, Rows
<1>7. event.attention # "dismissed" /\ ~(event.attention = "quiet" /\ ~N!SnoozeElapsed(event))
  BY DEF N!Bucket
<1>8. N!SnoozeElapsed(event) => N!SnoozeElapsed(event)'
  BY <1>1, NowConstants DEF N!SnoozeElapsed, N!Snoozed, Rows
<1> QED BY <1>1, <1>3, <1>5, <1>6, <1>7, <1>8 DEF N!Bucket

LEMMA NowDebts == N!Spec => N!DebtsDoNotFade
<1>1. DecisionInv /\ [N!Next]_N!vars =>
        [(clock' > clock /\ N!Overdue(event) /\ ~N!Recent(event) /\ N!Bucket(event) = "needs_me")
           => N!Bucket(event)' = "needs_me"]_N!vars
  BY DebtStep
<1> QED BY <1>1, DecisionInvariance, PTL DEF N!Spec, N!DebtsDoNotFade

-----------------------------------------------------------------------------
(* OneCommand: the focus *)
Intents ==
  [intent : {"none", "find", "find_document", "person_document"} \cup O!Nouns,
   about : {"person", "thread"}, query : O!Query \cup O!Name \cup {None}, focus : {None},
   scoped : BOOLEAN]

\* A command about the focus is one the executor answers by its subject, and it
\* carries the name and the kind of what is in focus.
FocusInv ==
  /\ answer.scoped => answer.focus = answer.asked
  /\ command.scoped =>
       /\ command.intent \in {"find"} \cup O!Nouns
       /\ O!InFocus(command.about, command.focus) /\ NameOf[command.focus] = command.query

LEMMA IntentType ==
  ASSUME NEW i \in {"find", "find_document", "person_document"} \cup O!Nouns,
         NEW a \in {"person", "thread"}, NEW q \in O!Query \cup O!Name
  PROVE  /\ O!Intent(i, a, q) \in Intents /\ ~O!Intent(i, a, q).scoped
         /\ O!Intent(i, a, q).intent = i /\ O!Intent(i, a, q).about = a /\ O!Intent(i, a, q).query = q
BY DEF O!Intent, O!NoCommand, Intents

LEMMA ScopedType ==
  ASSUME NEW i \in {"find", "find_document", "person_document"} \cup O!Nouns,
         NEW a \in {"person", "thread"}, NEW q \in O!Query \cup O!Name
  PROVE  LET s == [O!Intent(i, a, q) EXCEPT !.scoped = TRUE]
         IN  s \in Intents /\ s.intent = i /\ s.about = a /\ s.query = q
<1> DEFINE t == O!Intent(i, a, q)
<1>1. t \in Intents /\ t.intent = i /\ t.about = a /\ t.query = q
  BY IntentType
<1> HIDE DEF t
<1>2. /\ [t EXCEPT !.scoped = TRUE] \in Intents /\ [t EXCEPT !.scoped = TRUE].intent = t.intent
      /\ [t EXCEPT !.scoped = TRUE].about = t.about /\ [t EXCEPT !.scoped = TRUE].query = t.query
  BY <1>1 DEF Intents
<1> QED BY <1>1, <1>2 DEF t

\* Only a bare noun is scoped, and it is so to the focus.
LEMMA NounScope ==
  ASSUME NEW noun \in O!Nouns, NEW f
  PROVE  /\ O!RouteNoun(noun, f) \in Intents
         /\ O!RouteNoun(noun, f).scoped =>
              /\ O!RouteNoun(noun, f).intent \in {"find"} \cup O!Nouns
              /\ O!InFocus(O!RouteNoun(noun, f).about, f) /\ NameOf[f] = O!RouteNoun(noun, f).query
<1>1. CASE f \in Person
  <2>1. O!RouteNoun(noun, f) = [O!Intent(noun, "person", NameOf[f]) EXCEPT !.scoped = TRUE]
    BY <1>1 DEF O!RouteNoun
  <2>2. NameOf[f] \in O!Name
    BY <1>1 DEF O!Name
  <2>3. /\ O!RouteNoun(noun, f) \in Intents /\ O!RouteNoun(noun, f).intent = noun
        /\ O!RouteNoun(noun, f).about = "person" /\ O!RouteNoun(noun, f).query = NameOf[f]
    <3> DEFINE q == NameOf[f]
    <3>1. q \in O!Query \cup O!Name /\ noun \in {"find", "find_document", "person_document"} \cup O!Nouns
      BY <2>2
    <3>2. LET s == [O!Intent(noun, "person", q) EXCEPT !.scoped = TRUE]
          IN  s \in Intents /\ s.intent = noun /\ s.about = "person" /\ s.query = q
      BY <3>1, ScopedType
    <3> QED BY <2>1, <3>2
  <2> QED BY <1>1, <2>3 DEF O!InFocus
<1>2. CASE f \notin Person /\ f \in Thread
  <2>1. PICK i \in {"find", "transactions"} :
          O!RouteNoun(noun, f) = [O!Intent(i, "thread", NameOf[f]) EXCEPT !.scoped = TRUE]
    BY <1>2 DEF O!RouteNoun
  <2>2. NameOf[f] \in O!Name /\ i \in {"find"} \cup O!Nouns
    BY <1>2 DEF O!Name, O!Nouns
  <2>3. /\ O!RouteNoun(noun, f) \in Intents /\ O!RouteNoun(noun, f).intent = i
        /\ O!RouteNoun(noun, f).about = "thread" /\ O!RouteNoun(noun, f).query = NameOf[f]
    <3> DEFINE q == NameOf[f]
    <3>1. q \in O!Query \cup O!Name /\ i \in {"find", "find_document", "person_document"} \cup O!Nouns
      BY <2>2
    <3>2. LET s == [O!Intent(i, "thread", q) EXCEPT !.scoped = TRUE]
          IN  s \in Intents /\ s.intent = i /\ s.about = "thread" /\ s.query = q
      BY <3>1, ScopedType
    <3> QED BY <2>1, <3>2
  <2> QED BY <1>2, <2>2, <2>3 DEF O!InFocus
<1>3. CASE f \notin Person /\ f \notin Thread
  <2>1. O!RouteNoun(noun, f) = O!NoCommand
    BY <1>3 DEF O!RouteNoun
  <2> QED BY <2>1 DEF O!NoCommand, Intents
<1> QED BY <1>1, <1>2, <1>3

LEMMA QueryScope ==
  ASSUME NEW q \in O!Query,
         NEW intent \in {O!RouteFind(q), O!RouteTransactionsFor(q), O!RouteBare(q),
                         O!Intent("documents", "person", q), O!Intent("mail", "person", q),
                         O!Intent("person_document", "person", q)}
  PROVE  intent \in Intents /\ ~intent.scoped
<1>1. O!NoCommand \in Intents /\ ~O!NoCommand.scoped
  BY DEF O!NoCommand, Intents
<1>2. \/ intent = O!NoCommand
      \/ \E i \in {"find", "find_document", "person_document"} \cup O!Nouns, a \in {"person", "thread"} :
           intent = O!Intent(i, a, q)
  BY DEF O!RouteFind, O!RouteTransactionsFor, O!RouteBare, O!Nouns
<1> QED BY <1>1, <1>2, IntentType

LEMMA AskFocus ==
  ASSUME FocusInv, O!Ask
  PROVE  FocusInv'
<1>1. PICK intent \in O!Routed \ {O!NoCommand} : command' = [intent EXCEPT !.focus = location.focus]
  BY DEF O!Ask
<1>2. /\ intent \in Intents
      /\ intent.scoped =>
           /\ intent.intent \in {"find"} \cup O!Nouns
           /\ O!InFocus(intent.about, location.focus) /\ NameOf[location.focus] = intent.query
  <2>1. CASE \E q \in O!Query :
          intent \in {O!RouteFind(q), O!RouteTransactionsFor(q), O!RouteBare(q),
                     O!Intent("documents", "person", q), O!Intent("mail", "person", q),
                     O!Intent("person_document", "person", q)}
    BY <2>1, QueryScope
  <2>2. CASE \E noun \in O!Nouns : intent = O!RouteNoun(noun, location.focus)
    BY <2>2, NounScope
  <2> DEFINE Of(q) == {O!RouteFind(q), O!RouteTransactionsFor(q), O!RouteBare(q),
                       O!Intent("documents", "person", q), O!Intent("mail", "person", q),
                       O!Intent("person_document", "person", q)}
             Noun(n) == O!RouteNoun(n, location.focus)
  <2>3. intent \in (UNION {Of(q) : q \in O!Query}) \cup {Noun(n) : n \in O!Nouns}
    BY <1>1 DEF O!Routed
  <2>4. (\E q \in O!Query : intent \in Of(q)) \/ \E n \in O!Nouns : intent = Noun(n)
    <3> HIDE DEF Of, Noun
    <3>1. ASSUME intent \in UNION {Of(q) : q \in O!Query} PROVE \E q \in O!Query : intent \in Of(q)
      <4>1. PICK S \in {Of(q) : q \in O!Query} : intent \in S
        BY <3>1
      <4>2. PICK q \in O!Query : S = Of(q)
        BY <4>1
      <4> QED BY <4>1, <4>2
    <3>2. ASSUME intent \in {Noun(n) : n \in O!Nouns} PROVE \E n \in O!Nouns : intent = Noun(n)
      BY <3>2
    <3> QED BY <2>3, <3>1, <3>2
  <2> QED BY <2>1, <2>2, <2>4
<1>3. /\ command'.scoped = intent.scoped /\ command'.intent = intent.intent
      /\ command'.about = intent.about /\ command'.query = intent.query
      /\ command'.focus = location.focus
  BY <1>1, <1>2 DEF Intents
<1>4. answer' = answer
  BY DEF O!Ask
<1> QED BY <1>2, <1>3, <1>4 DEF FocusInv, O!InFocus

\* What is in focus is the one that fits its own name, so the answer is about it.
LEMMA ExecuteFocus ==
  ASSUME FocusInv, O!Execute
  PROVE  FocusInv'
<1> DEFINE found == O!Resolve(command.about, command.query, command.focus)
<1>1. command' = O!NoCommand /\ answer'.scoped = command.scoped /\ answer'.asked = command.focus
  BY DEF O!Execute, O!Reply
<1>2. ASSUME command.scoped PROVE answer'.focus = command.focus
  <2>1. found = {command.focus}
    BY <1>2 DEF FocusInv, O!Resolve
  <2>2. Cardinality(found) = 1
    BY <2>1, FS_Singleton
  <2>3. (CHOOSE e \in found : TRUE) = command.focus
    BY <2>1
  <2>4. answer'.focus = (CHOOSE e \in found : TRUE)
    BY <2>2, CommandCardinality DEF O!Execute, O!Reply
  <2> QED BY <2>3, <2>4
<1> QED BY <1>1, <1>2 DEF FocusInv, O!NoCommand

LEMMA FindFocus ==
  ASSUME FocusInv, O!FindDocuments
  PROVE  FocusInv'
<1>1. ~command.scoped
  BY DEF O!FindDocuments, FocusInv, O!Nouns
<1>2. command' = O!NoCommand /\ answer'.scoped = command.scoped
  BY DEF O!FindDocuments, O!Reply
<1> QED BY <1>1, <1>2 DEF FocusInv, O!NoCommand

LEMMA NextFocus == FocusInv /\ [O!Next]_O!vars => FocusInv'
<1> SUFFICES ASSUME FocusInv, [O!Next]_O!vars PROVE FocusInv'
  OBVIOUS
<1>1. ASSUME UNCHANGED <<command, answer>> PROVE FocusInv'
  BY <1>1 DEF FocusInv, O!InFocus
<1>2. ASSUME NEW m \in O!Mail, NEW p \in O!Live, NEW others \in SUBSET O!Live,
             NEW attached \in SUBSET Document, O!FileMail(m, p, others, attached)
      PROVE  FocusInv'
  BY <1>1, <1>2 DEF O!FileMail, O!field
<1>3. ASSUME NEW t \in Transaction, NEW merchant \in O!Name, O!ReadPeople(t, merchant) PROVE FocusInv'
  BY <1>1, <1>3 DEF O!ReadPeople, O!field
<1>4. CASE O!FileTransaction
  BY <1>1, <1>4 DEF O!FileTransaction, O!field
<1>5. ASSUME NEW t \in Thread, NEW e \in O!Entity, O!Attach(t, e) PROVE FocusInv'
  BY <1>1, <1>5 DEF O!Attach, O!field
<1>6. ASSUME NEW a \in Person, NEW b \in Person, O!Merge(a, b) PROVE FocusInv'
  BY <1>1, <1>6 DEF O!Merge, O!field
<1>7. CASE O!Focus
  BY <1>1, <1>7 DEF O!Focus
<1>8. CASE UNCHANGED O!vars
  BY <1>1, <1>8 DEF O!vars, O!field
<1> QED BY <1>2, <1>3, <1>4, <1>5, <1>6, <1>7, <1>8, AskFocus, ExecuteFocus, FindFocus DEF O!Next

LEMMA CommandFocus == O!Spec => []O!FocusAnswers
<1>1. O!Init => FocusInv
  BY DEF O!Init, FocusInv, O!NoAnswer, O!NoCommand
<1>2. FocusInv => O!FocusAnswers
  BY DEF FocusInv, O!FocusAnswers
<1> QED BY <1>1, <1>2, NextFocus, PTL DEF O!Spec

-----------------------------------------------------------------------------
(* OneCommand: merges *)
\* The index of senders and the counterparty columns name nobody who is not merged
\* without an edge that says the same.
IndexInv ==
  /\ mergedInto \in [Person -> Person \cup {None}]
  /\ from \in [O!Mail -> Person \cup {None}]
  /\ counterparty \in [Transaction -> Person \cup {None}]
  /\ batch # O!NoBatch => batch.transaction \in Transaction /\ batch.match \in Person \cup {None}
  /\ \A m \in O!Mail : from[m] \in O!Live => {from[m], m} \in edges
  /\ \A t \in Transaction : counterparty[t] \in O!Live => {counterparty[t], t} \in edges

Rest == Thread \cup Document \cup Transaction \cup O!Mail

LEMMA EdgesKept ==
  ASSUME NEW e \in edges, NEW merged, NEW survivor, merged \notin e
  PROVE  e \in O!MovedEdges(merged, survivor)
BY DEF O!MovedEdges

LEMMA EdgesMoved ==
  ASSUME NEW merged, NEW survivor, NEW x, {merged, x} \in edges, x # merged, x # survivor
  PROVE  {survivor, x} \in O!MovedEdges(merged, survivor)
<1>1. ({merged, x} \ {merged}) \cup {survivor} = {survivor, x}
  OBVIOUS
<1>2. {merged, x} # {merged, survivor}
  OBVIOUS
<1> QED BY <1>1, <1>2 DEF O!MovedEdges

\* What a merge does to the edges of everything that is not a person.
LEMMA MergeMoves ==
  ASSUME IndexInv, NEW merged \in Person, NEW survivor \in Person, O!Merge(merged, survivor)
  PROVE  /\ \A x \in Rest : {survivor, x} \in edges \/ {merged, x} \in edges => {survivor, x} \in edges'
         /\ \A x, y \in Rest : {x, y} \in edges => {x, y} \in edges'
         /\ \A p \in Person \ {merged}, x \in Rest : {p, x} \in edges => {p, x} \in edges'
         /\ O!Live' = O!Live \ {merged} /\ merged \in O!Live /\ survivor \in O!Live
         /\ UNCHANGED <<from, counterparty, batch>>
<1>1. /\ edges' = O!MovedEdges(merged, survivor) /\ merged # survivor
      /\ mergedInto' = [mergedInto EXCEPT ![merged] = survivor]
      /\ merged \in O!Live /\ survivor \in O!Live /\ UNCHANGED <<from, counterparty, batch>>
  BY DEF O!Merge
<1>2. Person \cap Rest = {} /\ None \notin Person
  BY CommandConstants DEF Rest
<1>3. ASSUME NEW p \in Person \ {merged}, NEW x \in Rest, {p, x} \in edges PROVE {p, x} \in edges'
  BY <1>1, <1>2, <1>3, EdgesKept
<1>4. ASSUME NEW x \in Rest, NEW y \in Rest, {x, y} \in edges PROVE {x, y} \in edges'
  BY <1>1, <1>2, <1>4, EdgesKept
<1>5. ASSUME NEW x \in Rest, {merged, x} \in edges PROVE {survivor, x} \in edges'
  BY <1>1, <1>2, <1>5, EdgesMoved
<1>6. O!Live' = O!Live \ {merged}
  <2>1. mergedInto'[merged] = survivor /\ \A p \in Person \ {merged} : mergedInto'[p] = mergedInto[p]
    BY <1>1 DEF IndexInv
  <2> QED BY <1>2, <2>1 DEF O!Live
<1> QED BY <1>1, <1>3, <1>4, <1>5, <1>6

LEMMA IndexInit == O!Init => IndexInv
<1> SUFFICES ASSUME O!Init PROVE IndexInv
  OBVIOUS
<1>1. /\ mergedInto \in [Person -> Person \cup {None}] /\ batch = O!NoBatch
      /\ from \in [O!Mail -> Person \cup {None}] /\ \A m \in O!Mail : from[m] = None
      /\ counterparty \in [Transaction -> Person \cup {None}]
      /\ \A t \in Transaction : counterparty[t] = None
  BY DEF O!Init
<1>2. None \notin O!Live
  BY CommandConstants DEF O!Live
<1> QED BY <1>1, <1>2 DEF IndexInv

\* Edges only grow where nobody is merged.
LEMMA IndexNext == IndexInv /\ [O!Next]_O!vars => IndexInv'
<1> SUFFICES ASSUME IndexInv, [O!Next]_O!vars PROVE IndexInv'
  OBVIOUS
<1>0. Person \cap Rest = {} /\ None \notin Person
  BY CommandConstants DEF Rest
<1>1. ASSUME NEW m \in O!Mail, NEW p \in O!Live, NEW others \in SUBSET O!Live,
             NEW attached \in SUBSET Document, O!FileMail(m, p, others, attached)
      PROVE  IndexInv'
  <2>1. /\ from' = [from EXCEPT ![m] = p] /\ edges \subseteq edges' /\ {m, p} \in edges'
        /\ UNCHANGED <<counterparty, mergedInto, batch>>
    BY <1>1 DEF O!FileMail
  <2>2. {m, p} = {p, m} /\ p \in Person
    BY DEF O!Live
  <2> QED BY <2>1, <2>2 DEF IndexInv, O!Live
<1>2. ASSUME NEW t \in Transaction, NEW merchant \in O!Name, O!ReadPeople(t, merchant)
      PROVE  IndexInv'
  <2>1. batch' = [transaction |-> t, match |-> O!Counterparty(merchant)]
        /\ UNCHANGED <<edges, from, counterparty, mergedInto>>
    BY <1>2 DEF O!ReadPeople
  <2>2. O!Counterparty(merchant) \in Person \cup {None}
    <3> DEFINE named == {p \in O!Live : NameOf[p] = merchant}
    <3>1. CASE Cardinality(named) = 1
      <4>1. named # {}
        BY <3>1, FS_EmptySet
      <4>2. (CHOOSE p \in named : TRUE) \in named
        BY <4>1
      <4> QED BY <3>1, <4>2, CommandCardinality DEF O!Counterparty, O!Live
    <3> QED BY <3>1, CommandCardinality DEF O!Counterparty
  <2> QED BY <2>1, <2>2 DEF IndexInv, O!Live
<1>3. CASE O!FileTransaction
  <2>1. /\ batch.transaction \in Transaction /\ batch.match \in Person \cup {None}
        /\ counterparty' = [counterparty EXCEPT ![batch.transaction] = batch.match]
        /\ edges \subseteq edges' /\ UNCHANGED <<from, mergedInto>>
        /\ batch' = O!NoBatch
        /\ batch.match # None => {batch.transaction, batch.match} \in edges'
    BY <1>3 DEF O!FileTransaction, IndexInv
  <2>2. {batch.transaction, batch.match} = {batch.match, batch.transaction}
    OBVIOUS
  <2> QED BY <1>0, <2>1, <2>2 DEF IndexInv, O!Live
<1>4. ASSUME NEW t \in Thread, NEW e \in O!Entity, O!Attach(t, e) PROVE IndexInv'
  BY <1>4 DEF O!Attach, IndexInv, O!Live
<1>5. ASSUME NEW a \in Person, NEW b \in Person, O!Merge(a, b) PROVE IndexInv'
  <2>1. /\ O!Live' = O!Live \ {a} /\ UNCHANGED <<from, counterparty, batch>>
        /\ \A p \in Person \ {a}, x \in Rest : {p, x} \in edges => {p, x} \in edges'
    BY <1>5, MergeMoves
  <2>2. mergedInto' \in [Person -> Person \cup {None}]
    BY <1>5 DEF O!Merge, IndexInv
  <2>3. \A m \in O!Mail : from[m] \in O!Live' => {from[m], m} \in edges'
    BY <2>1 DEF IndexInv, Rest, O!Live
  <2>4. \A t \in Transaction : counterparty[t] \in O!Live' => {counterparty[t], t} \in edges'
    BY <2>1 DEF IndexInv, Rest, O!Live
  <2> QED BY <2>1, <2>2, <2>3, <2>4 DEF IndexInv
<1>6. ASSUME UNCHANGED O!graph PROVE IndexInv'
  BY <1>6 DEF O!graph, IndexInv, O!Live
<1>7. O!Ask \/ O!FindDocuments \/ O!Execute \/ O!Focus => UNCHANGED O!graph
  <2>1. \A k, a, f, i : O!Reply(k, a, f, i) => UNCHANGED O!graph
    BY DEF O!Reply
  <2> QED BY <2>1 DEF O!Ask, O!FindDocuments, O!Execute, O!Focus
<1>8. UNCHANGED O!vars => UNCHANGED O!graph
  BY DEF O!vars
<1> QED BY <1>1, <1>2, <1>3, <1>4, <1>5, <1>6, <1>7, <1>8 DEF O!Next

\* The attachments of all messages are followed as long as there are no more than
\* MAIL_ATTACHMENT_SCAN.
LEMMA AllNewest ==
  ASSUME Mails <= MAIL_ATTACHMENT_SCAN, NEW messages \in SUBSET O!Mail
  PROVE  O!Newest(messages) = messages
<1> SUFFICES ASSUME NEW m \in messages
             PROVE  Cardinality({n \in messages : n > m}) < MAIL_ATTACHMENT_SCAN
  BY CommandCardinality DEF O!Newest
<1>1. Mails \in Nat /\ MAIL_ATTACHMENT_SCAN \in Nat /\ m \in 1..Mails
  BY CommandConstants DEF O!Mail
<1>2. IsFiniteSet(1..Mails) /\ Cardinality(1..Mails) = Mails
  <2>1. 1 \in Int /\ Mails \in Int
    BY <1>1
  <2> QED BY <1>1, <2>1, FS_Interval
<1>3. /\ IsFiniteSet((1..Mails) \ {m})
      /\ Cardinality((1..Mails) \ {m}) = Mails - 1
  <2> DEFINE S == 1..Mails
  <2>1. IsFiniteSet(S) /\ m \in S
    BY <1>1, <1>2
  <2> HIDE DEF S
  <2>2. IsFiniteSet(S \ {m}) /\ Cardinality(S \ {m}) = Cardinality(S) - 1
    BY <2>1, FS_RemoveElement
  <2> QED BY <1>2, <2>2 DEF S
<1>4. {n \in messages : n > m} \subseteq (1..Mails) \ {m}
  <2>1. messages \subseteq 1..Mails
    BY DEF O!Mail
  <2>2. \A n \in 1..Mails : n > m => n # m
    BY <1>1
  <2> QED BY <2>1, <2>2
<1>5. /\ Cardinality({n \in messages : n > m}) \in Nat
      /\ Cardinality({n \in messages : n > m}) <= Mails - 1
  BY <1>3, <1>4, FS_Subset, FS_CardinalityType
<1> QED BY <1>1, <1>5

\* A merge loses no answer about the two people, nor about any thread.
LEMMA MergeAnswers ==
  ASSUME IndexInv, Mails <= MAIL_ATTACHMENT_SCAN,
         NEW a \in Person, NEW b \in Person, O!Merge(b, a)
  PROVE  /\ O!PersonMail(a) \cup O!PersonMail(b) \subseteq O!PersonMail(a)'
         /\ O!PersonDocuments(a) \cup O!PersonDocuments(b) \subseteq O!PersonDocuments(a)'
         /\ O!PersonTransactions(a) \cup O!PersonTransactions(b) \subseteq O!PersonTransactions(a)'
         /\ \A t \in Thread : O!ThreadTransactions(t) \subseteq O!ThreadTransactions(t)'
<1>1. /\ \A x \in Rest : {a, x} \in edges \/ {b, x} \in edges => {a, x} \in edges'
      /\ \A x, y \in Rest : {x, y} \in edges => {x, y} \in edges'
      /\ \A p \in Person \ {b}, x \in Rest : {p, x} \in edges => {p, x} \in edges'
      /\ a \in O!Live /\ b \in O!Live /\ from' = from /\ counterparty' = counterparty
  BY MergeMoves
<1>2. Person \cap Rest = {}
  BY CommandConstants DEF Rest
\* Whatever is not a person is found from the survivor, and from each other, as before.
<1>3. ASSUME NEW type \in SUBSET Rest, NEW p \in {a, b}, NEW n \in O!Neighbors(p, type)
      PROVE  n \in O!Neighbors(a, type)'
  <2>1. n \in type /\ {p, n} \in edges /\ n # a
    BY <1>2, <1>3 DEF O!Neighbors
  <2> QED BY <1>1, <2>1 DEF O!Neighbors
<1>4. ASSUME NEW type \in SUBSET Rest, NEW x \in Rest, NEW n \in O!Neighbors(x, type)
      PROVE  n \in O!Neighbors(x, type)'
  BY <1>1, <1>4 DEF O!Neighbors
<1>5. O!Mail \subseteq Rest /\ Document \subseteq Rest /\ Transaction \subseteq Rest /\ Thread \subseteq Rest
  BY DEF Rest
<1>6. ASSUME NEW p \in {a, b}, NEW m \in O!PersonMail(p) PROVE m \in O!Neighbors(a, O!Mail)'
  <2>1. m \in O!Neighbors(p, O!Mail)
    BY <1>1, <1>2, <1>5, <1>6 DEF O!PersonMail, O!IndexedMail, O!Neighbors, IndexInv
  <2> QED BY <1>3, <1>5, <2>1
<1>7. ASSUME NEW p \in {a, b} PROVE O!PersonMail(p) \subseteq O!PersonMail(a)'
  BY <1>6, <1>7 DEF O!PersonMail
<1>8. ASSUME NEW p \in {a, b}, NEW d \in O!PersonDocuments(p) PROVE d \in O!PersonDocuments(a)'
  <2>1. /\ O!PersonMail(p) \subseteq O!Mail /\ (O!PersonMail(a)') \subseteq O!Mail
    BY DEF O!PersonMail, O!IndexedMail, O!Neighbors
  <2>2. CASE d \in O!Neighbors(p, Document)
    BY <1>3, <1>5, <2>2 DEF O!PersonDocuments
  <2>3. CASE d \in O!AllNeighbors(O!Newest(O!PersonMail(p)), Document)
    <3>1. PICK m \in O!PersonMail(p) : d \in O!Neighbors(m, Document)
      BY <2>1, <2>3, AllNewest DEF O!AllNeighbors
    <3>2. m \in O!PersonMail(a)' /\ m \in Rest
      BY <1>5, <1>7, <2>1, <3>1
    <3>3. d \in O!Neighbors(m, Document)'
      BY <1>4, <1>5, <3>1, <3>2
    <3>4. O!Newest(O!PersonMail(a)') = O!PersonMail(a)'
      BY <2>1, AllNewest
    <3> QED BY <3>2, <3>3, <3>4 DEF O!PersonDocuments, O!AllNeighbors, O!Newest
  <2> QED BY <1>8, <2>2, <2>3 DEF O!PersonDocuments
<1>9. ASSUME NEW p \in {a, b}, NEW t \in O!PersonTransactions(p) PROVE t \in O!PersonTransactions(a)'
  <2>1. CASE t \in Transaction /\ counterparty[t] = p
    <3>1. t \in O!Neighbors(p, Transaction)
      BY <1>1, <1>2, <1>5, <2>1 DEF O!Neighbors, IndexInv
    <3> QED BY <1>3, <1>5, <3>1 DEF O!PersonTransactions
  <2>2. CASE t \in O!Neighbors(p, Transaction)
    BY <1>3, <1>5, <2>2 DEF O!PersonTransactions
  <2>3. CASE t \in O!AllNeighbors(O!PersonDocuments(p), Transaction)
    <3>1. PICK d \in O!PersonDocuments(p) : t \in O!Neighbors(d, Transaction)
      BY <2>3 DEF O!AllNeighbors
    <3>2. d \in O!PersonDocuments(a)'
      BY <1>8, <3>1
    <3>3. d \in Rest
      BY <1>5 DEF O!PersonDocuments, O!AllNeighbors, O!Neighbors
    <3>4. t \in O!Neighbors(d, Transaction)'
      BY <1>4, <1>5, <3>1, <3>3
    <3> QED BY <3>2, <3>4 DEF O!PersonTransactions, O!AllNeighbors
  <2> QED BY <1>9, <2>1, <2>2, <2>3 DEF O!PersonTransactions
<1>10. ASSUME NEW t \in Thread, NEW n \in O!ThreadTransactions(t) PROVE n \in O!ThreadTransactions(t)'
  <2>1. CASE n \in O!Neighbors(t, Transaction)
    BY <1>4, <1>5, <2>1 DEF O!ThreadTransactions
  <2>2. ASSUME NEW x \in O!Neighbors(t, Document), n \in O!Neighbors(x, Transaction)
        PROVE  n \in O!ThreadTransactions(t)'
    <3>1. x \in O!Neighbors(t, Document)' /\ x \in Rest
      BY <1>4, <1>5 DEF O!Neighbors
    <3>2. n \in O!Neighbors(x, Transaction)'
      BY <1>4, <1>5, <2>2, <3>1
    <3> QED BY <3>1, <3>2 DEF O!ThreadTransactions, O!AllNeighbors
  <2>3. ASSUME NEW x \in O!Neighbors(t, Person), n \in O!Neighbors(x, Transaction)
        PROVE  n \in O!ThreadTransactions(t)'
    <3>1. x \in Person /\ {t, x} \in edges /\ n \in Transaction /\ {x, n} \in edges
      BY <2>3 DEF O!Neighbors
    <3> DEFINE y == IF x = b THEN a ELSE x
    <3>2. {y, t} \in edges' /\ {y, n} \in edges' /\ y \in Person
      <4>1. {t, x} = {x, t}
        OBVIOUS
      <4> QED BY <1>1, <1>5, <3>1, <4>1
    <3>3. {t, y} = {y, t} /\ y # t /\ n # y
      BY <1>2, <1>5, <3>1, <3>2
    <3> HIDE DEF y
    <3>4. y \in O!Neighbors(t, Person)' /\ n \in O!Neighbors(y, Transaction)'
      BY <3>1, <3>2, <3>3 DEF O!Neighbors
    <3> QED BY <3>4 DEF O!ThreadTransactions, O!AllNeighbors
  <2> QED BY <1>10, <2>1, <2>2, <2>3 DEF O!ThreadTransactions, O!AllNeighbors
<1> QED BY <1>7, <1>8, <1>9, <1>10

LEMMA CommandMerges ==
  ASSUME Mails <= MAIL_ATTACHMENT_SCAN PROVE O!Spec => O!MergeKeepsAnswers
<1> DEFINE Kept ==
      \A a, b \in Person :
        mergedInto[b] = None /\ mergedInto'[b] = a =>
          /\ O!PersonMail(a) \cup O!PersonMail(b) \subseteq O!PersonMail(a)'
          /\ O!PersonDocuments(a) \cup O!PersonDocuments(b) \subseteq O!PersonDocuments(a)'
          /\ O!PersonTransactions(a) \cup O!PersonTransactions(b) \subseteq O!PersonTransactions(a)'
          /\ \A t \in Thread : O!ThreadTransactions(t) \subseteq O!ThreadTransactions(t)'
<1>1. ASSUME IndexInv, O!Next, NEW a \in Person, NEW b \in Person,
             mergedInto[b] = None, mergedInto'[b] = a
      PROVE  O!Merge(b, a)
  <2>1. mergedInto' # mergedInto
    BY <1>1, CommandConstants
  <2>2. O!Ask \/ O!FindDocuments \/ O!Execute \/ O!Focus => UNCHANGED O!graph
    <3>1. \A k, ar, f, i : O!Reply(k, ar, f, i) => UNCHANGED O!graph
      BY DEF O!Reply
    <3> QED BY <3>1 DEF O!Ask, O!FindDocuments, O!Execute, O!Focus
  <2>3. PICK merged \in Person, survivor \in Person : O!Merge(merged, survivor)
    <3>1. \A m, p, others, attached : O!FileMail(m, p, others, attached) => mergedInto' = mergedInto
      BY DEF O!FileMail
    <3>2. \A t, merchant : O!ReadPeople(t, merchant) => mergedInto' = mergedInto
      BY DEF O!ReadPeople
    <3>3. \A t, e : O!Attach(t, e) => mergedInto' = mergedInto
      BY DEF O!Attach
    <3>4. O!FileTransaction => mergedInto' = mergedInto
      BY DEF O!FileTransaction
    <3>5. UNCHANGED O!graph => mergedInto' = mergedInto
      BY DEF O!graph
    <3> QED BY <1>1, <2>1, <2>2, <3>1, <3>2, <3>3, <3>4, <3>5 DEF O!Next
  <2>4. mergedInto' = [mergedInto EXCEPT ![merged] = survivor] /\ mergedInto \in [Person -> Person \cup {None}]
    BY <1>1, <2>3 DEF O!Merge, IndexInv
  <2>5. merged = b /\ survivor = a
    BY <1>1, <2>4, CommandConstants
  <2> QED BY <2>3, <2>5
<1>2. IndexInv /\ [O!Next]_O!vars => [Kept]_O!vars
  BY <1>1, MergeAnswers
<1>3. O!Spec => []IndexInv
  BY IndexInit, IndexNext, PTL DEF O!Spec
<1> QED BY <1>2, <1>3, PTL DEF O!Spec, O!MergeKeepsAnswers

-----------------------------------------------------------------------------
(* ShareIntake *)
DrainState ==
  [at : {"idle", "batch", "read", "clear", "wipe"}, batch : SUBSET Shares,
   todo : SUBSET Shares, processed : SUBSET Shares, failed : BOOLEAN, held : SUBSET Shares]

Sent(s) == submitted[s] > 0

\* What the drain counts as processed was dispatched, so that nothing it is about
\* to clear is new but what came late; and every file in the queue has its bytes.
ShareInv ==
  /\ drain \in DrainState /\ submitted \in [Shares -> Nat]
  /\ shared \subseteq Shares /\ inbox \subseteq Shares
  /\ \A s \in drain.processed : Sent(s)
  /\ drain.at = "batch" /\ ~drain.failed => \A s \in drain.batch \ drain.todo : Sent(s)
  /\ drain.at \in {"clear", "wipe"} => \A s \in inbox \ late : Sent(s)
  /\ inbox \cap Files \subseteq cached
  /\ \A s \in shared \ late : Sent(s) \/ s \in inbox

LEMMA ShareIdle == I!Idle \in DrainState /\ I!Idle.at = "idle" /\ I!Idle.processed = {}
BY DEF I!Idle, DrainState

\* The queue as it was announced starts a drain that has processed nothing, or
\* finds one at work.
LEMMA ShareHandle ==
  ASSUME NEW pending \in SUBSET Shares, drain \in DrainState
  PROVE  \/ I!Handle(pending) = drain
         \/ /\ I!Handle(pending) \in DrainState /\ I!Handle(pending).at = "batch"
            /\ I!Handle(pending).batch = I!Handle(pending).todo /\ I!Handle(pending).processed = {}
BY DEF I!Handle, DrainState, I!Idle

LEMMA ShareInit == I!Init => ShareInv
BY ShareIdle DEF I!Init, ShareInv

\* Shares, restarts of the Field, and the plugin's clear.
LEMMA SharePlugin ==
  ASSUME ShareInv, (\E s \in Shares : I!Share(s)) \/ I!Mount \/ I!Unload \/ I!Clear \/ I!Wipe
  PROVE  ShareInv'
<1>1. ASSUME NEW s \in Shares, I!Share(s) PROVE ShareInv'
  <2>1. /\ inbox' = inbox \cup {s} /\ shared' = shared \cup {s} /\ submitted' = submitted
        /\ cached' = cached \cup ({s} \cap Files) /\ late \subseteq late'
        /\ drain.at \in {"clear", "wipe"} => s \in late'
    BY <1>1 DEF I!Share
  <2>2. \/ drain' = drain
        \/ /\ drain' \in DrainState /\ drain'.at = "batch" /\ drain'.batch = drain'.todo
           /\ drain'.processed = {}
    <3>1. inbox' \in SUBSET Shares /\ drain \in DrainState
      BY <2>1 DEF ShareInv
    <3> QED BY <1>1, <3>1, ShareHandle DEF I!Share
  <2> QED BY <2>1, <2>2 DEF ShareInv, Sent
<1>2. CASE I!Mount
  <2>1. \/ drain' = drain
        \/ /\ drain' \in DrainState /\ drain'.at = "batch" /\ drain'.batch = drain'.todo
           /\ drain'.processed = {}
    BY <1>2, ShareHandle DEF I!Mount, ShareInv
  <2> QED BY <1>2, <2>1 DEF I!Mount, I!plugin, ShareInv, Sent
<1>3. CASE I!Unload
  BY <1>3, ShareIdle DEF I!Unload, I!plugin, ShareInv, Sent
<1>4. CASE I!Clear
  <2>1. drain' \in DrainState /\ drain'.at = "wipe" /\ drain'.processed = drain.processed
    BY <1>4 DEF I!Clear, ShareInv, DrainState
  <2> QED BY <1>4, <2>1 DEF I!Clear, ShareInv, Sent
<1>5. CASE I!Wipe
  BY <1>5, ShareIdle DEF I!Wipe, ShareInv, Sent
<1> QED BY <1>1, <1>2, <1>3, <1>4, <1>5

LEMMA ShareCounts ==
  ASSUME ShareInv, NEW s \in Shares, submitted' = [submitted EXCEPT ![s] = submitted[s] + 1]
  PROVE  submitted' \in [Shares -> Nat] /\ Sent(s)' /\ \A t \in Shares : Sent(t) => Sent(t)'
<1>1. submitted \in [Shares -> Nat]
  BY DEF ShareInv
<1>2. /\ submitted' \in [Shares -> Nat] /\ submitted'[s] = submitted[s] + 1
      /\ \A t \in Shares \ {s} : submitted'[t] = submitted[t]
  BY <1>1
<1>3. submitted[s] \in Nat
  BY <1>1
<1> QED BY <1>2, <1>3 DEF Sent

\* The drain itself.
LEMMA ShareDrain ==
  ASSUME ShareInv,
         \/ \E s \in Shares : I!Upload(s) \/ I!Dispatch(s) \/ I!Fail(s)
         \/ I!BatchDone \/ I!Reread
  PROVE  ShareInv'
<1>1. ASSUME NEW s \in Shares, I!Upload(s) PROVE ShareInv'
  <2>1. /\ drain' \in DrainState /\ drain'.at = drain.at /\ drain'.batch = drain.batch
        /\ drain'.todo = drain.todo /\ drain'.processed = drain.processed
        /\ drain'.failed = drain.failed
    BY <1>1 DEF I!Upload, ShareInv, DrainState
  <2> QED BY <1>1, <2>1 DEF I!Upload, I!plugin, ShareInv, Sent
<1>2. ASSUME NEW s \in Shares, I!Dispatch(s) PROVE ShareInv'
  <2>1. /\ drain' \in DrainState /\ drain'.at = "batch" /\ drain'.batch = drain.batch
        /\ drain'.todo = drain.todo \ {s} /\ drain'.processed = drain.processed
        /\ drain'.failed = drain.failed
    BY <1>2 DEF I!Dispatch, ShareInv, DrainState
  <2>2. submitted' \in [Shares -> Nat] /\ Sent(s)' /\ \A t \in Shares : Sent(t) => Sent(t)'
    <3>1. submitted' = [submitted EXCEPT ![s] = submitted[s] + 1]
      BY <1>2 DEF I!Dispatch
    <3> QED BY <3>1, ShareCounts
  <2>3. UNCHANGED <<inbox, cached, shared, late>> /\ drain.at = "batch"
    BY <1>2 DEF I!Dispatch, I!plugin
  <2> QED BY <2>1, <2>2, <2>3 DEF ShareInv, DrainState
<1>3. ASSUME NEW s \in Shares, I!Fail(s) PROVE ShareInv'
  <2>1. /\ drain' \in DrainState /\ drain'.at = "batch" /\ drain'.failed
        /\ drain'.processed = drain.processed
    BY <1>3 DEF I!Fail, ShareInv, DrainState
  <2>2. submitted' \in [Shares -> Nat] /\ \A t \in Shares : Sent(t) => Sent(t)'
    <3>1. submitted' = submitted \/ submitted' = [submitted EXCEPT ![s] = submitted[s] + 1]
      BY <1>3 DEF I!Fail
    <3>2. submitted \in [Shares -> Nat]
      BY DEF ShareInv
    <3> QED BY <3>1, <3>2, ShareCounts DEF Sent
  <2>3. UNCHANGED <<inbox, cached, shared, late>>
    BY <1>3 DEF I!Fail, I!plugin
  <2> QED BY <2>1, <2>2, <2>3 DEF ShareInv, DrainState
<1>4. CASE I!BatchDone
  <2>1. \/ drain' = I!Idle
        \/ /\ drain' \in DrainState /\ drain'.at = "read" /\ ~drain.failed /\ drain.todo = {}
           /\ drain'.processed = drain.processed \cup drain.batch
    BY <1>4 DEF I!BatchDone, ShareInv, DrainState
  <2>2. UNCHANGED <<inbox, cached, shared, late, submitted>> /\ drain.at = "batch"
    BY <1>4 DEF I!BatchDone, I!plugin
  <2> QED BY <2>1, <2>2, ShareIdle DEF ShareInv, Sent
<1>5. CASE I!Reread
  <2>1. I!NewIn(inbox) \subseteq Shares /\ (I!NewIn(inbox) = {} => inbox \subseteq drain.processed)
    BY DEF I!NewIn, ShareInv
  <2>2. /\ drain' \in DrainState /\ drain'.processed = drain.processed /\ drain'.batch = drain'.todo
        /\ \/ drain'.at = "clear" /\ I!NewIn(inbox) = {}
           \/ drain'.at = "batch"
    BY <1>5, <2>1 DEF I!Reread, ShareInv, DrainState
  <2>3. UNCHANGED <<inbox, cached, shared, late, submitted>>
    BY <1>5 DEF I!Reread, I!plugin
  <2> QED BY <2>1, <2>2, <2>3 DEF ShareInv, Sent
<1> QED BY <1>1, <1>2, <1>3, <1>4, <1>5

LEMMA ShareKept == I!Spec => []I!SharesKept
<1>1. ShareInv /\ [I!Next]_I!vars => ShareInv'
  <2>1. ShareInv /\ UNCHANGED I!vars => ShareInv'
    BY DEF I!vars, I!plugin, ShareInv, Sent
  <2> QED BY <2>1, SharePlugin, ShareDrain DEF I!Next
<1>2. ShareInv => I!SharesKept
  BY DEF ShareInv, I!SharesKept, Sent
<1> QED BY <1>1, <1>2, ShareInit, PTL DEF I!Spec

-----------------------------------------------------------------------------
(* FieldReads *)
LEMMA ReadsConstants ==
  None \notin Subject /\ None \notin Nat \X (Subject \cup {None}) /\ None \notin R!Data
BY ContextAssumption DEF R!ReadsAssumption

LEMMA PiecesAreWatched == ASSUME NEW h, NEW p \in R!Pieces(h) PROVE p[2] \in Watched
BY DEF R!Pieces

Loads == [focus : Subject \cup {None}, read : R!Shown, cancelled : BOOLEAN]

ReadsTypeOK ==
  /\ hook \in Hooks
  /\ rows \in [Watched -> Nat] /\ heard \in [Watched -> Nat]
  /\ news \subseteq [table : Watched, revision : Nat]
  /\ calls \subseteq [kind : {"act", "ingest"}, table : Watched, revision : Nat,
                      cancelled : BOOLEAN]
  /\ version \in Nat /\ focus \in Subject \cup {None}
  /\ query \in [ran : {None} \cup (Nat \X (Subject \cup {None})), data : {None} \cup R!Data,
                loading : BOOLEAN, error : BOOLEAN]
  /\ loads \subseteq Loads

\* Nothing is told of, or read, that has not been written.
Written ==
  /\ \A t \in Watched : heard[t] =< rows[t]
  /\ \A n \in news : n.revision =< rows[n.table]
  /\ \A c \in calls : c.revision =< rows[c.table]
  /\ query.data # None =>
       \A p \in DOMAIN query.data.read : p \in R!Pieces(hook) /\ query.data.read[p] =< rows[p[2]]
  /\ \A l \in loads : \A p \in DOMAIN l.read : p \in R!Pieces(hook) /\ l.read[p] =< rows[p[2]]

\* One load is not cancelled, it has been started after what is shown was read,
\* for what the effect ran for last, and while the version is the same it reads
\* all that was heard of.
Live(l) ==
  /\ query.ran # None /\ query.loading /\ l.focus = query.ran[2]
  /\ \A k \in loads : ~k.cancelled => k = l
  /\ query.data # None =>
       \A p \in DOMAIN query.data.read \cap DOMAIN l.read : query.data.read[p] =< l.read[p]
  /\ query.ran[1] = version => \A p \in DOMAIN l.read : heard[p[2]] =< l.read[p]

AtRest ==
  ~query.loading =>
    /\ query.ran # None
    /\ query.ran[1] = version /\ ~query.error =>
         /\ query.data # None /\ query.data.focus = query.ran[2]
         /\ \A p \in DOMAIN query.data.read : heard[p[2]] =< query.data.read[p]

ReadsInv ==
  /\ ReadsTypeOK /\ Written
  /\ query.ran # None => query.ran[1] =< version
  /\ \A l \in loads : ~l.cancelled => Live(l)
  /\ AtRest

LEMMA ReadsInit == R!Init => ReadsInv
<1> SUFFICES ASSUME R!Init PROVE ReadsInv
  OBVIOUS
<1>1. ReadsTypeOK
  <2>1. calls \subseteq [kind : {"act", "ingest"}, table : Watched, revision : Nat,
                         cancelled : BOOLEAN]
    <3>1. \A t \in Watched : R!Call("ingest", t) \in
            [kind : {"act", "ingest"}, table : Watched, revision : Nat, cancelled : BOOLEAN]
      BY DEF R!Call
    <3> QED
      BY <3>1 DEF R!Init
  <2>2. query \in [ran : {None} \cup (Nat \X (Subject \cup {None})), data : {None} \cup R!Data,
                   loading : BOOLEAN, error : BOOLEAN]
    BY DEF R!Init, R!Unmounted
  <2>3. rows \in [Watched -> Nat] /\ heard \in [Watched -> Nat]
    BY DEF R!Init
  <2> QED
    BY <2>1, <2>2, <2>3 DEF R!Init, ReadsTypeOK
<1>2. Written
  BY <1>1 DEF R!Init, R!Unmounted, R!Call, Written
<1> QED
  BY <1>1, <1>2 DEF R!Init, R!Unmounted, ReadsInv, AtRest

\* What of the invariant is about the page.
PageInv ==
  /\ query.ran # None => query.ran[1] =< version
  /\ \A l \in loads : ~l.cancelled => Live(l)
  /\ AtRest

LEMMA NothingShown == ASSUME ReadsInv, UNCHANGED <<query, loads, version, heard>> PROVE PageInv'
BY DEF ReadsInv, PageInv, Live, AtRest

LEMMA ReadsAreNumbers ==
  ASSUME ReadsTypeOK
  PROVE  /\ query.data # None => query.data \in R!Data /\ \A p \in DOMAIN query.data.read : query.data.read[p] \in Nat
         /\ \A l \in loads : \A p \in DOMAIN l.read : l.read[p] \in Nat
<1>1. query.data # None => query.data \in R!Data
  BY DEF ReadsTypeOK
<1> QED
  BY <1>1 DEF R!Data, R!Shown, ReadsTypeOK, Loads

\* A row is written, maybe by a call.
LEMMA WriteKeeps ==
  ASSUME ReadsTypeOK, Written, NEW t \in Watched, R!Write(t),
         UNCHANGED <<hook, heard, query, loads>>,
         \A c \in calls' : c \in calls \/ (c.table = t /\ c.revision = rows[t] + 1)
  PROVE  /\ Written' /\ rows' \in [Watched -> Nat]
         /\ news' \subseteq [table : Watched, revision : Nat]
<1>1. /\ rows' \in [Watched -> Nat] /\ rows'[t] = rows[t] + 1
      /\ \A u \in Watched : rows[u] =< rows'[u]
  BY DEF R!Write, ReadsTypeOK
<1>2. news' = news \/ news' = news \cup {[table |-> t, revision |-> rows[t] + 1]}
  BY DEF R!Write
<1>3. \A n \in news' : n.revision =< rows'[n.table]
  BY <1>1, <1>2 DEF Written, ReadsTypeOK
<1>4. ASSUME NEW p \in R!Pieces(hook)
      PROVE  rows[p[2]] \in Nat /\ rows'[p[2]] \in Nat /\ rows[p[2]] =< rows'[p[2]]
  BY <1>1, PiecesAreWatched DEF ReadsTypeOK
<1>5. \A c \in calls' : c.revision =< rows'[c.table]
  BY <1>1 DEF Written, ReadsTypeOK
<1> QED
  BY <1>1, <1>2, <1>3, <1>4, <1>5, ReadsAreNumbers DEF Written, ReadsTypeOK

LEMMA WrittenElsewhereKeeps == ASSUME ReadsInv, R!WrittenElsewhere PROVE ReadsInv'
<1>1. PICK t \in Watched : R!Write(t)
  BY DEF R!WrittenElsewhere
<1>2. UNCHANGED <<hook, heard, calls, version, focus, query, loads>>
  BY DEF R!WrittenElsewhere, R!provider, R!page
<1> QED
  BY <1>1, <1>2, WriteKeeps, NothingShown DEF ReadsInv, ReadsTypeOK, PageInv

LEMMA CarryKeeps == ASSUME ReadsInv, NEW c \in calls, R!Carry(c) PROVE ReadsInv'
<1>1. c.table \in Watched /\ R!Write(c.table)
  BY DEF R!Carry, ReadsInv, ReadsTypeOK
<1>2. UNCHANGED <<hook, heard, version, focus, query, loads>>
  BY DEF R!Carry, R!page
<1> DEFINE d == [c EXCEPT !.revision = rows[c.table] + 1]
<1>3. /\ d.table = c.table /\ d.revision = rows[c.table] + 1
      /\ d \in [kind : {"act", "ingest"}, table : Watched, revision : Nat, cancelled : BOOLEAN]
  BY <1>1 DEF ReadsInv, ReadsTypeOK
<1>4. calls' = (calls \ {c}) \cup {d}
  BY DEF R!Carry
<1> HIDE DEF d
<1> QED
  BY <1>1, <1>2, <1>3, <1>4, WriteKeeps, NothingShown DEF ReadsInv, ReadsTypeOK, PageInv

\* The version is told of a revision that has been written: whatever is under
\* way is not of this version.
LEMMA RefreshKeeps ==
  ASSUME ReadsInv, NEW t \in Watched, NEW r \in Nat, r =< rows[t], R!Refresh(t, r),
         UNCHANGED <<hook, rows, focus, query, loads>>,
         news' \subseteq news, calls' \subseteq calls
  PROVE  ReadsInv'
<1>1. /\ heard' \in [Watched -> Nat] /\ version' = version + 1
      /\ \A u \in Watched : heard'[u] =< rows[u]
  BY DEF R!Refresh, R!Later, ReadsInv, ReadsTypeOK, Written
<1>2. version \in Nat /\ (query.ran # None => query.ran \in Nat \X (Subject \cup {None}))
  BY DEF ReadsInv, ReadsTypeOK
<1>3. query.ran # None => query.ran[1] \in Nat /\ query.ran[1] < version'
  BY <1>1, <1>2 DEF ReadsInv
<1>4. ReadsTypeOK' /\ Written'
  BY <1>1 DEF ReadsInv, ReadsTypeOK, Written
<1>5. ASSUME NEW l \in loads, ~l.cancelled PROVE Live(l)'
  BY <1>1, <1>3, <1>5 DEF ReadsInv, Live
<1>6. AtRest'
  BY <1>1, <1>3 DEF ReadsInv, AtRest
<1> QED
  BY <1>1, <1>2, <1>3, <1>4, <1>5, <1>6 DEF ReadsInv

LEMMA ChangeKeeps == ASSUME ReadsInv, R!Change PROVE ReadsInv'
<1>1. PICK change \in news : news' = news \ {change} /\ R!Refresh(change.table, change.revision)
  BY DEF R!Change
<1>2. UNCHANGED <<hook, rows, calls, focus, query, loads>>
  BY DEF R!Change, R!page
<1>3. change.table \in Watched /\ change.revision \in Nat /\ change.revision =< rows[change.table]
  BY DEF ReadsInv, ReadsTypeOK, Written
<1> QED
  BY <1>1, <1>2, <1>3, RefreshKeeps

LEMMA EndKeeps == ASSUME ReadsInv, NEW c \in calls, NEW ok \in BOOLEAN, R!End(c, ok) PROVE ReadsInv'
<1>1. UNCHANGED <<hook, rows, news, focus, query, loads>> /\ calls' = calls \ {c}
  BY DEF R!End, R!page, R!server
<1>2. c.table \in Watched /\ c.revision \in Nat /\ c.revision =< rows[c.table]
  BY DEF ReadsInv, ReadsTypeOK, Written
<1>3. CASE R!RefreshedAfter(c, ok)
  BY <1>1, <1>2, <1>3, RefreshKeeps DEF R!End
<1>4. CASE ~R!RefreshedAfter(c, ok)
  <2>1. UNCHANGED <<version, heard>>
    BY <1>4 DEF R!End, R!RefreshedAfter
  <2> QED
    BY <1>1, <2>1, NothingShown DEF ReadsInv, ReadsTypeOK, Written, PageInv
<1> QED
  BY <1>3, <1>4

\* Only calls are made or cancelled, or the channel comes and goes.
LEMMA CallsKeep ==
  ASSUME ReadsInv, UNCHANGED <<hook, rows, version, heard, focus, query, loads>>,
         news' \subseteq news,
         \A c \in calls' : \/ \E d \in calls : c = d \/ c = [d EXCEPT !.cancelled = TRUE]
                           \/ \E t \in Watched : c = R!Call("act", t) \/ c = R!Call("ingest", t)
  PROVE  ReadsInv'
<1>1. ASSUME NEW c \in calls'
      PROVE  /\ c \in [kind : {"act", "ingest"}, table : Watched, revision : Nat,
                       cancelled : BOOLEAN]
             /\ c.revision =< rows[c.table]
  <2>1. CASE \E d \in calls : c = d \/ c = [d EXCEPT !.cancelled = TRUE]
    BY <2>1 DEF ReadsInv, ReadsTypeOK, Written
  <2>2. CASE \E t \in Watched : c = R!Call("act", t) \/ c = R!Call("ingest", t)
    <3>1. PICK t \in Watched, kind \in {"act", "ingest"} : c = R!Call(kind, t)
      BY <2>2
    <3> QED
      BY <3>1 DEF ReadsInv, ReadsTypeOK, R!Call
  <2> QED
    BY <1>1, <2>1, <2>2
<1> QED
  BY <1>1, NothingShown DEF ReadsInv, ReadsTypeOK, Written, PageInv

LEMMA SubscribedKeeps == ASSUME ReadsInv, R!Subscribed PROVE ReadsInv'
BY CallsKeep DEF R!Subscribed, R!provider, R!page

LEMMA DroppedKeeps == ASSUME ReadsInv, R!Dropped PROVE ReadsInv'
BY CallsKeep DEF R!Dropped, R!provider

LEMMA ActKeeps == ASSUME ReadsInv, R!Act PROVE ReadsInv'
BY CallsKeep DEF R!Act, R!server, R!page

LEMMA OnlineKeeps == ASSUME ReadsInv, R!Online PROVE ReadsInv'
BY CallsKeep DEF R!Online, R!server, R!page

LEMMA OfflineKeeps == ASSUME ReadsInv, R!Offline PROVE ReadsInv'
BY CallsKeep DEF R!Offline, R!server

\* A superseded load shows nothing, and has read what it had read.
LEMMA SupersededLoads ==
  ASSUME ReadsTypeOK, Written
  PROVE  /\ R!Superseded(loads) \subseteq Loads
         /\ \A l \in R!Superseded(loads) :
              /\ l.cancelled
              /\ \A p \in DOMAIN l.read : p \in R!Pieces(hook) /\ l.read[p] =< rows[p[2]]
<1>1. ASSUME NEW l \in loads
      PROVE  LET k == [l EXCEPT !.cancelled = TRUE]
             IN  k \in Loads /\ k.cancelled /\ k.read = l.read
  BY DEF ReadsTypeOK, Loads
<1> QED
  BY <1>1 DEF R!Superseded, R!Cancelled, Written

LEMMA EffectKeeps == ASSUME ReadsInv, R!Effect PROVE ReadsInv'
<1> DEFINE new == R!Load
<1>0. [p \in {} |-> 0] \in R!Shown
  <2>1. [p \in {} |-> 0] \in [{} -> Nat]
    OBVIOUS
  <2>2. {} \in SUBSET UNION {R!Pieces(h) : h \in Hooks}
    OBVIOUS
  <2> QED
    BY <2>1, <2>2 DEF R!Shown
<1>1. /\ loads' = R!Superseded(loads) \cup {new}
      /\ query' = [query EXCEPT !.ran = <<version, R!Deps>>, !.loading = TRUE]
      /\ UNCHANGED <<hook, rows, news, calls, version, heard, focus>>
  BY DEF R!Effect, R!server, R!provider
<1>2. new = [focus |-> R!Deps, read |-> [p \in {} |-> 0], cancelled |-> FALSE]
  BY DEF R!Load
<1>3. R!Deps \in Subject \cup {None}
  BY DEF R!Deps, ReadsInv, ReadsTypeOK
<1>4. new \in Loads /\ ~new.cancelled /\ new.focus = R!Deps /\ DOMAIN new.read = {}
  BY <1>2, <1>3, <1>0 DEF Loads
<1> HIDE DEF new
<1>5. /\ <<version, R!Deps>> \in Nat \X (Subject \cup {None})
      /\ <<version, R!Deps>> # None
  BY <1>3, ReadsConstants DEF ReadsInv, ReadsTypeOK
<1>6. ReadsTypeOK'
  BY <1>1, <1>4, <1>5, SupersededLoads DEF ReadsInv, ReadsTypeOK
<1>7. query'.data = query.data /\ query'.loading /\ query'.ran = <<version, R!Deps>>
  BY <1>1 DEF ReadsInv, ReadsTypeOK
<1>8. Written'
  BY <1>1, <1>4, <1>7, SupersededLoads DEF ReadsInv, Written
<1>9. \A l \in loads' : ~l.cancelled => l = new
  BY <1>1, SupersededLoads DEF ReadsInv
<1>10. \A l \in loads' : ~l.cancelled => Live(l)'
  BY <1>4, <1>5, <1>7, <1>9 DEF Live
<1> QED
  BY <1>1, <1>5, <1>6, <1>7, <1>8, <1>10 DEF ReadsInv, ReadsTypeOK, AtRest

LEMMA ReadKeeps ==
  ASSUME ReadsInv, NEW l \in loads, NEW p \in R!Pieces(hook), R!Read(l, p)
  PROVE  ReadsInv'
<1> DEFINE more == [q \in DOMAIN l.read \cup {p} |-> IF q = p THEN rows[p[2]] ELSE l.read[q]]
           k == [l EXCEPT !.read = more]
<1>1. /\ loads' = (loads \ {l}) \cup {k} /\ p \notin DOMAIN l.read
      /\ UNCHANGED <<hook, rows, news, calls, version, heard, focus, query>>
  BY DEF R!Read, R!server, R!provider
<1>2. l \in Loads /\ p[2] \in Watched /\ rows[p[2]] \in Nat
  BY PiecesAreWatched DEF ReadsInv, ReadsTypeOK
<1>3. l.read \in R!Shown /\ DOMAIN l.read \subseteq R!Pieces(hook)
  BY <1>2 DEF Loads, ReadsInv, Written
<1>4. more \in R!Shown
  <2>1. DOMAIN more \subseteq R!Pieces(hook)
    BY <1>3
  <2>2. R!Pieces(hook) \subseteq UNION {R!Pieces(h) : h \in Hooks}
    BY DEF ReadsInv, ReadsTypeOK
  <2>3. \A q \in DOMAIN l.read : l.read[q] \in Nat
    BY <1>3 DEF R!Shown
  <2>4. more \in [DOMAIN l.read \cup {p} -> Nat]
    BY <1>2, <2>3
  <2>5. DOMAIN l.read \cup {p} \in SUBSET UNION {R!Pieces(h) : h \in Hooks}
    BY <1>3, <2>2
  <2> HIDE DEF more
  <2> QED
    BY <2>4, <2>5 DEF R!Shown
<1>5. /\ DOMAIN more = DOMAIN l.read \cup {p} /\ more[p] = rows[p[2]]
      /\ \A q \in DOMAIN l.read : more[q] = l.read[q]
  BY <1>1
<1> HIDE DEF more
<1>6. k \in Loads /\ k.focus = l.focus /\ k.cancelled = l.cancelled /\ k.read = more
  BY <1>2, <1>4 DEF Loads
<1> HIDE DEF k
<1>7. ReadsTypeOK'
  BY <1>1, <1>6 DEF ReadsInv, ReadsTypeOK
<1>8. \A q \in DOMAIN k.read : q \in R!Pieces(hook) /\ k.read[q] =< rows[q[2]]
  BY <1>2, <1>3, <1>5, <1>6 DEF ReadsInv, Written
<1>9. Written'
  BY <1>1, <1>8 DEF ReadsInv, Written
<1>10. ASSUME NEW m \in loads', ~m.cancelled PROVE Live(m)'
  <2>1. CASE m = k
    <3>1. Live(l)
      BY <1>6, <1>10, <2>1 DEF ReadsInv
    <3>2. query.data # None => \A q \in DOMAIN query.data.read \cap DOMAIN k.read :
            query.data.read[q] =< k.read[q]
      BY <1>5, <1>6, <3>1 DEF Live, ReadsInv, Written
    <3>3. query.ran[1] = version => \A q \in DOMAIN k.read : heard[q[2]] =< k.read[q]
      BY <1>2, <1>5, <1>6, <3>1 DEF Live, ReadsInv, Written
    <3>4. \A n \in loads' : ~n.cancelled => n = k
      BY <1>1, <3>1 DEF Live
    <3> QED
      BY <1>1, <1>6, <2>1, <3>1, <3>2, <3>3, <3>4 DEF Live
  <2>2. CASE m # k
    BY <1>1, <1>6, <1>10, <2>2 DEF ReadsInv, Live
  <2> QED
    BY <2>1, <2>2
<1> QED
  BY <1>1, <1>7, <1>9, <1>10 DEF ReadsInv, AtRest

\* What a load that ends leaves is what it has read, or what was shown.
LEMMA ResolveKeeps == ASSUME ReadsInv, NEW l \in loads, R!Resolve(l) PROVE ReadsInv'
<1>1. /\ loads' = loads \ {l}
      /\ UNCHANGED <<hook, rows, news, calls, version, heard, focus>>
  BY DEF R!Resolve, R!server, R!provider
<1>2. CASE l.cancelled
  <2>1. UNCHANGED query
    BY <1>2 DEF R!Resolve
  <2> QED
    BY <1>1, <2>1 DEF ReadsInv, ReadsTypeOK, Written, Live, AtRest
<1>3. CASE ~l.cancelled
  <2> DEFINE data == [focus |-> l.focus, read |-> l.read]
  <2>1. query' = [query EXCEPT !.data = data, !.loading = FALSE, !.error = FALSE]
    BY <1>3 DEF R!Resolve
  <2>2. data \in R!Data /\ data # None
    <3>1. data \in R!Data
      BY DEF ReadsInv, ReadsTypeOK, Loads, R!Data
    <3> QED
      BY <3>1, ReadsConstants
  <2>3. data.focus = l.focus /\ data.read = l.read
    OBVIOUS
  <2> HIDE DEF data
  <2>4. query'.data = data /\ ~query'.loading /\ query'.ran = query.ran
    BY <2>1 DEF ReadsInv, ReadsTypeOK
  <2>5. Live(l)
    BY <1>3 DEF ReadsInv
  <2>6. ReadsTypeOK'
    BY <1>1, <2>1, <2>2 DEF ReadsInv, ReadsTypeOK
  <2>7. Written'
    BY <1>1, <2>3, <2>4 DEF ReadsInv, Written
  <2>8. \A m \in loads' : m.cancelled
    BY <1>1, <2>5 DEF Live
  <2>9. AtRest'
    BY <1>1, <2>2, <2>3, <2>4, <2>5 DEF Live, AtRest
  <2> QED
    BY <1>1, <2>4, <2>6, <2>7, <2>8, <2>9 DEF ReadsInv
<1> QED
  BY <1>2, <1>3

LEMMA RejectKeeps == ASSUME ReadsInv, NEW l \in loads, R!Reject(l) PROVE ReadsInv'
<1>1. /\ loads' = loads \ {l}
      /\ UNCHANGED <<hook, rows, news, calls, version, heard, focus>>
  BY DEF R!Reject, R!server, R!provider
<1>2. CASE l.cancelled
  <2>1. UNCHANGED query
    BY <1>2 DEF R!Reject
  <2> QED
    BY <1>1, <2>1 DEF ReadsInv, ReadsTypeOK, Written, Live, AtRest
<1>3. CASE ~l.cancelled
  <2>1. query' = [query EXCEPT !.loading = FALSE, !.error = TRUE]
    BY <1>3 DEF R!Reject
  <2>2. query'.data = query.data /\ query'.error /\ query'.ran = query.ran
    BY <2>1 DEF ReadsInv, ReadsTypeOK
  <2>3. Live(l)
    BY <1>3 DEF ReadsInv
  <2>4. ReadsTypeOK'
    BY <1>1, <2>1 DEF ReadsInv, ReadsTypeOK
  <2>5. Written'
    BY <1>1, <2>2 DEF ReadsInv, Written
  <2>6. \A m \in loads' : m.cancelled
    BY <1>1, <2>3 DEF Live
  <2> QED
    BY <1>1, <2>2, <2>3, <2>4, <2>5, <2>6 DEF ReadsInv, Live, AtRest
<1> QED
  BY <1>2, <1>3

LEMMA FocusKeeps == ASSUME ReadsInv, R!Focus PROVE ReadsInv'
<1>1. /\ focus' \in Subject \cup {None}
      /\ UNCHANGED <<hook, rows, news, calls, version, heard, query, loads>>
  BY DEF R!Focus, R!server, R!provider
<1> QED
  BY <1>1, NothingShown DEF ReadsInv, ReadsTypeOK, Written, PageInv

LEMMA RemountKeeps == ASSUME ReadsInv, R!Remount PROVE ReadsInv'
<1>1. /\ loads' = R!Superseded(loads) /\ query' = R!Unmounted
      /\ UNCHANGED <<hook, rows, news, calls, version, heard, focus>>
  BY DEF R!Remount, R!server, R!provider
<1>2. query'.ran = None /\ query'.data = None /\ query'.loading
  BY <1>1 DEF R!Unmounted
<1>3. ReadsTypeOK'
  BY <1>1, SupersededLoads DEF ReadsInv, ReadsTypeOK, R!Unmounted
<1>4. Written'
  BY <1>1, <1>2, SupersededLoads DEF ReadsInv, Written
<1> QED
  BY <1>1, <1>2, <1>3, <1>4, SupersededLoads DEF ReadsInv, AtRest

LEMMA ReadsStep == ASSUME ReadsInv, [R!Next]_(R!vars) PROVE ReadsInv'
<1>1. CASE UNCHANGED R!vars
  BY <1>1, CallsKeep DEF R!vars, R!server, R!provider, R!page
<1> QED
  BY <1>1, WrittenElsewhereKeeps, SubscribedKeeps, DroppedKeeps, ChangeKeeps, ActKeeps,
     OnlineKeeps, OfflineKeeps, CarryKeeps, EndKeeps, EffectKeeps, FocusKeeps, RemountKeeps,
     ResolveKeeps, RejectKeeps, ReadKeeps
  DEF R!Next

\* A page at rest is what it is asked for, and what was heard.
LEMMA ReadsHeard == R!Spec => []R!ShowsWhatItHeard
<1>1. ReadsInv => R!ShowsWhatItHeard
  <2> SUFFICES ASSUME ReadsInv, R!Settled PROVE
        /\ query.data # None /\ query.data.focus = R!Deps
        /\ \A p \in DOMAIN query.data.read : query.data.read[p] >= heard[p[2]]
    BY DEF R!ShowsWhatItHeard
  <2>1. query.ran = <<version, R!Deps>> /\ ~query.loading /\ ~query.error
    BY DEF R!Settled
  <2>2. query.ran[1] = version /\ query.ran[2] = R!Deps
    BY <2>1
  <2>3. /\ query.data # None /\ query.data.focus = R!Deps
        /\ \A p \in DOMAIN query.data.read : heard[p[2]] =< query.data.read[p]
    BY <2>1, <2>2 DEF ReadsInv, AtRest
  <2> QED
    BY <2>3
<1> QED
  BY <1>1, ReadsInit, ReadsStep, PTL DEF R!Spec

\* What replaces what is shown has been read after it.
LEMMA ReadsForward == R!Spec => R!NeverBack
<1> DEFINE Forward ==
      query.data # None /\ query'.data # None =>
        \A p \in DOMAIN query.data.read \cap DOMAIN query'.data.read :
          query.data.read[p] =< query'.data.read[p]
<1>1. ASSUME ReadsInv, [R!Next]_(R!vars) PROVE Forward
  <2>1. query.data # None => \A p \in DOMAIN query.data.read : query.data.read[p] \in Nat
    BY <1>1, ReadsAreNumbers DEF ReadsInv
  <2>2. CASE query'.data = query.data
    BY <2>1, <2>2
  <2>3. CASE query'.data = None
    BY <2>3
  <2>4. ASSUME NEW l \in loads, R!Resolve(l), ~l.cancelled PROVE Forward
    <3>1. Live(l)
      BY <1>1, <2>4 DEF ReadsInv
    <3>2. query'.data = [focus |-> l.focus, read |-> l.read]
      BY <1>1, <2>4 DEF R!Resolve, ReadsInv, ReadsTypeOK
    <3> QED
      BY <3>1, <3>2 DEF Live
  <2>5. CASE UNCHANGED query
    BY <2>2, <2>5
  <2>6. CASE R!Effect
    BY <1>1, <2>2, <2>6 DEF R!Effect, ReadsInv, ReadsTypeOK
  <2>7. CASE R!Remount
    BY <2>3, <2>7 DEF R!Remount, R!Unmounted
  <2>8. ASSUME NEW l \in loads, R!Reject(l) PROVE Forward
    BY <1>1, <2>2, <2>5, <2>8 DEF R!Reject, ReadsInv, ReadsTypeOK
  <2>9. ASSUME NEW l \in loads, R!Resolve(l), l.cancelled PROVE Forward
    BY <2>5, <2>9 DEF R!Resolve
  <2> QED
    BY <1>1, <2>4, <2>5, <2>6, <2>7, <2>8, <2>9
    DEF R!Next, R!vars, R!page, R!WrittenElsewhere, R!Subscribed, R!Dropped, R!Change, R!Act,
        R!Online, R!Offline, R!Carry, R!End, R!Focus, R!Read
<1> QED
  BY <1>1, ReadsInit, ReadsStep, PTL DEF R!Spec, R!NeverBack

-----------------------------------------------------------------------------
(* PraxionClient *)
LEMMA PraxionConstants ==
  /\ CacheTime \in Nat \ {0} /\ ProbeTimeout \in Nat \ {0} /\ RequestTimeout \in Nat \ {0}
  /\ None \notin P!Availability
BY ContextAssumption DEF P!PraxionAssumption

\* What has been seen of Praxion was so when it was seen, and a request that
\* has not ended has not been sent long ago.
Meets(r, timeout) ==
  /\ r.sent \in Nat /\ r.sent =< tick /\ tick =< r.sent + timeout
  /\ r.seen \in P!Availability => P!LastHeld(r.seen) >= r.sent

\* A call may see more than an availability: "ok".
RequestOK(r) ==
  /\ r = [todo |-> r.todo, pc |-> r.pc, sent |-> r.sent, seen |-> r.seen]
  /\ r.pc = "calling" =>
       /\ Meets(r, RequestTimeout)
       /\ r.seen \in {None, "ok"} \cup P!Availability

HeldInv == tick \in Nat /\ held \in [P!Availability -> {n \in Int : n =< tick}]

CacheInv ==
  cache # None =>
    /\ cache \in [value : P!Availability, at : Nat] /\ cache.at =< tick
    /\ cache.at - P!LastHeld(cache.value) =< P!Slowest

ProbeInv ==
  /\ inFlight # None =>
       /\ inFlight \in [sent : Nat, seen : {None} \cup P!Availability]
       /\ Meets(inFlight, ProbeTimeout)
  /\ polling # None =>
       /\ polling \in Nat /\ polling =< tick
       /\ inFlight # None => polling =< inFlight.sent + ProbeTimeout

MarkInv ==
  mark # None =>
    /\ mark \in [value : P!Availability, asked : Nat]
    /\ mark.asked - P!LastHeld(mark.value) =< ProbeTimeout

RequestInv ==
  /\ request = [c \in Caller |-> request[c]]
  /\ \A c \in Caller : RequestOK(request[c])

PraxionInv == HeldInv /\ CacheInv /\ ProbeInv /\ MarkInv /\ RequestInv

LEMMA Interpretations ==
  /\ P!Interpreted(running) \in P!Availability
  /\ P!Met(running) \in {"ok"} \cup P!Availability
  /\ P!Met(running) \in P!Availability => P!Met(running) = P!Interpreted(running)
BY DEF P!Interpreted, P!Met, P!Availability, P!isContractCompatible

LEMMA SlowestBounds ==
  P!Slowest \in Nat /\ ProbeTimeout =< P!Slowest /\ RequestTimeout =< P!Slowest
BY PraxionConstants DEF P!Slowest

LEMMA PraxionInit == P!Init => PraxionInv
<1> SUFFICES ASSUME P!Init PROVE PraxionInv
  OBVIOUS
<1> USE DEF P!Init, P!Idle
<1>1. HeldInv
  BY PraxionConstants DEF HeldInv
<1>2. RequestInv
  BY DEF RequestInv, RequestOK
<1> QED
  BY <1>1, <1>2 DEF PraxionInv, CacheInv, ProbeInv, MarkInv

\* The last tick at which something was so never moves back.
LEMMA LastHeldGrows ==
  ASSUME HeldInv, [P!Next]_(P!vars)
  PROVE  /\ HeldInv' /\ tick =< tick'
         /\ \A value \in P!Availability :
              /\ P!LastHeld(value) \in Int /\ P!LastHeld(value) =< tick
              /\ P!LastHeld(value)' \in Int /\ P!LastHeld(value) =< P!LastHeld(value)'
<1> USE DEF HeldInv, P!LastHeld
<1>1. CASE P!Switch
  BY <1>1, Interpretations DEF P!Switch
<1>2. CASE P!Tick
  BY <1>2 DEF P!Tick, P!praxion
<1>3. CASE P!ProbeTimedOut
  BY <1>3 DEF P!ProbeTimedOut, P!Probed, P!Availability
<1>4. CASE UNCHANGED <<tick, running, held>>
  BY <1>4
<1> QED
  BY <1>1, <1>2, <1>3, <1>4
  DEF P!Next, P!vars, P!praxion, P!Poll, P!ProbeSeen, P!ProbeDone, P!Probed, P!Begin,
      P!availability, P!CallSeen, P!CallDone, P!CallTimedOut, P!CallEnds

\* What stays as it is stays right, as long as no time passes.
LEMMA StillMeets ==
  ASSUME HeldInv, [P!Next]_(P!vars), tick' = tick, NEW r, NEW timeout \in Nat, Meets(r, timeout)
  PROVE  Meets(r, timeout)'
BY LastHeldGrows DEF Meets, HeldInv

LEMMA StillCalls ==
  ASSUME HeldInv, [P!Next]_(P!vars), tick' = tick, NEW r, RequestOK(r)
  PROVE  RequestOK(r)'
<1>1. r.pc = "calling" => Meets(r, RequestTimeout)'
  BY StillMeets, PraxionConstants DEF RequestOK
<1> QED
  BY <1>1 DEF RequestOK

LEMMA CacheStays ==
  ASSUME PraxionInv, [P!Next]_(P!vars), cache' = cache \/ cache' = None
  PROVE  CacheInv'
BY LastHeldGrows, SlowestBounds DEF PraxionInv, CacheInv, HeldInv

LEMMA MarkStays ==
  ASSUME PraxionInv, [P!Next]_(P!vars), UNCHANGED mark
  PROVE  MarkInv'
BY LastHeldGrows, PraxionConstants DEF PraxionInv, MarkInv, HeldInv

LEMMA ProbeStays ==
  ASSUME PraxionInv, [P!Next]_(P!vars), UNCHANGED <<tick, inFlight, polling>>
  PROVE  ProbeInv'
BY StillMeets, PraxionConstants DEF PraxionInv, ProbeInv

\* Who is told makes a call now, or none.
LEMMA ToldIsCall ==
  ASSUME NEW r, RequestOK(r), tick \in Nat, NEW value, NEW capable
  PROVE  RequestOK(P!Told(r, value, capable))
<1> DEFINE t == P!Told(r, value, capable)
<1>1. CASE t = P!Idle
  BY <1>1 DEF RequestOK, P!Idle
<1>2. CASE t = [r EXCEPT !.pc = "calling", !.sent = tick, !.seen = None]
  <2>1. t = [todo |-> r.todo, pc |-> "calling", sent |-> tick, seen |-> None]
    BY <1>2 DEF RequestOK
  <2>2. Meets(t, RequestTimeout)
    BY <2>1, PraxionConstants DEF Meets
  <2> QED
    BY <2>1, <2>2 DEF RequestOK
<1>3. CASE \E s : t = P!Ready(s)
  BY <1>3 DEF RequestOK, P!Ready
<1> QED
  BY <1>1, <1>2, <1>3 DEF P!Told, P!Idle

\* Whoever is told, the calls are right.
LEMMA TellCalls ==
  ASSUME PraxionInv, [P!Next]_(P!vars), tick' = tick, NEW callers, NEW value, NEW capable,
         P!Tell(callers, value, capable)
  PROVE  RequestInv'
<1>1. request' = [c \in Caller |-> request'[c]]
  BY DEF P!Tell
<1>2. ASSUME NEW c \in Caller PROVE RequestOK(request[c])' 
  <2>1. RequestOK(request[c])
    BY DEF PraxionInv, RequestInv
  <2>2. RequestOK(request'[c])
    BY <2>1, ToldIsCall DEF P!Tell, PraxionInv, HeldInv
  <2> QED
    BY <2>2, StillCalls DEF PraxionInv
<1> QED
  BY <1>1, <1>2 DEF RequestInv

\* One caller moves on.
LEMMA OneCalls ==
  ASSUME PraxionInv, [P!Next]_(P!vars), tick' = tick, NEW c \in Caller, NEW r,
         request' = [request EXCEPT ![c] = r], RequestOK(r)
  PROVE  RequestInv'
<1>1. request' = [d \in Caller |-> request'[d]]
  BY DEF PraxionInv, RequestInv
<1>2. ASSUME NEW d \in Caller PROVE RequestOK(request[d])'
  <2>1. RequestOK(request'[d])
    BY DEF PraxionInv, RequestInv
  <2> QED
    BY <2>1, StillCalls DEF PraxionInv
<1> QED
  BY <1>1, <1>2 DEF RequestInv

LEMMA OthersCall ==
  ASSUME PraxionInv, [P!Next]_(P!vars), tick' = tick, UNCHANGED request
  PROVE  RequestInv'
<1>1. ASSUME NEW d \in Caller PROVE RequestOK(request[d])'
  BY StillCalls DEF PraxionInv, RequestInv
<1> QED
  BY <1>1 DEF RequestInv, PraxionInv

LEMMA SwitchKeeps == ASSUME PraxionInv, P!Switch PROVE PraxionInv'
<1>1. [P!Next]_(P!vars)
  BY DEF P!Next
<1>2. UNCHANGED <<tick, cache, inFlight, mark, polling, request>>
  BY DEF P!Switch, P!client, P!poller
<1> QED
  BY <1>1, <1>2, LastHeldGrows, CacheStays, MarkStays, ProbeStays, OthersCall DEF PraxionInv

LEMMA TickKeeps == ASSUME PraxionInv, P!Tick PROVE PraxionInv'
<1>1. [P!Next]_(P!vars)
  BY DEF P!Next
<1>2. tick' = tick + 1 /\ UNCHANGED <<cache, inFlight, mark, polling, request>>
  BY DEF P!Tick, P!client, P!poller
<1>3. ProbeInv'
  BY <1>1, <1>2, LastHeldGrows, PraxionConstants
  DEF PraxionInv, ProbeInv, Meets, HeldInv, P!Tick
<1>4. RequestInv'
  <2>1. ASSUME NEW c \in Caller PROVE RequestOK(request[c])'
    BY <1>1, <1>2, LastHeldGrows, PraxionConstants
    DEF PraxionInv, RequestInv, RequestOK, Meets, HeldInv, P!Tick
  <2> QED
    BY <1>2, <2>1 DEF PraxionInv, RequestInv
<1> QED
  BY <1>1, <1>2, <1>3, <1>4, LastHeldGrows, CacheStays, MarkStays DEF PraxionInv

LEMMA BeginKeeps == ASSUME PraxionInv, NEW c \in Caller, P!Begin(c) PROVE PraxionInv'
<1>1. [P!Next]_(P!vars)
  BY DEF P!Next
<1>2. UNCHANGED <<tick, cache, inFlight, mark, polling>>
  BY DEF P!Begin, P!client, P!poller
<1>3. PICK plan \in P!Plans :
        request' = [request EXCEPT ![c] = P!Ready(plan)]
  BY DEF P!Begin
<1>4. RequestOK(P!Ready(plan))
  BY DEF RequestOK, P!Ready
<1> QED
  BY <1>1, <1>2, <1>3, <1>4, OneCalls, LastHeldGrows, CacheStays, MarkStays, ProbeStays
  DEF PraxionInv

\* A new probe, or the one that is under way.
LEMMA JoinKeeps ==
  ASSUME PraxionInv, [P!Next]_(P!vars), tick' = tick, P!Join,
         polling' = polling \/ polling' = tick
  PROVE  ProbeInv'
<1>1. CASE inFlight # None
  BY <1>1, StillMeets, PraxionConstants DEF PraxionInv, ProbeInv, P!Join, Meets, HeldInv
<1>2. CASE inFlight = None
  BY <1>2, PraxionConstants DEF PraxionInv, ProbeInv, P!Join, Meets, HeldInv
<1> QED
  BY <1>1, <1>2

LEMMA AvailabilityKeeps == ASSUME PraxionInv, NEW c \in Caller, P!availability(c) PROVE PraxionInv'
<1>1. [P!Next]_(P!vars)
  BY DEF P!Next
<1>2. UNCHANGED <<tick, mark, polling>>
  BY DEF P!availability, P!poller
<1>3. CASE P!Fresh(tick)
  <2>1. UNCHANGED <<cache, inFlight>> /\ \E capable \in BOOLEAN : P!Tell({c}, cache.value, capable)
    BY <1>3 DEF P!availability, P!client
  <2> QED
    BY <1>1, <1>2, <2>1, TellCalls, LastHeldGrows, CacheStays, MarkStays, ProbeStays DEF PraxionInv
<1>4. CASE ~P!Fresh(tick)
  <2>1. P!Join /\ UNCHANGED cache /\ request' = [request EXCEPT ![c].pc = "waiting"]
    BY <1>4 DEF P!availability
  <2>2. RequestOK([request[c] EXCEPT !.pc = "waiting"])
    BY DEF PraxionInv, RequestInv, RequestOK
  <2> QED
    BY <1>1, <1>2, <2>1, <2>2, OneCalls, JoinKeeps, LastHeldGrows, CacheStays, MarkStays
    DEF PraxionInv
<1> QED
  BY <1>3, <1>4

LEMMA PollKeeps == ASSUME PraxionInv, P!Poll PROVE PraxionInv'
<1>1. [P!Next]_(P!vars)
  BY DEF P!Next
<1>2. cache' = None /\ P!Join /\ polling' = tick /\ UNCHANGED <<tick, mark, request>>
  BY DEF P!Poll
<1> QED
  BY <1>1, <1>2, JoinKeeps, OthersCall, LastHeldGrows, CacheStays, MarkStays DEF PraxionInv

LEMMA ProbeSeenKeeps == ASSUME PraxionInv, P!ProbeSeen PROVE PraxionInv'
<1>1. [P!Next]_(P!vars)
  BY DEF P!Next
<1>2. UNCHANGED <<tick, cache, mark, polling, request>>
  BY DEF P!ProbeSeen, P!poller
<1>3. ProbeInv'
  BY <1>2, Interpretations, PraxionConstants
  DEF PraxionInv, ProbeInv, Meets, HeldInv, P!ProbeSeen, P!praxion, P!LastHeld
<1> QED
  BY <1>1, <1>2, <1>3, OthersCall, LastHeldGrows, CacheStays, MarkStays DEF PraxionInv

\* The answer of a probe was so after it was sent.
LEMMA ProbedKeeps ==
  ASSUME PraxionInv, [P!Next]_(P!vars), inFlight # None, NEW value \in P!Availability, NEW capable,
         P!Probed(value, capable), P!LastHeld(value)' >= inFlight.sent
  PROVE  PraxionInv'
<1>1. tick' = tick /\ inFlight' = None /\ polling' = None
  BY DEF P!Probed
<1>2. RequestInv'
  BY <1>1, TellCalls DEF P!Probed
<1>3. CacheInv'
  BY <1>1, LastHeldGrows, SlowestBounds, PraxionConstants
  DEF PraxionInv, CacheInv, ProbeInv, Meets, HeldInv, P!Probed
<1>4. MarkInv'
  <2>1. CASE polling = None
    BY <2>1, MarkStays DEF P!Probed
  <2>2. CASE polling # None
    BY <2>2, <1>1, LastHeldGrows, PraxionConstants
    DEF PraxionInv, MarkInv, ProbeInv, Meets, HeldInv, P!Probed
  <2> QED
    BY <2>1, <2>2
<1>5. ProbeInv'
  BY <1>1 DEF ProbeInv
<1> QED
  BY <1>2, <1>3, <1>4, <1>5, LastHeldGrows DEF PraxionInv

LEMMA ProbeDoneKeeps == ASSUME PraxionInv, P!ProbeDone PROVE PraxionInv'
<1>1. [P!Next]_(P!vars)
  BY DEF P!Next
<1>2. inFlight # None /\ inFlight.seen \in P!Availability /\ P!LastHeld(inFlight.seen) >= inFlight.sent
  BY DEF P!ProbeDone, PraxionInv, ProbeInv, Meets
<1>3. UNCHANGED <<tick, running, held>> /\ \E capable \in BOOLEAN : P!Probed(inFlight.seen, capable)
  BY DEF P!ProbeDone, P!Probed
<1>4. P!LastHeld(inFlight.seen) = P!LastHeld(inFlight.seen)
  OBVIOUS
<1>5. \A value : UNCHANGED <<tick, running, held>> =>
        P!LastHeld(value)' = P!LastHeld(value)
  BY DEF P!LastHeld, P!Interpreted, P!isContractCompatible
<1>6. \A value \in P!Availability : inFlight.seen = value => P!LastHeld(value)' >= inFlight.sent
  BY <1>2, <1>3, <1>5
<1>7. ASSUME NEW value \in P!Availability, value = inFlight.seen, NEW capable, P!Probed(value, capable)
      PROVE  PraxionInv'
  BY <1>1, <1>2, <1>6, <1>7, ProbedKeeps
<1> QED
  BY <1>2, <1>3, <1>7

LEMMA ProbeTimedOutKeeps == ASSUME PraxionInv, P!ProbeTimedOut PROVE PraxionInv'
<1>1. [P!Next]_(P!vars)
  BY DEF P!Next
<1>2. inFlight # None /\ P!Probed("timeout", FALSE) /\ "timeout" \in P!Availability
  BY DEF P!ProbeTimedOut, P!Availability
<1>3. P!LastHeld("timeout")' >= inFlight.sent
  BY DEF P!ProbeTimedOut, P!Probed, P!LastHeld, P!Availability, PraxionInv, HeldInv, ProbeInv, Meets
<1> QED
  BY <1>1, <1>2, <1>3, ProbedKeeps

LEMMA CallSeenKeeps == ASSUME PraxionInv, NEW c \in Caller, P!CallSeen(c) PROVE PraxionInv'
<1>1. [P!Next]_(P!vars)
  BY DEF P!Next
<1>2. UNCHANGED <<tick, cache, inFlight, mark, polling>>
  BY DEF P!CallSeen, P!client, P!poller
<1> DEFINE r == [request[c] EXCEPT !.seen = P!Met(running)]
<1>3. RequestOK(r)
  <2>1. RequestOK(request[c]) /\ request[c].pc = "calling"
    BY DEF P!CallSeen, PraxionInv, RequestInv
  <2>2. r = [todo |-> request[c].todo, pc |-> "calling", sent |-> request[c].sent,
             seen |-> P!Met(running)]
    BY <2>1 DEF RequestOK
  <2>3. Meets(r, RequestTimeout)
    BY <2>1, <2>2, Interpretations DEF RequestOK, Meets, P!LastHeld
  <2> QED
    BY <2>2, <2>3, Interpretations DEF RequestOK
<1>4. request' = [request EXCEPT ![c] = r]
  BY DEF P!CallSeen
<1> QED
  BY <1>1, <1>2, <1>3, <1>4, OneCalls, LastHeldGrows, CacheStays, MarkStays, ProbeStays
  DEF PraxionInv

LEMMA CallEndsKeeps ==
  ASSUME PraxionInv, [P!Next]_(P!vars), NEW c \in Caller, NEW seen, P!CallEnds(c, seen),
         P!NotesLoss(Head(request[c].todo), seen) =>
           seen \in P!Availability /\ tick - P!LastHeld(seen) =< RequestTimeout
  PROVE  PraxionInv'
<1>1. UNCHANGED <<tick, running, held, inFlight, mark, polling>>
  BY DEF P!CallEnds, P!poller, P!praxion
<1>2. RequestOK(P!Done(request[c], seen = "ok"))
  BY DEF P!Done, RequestOK, P!Idle, P!Ready
<1>3. request' = [request EXCEPT ![c] = P!Done(request[c], seen = "ok")]
  BY DEF P!CallEnds
<1>4. CacheInv'
  <2>1. CASE P!NotesLoss(Head(request[c].todo), seen)
    <3>1. cache' = [value |-> seen, at |-> tick]
      BY <2>1 DEF P!CallEnds
    <3> QED
      BY <1>1, <2>1, <3>1, LastHeldGrows, SlowestBounds, PraxionConstants
      DEF CacheInv, PraxionInv, HeldInv
  <2>2. CASE ~P!NotesLoss(Head(request[c].todo), seen)
    BY <2>2, CacheStays DEF P!CallEnds
  <2> QED
    BY <2>1, <2>2
<1> QED
  BY <1>1, <1>2, <1>3, <1>4, OneCalls, LastHeldGrows, MarkStays, ProbeStays DEF PraxionInv

LEMMA CallDoneKeeps == ASSUME PraxionInv, NEW c \in Caller, P!CallDone(c) PROVE PraxionInv'
<1>1. [P!Next]_(P!vars)
  BY DEF P!Next
<1>2. RequestOK(request[c]) /\ request[c].pc = "calling"
  BY DEF P!CallDone, PraxionInv, RequestInv
<1>3. ASSUME P!NotesLoss(Head(request[c].todo), request[c].seen)
      PROVE  /\ request[c].seen \in P!Availability
             /\ tick - P!LastHeld(request[c].seen) =< RequestTimeout
  <2>1. request[c].seen \in P!Availability
    BY <1>3 DEF P!NotesLoss, P!Availability
  <2>2. P!LastHeld(request[c].seen) \in Int
    BY <1>1, <2>1, LastHeldGrows DEF PraxionInv
  <2> QED
    BY <1>2, <2>1, <2>2, PraxionConstants DEF RequestOK, Meets, PraxionInv, HeldInv
<1> QED
  BY <1>1, <1>3, CallEndsKeeps DEF P!CallDone

LEMMA CallTimedOutKeeps == ASSUME PraxionInv, NEW c \in Caller, P!CallTimedOut(c) PROVE PraxionInv'
<1>1. [P!Next]_(P!vars)
  BY DEF P!Next
<1>2. ~P!NotesLoss(Head(request[c].todo), "timeout")
  BY DEF P!NotesLoss
<1> QED
  BY <1>1, <1>2, CallEndsKeeps DEF P!CallTimedOut

LEMMA PraxionStep == ASSUME PraxionInv, [P!Next]_(P!vars) PROVE PraxionInv'
<1>1. CASE UNCHANGED P!vars
  BY <1>1, LastHeldGrows, CacheStays, MarkStays, ProbeStays, OthersCall
  DEF PraxionInv, P!vars, P!client, P!poller
<1> QED
  BY <1>1, SwitchKeeps, TickKeeps, BeginKeeps, AvailabilityKeeps, PollKeeps, ProbeSeenKeeps,
     ProbeDoneKeeps, ProbeTimedOutKeeps, CallSeenKeeps, CallDoneKeeps, CallTimedOutKeeps
  DEF P!Next

\* What is kept is fresh, and what is shown was so when it was asked for.
LEMMA PraxionFresh == P!Spec => []P!SaidIsFresh
<1>1. PraxionInv => P!SaidIsFresh
  <2> SUFFICES ASSUME PraxionInv PROVE P!SaidIsFresh
    OBVIOUS
  <2>1. HeldInv /\ CacheInv /\ MarkInv
    BY DEF PraxionInv
  <2>2. \A value \in P!Availability : P!LastHeld(value) \in Int
    BY <2>1, Interpretations DEF HeldInv, P!LastHeld
  <2> QED
    BY <2>1, <2>2, SlowestBounds, PraxionConstants
    DEF P!SaidIsFresh, HeldInv, CacheInv, MarkInv, P!Fresh
<1> QED
  BY <1>1, PraxionInit, PraxionStep, PTL DEF P!Spec

-----------------------------------------------------------------------------
\* The rows, the calls and the answers keep their types, and an accepted handoff
\* names a device, however many devices ask and calls are killed.
THEOREM TypeCorrect == Spec => []H!TypeOK
BY Components, HandoffTypes, PTL

\* handoff.accept: a device that first asks after another one was told that it
\* has the handoff, or after the expiry, is never told that it has it.
THEOREM LateDevicesRefused == Spec => []TooLateIsRefused
BY Components, HandoffLate, PTL DEF TooLateIsRefused

\* handoff.accept: unless a call is killed between the two writes, a device that
\* was told it has the handoff has taken the prompt it saw out of NOW.
THEOREM AcceptResolvesPrompt == Spec => []PromptResolved
BY Components, HandoffPrompt, PTL DEF PromptResolved

\* reconcileTimeRevisions: after an undisturbed sync the version it applied is the
\* only one shown, whichever syncs were killed and whatever the user did before it.
THEOREM OneVersionStands == Spec => []OneVersionShown
BY Components, TimeOneShown, PTL DEF OneVersionShown

\* reconcileTimeRevisions and dispatchAction: what the user dismissed while no sync
\* was at work stays dismissed, whatever the calendar and later actions do.
THEOREM DismissedStaysAway == Spec => []DismissalRespected
BY Components, TimeDropped, PTL DEF DismissalRespected

\* The decisions of actions.ts and deriveNow's bucket: what the user decided last
\* holds in NOW, for a snooze from its instant on, at whatever instant it is read.
THEOREM DecisionsStand == Spec => []DecisionsHold
BY Components, NowDecisions, PTL DEF DecisionsHold

\* scoreContextEvent: an overdue bill that needs the user does not leave that
\* bucket because time passes.
THEOREM DebtsStay == Spec => DebtsDoNotFade
BY Components, NowDebts, PTL DEF DebtsDoNotFade

\* routeNoun and resolveOne: a bare noun is answered about what was in focus when
\* it was asked, whoever shares its name and whoever is merged before the answer.
THEOREM NounAnswersFocus == Spec => []FocusAnswers
BY Components, CommandFocus, PTL DEF FocusAnswers

\* person.merge and the executor: where the attachment scan reaches all mail, the
\* answers about two people are among those about the one they are merged into.
THEOREM MergesKeepAnswers ==
  ASSUME Mails <= MAIL_ATTACHMENT_SCAN PROVE Spec => MergeKeepsAnswers
BY Components, CommandMerges, PTL DEF MergeKeepsAnswers

\* drainShares and the plugin's clear(): whatever the user shares is dispatched or
\* stays in the queue with its bytes, however shares, failures and restarts fall,
\* unless it arrives between the drain's last reading of the queue and its clear.
THEOREM DrainKeepsShares == Spec => []SharesKept
BY Components, ShareKept, PTL DEF SharesKept

\* Whatever loads overlap, fail and are superseded, what a page shows of a table
\* never goes back (useSpineQuery).
THEOREM PagesNeverGoBack == Spec => NeverBack
BY Components, ReadsForward, PTL DEF NeverBack

\* A page at rest is about its focus and has all changes heard of, and the
\* writes of its own actions.
THEOREM PagesShowWhatWasHeard == Spec => []ShowsWhatItHeard
BY Components, ReadsHeard, PTL DEF ShowsWhatItHeard

\* What is said of Praxion was so not long before.
THEOREM PraxionIsFresh == Spec => []SaidIsFresh
BY Components, PraxionFresh, PTL DEF SaidIsFresh
=============================================================================
