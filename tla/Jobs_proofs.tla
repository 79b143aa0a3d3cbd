---------------------------- MODULE Jobs_proofs ----------------------------
(***************************************************************************)
(* Proofs about Jobs, for every value of its constants: a key is answered  *)
(* once, whoever retries it, and an item is processed once and whole, for  *)
(* any items and contents and however many runs fail, are killed and are   *)
(* repeated, as long as one call of the pipeline is at work at a time (two *)
(* that both find nothing would both insert).                              *)
(***************************************************************************)
EXTENDS Jobs, FiniteSetTheorems, TLAPS

\* The modules of the jobs have the library's Cardinality under names of their own.
LEMMA JobsCardinality ==
  ASSUME NEW T
  PROVE  Together!Cardinality(T) = Cardinality(T) /\ Ingest!Cardinality(T) = Cardinality(T)
BY DEF Together!Cardinality, Ingest!Cardinality, Cardinality

-----------------------------------------------------------------------------
(* ActionDispatch.                                                         *)

\* The calls that are past the look-up: they will write to the row of the key.
Working(c) == call[c].pc \notin {"idle", "lookup"}

CallRecord ==
  [pc : {"idle", "lookup", "mark", "handle", "done", "defer", "fail"}, attempts : Nat,
   created : BOOLEAN]
\* The call that inserted the row is the only one that works on it, the row is young
\* for as long as it does, and nobody has been told anything yet.  Once it has
\* returned, the row is settled.
TogetherInv ==
  /\ call \in [Call -> CallRecord]
  /\ request \in Together!Request \cup {None} /\ threads \in 0..1 /\ crashes = 0
  /\ \A c, d \in Call : Working(c) /\ Working(d) => c = d
  /\ request = None => (\A c \in Call : call[c].pc = "idle") /\ told = {} /\ threads = 0
  /\ \A c \in Call : Working(c) =>
       /\ call[c].pc \in {"mark", "handle", "done", "fail"}
       /\ told = {} /\ fresh = TRUE
       /\ call[c].pc = "mark" =>
            /\ call[c].created = TRUE /\ call[c].attempts = 0 /\ threads = 0
            /\ request.status = "queued" /\ request.attempts = 0
       /\ call[c].pc = "handle" => threads = 0
       /\ call[c].pc # "mark" => request.status = "running"
  /\ request # None /\ (\A c \in Call : ~Working(c)) =>
       request.status \in {"done", "failed"} /\ told = {request.status}

LEMMA NoneIsNoRow == None \notin Together!Request /\ None \notin Alone!Request
BY JobsAssumption DEF JobsAssumption, Together!DispatchAssumption, Alone!DispatchAssumption

LEMMA TogetherStart == ASSUME Together!Init PROVE TogetherInv
BY DEF Together!Init, Together!Idle, TogetherInv, CallRecord, Working

LEMMA TogetherStep ==
  ASSUME TogetherInv, Together!Next PROVE TogetherInv'
<1> USE DEF Together!At, Together!Goto, Together!Return
<1>0. /\ call \in [Call -> CallRecord] /\ request \in Together!Request \cup {None}
      /\ Together!Idle \in CallRecord /\ Together!Idle.pc = "idle"
  BY DEF TogetherInv, Together!Idle, CallRecord
<1>9. crashes' = 0
  <2>1. crashes = 0
    BY DEF TogetherInv
  <2>2. ASSUME NEW c \in Call PROVE ~Together!Crash(c)
    BY <2>1 DEF Together!Crash
  <2>3. crashes' = crashes
    BY <2>2
    DEF Together!Next, Together!Answer, Together!Run, Together!Age, Together!Insert,
        Together!Replay,
        Together!Refuse, Together!Take, Together!Mark, Together!Handle, Together!RecordDone,
        Together!Defer, Together!RecordFailed
  <2> QED BY <2>1, <2>3
<1>1. CASE Together!Age
  <2>1. request # None /\ \A c \in Call : ~Working(c)
    BY <1>1 DEF Together!Age, Together!Writing, TogetherInv, Working
  <2> QED BY <1>1, <1>9, <2>1 DEF Together!Age, TogetherInv, Working
<1>2. ASSUME NEW c \in Call, Together!Insert(c) PROVE TogetherInv'
  <2>1. CASE request = None
    <3>1. /\ request' = [type |-> ActionOf[c], status |-> "queued", attempts |-> 0, error |-> FALSE]
          /\ fresh' = TRUE /\ UNCHANGED <<threads, told>>
          /\ call' = [call EXCEPT ![c] = [pc |-> "mark", attempts |-> 0, created |-> TRUE]]
      BY <1>2, <2>1 DEF Together!Insert
    <3>0. 0 \in 0..(MAX_ACTION_ATTEMPTS + 0) /\ ActionOf[c] \in ActionType
      BY JobsAssumption DEF JobsAssumption, Together!DispatchAssumption
    <3>2. request' \in Together!Request /\ request' # None
      <4>1. request' \in Together!Request
        BY <3>0, <3>1 DEF Together!Request, Together!Settled
      <4> QED BY <4>1, NoneIsNoRow
    <3>3. /\ call' \in [Call -> CallRecord]
          /\ call'[c].pc = "mark" /\ call'[c].created = TRUE /\ call'[c].attempts = 0
          /\ \A d \in Call \ {c} : call'[d] = call[d]
      BY <1>0, <3>1 DEF CallRecord
    <3> QED BY <1>9, <2>1, <3>1, <3>2, <3>3 DEF TogetherInv, Working
  <2>2. CASE request # None
    <3>1. /\ call[c].pc = "idle" /\ call' = [call EXCEPT ![c].pc = "lookup"]
          /\ UNCHANGED <<request, fresh, threads, told>>
      BY <1>2, <2>2 DEF Together!Insert
    <3>2. call' \in [Call -> CallRecord] /\ call'[c].pc = "lookup" /\ \A d \in Call \ {c} : call'[d] = call[d]
      BY <1>0, <3>1 DEF CallRecord
    <3>3. \A d \in Call : (Working(d)' <=> Working(d)) /\ (Working(d) => call'[d] = call[d])
      BY <3>1, <3>2 DEF Working
    <3> QED BY <1>9, <2>2, <3>1, <3>2, <3>3 DEF TogetherInv
  <2> QED BY <2>1, <2>2
<1>3. ASSUME NEW c \in Call, Together!Replay(c) \/ Together!Refuse(c) PROVE TogetherInv'
  <2>1. /\ call[c].pc = "lookup" /\ call' = [call EXCEPT ![c] = Together!Idle]
        /\ UNCHANGED <<request, fresh, threads>>
        /\ \/ told' = told
           \/ told' = told \cup {request.status} /\ request.status \in {"done", "failed"}
    BY <1>3 DEF Together!Replay, Together!Refuse, Together!Settled
  <2>2. call' \in [Call -> CallRecord] /\ call'[c].pc = "idle" /\ \A d \in Call \ {c} : call'[d] = call[d]
    BY <1>0, <2>1
  <2>3. \A d \in Call : (Working(d)' <=> Working(d)) /\ (Working(d) => call'[d] = call[d])
    BY <2>1, <2>2 DEF Working
  <2>4. CASE told' = told
    BY <1>9, <2>1, <2>2, <2>3, <2>4 DEF TogetherInv
  <2>5. CASE Together!Replay(c)
    <3>1. request # None /\ told' = told \cup {request.status} /\ request.status \in {"done", "failed"}
      BY <2>1, <2>5 DEF Together!Replay, Together!Settled, TogetherInv
    <3> QED BY <1>9, <2>1, <2>2, <2>3, <3>1 DEF TogetherInv
  <2> QED BY <1>3, <2>4, <2>5 DEF Together!Refuse
<1>4. ASSUME NEW c \in Call, Together!Take(c) PROVE FALSE
  BY <1>0, <1>4
  DEF Together!Take, Together!InProgress, Together!AwaitingRetry, Together!Settled, TogetherInv,
      Working, Together!Request
<1>5. ASSUME NEW c \in Call, Together!Mark(c) PROVE TogetherInv'
  <2>1. /\ call[c].pc = "mark" /\ Working(c) /\ request # None /\ call[c].attempts = 0
        /\ request' = [request EXCEPT !.status = "running", !.error = FALSE, !.attempts = 0 + 1]
        /\ fresh' = TRUE /\ UNCHANGED <<threads, told>>
        /\ call' = [call EXCEPT ![c] = [pc |-> "handle", created |-> FALSE, attempts |-> 0 + 1]]
    BY <1>5 DEF Together!Mark, TogetherInv, Working
  <2>2. request' \in Together!Request /\ request'.status = "running" /\ request' # None
    <3>1. 0 + 1 \in 0..(MAX_ACTION_ATTEMPTS + 0)
      BY JobsAssumption DEF JobsAssumption, Together!DispatchAssumption
    <3>2. request' \in Together!Request /\ request'.status = "running"
      BY <1>0, <2>1, <3>1 DEF Together!Request
    <3> QED BY <3>2, NoneIsNoRow
  <2>3. /\ call' \in [Call -> CallRecord] /\ call'[c].pc = "handle"
        /\ \A d \in Call \ {c} : call'[d] = call[d]
    BY <1>0, <2>1 DEF CallRecord
  <2> QED BY <1>9, <2>1, <2>2, <2>3 DEF TogetherInv, Working
<1>6. ASSUME NEW c \in Call, Together!Handle(c) PROVE TogetherInv'
  <2>1. PICK pc \in {"done", "fail"} :
          /\ call[c].pc = "handle" /\ call' = [call EXCEPT ![c].pc = pc]
          /\ threads' \in 0..1 /\ UNCHANGED <<request, fresh, told>>
    BY <1>6 DEF Together!Handle, TogetherInv, Working
  <2>2. /\ call' \in [Call -> CallRecord] /\ call'[c].pc = pc
        /\ \A d \in Call \ {c} : call'[d] = call[d]
    BY <1>0, <2>1 DEF CallRecord
  <2> QED BY <1>9, <2>1, <2>2 DEF TogetherInv, Working
<1>7. ASSUME NEW c \in Call, Together!RecordDone(c) \/ Together!RecordFailed(c) PROVE TogetherInv'
  <2>1. PICK s \in {"done", "failed"}, e \in BOOLEAN :
          /\ call[c].pc \in {"done", "fail"} /\ call' = [call EXCEPT ![c] = Together!Idle]
          /\ request' = [request EXCEPT !.status = s, !.error = e]
          /\ told' = told \cup {s} /\ UNCHANGED threads
    BY <1>7 DEF Together!RecordDone, Together!RecordFailed
  <2>2. request # None /\ Working(c) /\ told = {} /\ request.status = "running"
    BY <2>1 DEF TogetherInv, Working
  <2>3. /\ call' \in [Call -> CallRecord] /\ call'[c].pc = "idle"
        /\ \A d \in Call \ {c} : call'[d] = call[d]
    BY <1>0, <2>1
  <2>4. \A d \in Call : ~Working(d)'
    BY <2>2, <2>3 DEF TogetherInv, Working
  <2>5. request' \in Together!Request /\ request'.status = s
    BY <1>0, <2>1, <2>2 DEF Together!Request, Together!Settled
  <2>6. request' # None
    BY <2>5, NoneIsNoRow
  <2> QED BY <1>9, <2>1, <2>2, <2>3, <2>4, <2>5, <2>6 DEF TogetherInv
<1>8. ASSUME NEW c \in Call, Together!Defer(c) \/ Together!Crash(c) PROVE FALSE
  BY <1>8, JobsAssumption DEF Together!Defer, Together!Crash, TogetherInv, Working
<1> QED BY <1>1, <1>2, <1>3, <1>4, <1>5, <1>6, <1>7, <1>8
    DEF Together!Next, Together!Answer, Together!Run

\* The only call: nobody has been told anything before the row is settled, and what
\* the run knows of the attempts is what the row says.  Every attempt but the one
\* that is running has been deferred or killed.
AloneInv ==
  LET me == call[Client] IN
  /\ call \in [{Client} -> CallRecord]
  /\ request \in Alone!Request \cup {None} /\ threads \in Nat /\ fresh \in BOOLEAN
  /\ told \subseteq {"done", "failed"}
  /\ deferrals \in 0..(MAX_ACTION_ATTEMPTS - 1) /\ crashes \in 0..MaxCrash
  /\ request = None => me.pc = "idle" /\ told = {} /\ deferrals = 0
  /\ request # None =>
       /\ deferrals <= request.attempts
       /\ Working(Client) =>
            told = {} /\ request.status \notin {"done", "failed"} /\ me.attempts = request.attempts
       /\ IF me.pc \in {"handle", "done", "defer", "fail"}
          THEN /\ deferrals + 1 <= request.attempts
               /\ request.attempts <= deferrals + crashes + 1
          ELSE request.status \notin {"done", "failed"} => request.attempts <= deferrals + crashes
       /\ request.attempts <= deferrals + crashes + 1
       /\ request.status = "queued" => request.attempts < MAX_ACTION_ATTEMPTS
       /\ me.pc = "defer" => me.attempts < MAX_ACTION_ATTEMPTS
  /\ told # {} => told = {request.status}

LEMMA AloneConstants ==
  MAX_ACTION_ATTEMPTS \in Nat \ {0} /\ MaxCrash \in Nat /\ ActionOf[Client] \in ActionType
BY JobsAssumption DEF JobsAssumption, Together!DispatchAssumption, Alone!DispatchAssumption

LEMMA AloneStart == ASSUME Alone!Init PROVE AloneInv
<1>1. 0 \in 0..(MAX_ACTION_ATTEMPTS - 1) /\ 0 \in 0..MaxCrash
  BY AloneConstants
<1>2. call \in [{Client} -> CallRecord] /\ call[Client].pc = "idle"
  BY DEF Alone!Init, Alone!Idle, CallRecord
<1> QED BY <1>1, <1>2 DEF Alone!Init, AloneInv, Working

LEMMA AloneStep ==
  ASSUME AloneInv, Alone!Next PROVE AloneInv'
<1> USE DEF Alone!At, Alone!Goto, Alone!Return
<1>0. /\ call \in [{Client} -> CallRecord] /\ request \in Alone!Request \cup {None}
      /\ Alone!Idle \in CallRecord /\ Alone!Idle.pc = "idle"
  BY DEF AloneInv, Alone!Idle, CallRecord
<1>1. CASE Alone!Age
  BY <1>1 DEF Alone!Age, AloneInv, Working
<1>2. CASE Alone!Insert(Client)
  <2>1. CASE request = None
    <3>1. /\ request' = [type |-> ActionOf[Client], status |-> "queued", attempts |-> 0, error |-> FALSE]
          /\ fresh' = TRUE /\ UNCHANGED <<threads, told, deferrals, crashes>>
          /\ call' = [call EXCEPT ![Client] = [pc |-> "mark", attempts |-> 0, created |-> TRUE]]
      BY <1>2, <2>1 DEF Alone!Insert
    <3>2. request' \in Alone!Request /\ request' # None
      <4>1. 0 \in 0..(MAX_ACTION_ATTEMPTS + MaxCrash)
        BY AloneConstants
      <4>2. request' \in Alone!Request
        BY <3>1, <4>1, AloneConstants DEF Alone!Request, Alone!Settled
      <4> QED BY <4>2, NoneIsNoRow
    <3>3. /\ call' \in [{Client} -> CallRecord]
          /\ call'[Client].pc = "mark" /\ call'[Client].attempts = 0
      BY <1>0, <3>1 DEF CallRecord
    <3>4. /\ request'.attempts = 0 /\ request'.status = "queued" /\ deferrals = 0
          /\ crashes \in Nat /\ told = {}
      BY <2>1, <3>1, AloneConstants DEF AloneInv
    <3>5. 0 < MAX_ACTION_ATTEMPTS /\ 0 <= 0 + crashes + 1
      BY <3>4, AloneConstants
    <3> QED BY <2>1, <3>1, <3>2, <3>3, <3>4, <3>5 DEF AloneInv, Working
  <2>2. CASE request # None
    <3>1. /\ call[Client].pc = "idle" /\ call' = [call EXCEPT ![Client].pc = "lookup"]
          /\ UNCHANGED <<request, fresh, threads, told, deferrals, crashes>>
      BY <1>2, <2>2 DEF Alone!Insert
    <3>2. call' \in [{Client} -> CallRecord] /\ call'[Client].pc = "lookup"
      BY <1>0, <3>1 DEF CallRecord
    <3> QED BY <2>2, <3>1, <3>2 DEF AloneInv, Working
  <2> QED BY <2>1, <2>2
<1>3. CASE Alone!Replay(Client) \/ Alone!Refuse(Client) \/ Alone!Crash(Client)
  <2>1. /\ call[Client].pc # "idle" /\ request # None
        /\ call' = [call EXCEPT ![Client] = Alone!Idle]
        /\ UNCHANGED <<request, fresh, threads, deferrals>>
    BY <1>3 DEF Alone!Replay, Alone!Refuse, Alone!Crash, AloneInv
  <2>2. call' \in [{Client} -> CallRecord] /\ call'[Client].pc = "idle"
    BY <1>0, <2>1
  <2>3. CASE Alone!Replay(Client)
    <3>1. /\ call[Client].pc = "lookup" /\ crashes' = crashes
          /\ told' = told \cup {request.status} /\ request.status \in {"done", "failed"}
      BY <2>3 DEF Alone!Replay, Alone!Settled
    <3> QED BY <2>1, <2>2, <3>1 DEF AloneInv, Working
  <2>4. CASE Alone!Refuse(Client)
    <3>1. call[Client].pc = "lookup" /\ told' = told /\ crashes' = crashes
      BY <2>4 DEF Alone!Refuse
    <3> QED BY <2>1, <2>2, <3>1 DEF AloneInv, Working
  <2>5. CASE Alone!Crash(Client)
    <3>1. crashes < MaxCrash /\ crashes' = crashes + 1 /\ told' = told
      BY <2>5 DEF Alone!Crash
    <3>2. crashes' \in 0..MaxCrash
      BY <3>1, AloneConstants DEF AloneInv
    <3>3. request.attempts \in Nat
      BY <1>0, <2>1, AloneConstants DEF Alone!Request
    <3> QED BY <2>1, <2>2, <3>1, <3>2, <3>3, AloneConstants DEF AloneInv, Working
  <2> QED BY <1>3, <2>3, <2>4, <2>5
<1>4. CASE Alone!Take(Client)
  <2>1. /\ call[Client].pc = "lookup" /\ request.status \notin {"done", "failed"} /\ request # None
        /\ call' = [call EXCEPT ![Client].pc = "mark", ![Client].attempts = request.attempts]
        /\ UNCHANGED <<request, fresh, threads, told, deferrals, crashes>>
    BY <1>4 DEF Alone!Take, Alone!Settled, AloneInv
  <2>2. request.attempts \in Nat
    BY <1>0, <2>1, AloneConstants DEF Alone!Request
  <2>3. /\ call' \in [{Client} -> CallRecord] /\ call'[Client].pc = "mark"
        /\ call'[Client].attempts = request.attempts
    BY <1>0, <2>1, <2>2 DEF CallRecord
  <2>4. told = {}
    BY <2>1 DEF AloneInv
  <2> QED BY <2>1, <2>3, <2>4 DEF AloneInv, Working
<1>5. CASE Alone!Mark(Client)
  <2>1. /\ call[Client].pc = "mark" /\ Working(Client) /\ request # None
        /\ request' = [request EXCEPT !.status = "running", !.error = FALSE,
                                      !.attempts = call[Client].attempts + 1]
        /\ fresh' = TRUE /\ UNCHANGED <<threads, told, deferrals, crashes>>
        /\ call' = [call EXCEPT ![Client] = [pc |-> "handle", created |-> FALSE,
                                             attempts |-> call[Client].attempts + 1]]
    BY <1>5 DEF Alone!Mark, AloneInv, Working
  <2>2. /\ call[Client].attempts = request.attempts /\ request.attempts \in Nat
        /\ request.attempts <= deferrals + crashes /\ deferrals <= request.attempts
        /\ deferrals \in Nat /\ deferrals <= MAX_ACTION_ATTEMPTS - 1
        /\ crashes \in Nat /\ crashes <= MaxCrash
    BY <1>0, <2>1, AloneConstants DEF AloneInv, Alone!Request
  <2>3. /\ request' \in Alone!Request /\ request'.status = "running"
        /\ request'.attempts = request.attempts + 1
    <3>1. call[Client].attempts + 1 \in 0..(MAX_ACTION_ATTEMPTS + MaxCrash)
      BY <2>2, AloneConstants
    <3> QED BY <1>0, <2>1, <2>2, <3>1 DEF Alone!Request, Alone!Settled
  <2>4. /\ call' \in [{Client} -> CallRecord] /\ call'[Client].pc = "handle"
        /\ call'[Client].attempts = request.attempts + 1
    BY <1>0, <2>1, <2>2 DEF CallRecord
  <2>5. request' # None
    BY <2>3, NoneIsNoRow
  <2>6. told = {}
    BY <2>1 DEF AloneInv
  <2> QED BY <2>1, <2>2, <2>3, <2>4, <2>5, <2>6 DEF AloneInv, Working
<1>6. CASE Alone!Handle(Client) \/ (Alone!RecordDone(Client) /\ request' = request)
  <2>1. PICK pc \in {"done", "fail", "defer"} :
          /\ call[Client].pc \in {"handle", "done"} /\ call' = [call EXCEPT ![Client].pc = pc]
          /\ pc = "defer" => call[Client].attempts < MAX_ACTION_ATTEMPTS
          /\ threads' \in Nat /\ UNCHANGED <<request, fresh, told, deferrals, crashes>>
    <3>1. CASE Alone!Handle(Client)
      BY <3>1 DEF Alone!Handle, Alone!DeferOrFail, AloneInv
    <3>2. CASE Alone!RecordDone(Client) /\ request' = request
      <4>1. call[Client].pc = "done" /\ request # None /\ request.status \notin {"done", "failed"}
        BY <3>2 DEF Alone!RecordDone, AloneInv, Working
      <4>2. request' # [request EXCEPT !.status = "done", !.error = FALSE]
        BY <1>0, <3>2, <4>1 DEF Alone!Request
      <4> QED BY <3>2, <4>1, <4>2 DEF Alone!RecordDone, Alone!DeferOrFail, AloneInv
    <3> QED BY <1>6, <3>1, <3>2
  <2>2. /\ call' \in [{Client} -> CallRecord] /\ call'[Client].pc = pc
        /\ call'[Client].attempts = call[Client].attempts
    BY <1>0, <2>1 DEF CallRecord
  <2> QED BY <2>1, <2>2 DEF AloneInv, Working
<1>7. CASE Alone!RecordFailed(Client) \/ (Alone!RecordDone(Client) /\ request' # request)
  <2>1. PICK s \in {"done", "failed"}, e \in BOOLEAN :
          /\ call[Client].pc \in {"done", "fail"} /\ call' = [call EXCEPT ![Client] = Alone!Idle]
          /\ request' = [request EXCEPT !.status = s, !.error = e]
          /\ fresh' = TRUE /\ told' = told \cup {s} /\ UNCHANGED <<threads, deferrals, crashes>>
    BY <1>7 DEF Alone!RecordDone, Alone!RecordFailed
  <2>2. request # None /\ told = {} /\ deferrals <= request.attempts
    BY <2>1 DEF AloneInv, Working
  <2>3. call' \in [{Client} -> CallRecord] /\ call'[Client].pc = "idle"
    BY <1>0, <2>1
  <2>4. /\ request' \in Alone!Request /\ request'.status = s
        /\ request'.attempts = request.attempts
    BY <1>0, <2>1, <2>2 DEF Alone!Request, Alone!Settled
  <2>5. request' # None
    BY <2>4, NoneIsNoRow
  <2> QED BY <2>1, <2>2, <2>3, <2>4, <2>5 DEF AloneInv, Working
<1>8. CASE Alone!Defer(Client)
  <2>1. /\ call[Client].pc = "defer" /\ Working(Client) /\ request # None
        /\ request' = [request EXCEPT !.status = "queued", !.error = TRUE]
        /\ fresh' = TRUE /\ deferrals' = deferrals + 1
        /\ call' = [call EXCEPT ![Client] = Alone!Idle]
        /\ UNCHANGED <<threads, told, crashes>>
    BY <1>8 DEF Alone!Defer, AloneInv, Working
  <2>2. /\ request.attempts \in Nat /\ request.attempts < MAX_ACTION_ATTEMPTS
        /\ deferrals + 1 <= request.attempts /\ request.attempts <= deferrals + crashes + 1
        /\ deferrals \in Nat /\ crashes \in Nat
    BY <1>0, <2>1, AloneConstants DEF AloneInv, Alone!Request
  <2>3. call' \in [{Client} -> CallRecord] /\ call'[Client].pc = "idle"
    BY <1>0, <2>1
  <2>4. /\ request' \in Alone!Request /\ request'.status = "queued"
        /\ request'.attempts = request.attempts
    BY <1>0, <2>1, <2>2 DEF Alone!Request, Alone!Settled
  <2>5. request' # None /\ told = {}
    BY <2>1, <2>4, NoneIsNoRow DEF AloneInv
  <2>6. deferrals' \in 0..(MAX_ACTION_ATTEMPTS - 1)
    BY <2>1, <2>2, AloneConstants
  <2> QED BY <2>1, <2>2, <2>3, <2>4, <2>5, <2>6 DEF AloneInv, Working
<1> QED BY <1>1, <1>2, <1>3, <1>4, <1>5, <1>6, <1>7, <1>8
    DEF Alone!Next, Alone!Answer, Alone!Run

\* Whoever moves, what clients have been told of the key is one outcome.
DispatchInv ==
  /\ job \in {"together", "alone", "ingest"}
  /\ job = "together" => TogetherInv
  /\ job = "alone" => AloneInv
  /\ job = "ingest" => told = {}

LEMMA DispatchInvariance == Spec => []DispatchInv
<1>1. Init => DispatchInv
  BY TogetherStart, AloneStart DEF Init, DispatchInv, Together!Init
<1>2. DispatchInv /\ [Next]_vars => DispatchInv'
  <2> SUFFICES ASSUME DispatchInv, [Next]_vars PROVE DispatchInv'
    OBVIOUS
  <2>1. CASE job = "together" /\ Together!Next /\ job' = job
    BY <2>1, TogetherStep DEF DispatchInv
  <2>2. CASE job = "alone" /\ Alone!Next /\ job' = job
    BY <2>2, AloneStep DEF DispatchInv
  <2>3. CASE UNCHANGED <<job, dispatchVars>>
    BY <2>3 DEF DispatchInv, dispatchVars, TogetherInv, AloneInv, Working
  <2> QED BY <2>1, <2>2, <2>3 DEF Next, vars
<1> QED BY <1>1, <1>2, PTL DEF Spec

-----------------------------------------------------------------------------
(* IngestPipeline.                                                         *)

\* The document an item has is the one its look-up finds, from the first time on.
Found(i, id) == \E d \in Ingest!Existing(i) : d.id = id

ProcRecord ==
  [pc : {"idle", "find", "create", "link", "event", "finish", "error"},
   item : Item \cup {None}, attempts : Nat, document : Nat \cup {None}]
IngestRow ==
  [status : {"absent", "received", "processed", "failed"}, attempts : Nat,
   document : Nat \cup {None}]

\* What the call at work p knows of its item, and what the rows say together.
IngestInv(p) ==
  /\ proc \in [{p} -> ProcRecord] /\ item \in [Item -> IngestRow]
  /\ event \in [Item -> Nat \cup {None}]
  /\ IsFiniteSet(documents) /\ documents \subseteq [id : Nat, item : Item]
  /\ proc[p].pc # "idle" => proc[p].item \in Item /\ item[proc[p].item].status # "processed"
  /\ proc[p].pc = "create" => Ingest!Existing(proc[p].item) = {}
  /\ proc[p].pc \in {"link", "event", "finish"} => Found(proc[p].item, proc[p].document)
  /\ proc[p].pc = "finish" => event[proc[p].item] = proc[p].document
  /\ \A i \in Item : event[i] # None => Found(i, event[i])
  /\ Ingest!OneDocument /\ Ingest!ProcessedIsComplete

LEMMA IngestStart ==
  ASSUME NEW p, Processor = {p}, Ingest!Init
  PROVE  IngestInv(p)
<1>1. Ingest!Idle \in ProcRecord /\ Ingest!Idle.pc = "idle"
  BY DEF Ingest!Idle, ProcRecord
<1>2. IsFiniteSet(documents)
  BY FS_EmptySet DEF Ingest!Init
<1> QED
  BY <1>1, <1>2
  DEF Ingest!Init, IngestInv, IngestRow, Ingest!OneDocument, Ingest!ProcessedIsComplete

\* A look-up answers with one document, and never with another one later.
LEMMA FoundOnce ==
  ASSUME Ingest!OneDocument, NEW i \in Item, NEW x, NEW y, Found(i, x), Found(i, y),
         documents \subseteq [id : Nat, item : Item]
  PROVE  x = y
<1>1. PICK d \in Ingest!Existing(i) : d.id = x
  BY DEF Found
<1>2. PICK e \in Ingest!Existing(i) : e.id = y
  BY DEF Found
<1>3. d \in documents /\ e \in documents
  BY <1>1, <1>2 DEF Ingest!Existing
<1>4. d.item = e.item \/ (HashOf[d.item] # None /\ HashOf[d.item] = HashOf[e.item])
  BY <1>1, <1>2 DEF Ingest!Existing
<1> QED BY <1>1, <1>2, <1>3, <1>4 DEF Ingest!OneDocument

LEMMA FoundStays ==
  ASSUME NEW j \in Item, Ingest!Existing(j) = {}, NEW n, documents' = documents \cup {[id |-> n, item |-> j]},
         NEW i \in Item, NEW x, Found(i, x)
  PROVE  Found(i, x)'
<1>1. PICK d \in Ingest!Existing(i) : d.id = x
  BY DEF Found
<1>2. d \in documents /\ d \in documents'
  BY <1>1 DEF Ingest!Existing
<1>3. CASE d.item = i
  BY <1>1, <1>2, <1>3 DEF Found, Ingest!Existing
<1>4. CASE d.item # i
  <2>1. (\A e \in documents : e.item # i) /\ HashOf[i] # None /\ HashOf[d.item] = HashOf[i]
    BY <1>1, <1>4 DEF Ingest!Existing
  <2>2. j # i
    BY <1>2, <2>1 DEF Ingest!Existing
  <2>3. \A e \in documents' : e.item # i
    BY <2>1, <2>2
  <2> QED BY <1>1, <1>2, <2>1, <2>3 DEF Found, Ingest!Existing
<1> QED BY <1>3, <1>4

\* A document is inserted for an item that has none, and its content neither.
LEMMA CreateStep ==
  ASSUME NEW p, IngestInv(p), Ingest!Create(p)
  PROVE  IngestInv(p)'
<1> DEFINE j == proc[p].item
           n == Cardinality(documents) + 1
           new == [id |-> n, item |-> j]
<1>1. /\ proc[p].pc = "create" /\ j \in Item /\ Ingest!Existing(j) = {}
      /\ documents' = documents \cup {new} /\ UNCHANGED <<item, event, faults>>
      /\ proc' = [proc EXCEPT ![p].pc = "link", ![p].document = n]
  BY JobsCardinality DEF IngestInv, Ingest!Create, Ingest!At
<1>2. n \in Nat /\ IsFiniteSet(documents')
  <2>1. IsFiniteSet(documents)
    BY DEF IngestInv
  <2>2. Cardinality(documents) \in Nat
    BY <2>1, FS_CardinalityType
  <2>3. IsFiniteSet(documents \cup {new})
    BY <2>1, FS_AddElement
  <2> QED BY <1>1, <2>2, <2>3
<1>3. /\ proc' \in [{p} -> ProcRecord] /\ proc'[p].pc = "link" /\ proc'[p].item = j
      /\ proc'[p].document = n
  BY <1>1, <1>2 DEF IngestInv, ProcRecord
<1>4. documents' \subseteq [id : Nat, item : Item]
  BY <1>1, <1>2 DEF IngestInv
<1>5. ASSUME NEW i \in Item, NEW x, Found(i, x) PROVE Found(i, x)'
  BY <1>1, <1>5, FoundStays
<1>6. \E d \in Ingest!Existing(j)' : d.id = n
  <2>1. new \in documents' /\ new.item = j /\ new.id = n
    BY <1>1
  <2>2. new \in Ingest!Existing(j)'
    BY <2>1, <1>1, <1>3 DEF Ingest!Existing
  <2> QED BY <2>1, <2>2
<1>7. Ingest!OneDocument'
  <2>1. \A d \in documents : ~(d.item = j \/ (HashOf[d.item] # None /\ HashOf[d.item] = HashOf[j]))
    BY <1>1 DEF Ingest!Existing
  <2>2. ASSUME NEW d \in documents', NEW e \in documents',
               d.item = e.item \/ (HashOf[d.item] # None /\ HashOf[d.item] = HashOf[e.item])
        PROVE  d = e
    <3>1. CASE d = new /\ e = new
      BY <3>1
    <3>2. CASE d = new /\ e \in documents
      BY <2>1, <2>2, <3>2
    <3>3. CASE e = new /\ d \in documents
      BY <2>1, <2>2, <3>3
    <3>4. CASE d \in documents /\ e \in documents
      BY <2>2, <3>4 DEF IngestInv, Ingest!OneDocument
    <3> QED BY <1>1, <3>1, <3>2, <3>3, <3>4
  <2> QED BY <2>2 DEF Ingest!OneDocument
<1>8. Ingest!ProcessedIsComplete'
  <2>1. documents \subseteq documents' /\ item' = item /\ event' = event
    BY <1>1
  <2>2. Ingest!ProcessedIsComplete
    BY DEF IngestInv
  <2> QED BY <2>1, <2>2 DEF Ingest!ProcessedIsComplete
<1>9. (\A i \in Item : event[i] # None => Found(i, event[i]))'
  <2>1. event' = event /\ \A i \in Item : event[i] # None => Found(i, event[i])
    BY <1>1 DEF IngestInv
  <2>2. ASSUME NEW i \in Item, event'[i] # None PROVE Found(i, event[i])'
    <3>1. PICK x : x = event[i]
      OBVIOUS
    <3>2. Found(i, x)
      BY <2>1, <2>2, <3>1
    <3>3. Found(i, x)'
      BY <3>2, <1>5
    <3> QED BY <2>1, <3>1, <3>3 DEF Found
  <2> QED BY <2>2 DEF Found
<1>10. /\ item' \in [Item -> IngestRow] /\ event' \in [Item -> Nat \cup {None}]
       /\ item'[j].status # "processed"
  BY <1>1 DEF IngestInv
<1>11. Found(proc[p].item, proc[p].document)'
  <2>1. proc'[p].item = j /\ proc'[p].document = n
    BY <1>3
  <2> QED BY <1>6, <2>1 DEF Found, Ingest!Existing
<1>12. /\ (proc[p].pc # "idle" => proc[p].item \in Item /\ item[proc[p].item].status # "processed")'
       /\ (proc[p].pc = "create" => Ingest!Existing(proc[p].item) = {})'
       /\ (proc[p].pc \in {"link", "event", "finish"} => Found(proc[p].item, proc[p].document))'
       /\ (proc[p].pc = "finish" => event[proc[p].item] = proc[p].document)'
  BY <1>1, <1>3, <1>10, <1>11
<1> QED BY <1>1, <1>2, <1>3, <1>4, <1>7, <1>8, <1>9, <1>10, <1>12 DEF IngestInv

\* The other round trips leave the documents alone.
LEMMA SameFound ==
  ASSUME documents' = documents
  PROVE  /\ \A i, x : Found(i, x)' <=> Found(i, x)
         /\ \A i : Ingest!Existing(i)' = Ingest!Existing(i)
         /\ Ingest!OneDocument' <=> Ingest!OneDocument
BY DEF Found, Ingest!Existing, Ingest!OneDocument

LEMMA IngestStep ==
  ASSUME NEW p, IngestInv(p),
         \/ \E i \in Item : Ingest!Submit(p, i) \/ Ingest!Process(p, i)
         \/ Ingest!Find(p) \/ Ingest!Link(p) \/ Ingest!StoreEvent(p) \/ Ingest!Finish(p) \/ Ingest!Recover(p)
         \/ Ingest!Throw(p) \/ Ingest!Killed(p) \/ UNCHANGED Ingest!vars
  PROVE  IngestInv(p)'
<1>0. /\ Ingest!Idle \in ProcRecord /\ Ingest!Idle.pc = "idle"
      /\ proc \in [{p} -> ProcRecord] /\ item \in [Item -> IngestRow]
  BY DEF Ingest!Idle, ProcRecord, IngestInv
<1>1. documents' = documents
  BY
  DEF Ingest!Submit, Ingest!Process, Ingest!Find, Ingest!Link, Ingest!StoreEvent, Ingest!Finish,
      Ingest!Recover, Ingest!Throw, Ingest!Killed, Ingest!vars
<1>2. ASSUME NEW i \in Item, Ingest!Submit(p, i) PROVE IngestInv(p)'
  <2>1. /\ item' \in [Item -> IngestRow] /\ item'[i].status = "received"
        /\ \A k \in Item \ {i} : item'[k] = item[k]
    BY <1>0, <1>2 DEF Ingest!Submit, IngestRow
  <2>2. proc' \in [{p} -> ProcRecord] /\ proc'[p].pc = "find" /\ proc'[p].item = i
    BY <1>0, <1>2 DEF Ingest!Submit, Ingest!Begin, ProcRecord
  <2> QED
    BY <1>1, <1>2, <2>1, <2>2, SameFound DEF Ingest!Submit, IngestInv, Ingest!ProcessedIsComplete
<1>3. ASSUME NEW i \in Item, Ingest!Process(p, i) PROVE IngestInv(p)'
  <2>1. item[i].attempts + 1 \in Nat
    BY <1>0 DEF IngestRow
  <2>2. proc' \in [{p} -> ProcRecord] /\ proc'[p].pc = "find" /\ proc'[p].item = i
    BY <1>0, <1>3, <2>1 DEF Ingest!Process, Ingest!Begin, ProcRecord
  <2> QED BY <1>1, <1>3, <2>2, SameFound DEF Ingest!Process, IngestInv, Ingest!ProcessedIsComplete
<1>4. CASE Ingest!Find(p)
  <2>1. UNCHANGED <<item, event>> /\ proc[p].pc = "find"
    BY <1>4 DEF Ingest!Find, Ingest!At
  <2>2. CASE Ingest!Existing(proc[p].item) = {}
    <3>1. /\ proc' \in [{p} -> ProcRecord] /\ proc'[p].pc = "create"
          /\ proc'[p].item = proc[p].item
      BY <1>0, <1>4, <2>2 DEF Ingest!Find, Ingest!Goto, ProcRecord
    <3> QED BY <1>1, <2>1, <2>2, <3>1, SameFound DEF IngestInv, Ingest!ProcessedIsComplete
  <2>3. CASE Ingest!Existing(proc[p].item) # {}
    <3>1. PICK d \in Ingest!Existing(proc[p].item) :
            proc' = [proc EXCEPT ![p].pc = "link", ![p].document = d.id]
      BY <1>4, <2>3 DEF Ingest!Find
    <3>2. d.id \in Nat /\ Found(proc[p].item, d.id)
      BY <3>1 DEF Ingest!Existing, IngestInv, Found
    <3>3. /\ proc' \in [{p} -> ProcRecord] /\ proc'[p].pc = "link"
          /\ proc'[p].item = proc[p].item /\ proc'[p].document = d.id
      BY <1>0, <3>1, <3>2 DEF ProcRecord
    <3> QED BY <1>1, <2>1, <3>2, <3>3, SameFound DEF IngestInv, Ingest!ProcessedIsComplete
  <2> QED BY <2>2, <2>3
<1>5. CASE Ingest!Link(p)
  <2>1. /\ proc' \in [{p} -> ProcRecord] /\ proc'[p].pc = "event"
        /\ proc'[p].item = proc[p].item /\ proc'[p].document = proc[p].document
        /\ proc[p].pc = "link" /\ UNCHANGED <<item, event>>
    BY <1>0, <1>5 DEF Ingest!Link, Ingest!At, Ingest!Goto, ProcRecord
  <2> QED BY <1>1, <2>1, SameFound DEF IngestInv, Ingest!ProcessedIsComplete
<1>6. CASE Ingest!StoreEvent(p)
  <2> DEFINE i == proc[p].item
             n == proc[p].document
  <2>1. /\ proc' \in [{p} -> ProcRecord] /\ proc'[p].pc = "finish" /\ proc'[p].item = i
        /\ proc'[p].document = n /\ proc[p].pc = "event" /\ item' = item
    BY <1>0, <1>6 DEF Ingest!StoreEvent, Ingest!At, Ingest!Goto, ProcRecord
  <2>2. i \in Item /\ n \in Nat \cup {None} /\ Found(i, n) /\ item[i].status # "processed"
        /\ Ingest!OneDocument /\ documents \subseteq [id : Nat, item : Item]
        /\ event \in [Item -> Nat \cup {None}]
    BY <1>0, <2>1 DEF IngestInv, ProcRecord
  <2>3. /\ event' \in [Item -> Nat \cup {None}]
        /\ event'[i] = IF event[i] = None THEN n ELSE event[i]
        /\ \A k \in Item \ {i} : event'[k] = event[k]
    BY <1>6, <2>2 DEF Ingest!StoreEvent
  <2>4. event'[i] = n
    <3>1. event[i] # None => event[i] = n
      BY <2>2, FoundOnce DEF IngestInv
    <3> QED BY <2>3, <3>1
  <2>5. \A k \in Item : event'[k] # None => Found(k, event'[k])
    BY <2>2, <2>3, <2>4 DEF IngestInv
  <2>6. Ingest!ProcessedIsComplete'
    BY <1>1, <2>1, <2>2, <2>3 DEF IngestInv, Ingest!ProcessedIsComplete
  <2> QED BY <1>1, <2>1, <2>2, <2>3, <2>4, <2>5, <2>6, SameFound DEF IngestInv
<1>7. CASE Ingest!Finish(p)
  <2> DEFINE i == proc[p].item
             n == proc[p].document
  <2>1. /\ proc[p].pc = "finish" /\ event' = event /\ proc' = [proc EXCEPT ![p] = Ingest!Idle]
        /\ item' = [item EXCEPT ![i] = [status |-> "processed", attempts |-> proc[p].attempts,
                                        document |-> n]]
    BY <1>7 DEF Ingest!Finish, Ingest!At, Ingest!Return
  <2>2. i \in Item /\ n \in Nat \cup {None} /\ proc[p].attempts \in Nat /\ Found(i, n)
        /\ event[i] = n
    BY <1>0, <2>1 DEF IngestInv, ProcRecord
  <2>3. /\ item' \in [Item -> IngestRow] /\ item'[i].document = n
        /\ \A k \in Item \ {i} : item'[k] = item[k]
    BY <1>0, <2>1, <2>2 DEF IngestRow
  <2>4. proc' \in [{p} -> ProcRecord] /\ proc'[p].pc = "idle"
    BY <1>0, <2>1
  <2>5. \E d \in documents : d.id = n
    BY <2>2 DEF Found, Ingest!Existing
  <2>6. Ingest!ProcessedIsComplete'
    BY <1>1, <2>1, <2>2, <2>3, <2>5 DEF IngestInv, Ingest!ProcessedIsComplete
  <2> QED BY <1>1, <2>1, <2>3, <2>4, <2>6, SameFound DEF IngestInv
<1>8. CASE Ingest!Recover(p)
  <2> DEFINE i == proc[p].item
  <2>1. i \in Item /\ proc[p].attempts \in Nat /\ item[i].status # "processed"
    BY <1>0, <1>8 DEF Ingest!Recover, Ingest!At, IngestInv, ProcRecord
  <2>2. /\ item' \in [Item -> IngestRow] /\ item'[i].status # "processed"
        /\ \A k \in Item \ {i} : item'[k] = item[k]
    BY <1>0, <1>8, <2>1 DEF Ingest!Recover, Ingest!Defer, Ingest!Fail, IngestRow
  <2>3. proc' \in [{p} -> ProcRecord] /\ proc'[p].pc = "idle" /\ event' = event
    BY <1>0, <1>8 DEF Ingest!Recover, Ingest!Return
  <2>4. Ingest!ProcessedIsComplete'
    BY <1>1, <2>1, <2>2, <2>3 DEF IngestInv, Ingest!ProcessedIsComplete
  <2> QED BY <1>1, <2>2, <2>3, <2>4, SameFound DEF IngestInv
<1>9. CASE Ingest!Throw(p) \/ Ingest!Killed(p)
  <2>1. /\ proc' \in [{p} -> ProcRecord] /\ UNCHANGED <<item, event>>
        /\ \/ proc'[p].pc = "idle"
           \/ proc'[p].pc = "error" /\ proc'[p].item = proc[p].item /\ proc[p].pc # "idle"
    BY <1>0, <1>9
    DEF Ingest!Throw, Ingest!Killed, Ingest!At, Ingest!Goto, Ingest!Return, ProcRecord
  <2> QED BY <1>1, <2>1, SameFound DEF IngestInv, Ingest!ProcessedIsComplete
<1>10. CASE UNCHANGED Ingest!vars
  BY <1>1, <1>10, SameFound DEF Ingest!vars, IngestInv, Ingest!ProcessedIsComplete
<1> QED BY <1>2, <1>3, <1>4, <1>5, <1>6, <1>7, <1>8, <1>9, <1>10

LEMMA IngestInvariance ==
  ASSUME NEW p, Processor = {p} PROVE Spec => []IngestInv(p)
<1>1. Init => IngestInv(p)
  BY IngestStart DEF Init
<1>2. IngestInv(p) /\ [Next]_vars => IngestInv(p)'
  <2> SUFFICES ASSUME IngestInv(p), [Next]_vars PROVE IngestInv(p)'
    OBVIOUS
  <2>1. CASE Ingest!Next
    BY <2>1, CreateStep, IngestStep DEF Ingest!Next, Ingest!Step
  <2>2. CASE UNCHANGED ingestVars
    <3>1. UNCHANGED Ingest!vars
      BY <2>2 DEF ingestVars, Ingest!vars
    <3> QED BY <3>1, IngestStep
  <2> QED BY <2>1, <2>2 DEF Next, vars
<1> QED BY <1>1, <1>2, PTL DEF Spec

-----------------------------------------------------------------------------
\* dispatchAction: all requests of a key are told one outcome, whether any number of
\* them race while nothing fails, or one client retries it through any failures and
\* kills.
THEOREM OneAnswer == Spec => []SameAnswer
<1>1. DispatchInv => SameAnswer
  <2> SUFFICES ASSUME DispatchInv PROVE SameAnswer
    OBVIOUS
  <2>1. told = {} \/ \E x : told = {x}
    <3>1. CASE job = "together"
      <4>1. CASE request # None /\ \A c \in Call : ~Working(c)
        BY <3>1, <4>1 DEF DispatchInv, TogetherInv
      <4>2. CASE request # None /\ \E c \in Call : Working(c)
        BY <3>1, <4>2 DEF DispatchInv, TogetherInv
      <4>3. CASE request = None
        BY <3>1, <4>3 DEF DispatchInv, TogetherInv
      <4> QED BY <4>1, <4>2, <4>3
    <3>2. CASE job = "alone"
      BY <3>2 DEF DispatchInv, AloneInv
    <3> QED BY <3>1, <3>2 DEF DispatchInv
  <2>2. Cardinality(told) <= 1
    <3>1. CASE told = {}
      BY <3>1, FS_EmptySet
    <3>2. CASE \E x : told = {x}
      <4>1. PICK x : told = {x}
        BY <3>2
      <4>2. Cardinality({x}) = 1
        BY FS_Singleton
      <4> QED BY <4>1, <4>2
    <3> QED BY <2>1, <3>1, <3>2
  <2> QED BY <2>2, JobsCardinality DEF SameAnswer, Together!SameAnswer
<1> QED BY <1>1, DispatchInvariance, PTL

\* createActionRequest and the limits of staleness: while nothing fails, the handler
\* runs once per key, however many requests carry it.
THEOREM HandledOnce == Spec => []OneThreadPerKey
<1>1. DispatchInv => OneThreadPerKey
  BY DEF DispatchInv, TogetherInv, OneThreadPerKey, Together!OneThread
<1> QED BY <1>1, DispatchInvariance, PTL

\* MAX_ACTION_ATTEMPTS bounds what transient failures cost a key, not what kills do.
\* A key whose attempts are spent is never queued for another try (so the failure that
\* spends them settles it), and beside the last run every attempt has been deferred
\* or killed: without kills there are at most MAX_ACTION_ATTEMPTS attempts, and each
\* kill may add one, since a stale row is run again however often it was before.
THEOREM AttemptsAreAccounted ==
  Spec => [](job = "alone" /\ request # None =>
               /\ request.status = "queued" => request.attempts < MAX_ACTION_ATTEMPTS
               /\ deferrals < MAX_ACTION_ATTEMPTS
               /\ request.attempts <= deferrals + crashes + 1)
<1>1. DispatchInv =>
        (job = "alone" /\ request # None =>
           /\ request.status = "queued" => request.attempts < MAX_ACTION_ATTEMPTS
           /\ deferrals < MAX_ACTION_ATTEMPTS
           /\ request.attempts <= deferrals + crashes + 1)
  BY AloneConstants DEF DispatchInv, AloneInv
<1> QED BY <1>1, DispatchInvariance, PTL

\* "Processed exactly once, re-processing is idempotent": one call at a time, killed
\* and repeated at will, gives an item one document, and equal contents the same.
THEOREM OneDocumentEach ==
  ASSUME NEW p, Processor = {p} PROVE Spec => []OneDocument
<1>1. IngestInv(p) => OneDocument
  BY DEF IngestInv, OneDocument
<1> QED BY <1>1, IngestInvariance, PTL

\* An item is marked processed last: its event is in NOW and names the document the
\* row names, which exists, wherever earlier calls were killed.
THEOREM NothingByHalves ==
  ASSUME NEW p, Processor = {p} PROVE Spec => []ProcessedIsComplete
<1>1. IngestInv(p) => ProcessedIsComplete
  BY DEF IngestInv, ProcessedIsComplete
<1> QED BY <1>1, IngestInvariance, PTL
=============================================================================
