-------------------------- MODULE Accounts_proofs --------------------------
(***************************************************************************)
(* Proofs about Accounts, for every value of its constants: linking and    *)
(* disconnecting, the schedule, the provider clients, the keychain and the *)
(* links of the Field.  Each has an inductive invariant of its own; since  *)
(* no step of one touches what another keeps, every behaviour of Accounts  *)
(* is one of each (Components).                                            *)
(***************************************************************************)
EXTENDS Accounts, FiniteSetTheorems, TLAPS

\* What AccountsAssumption says of the client.
LEMMA ClientConstants ==
  MAX_REFRESHES_PER_RUN \in Nat \ {0} /\ C!NoToken \in Nat
BY AccountsAssumption DEF C!ApiClientAssumption, C!NoToken

\* The module of ApiClient has the library's Cardinality under a name of its own.
LEMMA ClientCardinality == ASSUME NEW T PROVE C!Cardinality(T) = Cardinality(T)
BY DEF C!Cardinality, Cardinality

\* A step of the composition is a step of one component, and leaves the others.
LEMMA Components == Spec => L!Spec /\ S!Spec /\ C!Spec /\ K!Spec /\ F!Spec
<1>1. Init => L!Init /\ S!Init /\ C!Init /\ K!Init /\ F!Init
  BY DEF Init
<1> USE DEF Next, vars, linkVars, scheduleVars, clientVars, keychainVars, flowVars
<1>2. [Next]_vars => [L!Next]_(L!vars)
  BY DEF L!vars
<1>3. [Next]_vars => [S!Next]_(S!vars)
  BY DEF S!vars
<1>4. [Next]_vars => [C!Next]_(C!vars)
  BY DEF C!vars, C!client, C!batch, C!cloud
<1>5. [Next]_vars => [K!Next]_(K!vars)
  BY DEF K!vars
<1>6. [Next]_vars => [F!Next]_(F!flowVars)
  BY DEF F!flowVars
<1> QED
  BY <1>1, <1>2, <1>3, <1>4, <1>5, <1>6, PTL
  DEF Spec, L!Spec, S!Spec, C!Spec, K!Spec, F!Spec

-----------------------------------------------------------------------------
(* AccountLink *)
LinkPcs == {"idle", "describe", "find", "account", "put", "ref", "state"}
RunPcs == {"idle", "state", "get", "got", "refresh", "use", "park", "fail"}
Links ==
  [pc : LinkPcs, grant : Nat \cup {None}, existing : L!Account \cup {None},
   ref : Nat \cup {None}, alone : BOOLEAN]
Runs ==
  [pc : RunPcs, account : L!Account \cup {None}, grant : Nat \cup {None},
   code : {None, "repairable", "gone"}]

LinkType ==
  /\ account \in L!Account \cup {None} /\ secret \in L!Secret \cup {None}
  /\ state \in L!State \cup {None}
  /\ refs \in Nat /\ grants \in Nat /\ crossed \in BOOLEAN /\ cut \in BOOLEAN
  /\ gone \in BOOLEAN
  /\ link \in Links /\ run \in [Runner -> Runs]
  /\ linked \in Nat \cup {None}

\* A row is never deleted: a link that found it, or wrote it, still has it.
LinkRow ==
  /\ link.pc # "idle" => link.grant \in Nat
  /\ link.pc = "account" /\ link.existing # None => account # None
  /\ link.pc \in {"put", "ref", "state"} \/ linked # None \/ cut => account # None

\* A sync is of an account there is, and what it refreshes came with a reference.
RunInv(r) ==
  /\ run[r].pc # "idle" => account # None /\ run[r].account # None
  /\ run[r].pc \notin {"idle", "state"} => state # None
  /\ run[r].pc \in {"got", "refresh", "use"} =>
       run[r].account.ref # None /\ run[r].grant # None

\* Vault holds the secret of the row's reference and no other, ...
Paired ==
  IF account = None THEN secret = None
  ELSE account.ref = IF secret = None THEN None ELSE secret.ref

\* ... a link knows the row it found and leaves one that works, ...
LinkInv ==
  /\ link.pc = "account" =>
       /\ (link.existing = None) <=> (account = None)
       /\ link.existing # None => link.existing.ref = account.ref
  /\ link.pc \in {"put", "ref", "state"} /\ link.alone => account.status = "active"
  /\ link.pc = "put" => account.ref = IF link.existing = None THEN None ELSE link.existing.ref
  /\ link.pc \in {"ref", "state"} =>
       /\ account.ref = link.ref /\ link.ref # None
       /\ link.alone => secret.grant = link.grant
  /\ linked # None => state # None /\ L!Works(linked)

\* ... with nothing else at work.
Undisturbed ==
  /\ (link.pc # "idle" /\ link.alone) \/ linked # None => L!NoRun
  /\ linked # None \/ (cut /\ ~crossed) => link.pc = "idle"
  /\ cut /\ ~crossed => secret = None

AccountInv ==
  /\ LinkType /\ LinkRow /\ Undisturbed
  /\ \A r \in Runner : RunInv(r)
  /\ ~crossed => Paired /\ LinkInv

LEMMA AccountStep == ASSUME L!AccountLinkAssumption, AccountInv, [L!Next]_L!vars PROVE AccountInv'
<1>1. CASE L!Revoke
  <2>1. (account \in L!Account \cup {None} /\ secret \in L!Secret \cup {None} /\ refs \in Nat)'
    BY <1>1, L!AccountLinkAssumption
    DEF AccountInv, L!Revoke, LinkType, LinkRow, RunInv, Links, Runs, L!Account, L!Secret,
        L!AccountLinkAssumption
  <2>2. (state \in L!State \cup {None} /\ grants \in Nat /\ crossed \in BOOLEAN /\ cut \in BOOLEAN /\ gone \in BOOLEAN /\ linked \in Nat \cup {None})'
    BY <1>1, L!AccountLinkAssumption
    DEF AccountInv, L!Revoke, LinkType, LinkRow, RunInv, Links, Runs, L!State
  <2>3. (link \in Links)'
    BY <1>1, L!AccountLinkAssumption
    DEF AccountInv, L!Revoke, LinkType, LinkRow, RunInv, Links, LinkPcs, L!Account, L!Secret,
        L!Stored, L!AccountLinkAssumption
  <2>4. (run \in [Runner -> Runs])'
    BY <1>1, L!AccountLinkAssumption
    DEF AccountInv, L!Revoke, LinkType, LinkRow, RunInv, Runs, RunPcs, L!Account, L!Secret,
        L!Stored, L!AccountLinkAssumption
  <2>5. LinkRow'
    BY <1>1, L!AccountLinkAssumption
    DEF AccountInv, L!Revoke, LinkType, LinkRow, RunInv, Links, LinkPcs, L!Account,
        L!AccountLinkAssumption
  <2>6. Undisturbed'
    BY <1>1, L!AccountLinkAssumption
    DEF AccountInv, L!Revoke, LinkType, LinkRow, Undisturbed, L!NoRun, Links, LinkPcs, Paired,
        RunInv, Runs, L!Account, L!AccountLinkAssumption
  <2>7. \A q \in Runner : RunInv(q)'
    BY <1>1, L!AccountLinkAssumption
    DEF AccountInv, L!Revoke, LinkType, RunInv, Runs, RunPcs, L!Account, L!State,
        L!AccountLinkAssumption
  <2>8. (~crossed => Paired /\ LinkInv)'
    BY <1>1, L!AccountLinkAssumption
    DEF AccountInv, L!Revoke, LinkType, LinkRow, Undisturbed, RunInv, Paired, LinkInv, L!NoRun,
        L!Works, L!Stored, Links, Runs, LinkPcs, RunPcs, L!Account, L!Secret, L!State,
        L!AccountLinkAssumption
  <2> QED BY <2>1, <2>2, <2>3, <2>4, <2>5, <2>6, <2>7, <2>8 DEF AccountInv, LinkType
<1>2. CASE L!Exchange
  <2>b. L!NoRun \in BOOLEAN BY DEF L!NoRun
  <2>1. (account \in L!Account \cup {None} /\ secret \in L!Secret \cup {None} /\ refs \in Nat)'
    BY <1>2, <2>b, L!AccountLinkAssumption
    DEF AccountInv, L!Exchange, L!IdleLink, LinkType, LinkRow, RunInv, Links, Runs, L!Account,
        L!Secret, L!AccountLinkAssumption
  <2>2. (state \in L!State \cup {None} /\ grants \in Nat /\ crossed \in BOOLEAN /\ cut \in BOOLEAN /\ gone \in BOOLEAN /\ linked \in Nat \cup {None})'
    <3>1. grants' = grants + 1 /\ state' = state /\ crossed' = crossed /\ gone' = gone /\ linked' = None
      BY <1>2 DEF L!Exchange
    <3>2. cut' \in BOOLEAN BY <1>2 DEF L!Exchange
    <3>3. grants' \in Nat BY <3>1 DEF AccountInv, LinkType
    <3> QED BY <3>1, <3>2, <3>3 DEF AccountInv, LinkType
  <2>3. (link \in Links)'
    <3>1. link' = [pc |-> "find", grant |-> grants + 1, existing |-> None, ref |-> None, alone |-> L!NoRun]
      BY <1>2 DEF L!Exchange, L!IdleLink
    <3>2. grants + 1 \in Nat BY DEF AccountInv, LinkType
    <3> QED BY <3>1, <3>2, <2>b DEF Links, LinkPcs
  <2>4. (run \in [Runner -> Runs])'
    BY <1>2, <2>b, L!AccountLinkAssumption
    DEF AccountInv, L!Exchange, L!IdleLink, LinkType, LinkRow, RunInv, Runs, RunPcs, L!Account,
        L!Secret, L!Stored, L!AccountLinkAssumption
  <2>5. LinkRow'
    BY <1>2, <2>b, L!AccountLinkAssumption
    DEF AccountInv, L!Exchange, L!IdleLink, LinkType, LinkRow, RunInv, Links, LinkPcs, L!Account,
        L!AccountLinkAssumption
  <2>6. Undisturbed'
    BY <1>2, <2>b, L!AccountLinkAssumption
    DEF AccountInv, L!Exchange, L!IdleLink, LinkType, LinkRow, Undisturbed, L!NoRun, Links,
        LinkPcs, Paired, RunInv, Runs, L!Account, L!AccountLinkAssumption
  <2>7. \A q \in Runner : RunInv(q)'
    BY <1>2, <2>b, L!AccountLinkAssumption
    DEF AccountInv, L!Exchange, L!IdleLink, LinkType, RunInv, Runs, RunPcs, L!Account, L!State,
        L!AccountLinkAssumption
  <2>8. (~crossed => Paired /\ LinkInv)'
    BY <1>2, <2>b, L!AccountLinkAssumption
    DEF AccountInv, L!Exchange, L!IdleLink, LinkType, LinkRow, Undisturbed, RunInv, Paired,
        LinkInv, L!NoRun, L!Works, L!Stored, Links, Runs, LinkPcs, RunPcs, L!Account, L!Secret,
        L!State, L!AccountLinkAssumption
  <2> QED BY <2>1, <2>2, <2>3, <2>4, <2>5, <2>6, <2>7, <2>8 DEF AccountInv, LinkType
<1>3. CASE L!Repair
  <2>a. link'.grant \in Nat
    BY <1>3, L!AccountLinkAssumption
    DEF AccountInv, L!Repair, L!IdleLink, L!RelinkTarget, LinkType, L!Secret, L!Stored
  <2>b. L!NoRun \in BOOLEAN BY DEF L!NoRun
  <2>1. (account \in L!Account \cup {None} /\ secret \in L!Secret \cup {None} /\ refs \in Nat)'
    BY <1>3, <2>a, <2>b, L!AccountLinkAssumption
    DEF AccountInv, L!Repair, L!IdleLink, L!RelinkTarget, LinkType, LinkRow, RunInv, Links, Runs,
        L!Account, L!Secret, L!AccountLinkAssumption
  <2>2. (state \in L!State \cup {None} /\ grants \in Nat /\ crossed \in BOOLEAN /\ cut \in BOOLEAN /\ gone \in BOOLEAN /\ linked \in Nat \cup {None})'
    BY <1>3, <2>a, <2>b, L!AccountLinkAssumption
    DEF AccountInv, L!Repair, L!IdleLink, L!RelinkTarget, LinkType, LinkRow, RunInv, Links, Runs,
        L!State
  <2>3. (link \in Links)'
    BY <1>3, <2>a, <2>b, L!AccountLinkAssumption
    DEF AccountInv, L!Repair, L!IdleLink, L!RelinkTarget, LinkType, LinkRow, RunInv, Links,
        LinkPcs, L!Account, L!Secret, L!Stored, L!AccountLinkAssumption
  <2>4. (run \in [Runner -> Runs])'
    BY <1>3, <2>a, <2>b, L!AccountLinkAssumption
    DEF AccountInv, L!Repair, L!IdleLink, L!RelinkTarget, LinkType, LinkRow, RunInv, Runs,
        RunPcs, L!Account, L!Secret, L!Stored, L!AccountLinkAssumption
  <2>5. LinkRow'
    BY <1>3, <2>a, <2>b, L!AccountLinkAssumption
    DEF AccountInv, L!Repair, L!IdleLink, L!RelinkTarget, LinkType, LinkRow, RunInv, Links,
        LinkPcs, L!Account, L!AccountLinkAssumption
  <2>6. Undisturbed'
    BY <1>3, <2>a, <2>b, L!AccountLinkAssumption
    DEF AccountInv, L!Repair, L!IdleLink, L!RelinkTarget, LinkType, LinkRow, Undisturbed,
        L!NoRun, Links, LinkPcs, Paired, RunInv, Runs, L!Account, L!AccountLinkAssumption
  <2>7. \A q \in Runner : RunInv(q)'
    BY <1>3, <2>a, <2>b, L!AccountLinkAssumption
    DEF AccountInv, L!Repair, L!IdleLink, L!RelinkTarget, LinkType, RunInv, Runs, RunPcs,
        L!Account, L!State, L!AccountLinkAssumption
  <2>8. (~crossed => Paired /\ LinkInv)'
    BY <1>3, <2>a, <2>b, L!AccountLinkAssumption
    DEF AccountInv, L!Repair, L!IdleLink, L!RelinkTarget, LinkType, LinkRow, Undisturbed, RunInv,
        Paired, LinkInv, L!NoRun, L!Works, L!Stored, Links, Runs, LinkPcs, RunPcs, L!Account,
        L!Secret, L!State, L!AccountLinkAssumption
  <2> QED BY <2>1, <2>2, <2>3, <2>4, <2>5, <2>6, <2>7, <2>8 DEF AccountInv, LinkType
<1>4. CASE L!Describe
  <2>1. (account \in L!Account \cup {None} /\ secret \in L!Secret \cup {None} /\ refs \in Nat)'
    BY <1>4, L!AccountLinkAssumption
    DEF AccountInv, L!Describe, L!IdleLink, LinkType, LinkRow, RunInv, Links, Runs, L!Account,
        L!Secret, L!AccountLinkAssumption
  <2>2. (state \in L!State \cup {None} /\ grants \in Nat /\ crossed \in BOOLEAN /\ cut \in BOOLEAN /\ gone \in BOOLEAN /\ linked \in Nat \cup {None})'
    BY <1>4, L!AccountLinkAssumption
    DEF AccountInv, L!Describe, L!IdleLink, LinkType, LinkRow, RunInv, Links, Runs, L!State
  <2>3. (link \in Links)'
    BY <1>4, L!AccountLinkAssumption
    DEF AccountInv, L!Describe, L!IdleLink, LinkType, LinkRow, RunInv, Links, LinkPcs, L!Account,
        L!Secret, L!Stored, L!AccountLinkAssumption
  <2>4. (run \in [Runner -> Runs])'
    BY <1>4, L!AccountLinkAssumption
    DEF AccountInv, L!Describe, L!IdleLink, LinkType, LinkRow, RunInv, Runs, RunPcs, L!Account,
        L!Secret, L!Stored, L!AccountLinkAssumption
  <2>5. LinkRow'
    BY <1>4, L!AccountLinkAssumption
    DEF AccountInv, L!Describe, L!IdleLink, LinkType, LinkRow, RunInv, Links, LinkPcs, L!Account,
        L!AccountLinkAssumption
  <2>6. Undisturbed'
    BY <1>4, L!AccountLinkAssumption
    DEF AccountInv, L!Describe, L!IdleLink, LinkType, LinkRow, Undisturbed, L!NoRun, Links,
        LinkPcs, Paired, RunInv, Runs, L!Account, L!AccountLinkAssumption
  <2>7. \A q \in Runner : RunInv(q)'
    BY <1>4, L!AccountLinkAssumption
    DEF AccountInv, L!Describe, L!IdleLink, LinkType, RunInv, Runs, RunPcs, L!Account, L!State,
        L!AccountLinkAssumption
  <2>8. (~crossed => Paired /\ LinkInv)'
    BY <1>4, L!AccountLinkAssumption
    DEF AccountInv, L!Describe, L!IdleLink, LinkType, LinkRow, Undisturbed, RunInv, Paired,
        LinkInv, L!NoRun, L!Works, L!Stored, Links, Runs, LinkPcs, RunPcs, L!Account, L!Secret,
        L!State, L!AccountLinkAssumption
  <2> QED BY <2>1, <2>2, <2>3, <2>4, <2>5, <2>6, <2>7, <2>8 DEF AccountInv, LinkType
<1>5. CASE L!Find
  <2>1. (account \in L!Account \cup {None} /\ secret \in L!Secret \cup {None} /\ refs \in Nat)'
    BY <1>5, L!AccountLinkAssumption
    DEF AccountInv, L!Find, LinkType, LinkRow, RunInv, Links, Runs, L!Account, L!Secret,
        L!AccountLinkAssumption
  <2>2. (state \in L!State \cup {None} /\ grants \in Nat /\ crossed \in BOOLEAN /\ cut \in BOOLEAN /\ gone \in BOOLEAN /\ linked \in Nat \cup {None})'
    BY <1>5, L!AccountLinkAssumption
    DEF AccountInv, L!Find, LinkType, LinkRow, RunInv, Links, Runs, L!State
  <2>3. (link \in Links)'
    BY <1>5, L!AccountLinkAssumption
    DEF AccountInv, L!Find, LinkType, LinkRow, RunInv, Links, LinkPcs, L!Account, L!Secret,
        L!Stored, L!AccountLinkAssumption
  <2>4. (run \in [Runner -> Runs])'
    BY <1>5, L!AccountLinkAssumption
    DEF AccountInv, L!Find, LinkType, LinkRow, RunInv, Runs, RunPcs, L!Account, L!Secret,
        L!Stored, L!AccountLinkAssumption
  <2>5. LinkRow'
    BY <1>5, L!AccountLinkAssumption
    DEF AccountInv, L!Find, LinkType, LinkRow, RunInv, Links, LinkPcs, L!Account,
        L!AccountLinkAssumption
  <2>6. Undisturbed'
    BY <1>5, L!AccountLinkAssumption
    DEF AccountInv, L!Find, LinkType, LinkRow, Undisturbed, L!NoRun, Links, LinkPcs, Paired,
        RunInv, Runs, L!Account, L!AccountLinkAssumption
  <2>7. \A q \in Runner : RunInv(q)'
    BY <1>5, L!AccountLinkAssumption
    DEF AccountInv, L!Find, LinkType, RunInv, Runs, RunPcs, L!Account, L!State,
        L!AccountLinkAssumption
  <2>8. (~crossed => Paired /\ LinkInv)'
    BY <1>5, L!AccountLinkAssumption
    DEF AccountInv, L!Find, LinkType, LinkRow, Undisturbed, RunInv, Paired, LinkInv, L!NoRun,
        L!Works, L!Stored, Links, Runs, LinkPcs, RunPcs, L!Account, L!Secret, L!State,
        L!AccountLinkAssumption
  <2> QED BY <2>1, <2>2, <2>3, <2>4, <2>5, <2>6, <2>7, <2>8 DEF AccountInv, LinkType
<1>6. CASE L!Reactivate
  <2>a. account' \in L!Account /\ account' # None
    <3>1. CASE link.existing = None
      BY <3>1, <1>6, L!AccountLinkAssumption DEF L!Reactivate, L!Account, L!AccountLinkAssumption
    <3>2. CASE link.existing # None
      <4>1. account \in L!Account BY <3>2, <1>6 DEF L!Reactivate, AccountInv, LinkType, LinkRow
      <4>2. account' = [account EXCEPT !.status = "active", !.parked = None]
        BY <3>2, <1>6 DEF L!Reactivate
      <4>3. account' \in L!Account BY <4>1, <4>2 DEF L!Account
      <4> QED BY <4>3, L!AccountLinkAssumption DEF L!AccountLinkAssumption
    <3> QED BY <3>1, <3>2
  <2>1. (account \in L!Account \cup {None} /\ secret \in L!Secret \cup {None} /\ refs \in Nat)'
    BY <1>6, <2>a, L!AccountLinkAssumption
    DEF AccountInv, L!Reactivate, LinkType, LinkRow, RunInv, Links, Runs, L!Account, L!Secret,
        L!AccountLinkAssumption
  <2>2. (state \in L!State \cup {None} /\ grants \in Nat /\ crossed \in BOOLEAN /\ cut \in BOOLEAN /\ gone \in BOOLEAN /\ linked \in Nat \cup {None})'
    BY <1>6, <2>a, L!AccountLinkAssumption
    DEF AccountInv, L!Reactivate, LinkType, LinkRow, RunInv, Links, Runs, L!State
  <2>3. (link \in Links)'
    BY <1>6, <2>a, L!AccountLinkAssumption
    DEF AccountInv, L!Reactivate, LinkType, LinkRow, RunInv, Links, LinkPcs, L!Account, L!Secret,
        L!Stored, L!AccountLinkAssumption
  <2>4. (run \in [Runner -> Runs])'
    BY <1>6, <2>a, L!AccountLinkAssumption
    DEF AccountInv, L!Reactivate, LinkType, LinkRow, RunInv, Runs, RunPcs, L!Account, L!Secret,
        L!Stored, L!AccountLinkAssumption
  <2>5. LinkRow'
    BY <1>6, <2>a, L!AccountLinkAssumption
    DEF AccountInv, L!Reactivate, LinkType, LinkRow, RunInv, Links, LinkPcs, L!Account,
        L!AccountLinkAssumption
  <2>6. Undisturbed'
    BY <1>6, <2>a, L!AccountLinkAssumption
    DEF AccountInv, L!Reactivate, LinkType, LinkRow, Undisturbed, L!NoRun, Links, LinkPcs,
        Paired, RunInv, Runs, L!Account, L!AccountLinkAssumption
  <2>7. \A q \in Runner : RunInv(q)'
    BY <1>6, <2>a, L!AccountLinkAssumption
    DEF AccountInv, L!Reactivate, LinkType, RunInv, Runs, RunPcs, L!Account, L!State,
        L!AccountLinkAssumption
  <2>8. (~crossed => Paired /\ LinkInv)'
    BY <1>6, <2>a, L!AccountLinkAssumption
    DEF AccountInv, L!Reactivate, LinkType, LinkRow, Undisturbed, RunInv, Paired, LinkInv,
        L!NoRun, L!Works, L!Stored, Links, Runs, LinkPcs, RunPcs, L!Account, L!Secret, L!State,
        L!AccountLinkAssumption
  <2> QED BY <2>1, <2>2, <2>3, <2>4, <2>5, <2>6, <2>7, <2>8 DEF AccountInv, LinkType
<1>7. CASE L!PutSecret
  <2>0. link.pc = "put" /\ link \in Links /\ UNCHANGED <<provider, state, grants, live, gone, run, linked, cut, crossed, kills, withdrawn, cuts>>
    BY <1>7 DEF L!PutSecret, AccountInv, LinkType
  <2>1. CASE ~L!MayPut(L!ExistingRef)
    <3>1. link' = L!IdleLink /\ UNCHANGED <<account, secret, refs>>
      BY <2>1, <1>7, Zenon DEF L!PutSecret
    <3>2. LinkType' BY <3>1, <2>0 DEF AccountInv, LinkType, L!IdleLink, Links, LinkPcs
    <3>3. LinkRow' BY <3>1, <2>0 DEF AccountInv, LinkRow, L!IdleLink
    <3>4. Undisturbed' BY <3>1, <2>0 DEF AccountInv, Undisturbed, L!IdleLink, L!NoRun
    <3>5. \A q \in Runner : RunInv(q)' BY <3>1, <2>0 DEF AccountInv, RunInv
    <3>6. (~crossed => Paired /\ LinkInv)'
      BY <3>1, <2>0
      DEF AccountInv, L!IdleLink, Paired, LinkInv, L!Works, L!Stored, LinkRow, Undisturbed
    <3> QED BY <3>2, <3>3, <3>4, <3>5, <3>6 DEF AccountInv
  <2>2. CASE L!MayPut(L!ExistingRef)
    <3>1. L!Put(L!ExistingRef, link.grant) /\ link' = [link EXCEPT !.pc = "ref", !.ref = account'.ref]
      BY <2>2, <1>7, Zenon DEF L!PutSecret
    <3>2. account \in L!Account /\ account # None /\ link.grant \in Nat
      BY <2>0 DEF AccountInv, LinkType, LinkRow
    <3>3. L!ExistingRef \in Nat \cup {None}
      BY <2>0, L!AccountLinkAssumption DEF L!ExistingRef, Links, L!Account
    <3>4. /\ secret' \in L!Secret \cup {None} /\ refs' \in Nat
          /\ account'.ref \in Nat
          /\ account' = [account EXCEPT !.ref = account'.ref]
      BY <3>1, <3>2, <3>3, L!AccountLinkAssumption
      DEF L!Put, L!Account, L!Secret, AccountInv, LinkType, L!AccountLinkAssumption
    <3>5. account' \in L!Account /\ account' # None
      BY <3>2, <3>4, L!AccountLinkAssumption DEF L!Account, L!AccountLinkAssumption
    <3>6. /\ link' \in Links /\ link'.pc = "ref" /\ link'.ref = account'.ref /\ link'.grant = link.grant
          /\ link'.alone = link.alone
      BY <3>1, <3>4, <2>0 DEF Links, LinkPcs
    <3>7. LinkType' BY <3>4, <3>5, <3>6, <2>0 DEF AccountInv, LinkType
    <3>8. LinkRow' BY <3>2, <3>5, <3>6, <2>0 DEF AccountInv, LinkRow
    <3>9. Undisturbed' BY <3>6, <2>0 DEF AccountInv, Undisturbed, L!NoRun
    <3>10. \A q \in Runner : RunInv(q)' BY <3>5, <2>0 DEF AccountInv, RunInv
    <3>11. ASSUME ~crossed PROVE (Paired /\ LinkInv)'
      <4>1. linked' = None BY <2>0 DEF AccountInv, Undisturbed, LinkType
      <4>2. account.ref = L!ExistingRef /\ Paired
        BY <3>11, <2>0 DEF AccountInv, LinkInv, L!ExistingRef
      <4>3. secret' # None /\ account'.ref = secret'.ref /\ secret'.grant = link.grant
        BY <3>1, <3>2, <3>3, <4>2, L!AccountLinkAssumption
        DEF L!Put, L!Account, L!Secret, Paired, AccountInv, LinkType, L!AccountLinkAssumption
      <4>4. link.alone => account.status = "active" BY <3>11, <2>0 DEF AccountInv, LinkInv
      <4>5. account'.status = account.status /\ account'.ref # None
        BY <3>2, <3>4, L!AccountLinkAssumption DEF L!Account, L!AccountLinkAssumption
      <4> QED BY <3>5, <3>6, <4>1, <4>3, <4>4, <4>5 DEF Paired, LinkInv
    <3> QED BY <3>7, <3>8, <3>9, <3>10, <3>11, <2>0 DEF AccountInv
  <2> QED BY <2>1, <2>2
<1>8. CASE L!WriteRef
  <2>a. account' \in L!Account /\ account' # None
    BY <1>8, L!AccountLinkAssumption
    DEF AccountInv, L!WriteRef, LinkType, LinkRow, RunInv, Links, Runs, L!Account, L!Secret,
        L!AccountLinkAssumption
  <2>1. (account \in L!Account \cup {None} /\ secret \in L!Secret \cup {None} /\ refs \in Nat)'
    BY <1>8, <2>a, L!AccountLinkAssumption
    DEF AccountInv, L!WriteRef, LinkType, LinkRow, RunInv, Links, Runs, L!Account, L!Secret,
        L!AccountLinkAssumption
  <2>2. (state \in L!State \cup {None} /\ grants \in Nat /\ crossed \in BOOLEAN /\ cut \in BOOLEAN /\ gone \in BOOLEAN /\ linked \in Nat \cup {None})'
    BY <1>8, <2>a, L!AccountLinkAssumption
    DEF AccountInv, L!WriteRef, LinkType, LinkRow, RunInv, Links, Runs, L!State
  <2>3. (link \in Links)'
    BY <1>8, <2>a, L!AccountLinkAssumption
    DEF AccountInv, L!WriteRef, LinkType, LinkRow, RunInv, Links, LinkPcs, L!Account, L!Secret,
        L!Stored, L!AccountLinkAssumption
  <2>4. (run \in [Runner -> Runs])'
    BY <1>8, <2>a, L!AccountLinkAssumption
    DEF AccountInv, L!WriteRef, LinkType, LinkRow, RunInv, Runs, RunPcs, L!Account, L!Secret,
        L!Stored, L!AccountLinkAssumption
  <2>5. LinkRow'
    BY <1>8, <2>a, L!AccountLinkAssumption
    DEF AccountInv, L!WriteRef, LinkType, LinkRow, RunInv, Links, LinkPcs, L!Account,
        L!AccountLinkAssumption
  <2>6. Undisturbed'
    BY <1>8, <2>a, L!AccountLinkAssumption
    DEF AccountInv, L!WriteRef, LinkType, LinkRow, Undisturbed, L!NoRun, Links, LinkPcs, Paired,
        RunInv, Runs, L!Account, L!AccountLinkAssumption
  <2>7. \A q \in Runner : RunInv(q)'
    BY <1>8, <2>a, L!AccountLinkAssumption
    DEF AccountInv, L!WriteRef, LinkType, RunInv, Runs, RunPcs, L!Account, L!State,
        L!AccountLinkAssumption
  <2>8. (~crossed => Paired /\ LinkInv)'
    BY <1>8, <2>a, L!AccountLinkAssumption
    DEF AccountInv, L!WriteRef, LinkType, LinkRow, Undisturbed, RunInv, Paired, LinkInv, L!NoRun,
        L!Works, L!Stored, Links, Runs, LinkPcs, RunPcs, L!Account, L!Secret, L!State,
        L!AccountLinkAssumption
  <2> QED BY <2>1, <2>2, <2>3, <2>4, <2>5, <2>6, <2>7, <2>8 DEF AccountInv, LinkType
<1>9. CASE L!WriteState
  <2>a. state' \in L!State /\ state' # None
    <3>1. state' \in L!State BY <1>9 DEF L!WriteState, AccountInv, LinkType, L!State
    <3> QED BY <3>1, L!AccountLinkAssumption DEF L!AccountLinkAssumption
  <2>1. (account \in L!Account \cup {None} /\ secret \in L!Secret \cup {None} /\ refs \in Nat)'
    BY <1>9, <2>a, L!AccountLinkAssumption
    DEF AccountInv, L!WriteState, L!IdleLink, LinkType, LinkRow, RunInv, Links, Runs, L!Account,
        L!Secret, L!AccountLinkAssumption
  <2>2. (state \in L!State \cup {None} /\ grants \in Nat /\ crossed \in BOOLEAN /\ cut \in BOOLEAN /\ gone \in BOOLEAN /\ linked \in Nat \cup {None})'
    BY <1>9, <2>a, L!AccountLinkAssumption
    DEF AccountInv, L!WriteState, L!IdleLink, LinkType, LinkRow, RunInv, Links, Runs, L!State
  <2>3. (link \in Links)'
    BY <1>9, <2>a, L!AccountLinkAssumption
    DEF AccountInv, L!WriteState, L!IdleLink, LinkType, LinkRow, RunInv, Links, LinkPcs,
        L!Account, L!Secret, L!Stored, L!AccountLinkAssumption
  <2>4. (run \in [Runner -> Runs])'
    BY <1>9, <2>a, L!AccountLinkAssumption
    DEF AccountInv, L!WriteState, L!IdleLink, LinkType, LinkRow, RunInv, Runs, RunPcs, L!Account,
        L!Secret, L!Stored, L!AccountLinkAssumption
  <2>5. LinkRow'
    BY <1>9, <2>a, L!AccountLinkAssumption
    DEF AccountInv, L!WriteState, L!IdleLink, LinkType, LinkRow, RunInv, Links, LinkPcs,
        L!Account, L!AccountLinkAssumption
  <2>6. Undisturbed'
    BY <1>9, <2>a, L!AccountLinkAssumption
    DEF AccountInv, L!WriteState, L!IdleLink, LinkType, LinkRow, Undisturbed, L!NoRun, Links,
        LinkPcs, Paired, RunInv, Runs, L!Account, L!AccountLinkAssumption
  <2>7. \A q \in Runner : RunInv(q)'
    BY <1>9, <2>a, L!AccountLinkAssumption
    DEF AccountInv, L!WriteState, L!IdleLink, LinkType, RunInv, Runs, RunPcs, L!Account, L!State,
        L!AccountLinkAssumption
  <2>8. (~crossed => Paired /\ LinkInv)'
    BY <1>9, <2>a, L!AccountLinkAssumption
    DEF AccountInv, L!WriteState, L!IdleLink, LinkType, LinkRow, Undisturbed, RunInv, Paired,
        LinkInv, L!NoRun, L!Works, L!Stored, Links, Runs, LinkPcs, RunPcs, L!Account, L!Secret,
        L!State, L!AccountLinkAssumption
  <2> QED BY <2>1, <2>2, <2>3, <2>4, <2>5, <2>6, <2>7, <2>8 DEF AccountInv, LinkType
<1>10. CASE L!KillLink
  <2>1. (account \in L!Account \cup {None} /\ secret \in L!Secret \cup {None} /\ refs \in Nat)'
    BY <1>10, L!AccountLinkAssumption
    DEF AccountInv, L!KillLink, L!IdleLink, LinkType, LinkRow, RunInv, Links, Runs, L!Account,
        L!Secret, L!AccountLinkAssumption
  <2>2. (state \in L!State \cup {None} /\ grants \in Nat /\ crossed \in BOOLEAN /\ cut \in BOOLEAN /\ gone \in BOOLEAN /\ linked \in Nat \cup {None})'
    BY <1>10, L!AccountLinkAssumption
    DEF AccountInv, L!KillLink, L!IdleLink, LinkType, LinkRow, RunInv, Links, Runs, L!State
  <2>3. (link \in Links)'
    BY <1>10, L!AccountLinkAssumption
    DEF AccountInv, L!KillLink, L!IdleLink, LinkType, LinkRow, RunInv, Links, LinkPcs, L!Account,
        L!Secret, L!Stored, L!AccountLinkAssumption
  <2>4. (run \in [Runner -> Runs])'
    BY <1>10, L!AccountLinkAssumption
    DEF AccountInv, L!KillLink, L!IdleLink, LinkType, LinkRow, RunInv, Runs, RunPcs, L!Account,
        L!Secret, L!Stored, L!AccountLinkAssumption
  <2>5. LinkRow'
    BY <1>10, L!AccountLinkAssumption
    DEF AccountInv, L!KillLink, L!IdleLink, LinkType, LinkRow, RunInv, Links, LinkPcs, L!Account,
        L!AccountLinkAssumption
  <2>6. Undisturbed'
    BY <1>10, L!AccountLinkAssumption
    DEF AccountInv, L!KillLink, L!IdleLink, LinkType, LinkRow, Undisturbed, L!NoRun, Links,
        LinkPcs, Paired, RunInv, Runs, L!Account, L!AccountLinkAssumption
  <2>7. \A q \in Runner : RunInv(q)'
    BY <1>10, L!AccountLinkAssumption
    DEF AccountInv, L!KillLink, L!IdleLink, LinkType, RunInv, Runs, RunPcs, L!Account, L!State,
        L!AccountLinkAssumption
  <2>8. (~crossed => Paired /\ LinkInv)'
    BY <1>10, L!AccountLinkAssumption
    DEF AccountInv, L!KillLink, L!IdleLink, LinkType, LinkRow, Undisturbed, RunInv, Paired,
        LinkInv, L!NoRun, L!Works, L!Stored, Links, Runs, LinkPcs, RunPcs, L!Account, L!Secret,
        L!State, L!AccountLinkAssumption
  <2> QED BY <2>1, <2>2, <2>3, <2>4, <2>5, <2>6, <2>7, <2>8 DEF AccountInv, LinkType
<1>11. CASE L!Disconnect
  <2>a. account' \in L!Account /\ account' # None
    BY <1>11, L!AccountLinkAssumption
    DEF AccountInv, L!Disconnect, LinkType, LinkRow, RunInv, Links, Runs, L!Account, L!Secret,
        L!AccountLinkAssumption
  <2>1. (account \in L!Account \cup {None} /\ secret \in L!Secret \cup {None} /\ refs \in Nat)'
    BY <1>11, <2>a, L!AccountLinkAssumption
    DEF AccountInv, L!Disconnect, LinkType, LinkRow, RunInv, Links, Runs, L!Account, L!Secret,
        L!AccountLinkAssumption
  <2>2. (state \in L!State \cup {None} /\ grants \in Nat /\ crossed \in BOOLEAN /\ cut \in BOOLEAN /\ gone \in BOOLEAN /\ linked \in Nat \cup {None})'
    BY <1>11, <2>a, L!AccountLinkAssumption
    DEF AccountInv, L!Disconnect, LinkType, LinkRow, RunInv, Links, Runs, L!State
  <2>3. (link \in Links)'
    BY <1>11, <2>a, L!AccountLinkAssumption
    DEF AccountInv, L!Disconnect, LinkType, LinkRow, RunInv, Links, LinkPcs, L!Account, L!Secret,
        L!Stored, L!AccountLinkAssumption
  <2>4. (run \in [Runner -> Runs])'
    BY <1>11, <2>a, L!AccountLinkAssumption
    DEF AccountInv, L!Disconnect, LinkType, LinkRow, RunInv, Runs, RunPcs, L!Account, L!Secret,
        L!Stored, L!AccountLinkAssumption
  <2>5. LinkRow'
    BY <1>11, <2>a, L!AccountLinkAssumption
    DEF AccountInv, L!Disconnect, LinkType, LinkRow, RunInv, Links, LinkPcs, L!Account,
        L!AccountLinkAssumption
  <2>6. Undisturbed'
    BY <1>11, <2>a, L!AccountLinkAssumption
    DEF AccountInv, L!Disconnect, LinkType, LinkRow, Undisturbed, L!NoRun, Links, LinkPcs,
        Paired, RunInv, Runs, L!Account, L!AccountLinkAssumption
  <2>7. \A q \in Runner : RunInv(q)'
    BY <1>11, <2>a, L!AccountLinkAssumption
    DEF AccountInv, L!Disconnect, LinkType, RunInv, Runs, RunPcs, L!Account, L!State,
        L!AccountLinkAssumption
  <2>8. (~crossed => Paired /\ LinkInv)'
    BY <1>11, <2>a, L!AccountLinkAssumption
    DEF AccountInv, L!Disconnect, LinkType, LinkRow, Undisturbed, RunInv, Paired, LinkInv,
        L!NoRun, L!Works, L!Stored, Links, Runs, LinkPcs, RunPcs, L!Account, L!Secret, L!State,
        L!AccountLinkAssumption
  <2> QED BY <2>1, <2>2, <2>3, <2>4, <2>5, <2>6, <2>7, <2>8 DEF AccountInv, LinkType
<1>12. ASSUME NEW r \in Runner, L!StartRun(r) PROVE AccountInv'
  <2>1. (account \in L!Account \cup {None} /\ secret \in L!Secret \cup {None} /\ refs \in Nat)'
    BY <1>12, L!AccountLinkAssumption
    DEF AccountInv, L!StartRun, L!IdleRun, LinkType, LinkRow, RunInv, Links, Runs, L!Account,
        L!Secret, L!AccountLinkAssumption
  <2>2. (state \in L!State \cup {None} /\ grants \in Nat /\ crossed \in BOOLEAN /\ cut \in BOOLEAN /\ gone \in BOOLEAN /\ linked \in Nat \cup {None})'
    BY <1>12, L!AccountLinkAssumption
    DEF AccountInv, L!StartRun, L!IdleRun, LinkType, LinkRow, RunInv, Links, Runs, L!State
  <2>3. (link \in Links)'
    BY <1>12, L!AccountLinkAssumption
    DEF AccountInv, L!StartRun, L!IdleRun, LinkType, LinkRow, RunInv, Links, LinkPcs, L!Account,
        L!Secret, L!Stored, L!AccountLinkAssumption
  <2>4. (run \in [Runner -> Runs])'
    BY <1>12, L!AccountLinkAssumption
    DEF AccountInv, L!StartRun, L!IdleRun, LinkType, LinkRow, RunInv, Runs, RunPcs, L!Account,
        L!Secret, L!Stored, L!AccountLinkAssumption
  <2>5. LinkRow'
    BY <1>12, L!AccountLinkAssumption
    DEF AccountInv, L!StartRun, L!IdleRun, LinkType, LinkRow, RunInv, Links, LinkPcs, L!Account,
        L!AccountLinkAssumption
  <2>6. Undisturbed'
    BY <1>12, L!AccountLinkAssumption
    DEF AccountInv, L!StartRun, L!IdleRun, LinkType, LinkRow, Undisturbed, L!NoRun, Links,
        LinkPcs, Paired, RunInv, Runs, L!Account, L!AccountLinkAssumption
  <2>7. \A q \in Runner : RunInv(q)'
    BY <1>12, L!AccountLinkAssumption
    DEF AccountInv, L!StartRun, L!IdleRun, LinkType, RunInv, Runs, RunPcs, L!Account, L!State,
        L!AccountLinkAssumption
  <2>8. (~crossed => Paired /\ LinkInv)'
    BY <1>12, L!AccountLinkAssumption
    DEF AccountInv, L!StartRun, L!IdleRun, LinkType, LinkRow, Undisturbed, RunInv, Paired,
        LinkInv, L!NoRun, L!Works, L!Stored, Links, Runs, LinkPcs, RunPcs, L!Account, L!Secret,
        L!State, L!AccountLinkAssumption
  <2> QED BY <2>1, <2>2, <2>3, <2>4, <2>5, <2>6, <2>7, <2>8 DEF AccountInv, LinkType
<1>13. ASSUME NEW r \in Runner, L!ReadState(r) PROVE AccountInv'
  <2>a. state' \in L!State /\ state' # None
    <3>1. state' \in L!State BY <1>13 DEF L!ReadState, AccountInv, LinkType, L!State
    <3> QED BY <3>1, L!AccountLinkAssumption DEF L!AccountLinkAssumption
  <2>1. (account \in L!Account \cup {None} /\ secret \in L!Secret \cup {None} /\ refs \in Nat)'
    BY <1>13, <2>a, L!AccountLinkAssumption
    DEF AccountInv, L!ReadState, L!Goto, L!IdleRun, LinkType, LinkRow, RunInv, Links, Runs,
        L!Account, L!Secret, L!AccountLinkAssumption
  <2>2. (state \in L!State \cup {None} /\ grants \in Nat /\ crossed \in BOOLEAN /\ cut \in BOOLEAN /\ gone \in BOOLEAN /\ linked \in Nat \cup {None})'
    BY <1>13, <2>a, L!AccountLinkAssumption
    DEF AccountInv, L!ReadState, L!Goto, L!IdleRun, LinkType, LinkRow, RunInv, Links, Runs,
        L!State
  <2>3. (link \in Links)'
    BY <1>13, <2>a, L!AccountLinkAssumption
    DEF AccountInv, L!ReadState, L!Goto, L!IdleRun, LinkType, LinkRow, RunInv, Links, LinkPcs,
        L!Account, L!Secret, L!Stored, L!AccountLinkAssumption
  <2>4. (run \in [Runner -> Runs])'
    BY <1>13, <2>a, L!AccountLinkAssumption
    DEF AccountInv, L!ReadState, L!Goto, L!IdleRun, LinkType, LinkRow, RunInv, Runs, RunPcs,
        L!Account, L!Secret, L!Stored, L!AccountLinkAssumption
  <2>5. LinkRow'
    BY <1>13, <2>a, L!AccountLinkAssumption
    DEF AccountInv, L!ReadState, L!Goto, L!IdleRun, LinkType, LinkRow, RunInv, Links, LinkPcs,
        L!Account, L!AccountLinkAssumption
  <2>6. Undisturbed'
    BY <1>13, <2>a, L!AccountLinkAssumption
    DEF AccountInv, L!ReadState, L!Goto, L!IdleRun, LinkType, LinkRow, Undisturbed, L!NoRun,
        Links, LinkPcs, Paired, RunInv, Runs, L!Account, L!AccountLinkAssumption
  <2>7. \A q \in Runner : RunInv(q)'
    BY <1>13, <2>a, L!AccountLinkAssumption
    DEF AccountInv, L!ReadState, L!Goto, L!IdleRun, LinkType, RunInv, Runs, RunPcs, L!Account,
        L!State, L!AccountLinkAssumption
  <2>8. (~crossed => Paired /\ LinkInv)'
    BY <1>13, <2>a, L!AccountLinkAssumption
    DEF AccountInv, L!ReadState, L!Goto, L!IdleRun, LinkType, LinkRow, Undisturbed, RunInv,
        Paired, LinkInv, L!NoRun, L!Works, L!Stored, Links, Runs, LinkPcs, RunPcs, L!Account,
        L!Secret, L!State, L!AccountLinkAssumption
  <2> QED BY <2>1, <2>2, <2>3, <2>4, <2>5, <2>6, <2>7, <2>8 DEF AccountInv, LinkType
<1>14. ASSUME NEW r \in Runner, L!GetCredential(r) PROVE AccountInv'
  <2>1. (account \in L!Account \cup {None} /\ secret \in L!Secret \cup {None} /\ refs \in Nat)'
    BY <1>14, L!AccountLinkAssumption
    DEF AccountInv, L!GetCredential, LinkType, LinkRow, RunInv, Links, Runs, L!Account, L!Secret,
        L!AccountLinkAssumption
  <2>2. (state \in L!State \cup {None} /\ grants \in Nat /\ crossed \in BOOLEAN /\ cut \in BOOLEAN /\ gone \in BOOLEAN /\ linked \in Nat \cup {None})'
    BY <1>14, L!AccountLinkAssumption
    DEF AccountInv, L!GetCredential, LinkType, LinkRow, RunInv, Links, Runs, L!State
  <2>3. (link \in Links)'
    BY <1>14, L!AccountLinkAssumption
    DEF AccountInv, L!GetCredential, LinkType, LinkRow, RunInv, Links, LinkPcs, L!Account,
        L!Secret, L!Stored, L!AccountLinkAssumption
  <2>4. (run \in [Runner -> Runs])'
    BY <1>14, L!AccountLinkAssumption
    DEF AccountInv, L!GetCredential, LinkType, LinkRow, RunInv, Runs, RunPcs, L!Account,
        L!Secret, L!Stored, L!AccountLinkAssumption
  <2>5. LinkRow'
    BY <1>14, L!AccountLinkAssumption
    DEF AccountInv, L!GetCredential, LinkType, LinkRow, RunInv, Links, LinkPcs, L!Account,
        L!AccountLinkAssumption
  <2>6. Undisturbed'
    BY <1>14, L!AccountLinkAssumption
    DEF AccountInv, L!GetCredential, LinkType, LinkRow, Undisturbed, L!NoRun, Links, LinkPcs,
        Paired, RunInv, Runs, L!Account, L!AccountLinkAssumption
  <2>7. \A q \in Runner : RunInv(q)'
    BY <1>14, L!AccountLinkAssumption
    DEF AccountInv, L!GetCredential, LinkType, RunInv, Runs, RunPcs, L!Account, L!State,
        L!AccountLinkAssumption
  <2>8. (~crossed => Paired /\ LinkInv)'
    BY <1>14, L!AccountLinkAssumption
    DEF AccountInv, L!GetCredential, LinkType, LinkRow, Undisturbed, RunInv, Paired, LinkInv,
        L!NoRun, L!Works, L!Stored, Links, Runs, LinkPcs, RunPcs, L!Account, L!Secret, L!State,
        L!AccountLinkAssumption
  <2> QED BY <2>1, <2>2, <2>3, <2>4, <2>5, <2>6, <2>7, <2>8 DEF AccountInv, LinkType
<1>15. ASSUME NEW r \in Runner, L!Lookup(r) PROVE AccountInv'
  <2>1. (account \in L!Account \cup {None} /\ secret \in L!Secret \cup {None} /\ refs \in Nat)'
    BY <1>15, L!AccountLinkAssumption
    DEF AccountInv, L!Lookup, L!Goto, LinkType, LinkRow, RunInv, Links, Runs, L!Account,
        L!Secret, L!AccountLinkAssumption
  <2>2. (state \in L!State \cup {None} /\ grants \in Nat /\ crossed \in BOOLEAN /\ cut \in BOOLEAN /\ gone \in BOOLEAN /\ linked \in Nat \cup {None})'
    BY <1>15, L!AccountLinkAssumption
    DEF AccountInv, L!Lookup, L!Goto, LinkType, LinkRow, RunInv, Links, Runs, L!State
  <2>3. (link \in Links)'
    BY <1>15, L!AccountLinkAssumption
    DEF AccountInv, L!Lookup, L!Goto, LinkType, LinkRow, RunInv, Links, LinkPcs, L!Account,
        L!Secret, L!Stored, L!AccountLinkAssumption
  <2>4. (run \in [Runner -> Runs])'
    BY <1>15, L!AccountLinkAssumption
    DEF AccountInv, L!Lookup, L!Goto, LinkType, LinkRow, RunInv, Runs, RunPcs, L!Account,
        L!Secret, L!Stored, L!AccountLinkAssumption
  <2>5. LinkRow'
    BY <1>15, L!AccountLinkAssumption
    DEF AccountInv, L!Lookup, L!Goto, LinkType, LinkRow, RunInv, Links, LinkPcs, L!Account,
        L!AccountLinkAssumption
  <2>6. Undisturbed'
    BY <1>15, L!AccountLinkAssumption
    DEF AccountInv, L!Lookup, L!Goto, LinkType, LinkRow, Undisturbed, L!NoRun, Links, LinkPcs,
        Paired, RunInv, Runs, L!Account, L!AccountLinkAssumption
  <2>7. \A q \in Runner : RunInv(q)'
    BY <1>15, L!AccountLinkAssumption
    DEF AccountInv, L!Lookup, L!Goto, LinkType, RunInv, Runs, RunPcs, L!Account, L!State,
        L!AccountLinkAssumption
  <2>8. (~crossed => Paired /\ LinkInv)'
    BY <1>15, L!AccountLinkAssumption
    DEF AccountInv, L!Lookup, L!Goto, LinkType, LinkRow, Undisturbed, RunInv, Paired, LinkInv,
        L!NoRun, L!Works, L!Stored, Links, Runs, LinkPcs, RunPcs, L!Account, L!Secret, L!State,
        L!AccountLinkAssumption
  <2> QED BY <2>1, <2>2, <2>3, <2>4, <2>5, <2>6, <2>7, <2>8 DEF AccountInv, LinkType
<1>16. ASSUME NEW r \in Runner, L!PutRefreshed(r) PROVE AccountInv'
  <2>a. account' \in L!Account /\ account' # None
    BY <1>16, L!AccountLinkAssumption
    DEF AccountInv, L!PutRefreshed, L!MayPut, L!Put, L!Goto, LinkType, LinkRow, RunInv, Links,
        Runs, L!Account, L!Secret, L!AccountLinkAssumption
  <2>1. (account \in L!Account \cup {None} /\ secret \in L!Secret \cup {None} /\ refs \in Nat)'
    BY <1>16, <2>a, L!AccountLinkAssumption
    DEF AccountInv, L!PutRefreshed, L!MayPut, L!Put, L!Goto, LinkType, LinkRow, RunInv, Links,
        Runs, L!Account, L!Secret, L!AccountLinkAssumption
  <2>2. (state \in L!State \cup {None} /\ grants \in Nat /\ crossed \in BOOLEAN /\ cut \in BOOLEAN /\ gone \in BOOLEAN /\ linked \in Nat \cup {None})'
    BY <1>16, <2>a, L!AccountLinkAssumption
    DEF AccountInv, L!PutRefreshed, L!MayPut, L!Put, L!Goto, LinkType, LinkRow, RunInv, Links,
        Runs, L!State
  <2>3. (link \in Links)'
    BY <1>16, <2>a, L!AccountLinkAssumption
    DEF AccountInv, L!PutRefreshed, L!MayPut, L!Put, L!Goto, LinkType, LinkRow, RunInv, Links,
        LinkPcs, L!Account, L!Secret, L!Stored, L!AccountLinkAssumption
  <2>4. (run \in [Runner -> Runs])'
    BY <1>16, <2>a, L!AccountLinkAssumption
    DEF AccountInv, L!PutRefreshed, L!MayPut, L!Put, L!Goto, LinkType, LinkRow, RunInv, Runs,
        RunPcs, L!Account, L!Secret, L!Stored, L!AccountLinkAssumption
  <2>5. LinkRow'
    BY <1>16, <2>a, L!AccountLinkAssumption
    DEF AccountInv, L!PutRefreshed, L!MayPut, L!Put, L!Goto, LinkType, LinkRow, RunInv, Links,
        LinkPcs, L!Account, L!AccountLinkAssumption
  <2>6. Undisturbed'
    BY <1>16, <2>a, L!AccountLinkAssumption
    DEF AccountInv, L!PutRefreshed, L!MayPut, L!Put, L!Goto, LinkType, LinkRow, Undisturbed,
        L!NoRun, Links, LinkPcs, Paired, RunInv, Runs, L!Account, L!AccountLinkAssumption
  <2>7. \A q \in Runner : RunInv(q)'
    BY <1>16, <2>a, L!AccountLinkAssumption
    DEF AccountInv, L!PutRefreshed, L!MayPut, L!Put, L!Goto, LinkType, RunInv, Runs, RunPcs,
        L!Account, L!State, L!AccountLinkAssumption
  <2>8. (~crossed => Paired /\ LinkInv)'
    BY <1>16, <2>a, L!AccountLinkAssumption
    DEF AccountInv, L!PutRefreshed, L!MayPut, L!Put, L!Goto, LinkType, LinkRow, Undisturbed,
        RunInv, Paired, LinkInv, L!NoRun, L!Works, L!Stored, Links, Runs, LinkPcs, RunPcs,
        L!Account, L!Secret, L!State, L!AccountLinkAssumption
  <2> QED BY <2>1, <2>2, <2>3, <2>4, <2>5, <2>6, <2>7, <2>8 DEF AccountInv, LinkType
<1>17. ASSUME NEW r \in Runner, L!Unauthorized(r) PROVE AccountInv'
  <2>1. (account \in L!Account \cup {None} /\ secret \in L!Secret \cup {None} /\ refs \in Nat)'
    BY <1>17, L!AccountLinkAssumption
    DEF AccountInv, L!Unauthorized, LinkType, LinkRow, RunInv, Links, Runs, L!Account, L!Secret,
        L!AccountLinkAssumption
  <2>2. (state \in L!State \cup {None} /\ grants \in Nat /\ crossed \in BOOLEAN /\ cut \in BOOLEAN /\ gone \in BOOLEAN /\ linked \in Nat \cup {None})'
    BY <1>17, L!AccountLinkAssumption
    DEF AccountInv, L!Unauthorized, LinkType, LinkRow, RunInv, Links, Runs, L!State
  <2>3. (link \in Links)'
    BY <1>17, L!AccountLinkAssumption
    DEF AccountInv, L!Unauthorized, LinkType, LinkRow, RunInv, Links, LinkPcs, L!Account,
        L!Secret, L!Stored, L!AccountLinkAssumption
  <2>4. (run \in [Runner -> Runs])'
    <3>1. (IF gone THEN "gone" ELSE "repairable") \in {None, "repairable", "gone"}
      BY DEF AccountInv, LinkType
    <3>2. run[r] \in Runs BY DEF AccountInv, LinkType
    <3>3. [run[r] EXCEPT !.pc = "park", !.code = IF gone THEN "gone" ELSE "repairable"] \in Runs
      BY <3>1, <3>2 DEF Runs, RunPcs
    <3>4. run' = [run EXCEPT ![r] = [run[r] EXCEPT !.pc = "park", !.code = IF gone THEN "gone" ELSE "repairable"]]
      BY <1>17 DEF L!Unauthorized
    <3> QED BY <3>3, <3>4 DEF AccountInv, LinkType
  <2>5. LinkRow'
    BY <1>17, L!AccountLinkAssumption
    DEF AccountInv, L!Unauthorized, LinkType, LinkRow, RunInv, Links, LinkPcs, L!Account,
        L!AccountLinkAssumption
  <2>6. Undisturbed'
    BY <1>17, L!AccountLinkAssumption
    DEF AccountInv, L!Unauthorized, LinkType, LinkRow, Undisturbed, L!NoRun, Links, LinkPcs,
        Paired, RunInv, Runs, L!Account, L!AccountLinkAssumption
  <2>7. \A q \in Runner : RunInv(q)'
    BY <1>17, L!AccountLinkAssumption
    DEF AccountInv, L!Unauthorized, LinkType, RunInv, Runs, RunPcs, L!Account, L!State,
        L!AccountLinkAssumption
  <2>8. (~crossed => Paired /\ LinkInv)'
    BY <1>17, L!AccountLinkAssumption
    DEF AccountInv, L!Unauthorized, LinkType, LinkRow, Undisturbed, RunInv, Paired, LinkInv,
        L!NoRun, L!Works, L!Stored, Links, Runs, LinkPcs, RunPcs, L!Account, L!Secret, L!State,
        L!AccountLinkAssumption
  <2> QED BY <2>1, <2>2, <2>3, <2>4, <2>5, <2>6, <2>7, <2>8 DEF AccountInv, LinkType
<1>18. ASSUME NEW r \in Runner, L!Park(r) PROVE AccountInv'
  <2>a. account' \in L!Account /\ account' # None
    BY <1>18, L!AccountLinkAssumption
    DEF AccountInv, L!Park, L!Goto, LinkType, LinkRow, RunInv, Links, Runs, L!Account, L!Secret,
        L!AccountLinkAssumption
  <2>1. (account \in L!Account \cup {None} /\ secret \in L!Secret \cup {None} /\ refs \in Nat)'
    BY <1>18, <2>a, L!AccountLinkAssumption
    DEF AccountInv, L!Park, L!Goto, LinkType, LinkRow, RunInv, Links, Runs, L!Account, L!Secret,
        L!AccountLinkAssumption
  <2>2. (state \in L!State \cup {None} /\ grants \in Nat /\ crossed \in BOOLEAN /\ cut \in BOOLEAN /\ gone \in BOOLEAN /\ linked \in Nat \cup {None})'
    BY <1>18, <2>a, L!AccountLinkAssumption
    DEF AccountInv, L!Park, L!Goto, LinkType, LinkRow, RunInv, Links, Runs, L!State
  <2>3. (link \in Links)'
    BY <1>18, <2>a, L!AccountLinkAssumption
    DEF AccountInv, L!Park, L!Goto, LinkType, LinkRow, RunInv, Links, LinkPcs, L!Account,
        L!Secret, L!Stored, L!AccountLinkAssumption
  <2>4. (run \in [Runner -> Runs])'
    BY <1>18, <2>a, L!AccountLinkAssumption
    DEF AccountInv, L!Park, L!Goto, LinkType, LinkRow, RunInv, Runs, RunPcs, L!Account, L!Secret,
        L!Stored, L!AccountLinkAssumption
  <2>5. LinkRow'
    BY <1>18, <2>a, L!AccountLinkAssumption
    DEF AccountInv, L!Park, L!Goto, LinkType, LinkRow, RunInv, Links, LinkPcs, L!Account,
        L!AccountLinkAssumption
  <2>6. Undisturbed'
    BY <1>18, <2>a, L!AccountLinkAssumption
    DEF AccountInv, L!Park, L!Goto, LinkType, LinkRow, Undisturbed, L!NoRun, Links, LinkPcs,
        Paired, RunInv, Runs, L!Account, L!AccountLinkAssumption
  <2>7. \A q \in Runner : RunInv(q)'
    BY <1>18, <2>a, L!AccountLinkAssumption
    DEF AccountInv, L!Park, L!Goto, LinkType, RunInv, Runs, RunPcs, L!Account, L!State,
        L!AccountLinkAssumption
  <2>8. (~crossed => Paired /\ LinkInv)'
    BY <1>18, <2>a, L!AccountLinkAssumption
    DEF AccountInv, L!Park, L!Goto, LinkType, LinkRow, Undisturbed, RunInv, Paired, LinkInv,
        L!NoRun, L!Works, L!Stored, Links, Runs, LinkPcs, RunPcs, L!Account, L!Secret, L!State,
        L!AccountLinkAssumption
  <2> QED BY <2>1, <2>2, <2>3, <2>4, <2>5, <2>6, <2>7, <2>8 DEF AccountInv, LinkType
<1>19. ASSUME NEW r \in Runner, L!Succeed(r) PROVE AccountInv'
  <2>1. (account \in L!Account \cup {None} /\ secret \in L!Secret \cup {None} /\ refs \in Nat)'
    BY <1>19, L!AccountLinkAssumption
    DEF AccountInv, L!Succeed, L!Finish, L!IdleRun, LinkType, LinkRow, RunInv, Links, Runs,
        L!Account, L!Secret, L!AccountLinkAssumption
  <2>2. (state \in L!State \cup {None} /\ grants \in Nat /\ crossed \in BOOLEAN /\ cut \in BOOLEAN /\ gone \in BOOLEAN /\ linked \in Nat \cup {None})'
    BY <1>19, L!AccountLinkAssumption
    DEF AccountInv, L!Succeed, L!Finish, L!IdleRun, LinkType, LinkRow, RunInv, Links, Runs,
        L!State
  <2>3. (link \in Links)'
    BY <1>19, L!AccountLinkAssumption
    DEF AccountInv, L!Succeed, L!Finish, L!IdleRun, LinkType, LinkRow, RunInv, Links, LinkPcs,
        L!Account, L!Secret, L!Stored, L!AccountLinkAssumption
  <2>4. (run \in [Runner -> Runs])'
    BY <1>19, L!AccountLinkAssumption
    DEF AccountInv, L!Succeed, L!Finish, L!IdleRun, LinkType, LinkRow, RunInv, Runs, RunPcs,
        L!Account, L!Secret, L!Stored, L!AccountLinkAssumption
  <2>5. LinkRow'
    BY <1>19, L!AccountLinkAssumption
    DEF AccountInv, L!Succeed, L!Finish, L!IdleRun, LinkType, LinkRow, RunInv, Links, LinkPcs,
        L!Account, L!AccountLinkAssumption
  <2>6. Undisturbed'
    BY <1>19, L!AccountLinkAssumption
    DEF AccountInv, L!Succeed, L!Finish, L!IdleRun, LinkType, LinkRow, Undisturbed, L!NoRun,
        Links, LinkPcs, Paired, RunInv, Runs, L!Account, L!AccountLinkAssumption
  <2>7. \A q \in Runner : RunInv(q)'
    BY <1>19, L!AccountLinkAssumption
    DEF AccountInv, L!Succeed, L!Finish, L!IdleRun, LinkType, RunInv, Runs, RunPcs, L!Account,
        L!State, L!AccountLinkAssumption
  <2>8. (~crossed => Paired /\ LinkInv)'
    BY <1>19, L!AccountLinkAssumption
    DEF AccountInv, L!Succeed, L!Finish, L!IdleRun, LinkType, LinkRow, Undisturbed, RunInv,
        Paired, LinkInv, L!NoRun, L!Works, L!Stored, Links, Runs, LinkPcs, RunPcs, L!Account,
        L!Secret, L!State, L!AccountLinkAssumption
  <2> QED BY <2>1, <2>2, <2>3, <2>4, <2>5, <2>6, <2>7, <2>8 DEF AccountInv, LinkType
<1>20. ASSUME NEW r \in Runner, L!Fail(r) PROVE AccountInv'
  <2>1. (account \in L!Account \cup {None} /\ secret \in L!Secret \cup {None} /\ refs \in Nat)'
    BY <1>20, L!AccountLinkAssumption
    DEF AccountInv, L!Fail, L!Finish, L!IdleRun, LinkType, LinkRow, RunInv, Links, Runs,
        L!Account, L!Secret, L!AccountLinkAssumption
  <2>2. (state \in L!State \cup {None} /\ grants \in Nat /\ crossed \in BOOLEAN /\ cut \in BOOLEAN /\ gone \in BOOLEAN /\ linked \in Nat \cup {None})'
    BY <1>20, L!AccountLinkAssumption
    DEF AccountInv, L!Fail, L!Finish, L!IdleRun, LinkType, LinkRow, RunInv, Links, Runs, L!State
  <2>3. (link \in Links)'
    BY <1>20, L!AccountLinkAssumption
    DEF AccountInv, L!Fail, L!Finish, L!IdleRun, LinkType, LinkRow, RunInv, Links, LinkPcs,
        L!Account, L!Secret, L!Stored, L!AccountLinkAssumption
  <2>4. (run \in [Runner -> Runs])'
    BY <1>20, L!AccountLinkAssumption
    DEF AccountInv, L!Fail, L!Finish, L!IdleRun, LinkType, LinkRow, RunInv, Runs, RunPcs,
        L!Account, L!Secret, L!Stored, L!AccountLinkAssumption
  <2>5. LinkRow'
    BY <1>20, L!AccountLinkAssumption
    DEF AccountInv, L!Fail, L!Finish, L!IdleRun, LinkType, LinkRow, RunInv, Links, LinkPcs,
        L!Account, L!AccountLinkAssumption
  <2>6. Undisturbed'
    BY <1>20, L!AccountLinkAssumption
    DEF AccountInv, L!Fail, L!Finish, L!IdleRun, LinkType, LinkRow, Undisturbed, L!NoRun, Links,
        LinkPcs, Paired, RunInv, Runs, L!Account, L!AccountLinkAssumption
  <2>7. \A q \in Runner : RunInv(q)'
    BY <1>20, L!AccountLinkAssumption
    DEF AccountInv, L!Fail, L!Finish, L!IdleRun, LinkType, RunInv, Runs, RunPcs, L!Account,
        L!State, L!AccountLinkAssumption
  <2>8. (~crossed => Paired /\ LinkInv)'
    BY <1>20, L!AccountLinkAssumption
    DEF AccountInv, L!Fail, L!Finish, L!IdleRun, LinkType, LinkRow, Undisturbed, RunInv, Paired,
        LinkInv, L!NoRun, L!Works, L!Stored, Links, Runs, LinkPcs, RunPcs, L!Account, L!Secret,
        L!State, L!AccountLinkAssumption
  <2> QED BY <2>1, <2>2, <2>3, <2>4, <2>5, <2>6, <2>7, <2>8 DEF AccountInv, LinkType
<1>21. ASSUME NEW r \in Runner, L!KillRun(r) PROVE AccountInv'
  <2>1. (account \in L!Account \cup {None} /\ secret \in L!Secret \cup {None} /\ refs \in Nat)'
    BY <1>21, L!AccountLinkAssumption
    DEF AccountInv, L!KillRun, L!IdleRun, LinkType, LinkRow, RunInv, Links, Runs, L!Account,
        L!Secret, L!AccountLinkAssumption
  <2>2. (state \in L!State \cup {None} /\ grants \in Nat /\ crossed \in BOOLEAN /\ cut \in BOOLEAN /\ gone \in BOOLEAN /\ linked \in Nat \cup {None})'
    BY <1>21, L!AccountLinkAssumption
    DEF AccountInv, L!KillRun, L!IdleRun, LinkType, LinkRow, RunInv, Links, Runs, L!State
  <2>3. (link \in Links)'
    BY <1>21, L!AccountLinkAssumption
    DEF AccountInv, L!KillRun, L!IdleRun, LinkType, LinkRow, RunInv, Links, LinkPcs, L!Account,
        L!Secret, L!Stored, L!AccountLinkAssumption
  <2>4. (run \in [Runner -> Runs])'
    BY <1>21, L!AccountLinkAssumption
    DEF AccountInv, L!KillRun, L!IdleRun, LinkType, LinkRow, RunInv, Runs, RunPcs, L!Account,
        L!Secret, L!Stored, L!AccountLinkAssumption
  <2>5. LinkRow'
    BY <1>21, L!AccountLinkAssumption
    DEF AccountInv, L!KillRun, L!IdleRun, LinkType, LinkRow, RunInv, Links, LinkPcs, L!Account,
        L!AccountLinkAssumption
  <2>6. Undisturbed'
    BY <1>21, L!AccountLinkAssumption
    DEF AccountInv, L!KillRun, L!IdleRun, LinkType, LinkRow, Undisturbed, L!NoRun, Links,
        LinkPcs, Paired, RunInv, Runs, L!Account, L!AccountLinkAssumption
  <2>7. \A q \in Runner : RunInv(q)'
    BY <1>21, L!AccountLinkAssumption
    DEF AccountInv, L!KillRun, L!IdleRun, LinkType, RunInv, Runs, RunPcs, L!Account, L!State,
        L!AccountLinkAssumption
  <2>8. (~crossed => Paired /\ LinkInv)'
    BY <1>21, L!AccountLinkAssumption
    DEF AccountInv, L!KillRun, L!IdleRun, LinkType, LinkRow, Undisturbed, RunInv, Paired,
        LinkInv, L!NoRun, L!Works, L!Stored, Links, Runs, LinkPcs, RunPcs, L!Account, L!Secret,
        L!State, L!AccountLinkAssumption
  <2> QED BY <2>1, <2>2, <2>3, <2>4, <2>5, <2>6, <2>7, <2>8 DEF AccountInv, LinkType
<1>22. CASE UNCHANGED L!vars
  BY <1>22
  DEF AccountInv, L!vars, LinkType, LinkRow, Undisturbed, RunInv, Paired, LinkInv, L!NoRun,
      L!Works, L!Stored
<1> QED
  BY <1>1, <1>2, <1>3, <1>4, <1>5, <1>6, <1>7, <1>8, <1>9, <1>10, <1>11, <1>12, <1>13, <1>14,
     <1>15, <1>16, <1>17, <1>18, <1>19, <1>20, <1>21, <1>22
  DEF L!Next, L!LinkStep, L!RunStep

LEMMA AccountStart == ASSUME L!AccountLinkAssumption, L!Init PROVE AccountInv
<1>1. link = L!IdleLink /\ run = [r \in Runner |-> L!IdleRun] BY DEF L!Init
<1>2. LinkType
  <2>1. L!IdleLink \in Links /\ L!IdleRun \in Runs
    BY DEF L!IdleLink, L!IdleRun, Links, Runs, LinkPcs, RunPcs
  <2> QED BY <1>1, <2>1 DEF L!Init, LinkType
<1>3. LinkRow /\ Undisturbed /\ \A r \in Runner : RunInv(r)
  BY <1>1 DEF L!Init, LinkRow, Undisturbed, RunInv, L!IdleLink, L!IdleRun, L!NoRun
<1>4. Paired /\ LinkInv BY <1>1 DEF L!Init, Paired, LinkInv, L!IdleLink
<1> QED BY <1>2, <1>3, <1>4 DEF AccountInv

LEMMA AccountPromises == ASSUME AccountInv PROVE L!RelinkReactivates /\ L!DisconnectDropsSecret
BY
DEF AccountInv, LinkRow, Undisturbed, LinkInv, Paired, L!RelinkReactivates,
    L!DisconnectDropsSecret

LEMMA AccountSafe ==
  ASSUME L!AccountLinkAssumption PROVE L!Spec => []L!RelinkReactivates /\ []L!DisconnectDropsSecret
BY AccountStart, AccountStep, AccountPromises, PTL DEF L!Spec

-----------------------------------------------------------------------------
(* SyncSchedule *)
\* A page starts before the deadline and takes at most MaxPageTime.
BudgetInv ==
  /\ elapsed \in Nat /\ active \in BOOLEAN
  /\ active => elapsed < Budget + MaxPageTime
  /\ running # None => active /\ elapsed < Budget

\* runSync never takes a parked account for an active one.
ParkedInv ==
  /\ DOMAIN status = S!Account /\ DOMAIN latest = S!Account
  /\ \A a \in S!Account : status[a] = "needs_reauth" => latest[a] = "needs_reauth"

LEMMA BudgetStep ==
  ASSUME S!SyncScheduleAssumption, BudgetInv, [S!Next]_S!vars PROVE BudgetInv'
<1> USE S!SyncScheduleAssumption DEF S!SyncScheduleAssumption
<1>1. CASE S!Tick BY <1>1 DEF S!Tick, BudgetInv
<1>2. CASE S!NextUser BY <1>2 DEF S!NextUser, S!Idle, BudgetInv
<1>3. CASE S!NextPair
  <2>1. active' = active /\ elapsed' = elapsed BY <1>3 DEF S!NextPair
  <2>2. active BY <1>3 DEF S!NextPair, S!Idle
  <2>3. CASE running' = None BY <2>1, <2>2, <2>3 DEF BudgetInv
  <2>4. CASE running' # None
    <3>1. S!Left > 0 BY <1>3, <2>4 DEF S!NextPair, S!MayStart
    <3>2. elapsed < Budget BY <3>1 DEF S!Left, BudgetInv
    <3> QED BY <2>1, <2>2, <3>2 DEF BudgetInv
  <2> QED BY <2>3, <2>4
<1>4. CASE S!Page
  <2>1. PICK t \in 1..MaxPageTime : elapsed' = elapsed + t BY <1>4 DEF S!Page
  <2>2. active' = active /\ running # None BY <1>4 DEF S!Page
  <2>3. running' = IF todo[running] = 1 \/ S!Left' <= 0 THEN None ELSE running
    BY <1>4 DEF S!Page
  <2> QED BY <2>1, <2>2, <2>3 DEF BudgetInv, S!Left
<1>5. CASE S!Finish BY <1>5 DEF S!Finish, S!Idle, BudgetInv
<1>6. CASE S!Unauthorized BY <1>6 DEF S!Unauthorized, BudgetInv
<1>7. ASSUME NEW a \in S!Account, S!SetStatus(a) PROVE BudgetInv'
  BY <1>7 DEF S!SetStatus, BudgetInv
<1>8. CASE UNCHANGED S!vars BY <1>8 DEF S!vars, BudgetInv
<1> QED BY <1>1, <1>2, <1>3, <1>4, <1>5, <1>6, <1>7, <1>8 DEF S!Next, S!Step

LEMMA ParkedStep == ASSUME ParkedInv, [S!Next]_S!vars PROVE ParkedInv'
<1>1. CASE S!Tick BY <1>1 DEF S!Tick, ParkedInv
<1>2. CASE S!NextUser
  <2>1. CASE UNCHANGED latest BY <1>2, <2>1 DEF S!NextUser, ParkedInv
  <2>2. CASE latest' = [a \in S!Account |-> IF a \in S!ToSet(AccountsOf[Head(users)])
                                          THEN status[a] ELSE latest[a]]
    BY <1>2, <2>2 DEF S!NextUser, ParkedInv
  <2> QED BY <1>2, <2>1, <2>2 DEF S!NextUser
<1>3. CASE S!NextPair BY <1>3 DEF S!NextPair, ParkedInv
<1>4. CASE S!Page
  <2>1. status' = status BY <1>4 DEF S!Page
  <2>2. S!Reread(running[1]) \/ UNCHANGED latest BY <1>4 DEF S!Page
  <2> QED BY <2>1, <2>2 DEF S!Reread, ParkedInv
<1>5. CASE S!Finish BY <1>5 DEF S!Finish, ParkedInv
<1>6. CASE S!Unauthorized
  <2>1. /\ status' = [status EXCEPT ![running[1]] = "needs_reauth"]
        /\ latest' = [latest EXCEPT ![running[1]] = status'[running[1]]]
    BY <1>6 DEF S!Unauthorized, S!Reread
  <2> QED BY <2>1 DEF ParkedInv
<1>7. ASSUME NEW a \in S!Account, S!SetStatus(a) PROVE ParkedInv'
  BY <1>7 DEF S!SetStatus, ParkedInv
<1>8. CASE UNCHANGED S!vars BY <1>8 DEF S!vars, ParkedInv
<1> QED BY <1>1, <1>2, <1>3, <1>4, <1>5, <1>6, <1>7, <1>8 DEF S!Next, S!Step

LEMMA NoParkedPass ==
  ASSUME ParkedInv, [S!Next]_S!vars, NEW a \in S!Account,
         running = None, running' # None, running'[1] = a
  PROVE  status[a] # "needs_reauth"
<1>1. S!NextPair
  BY Zenon
  DEF S!Next, S!Step, S!Tick, S!NextUser, S!NextPair, S!Page, S!Finish, S!Unauthorized,
      S!SetStatus, S!vars
<1>2. S!MayStart(running') BY <1>1 DEF S!NextPair
<1>3. latest[a] = "active" BY <1>2 DEF S!MayStart
<1> QED BY <1>3 DEF ParkedInv

LEMMA ScheduleSafe ==
  ASSUME S!SyncScheduleAssumption PROVE S!Spec => []S!BudgetRespected /\ S!ReauthStopsAccount
<1>1. S!Init => BudgetInv /\ ParkedInv
  <2> SUFFICES ASSUME S!Init PROVE BudgetInv /\ ParkedInv OBVIOUS
  <2>1. BudgetInv BY DEF S!Init, BudgetInv
  <2>2. status = [a \in S!Account |-> "active"] /\ latest = status BY DEF S!Init
  <2>3. ParkedInv BY <2>2 DEF ParkedInv
  <2> QED BY <2>1, <2>3
<1>2. BudgetInv => S!BudgetRespected BY DEF BudgetInv, S!BudgetRespected
<1>3. ParkedInv /\ [S!Next]_S!vars =>
        [\A a \in S!Account :
           running = None /\ running' # None /\ running'[1] = a => status[a] # "needs_reauth"]_S!vars
  BY NoParkedPass
<1> QED BY <1>1, <1>2, <1>3, BudgetStep, ParkedStep, PTL DEF S!Spec, S!ReauthStopsAccount

-----------------------------------------------------------------------------
(* ApiClient *)

\* Refresh tokens are replaced in the order they were granted, and the client
\* holds one that nothing has replaced.
LatestInv ==
  /\ granted \in Nat /\ spent \subseteq Nat
  /\ credential \in [access : Nat, refresh : Nat]
  /\ credential.refresh <= granted
  /\ \A s \in spent : s < credential.refresh
  /\ ~presented

LEMMA InitLatest == C!Init => LatestInv
BY DEF C!Init, LatestInv

\* A caller starts a refresh only when none is under way.
LEMMA ReactLatest ==
  ASSUME LatestInv, NEW w, NEW fetch, C!React(w, fetch), UNCHANGED C!cloud
  PROVE  LatestInv'
<1>1. CASE C!Reaction(fetch.token) = "start"
  <2>1. ~C!InFlight
    BY <1>1 DEF C!Reaction
  <2>2. credential.refresh \notin spent
    BY DEF LatestInv
  <2>3. credential' = credential /\ presented' = (presented \/ C!InFlight \/ credential.refresh \in spent)
    BY <1>1 DEF C!React, C!StartRefresh
  <2> QED BY <2>1, <2>2, <2>3 DEF LatestInv, C!cloud
<1>2. CASE C!Reaction(fetch.token) # "start"
  BY <1>2 DEF C!React, LatestInv, C!client, C!cloud
<1> QED BY <1>1, <1>2

LEMMA NextLatest == LatestInv /\ [C!Next]_C!vars => LatestInv'
<1> SUFFICES ASSUME LatestInv, [C!Next]_C!vars PROVE LatestInv'
  OBVIOUS
<1>1. ASSUME NEW w \in Workers, C!Begin(w) PROVE LatestInv'
  <2> DEFINE fetch == [at |-> "before", token |-> credential.access, item |-> next, error |-> "none"]
  <2>1. CASE C!React(w, fetch)
    BY <1>1, <2>1, ReactLatest DEF C!Begin
  <2>2. CASE UNCHANGED <<C!client, presented>>
    BY <1>1, <2>2 DEF C!Begin, C!client, C!cloud, LatestInv
  <2> QED BY <1>1, <2>1, <2>2 DEF C!Begin
<1>2. ASSUME NEW w \in Workers, C!Refused(w) PROVE LatestInv'
  <2>1. CASE C!React(w, [worker[w] EXCEPT !.at = "after"])
    BY <1>2, <2>1, ReactLatest DEF C!Refused
  <2>2. CASE UNCHANGED <<C!client, presented>>
    BY <1>2, <2>2 DEF C!Refused, C!client, C!cloud, LatestInv
  <2> QED BY <1>2, <2>1, <2>2 DEF C!Refused
<1>3. ASSUME NEW w \in Workers, C!End(w) \/ C!Answered(w) \/ C!Unanswered(w) \/ C!Reject(w)
      PROVE  LatestInv'
  BY <1>3 DEF C!End, C!Answered, C!Unanswered, C!Reject, C!client, C!cloud, LatestInv
<1>4. CASE C!RefreshGranted
  <2>1. granted' = granted + 1 /\ ~presented'
    BY <1>4 DEF C!RefreshGranted, LatestInv
  <2>2. CASE credential' = [access |-> granted', refresh |-> granted'] /\ spent' = spent \cup {credential.refresh}
    <3>1. credential.refresh \in Nat /\ granted \in Nat
      BY DEF LatestInv
    <3>2. credential' \in [access : Nat, refresh : Nat] /\ credential'.refresh = granted + 1
      BY <2>1, <2>2, <3>1
    <3>3. spent' \subseteq Nat /\ \A s \in spent' : s < credential'.refresh
      <4>1. spent' = spent \cup {credential.refresh} /\ spent \subseteq Nat
            /\ credential.refresh <= granted /\ \A s \in spent : s < credential.refresh
        BY <2>2 DEF LatestInv
      <4>2. ASSUME NEW s \in spent' PROVE s \in Nat /\ s < credential'.refresh
        <5>1. s \in Nat /\ s <= credential.refresh
          BY <3>1, <4>1
        <5>2. credential.refresh < credential'.refresh /\ credential'.refresh \in Nat
          BY <3>1, <3>2, <4>1
        <5> QED BY <3>1, <5>1, <5>2
      <4> QED BY <4>2
    <3> QED BY <2>1, <3>1, <3>2, <3>3 DEF LatestInv
  <2>3. CASE credential' = [credential EXCEPT !.access = granted'] /\ UNCHANGED spent
    BY <2>1, <2>3 DEF LatestInv
  <2> QED BY <1>4, <2>2, <2>3 DEF C!RefreshGranted
<1>5. CASE C!RefreshRefused \/ C!Stored \/ C!NotStored
  <2>1. UNCHANGED <<credential, granted, spent>>
    BY <1>5 DEF C!RefreshRefused, C!Stored, C!NotStored, C!cloud
  <2>2. UNCHANGED presented
    BY <1>5 DEF C!RefreshRefused, C!Stored, C!NotStored
  <2> QED BY <2>1, <2>2 DEF LatestInv
<1>6. CASE C!Lapse \/ C!Die \/ C!Revoke
  <2>1. UNCHANGED <<C!client, granted, spent, presented>>
    <3>1. CASE C!Lapse BY <3>1 DEF C!Lapse
    <3>2. CASE C!Die BY <3>2 DEF C!Die
    <3>3. CASE C!Revoke BY <3>3 DEF C!Revoke
    <3> QED BY <1>6, <3>1, <3>2, <3>3
  <2>2. UNCHANGED <<credential, granted, spent, presented>>
    BY <2>1 DEF C!client
  <2> QED BY <2>2 DEF LatestInv
<1>7. CASE UNCHANGED C!vars
  BY <1>7 DEF C!vars, C!client, C!cloud, LatestInv
<1> QED BY <1>1, <1>2, <1>3, <1>4, <1>5, <1>6, <1>7 DEF C!Next

\* The single refresh of a run (#refresh) and rotation: however the workers' calls
\* overlap, lapse and are refused, one request at a time goes to the token
\* endpoint, and never with a refresh token that an earlier answer replaced.
LEMMA ClientLatest == C!Spec => []C!RefreshesWithTheLatest
<1>1. LatestInv => C!RefreshesWithTheLatest
  BY DEF LatestInv, C!RefreshesWithTheLatest
<1> QED BY <1>1, InitLatest, NextLatest, PTL DEF C!Spec

-----------------------------------------------------------------------------
\* Once a fetch of Google's was refused for good, the queue's failure is one that
\* a retry cannot mend.
ReportedInv == api = "google" /\ denied => failure # "none" /\ ~C!Retryable(failure)

LEMMA NextReported == ReportedInv /\ [C!Next]_C!vars => ReportedInv'
<1> SUFFICES ASSUME ReportedInv, [C!Next]_C!vars PROVE ReportedInv'
  OBVIOUS
<1>1. ASSUME NEW w \in Workers, C!Reject(w) PROVE ReportedInv'
  <2> DEFINE error == worker[w].error
  <2> SUFFICES ASSUME api' = "google", denied' PROVE failure' # "none" /\ ~C!Retryable(failure')
    BY DEF ReportedInv, C!Retryable
  <2>1. api = "google" /\ failure' = C!Reported(error) /\ (denied \/ error = "unauthorized")
    BY <1>1 DEF C!Reject
  <2>2. CASE denied
    BY <2>1, <2>2 DEF ReportedInv, C!Reported, C!Retryable
  <2>3. CASE error = "unauthorized"
    BY <2>1, <2>3 DEF C!Reported, C!Retryable
  <2> QED BY <2>1, <2>2, <2>3
<1>2. ASSUME NEW w \in Workers,
             C!Begin(w) \/ C!End(w) \/ C!Answered(w) \/ C!Refused(w) \/ C!Unanswered(w)
      PROVE  ReportedInv'
  BY <1>2 DEF C!Begin, C!End, C!Answered, C!Refused, C!Unanswered, C!batch, ReportedInv
<1>3. CASE C!RefreshGranted \/ C!RefreshRefused \/ C!Stored \/ C!NotStored
  BY <1>3 DEF C!RefreshGranted, C!RefreshRefused, C!Stored, C!NotStored, C!batch, ReportedInv
<1>4. CASE C!Lapse \/ C!Die \/ C!Revoke
  BY <1>4 DEF C!Lapse, C!Die, C!Revoke, C!batch, ReportedInv
<1>5. CASE UNCHANGED C!vars
  BY <1>5 DEF C!vars, C!batch, ReportedInv
<1> QED BY <1>1, <1>2, <1>3, <1>4, <1>5 DEF C!Next

\* mapConcurrent of the Google client: an error that no retry helps is reported
\* over one that may pass, whatever the order in which the workers fail.
LEMMA ClientRefusal == C!Spec => []C!RefusalIsReported
<1>1. C!Init => ReportedInv
  BY DEF C!Init, ReportedInv
<1>2. ReportedInv => C!RefusalIsReported
  BY DEF ReportedInv, C!RefusalIsReported
<1> QED BY <1>1, <1>2, NextReported, PTL DEF C!Spec

Errors == {"transient", "store", "unauthorized"}
Calls ==
  [at : {"rest", "before", "sent", "after", "again", "failed", "done"}, token : Nat, item : Nat,
   error : {"none"} \cup Errors]

ClientType ==
  /\ api \in {"google", "microsoft"} /\ credential \in [access : Nat, refresh : Nat]
  /\ refresh \in {"none", "asking", "putting", "settled"} \cup Errors
  /\ attempts \in Nat /\ refreshed \in Nat /\ worker \in [Workers -> Calls] /\ next \in Nat
  /\ failure \in {"none"} \cup Errors /\ granted \in Nat /\ revoked \in BOOLEAN
  /\ lapsed \subseteq 0..granted /\ dead \subseteq lapsed \cup {0}

\* What OnlyRevokedParks allows for.
Worn == revoked \/ Cardinality(lapsed \cup dead) > MAX_REFRESHES_PER_RUN

\* A refresh that was tried and granted nothing.
Lost == attempts # granted + (IF refresh = "asking" THEN 1 ELSE 0)

\* The client holds the newest token, and each older one wore out before it was
\* replaced.
Tokens ==
  /\ credential.access = granted
  /\ refreshed = IF granted = 0 THEN C!NoToken ELSE granted
  /\ \A t \in 0..granted : t < granted \/ refresh = "asking" => t \in lapsed \cup dead
  /\ refresh = "putting" => granted \notin lapsed \cup {0}

\* The calls: who waits, waits for a refresh under way, with a token it replaces;
\* who tries again does so with a token that has not worn out.
CallInv(c) ==
  /\ c.at \in {"before", "sent", "after", "again"} => c.token <= granted
  /\ c.at \in {"before", "sent", "after"} /\ granted \in lapsed => c.token = granted
  /\ c.at \in {"before", "after"} => C!InFlight
  /\ c.at = "after" /\ refresh = "putting" => c.token # granted
  /\ c.at = "again" => c.token \notin lapsed \cup {0}
  /\ c.at = "failed" => c.error # "none"
  /\ c.at = "failed" /\ c.error = "unauthorized" => failure # "none" /\ api = "microsoft"

CallsInv ==
  /\ \A w \in Workers : CallInv(worker[w])
  /\ C!InFlight => \E w \in Workers : C!Waiting(worker[w])

GoogleInv ==
  api = "google" =>
    /\ attempts = (IF refresh = "none" THEN 0 ELSE 1)
    /\ granted = (IF refresh \in {"putting", "settled", "store"} THEN 1 ELSE 0)
    /\ lapsed \subseteq {0}

\* Microsoft's workers fail with what ended a refresh before any of them goes on,
\* so that is the error reported.
MicrosoftInv ==
  api = "microsoft" =>
    /\ refresh \in {"none", "asking", "putting"}
    /\ Lost /\ failure = "none" =>
         /\ \E w \in Workers : worker[w].at = "failed"
         /\ \A w \in Workers : /\ worker[w].at # "rest"
                               /\ worker[w].at = "failed" => worker[w].error = "transient"

Sound ==
  /\ failure # "unauthorized" /\ refresh # "unauthorized"
  /\ Tokens /\ CallsInv /\ GoogleInv /\ MicrosoftInv

ParkInv == ClientType /\ (Worn \/ Sound)

LEMMA WornOut ==
  ASSUME NEW g \in Nat, NEW worn, worn \subseteq 0..g
  PROVE  /\ IsFiniteSet(worn) /\ Cardinality(worn) \in Nat
         /\ worn = 0..g => Cardinality(worn) = g + 1
<1>1. 0 \in Int /\ g \in Int /\ 0 <= g
  OBVIOUS
<1>2. IsFiniteSet(0..g) /\ Cardinality(0..g) = g - 0 + 1
  BY <1>1, FS_Interval
<1>3. IsFiniteSet(worn)
  BY <1>2, FS_Subset
<1>4. Cardinality(worn) \in Nat
  BY <1>3, FS_CardinalityType
<1> QED BY <1>1, <1>2, <1>3, <1>4

\* What is worn out stays worn out.
LEMMA WornStays ==
  ASSUME ClientType, ClientType', Worn, lapsed \subseteq lapsed', dead \subseteq dead',
         revoked => revoked'
  PROVE  Worn'
<1>0. /\ granted \in Nat /\ lapsed \cup dead \subseteq 0..granted
      /\ granted' \in Nat /\ lapsed' \cup dead' \subseteq 0..granted'
  BY DEF ClientType
<1>1. IsFiniteSet(lapsed' \cup dead') /\ Cardinality(lapsed' \cup dead') \in Nat
  BY <1>0, WornOut
<1>2. lapsed \cup dead \subseteq lapsed' \cup dead'
  OBVIOUS
<1>3. Cardinality(lapsed \cup dead) <= Cardinality(lapsed' \cup dead')
  BY <1>1, <1>2, FS_Subset
<1>4. Cardinality(lapsed \cup dead) \in Nat /\ MAX_REFRESHES_PER_RUN \in Nat
  BY <1>0, WornOut, ClientConstants
<1> QED BY <1>1, <1>3, <1>4 DEF Worn

LEMMA ParkInit == C!Init => ParkInv
<1> SUFFICES ASSUME C!Init PROVE ParkInv
  OBVIOUS
<1>1. C!Resting \in Calls /\ C!Resting.at = "rest"
  BY ClientConstants DEF C!Resting, Calls
<1>2. ClientType
  BY <1>1, ClientConstants DEF C!Init, ClientType
<1>3. Sound
  BY <1>1 DEF C!Init, Sound, Tokens, CallsInv, CallInv, GoogleInv, MicrosoftInv, Lost, C!InFlight
<1> QED BY <1>2, <1>3 DEF ParkInv

\* What a caller may be told to do while nothing has worn out.
LEMMA SoundReaction ==
  ASSUME ClientType, Sound, ~Worn, NEW fetch \in Calls, fetch.token <= granted,
         \/ /\ fetch.at = "before" /\ fetch.token = granted /\ granted \in lapsed
            /\ api = "google" => attempts = 0
            /\ \E w \in Workers : worker[w].at = "rest"
         \/ /\ fetch.at = "after" /\ fetch.token \in dead /\ C!Awaiting
            /\ granted \in lapsed => fetch.token = granted
  PROVE  \/ C!Reaction(fetch.token) = "wait" /\ C!InFlight
         \/ /\ C!Reaction(fetch.token) = "start" /\ ~C!InFlight /\ granted \in lapsed \cup dead
            /\ api = "google" => attempts = 0
         \/ /\ C!Reaction(fetch.token) = "go" /\ ~C!InFlight /\ fetch.at = "after"
            /\ fetch.token # granted /\ granted \notin lapsed
         \/ C!Reaction(fetch.token) \in {"transient", "store"} /\ ~C!InFlight /\ api = "google"
         \/ /\ C!Reaction(fetch.token) = "unauthorized" /\ ~C!InFlight /\ api = "microsoft"
            /\ failure # "none"
<1> DEFINE token == fetch.token
<1>0. /\ token \in Nat /\ granted \in Nat /\ attempts \in Nat /\ credential.access = granted
      /\ dead \subseteq lapsed \cup {0} /\ lapsed \subseteq 0..granted
      /\ refreshed = IF granted = 0 THEN C!NoToken ELSE granted
      /\ MAX_REFRESHES_PER_RUN \in Nat \ {0} /\ C!NoToken = MAX_REFRESHES_PER_RUN + 1
  BY ClientConstants DEF ClientType, Calls, Sound, Tokens, C!NoToken
<1>1. CASE C!InFlight
  BY <1>1 DEF C!Reaction
<1>2. CASE ~C!InFlight /\ api = "google"
  <2>1. C!Reaction(token) = C!GoogleDecides
    BY <1>2 DEF C!Reaction, C!Decide
  <2>2. /\ attempts = (IF refresh = "none" THEN 0 ELSE 1) /\ lapsed \subseteq {0}
        /\ granted = (IF refresh \in {"putting", "settled", "store"} THEN 1 ELSE 0)
        /\ refresh \in {"none", "settled", "transient", "store"}
    BY <1>2 DEF Sound, GoogleInv, C!InFlight, ClientType, Errors
  <2>3. CASE attempts = 0
    <3>1. granted = 0 /\ token = 0
      BY <1>0, <2>2, <2>3
    <3> QED BY <1>2, <2>1, <2>3, <3>1 DEF C!GoogleDecides
  <2>4. CASE attempts # 0 /\ refresh = "settled"
    <3>1. fetch.at = "after" /\ token = 0 /\ granted = 1 /\ granted \notin lapsed
      BY <1>0, <1>2, <2>2, <2>4
    <3> QED BY <1>2, <2>1, <2>4, <3>1 DEF C!GoogleDecides
  <2>5. CASE attempts # 0 /\ refresh # "settled"
    BY <1>2, <2>1, <2>2, <2>5 DEF C!GoogleDecides
  <2> QED BY <2>3, <2>4, <2>5
<1>3. CASE ~C!InFlight /\ api = "microsoft"
  <2>1. C!Reaction(token) = C!MicrosoftDecides(token)
    BY <1>3 DEF C!Reaction, C!Decide
  <2>2. CASE token # granted
    <3>1. fetch.at = "after" /\ granted \notin lapsed /\ C!Reaction(token) = "go"
      BY <1>0, <2>1, <2>2 DEF C!MicrosoftDecides
    <3> QED BY <1>3, <2>2, <3>1
  <2>3. CASE token = granted
    <3>1. granted \in lapsed \cup dead
      BY <2>3
    <3>2. ~(token = refreshed /\ ~C!IsExpired)
      <4>1. CASE granted = 0
        BY <1>0, <2>3, <4>1
      <4>2. CASE granted # 0
        BY <1>0, <3>1, <4>2 DEF C!IsExpired
      <4> QED BY <4>1, <4>2
    <3>3. CASE attempts < MAX_REFRESHES_PER_RUN
      BY <1>0, <1>3, <2>1, <2>3, <3>1, <3>2, <3>3 DEF C!MicrosoftDecides
    <3>4. CASE attempts >= MAX_REFRESHES_PER_RUN
      <4>1. C!Reaction(token) = "unauthorized"
        BY <1>0, <2>1, <2>3, <3>2, <3>4 DEF C!MicrosoftDecides
      <4>2. Lost
        <5> SUFFICES ASSUME ~Lost PROVE FALSE
          OBVIOUS
        <5>1. granted = attempts
          BY <1>0, <1>3 DEF Lost, C!InFlight
        <5>2. lapsed \cup dead = 0..granted
          <6>1. \A t \in 0..granted : t < granted => t \in lapsed \cup dead
            BY DEF Sound, Tokens
          <6>2. \A t \in 0..granted : t < granted \/ t = granted
            BY <1>0
          <6>3. lapsed \cup dead \subseteq 0..granted
            BY <1>0
          <6> QED BY <3>1, <6>1, <6>2, <6>3
        <5>3. Cardinality(lapsed \cup dead) = granted + 1
          BY <1>0, <5>2, WornOut
        <5> QED BY <1>0, <3>4, <5>1, <5>3 DEF Worn
      <4>3. failure # "none"
        <5>1. failure = "none" => /\ \E w \in Workers : worker[w].at = "failed"
                                  /\ \A w \in Workers : worker[w].at # "rest"
          BY <1>3, <4>2 DEF Sound, MicrosoftInv
        <5> QED BY <5>1 DEF C!Awaiting
      <4> QED BY <1>3, <4>1, <4>3
    <3> QED BY <1>0, <3>3, <3>4
  <2> QED BY <2>2, <2>3
<1> QED BY <1>1, <1>2, <1>3 DEF ClientType

LEMMA ReactTypes ==
  ASSUME ClientType, NEW w \in Workers, NEW fetch \in Calls, C!React(w, fetch)
  PROVE  /\ credential' = credential /\ refreshed' = refreshed
         /\ worker' \in [Workers -> Calls] /\ attempts' \in Nat
         /\ refresh' \in {refresh, "asking"}
<1>1. credential.access \in Nat /\ refresh \in {"none", "asking", "putting", "settled"} \cup Errors
  BY DEF ClientType
<1>2. C!Resumed(fetch) \in Calls /\ \A error \in {"none"} \cup Errors : C!Failed(fetch, error) \in Calls
  BY <1>1 DEF C!Resumed, C!Failed, Calls, Errors
<1>3. C!Reaction(fetch.token) \in {"wait", "start", "go", "none"} \cup Errors
  BY <1>1 DEF C!Reaction, C!Decide, C!GoogleDecides, C!MicrosoftDecides, C!InFlight, Errors
<1>4. worker' \in [Workers -> Calls]
  BY <1>2, <1>3 DEF C!React, ClientType
<1>5. attempts \in Nat
  BY DEF ClientType
<1> QED BY <1>4, <1>5 DEF C!React, C!StartRefresh, C!client

LEMMA ReactSound ==
  ASSUME ClientType, Sound, ~Worn, NEW w \in Workers, NEW fetch \in Calls, C!React(w, fetch),
         fetch.token <= granted, UNCHANGED <<api, failure, C!cloud>>,
         \/ /\ fetch.at = "before" /\ fetch.token = granted /\ granted \in lapsed
            /\ api = "google" => attempts = 0
            /\ worker[w].at = "rest"
         \/ /\ fetch.at = "after" /\ fetch.token \in dead /\ C!Awaiting
            /\ granted \in lapsed => fetch.token = granted
            /\ worker[w].at = "sent"
  PROVE  Sound'
<1> DEFINE reaction == C!Reaction(fetch.token)
<1>0. /\ granted \in Nat /\ credential.access = granted /\ fetch.token \in Nat
      /\ worker \in [Workers -> Calls] /\ lapsed \subseteq 0..granted
      /\ dead \subseteq lapsed \cup {0}
  BY DEF ClientType, Calls, Sound, Tokens
<1>1. UNCHANGED <<api, failure, granted, lapsed, dead, revoked, credential, refreshed>>
  BY ReactTypes DEF C!cloud
<1>2. \/ reaction = "wait" /\ C!InFlight
      \/ /\ reaction = "start" /\ ~C!InFlight /\ granted \in lapsed \cup dead
         /\ api = "google" => attempts = 0
      \/ /\ reaction = "go" /\ ~C!InFlight /\ fetch.at = "after"
         /\ fetch.token # granted /\ granted \notin lapsed
      \/ reaction \in {"transient", "store"} /\ ~C!InFlight /\ api = "google"
      \/ reaction = "unauthorized" /\ ~C!InFlight /\ api = "microsoft" /\ failure # "none"
  BY SoundReaction
<1> HIDE DEF reaction
\* Nobody rests or has failed where a worker reacts, unless a failure is reported.
<1>3. api = "microsoft" /\ Lost => failure # "none"
  <2>1. api = "microsoft" /\ Lost /\ failure = "none" =>
          (\E v \in Workers : worker[v].at = "failed") /\ \A v \in Workers : worker[v].at # "rest"
    BY DEF Sound, MicrosoftInv
  <2> QED BY <2>1 DEF C!Awaiting
<1>4. worker' = [worker EXCEPT ![w] = worker'[w]]
  BY <1>0 DEF C!React
<1>5. CASE reaction = "wait"
  <2>1. worker'[w] = fetch /\ UNCHANGED C!client /\ C!InFlight
    BY <1>0, <1>2, <1>5 DEF C!React, reaction
  <2>2. UNCHANGED <<refresh, attempts>>
    BY <2>1 DEF C!client
  <2>3. Tokens'
    BY <1>1, <2>2 DEF Sound, Tokens
  <2>4. CallInv(worker[w])'
    BY <1>0, <1>1, <2>1, <2>2 DEF CallInv, C!InFlight, Sound, Tokens
  <2>5. \A v \in Workers : CallInv(worker[v])'
    <3>1. ASSUME NEW v \in Workers \ {w} PROVE CallInv(worker[v])'
      <4>1. worker'[v] = worker[v]
        BY <1>0, <1>4
      <4> QED BY <1>1, <2>2, <4>1 DEF CallInv, C!InFlight, Sound, CallsInv
    <3> QED BY <2>4, <3>1
  <2>6. CallsInv'
    BY <1>0, <1>4, <2>1, <2>5 DEF CallsInv, C!Waiting
  <2>7. GoogleInv' /\ MicrosoftInv'
    BY <1>1, <1>3, <2>2 DEF Sound, GoogleInv, MicrosoftInv, Lost
  <2> QED BY <1>1, <2>2, <2>3, <2>6, <2>7 DEF Sound
<1>6. CASE reaction = "start"
  <2>1. worker'[w] = fetch /\ refresh' = "asking" /\ attempts' = attempts + 1
    BY <1>0, <1>2, <1>6 DEF C!React, reaction, C!StartRefresh
  <2>2. Tokens'
    <3>1. \A t \in 0..granted : t < granted \/ t = granted
      BY <1>0
    <3> QED BY <1>1, <1>2, <1>6, <2>1, <3>1 DEF Sound, Tokens
  <2>3. CallInv(worker[w])'
    BY <1>0, <1>1, <2>1 DEF CallInv, C!InFlight
  <2>4. \A v \in Workers : CallInv(worker[v])'
    <3>1. ASSUME NEW v \in Workers \ {w} PROVE CallInv(worker[v])'
      <4>1. worker'[v] = worker[v]
        BY <1>0, <1>4
      <4> QED BY <1>1, <2>1, <4>1 DEF CallInv, C!InFlight, Sound, CallsInv
    <3> QED BY <2>3, <3>1
  <2>5. CallsInv'
    BY <1>0, <1>4, <2>1, <2>4 DEF CallsInv, C!Waiting
  <2>6. refresh \notin {"asking", "putting"}
    BY <1>2, <1>6 DEF C!InFlight
  <2>7. GoogleInv'
    BY <1>1, <1>2, <1>6, <2>1, <2>6 DEF Sound, GoogleInv
  <2>8. MicrosoftInv'
    <3>1. attempts \in Nat
      BY DEF ClientType
    <3> QED BY <1>0, <1>1, <1>3, <2>1, <2>6, <3>1 DEF Sound, MicrosoftInv, Lost
  <2> QED BY <1>1, <2>1, <2>2, <2>5, <2>7, <2>8 DEF Sound
<1>7. CASE reaction \notin {"wait", "start"}
  <2>1. UNCHANGED C!client /\ ~C!InFlight
    BY <1>2, <1>7 DEF C!React, reaction
  <2>2. UNCHANGED <<refresh, attempts>>
    BY <2>1 DEF C!client
  <2>3. Tokens'
    BY <1>1, <2>2 DEF Sound, Tokens
  <2>4. CallInv(worker[w])'
    <3>1. CASE reaction = "go"
      <4>1. worker'[w] = C!Resumed(fetch) /\ fetch.at = "after" /\ fetch.token # granted
            /\ granted \notin lapsed
        BY <1>0, <1>2, <1>7, <3>1 DEF C!React, reaction
      <4>2. C!Resumed(fetch) = [fetch EXCEPT !.at = "again", !.token = granted]
        BY <1>0, <4>1 DEF C!Resumed
      <4>3. worker'[w].at = "again" /\ worker'[w].token = granted
        BY <4>1, <4>2 DEF Calls
      <4>4. granted # 0
        BY <1>0, <4>1
      <4> QED BY <1>0, <1>1, <4>1, <4>3, <4>4 DEF CallInv
    <3>2. CASE reaction # "go"
      <4>1. worker'[w] = C!Failed(fetch, reaction)
        BY <1>0, <1>7, <3>2 DEF C!React, reaction
      <4>2. worker'[w].at = "failed" /\ worker'[w].error = reaction
        BY <4>1 DEF C!Failed, Calls
      <4> QED BY <1>1, <1>2, <1>7, <3>2, <4>2 DEF CallInv
    <3> QED BY <3>1, <3>2
  <2>5. \A v \in Workers : CallInv(worker[v])'
    <3>1. ASSUME NEW v \in Workers \ {w} PROVE CallInv(worker[v])'
      <4>1. worker'[v] = worker[v]
        BY <1>0, <1>4
      <4> QED BY <1>1, <2>2, <4>1 DEF CallInv, C!InFlight, Sound, CallsInv
    <3> QED BY <2>4, <3>1
  <2>6. CallsInv'
    BY <2>1, <2>2, <2>5 DEF CallsInv, C!InFlight
  <2>7. GoogleInv' /\ MicrosoftInv'
    BY <1>1, <1>3, <2>2 DEF Sound, GoogleInv, MicrosoftInv, Lost
  <2> QED BY <1>1, <2>2, <2>3, <2>6, <2>7 DEF Sound
<1> QED BY <1>5, <1>6, <1>7

LEMMA ParkTypes == ClientType /\ [C!Next]_C!vars => ClientType'
<1> SUFFICES ASSUME ClientType, [C!Next]_C!vars PROVE ClientType'
  OBVIOUS
<1>0. C!Resting \in Calls
  BY ClientConstants DEF C!Resting, Calls
<1>1. /\ credential \in [access : Nat, refresh : Nat] /\ worker \in [Workers -> Calls]
      /\ \A c \in Calls : C!Resumed(c) \in Calls /\ \A e \in Errors : C!Failed(c, e) \in Calls
  BY DEF ClientType, Calls, C!Resumed, C!Failed, Errors
<1>2. ASSUME NEW w \in Workers, C!Begin(w) PROVE ClientType'
  <2> DEFINE fetch == [at |-> "before", token |-> credential.access, item |-> next, error |-> "none"]
  <2>1. fetch \in Calls /\ UNCHANGED <<api, failure, C!cloud>> /\ next' \in Nat
    BY <1>1, <1>2 DEF C!Begin, ClientType, Calls
  <2> HIDE DEF fetch
  <2>2. CASE C!React(w, fetch)
    BY <2>1, <2>2, ReactTypes DEF ClientType, C!cloud
  <2>3. CASE worker' = [worker EXCEPT ![w] = C!Resumed(fetch)] /\ UNCHANGED C!client
    BY <1>1, <2>1, <2>3 DEF ClientType, C!cloud, C!client
  <2> QED BY <1>2, <2>2, <2>3 DEF C!Begin, fetch
<1>3. ASSUME NEW w \in Workers, C!End(w) \/ C!Answered(w) \/ C!Unanswered(w) PROVE ClientType'
  <2>1. UNCHANGED <<api, C!client, C!batch, C!cloud>>
    BY <1>3 DEF C!End, C!Answered, C!Unanswered
  <2>2. worker' \in [Workers -> Calls]
    <3>1. [worker[w] EXCEPT !.at = "done"] \in Calls /\ C!Failed(worker[w], "transient") \in Calls
      BY <1>1 DEF Calls, C!Failed, Errors
    <3> QED BY <1>0, <1>1, <1>3, <3>1 DEF C!End, C!Answered, C!Unanswered
  <2> QED BY <2>1, <2>2 DEF ClientType, C!client, C!batch, C!cloud
<1>4. ASSUME NEW w \in Workers, C!Refused(w) PROVE ClientType'
  <2> DEFINE fetch == [worker[w] EXCEPT !.at = "after"]
  <2>1. fetch \in Calls /\ C!Failed(worker[w], "unauthorized") \in Calls /\ UNCHANGED <<api, C!batch, C!cloud>>
    BY <1>1, <1>4 DEF C!Refused, Calls, Errors
  <2> HIDE DEF fetch
  <2>2. CASE C!React(w, fetch)
    BY <2>1, <2>2, ReactTypes DEF ClientType, C!cloud, C!batch
  <2>3. CASE worker' = [worker EXCEPT ![w] = C!Failed(@, "unauthorized")] /\ UNCHANGED C!client
    BY <1>1, <2>1, <2>3 DEF ClientType, C!cloud, C!client, C!batch
  <2> QED BY <1>4, <2>2, <2>3 DEF C!Refused, fetch
<1>5. ASSUME NEW w \in Workers, C!Reject(w) PROVE ClientType'
  <2>1. UNCHANGED <<api, C!client, next, C!cloud>>
    BY <1>5 DEF C!Reject
  <2>2. worker' \in [Workers -> Calls] /\ failure' \in {"none"} \cup Errors
    <3>1. [C!Resting EXCEPT !.at = "done"] \in Calls /\ worker[w].error \in {"none"} \cup Errors
      BY <1>0, <1>1 DEF Calls
    <3> QED BY <1>0, <1>1, <1>5, <3>1 DEF C!Reject, C!Reported, ClientType
  <2> QED BY <2>1, <2>2 DEF ClientType, C!client, C!cloud
<1>6. CASE C!RefreshGranted
  <2>1. credential' \in [access : Nat, refresh : Nat] /\ granted' = granted + 1 /\ granted' \in Nat
    BY <1>1, <1>6 DEF C!RefreshGranted, ClientType
  <2>2. lapsed' \subseteq 0..granted' /\ dead' \subseteq lapsed' \cup {0}
    BY <1>6, <2>1 DEF C!RefreshGranted, ClientType
  <2> QED BY <1>6, <2>1, <2>2 DEF C!RefreshGranted, ClientType, C!batch
<1>7. CASE C!RefreshRefused \/ C!Stored \/ C!NotStored
  <2>1. UNCHANGED <<api, credential, attempts, refreshed, C!batch, C!cloud>>
    BY <1>7 DEF C!RefreshRefused, C!Stored, C!NotStored
  <2>2. worker' \in [Workers -> Calls] /\ refresh' \in {"none", "settled"} \cup Errors
    BY <1>1, <1>7 DEF C!RefreshRefused, C!Stored, C!NotStored, C!RefreshFails, Errors, ClientType
  <2> QED BY <2>1, <2>2 DEF ClientType, C!cloud, C!batch
<1>8. CASE C!Lapse \/ C!Die \/ C!Revoke
  <2>1. UNCHANGED <<api, C!client, worker, C!batch, granted>>
    BY <1>8 DEF C!Lapse, C!Die, C!Revoke
  <2>2. lapsed' \subseteq 0..granted /\ dead' \subseteq lapsed' \cup {0} /\ revoked' \in BOOLEAN
    <3>1. granted \in 0..granted
      BY DEF ClientType
    <3>2. CASE C!Lapse
      BY <3>1, <3>2 DEF C!Lapse, ClientType
    <3>3. CASE C!Die
      BY <3>3 DEF C!Die, ClientType
    <3>4. CASE C!Revoke
      BY <3>4 DEF C!Revoke, ClientType
    <3> QED BY <1>8, <3>2, <3>3, <3>4
  <2> QED BY <2>1, <2>2 DEF ClientType, C!client, C!batch
<1>9. CASE UNCHANGED C!vars
  BY <1>9 DEF C!vars, C!client, C!batch, C!cloud, ClientType
<1> QED BY <1>2, <1>3, <1>4, <1>5, <1>6, <1>7, <1>8, <1>9 DEF C!Next

\* Of the workers only w moved, and not to wait for a refresh.
LEMMA OneMoved ==
  ASSUME ClientType, Sound, NEW w \in Workers, ~C!Waiting(worker[w]),
         UNCHANGED <<api, granted, lapsed, refresh>>, failure # "none" => failure' # "none",
         worker' = [worker EXCEPT ![w] = worker'[w]], CallInv(worker[w])'
  PROVE  CallsInv'
<1>1. worker \in [Workers -> Calls] /\ \A v \in Workers \ {w} : worker'[v] = worker[v]
  BY DEF ClientType
<1>2. ASSUME NEW v \in Workers \ {w} PROVE CallInv(worker[v])'
  BY <1>1 DEF CallInv, C!InFlight, Sound, CallsInv
<1>3. ASSUME C!InFlight' PROVE \E v \in Workers : C!Waiting(worker'[v])
  <2>1. PICK v \in Workers : C!Waiting(worker[v])
    BY <1>3 DEF Sound, CallsInv, C!InFlight
  <2> QED BY <1>1, <2>1
<1> QED BY <1>2, <1>3 DEF CallsInv, C!Waiting

LEMMA WorkerSound ==
  ASSUME ClientType, Sound, ~Worn, ~Worn', NEW w \in Workers,
         C!Begin(w) \/ C!End(w) \/ C!Answered(w) \/ C!Refused(w) \/ C!Unanswered(w)
  PROVE  Sound'
<1>0. /\ worker \in [Workers -> Calls] /\ granted \in Nat /\ credential.access = granted
      /\ lapsed \subseteq 0..granted /\ dead \subseteq lapsed \cup {0}
      /\ CallInv(worker[w]) /\ next \in Nat
  BY DEF ClientType, Sound, Tokens, CallsInv
<1>1. ASSUME UNCHANGED <<api, C!client, failure, C!cloud>>, worker' = [worker EXCEPT ![w] = worker'[w]],
             ~C!Waiting(worker[w]), CallInv(worker[w])',
             api = "microsoft" /\ Lost => failure # "none"
      PROVE  Sound'
  <2>1. UNCHANGED <<api, credential, refresh, attempts, refreshed, failure, granted, lapsed, dead>>
    BY <1>1 DEF C!client, C!cloud
  <2>2. CallsInv'
    BY <1>1, <2>1, OneMoved
  <2>3. Tokens' /\ GoogleInv' /\ MicrosoftInv'
    BY <1>1, <2>1 DEF Sound, Tokens, GoogleInv, MicrosoftInv, Lost
  <2> QED BY <2>1, <2>2, <2>3 DEF Sound
<1>2. ASSUME worker[w].at = "rest" \/ C!Awaiting PROVE api = "microsoft" /\ Lost => failure # "none"
  <2>1. api = "microsoft" /\ Lost /\ failure = "none" =>
          (\E v \in Workers : worker[v].at = "failed") /\ \A v \in Workers : worker[v].at # "rest"
    BY DEF Sound, MicrosoftInv
  <2> QED BY <1>2, <2>1 DEF C!Awaiting
<1>3. CASE C!Begin(w)
  <2> DEFINE fetch == [at |-> "before", token |-> credential.access, item |-> next, error |-> "none"]
  <2>1. /\ fetch \in Calls /\ fetch.at = "before" /\ fetch.token = granted /\ fetch.error = "none"
        /\ worker[w].at = "rest" /\ UNCHANGED <<api, failure, C!cloud>>
    BY <1>0, <1>3 DEF C!Begin, Calls
  <2>2. CASE C!IsExpired /\ (api = "google" => attempts = 0)
    <3>1. C!React(w, fetch) /\ granted \in lapsed
      BY <1>0, <1>3, <2>2 DEF C!Begin, C!IsExpired
    <3> HIDE DEF fetch
    <3> QED BY <1>0, <2>1, <2>2, <3>1, ReactSound
  <2>3. CASE ~(C!IsExpired /\ (api = "google" => attempts = 0))
    <3>1. worker' = [worker EXCEPT ![w] = C!Resumed(fetch)] /\ UNCHANGED C!client
      BY <1>3, <2>3 DEF C!Begin
    <3>2. worker'[w] = [fetch EXCEPT !.at = "sent", !.token = granted]
      BY <1>0, <2>1, <3>1 DEF C!Resumed
    <3>3. worker'[w].at = "sent" /\ worker'[w].token = granted
      BY <3>2
    <3>4. CallInv(worker[w])'
      BY <1>0, <2>1, <3>3 DEF CallInv, C!cloud
    <3> QED BY <1>0, <1>1, <1>2, <2>1, <3>1, <3>4 DEF C!Waiting
  <2> QED BY <2>2, <2>3
<1>4. CASE C!End(w)
  <2>1. worker'[w].at = "done" /\ worker[w].at = "rest"
    BY <1>0, <1>4 DEF C!End, Calls
  <2> QED BY <1>0, <1>1, <1>2, <1>4, <2>1 DEF C!End, C!batch, C!Waiting, CallInv
<1>5. CASE C!Answered(w)
  <2>1. worker'[w].at = "rest"
    BY <1>0, <1>5 DEF C!Answered, C!Resting
  <2> QED BY <1>0, <1>1, <1>2, <1>5, <2>1 DEF C!Answered, C!batch, C!Waiting, CallInv
<1>6. CASE C!Unanswered(w)
  <2>1. worker'[w].at = "failed" /\ worker'[w].error = "transient"
    BY <1>0, <1>6 DEF C!Unanswered, C!Failed, Calls
  <2> QED BY <1>0, <1>1, <1>2, <1>6, <2>1 DEF C!Unanswered, C!batch, C!Waiting, CallInv
<1>7. CASE C!Refused(w)
  <2>1. ~revoked /\ worker[w].token \in dead /\ C!Awaiting /\ UNCHANGED <<api, failure, C!cloud>>
    BY <1>7 DEF C!Refused, Worn, C!batch
  <2>2. worker[w].at # "again"
    BY <1>0, <2>1 DEF CallInv
  <2> DEFINE fetch == [worker[w] EXCEPT !.at = "after"]
  <2>3. worker[w].at = "sent" /\ C!React(w, fetch)
    BY <1>7, <2>2 DEF C!Refused
  <2>4. fetch \in Calls /\ fetch.at = "after" /\ fetch.token = worker[w].token /\ fetch.error = worker[w].error
    BY <1>0 DEF Calls
  <2> HIDE DEF fetch
  <2>5. fetch.token <= granted /\ (granted \in lapsed => fetch.token = granted)
    BY <1>0, <2>3, <2>4 DEF CallInv
  <2> QED BY <1>0, <2>1, <2>3, <2>4, <2>5, ReactSound
<1> QED BY <1>3, <1>4, <1>5, <1>6, <1>7

LEMMA RejectSound ==
  ASSUME ClientType, Sound, NEW w \in Workers, C!Reject(w)
  PROVE  Sound'
<1> DEFINE error == worker[w].error
<1>0. /\ worker \in [Workers -> Calls] /\ CallInv(worker[w]) /\ worker[w].at = "failed"
      /\ error \in Errors /\ UNCHANGED <<api, C!client, C!cloud>> /\ failure \in {"none"} \cup Errors
      /\ failure # "unauthorized"
  BY DEF ClientType, Sound, CallsInv, CallInv, Calls, C!Reject, Errors
<1>1. UNCHANGED <<credential, refresh, attempts, refreshed, granted, lapsed, dead, revoked>>
  BY <1>0 DEF C!client, C!cloud
<1>2. worker'[w].at \in {"rest", "done"} /\ \A v \in Workers \ {w} : worker'[v] = worker[v]
  <2>1. /\ C!Resting.at = "rest" /\ [C!Resting EXCEPT !.at = "done"].at = "done"
    BY DEF C!Resting
  <2> QED BY <1>0, <2>1 DEF C!Reject
<1>3. /\ failure # "none" => failure' # "none"
      /\ api = "microsoft" /\ error # "store" => failure' # "none"
      /\ failure' # "unauthorized"
  BY <1>0 DEF C!Reject, C!Reported, Errors, C!Retryable, CallInv
<1>4. CallsInv'
  <2>1. CallInv(worker[w])'
    BY <1>0, <1>2 DEF CallInv
  <2>2. worker' = [worker EXCEPT ![w] = worker'[w]]
    BY <1>0 DEF C!Reject
  <2> QED BY <1>0, <1>1, <1>3, <2>1, <2>2, OneMoved DEF C!Waiting
<1>5. MicrosoftInv'
  <2>1. CASE api = "microsoft" /\ Lost /\ failure = "none"
    BY <1>0, <1>1, <1>3, <2>1 DEF Sound, MicrosoftInv
  <2>2. CASE ~(api = "microsoft" /\ Lost /\ failure = "none")
    BY <1>0, <1>1, <1>3, <2>2 DEF Sound, MicrosoftInv, Lost
  <2> QED BY <2>1, <2>2
<1> QED BY <1>0, <1>1, <1>3, <1>4, <1>5 DEF Sound, Tokens, GoogleInv

LEMMA GrantSound ==
  ASSUME ClientType, Sound, C!RefreshGranted
  PROVE  Sound'
<1>0. /\ granted \in Nat /\ granted' = granted + 1 /\ credential'.access = granted + 1
      /\ refreshed' = granted + 1 /\ refresh = "asking" /\ refresh' = "putting"
      /\ UNCHANGED <<api, attempts, worker, failure, lapsed, dead>>
      /\ lapsed \subseteq 0..granted /\ attempts \in Nat /\ worker \in [Workers -> Calls]
  BY DEF C!RefreshGranted, ClientType, C!batch
<1>1. granted' \notin lapsed' \cup {0}
  BY <1>0
<1>2. Tokens'
  <2>1. ASSUME NEW t \in 0..granted' , t < granted' PROVE t \in lapsed \cup dead
    <3>1. t \in 0..granted /\ (t < granted \/ refresh = "asking")
      BY <1>0, <2>1
    <3> QED BY <3>1 DEF Sound, Tokens
  <2> QED BY <1>0, <1>1, <2>1 DEF Tokens
<1>3. ASSUME NEW w \in Workers PROVE CallInv(worker[w])'
  <2>1. CallInv(worker[w]) /\ worker[w].token \in Nat
    BY <1>0 DEF Sound, CallsInv, Calls
  <2> QED BY <1>0, <1>1, <2>1 DEF CallInv, C!InFlight
<1>4. CallsInv'
  BY <1>0, <1>3 DEF Sound, CallsInv, C!InFlight, C!Waiting
<1>5. GoogleInv'
  BY <1>0 DEF Sound, GoogleInv
<1>6. Lost' <=> Lost
  BY <1>0 DEF Lost
<1>7. MicrosoftInv'
  BY <1>0, <1>6 DEF Sound, MicrosoftInv
<1> QED BY <1>0, <1>2, <1>4, <1>5, <1>7 DEF Sound

\* A refresh ends badly for all who wait for it: nobody rests meanwhile, so that
\* they are the next to speak.
LEMMA FailsSound ==
  ASSUME ClientType, Sound, NEW error \in {"transient", "store"}, C!Awaiting,
         error = "transient" => refresh = "asking", error = "store" => refresh = "putting",
         C!RefreshFails(error),
         UNCHANGED <<api, credential, attempts, refreshed, C!batch, granted, lapsed, dead>>
  PROVE  Sound'
<1>0. /\ granted \in Nat /\ attempts \in Nat /\ worker \in [Workers -> Calls]
      /\ refresh' = IF api = "google" THEN error ELSE "none"
      /\ UNCHANGED <<api, failure>>
      /\ refresh' \notin {"asking", "putting", "unauthorized"}
  BY DEF ClientType, C!RefreshFails, C!batch
<1>1. ASSUME NEW w \in Workers
      PROVE  /\ C!Waiting(worker[w]) => worker'[w].at = "failed" /\ worker'[w].error = error
             /\ ~C!Waiting(worker[w]) => worker'[w] = worker[w]
  BY <1>0 DEF C!RefreshFails, C!Failed, Calls
<1>2. Tokens'
  BY <1>0 DEF Sound, Tokens
<1>3. ASSUME NEW w \in Workers PROVE CallInv(worker[w])'
  <2>1. CASE C!Waiting(worker[w])
    BY <1>1, <2>1 DEF CallInv
  <2>2. CASE ~C!Waiting(worker[w])
    BY <1>0, <1>1, <2>2 DEF Sound, CallsInv, CallInv, C!Waiting
  <2> QED BY <2>1, <2>2
<1>4. CallsInv'
  BY <1>0, <1>3 DEF CallsInv, C!InFlight
<1>5. GoogleInv'
  BY <1>0 DEF Sound, GoogleInv
<1>6. CASE error = "transient"
  <2>1. \E w \in Workers : worker'[w].at = "failed"
    BY <1>1, <1>6 DEF Sound, CallsInv, C!InFlight
  <2>2. ASSUME NEW w \in Workers
        PROVE  worker'[w].at # "rest" /\ (worker'[w].at = "failed" => worker'[w].error = "transient")
    BY <1>1, <1>6 DEF C!Awaiting
  <2>3. MicrosoftInv'
    BY <1>0, <2>1, <2>2 DEF MicrosoftInv
  <2> QED BY <1>0, <1>2, <1>4, <1>5, <2>3 DEF Sound
<1>7. CASE error = "store"
  <2>1. api = "microsoft" => (Lost' <=> Lost)
    BY <1>0, <1>7 DEF Lost
  <2>2. ~(api = "microsoft" /\ Lost /\ failure = "none")
    BY DEF Sound, MicrosoftInv, C!Awaiting
  <2>3. MicrosoftInv'
    BY <1>0, <2>1, <2>2 DEF MicrosoftInv
  <2> QED BY <1>0, <1>2, <1>4, <1>5, <2>3 DEF Sound
<1> QED BY <1>6, <1>7

LEMMA StoredSound ==
  ASSUME ClientType, Sound, C!Stored
  PROVE  Sound'
<1>0. /\ granted \in Nat /\ attempts \in Nat /\ worker \in [Workers -> Calls]
      /\ refresh = "putting" /\ refresh' = IF api = "google" THEN "settled" ELSE "none"
      /\ UNCHANGED <<api, failure, credential, attempts, refreshed, granted, lapsed, dead>>
      /\ credential.access = granted /\ granted \notin lapsed \cup {0}
  BY DEF ClientType, C!Stored, C!batch, C!cloud, Sound, Tokens
<1>1. Tokens'
  BY <1>0 DEF Sound, Tokens
<1>2. ASSUME NEW w \in Workers PROVE CallInv(worker[w])'
  <2>1. CallInv(worker[w]) /\ worker[w] \in Calls
    BY <1>0 DEF Sound, CallsInv
  <2>2. CASE C!Waiting(worker[w])
    <3>1. worker'[w] = C!Resumed(worker[w])
      BY <1>0, <2>2 DEF C!Stored
    <3>2. worker'[w].at \in {"sent", "again"} /\ worker'[w].token = granted
      <4>1. CASE worker[w].at = "before"
        BY <1>0, <2>1, <3>1, <4>1 DEF C!Resumed, Calls
      <4>2. CASE worker[w].at = "after"
        <5>1. worker'[w] = [worker[w] EXCEPT !.at = "again", !.token = granted]
          BY <1>0, <2>1, <3>1, <4>2 DEF C!Resumed, CallInv
        <5> QED BY <2>1, <5>1 DEF Calls
      <4> QED BY <2>2, <4>1, <4>2 DEF C!Waiting
    <3> QED BY <1>0, <3>2 DEF CallInv
  <2>3. CASE ~C!Waiting(worker[w])
    <3>1. worker'[w] = worker[w]
      BY <1>0, <2>3 DEF C!Stored
    <3> QED BY <1>0, <2>1, <2>3, <3>1 DEF CallInv, C!Waiting
  <2> QED BY <2>2, <2>3
<1>3. CallsInv'
  BY <1>0, <1>2 DEF CallsInv, C!InFlight
<1>4. GoogleInv'
  BY <1>0 DEF Sound, GoogleInv
<1>5. MicrosoftInv'
  <2>1. api = "microsoft" => (Lost' <=> Lost)
    BY <1>0 DEF Lost
  <2>2. ~(api = "microsoft" /\ Lost /\ failure = "none")
    BY DEF Sound, MicrosoftInv, C!Stored, C!Awaiting
  <2> QED BY <1>0, <2>1, <2>2 DEF MicrosoftInv
<1> QED BY <1>0, <1>1, <1>3, <1>4, <1>5 DEF Sound

LEMMA CloudSound ==
  ASSUME ClientType, Sound, C!Lapse \/ C!Die
  PROVE  Sound'
<1>0. /\ UNCHANGED <<api, C!client, worker, C!batch, granted>> /\ lapsed \subseteq lapsed'
      /\ dead \subseteq dead'
  BY DEF C!Lapse, C!Die
<1>1. UNCHANGED <<credential, refresh, attempts, refreshed, failure>>
  BY <1>0 DEF C!client, C!batch
<1>2. GoogleInv' /\ MicrosoftInv'
  <2>1. api = "google" => lapsed' \subseteq {0}
    BY DEF C!Lapse, C!Die, Sound, GoogleInv
  <2> QED BY <1>0, <1>1, <2>1 DEF Sound, GoogleInv, MicrosoftInv, Lost
<1>3. CASE C!Lapse
  <2>1. /\ ~C!InFlight /\ lapsed' = lapsed \cup {granted}
        /\ \A w \in Workers : worker[w].at # "done" => worker[w].at = "sent" /\ worker[w].token = granted
    BY <1>3 DEF C!Lapse
  <2>2. Tokens'
    BY <1>0, <1>1, <2>1 DEF Sound, Tokens, C!InFlight
  <2>3. CallsInv'
    BY <1>0, <1>1, <2>1 DEF Sound, CallsInv, CallInv, C!InFlight
  <2> QED BY <1>1, <1>2, <2>2, <2>3 DEF Sound
<1>4. CASE C!Die
  <2>1. lapsed' = lapsed
    BY <1>4 DEF C!Die
  <2> QED BY <1>0, <1>1, <1>2, <2>1 DEF Sound, Tokens, CallsInv, CallInv, C!InFlight
<1> QED BY <1>3, <1>4

LEMMA ParkNext == ParkInv /\ [C!Next]_C!vars => ParkInv'
<1> SUFFICES ASSUME ParkInv, [C!Next]_C!vars, ~Worn' PROVE Sound'
  BY ParkTypes DEF ParkInv
<1>0. ClientType /\ ClientType'
  BY ParkTypes DEF ParkInv
<1>1. ~Worn /\ Sound
  <2>1. lapsed \subseteq lapsed' /\ dead \subseteq dead' /\ (revoked => revoked')
    <3>1. CASE UNCHANGED C!cloud
      BY <3>1 DEF C!cloud
    <3>2. CASE C!RefreshGranted \/ C!Lapse \/ C!Die \/ C!Revoke
      BY <3>2 DEF C!RefreshGranted, C!Lapse, C!Die, C!Revoke
    <3>3. UNCHANGED C!cloud \/ C!RefreshGranted \/ C!Lapse \/ C!Die \/ C!Revoke
      BY
      DEF C!Next, C!vars, C!Begin, C!End, C!Answered, C!Refused, C!Unanswered, C!Reject,
          C!RefreshRefused, C!Stored, C!NotStored
    <3> QED BY <3>1, <3>2, <3>3
  <2> QED BY <1>0, <2>1, WornStays DEF ParkInv
<1>2. ASSUME NEW w \in Workers,
             C!Begin(w) \/ C!End(w) \/ C!Answered(w) \/ C!Refused(w) \/ C!Unanswered(w) \/ C!Reject(w)
      PROVE  Sound'
  BY <1>0, <1>1, <1>2, WorkerSound, RejectSound
<1>3. CASE C!RefreshGranted \/ C!Stored \/ C!Lapse \/ C!Die
  BY <1>0, <1>1, <1>3, GrantSound, StoredSound, CloudSound
<1>4. CASE C!RefreshRefused
  <2>1. ~revoked
    BY <1>1 DEF Worn
  <2>2. /\ C!Awaiting /\ refresh = "asking" /\ C!RefreshFails("transient")
        /\ UNCHANGED <<api, credential, attempts, refreshed, C!batch, C!cloud>>
    BY <1>4, <2>1 DEF C!RefreshRefused
  <2> QED BY <1>0, <1>1, <2>2, FailsSound DEF C!cloud
<1>5. CASE C!NotStored
  <2>1. /\ C!Awaiting /\ refresh = "putting" /\ C!RefreshFails("store")
        /\ UNCHANGED <<api, credential, attempts, refreshed, C!batch, C!cloud>>
    BY <1>5 DEF C!NotStored
  <2> QED BY <1>0, <1>1, <2>1, FailsSound DEF C!cloud
<1>6. ~C!Revoke
  BY DEF C!Revoke, Worn
<1>7. CASE UNCHANGED C!vars
  <2>1. UNCHANGED <<api, credential, refresh, attempts, refreshed, failure, worker, granted, lapsed, dead>>
    BY <1>7 DEF C!vars, C!client, C!batch, C!cloud
  <2> QED
    BY <1>1, <2>1
    DEF Sound, Tokens, CallsInv, CallInv, C!InFlight, C!Waiting, GoogleInv, MicrosoftInv, Lost
<1> QED BY <1>2, <1>3, <1>4, <1>5, <1>6, <1>7 DEF C!Next

LEMMA ClientOnlyRevokedParks == C!Spec => []C!OnlyRevokedParks
<1>1. ParkInv => C!OnlyRevokedParks
  BY ClientCardinality DEF ParkInv, Worn, Sound, C!OnlyRevokedParks
<1> QED BY <1>1, ParkInit, ParkNext, PTL DEF C!Spec

-----------------------------------------------------------------------------
(* KeychainChunks *)

\* The keychain holds v: as the primary entry, or as a manifest and its pieces.
Holds(v) ==
  /\ K!Primary \in DOMAIN store
  /\ \/ store[K!Primary] = K!Plain(v)
     \/ \E g \in K!Families :
          /\ store[K!Primary] = K!Manifest(Pieces[v], g)
          /\ \A i \in 0..(Pieces[v] - 1) :
               <<g, i>> \in DOMAIN store /\ store[<<g, i>>] = K!Piece(v, i)

\* What a read gives is what the keychain holds.
Gives(v) == v \in Values /\ Holds(v)
Empty == K!Primary \notin DOMAIN store

\* A rewrite goes to a generation the manifest does not point at, its pieces
\* below call.at are there, and no scan reaches a piece in use.
KeychainCall == [op : {"idle", "short", "pieces", "delete", "clean"}, value : Values \cup {K!Nothing},
         generation : K!Families, at : Nat, scans : Seq([generation : K!Families, at : Nat])]

KeychainCallInv ==
  /\ call \in KeychainCall
  /\ call.op = "idle" => call = K!Idle
  /\ call.op \in {"short", "pieces"} => call.value \in Values
  /\ call.op = "delete" => call.value = K!Nothing
  /\ call.op = "pieces" =>
       /\ call.generation \in {"a", "b"} /\ call.at \in 0..Pieces[call.value]
       /\ K!IsManifest => store[K!Primary].generation # call.generation
       /\ \A i \in 0..(call.at - 1) :
            /\ <<call.generation, i>> \in DOMAIN store
            /\ store[<<call.generation, i>>] = K!Piece(call.value, i)
  /\ call.op = "clean" =>
       /\ (Empty /\ call.value = K!Nothing) \/ Gives(call.value)
       /\ K!IsManifest => \A k \in 1..Len(call.scans) :
            \/ call.scans[k].generation # store[K!Primary].generation
            \/ call.scans[k].at >= store[K!Primary].count
  /\ call.op \in {"short", "pieces", "delete"} =>
       (Empty /\ before = K!Nothing) \/ Gives(before)

KeychainInv == (Empty \/ \E v \in Values : Holds(v)) /\ KeychainCallInv

LEMMA PiecesType == K!KeychainAssumption => \A v \in Values : Pieces[v] \in Nat /\ Pieces[v] > 0
BY DEF K!KeychainAssumption

LEMMA ReadHolds ==
  ASSUME K!KeychainAssumption, NEW v \in Values, Holds(v)
  PROVE  K!Read = v
<1>0. Pieces[v] \in Nat /\ Pieces[v] > 0
  BY PiecesType
<1>1. CASE store[K!Primary] = K!Plain(v)
  BY <1>1 DEF Holds, K!Read, K!IsManifest, K!Plain
<1>2. ASSUME NEW g \in K!Families, store[K!Primary] = K!Manifest(Pieces[v], g),
             \A i \in 0..(Pieces[v] - 1) :
               <<g, i>> \in DOMAIN store /\ store[<<g, i>>] = K!Piece(v, i)
      PROVE  K!Read = v
  <2> DEFINE m == store[K!Primary]
             parts == {store[e] : e \in K!ChunksOf(m) \cap DOMAIN store}
  <2>1. m.count = Pieces[v] /\ m.generation = g /\ m.kind = "manifest"
    BY <1>2 DEF K!Manifest
  <2>2. K!ChunksOf(m) = {<<g, i>> : i \in 0..(Pieces[v] - 1)}
    BY <2>1 DEF K!ChunksOf
  <2>3. K!ChunksOf(m) \subseteq DOMAIN store
    BY <1>2, <2>2
  <2>4. \E w \in Values : /\ Pieces[w] = m.count
                          /\ \A i \in 0..(m.count - 1) : store[<<m.generation, i>>] = K!Piece(w, i)
    BY <1>2, <2>1
  <2>5. \A p \in parts : p.value = v
    <3>1. ASSUME NEW p \in parts PROVE p.value = v
      <4>1. PICK e \in K!ChunksOf(m) : p = store[e]
        OBVIOUS
      <4>2. PICK i \in 0..(Pieces[v] - 1) : e = <<g, i>>
        BY <2>2
      <4>3. p = K!Piece(v, i)
        BY <1>2, <4>1, <4>2
      <4> QED BY <4>3 DEF K!Piece
    <3> QED BY <3>1
  <2>6. \E p \in parts : TRUE
    <3>1. <<g, 0>> \in K!ChunksOf(m) /\ <<g, 0>> \in DOMAIN store
      BY <1>0, <2>2, <2>3
    <3> QED BY <3>1
  <2>7. (CHOOSE p \in parts : TRUE).value = v
    BY <2>5, <2>6
  <2>8. ~(m.count = 0 \/ ~(K!ChunksOf(m) \subseteq DOMAIN store))
    BY <1>0, <2>1, <2>3
  <2> QED BY <2>1, <2>4, <2>7, <2>8 DEF Holds, K!Read, K!IsManifest
<1> QED BY <1>1, <1>2 DEF Holds

LEMMA ReadEmpty == Empty => K!Read = K!Nothing
BY DEF Empty, K!Read

\* Reads are a function of the entries: a step that leaves the keychain alone, or
\* touches no entry in use, leaves what it holds.
LEMMA SameHolds ==
  ASSUME NEW v \in Values, Holds(v), store'[K!Primary] = store[K!Primary],
         K!Primary \in DOMAIN store',
         \A i \in Nat : K!IsManifest => LET e == <<store[K!Primary].generation, i>> IN
           e \in DOMAIN store /\ i < Pieces[v] => e \in DOMAIN store' /\ store'[e] = store[e],
         K!KeychainAssumption
  PROVE  Holds(v)'
<1>0. Pieces[v] \in Nat
  BY PiecesType
<1>1. CASE store[K!Primary] = K!Plain(v)
  BY <1>1 DEF Holds
<1>2. ASSUME NEW g \in K!Families, store[K!Primary] = K!Manifest(Pieces[v], g),
             \A i \in 0..(Pieces[v] - 1) :
               <<g, i>> \in DOMAIN store /\ store[<<g, i>>] = K!Piece(v, i)
      PROVE  Holds(v)'
  <2>1. K!IsManifest /\ store[K!Primary].generation = g
    BY <1>2 DEF Holds, K!IsManifest, K!Manifest
  <2>2. \A i \in 0..(Pieces[v] - 1) : <<g, i>> \in DOMAIN store' /\ store'[<<g, i>>] = K!Piece(v, i)
    BY <1>0, <1>2, <2>1
  <2> QED BY <1>2, <2>2 DEF Holds
<1> QED BY <1>1, <1>2 DEF Holds

\* What the calls rely on: the manifest names one of the generations.
LEMMA ManifestNames ==
  ASSUME K!KeychainAssumption, NEW v \in Values, Holds(v), K!IsManifest
  PROVE  /\ store[K!Primary].generation \in K!Families /\ store[K!Primary].count = Pieces[v]
         /\ \A i \in 0..(Pieces[v] - 1) :
              /\ <<store[K!Primary].generation, i>> \in DOMAIN store
              /\ store[<<store[K!Primary].generation, i>>] = K!Piece(v, i)
BY DEF Holds, K!IsManifest, K!Plain, K!Manifest

\* The calls' locals, from the idle ones to a scan of everything.
LEMMA KeychainCalls ==
  /\ K!Idle \in KeychainCall /\ K!Idle.op = "idle"
  /\ K!ScansAll \in Seq([generation : K!Families, at : Nat])
<1>1. K!Idle \in KeychainCall /\ K!Idle.op = "idle" /\ K!Idle.at = 0
  <2>1. <<>> \in Seq([generation : K!Families, at : Nat])
    OBVIOUS
  <2> QED BY <2>1 DEF K!Idle, KeychainCall, K!Families
<1>2. K!ScansAll \in Seq([generation : K!Families, at : Nat])
  <2>1. \A g \in K!Families : K!Scan(g, 0) \in [generation : K!Families, at : Nat]
    BY DEF K!Scan
  <2>2. "a" \in K!Families /\ "b" \in K!Families /\ K!Legacy \in K!Families
    BY DEF K!Families
  <2> QED BY <2>1, <2>2 DEF K!ScansAll, K!GENERATIONS
<1> QED BY <1>1, <1>2

LEMMA BeginCall ==
  ASSUME NEW op \in {"short", "pieces", "delete"}, NEW v \in Values \cup {K!Nothing},
         NEW g \in K!Families, K!Begin(op, v, g)
  PROVE  /\ call' \in KeychainCall /\ call'.op = op /\ call'.value = v /\ call'.generation = g
         /\ call'.at = 0 /\ before' = K!Read
<1>1. K!Idle \in KeychainCall /\ K!Idle.at = 0
  BY KeychainCalls DEF K!Idle
<1>2. call' = [K!Idle EXCEPT !.op = op, !.value = v, !.generation = g] /\ before' = K!Read
  BY DEF K!Begin
<1> QED BY <1>1, <1>2 DEF KeychainCall

LEMMA KeychainStart == K!KeychainAssumption /\ K!Init => KeychainInv
<1> SUFFICES ASSUME K!KeychainAssumption, K!Init PROVE KeychainInv
  OBVIOUS
<1>1. KeychainCallInv
  BY KeychainCalls DEF K!Init, KeychainCallInv
<1>2. Empty \/ \E v \in Values : Holds(v)
  <2>1. CASE store = [e \in {} |-> K!Nothing]
    BY <2>1 DEF Empty
  <2>2. ASSUME NEW v \in Values, store = [e \in {K!Primary} |-> K!Plain(v)]
        PROVE  Holds(v)
    BY <2>2 DEF Holds
  <2>3. ASSUME NEW v \in Values,
               store = [e \in {K!Primary} \cup {<<K!Legacy, i>> : i \in 0..(Pieces[v] - 1)} |->
                          IF e = K!Primary THEN K!Manifest(Pieces[v], K!Legacy) ELSE K!Piece(v, e[2])]
        PROVE  Holds(v)
    <3>1. store[K!Primary] = K!Manifest(Pieces[v], K!Legacy) /\ K!Primary \in DOMAIN store
      BY <2>3
    <3>2. ASSUME NEW i \in 0..(Pieces[v] - 1)
          PROVE  <<K!Legacy, i>> \in DOMAIN store /\ store[<<K!Legacy, i>>] = K!Piece(v, i)
      <4>1. <<K!Legacy, i>> # K!Primary
        BY DEF K!Primary, K!Legacy
      <4> QED BY <2>3, <4>1
    <3> QED BY <3>1, <3>2 DEF Holds, K!Families
  <2> QED BY <2>1, <2>2, <2>3 DEF K!Init
<1> QED BY <1>1, <1>2 DEF KeychainInv

\* Starting a call, and ending or cutting off one, leaves the keychain alone.
LEMMA UntouchedInv ==
  ASSUME K!KeychainAssumption, KeychainInv,
         \/ \E v \in Values : K!SetShort(v) \/ K!SetLong(v)
         \/ K!Delete \/ K!Finish \/ K!CutOff \/ UNCHANGED K!vars
  PROVE  KeychainInv'
<1>1. store' = store
  BY DEF K!SetShort, K!SetLong, K!Delete, K!Begin, K!Finish, K!CutOff, K!vars
<1>2. (Empty \/ \E v \in Values : Holds(v))'
  BY <1>1 DEF KeychainInv, Empty, Holds
<1>3. (Empty /\ K!Read = K!Nothing) \/ Gives(K!Read)
  BY ReadEmpty, ReadHolds DEF KeychainInv, Gives
<1>9. before' = K!Read => ((Empty /\ before = K!Nothing) \/ Gives(before))'
  BY <1>1, <1>3 DEF Gives, Empty, Holds
<1>4. ASSUME NEW v \in Values, K!SetShort(v) PROVE KeychainCallInv'
  <2>1. call' \in KeychainCall /\ call'.op = "short" /\ call'.value = v /\ before' = K!Read
    BY <1>4, BeginCall DEF K!SetShort, K!Families
  <2> QED BY <1>9, <2>1 DEF KeychainCallInv
<1>5. ASSUME NEW v \in Values, K!SetLong(v) PROVE KeychainCallInv'
  <2>1. K!NextGeneration \in {"a", "b"} /\ (K!IsManifest => store[K!Primary].generation # K!NextGeneration)
    BY DEF K!NextGeneration, K!GENERATIONS
  <2>2. /\ call' \in KeychainCall /\ call'.op = "pieces" /\ call'.value = v
        /\ call'.generation = K!NextGeneration /\ call'.at = 0 /\ before' = K!Read
    BY <1>5, <2>1, BeginCall DEF K!SetLong, K!Families
  <2>3. 0 \in 0..Pieces[v] /\ 0..(0 - 1) = {}
    BY PiecesType
  <2> QED BY <1>1, <1>9, <2>1, <2>2, <2>3 DEF KeychainCallInv, K!IsManifest
<1>6. ASSUME K!Delete PROVE KeychainCallInv'
  <2>1. call' \in KeychainCall /\ call'.op = "delete" /\ call'.value = K!Nothing /\ before' = K!Read
    BY <1>6, BeginCall DEF K!Delete, K!Families
  <2> QED BY <1>9, <2>1 DEF KeychainCallInv
<1>7. ASSUME K!Finish \/ K!CutOff PROVE KeychainCallInv'
  <2>1. call' = K!Idle
    BY <1>7 DEF K!Finish, K!CutOff
  <2>2. call'.op = "idle"
    BY <2>1, KeychainCalls
  <2> QED BY <2>1, <2>2, KeychainCalls DEF KeychainCallInv
<1>8. ASSUME UNCHANGED K!vars PROVE KeychainCallInv'
  <2>1. store' = store /\ call' = call /\ before' = before
    BY <1>8 DEF K!vars
  <2>2. \A v : Gives(v)' <=> Gives(v)
    BY <2>1 DEF Gives, Holds
  <2>3. (Empty' <=> Empty) /\ (K!IsManifest' <=> K!IsManifest)
    BY <2>1 DEF Empty, K!IsManifest
  <2>4. KeychainCallInv
    BY DEF KeychainInv
  <2> QED BY <2>1, <2>2, <2>3, <2>4 DEF KeychainCallInv
<1> QED BY <1>2, <1>4, <1>5, <1>6, <1>7, <1>8 DEF KeychainInv

LEMMA ShortInv ==
  ASSUME K!KeychainAssumption, KeychainInv, K!WriteShort
  PROVE  KeychainInv'
<1>1. call.value \in Values /\ call \in KeychainCall
  BY DEF KeychainInv, KeychainCallInv, K!WriteShort
<1>2. store'[K!Primary] = K!Plain(call.value) /\ K!Primary \in DOMAIN store'
  BY DEF K!WriteShort, K!Put
<1>3. call' \in KeychainCall /\ call'.op = "clean" /\ call'.value = call.value
  BY <1>1, KeychainCalls DEF K!WriteShort, KeychainCall
<1>4. ~K!IsManifest'
  BY <1>2 DEF K!IsManifest, K!Plain
<1>5. Gives(call.value)'
  BY <1>1, <1>2, <1>3 DEF Gives, Holds
<1> QED BY <1>1, <1>3, <1>4, <1>5 DEF KeychainInv, KeychainCallInv, Gives

LEMMA DropInv ==
  ASSUME K!KeychainAssumption, KeychainInv, K!DropPrimary
  PROVE  KeychainInv'
<1>1. call.value = K!Nothing /\ call \in KeychainCall
  BY DEF KeychainInv, KeychainCallInv, K!DropPrimary
<1>2. K!Primary \notin DOMAIN store'
  BY DEF K!DropPrimary, K!Drop
<1>3. call' \in KeychainCall /\ call'.op = "clean" /\ call'.value = call.value
  BY <1>1, KeychainCalls DEF K!DropPrimary, KeychainCall
<1> QED BY <1>1, <1>2, <1>3 DEF KeychainInv, KeychainCallInv, Empty, K!IsManifest

LEMMA PieceInv ==
  ASSUME K!KeychainAssumption, KeychainInv, K!WritePiece
  PROVE  KeychainInv'
<1> DEFINE g == call.generation
           n == call.at
           v == call.value
           e == <<g, n>>
<1>1. /\ call \in KeychainCall /\ call.op = "pieces" /\ v \in Values /\ g \in {"a", "b"}
      /\ n \in Nat /\ n < Pieces[v] /\ Pieces[v] \in Nat
      /\ K!IsManifest => store[K!Primary].generation # g
  BY PiecesType DEF KeychainInv, KeychainCallInv, K!WritePiece, KeychainCall
<1>2. e # K!Primary
  BY <1>1 DEF K!Primary
<1>3. /\ DOMAIN store' = DOMAIN store \cup {e} /\ store'[e] = K!Piece(v, n)
      /\ \A f \in DOMAIN store \ {e} : store'[f] = store[f]
      /\ before' = before
  BY DEF K!WritePiece, K!Put
<1>4. /\ call' \in KeychainCall /\ call'.op = "pieces" /\ call'.value = v /\ call'.generation = g
      /\ call'.at = n + 1
  <2>1. call' = [call EXCEPT !.at = n + 1] BY DEF K!WritePiece
  <2>2. n + 1 \in Nat BY <1>1
  <2> QED BY <1>1, <2>1, <2>2 DEF KeychainCall
<1>5. ASSUME NEW w \in Values, Holds(w) PROVE Holds(w)'
  <2>1. K!Primary \in DOMAIN store /\ store'[K!Primary] = store[K!Primary]
    BY <1>2, <1>3, <1>5 DEF Holds
  <2>2. ASSUME K!IsManifest, NEW i \in Nat, <<store[K!Primary].generation, i>> \in DOMAIN store
        PROVE  /\ <<store[K!Primary].generation, i>> \in DOMAIN store'
               /\ store'[<<store[K!Primary].generation, i>>] = store[<<store[K!Primary].generation, i>>]
    <3>1. <<store[K!Primary].generation, i>> # e
      BY <1>1, <2>2
    <3> QED BY <1>3, <2>2, <3>1
  <2>3. \A i \in Nat : K!IsManifest => LET f == <<store[K!Primary].generation, i>> IN
          f \in DOMAIN store /\ i < Pieces[w] => f \in DOMAIN store' /\ store'[f] = store[f]
    BY <2>2
  <2>4. K!Primary \in DOMAIN store'
    BY <1>3, <2>1
  <2> QED BY <1>5, <2>1, <2>3, <2>4, SameHolds
<1>6. (Empty' <=> Empty) /\ (K!IsManifest' => K!IsManifest /\ store'[K!Primary] = store[K!Primary])
  BY <1>2, <1>3 DEF Empty, K!IsManifest
<1>7. \A i \in 0..n : <<g, i>> \in DOMAIN store' /\ store'[<<g, i>>] = K!Piece(v, i)
  <2>1. ASSUME NEW i \in 0..n PROVE <<g, i>> \in DOMAIN store' /\ store'[<<g, i>>] = K!Piece(v, i)
    <3>1. CASE i = n
      BY <1>3, <3>1
    <3>2. CASE i # n
      <4>1. i \in 0..(n - 1) /\ <<g, i>> # e
        BY <1>1, <3>2
      <4>2. <<g, i>> \in DOMAIN store /\ store[<<g, i>>] = K!Piece(v, i)
        BY <1>1, <4>1 DEF KeychainInv, KeychainCallInv
      <4> QED BY <1>3, <4>1, <4>2
    <3> QED BY <3>1, <3>2
  <2> QED BY <2>1
<1>8. ((Empty /\ before = K!Nothing) \/ Gives(before))'
  <2>1. (Empty /\ before = K!Nothing) \/ Gives(before)
    BY <1>1 DEF KeychainInv, KeychainCallInv
  <2> QED BY <1>3, <1>5, <1>6, <2>1 DEF Gives
<1>9. (Empty \/ \E w \in Values : Holds(w))'
  BY <1>5, <1>6 DEF KeychainInv
<1>10. KeychainCallInv'
  <2>1. n + 1 \in 0..Pieces[v] /\ (n + 1) - 1 = n
    BY <1>1
  <2> QED BY <1>1, <1>4, <1>6, <1>7, <1>8, <2>1 DEF KeychainCallInv
<1> QED BY <1>9, <1>10 DEF KeychainInv

LEMMA ManifestInv ==
  ASSUME K!KeychainAssumption, KeychainInv, K!WriteManifest
  PROVE  KeychainInv'
<1> DEFINE g == call.generation
           v == call.value
<1>1. /\ call \in KeychainCall /\ call.op = "pieces" /\ v \in Values /\ g \in {"a", "b"}
      /\ call.at = Pieces[v] /\ Pieces[v] \in Nat
  BY PiecesType DEF KeychainInv, KeychainCallInv, K!WriteManifest
<1>2. /\ DOMAIN store' = DOMAIN store \cup {K!Primary} /\ store'[K!Primary] = K!Manifest(Pieces[v], g)
      /\ \A f \in DOMAIN store \ {K!Primary} : store'[f] = store[f]
  BY DEF K!WriteManifest, K!Put
<1>3. \A i \in 0..(Pieces[v] - 1) : <<g, i>> \in DOMAIN store' /\ store'[<<g, i>>] = K!Piece(v, i)
  <2>1. \A i \in 0..(Pieces[v] - 1) : <<g, i>> \in DOMAIN store /\ store[<<g, i>>] = K!Piece(v, i)
    BY <1>1 DEF KeychainInv, KeychainCallInv
  <2>2. \A i : <<g, i>> # K!Primary
    BY <1>1 DEF K!Primary
  <2> QED BY <1>2, <2>1, <2>2
<1>4. call' \in KeychainCall /\ call'.op = "clean" /\ call'.value = v /\ call'.scans = K!ScansAround(g, Pieces[v])
  <2>1. K!ScansAround(g, Pieces[v]) \in Seq([generation : K!Families, at : Nat])
    BY <1>1 DEF K!ScansAround, K!Scan, K!GENERATIONS, K!Families
  <2> QED BY <1>1, <2>1 DEF K!WriteManifest, KeychainCall
<1>5. Gives(v)'
  <2>1. g \in K!Families
    BY <1>1 DEF K!Families
  <2> QED BY <1>1, <1>2, <1>3, <1>4, <2>1 DEF Gives, Holds
<1>6. store'[K!Primary].generation = g /\ store'[K!Primary].count = Pieces[v]
  BY <1>2 DEF K!Manifest
<1>7. \A k \in 1..Len(K!ScansAround(g, Pieces[v])) :
        \/ K!ScansAround(g, Pieces[v])[k].generation # g
        \/ K!ScansAround(g, Pieces[v])[k].at >= Pieces[v]
  BY <1>1 DEF K!ScansAround, K!Scan, K!GENERATIONS, K!Legacy
<1> QED BY <1>1, <1>4, <1>5, <1>6, <1>7 DEF KeychainInv, KeychainCallInv, Gives

LEMMA HeadAndTail ==
  ASSUME NEW T, NEW s \in Seq(T), s # <<>>
  PROVE  /\ Head(s) \in T /\ Head(s) = s[1] /\ Len(s) >= 1 /\ Len(s) \in Nat
         /\ Tail(s) \in Seq(T) /\ Len(Tail(s)) = Len(s) - 1
         /\ \A k \in 1..(Len(s) - 1) : Tail(s)[k] = s[k + 1]
OBVIOUS

\* A clean-up that drops what is in no use leaves the value alone.
LEMMA CleanInv ==
  ASSUME K!KeychainAssumption, KeychainInv, K!CleanNext \/ K!CleanFamilyDone
  PROVE  KeychainInv'
<1> DEFINE Scans == [generation : K!Families, at : Nat]
           scan == Head(call.scans)
<1>1. /\ call \in KeychainCall /\ call.op = "clean" /\ call.scans \in Seq(Scans) /\ call.scans # <<>>
      /\ (Empty /\ call.value = K!Nothing) \/ Gives(call.value)
      /\ K!IsManifest => \A k \in 1..Len(call.scans) :
            \/ call.scans[k].generation # store[K!Primary].generation
            \/ call.scans[k].at >= store[K!Primary].count
  BY DEF KeychainInv, KeychainCallInv, K!CleanNext, K!CleanFamilyDone, KeychainCall
<1>2. scan \in Scans /\ scan = call.scans[1] /\ Len(call.scans) >= 1 /\ Len(call.scans) \in Nat
      /\ Tail(call.scans) \in Seq(Scans) /\ Len(Tail(call.scans)) = Len(call.scans) - 1
      /\ \A k \in 1..(Len(call.scans) - 1) : Tail(call.scans)[k] = call.scans[k + 1]
  BY <1>1, HeadAndTail
<1>3. ASSUME K!CleanFamilyDone PROVE KeychainInv'
  <2>1. store' = store /\ call' = [call EXCEPT !.scans = Tail(call.scans)]
    BY <1>3 DEF K!CleanFamilyDone
  <2>2. call' \in KeychainCall /\ call'.op = "clean" /\ call'.value = call.value
        /\ call'.scans = Tail(call.scans)
    BY <1>1, <1>2, <2>1 DEF KeychainCall
  <2>3. ((Empty /\ call.value = K!Nothing) \/ Gives(call.value))'
    BY <1>1, <2>1, <2>2 DEF Empty, Gives, Holds
  <2>4. ASSUME K!IsManifest', NEW k \in 1..Len(call'.scans)
        PROVE  \/ call'.scans[k].generation # store'[K!Primary].generation
               \/ call'.scans[k].at >= store'[K!Primary].count
    <3>1. k \in 1..(Len(call.scans) - 1) /\ k + 1 \in 1..Len(call.scans)
          /\ call'.scans[k] = call.scans[k + 1]
      BY <1>2, <2>2, <2>4
    <3>2. K!IsManifest
      BY <2>1, <2>4 DEF K!IsManifest
    <3> QED BY <1>1, <2>1, <3>1, <3>2
  <2> QED BY <2>2, <2>3, <2>4 DEF KeychainInv, KeychainCallInv, Gives
<1>4. ASSUME K!CleanNext PROVE KeychainInv'
  <2>1. PICK i \in K!WithinReach(scan) :
          /\ store' = K!Drop(<<scan.generation, i>>)
          /\ call' = [call EXCEPT !.scans = <<K!Scan(scan.generation, i + 1)>> \o Tail(call.scans)]
    BY <1>4 DEF K!CleanNext
  <2> DEFINE ss == <<K!Scan(scan.generation, i + 1)>> \o Tail(call.scans)
             e == <<scan.generation, i>>
  <2>2. i \in Nat /\ i >= scan.at /\ scan.at \in Nat /\ scan.generation \in K!Families
    BY <1>2 DEF K!WithinReach, K!KeychainAssumption
  <2>3. K!Scan(scan.generation, i + 1) \in Scans
    BY <2>2 DEF K!Scan
  <2>4. ss \in Seq(Scans) /\ Len(ss) = Len(call.scans) /\ ss[1] = K!Scan(scan.generation, i + 1)
        /\ \A k \in 2..Len(call.scans) : ss[k] = call.scans[k]
    BY <1>2, <2>3
  <2>5. call' \in KeychainCall /\ call'.op = "clean" /\ call'.value = call.value /\ call'.scans = ss
    BY <1>1, <2>1, <2>4 DEF KeychainCall
  <2>6. e # K!Primary
    BY <2>2 DEF K!Primary, K!Families, K!Legacy
  <2>7. /\ DOMAIN store' = DOMAIN store \ {e}
        /\ \A f \in DOMAIN store \ {e} : store'[f] = store[f]
    BY <2>1 DEF K!Drop
  <2>8. (Empty' <=> Empty) /\ (~Empty => store'[K!Primary] = store[K!Primary])
        /\ (K!IsManifest' => K!IsManifest /\ store'[K!Primary] = store[K!Primary])
    BY <2>6, <2>7 DEF Empty, K!IsManifest
  <2>9. ASSUME Gives(call.value) PROVE Gives(call.value)'
    <3>0. PICK v \in Values : v = call.value
      BY <2>9 DEF Gives
    <3>1. v \in Values /\ Holds(v) /\ K!Primary \in DOMAIN store /\ ~Empty
      BY <2>9, <3>0 DEF Gives, Holds, Empty
    <3>2. ASSUME K!IsManifest, NEW j \in Nat, j < Pieces[v]
          PROVE  <<store[K!Primary].generation, j>> # e
      <4>1. store[K!Primary].count = Pieces[v]
        BY <3>1, <3>2, ManifestNames
      <4>2. scan.generation # store[K!Primary].generation \/ scan.at >= Pieces[v]
        BY <1>1, <1>2, <3>2, <4>1
      <4>3. Pieces[v] \in Nat
        BY <3>1, PiecesType
      <4> QED BY <2>2, <3>2, <4>2, <4>3
    <3>3. \A j \in Nat : K!IsManifest => LET f == <<store[K!Primary].generation, j>> IN
            f \in DOMAIN store /\ j < Pieces[v] => f \in DOMAIN store' /\ store'[f] = store[f]
      BY <2>7, <3>2
    <3>4. K!Primary \in DOMAIN store' /\ store'[K!Primary] = store[K!Primary]
      BY <2>6, <2>7, <2>8, <3>1
    <3>5. Holds(v)'
      BY <3>1, <3>3, <3>4, SameHolds
    <3> QED BY <2>5, <3>0, <3>5 DEF Gives
  <2>10. ((Empty /\ call.value = K!Nothing) \/ Gives(call.value))'
    BY <1>1, <2>5, <2>8, <2>9 DEF Gives
  <2>11. ASSUME K!IsManifest', NEW k \in 1..Len(ss)
         PROVE  \/ ss[k].generation # store'[K!Primary].generation
                \/ ss[k].at >= store'[K!Primary].count
    <3>0. K!IsManifest /\ store'[K!Primary] = store[K!Primary]
      BY <2>8, <2>11
    <3>1. CASE k = 1
      <4>1. ss[k].generation = scan.generation /\ ss[k].at = i + 1
        BY <2>4, <3>1 DEF K!Scan
      <4>2. scan.generation # store[K!Primary].generation \/ scan.at >= store[K!Primary].count
        BY <1>1, <1>2, <3>0
      <4>3. store[K!Primary].count \in Nat
        BY <1>1, <3>0, ManifestNames, PiecesType DEF Gives, Empty, K!IsManifest
      <4> QED BY <2>2, <3>0, <4>1, <4>2, <4>3
    <3>2. CASE k # 1
      <4>1. k \in 2..Len(call.scans) /\ k \in 1..Len(call.scans)
        BY <1>2, <2>4, <3>2
      <4> QED BY <1>1, <2>4, <3>0, <4>1
    <3> QED BY <3>1, <3>2
  <2> QED BY <2>5, <2>10, <2>11 DEF KeychainInv, KeychainCallInv, Gives
<1> QED BY <1>3, <1>4

LEMMA KeychainStep == K!KeychainAssumption /\ KeychainInv /\ [K!Next]_K!vars => KeychainInv'
BY UntouchedInv, ShortInv, PieceInv, ManifestInv, DropInv, CleanInv DEF K!Next

\* The device's credential store: wherever set or delete stands when the process
\* dies, for any values and any number of pieces, a read gives one value whole:
\* the old one until the primary entry is written, and the new one from then on.
LEMMA ReadsAreWhole == ASSUME K!KeychainAssumption PROVE K!Spec => []K!ReadsWhole
<1>1. KeychainInv => K!ReadsWhole
  <2> SUFFICES ASSUME KeychainInv, call # K!Idle
               PROVE  K!Read = (IF call.op = "clean" THEN call.value ELSE before)
    BY DEF K!ReadsWhole
  <2>1. call.op \in {"short", "pieces", "delete", "clean"}
    BY DEF KeychainInv, KeychainCallInv, KeychainCall
  <2>2. CASE call.op = "clean"
    <3>1. (Empty /\ call.value = K!Nothing) \/ Gives(call.value)
      BY <2>2 DEF KeychainInv, KeychainCallInv
    <3> QED BY <2>2, <3>1, ReadHolds, ReadEmpty DEF Gives
  <2>3. CASE call.op # "clean"
    <3>1. (Empty /\ before = K!Nothing) \/ Gives(before)
      BY <2>1, <2>3 DEF KeychainInv, KeychainCallInv
    <3> QED BY <2>3, <3>1, ReadHolds, ReadEmpty DEF Gives
  <2> QED BY <2>2, <2>3
<1> QED BY <1>1, KeychainStart, KeychainStep, PTL DEF K!Spec

-----------------------------------------------------------------------------
\* No value has more pieces than a torn clean-up's hole can be crossed for.
Crossable == \A v \in Values : Pieces[v] <= GAP_TOLERANCE + 1

InUse(g, i) == K!IsManifest /\ store[K!Primary].generation = g /\ i < store[K!Primary].count
Reached(g, i) ==
  \E k \in 1..Len(call.scans) : call.scans[k].generation = g /\ call.scans[k].at <= i

\* Whatever piece is in no use is still ahead of a scan of the clean-up.
StrandInv ==
  /\ \A e \in DOMAIN store : e # K!Primary => \E g \in K!Families, i \in 0..GAP_TOLERANCE : e = <<g, i>>
  /\ call.op = "clean" =>
       \A g \in K!Families, i \in 0..GAP_TOLERANCE :
         <<g, i>> \in DOMAIN store => InUse(g, i) \/ Reached(g, i)
  /\ tidy =>
       /\ call.op = "idle"
       /\ \A g \in K!Families, i \in 0..GAP_TOLERANCE : <<g, i>> \in DOMAIN store => InUse(g, i)

LEMMA StrandStart == ASSUME K!KeychainAssumption, Crossable, K!Init PROVE StrandInv
<1>1. call.op = "idle" /\ ~tidy BY KeychainCalls DEF K!Init
<1>2. ASSUME NEW e \in DOMAIN store, e # K!Primary
      PROVE  \E g \in K!Families, i \in 0..GAP_TOLERANCE : e = <<g, i>>
  <2>1. PICK v \in Values : e \in {<<K!Legacy, i>> : i \in 0..(Pieces[v] - 1)}
    <3>1. \/ DOMAIN store = {} \/ DOMAIN store = {K!Primary}
          \/ \E v \in Values : DOMAIN store = {K!Primary} \cup {<<K!Legacy, i>> : i \in 0..(Pieces[v] - 1)}
      <4>1. CASE store = [x \in {} |-> K!Nothing] BY <4>1
      <4>2. CASE \E v \in Values : store = [x \in {K!Primary} |-> K!Plain(v)] BY <4>2
      <4>3. CASE \E v \in Values :
                   store = [x \in {K!Primary} \cup {<<K!Legacy, i>> : i \in 0..(Pieces[v] - 1)} |->
                              IF x = K!Primary THEN K!Manifest(Pieces[v], K!Legacy) ELSE K!Piece(v, x[2])]
        BY <4>3
      <4> QED BY <4>1, <4>2, <4>3 DEF K!Init
    <3> QED BY <1>2, <3>1
  <2>2. PICK i \in 0..(Pieces[v] - 1) : e = <<K!Legacy, i>> BY <2>1
  <2>3. i \in 0..GAP_TOLERANCE
    BY <2>2, PiecesType, K!KeychainAssumption DEF Crossable, K!KeychainAssumption
  <2> QED BY <2>2, <2>3 DEF K!Families
<1> QED BY <1>1, <1>2 DEF StrandInv

\* A call that starts, ends or is cut off.
LEMMA StrandUntouched ==
  ASSUME K!KeychainAssumption, KeychainInv, StrandInv,
         \/ \E v \in Values : K!SetShort(v) \/ K!SetLong(v)
         \/ K!Delete \/ K!Finish \/ K!CutOff \/ UNCHANGED K!vars
  PROVE  StrandInv'
<1>1. store' = store
  BY DEF K!SetShort, K!SetLong, K!Delete, K!Begin, K!Finish, K!CutOff, K!vars
<1>2. \A g, i : InUse(g, i)' <=> InUse(g, i) BY <1>1 DEF InUse, K!IsManifest
<1>3. CASE \/ \E v \in Values : K!SetShort(v) \/ K!SetLong(v)
           \/ K!Delete
  <2>1. ~tidy' BY <1>3 DEF K!SetShort, K!SetLong, K!Delete, K!Begin
  <2>2. call'.op \in {"short", "pieces", "delete"}
    <3>1. \A v \in Values : v \in Values \cup {K!Nothing} OBVIOUS
    <3>2. K!NextGeneration \in K!Families BY DEF K!NextGeneration, K!GENERATIONS, K!Families
    <3>3. K!Legacy \in K!Families BY DEF K!Families
    <3> QED BY <1>3, <3>1, <3>2, <3>3, BeginCall DEF K!SetShort, K!SetLong, K!Delete
  <2> QED BY <1>1, <2>1, <2>2 DEF StrandInv
<1>4. CASE K!Finish
  <2>1. call.op = "clean" /\ call.scans = <<>> /\ call' = K!Idle BY <1>4 DEF K!Finish
  <2>2. \A g, i : ~Reached(g, i) BY <2>1 DEF Reached
  <2>3. call'.op = "idle" BY <2>1, KeychainCalls
  <2> QED BY <1>1, <1>2, <2>1, <2>2, <2>3 DEF StrandInv
<1>5. CASE K!CutOff
  <2>1. call'.op = "idle" /\ tidy' = tidy BY <1>5, KeychainCalls DEF K!CutOff
  <2> QED BY <1>1, <1>2, <2>1 DEF StrandInv
<1>6. CASE UNCHANGED K!vars
  <2>1. call' = call /\ tidy' = tidy BY <1>6 DEF K!vars
  <2>2. \A g, i : Reached(g, i)' <=> Reached(g, i) BY <2>1 DEF Reached
  <2> QED BY <1>1, <1>2, <2>1, <2>2 DEF StrandInv
<1> QED BY <1>3, <1>4, <1>5, <1>6

\* Scans begin where every piece in no use is ahead of one of them.
LEMMA ScansReach ==
  ASSUME NEW g \in K!Families
  PROVE  \E k \in 1..Len(K!ScansAll) : K!ScansAll[k].generation = g /\ K!ScansAll[k].at = 0
<1>1. K!ScansAll = <<K!Scan(K!Legacy, 0), K!Scan("a", 0), K!Scan("b", 0)>>
  BY DEF K!ScansAll, K!GENERATIONS
<1> QED BY <1>1 DEF K!Families, K!Scan

LEMMA ScansReachAround ==
  ASSUME NEW g \in {"a", "b"}, NEW n \in Nat, NEW h \in K!Families
  PROVE  \E k \in 1..Len(K!ScansAround(g, n)) :
           /\ K!ScansAround(g, n)[k].generation = h
           /\ K!ScansAround(g, n)[k].at \in 0..n /\ (h # g => K!ScansAround(g, n)[k].at = 0)
<1>1. K!ScansAround(g, n) = <<K!Scan(g, n), K!Scan(K!Legacy, 0), K!Scan(IF g = "a" THEN "b" ELSE "a", 0)>>
  BY DEF K!ScansAround, K!GENERATIONS
<1> QED BY <1>1 DEF K!Families, K!Scan, K!Legacy

LEMMA StrandWrites ==
  ASSUME K!KeychainAssumption, Crossable, KeychainInv, StrandInv,
         K!WriteShort \/ K!WritePiece \/ K!WriteManifest \/ K!DropPrimary
  PROVE  StrandInv'
<1>1. call \in KeychainCall /\ tidy' = tidy /\ ~tidy
  BY
  DEF KeychainInv, KeychainCallInv, StrandInv, K!WriteShort, K!WritePiece, K!WriteManifest,
      K!DropPrimary
<1>2. CASE K!WriteShort \/ K!DropPrimary
  <2>1. DOMAIN store' \subseteq DOMAIN store \cup {K!Primary}
    BY <1>2 DEF K!WriteShort, K!DropPrimary, K!Put, K!Drop
  <2>2. call'.scans = K!ScansAll BY <1>1, <1>2 DEF K!WriteShort, K!DropPrimary, KeychainCall
  <2>3. ASSUME NEW g \in K!Families, NEW i \in 0..GAP_TOLERANCE PROVE Reached(g, i)'
    <3>1. PICK k \in 1..Len(K!ScansAll) : K!ScansAll[k].generation = g /\ K!ScansAll[k].at = 0
      BY ScansReach
    <3>2. 0 <= i OBVIOUS
    <3> QED BY <2>2, <3>1, <3>2 DEF Reached
  <2> QED BY <1>1, <2>1, <2>3 DEF StrandInv
<1>3. CASE K!WritePiece
  <2>1. /\ call.at \in 0..GAP_TOLERANCE /\ call.generation \in K!Families /\ call'.op = "pieces"
    <3>1. call.value \in Values /\ call.at \in Nat /\ call.at < Pieces[call.value]
          /\ call.generation \in K!Families /\ call'.op = "pieces"
      BY <1>1, <1>3 DEF K!WritePiece, KeychainInv, KeychainCallInv, KeychainCall
    <3> QED BY <3>1, PiecesType, K!KeychainAssumption DEF Crossable, K!KeychainAssumption
  <2>2. DOMAIN store' = DOMAIN store \cup {<<call.generation, call.at>>}
    BY <1>3 DEF K!WritePiece, K!Put
  <2> QED BY <1>1, <2>1, <2>2 DEF StrandInv
<1>4. CASE K!WriteManifest
  <2> DEFINE g == call.generation
             n == Pieces[call.value]
  <2>1. /\ g \in {"a", "b"} /\ n \in Nat
        /\ call'.scans = K!ScansAround(g, n) /\ call'.op = "clean"
    BY <1>1, <1>4, PiecesType DEF K!WriteManifest, KeychainInv, KeychainCallInv, KeychainCall
  <2>2. /\ DOMAIN store' = DOMAIN store \cup {K!Primary}
        /\ store'[K!Primary] = K!Manifest(n, g)
    BY <1>4 DEF K!WriteManifest, K!Put
  <2> HIDE DEF g, n
  <2>3. K!IsManifest' /\ store'[K!Primary].generation = g /\ store'[K!Primary].count = n
    BY <2>2 DEF K!IsManifest, K!Manifest
  <2>4. ASSUME NEW h \in K!Families, NEW i \in 0..GAP_TOLERANCE
        PROVE  InUse(h, i)' \/ Reached(h, i)'
    <3>1. PICK k \in 1..Len(K!ScansAround(g, n)) :
            /\ K!ScansAround(g, n)[k].generation = h
            /\ K!ScansAround(g, n)[k].at \in 0..n /\ (h # g => K!ScansAround(g, n)[k].at = 0)
      BY <2>1, ScansReachAround
    <3>2. CASE h = g /\ i < n BY <2>3, <3>2 DEF InUse
    <3>3. CASE ~(h = g /\ i < n)
      <4>1. K!ScansAround(g, n)[k].at <= i
        BY <2>1, <3>1, <3>3, K!KeychainAssumption DEF K!KeychainAssumption
      <4> QED BY <2>1, <3>1, <4>1 DEF Reached
    <3> QED BY <3>2, <3>3
  <2> QED BY <1>1, <2>2, <2>4 DEF StrandInv
<1> QED BY <1>2, <1>3, <1>4

LEMMA StrandClean ==
  ASSUME K!KeychainAssumption, KeychainInv, StrandInv, K!CleanNext \/ K!CleanFamilyDone PROVE StrandInv'
<1> DEFINE Scans == [generation : K!Families, at : Nat]
           scan == Head(call.scans)
<1>1. /\ call \in KeychainCall /\ call.op = "clean" /\ call.scans \in Seq(Scans) /\ call.scans # <<>>
      /\ tidy' = tidy /\ ~tidy
  BY DEF KeychainInv, KeychainCallInv, K!CleanNext, K!CleanFamilyDone, KeychainCall, StrandInv
<1>2. scan \in Scans /\ scan = call.scans[1] /\ Len(call.scans) >= 1 /\ Len(call.scans) \in Nat
      /\ Tail(call.scans) \in Seq(Scans) /\ Len(Tail(call.scans)) = Len(call.scans) - 1
      /\ \A k \in 1..(Len(call.scans) - 1) : Tail(call.scans)[k] = call.scans[k + 1]
  BY <1>1, HeadAndTail
<1>3. \A g \in K!Families, i \in 0..GAP_TOLERANCE :
        <<g, i>> \in DOMAIN store /\ ~InUse(g, i) =>
          \/ g = scan.generation /\ i \in K!WithinReach(scan)
          \/ \E k \in 2..Len(call.scans) : call.scans[k].generation = g /\ call.scans[k].at <= i
  <2> TAKE g \in K!Families, i \in 0..GAP_TOLERANCE
  <2> HAVE <<g, i>> \in DOMAIN store /\ ~InUse(g, i)
  <2>1. PICK k \in 1..Len(call.scans) : call.scans[k].generation = g /\ call.scans[k].at <= i
    BY <1>1 DEF StrandInv, Reached
  <2>2. CASE k = 1
    <3>1. scan.at \in Nat /\ scan.at <= i /\ g = scan.generation BY <1>2, <2>1, <2>2
    <3>2. i \in scan.at..(scan.at + GAP_TOLERANCE)
      BY <3>1, K!KeychainAssumption DEF K!KeychainAssumption
    <3> QED BY <3>1, <3>2 DEF K!WithinReach
  <2>3. CASE k # 1 BY <1>2, <2>1, <2>3
  <2> QED BY <2>2, <2>3
<1>4. CASE K!CleanFamilyDone
  <2>1. /\ store' = store /\ call'.scans = Tail(call.scans) /\ K!WithinReach(scan) = {}
    BY <1>1, <1>4 DEF K!CleanFamilyDone, KeychainCall
  <2>2. ASSUME NEW g \in K!Families, NEW i \in 0..GAP_TOLERANCE, <<g, i>> \in DOMAIN store
        PROVE  InUse(g, i)' \/ Reached(g, i)'
    <3>1. CASE InUse(g, i) BY <2>1, <3>1 DEF InUse, K!IsManifest
    <3>2. CASE ~InUse(g, i)
      <4>1. PICK k \in 2..Len(call.scans) : call.scans[k].generation = g /\ call.scans[k].at <= i
        BY <1>3, <2>1, <2>2, <3>2
      <4>2. k - 1 \in 1..(Len(call.scans) - 1) /\ (k - 1) + 1 = k BY <1>2
      <4>3. Tail(call.scans)[k - 1] = call.scans[k] BY <1>2, <4>2
      <4> QED BY <1>2, <2>1, <4>1, <4>2, <4>3 DEF Reached
    <3> QED BY <3>1, <3>2
  <2> QED BY <1>1, <2>1, <2>2 DEF StrandInv
<1>5. CASE K!CleanNext
  <2>1. PICK i \in K!WithinReach(scan) :
          /\ \A j \in K!WithinReach(scan) : i <= j
          /\ store' = K!Drop(<<scan.generation, i>>)
          /\ call' = [call EXCEPT !.scans = <<K!Scan(scan.generation, i + 1)>> \o Tail(call.scans)]
    BY <1>5 DEF K!CleanNext
  <2> DEFINE ss == <<K!Scan(scan.generation, i + 1)>> \o Tail(call.scans)
             e == <<scan.generation, i>>
  <2>2. i \in Nat /\ scan.generation \in K!Families
    BY <1>2 DEF K!WithinReach, K!KeychainAssumption
  <2>3. K!Scan(scan.generation, i + 1) \in Scans
        /\ K!Scan(scan.generation, i + 1).generation = scan.generation
        /\ K!Scan(scan.generation, i + 1).at = i + 1
    BY <2>2 DEF K!Scan
  <2>4. ss \in Seq(Scans) /\ Len(ss) = Len(call.scans) /\ ss[1] = K!Scan(scan.generation, i + 1)
        /\ \A k \in 2..Len(call.scans) : ss[k] = call.scans[k]
    BY <1>2, <2>3
  <2>5. call'.scans = ss BY <1>1, <2>1, <2>4 DEF KeychainCall
  <2>6. e # K!Primary BY <2>2 DEF K!Primary, K!Families, K!Legacy
  <2>7. DOMAIN store' = DOMAIN store \ {e} /\ \A f \in DOMAIN store \ {e} : store'[f] = store[f]
    BY <2>1 DEF K!Drop
  <2>8. \A g, j : InUse(g, j) => InUse(g, j)' BY <2>6, <2>7 DEF InUse, K!IsManifest
  <2>9. ASSUME NEW g \in K!Families, NEW j \in 0..GAP_TOLERANCE, <<g, j>> \in DOMAIN store'
        PROVE  InUse(g, j)' \/ Reached(g, j)'
    <3>1. CASE InUse(g, j) BY <2>8, <3>1
    <3>2. ASSUME g = scan.generation, j \in K!WithinReach(scan) PROVE Reached(g, j)'
      <4>1. i <= j /\ i # j BY <2>1, <2>7, <2>9, <3>2
      <4>2. i + 1 <= j BY <2>2, <4>1, K!KeychainAssumption DEF K!KeychainAssumption
      <4>3. 1 \in 1..Len(ss) BY <1>2, <2>4
      <4> QED BY <2>3, <2>4, <2>5, <3>2, <4>2, <4>3 DEF Reached
    <3>3. ASSUME NEW k \in 2..Len(call.scans), call.scans[k].generation = g, call.scans[k].at <= j
          PROVE  Reached(g, j)'
      <4>1. k \in 1..Len(ss) /\ ss[k] = call.scans[k] BY <1>2, <2>4
      <4> QED BY <2>5, <3>3, <4>1 DEF Reached
    <3> QED BY <1>3, <2>7, <2>9, <3>1, <3>2, <3>3
  <2> QED BY <1>1, <2>7, <2>9 DEF StrandInv
<1> QED BY <1>4, <1>5

LEMMA StrandNext ==
  K!KeychainAssumption /\ Crossable /\ KeychainInv /\ StrandInv /\ [K!Next]_K!vars => StrandInv'
BY StrandUntouched, StrandWrites, StrandClean DEF K!Next

LEMMA NothingLeft ==
  ASSUME K!KeychainAssumption, KeychainInv, StrandInv PROVE K!NothingStranded
<1> SUFFICES ASSUME tidy PROVE DOMAIN store = K!LiveEntries BY DEF K!NothingStranded
<1>1. ASSUME NEW e \in DOMAIN store PROVE e \in K!LiveEntries
  <2>1. CASE e = K!Primary BY <2>1 DEF K!LiveEntries
  <2>2. CASE e # K!Primary
    <3>1. PICK g \in K!Families, i \in 0..GAP_TOLERANCE : e = <<g, i>> BY <2>2 DEF StrandInv
    <3>2. InUse(g, i) BY <3>1 DEF StrandInv
    <3>3. PICK v \in Values : Holds(v) BY <3>2 DEF KeychainInv, Empty, InUse, K!IsManifest
    <3>4. store[K!Primary].count = Pieces[v] /\ Pieces[v] \in Nat
      BY <3>2, <3>3, ManifestNames, PiecesType DEF InUse
    <3>5. i \in 0..(store[K!Primary].count - 1)
      BY <3>2, <3>4, K!KeychainAssumption DEF InUse, K!KeychainAssumption
    <3> QED BY <3>1, <3>2, <3>5 DEF InUse, K!LiveEntries, K!ChunksOf
  <2> QED BY <2>1, <2>2
<1>2. ASSUME NEW e \in K!LiveEntries PROVE e \in DOMAIN store
  <2>1. CASE e = K!Primary BY <2>1 DEF K!LiveEntries, K!IsManifest, K!ChunksOf
  <2>2. CASE e # K!Primary
    <3>1. K!IsManifest /\ e \in K!ChunksOf(store[K!Primary]) BY <1>2, <2>2 DEF K!LiveEntries
    <3>2. PICK v \in Values : Holds(v) BY <3>1 DEF KeychainInv, Empty, K!IsManifest
    <3> QED BY <3>1, <3>2, ManifestNames DEF K!ChunksOf
  <2> QED BY <2>1, <2>2
<1> QED BY <1>1, <1>2

LEMMA NoneStranded ==
  ASSUME K!KeychainAssumption, Crossable PROVE K!Spec => []K!NothingStranded
BY StrandStart, KeychainStart, KeychainStep, StrandNext, NothingLeft, PTL DEF K!Spec

-----------------------------------------------------------------------------
(* LinkFlow *)
Row == {"active", "needs_reauth", "disconnected", None}
Notice ==
  {<<"none">>} \cup ({"connected"} \X F!External \X Nat) \cup ({"nothing"} \X Nat)

FlowType ==
  /\ rows \in [F!External -> Row] /\ minute \in 0..MaxTime
  /\ links \in Seq(F!Attempt)
  /\ panel \in [Panels -> [pending : Nat \cup {None}, busy : BOOLEAN, notice : Notice]]

\* While it polls, a link has in its history whatever the poll may find ...
AttemptInv(a) ==
  /\ links[a].polling =>
       \A x \in F!External : rows[x] # None /\ x \notin links[a].known => x \in links[a].linked
  /\ links[a].polling /\ links[a].relink # None /\ rows[links[a].relink] = "active" =>
       links[a].relink \in links[a].linked
  /\ links[a].reply # None => links[a].reply \in links[a].linked
  /\ links[a].session = "finished" => links[a].item \in Items
  /\ links[a].provider = "plaid" => links[a].relink \in Items \cup {None}

\* ... and the link a panel waits for polls.
PanelInv(p) ==
  /\ panel[p].pending # None =>
       /\ panel[p].pending \in DOMAIN links
       /\ links[panel[p].pending].panel = p /\ links[panel[p].pending].polling
  /\ panel[p].notice[1] = "connected" =>
       /\ panel[p].notice[3] \in DOMAIN links
       /\ panel[p].notice[2] \in links[panel[p].notice[3]].linked

FlowInv ==
  /\ FlowType
  /\ \A a \in DOMAIN links : AttemptInv(a)
  /\ \A p \in Panels : PanelInv(p)

LEMMA SequenceOf ==
  ASSUME NEW T, NEW n \in Nat, NEW f \in [1..n -> T]
  PROVE  f \in Seq(T) /\ Len(f) = n
OBVIOUS

LEMMA Changed ==
  ASSUME NEW T, NEW s \in Seq(T), NEW i \in DOMAIN s, NEW x \in T
  PROVE  /\ [s EXCEPT ![i] = x] \in Seq(T) /\ DOMAIN [s EXCEPT ![i] = x] = DOMAIN s
         /\ [s EXCEPT ![i] = x][i] = x
         /\ \A j \in DOMAIN s : j # i => [s EXCEPT ![i] = x][j] = s[j]
OBVIOUS

LEMMA AttemptType ==
  ASSUME FlowType, NEW a \in DOMAIN links
  PROVE  /\ links[a] \in F!Attempt /\ links[a].panel \in Panels
         /\ links[a].relink \in F!External \cup {None} /\ links[a].reply \in F!External \cup {None}
         /\ a \in Nat
<1>1. links[a] \in F!Attempt BY DEF FlowType
<1>2. a \in Nat BY DEF FlowType
<1> QED BY <1>1, <1>2 DEF F!Attempt

LEMMA Aborted ==
  ASSUME NEW t \in F!Attempt
  PROVE  LET u == [t EXCEPT !.aborted = TRUE] IN
         /\ u \in F!Attempt
         /\ u.panel = t.panel /\ u.polling = t.polling /\ u.relink = t.relink /\ u.provider = t.provider
         /\ u.known = t.known /\ u.reply = t.reply /\ u.item = t.item
         /\ u.session = t.session /\ u.linked = t.linked
BY DEF F!Attempt

LEMMA NoticeKinds ==
  /\ <<"none">> \in Notice /\ <<"none">>[1] # "connected"
  /\ \A a \in Nat : <<"nothing", a>> \in Notice /\ <<"nothing", a>>[1] # "connected"
  /\ \A x \in F!External, a \in Nat :
       /\ <<"connected", x, a>> \in Notice
       /\ <<"connected", x, a>>[2] = x /\ <<"connected", x, a>>[3] = a
BY DEF Notice

\* A step of one link that polls on leaves the others and their panels alone.
LEMMA OneAttempt ==
  ASSUME FlowInv, UNCHANGED <<rows, panel, minute>>,
         NEW a \in DOMAIN links, NEW new \in F!Attempt, links' = [links EXCEPT ![a] = new],
         new.panel = links[a].panel, new.polling = links[a].polling,
         new.relink = links[a].relink, new.provider = links[a].provider, new.known = links[a].known,
         new.linked = links[a].linked, new.reply \in {None, links[a].reply},
         new.session = "finished" => new.item \in Items
  PROVE  FlowInv'
<1>1. /\ links' \in Seq(F!Attempt) /\ DOMAIN links' = DOMAIN links
      /\ links'[a] = new /\ \A b \in DOMAIN links : b # a => links'[b] = links[b]
  BY Changed DEF FlowInv, FlowType
<1>2. FlowType' BY <1>1 DEF FlowInv, FlowType
<1>3. ASSUME NEW b \in DOMAIN links PROVE AttemptInv(b)'
  <2>1. AttemptInv(b) BY DEF FlowInv
  <2>2. CASE b = a BY <1>1, <2>1, <2>2 DEF AttemptInv
  <2>3. CASE b # a BY <1>1, <2>1, <2>3 DEF AttemptInv
  <2> QED BY <2>2, <2>3
<1>4. ASSUME NEW p \in Panels PROVE PanelInv(p)'
  <2>1. PanelInv(p) BY DEF FlowInv
  <2>2. \A b \in DOMAIN links :
          /\ links'[b].panel = links[b].panel /\ links'[b].polling = links[b].polling
          /\ links'[b].linked = links[b].linked
    BY <1>1
  <2> QED BY <1>1, <2>1, <2>2 DEF PanelInv
<1> QED BY <1>1, <1>2, <1>3, <1>4 DEF FlowInv

\* What persistLinkedAccount leaves of a table of links.
LEMMA Persisted ==
  ASSUME FlowType, NEW x \in F!External, NEW table \in Seq(F!Attempt), F!Persist(x, table)
  PROVE  /\ rows' = [rows EXCEPT ![x] = "active"] /\ rows' \in [F!External -> Row]
         /\ links' \in Seq(F!Attempt) /\ DOMAIN links' = DOMAIN table
         /\ \A a \in DOMAIN table :
              /\ links'[a].panel = table[a].panel /\ links'[a].polling = table[a].polling
              /\ links'[a].relink = table[a].relink /\ links'[a].provider = table[a].provider /\ links'[a].known = table[a].known
              /\ links'[a].reply = table[a].reply /\ links'[a].item = table[a].item
              /\ links'[a].session = table[a].session
              /\ table[a].linked \subseteq links'[a].linked
              /\ table[a].polling => x \in links'[a].linked
<1>1. rows' = [rows EXCEPT ![x] = "active"] /\ rows' \in [F!External -> Row]
  BY DEF F!Persist, FlowType, Row
<1>2. links' = [a \in DOMAIN table |->
        IF table[a].polling THEN [table[a] EXCEPT !.linked = @ \cup {x}] ELSE table[a]]
  BY DEF F!Persist
<1>3. ASSUME NEW a \in DOMAIN table
      PROVE  /\ table[a] \in F!Attempt
             /\ [table[a] EXCEPT !.linked = @ \cup {x}] \in F!Attempt
  <2>1. table[a] \in F!Attempt OBVIOUS
  <2> QED BY <2>1 DEF F!Attempt
<1>4. links' \in [1..Len(table) -> F!Attempt] /\ Len(table) \in Nat /\ DOMAIN table = 1..Len(table)
  BY <1>2, <1>3
<1>5. links' \in Seq(F!Attempt) /\ DOMAIN links' = DOMAIN table
  BY <1>4, SequenceOf
<1>6. ASSUME NEW a \in DOMAIN table
      PROVE  /\ links'[a].panel = table[a].panel /\ links'[a].polling = table[a].polling
             /\ links'[a].relink = table[a].relink /\ links'[a].provider = table[a].provider /\ links'[a].known = table[a].known
             /\ links'[a].reply = table[a].reply /\ links'[a].item = table[a].item
             /\ links'[a].session = table[a].session
             /\ table[a].linked \subseteq links'[a].linked
             /\ table[a].polling => x \in links'[a].linked
  <2>1. table[a] \in F!Attempt BY <1>3
  <2>2. CASE table[a].polling
    <3>1. links'[a] = [table[a] EXCEPT !.linked = @ \cup {x}] BY <1>2, <2>2
    <3> QED BY <2>1, <3>1 DEF F!Attempt
  <2>3. CASE ~table[a].polling
    <3>1. links'[a] = table[a] BY <1>2, <2>3
    <3> QED BY <2>1, <2>3, <3>1 DEF F!Attempt
  <2> QED BY <2>2, <2>3
<1> QED BY <1>1, <1>5, <1>6

\* An account is persisted: every link that polls saw it come.
LEMMA PersistStep ==
  ASSUME FlowInv, UNCHANGED minute, NEW a \in DOMAIN links, NEW x \in F!External,
         NEW new \in F!Attempt, F!Persist(x, [links EXCEPT ![a] = new]),
         new.panel = links[a].panel, new.polling = links[a].polling,
         new.relink = links[a].relink, new.provider = links[a].provider, new.known = links[a].known,
         new.linked = links[a].linked, new.session = "spent",
         new.reply = links[a].reply \/ (new.reply = x /\ new.polling),
         panel' \in [Panels -> [pending : Nat \cup {None}, busy : BOOLEAN, notice : Notice]],
         \A p \in Panels :
           panel'[p].pending = panel[p].pending /\ panel'[p].notice = panel[p].notice
  PROVE  FlowInv'
<1> DEFINE table == [links EXCEPT ![a] = new]
<1>1. /\ table \in Seq(F!Attempt) /\ DOMAIN table = DOMAIN links
      /\ table[a] = new /\ \A b \in DOMAIN links : b # a => table[b] = links[b]
  BY Changed DEF FlowInv, FlowType
<1> HIDE DEF table
<1>2. /\ rows' = [rows EXCEPT ![x] = "active"] /\ rows' \in [F!External -> Row]
      /\ links' \in Seq(F!Attempt) /\ DOMAIN links' = DOMAIN links
      /\ \A b \in DOMAIN links :
           /\ links'[b].panel = table[b].panel /\ links'[b].polling = table[b].polling
           /\ links'[b].relink = table[b].relink /\ links'[b].provider = table[b].provider /\ links'[b].known = table[b].known
           /\ links'[b].reply = table[b].reply /\ links'[b].item = table[b].item
           /\ links'[b].session = table[b].session
           /\ table[b].linked \subseteq links'[b].linked
           /\ table[b].polling => x \in links'[b].linked
  <2>1. FlowType BY DEF FlowInv
  <2>2. F!Persist(x, table) BY DEF table
  <2> QED BY <1>1, <2>1, <2>2, Persisted
<1>3. \A b \in DOMAIN links :
        /\ table[b].panel = links[b].panel /\ table[b].polling = links[b].polling
        /\ table[b].relink = links[b].relink /\ table[b].provider = links[b].provider /\ table[b].known = links[b].known
        /\ table[b].linked = links[b].linked
        /\ table[b].reply = links[b].reply \/ (table[b].reply = x /\ table[b].polling)
        /\ table[b].session = "finished" =>
             links[b].session = "finished" /\ table[b].item = links[b].item
  BY <1>1
<1>4. FlowType' BY <1>2 DEF FlowInv, FlowType
<1>5. ASSUME NEW b \in DOMAIN links PROVE AttemptInv(b)'
  <2>1. AttemptInv(b) BY DEF FlowInv
  <2>2. \A y \in F!External : rows'[y] = IF y = x THEN "active" ELSE rows[y]
    BY <1>2 DEF FlowInv, FlowType
  <2>3. links[b].relink \in F!External \cup {None} BY AttemptType DEF FlowInv
  <2> QED BY <1>2, <1>3, <2>1, <2>2, <2>3 DEF AttemptInv
<1>6. ASSUME NEW p \in Panels PROVE PanelInv(p)'
  <2>1. PanelInv(p) BY DEF FlowInv
  <2>2. /\ DOMAIN links' = DOMAIN links
        /\ \A b \in DOMAIN links :
             /\ links'[b].panel = links[b].panel /\ links'[b].polling = links[b].polling
             /\ links[b].linked \subseteq links'[b].linked
    BY <1>2, <1>3
  <2> QED BY <2>1, <2>2 DEF PanelInv
<1> QED BY <1>2, <1>4, <1>5, <1>6 DEF FlowInv

\* A link stops polling, and its panel tells the outcome.
LEMMA Stopped ==
  ASSUME FlowInv, UNCHANGED <<rows, minute>>, NEW a \in DOMAIN links,
         NEW notice \in Notice, F!Shown(links[a].panel, notice),
         notice[1] = "connected" => notice[3] = a /\ notice[2] \in links[a].linked,
         NEW new \in F!Attempt, links' = [links EXCEPT ![a] = new],
         new.panel = links[a].panel, new.polling => links[a].polling,
         new.relink = links[a].relink, new.provider = links[a].provider, new.known = links[a].known,
         new.linked = links[a].linked, new.reply \in {None, links[a].reply},
         new.session = links[a].session, new.item = links[a].item
  PROVE  FlowInv'
<1>1. /\ links' \in Seq(F!Attempt) /\ DOMAIN links' = DOMAIN links
      /\ links'[a] = new /\ \A b \in DOMAIN links : b # a => links'[b] = links[b]
  BY Changed DEF FlowInv, FlowType
<1>2. links[a] \in F!Attempt /\ links[a].panel \in Panels
  BY AttemptType DEF FlowInv
<1>3. /\ panel' \in [Panels -> [pending : Nat \cup {None}, busy : BOOLEAN, notice : Notice]]
      /\ panel'[links[a].panel] = [pending |-> None, busy |-> FALSE, notice |-> notice]
      /\ \A p \in Panels : p # links[a].panel => panel'[p] = panel[p]
  BY <1>2 DEF F!Shown, FlowInv, FlowType
<1>4. FlowType' BY <1>1, <1>3 DEF FlowInv, FlowType
<1>5. ASSUME NEW b \in DOMAIN links PROVE AttemptInv(b)'
  <2>1. AttemptInv(b) BY DEF FlowInv
  <2>2. CASE b = a BY <1>1, <2>1, <2>2 DEF AttemptInv
  <2>3. CASE b # a BY <1>1, <2>1, <2>3 DEF AttemptInv
  <2> QED BY <2>2, <2>3
<1>6. ASSUME NEW p \in Panels PROVE PanelInv(p)'
  <2>1. PanelInv(p) BY DEF FlowInv
  <2>2. CASE p = links[a].panel BY <1>1, <1>3, <2>2 DEF PanelInv
  <2>3. CASE p # links[a].panel
    <3>1. panel[p].pending # None => panel[p].pending # a BY <2>1, <2>3 DEF PanelInv
    <3>2. \A b \in DOMAIN links : links'[b].linked = links[b].linked BY <1>1
    <3> QED BY <1>1, <1>3, <2>1, <2>3, <3>1, <3>2 DEF PanelInv
  <2> QED BY <2>2, <2>3
<1> QED BY <1>1, <1>4, <1>5, <1>6 DEF FlowInv

LEMMA BeginStep ==
  ASSUME FlowInv, NEW p \in Panels, F!Begin(p) PROVE FlowInv'
<1>1. PICK kind \in F!Providers, x \in F!External \cup {None} :
        /\ IF kind = "oauth" THEN F!StartOAuthLink(x) ELSE F!StartPlaidLink(x)
        /\ links' = Append(links,
            [panel |-> p, provider |-> kind, relink |-> x, known |-> F!Known, from |-> minute,
             polling |-> TRUE, aborted |-> FALSE, session |-> "open", item |-> None,
             reply |-> None, linked |-> {}])
  BY DEF F!Begin
<1> DEFINE n == Len(links) + 1
           new == [panel |-> p, provider |-> kind, relink |-> x, known |-> F!Known,
                   from |-> minute, polling |-> TRUE, aborted |-> FALSE, session |-> "open",
                   item |-> None, reply |-> None, linked |-> {}]
<1>2. /\ rows' = rows /\ minute' = minute
      /\ panel' = [panel EXCEPT ![p] = [pending |-> Len(links'), busy |-> TRUE, notice |-> <<"none">>]]
  BY DEF F!Begin
<1>3. /\ x # None => rows[x] = "needs_reauth"
      /\ kind = "plaid" => x \in Items \cup {None}
  BY <1>1 DEF F!StartOAuthLink, F!StartPlaidLink, F!RelinkTarget
<1>4. new \in F!Attempt
  BY DEF F!Attempt, F!Known, F!Linked, FlowInv, FlowType
<1>5. /\ links' \in Seq(F!Attempt) /\ n \in Nat /\ Len(links') = n
      /\ DOMAIN links' = DOMAIN links \cup {n} /\ n \notin DOMAIN links
      /\ links'[n] = new /\ \A a \in DOMAIN links : links'[a] = links[a]
  <2> HIDE DEF new
  <2>1. links \in Seq(F!Attempt) BY DEF FlowInv, FlowType
  <2>2. links' = Append(links, new) BY <1>1 DEF new
  <2> QED BY <1>4, <2>1, <2>2
<1>6. /\ panel' \in [Panels -> [pending : Nat \cup {None}, busy : BOOLEAN, notice : Notice]]
      /\ panel'[p].pending = n /\ panel'[p].notice[1] # "connected"
      /\ \A q \in Panels : q # p => panel'[q] = panel[q]
  BY <1>2, <1>5, NoticeKinds DEF FlowInv, FlowType
<1>7. FlowType' BY <1>2, <1>5, <1>6 DEF FlowInv, FlowType
<1>8. ASSUME NEW a \in DOMAIN links' PROVE AttemptInv(a)'
  <2>1. CASE a = n
    <3>1. \A y \in F!External : rows[y] # None => y \in new.known BY DEF F!Known, F!Linked
    <3>2. new.relink = x /\ new.provider = kind /\ new.reply = None /\ new.session = "open"
      OBVIOUS
    <3> HIDE DEF new
    <3> QED BY <1>2, <1>3, <1>5, <2>1, <3>1, <3>2 DEF AttemptInv
  <2>2. CASE a # n
    <3>1. a \in DOMAIN links /\ AttemptInv(a) BY <1>5, <2>2 DEF FlowInv
    <3> QED BY <1>2, <1>5, <3>1 DEF AttemptInv
  <2> QED BY <2>1, <2>2
<1>9. ASSUME NEW q \in Panels PROVE PanelInv(q)'
  <2>1. CASE q = p
    <3>1. new.panel = p /\ new.polling OBVIOUS
    <3> HIDE DEF new
    <3> QED BY <1>5, <1>6, <2>1, <3>1 DEF PanelInv
  <2>2. CASE q # p
    <3>1. PanelInv(q) BY DEF FlowInv
    <3> QED BY <1>5, <1>6, <2>2, <3>1 DEF PanelInv
  <2> QED BY <2>1, <2>2
<1> QED BY <1>7, <1>8, <1>9 DEF FlowInv

\* A panel's controls or words change, and nothing else.
LEMMA PanelStep ==
  ASSUME FlowInv, UNCHANGED <<rows, minute>>, NEW p \in Panels,
         links' = links \/ \E a \in DOMAIN links :
           links' = [links EXCEPT ![a].aborted = TRUE],
         \/ panel' = [panel EXCEPT ![p].notice = <<"none">>]
         \/ panel' = [panel EXCEPT ![p].busy = FALSE]
         \/ panel' = [panel EXCEPT ![p].pending = None]
  PROVE  FlowInv'
<1>1. /\ links' \in Seq(F!Attempt) /\ DOMAIN links' = DOMAIN links
      /\ \A b \in DOMAIN links :
           /\ links'[b].panel = links[b].panel /\ links'[b].polling = links[b].polling
           /\ links'[b].relink = links[b].relink /\ links'[b].provider = links[b].provider /\ links'[b].known = links[b].known
           /\ links'[b].reply = links[b].reply /\ links'[b].item = links[b].item
           /\ links'[b].session = links[b].session
           /\ links'[b].linked = links[b].linked
  <2>0. links \in Seq(F!Attempt) BY DEF FlowInv, FlowType
  <2>1. CASE links' = links BY <2>0, <2>1
  <2>2. ASSUME NEW a \in DOMAIN links, links' = [links EXCEPT ![a].aborted = TRUE]
        PROVE  /\ links' \in Seq(F!Attempt) /\ DOMAIN links' = DOMAIN links
               /\ \A b \in DOMAIN links :
                    /\ links'[b].panel = links[b].panel /\ links'[b].polling = links[b].polling
                    /\ links'[b].relink = links[b].relink /\ links'[b].provider = links[b].provider /\ links'[b].known = links[b].known
                    /\ links'[b].reply = links[b].reply /\ links'[b].item = links[b].item
                    /\ links'[b].session = links[b].session
                    /\ links'[b].linked = links[b].linked
    <3> DEFINE new == [links[a] EXCEPT !.aborted = TRUE]
    <3>1. links[a] \in F!Attempt BY <2>0
    <3>2. /\ new \in F!Attempt
          /\ new.panel = links[a].panel /\ new.polling = links[a].polling
          /\ new.relink = links[a].relink /\ new.provider = links[a].provider /\ new.known = links[a].known
          /\ new.reply = links[a].reply /\ new.item = links[a].item
          /\ new.session = links[a].session /\ new.linked = links[a].linked
      BY <3>1, Aborted
    <3>3. links' = [links EXCEPT ![a] = new] BY <2>2
    <3> HIDE DEF new
    <3>4. /\ links' \in Seq(F!Attempt) /\ DOMAIN links' = DOMAIN links
          /\ links'[a] = new /\ \A b \in DOMAIN links : b # a => links'[b] = links[b]
      BY <2>0, <3>2, <3>3, Changed
    <3> QED BY <3>2, <3>4
  <2> QED BY <2>1, <2>2
<1>2. /\ panel' \in [Panels -> [pending : Nat \cup {None}, busy : BOOLEAN, notice : Notice]]
      /\ \A q \in Panels :
           /\ panel'[q].pending \in {None, panel[q].pending}
           /\ panel'[q].notice = panel[q].notice \/ panel'[q].notice = <<"none">>
  <2>0. panel \in [Panels -> [pending : Nat \cup {None}, busy : BOOLEAN, notice : Notice]]
    BY DEF FlowInv, FlowType
  <2>1. CASE panel' = [panel EXCEPT ![p].notice = <<"none">>]
    <3>1. <<"none">> \in Notice BY NoticeKinds
    <3> QED BY <2>0, <2>1, <3>1
  <2>2. CASE panel' = [panel EXCEPT ![p].busy = FALSE] 
    <3>1. /\ panel[p].pending \in Nat \cup {None} /\ panel[p].notice \in Notice
          /\ panel[p] = [pending |-> panel[p].pending, busy |-> panel[p].busy, notice |-> panel[p].notice]
      BY <2>0
    <3>2. panel' = [panel EXCEPT ![p] =
            [pending |-> panel[p].pending, busy |-> FALSE, notice |-> panel[p].notice]]
      BY <2>2, <3>1
    <3> QED BY <2>0, <3>1, <3>2
  <2>3. CASE panel' = [panel EXCEPT ![p].pending = None] BY <2>0, <2>3
  <2> QED BY <2>1, <2>2, <2>3
<1>3. FlowType' BY <1>1, <1>2 DEF FlowInv, FlowType
<1>4. ASSUME NEW b \in DOMAIN links PROVE AttemptInv(b)'
  <2>1. AttemptInv(b) BY DEF FlowInv
  <2> QED BY <1>1, <2>1 DEF AttemptInv
<1>5. ASSUME NEW q \in Panels PROVE PanelInv(q)'
  <2>1. PanelInv(q) BY DEF FlowInv
  <2> QED BY <1>1, <1>2, <2>1, NoticeKinds DEF PanelInv
<1> QED BY <1>1, <1>3, <1>4, <1>5 DEF FlowInv

LEMMA CallbackStep ==
  ASSUME FlowInv, NEW a \in DOMAIN links, F!Callback(a) PROVE FlowInv'
<1> DEFINE new == [links[a] EXCEPT !.session = "spent"]
<1>1. /\ new \in F!Attempt /\ new.session = "spent"
      /\ new.panel = links[a].panel /\ new.polling = links[a].polling
      /\ new.relink = links[a].relink /\ new.provider = links[a].provider /\ new.known = links[a].known
      /\ new.reply = links[a].reply /\ new.linked = links[a].linked
  <2>1. links[a] \in F!Attempt BY AttemptType DEF FlowInv
  <2> QED BY <2>1 DEF F!Attempt
<1>2. panel' = panel /\ minute' = minute BY DEF F!Callback
<1>3. [links EXCEPT ![a].session = "spent"] = [links EXCEPT ![a] = new] OBVIOUS
<1> HIDE DEF new
<1>4. CASE links' = [links EXCEPT ![a] = new] /\ rows' = rows
  BY <1>1, <1>2, <1>4, OneAttempt
<1>5. ASSUME NEW x \in Mailboxes, F!Persist(x, [links EXCEPT ![a] = new]) PROVE FlowInv'
  <2>1. x \in F!External BY DEF F!External
  <2>2. panel' \in [Panels -> [pending : Nat \cup {None}, busy : BOOLEAN, notice : Notice]]
    BY <1>2 DEF FlowInv, FlowType
  <2> QED BY <1>1, <1>2, <1>5, <2>1, <2>2, PersistStep
<1> QED BY <1>3, <1>4, <1>5 DEF F!Callback

LEMMA SessionStep ==
  ASSUME FlowInv, NEW a \in DOMAIN links, F!Finish(a) \/ F!Leave(a) PROVE FlowInv'
<1>1. links[a] \in F!Attempt /\ links[a].relink \in F!External \cup {None}
  BY AttemptType DEF FlowInv
<1>2. rows' = rows /\ panel' = panel /\ minute' = minute BY DEF F!Finish, F!Leave
<1>3. CASE F!Leave(a)
  <2> DEFINE new == [links[a] EXCEPT !.session = "left"]
  <2>1. /\ new \in F!Attempt /\ new.session # "finished"
        /\ new.panel = links[a].panel /\ new.polling = links[a].polling
        /\ new.relink = links[a].relink /\ new.provider = links[a].provider /\ new.known = links[a].known
        /\ new.reply = links[a].reply /\ new.linked = links[a].linked
    BY <1>1 DEF F!Attempt
  <2>2. links' = [links EXCEPT ![a] = new] BY <1>3 DEF F!Leave
  <2> HIDE DEF new
  <2> QED BY <1>2, <2>1, <2>2, OneAttempt
<1>4. CASE F!Finish(a)
  <2>1. PICK x \in Items : links' = [links EXCEPT ![a].session = "finished", ![a].item = x]
    <3>1. CASE links[a].relink = None BY <1>4, <3>1 DEF F!Finish
    <3>2. CASE links[a].relink # None
      <4>1. links[a].relink \in Items BY <1>4, <3>2 DEF F!Finish, FlowInv, AttemptInv
      <4> QED BY <1>4, <3>2, <4>1 DEF F!Finish
    <3> QED BY <3>1, <3>2
  <2> DEFINE new == [links[a] EXCEPT !.session = "finished", !.item = x]
  <2>2. /\ new \in F!Attempt /\ new.item \in Items
        /\ new.panel = links[a].panel /\ new.polling = links[a].polling
        /\ new.relink = links[a].relink /\ new.provider = links[a].provider /\ new.known = links[a].known
        /\ new.reply = links[a].reply /\ new.linked = links[a].linked
    BY <1>1 DEF F!Attempt
  <2>3. links' = [links EXCEPT ![a] = new] BY <2>1
  <2> HIDE DEF new
  <2> QED BY <1>2, <2>2, <2>3, OneAttempt
<1> QED BY <1>3, <1>4

LEMMA PollStep ==
  ASSUME FlowInv, NEW a \in DOMAIN links, F!Poll(a) \/ F!GiveUp(a) \/ F!Completed(a) PROVE FlowInv'
<1>1. /\ links[a] \in F!Attempt /\ links[a].relink \in F!External \cup {None}
      /\ links[a].reply \in F!External \cup {None} /\ a \in Nat
  BY AttemptType DEF FlowInv
<1>2. rows' = rows /\ minute' = minute BY DEF F!Poll, F!GiveUp, F!Completed
<1>3. AttemptInv(a) BY DEF FlowInv
<1> DEFINE off == [links[a] EXCEPT !.polling = FALSE]
           done == [links[a] EXCEPT !.reply = None, !.aborted = TRUE]
<1>4. /\ off \in F!Attempt /\ off.panel = links[a].panel /\ ~off.polling
      /\ off.relink = links[a].relink /\ off.provider = links[a].provider /\ off.known = links[a].known
      /\ off.linked = links[a].linked /\ off.reply = links[a].reply
      /\ off.session = links[a].session /\ off.item = links[a].item
  BY <1>1 DEF F!Attempt
<1>5. /\ done \in F!Attempt /\ done.panel = links[a].panel /\ done.polling = links[a].polling
      /\ done.relink = links[a].relink /\ done.provider = links[a].provider /\ done.known = links[a].known
      /\ done.linked = links[a].linked /\ done.reply = None
      /\ done.session = links[a].session /\ done.item = links[a].item
  BY <1>1 DEF F!Attempt
<1>6. CASE F!Poll(a)
  <2>1. links' = [links EXCEPT ![a] = off] /\ links[a].polling BY <1>6 DEF F!Poll
  <2>2. PICK x \in IF links[a].relink = None THEN F!Fresh(a) ELSE F!Repaired(a) :
          F!Shown(links[a].panel, <<"connected", x, a>>)
    BY <1>6 DEF F!Poll
  <2>3. x \in F!External /\ x \in links[a].linked
    <3>1. CASE links[a].relink = None
      BY <1>3, <2>1, <2>2, <3>1 DEF F!Fresh, F!Linked, AttemptInv
    <3>2. CASE links[a].relink # None
      BY <1>1, <1>3, <2>1, <2>2, <3>2 DEF F!Repaired, AttemptInv
    <3> QED BY <3>1, <3>2
  <2>4. /\ <<"connected", x, a>> \in Notice
        /\ <<"connected", x, a>>[2] = x /\ <<"connected", x, a>>[3] = a
    BY <1>1, <2>3, NoticeKinds
  <2> HIDE DEF off
  <2> QED BY <1>2, <1>4, <2>1, <2>2, <2>3, <2>4, Stopped
<1>7. CASE F!GiveUp(a)
  <2>1. /\ links' = [links EXCEPT ![a] = off] /\ links[a].polling
        /\ F!Shown(links[a].panel, <<"nothing", a>>)
    BY <1>7 DEF F!GiveUp
  <2>2. <<"nothing", a>> \in Notice /\ <<"nothing", a>>[1] # "connected" BY <1>1, NoticeKinds
  <2> HIDE DEF off
  <2> QED BY <1>2, <1>4, <2>1, <2>2, Stopped
<1>8. CASE F!Completed(a)
  <2>1. /\ links' = [links EXCEPT ![a] = done] /\ links[a].reply # None
        /\ F!Shown(links[a].panel, <<"connected", links[a].reply, a>>)
    BY <1>8 DEF F!Completed
  <2>2. links[a].reply \in F!External /\ links[a].reply \in links[a].linked
    BY <1>1, <1>3, <2>1 DEF AttemptInv
  <2>3. /\ <<"connected", links[a].reply, a>> \in Notice
        /\ <<"connected", links[a].reply, a>>[2] = links[a].reply
        /\ <<"connected", links[a].reply, a>>[3] = a
    BY <1>1, <2>2, NoticeKinds
  <2> HIDE DEF done
  <2> QED BY <1>2, <1>5, <2>1, <2>2, <2>3, Stopped
<1> QED BY <1>6, <1>7, <1>8

LEMMA CompleteStep ==
  ASSUME F!LinkFlowAssumption, FlowInv, NEW p \in Panels, F!Complete(p) PROVE FlowInv'
<1> DEFINE a == panel[p].pending
           x == links[a].item
           new == [links[a] EXCEPT !.session = "spent", !.reply = x]
<1>1. a \in DOMAIN links /\ links[a].polling
  BY DEF F!Complete, FlowInv, PanelInv
<1>2. links[a] \in F!Attempt BY <1>1, AttemptType DEF FlowInv
<1>3. x \in Items
  <2>1. F!MayComplete(a) BY DEF F!Complete
  <2>2. links[a].session = "finished"
    BY <2>1 DEF F!MayComplete, F!MayRelink, F!PublicToken, F!SessionFinished
  <2> QED BY <1>1, <2>2 DEF FlowInv, AttemptInv
<1>4. x \in F!External BY <1>3 DEF F!External
<1>5. /\ new \in F!Attempt /\ new.session = "spent" /\ new.reply = x /\ new.polling
      /\ new.panel = links[a].panel /\ new.polling = links[a].polling
      /\ new.relink = links[a].relink /\ new.provider = links[a].provider /\ new.known = links[a].known
      /\ new.linked = links[a].linked
  BY <1>1, <1>2, <1>4 DEF F!Attempt
<1>6. F!Persist(x, [links EXCEPT ![a] = new])
  <2>1. F!Persist(x, [links EXCEPT ![a].session = "spent", ![a].reply = x]) BY DEF F!Complete
  <2>2. [links EXCEPT ![a].session = "spent", ![a].reply = x] = [links EXCEPT ![a] = new]
    BY <1>1, <1>2 DEF FlowInv, FlowType
  <2> QED BY <2>1, <2>2
<1>7. /\ panel' \in [Panels -> [pending : Nat \cup {None}, busy : BOOLEAN, notice : Notice]]
      /\ \A q \in Panels : panel'[q].pending = panel[q].pending /\ panel'[q].notice = panel[q].notice
      /\ minute' = minute
  <2>1. panel' = [panel EXCEPT ![p].busy = TRUE] /\ minute' = minute BY DEF F!Complete
  <2>2. /\ panel \in [Panels -> [pending : Nat \cup {None}, busy : BOOLEAN, notice : Notice]]
    BY DEF FlowInv, FlowType
  <2> QED BY <2>1, <2>2
<1> HIDE DEF new, a, x
<1> QED BY <1>1, <1>4, <1>5, <1>6, <1>7, PersistStep

LEMMA OutsideStep == ASSUME F!LinkFlowAssumption, FlowInv, F!Change \/ F!Tick PROVE FlowInv'
<1>1. links' = links /\ panel' = panel BY DEF F!Change, F!Tick
<1>2. minute' \in 0..MaxTime
  BY F!LinkFlowAssumption DEF F!Change, F!Tick, FlowInv, FlowType, F!LinkFlowAssumption
<1>3. rows' \in [F!External -> Row]
  BY DEF F!Change, F!Tick, FlowInv, FlowType, Row
<1>4. \A x \in F!External : rows'[x] # None => rows[x] # None
  BY DEF F!Change, F!Tick, FlowInv, FlowType, F!Linked
<1>5. \A x \in F!External : rows'[x] = "active" => rows[x] = "active"
  BY DEF F!Change, F!Tick, FlowInv, FlowType
<1>6. ASSUME NEW a \in DOMAIN links PROVE AttemptInv(a)'
  <2>1. AttemptInv(a) /\ links[a].relink \in F!External \cup {None}
    BY AttemptType DEF FlowInv
  <2> QED BY <1>1, <1>4, <1>5, <2>1 DEF AttemptInv
<1>7. ASSUME NEW p \in Panels PROVE PanelInv(p)'
  <2>1. PanelInv(p) BY DEF FlowInv
  <2> QED BY <1>1, <2>1 DEF PanelInv
<1> QED BY <1>1, <1>2, <1>3, <1>6, <1>7 DEF FlowInv, FlowType

LEMMA FlowStep ==
  ASSUME F!LinkFlowAssumption, FlowInv, [F!Next]_F!flowVars PROVE FlowInv'
<1>1. ASSUME NEW p \in Panels, F!BeginRefused(p) \/ F!CompleteRefused(p) \/ F!Cancel(p)
      PROVE  FlowInv'
  <2>1. UNCHANGED <<rows, minute>> BY <1>1 DEF F!BeginRefused, F!CompleteRefused, F!Cancel
  <2>2. /\ links' = links \/ \E a \in DOMAIN links :
             links' = [links EXCEPT ![a].aborted = TRUE]
        /\ \/ panel' = [panel EXCEPT ![p].notice = <<"none">>]
           \/ panel' = [panel EXCEPT ![p].busy = FALSE]
           \/ panel' = [panel EXCEPT ![p].pending = None]
    <3>1. CASE F!BeginRefused(p) BY <3>1 DEF F!BeginRefused
    <3>2. CASE F!CompleteRefused(p) BY <3>2 DEF F!CompleteRefused
    <3>3. CASE F!Cancel(p)
      <4>1. panel[p].pending \in DOMAIN links BY <3>3 DEF F!Cancel, FlowInv, PanelInv
      <4> QED BY <3>3, <4>1 DEF F!Cancel
    <3> QED BY <1>1, <3>1, <3>2, <3>3
  <2> QED BY <2>1, <2>2, PanelStep
<1>2. CASE UNCHANGED F!flowVars
  <2>1. UNCHANGED <<rows, links, panel, minute>> BY <1>2 DEF F!flowVars
  <2> QED BY <2>1 DEF FlowInv, FlowType, AttemptInv, PanelInv
<1> QED BY <1>1, <1>2, BeginStep, CompleteStep, CallbackStep, SessionStep, PollStep, OutsideStep
    DEF F!Next

LEMMA FlowSafe == ASSUME F!LinkFlowAssumption PROVE F!Spec => []F!ConnectedIsTrue
<1>1. F!Init => FlowInv
  <2> SUFFICES ASSUME F!Init PROVE FlowInv OBVIOUS
  <2>1. /\ links = <<>> /\ minute = 0 /\ rows \in [F!External -> Row]
        /\ panel = [p \in Panels |-> [pending |-> None, busy |-> FALSE, notice |-> <<"none">>]]
    BY DEF F!Init, Row
  <2>2. FlowType
    <3>1. links \in Seq(F!Attempt) /\ 0 \in 0..MaxTime
      BY <2>1, F!LinkFlowAssumption DEF F!LinkFlowAssumption
    <3>2. <<"none">> \in Notice BY NoticeKinds
    <3> QED BY <2>1, <3>1, <3>2 DEF FlowType
  <2>3. DOMAIN links = {} BY <2>1
  <2>4. \A p \in Panels : PanelInv(p) BY <2>1, NoticeKinds DEF PanelInv
  <2> QED BY <2>2, <2>3, <2>4 DEF FlowInv
<1>2. FlowInv => F!ConnectedIsTrue BY DEF FlowInv, PanelInv, F!ConnectedIsTrue
<1> QED BY <1>1, <1>2, FlowStep, PTL DEF F!Spec

-----------------------------------------------------------------------------
\* connector-link, the vault's functions and runCapability: a link or a relink with
\* nothing else at work leaves the account active on the fresh credential and not
\* held, however many links, syncs and refreshes failed or were killed before.
THEOREM RelinkWorks == Spec => []RelinkReactivates
BY Components, AccountSafe, AccountsAssumption, PTL DEF RelinkReactivates

\* vx_connector_account_disconnect: the secret is gone, and no sync that was in
\* flight brings it back by storing a credential it refreshed.
THEOREM DisconnectIsFinal == Spec => []DisconnectDropsSecret
BY Components, AccountSafe, AccountsAssumption, PTL DEF DisconnectDropsSecret

\* connector-sync and runSync: whatever users, accounts and pages there are, an
\* invocation ends within one page of its deadline.
THEOREM OneBudgetForAll == Spec => []BudgetRespected
BY Components, ScheduleSafe, AccountsAssumption, PTL DEF BudgetRespected

\* runSync: a needs_reauth from one capability stops the others of the account.
THEOREM ReauthStops == Spec => ReauthStopsAccount
BY Components, ScheduleSafe, AccountsAssumption, PTL DEF ReauthStopsAccount

\* GoogleHttp and GraphHttp under mapConcurrent: "unauthorized", which parks the
\* account, is reported only of a grant that was withdrawn or when more tokens wore
\* out than a run refreshes, however the workers' calls race with a refresh.
THEOREM RacesDoNotPark == Spec => []OnlyRevokedParks
BY Components, ClientOnlyRevokedParks, ClientCardinality, PTL
DEF OnlyRevokedParks, C!OnlyRevokedParks

\* GoogleHttp and GraphHttp: however many workers share the client and however
\* their tokens overlap, lapse and are refused, one request at a time goes to the
\* token endpoint, and never with a refresh token that an earlier answer replaced.
THEOREM LatestTokenOnly == Spec => []RefreshesWithTheLatest
BY Components, ClientLatest, PTL DEF RefreshesWithTheLatest

\* mapConcurrent of the Google client: an error that no retry helps is reported
\* over one that may pass, whatever the order in which the workers fail.
THEOREM RefusalReported == Spec => []RefusalIsReported
BY Components, ClientRefusal, PTL DEF RefusalIsReported

\* The device's credential store: wherever set or delete stands when the process
\* dies, for any values and any number of pieces, a read gives one value whole:
\* the old one until the primary entry is written, and the new one from then on.
THEOREM CutOffReadsWhole == Spec => []ReadsWhole
BY Components, ReadsAreWhole, AccountsAssumption, PTL DEF ReadsWhole

\* cleanup_chunks: where no value has more pieces than a scan's gap tolerance can
\* cross, a call that ends leaves no piece of any secret behind, whatever the calls
\* cut off before it left.
THEOREM NoSecretStranded == ASSUME Crossable PROVE Spec => []NothingStranded
BY Components, NoneStranded, AccountsAssumption, PTL DEF NothingStranded

\* startLink, usePendingLink and connector-link: "Connected" names an account that
\* was linked or repaired while the panel's link was under way, however links of
\* several panels overlap, time out, are cancelled or left open.
THEOREM ConnectedTells == Spec => []ConnectedIsTrue
BY Components, FlowSafe, AccountsAssumption, PTL DEF ConnectedIsTrue
=============================================================================
