------------------------------- MODULE People -------------------------------
(***************************************************************************)
(* Who an address is: ContextLinker.resolve, at work in several syncs at   *)
(* once, and the person.merge action.  Every database round trip is an     *)
(* action; a sync or a merge may be killed between two of them and is      *)
(* started again later (a page is applied again, an action is retried).    *)
(***************************************************************************)
EXTENDS Integers, FiniteSets, Null

CONSTANTS
  Linker,       \* syncs that may apply a page at the same time
  Merger,       \* person.merge calls that may be at work at the same time
  Message,      \* mail messages (or calendar events)
  AddressesOf,  \* [Message -> set of normalized addresses]
  OwnAddresses,    \* options.selfAddresses: the addresses the user goes by
  AccountAddress,  \* the address of the connector account
  MaxPerson,    \* bound: people rows
  MaxMerges,    \* bound: merges a user asks for
  MaxKills      \* bound: calls killed half-way

Address == UNION {AddressesOf[m] : m \in Message}
Person == 1..MaxPerson

\* What the constants must be.
PeopleAssumption ==
  /\ MaxPerson \in Nat /\ MaxMerges \in Nat /\ MaxKills \in Nat
  /\ None \notin Person /\ DOMAIN AddressesOf = Message
  /\ OwnAddresses \cup {AccountAddress} \subseteq Address

VARIABLES
  people,      \* ids of the people rows: 1..n
  mergedInto,  \* [Person -> merged_into_id]
  identity,    \* [Address -> owner: the unique email identity]
  edges,       \* has_person edges from a message to a person
  linked,      \* history: messages whose batch was applied in full
  linker,      \* the locals of each sync
  merger,      \* the locals of each merge
  merges, kills

vars == <<people, mergedInto, identity, edges, linked, linker, merger, merges, kills>>

IdleLinker == [pc |-> "idle", message |-> None, todo |-> {}, address |-> None,
               created |-> None, resolved |-> {}]
IdleMerger == [pc |-> "idle", survivor |-> None, merged |-> None, left |-> {},
               moving |-> None]

TypeOK ==
  /\ people \in 0..MaxPerson
  /\ mergedInto \in [Person -> 1..people \cup {None}]
  /\ \A p \in Person : p > people => mergedInto[p] = None
  /\ identity \in [Address -> 1..people \cup {None}]
  /\ edges \subseteq Message \X (1..people)
  /\ linked \subseteq Message
  /\ \A l \in Linker :
       /\ linker[l].resolved \subseteq 1..people
       /\ linker[l].created \in 1..people \cup {None}
  /\ merges \in 0..MaxMerges /\ kills \in 0..MaxKills

Init ==
  /\ people = 0
  /\ mergedInto = [p \in Person |-> None]
  /\ identity = [a \in Address |-> None]
  /\ edges = {} /\ linked = {}
  /\ linker = [l \in Linker |-> IdleLinker]
  /\ merger = [g \in Merger |-> IdleMerger]
  /\ merges = 0 /\ kills = 0

-----------------------------------------------------------------------------
(***************************************************************************)
(* A batch of one message: resolve every address, store the row, relate.   *)
(***************************************************************************)
\* The user is nobody's correspondent, under any address.
selfFor == OwnAddresses \cup {AccountAddress}
Correspondents(m) == AddressesOf[m] \ selfFor

StartBatch(l, m) ==
  /\ linker[l].pc = "idle" /\ Correspondents(m) # {}
  /\ linker' = [linker EXCEPT ![l] = [IdleLinker EXCEPT
       !.pc = "resolve", !.message = m, !.todo = Correspondents(m)]]
  /\ UNCHANGED <<people, mergedInto, identity, edges, linked, merger, merges, kills>>

\* The next address is resolved to p; a batch resolves an address once.
Resolve(l, a, p) ==
  linker' = [linker EXCEPT
    ![l].pc = IF linker[l].todo = {a} THEN "relate" ELSE "resolve",
    ![l].todo = @ \ {a}, ![l].address = None, ![l].created = None,
    ![l].resolved = @ \cup {p}]

\* findPersonByIdentity, and mergedIntoId followed once.
Behind(a) ==
  IF mergedInto[identity[a]] = None THEN identity[a] ELSE mergedInto[identity[a]]

FindPerson(l) ==
  /\ linker[l].pc = "resolve"
  /\ \E a \in linker[l].todo :
       IF identity[a] = None
       THEN linker' = [linker EXCEPT ![l].pc = "create", ![l].address = a]
       ELSE Resolve(l, a, Behind(a))
  /\ UNCHANGED <<people, mergedInto, identity, edges, linked, merger, merges, kills>>

CreatePerson(l) ==
  /\ linker[l].pc = "create" /\ people < MaxPerson
  /\ people' = people + 1
  /\ linker' = [linker EXCEPT ![l].pc = "identity", ![l].created = people + 1]
  /\ UNCHANGED <<mergedInto, identity, edges, linked, merger, merges, kills>>

\* upsertPersonIdentity ignores duplicates: the first writer owns the address.
PutIdentity(l) ==
  /\ linker[l].pc = "identity"
  /\ LET a == linker[l].address
     IN  IF identity[a] = None
         THEN /\ identity' = [identity EXCEPT ![a] = linker[l].created]
              /\ Resolve(l, a, linker[l].created)
         ELSE /\ linker' = [linker EXCEPT ![l].pc = "fold"]
              /\ UNCHANGED identity
  /\ UNCHANGED <<people, mergedInto, edges, linked, merger, merges, kills>>

\* Mutant: the loser of the race uses the winner and leaves its own row behind.
NoFold(l) ==
  /\ linker[l].pc = "fold"
  /\ Resolve(l, linker[l].address, identity[linker[l].address])
  /\ UNCHANGED <<people, mergedInto, identity, edges, linked, merger, merges, kills>>

\* The loser of the race folds its row into the winner's.
Fold(l) ==
  /\ linker[l].pc = "fold"
  /\ LET winner == identity[linker[l].address]
     IN  /\ mergedInto' = [mergedInto EXCEPT ![linker[l].created] = winner]
         /\ Resolve(l, linker[l].address, winner)
  /\ UNCHANGED <<people, identity, edges, linked, merger, merges, kills>>

RelatePeople(l) ==
  /\ linker[l].pc = "relate"
  /\ \E p \in linker[l].resolved :
       /\ edges' = edges \cup {<<linker[l].message, p>>}
       /\ IF linker[l].resolved = {p}
          THEN /\ linker' = [linker EXCEPT ![l] = IdleLinker]
               /\ linked' = linked \cup {linker[l].message}
          ELSE /\ linker' = [linker EXCEPT ![l].resolved = @ \ {p}]
               /\ UNCHANGED linked
  /\ UNCHANGED <<people, mergedInto, identity, merger, merges, kills>>

KillLinker(l) ==
  /\ linker[l].pc # "idle" /\ kills < MaxKills
  /\ kills' = kills + 1
  /\ linker' = [linker EXCEPT ![l] = IdleLinker]
  /\ UNCHANGED <<people, mergedInto, identity, edges, linked, merger, merges>>

-----------------------------------------------------------------------------
(***************************************************************************)
(* person.merge.                                                           *)
(***************************************************************************)
\* validatePayload: the two differ.  The survivor must not be merged itself.
ReadSurvivor(g, s, d) ==
  /\ merger[g].pc = "idle" /\ merges < MaxMerges
  /\ s # d /\ mergedInto[s] = None
  /\ merges' = merges + 1
  /\ merger' = [merger EXCEPT ![g] = [IdleMerger EXCEPT
       !.pc = "read", !.survivor = s, !.merged = d]]
  /\ UNCHANGED <<people, mergedInto, identity, edges, linked, linker, kills>>

\* A person merged before is an error, or the answer alreadyMerged.
ReadMerged(g) ==
  /\ merger[g].pc = "read"
  /\ merger' = [merger EXCEPT ![g] =
       IF mergedInto[merger[g].merged] = None THEN [@ EXCEPT !.pc = "neighbors"]
       ELSE IdleMerger]
  /\ UNCHANGED <<people, mergedInto, identity, edges, linked, linker, merges, kills>>

ListNeighbors(g) ==
  /\ merger[g].pc = "neighbors"
  /\ merger' = [merger EXCEPT ![g].pc = "move",
       ![g].left = {m \in Message : <<m, merger[g].merged>> \in edges}]
  /\ UNCHANGED <<people, mergedInto, identity, edges, linked, linker, merges, kills>>

\* Mutant: the edge is only taken off the merged person.
ForgetAssert(g) ==
  /\ merger[g].pc = "move"
  /\ \E m \in merger[g].left :
       merger' = [merger EXCEPT ![g].moving = m, ![g].pc = "unrelate"]
  /\ UNCHANGED <<people, mergedInto, identity, edges, linked, linker, merges, kills>>

\* Each edge is asserted on the survivor ...
AssertEdge(g) ==
  /\ merger[g].pc = "move"
  /\ \E m \in merger[g].left :
       /\ edges' = edges \cup {<<m, merger[g].survivor>>}
       /\ merger' = [merger EXCEPT ![g].moving = m, ![g].pc = "unrelate"]
  /\ UNCHANGED <<people, mergedInto, identity, linked, linker, merges, kills>>

\* ... and removed from the merged person.
RemoveEdge(g) ==
  /\ merger[g].pc = "unrelate"
  /\ edges' = edges \ {<<merger[g].moving, merger[g].merged>>}
  /\ merger' = [merger EXCEPT ![g].pc = "move", ![g].left = @ \ {merger[g].moving},
                              ![g].moving = None]
  /\ UNCHANGED <<people, mergedInto, identity, linked, linker, merges, kills>>

\* The identities stay with the merged person (their upsert finds the existing
\* row); the last write marks the row merged.
MarkMerged(g) ==
  /\ merger[g].pc = "move" /\ merger[g].left = {}
  /\ mergedInto' = [mergedInto EXCEPT ![merger[g].merged] = merger[g].survivor]
  /\ merger' = [merger EXCEPT ![g] = IdleMerger]
  /\ UNCHANGED <<people, identity, edges, linked, linker, merges, kills>>

KillMerger(g) ==
  /\ merger[g].pc # "idle" /\ kills < MaxKills
  /\ kills' = kills + 1
  /\ merger' = [merger EXCEPT ![g] = IdleMerger]
  /\ UNCHANGED <<people, mergedInto, identity, edges, linked, linker, merges>>

-----------------------------------------------------------------------------
Next ==
  \/ \E l \in Linker :
       \/ \E m \in Message : StartBatch(l, m)
       \/ FindPerson(l) \/ CreatePerson(l) \/ PutIdentity(l) \/ Fold(l)
       \/ RelatePeople(l) \/ KillLinker(l)
  \/ \E g \in Merger :
       \/ \E s, d \in 1..people : ReadSurvivor(g, s, d)
       \/ ReadMerged(g) \/ ListNeighbors(g) \/ AssertEdge(g) \/ RemoveEdge(g)
       \/ MarkMerged(g) \/ KillMerger(g)

Spec == Init /\ [][Next]_vars

-----------------------------------------------------------------------------
(***************************************************************************)
(* Properties.                                                             *)
(***************************************************************************)
\* However races and kills fall, a message that was linked keeps at least one
\* person: a merge moves edges and never drops one on the way.  One merge at a
\* time: of two that go opposite ways each removes the edge the other asserted.
LinksSurviveMerges == \A m \in linked : \E p \in 1..people : <<m, p>> \in edges

Working(p) == \E l \in Linker : linker[l].created = p

\* The loser of a race does not linger in the people list: while nobody was
\* killed, a visible person owns an address, or is being created, or is one a
\* merge has folded somebody into.
NoDuplicatePeople ==
  kills = 0 => \A p \in 1..people :
    \/ mergedInto[p] # None \/ Working(p)
    \/ \E a \in Address : identity[a] = p
    \/ \E q \in 1..people : mergedInto[q] = p

\* Mail of an address is linked to the person the people list shows for it:
\* while no merge is in flight, an address that has an owner resolves to a person
\* who is not merged away.
ResolvesToVisible ==
  [][(\A g \in Merger : merger[g].pc = "idle") =>
       \A l \in Linker : linker[l].pc = "resolve" =>
         \A p \in linker'[l].resolved \ linker[l].resolved : mergedInto[p] = None]_vars

=============================================================================
