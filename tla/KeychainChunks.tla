--------------------------- MODULE KeychainChunks ---------------------------
(***************************************************************************)
(* The device's credential store (crates/vixera-platform/credentials.rs):  *)
(* a value too long for one keychain entry is kept as a manifest under its *)
(* key and as pieces under chunk keys of one of two generations.  Each     *)
(* write of the keychain is one entry; a call may be cut off (process      *)
(* killed, or the backend refuses) between any two of them.                *)
(*                                                                         *)
(* Calls run one at a time: the commands are synchronous.  The pieces of a *)
(* value are numbered, not spelled out; chunk keys carry a colon and no    *)
(* caller's key does, so one key is enough.                                *)
(***************************************************************************)
EXTENDS Naturals, Sequences, FiniteSets

CONSTANTS
  Values,        \* what callers store
  Pieces,        \* into how many pieces split_utf16 cuts each: 1 means it fits
  GAP_TOLERANCE, \* how many missing pieces in a row a scan forgives
  MaxOps         \* bound: calls of set and delete

KeychainAssumption ==
  /\ Pieces \in [Values -> Nat \ {0}]
  /\ GAP_TOLERANCE \in Nat /\ MaxOps \in Nat

VARIABLES
  store,   \* the keychain: entry -> content, for the entries there are
  call,    \* the call at work
  before,  \* ghost: what a read gave when it started
  tidy,    \* ghost: no call has been cut off since the last one that finished
  ops

vars == <<store, call, before, tidy, ops>>

GENERATIONS == <<"a", "b">>
Legacy == "legacy"   \* the layout written before generations existed
Families == {Legacy, "a", "b"}
Nothing == "nothing"

Primary == <<"primary", 0>>
Entries == {Primary} \cup (Families \X Nat)

Plain(v) == [kind |-> "value", value |-> v]
Manifest(n, g) == [kind |-> "manifest", count |-> n, generation |-> g]
Piece(v, i) == [kind |-> "piece", value |-> v, index |-> i]

\* One entry is written, or dropped, atomically by the OS.
Put(entry, content) == [e \in DOMAIN store \cup {entry} |-> IF e = entry THEN content ELSE store[e]]
Drop(entry) == [e \in DOMAIN store \ {entry} |-> store[e]]

-----------------------------------------------------------------------------
(* Reading: a plain primary is the value, a manifest names its pieces, and *)
(* a missing piece makes the whole value absent.                           *)

ChunksOf(m) == {<<m.generation, i>> : i \in 0..(m.count - 1)}

IsManifest == Primary \in DOMAIN store /\ store[Primary].kind = "manifest"

Read ==
  IF Primary \notin DOMAIN store THEN Nothing
  ELSE IF ~IsManifest THEN store[Primary].value
  ELSE LET m == store[Primary]
           parts == {store[e] : e \in ChunksOf(m) \cap DOMAIN store}
       IN  IF m.count = 0 \/ ~(ChunksOf(m) \subseteq DOMAIN store) THEN Nothing
           ELSE IF \E v \in Values : /\ Pieces[v] = m.count
                                     /\ \A i \in 0..(m.count - 1) :
                                          store[<<m.generation, i>>] = Piece(v, i)
                THEN (CHOOSE p \in parts : TRUE).value
                ELSE parts   \* a splice of several values

LiveEntries ==
  ({Primary} \cap DOMAIN store) \cup (IF IsManifest THEN ChunksOf(store[Primary]) ELSE {})

\* The generation a rewrite goes to: the one the manifest does not point at.
FixedGeneration == GENERATIONS[1]
NextGeneration ==
  IF IsManifest /\ store[Primary].generation = GENERATIONS[1] THEN GENERATIONS[2] ELSE GENERATIONS[1]

-----------------------------------------------------------------------------
(* The clean-up: scans of whole families, one after the other.             *)

Scan(g, from) == [generation |-> g, at |-> from]

ScansAll == <<Scan(Legacy, 0), Scan(GENERATIONS[1], 0), Scan(GENERATIONS[2], 0)>>

\* After a chunked write: the tail of its own generation, then the others.
ScansAround(g, n) ==
  <<Scan(g, n), Scan(Legacy, 0), Scan(IF g = GENERATIONS[1] THEN GENERATIONS[2] ELSE GENERATIONS[1], 0)>>

\* The entries a scan meets before it has missed too many in a row.
StopAtHole(scan) == {i \in {scan.at} : <<scan.generation, i>> \in DOMAIN store}
WithinReach(scan) ==
  {i \in scan.at..(scan.at + GAP_TOLERANCE) : <<scan.generation, i>> \in DOMAIN store}

Idle == [op |-> "idle", value |-> Nothing, generation |-> Legacy, at |-> 0, scans |-> <<>>]

-----------------------------------------------------------------------------
(* The keychain is found as an older build left it.                        *)

Init ==
  /\ store \in {[e \in {} |-> Nothing]} \cup
       {[e \in {Primary} |-> Plain(v)] : v \in {w \in Values : Pieces[w] = 1}} \cup
       {[e \in {Primary} \cup {<<Legacy, i>> : i \in 0..(Pieces[v] - 1)} |->
           IF e = Primary THEN Manifest(Pieces[v], Legacy) ELSE Piece(v, e[2])] :
         v \in {w \in Values : Pieces[w] > 1}}
  /\ call = Idle /\ before = Nothing /\ tidy = FALSE /\ ops = 0

Begin(op, v, g) ==
  /\ call = Idle /\ ops < MaxOps
  /\ call' = [Idle EXCEPT !.op = op, !.value = v, !.generation = g]
  /\ before' = Read /\ tidy' = FALSE /\ ops' = ops + 1
  /\ UNCHANGED store

SetShort(v) == Pieces[v] = 1 /\ Begin("short", v, Legacy)
SetLong(v) == Pieces[v] > 1 /\ Begin("pieces", v, NextGeneration)
Delete == Begin("delete", Nothing, Legacy)

\* A value that fits is one entry; whatever chunks there are go after it.
WriteShort ==
  /\ call.op = "short"
  /\ store' = Put(Primary, Plain(call.value))
  /\ call' = [call EXCEPT !.op = "clean", !.scans = ScansAll]
  /\ UNCHANGED <<before, tidy, ops>>

\* The pieces, then the manifest: the swap is one entry write.
WritePiece ==
  /\ call.op = "pieces" /\ call.at < Pieces[call.value]
  /\ store' = Put(<<call.generation, call.at>>, Piece(call.value, call.at))
  /\ call' = [call EXCEPT !.at = @ + 1]
  /\ UNCHANGED <<before, tidy, ops>>

WriteManifest ==
  /\ call.op = "pieces" /\ call.at = Pieces[call.value]
  /\ store' = Put(Primary, Manifest(Pieces[call.value], call.generation))
  /\ call' = [call EXCEPT !.op = "clean", !.scans = ScansAround(call.generation, Pieces[call.value])]
  /\ UNCHANGED <<before, tidy, ops>>

DropPrimary ==
  /\ call.op = "delete"
  /\ store' = Drop(Primary)
  /\ call' = [call EXCEPT !.op = "clean", !.scans = ScansAll]
  /\ UNCHANGED <<before, tidy, ops>>

CleanNext ==
  /\ call.op = "clean" /\ call.scans # <<>>
  /\ LET scan == Head(call.scans)
     IN  \E i \in WithinReach(scan) :
           /\ \A j \in WithinReach(scan) : i <= j
           /\ store' = Drop(<<scan.generation, i>>)
           /\ call' = [call EXCEPT !.scans = <<Scan(scan.generation, i + 1)>> \o Tail(@)]
  /\ UNCHANGED <<before, tidy, ops>>

CleanFamilyDone ==
  /\ call.op = "clean" /\ call.scans # <<>> /\ WithinReach(Head(call.scans)) = {}
  /\ call' = [call EXCEPT !.scans = Tail(@)]
  /\ UNCHANGED <<store, before, tidy, ops>>

Finish ==
  /\ call.op = "clean" /\ call.scans = <<>>
  /\ call' = Idle /\ tidy' = TRUE
  /\ UNCHANGED <<store, before, ops>>

\* The process dies, or the keychain refuses an entry and the call gives up.
CutOff ==
  /\ call # Idle
  /\ call' = Idle
  /\ UNCHANGED <<store, before, tidy, ops>>

Next ==
  \/ \E v \in Values : SetShort(v) \/ SetLong(v)
  \/ Delete \/ WriteShort \/ WritePiece \/ WriteManifest \/ DropPrimary
  \/ CleanNext \/ CleanFamilyDone \/ Finish \/ CutOff

Spec == Init /\ [][Next]_vars

-----------------------------------------------------------------------------
(* Wherever a call stands, and so wherever it is cut off, a read gives the *)
(* value that was there when it started or the one it stores, whole: the   *)
(* old one until the primary entry is written, the new one from then on.   *)
ReadsWhole ==
  call # Idle => Read = (IF call.op = "clean" THEN call.value ELSE before)

(* A call that ran to its end left no piece of an older secret behind,     *)
(* whatever the calls cut off before it had left.  Pieces that number more *)
(* than GAP_TOLERANCE + 1 are beyond this: a torn clean-up of so many      *)
(* leaves a hole no scan crosses.                                          *)
NothingStranded == tidy => DOMAIN store = LiveEntries
=============================================================================
