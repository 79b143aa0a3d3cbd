------------------------- MODULE Sources_proofs -------------------------
(***************************************************************************)
(* Every source that has caught up has the rows its provider shows.        *)
(* First the delta sources, whatever the provider drops and whatever the   *)
(* run leaves undone: the invariant says where every row that is wrong     *)
(* will be put right: a link still leads to the item, or the pending unit  *)
(* takes the row away, or the row was gone before a listing that could not *)
(* tell.  Then the Google calendars: an invariant of the same form, but    *)
(* with a state for each calendar, a cancelled series known by its master  *)
(* alone, and units a calendar apart; then the theorem, for either kind of *)
(* source.                                                                 *)
(***************************************************************************)
EXTENDS Sources, TLAPS
-----------------------------------------------------------------------------
(***************************************************************************)
(* The delta sources: the inductive invariant.                             *)
(***************************************************************************)

\* The provider has changed the item since the link was caught up.
Changed(at, i) == \E n \in at + 1..Len(log) : log[n] = i

\* The rows a unit from this day takes away: in its scope, and not seen since.
Ended(unit, seen) == {i \in Item : unit # None /\ i \notin seen /\ D!Covers(unit, i)}

\* The link leads to the item, or the rows R without X show it as it is.
Settled(l, R, X, i) ==
  \/ i \in l.left \/ Changed(l.at, i)
  \/ i \in alive /\ i \in R /\ i \notin X
  \/ i \notin alive /\ (i \in R => i \in unlisted \cup vouched \cup X)

Told(l, R, X) == \A i \in Item : D!Covers(l.from, i) => Settled(l, R, X, i)

\* A link that will not be asked again.
Dead(l) == l.epoch # epoch \/ D!Stale(l)

\* What the stored link promises is kept unless the unit at work replaces it.
LinkKept(unit, R, X) == checkpoint # None => Told(checkpoint, R, X) \/ (unit # None /\ Dead(checkpoint))

\* No unit ends before the window of a row it has not seen.
Reaches(unit, R, seen) ==
  unit # None =>
    unit <= today /\ (source = "calendar" => \A i \in R : i \in seen \/ ItemDay[i] <= unit + Span)

\* The unit and the rows when the page at hand has been applied.
NewUnit == D!Declares /\ ~D!SameScope
UnitNext == IF NewUnit THEN run.link.from ELSE reconcile
SeenNext == IF UnitNext = None THEN {} ELSE (IF NewUnit THEN run.touched ELSE touched) \cup run.upserts
RowsNext == (rows \ run.page) \cup run.upserts

LinkOK(l) ==
  /\ l \in D!Link /\ l.at <= Len(log) /\ l.epoch <= epoch /\ l.from <= today
  /\ \A i \in l.left : D!Covers(l.from, i)

DeltaTypes ==
  /\ source \in D!Source /\ alive \subseteq Item /\ log \in Seq(Item) /\ Len(log) <= MaxChanges
  /\ epoch \in 0..DeltaExpiries /\ today \in 0..LastDay
  /\ rows \subseteq Item /\ touched \subseteq Item /\ reconcile \in 0..LastDay \cup {None}
  /\ run \in D!Run \cup {D!Idle} /\ kills \in 0..MaxKills
  /\ unlisted \subseteq Item /\ vouched \subseteq Item
  /\ checkpoint # None => LinkOK(checkpoint) /\ (checkpoint.kind = "next" => source = "mail")

DeltaStored ==
  /\ checkpoint # None =>
       /\ checkpoint.kind = "delta" => checkpoint.left = {} /\ ~checkpoint.full
       /\ checkpoint.full => reconcile # None /\ source # "bank"
  /\ source = "calendar" => \A i \in rows : ItemDay[i] <= today + Span
  /\ Reaches(reconcile, rows, touched)
  /\ run.pc # "reconcile" => LinkKept(reconcile, rows, Ended(reconcile, touched))
  /\ run.pc = "reconcile" =>
       /\ reconcile # None /\ checkpoint # None /\ checkpoint.kind = "delta"
       /\ Told(checkpoint, rows, Ended(reconcile, touched))

AtWork == run.pc \in {"fetch", "apply", "save"}

\* The unit is the one this run has declared.
Declared == reconcile # None /\ (source # "bank" => reconcile = run.link.from /\ touched = run.touched)

\* A pass from nothing, and one from a link.
FromNothing ==
  run.previous = None =>
    /\ checkpoint # None => Dead(checkpoint) \/ (source = "mail" /\ run.link # None)
    /\ run.link # None =>
         /\ source = "calendar" => \A i \in rows : ItemDay[i] <= run.link.from + Span
         /\ run.pc # "apply" /\ (run.full \/ run.retried) => Declared

FromLink ==
  run.previous # None =>
    /\ LinkOK(run.previous) /\ (run.previous.kind = "next" => source = "mail") /\ checkpoint # None /\ run.link # None /\ ~run.retried
    /\ run.link.epoch = run.previous.epoch /\ checkpoint.epoch = run.previous.epoch
    /\ run.previous.kind = "delta" => checkpoint = run.previous /\ run.previous.left = {} /\ ~run.full
    /\ run.full => reconcile # None

LinkAtWork ==
  run.link # None =>
    /\ LinkOK(run.link) /\ (checkpoint # None => checkpoint.at <= run.link.at)
    /\ run.link.kind = IF run.previous = None THEN "next" ELSE run.previous.kind
    /\ run.pc # "fetch" => run.link.full = run.full

DeltaRun ==
  AtWork =>
    /\ run.full => source # "bank"
    /\ FromNothing /\ FromLink /\ LinkAtWork
    /\ run.pc # "fetch" => run.link # None
    /\ run.pc = "fetch" /\ run.link # None /\ run.link.epoch = epoch
         => Told(run.link, rows, Ended(reconcile, touched))
    /\ run.pc = "apply" =>
         /\ run.upserts \subseteq run.page /\ \A i \in run.page : D!Covers(run.link.from, i)
         /\ Told(run.link, RowsNext, Ended(UnitNext, SeenNext))
         /\ LinkKept(UnitNext, RowsNext, Ended(UnitNext, SeenNext))
         /\ Reaches(UnitNext, RowsNext, SeenNext)
    /\ run.pc = "save" => Told(run.link, rows, Ended(reconcile, touched))

DeltaOK == DeltaTypes /\ DeltaStored /\ DeltaRun

\* Nothing that a link leads to, or that a row shows, changes unseen by the link.
LEMMA ToldStays ==
  ASSUME DeltaTypes, D!Provider
  PROVE  \A l, R, X : l.at \in Nat /\ l.at <= Len(log) /\ Told(l, R, X) => Told(l, R, X)'
  <1> SUFFICES ASSUME NEW l, NEW R, NEW X, l.at \in Nat, l.at <= Len(log), Told(l, R, X),
                      NEW i \in Item, D!Covers(l.from, i)
               PROVE  Settled(l, R, X, i)'
    BY DEF Told, D!Covers, D!Provider, D!Change, D!Expire, D!NextDay
  <1>1. Settled(l, R, X, i) /\ UNCHANGED <<unlisted, vouched>>
    BY DEF Told, D!Provider, D!history
  <1>2. CASE \E j \in Item : D!Change(j)
    <2>1. PICK j \in Item : D!Change(j)
      BY <1>2
    <2>2. /\ log' = Append(log, j) /\ log \in Seq(Item) /\ Len(log') = Len(log) + 1 /\ Len(log) \in Nat
          /\ \A n \in 1..Len(log) : log'[n] = log[n]
          /\ log'[Len(log) + 1] = j
      BY <2>1 DEF D!Change, DeltaTypes
    <2>3. Changed(l.at, i) => Changed(l.at, i)'
      BY <2>2 DEF Changed
    <2>4. CASE i = j
      <3>1. Len(log) + 1 \in l.at + 1..Len(log')
        BY <2>2
      <3>2. Changed(l.at, i)'
        BY <2>2, <2>4, <3>1 DEF Changed
      <3>3. QED
        BY <3>2 DEF Settled
    <2>5. CASE i # j
      <3>1. i \in alive' <=> i \in alive
        BY <2>1, <2>5 DEF D!Change
      <3>2. QED
        BY <1>1, <2>3, <3>1 DEF Settled
    <2>6. QED
      BY <2>4, <2>5
  <1>3. CASE D!Expire \/ D!NextDay
    <2>1. alive' = alive /\ log' = log
      BY <1>3 DEF D!Expire, D!NextDay
    <2>2. QED
      BY <1>1, <2>1 DEF Settled, Changed
  <1>4. QED
    BY <1>2, <1>3 DEF D!Provider

\* Told depends on the items and the changes alone.
LEMMA ToldSame ==
  ASSUME UNCHANGED <<alive, log, source>>, unlisted \subseteq unlisted', vouched \subseteq vouched'
  PROVE  \A l, R, X : Told(l, R, X) => Told(l, R, X)'
  BY DEF Told, Settled, Changed, D!Covers

\* What a unit takes away is the same while the day of an item, the source and the
\* unit are.
LEMMA EndedSame ==
  ASSUME source' = source PROVE \A u, s : Ended(u, s)' = Ended(u, s)
  BY DEF Ended, D!Covers

\* A link that is dead stays so.
LEMMA DeadStays ==
  ASSUME SourcesAssumption, DeltaTypes, D!Provider
  PROVE  \A l : LinkOK(l) => LinkOK(l)' /\ (Dead(l) => Dead(l)')
  <1> SUFFICES ASSUME NEW l, LinkOK(l) PROVE LinkOK(l)' /\ (Dead(l) => Dead(l)')
    OBVIOUS
  <1>1. /\ source' = source /\ epoch \in Nat /\ today \in Nat /\ Len(log) \in Nat /\ Len(log) <= Len(log')
        /\ epoch' \in Nat /\ epoch <= epoch' /\ today' \in Nat /\ today <= today' /\ Len(log') \in Nat
    BY DEF D!Provider, D!Change, D!Expire, D!NextDay, DeltaTypes
  <1>2. l.at \in Nat /\ l.epoch \in Nat /\ l.from \in Nat /\ MaxAge \in Nat
    BY DEF LinkOK, D!Link, SourcesAssumption, D!DeltaSyncAssumption
  <1>3. QED
    BY <1>1, <1>2 DEF LinkOK, Dead, D!Stale, D!Covers

\* What a page will do does not depend on the provider.
LEMMA NextSame ==
  ASSUME UNCHANGED <<source, rows, reconcile, touched, run>>
  PROVE  /\ UnitNext' = UnitNext /\ SeenNext' = SeenNext /\ RowsNext' = RowsNext
         /\ Ended(UnitNext, SeenNext)' = Ended(UnitNext, SeenNext)
         /\ Ended(reconcile, touched)' = Ended(reconcile, touched)
  <1>1. /\ UnitNext' = UnitNext /\ SeenNext' = SeenNext /\ RowsNext' = RowsNext
    BY DEF UnitNext, SeenNext, RowsNext, NewUnit, D!Declares, D!SameScope
  <1>2. QED
    BY <1>1 DEF Ended, D!Covers

\* The provider changes an item, drops its links, or a day passes: what the links
\* lead to grows.
LEMMA DeltaProviderStep ==
  ASSUME SourcesAssumption, DeltaOK, D!Provider PROVE DeltaOK'
  <1>0. /\ DeltaTypes /\ DeltaStored /\ DeltaRun
        /\ UNCHANGED <<source, rows, checkpoint, reconcile, touched, run, kills, unlisted, vouched>>
    BY DEF DeltaOK, D!Provider, D!Change, D!Expire, D!NextDay, D!history
  <1>1. /\ alive' \subseteq Item /\ log' \in Seq(Item) /\ Len(log') <= MaxChanges /\ Len(log) <= Len(log')
        /\ epoch' \in 0..DeltaExpiries /\ epoch <= epoch' /\ today' \in 0..LastDay /\ today <= today'
    <2>1. /\ alive \subseteq Item /\ log \in Seq(Item) /\ Len(log) \in Nat /\ Len(log) <= MaxChanges
          /\ epoch \in 0..DeltaExpiries /\ today \in 0..LastDay
          /\ {MaxChanges, DeltaExpiries, LastDay} \subseteq Nat
      BY <1>0 DEF DeltaTypes, SourcesAssumption, D!DeltaSyncAssumption
    <2>2. CASE \E j \in Item : D!Change(j)
      <3>1. PICK j \in Item : D!Change(j)
        BY <2>2
      <3>2. /\ alive' \subseteq Item /\ UNCHANGED <<epoch, today>> /\ Len(log) < MaxChanges
            /\ log' = Append(log, j)
        BY <2>1, <3>1 DEF D!Change
      <3>3. log' \in Seq(Item) /\ Len(log') = Len(log) + 1
        BY <2>1, <3>2
      <3>4. QED
        BY <2>1, <3>2, <3>3
    <2>3. CASE D!Expire
      BY <2>1, <2>3 DEF D!Expire
    <2>4. CASE D!NextDay
      BY <2>1, <2>4 DEF D!NextDay
    <2>5. QED
      BY <2>2, <2>3, <2>4 DEF D!Provider
  <1>2. \A l : LinkOK(l) => LinkOK(l)' /\ (Dead(l) => Dead(l)')
    BY <1>0, DeadStays
  <1>3. \A l, R, X : l.at \in Nat /\ l.at <= Len(log) /\ Told(l, R, X) => Told(l, R, X)'
    BY <1>0, ToldStays
  <1>4. DeltaTypes'
    BY <1>0, <1>1, <1>2 DEF DeltaTypes
  <1>5. \A R, X, u : checkpoint # None /\ LinkKept(u, R, X) => LinkKept(u, R, X)'
    <2>1. checkpoint # None => LinkOK(checkpoint) /\ checkpoint.at \in Nat /\ checkpoint.at <= Len(log)
      BY <1>0 DEF DeltaTypes, LinkOK, D!Link
    <2>2. QED
      BY <1>0, <1>2, <1>3, <2>1 DEF LinkKept
  <1>6. \A u \in Nat \cup {None} : \A R \in SUBSET Item : \A s : Reaches(u, R, s) => Reaches(u, R, s)'
    <2>1. today \in Nat /\ today' \in Nat
      BY <1>0, <1>1 DEF DeltaTypes
    <2>2. QED
      BY <1>0, <1>1, <2>1 DEF Reaches
  <1>7. /\ UnitNext' = UnitNext /\ SeenNext' = SeenNext /\ RowsNext' = RowsNext
        /\ Ended(UnitNext, SeenNext)' = Ended(UnitNext, SeenNext)
        /\ Ended(reconcile, touched)' = Ended(reconcile, touched)
    BY <1>0, NextSame
  <1>8. DeltaStored'
    <2>1. source = "calendar" => \A i \in rows : ItemDay[i] <= today' + Span
      <3>1. \A i \in rows : ItemDay[i] \in Nat
        BY <1>0 DEF DeltaTypes, SourcesAssumption, D!DeltaSyncAssumption
      <3>2. Span \in Nat /\ today \in Nat /\ today' \in Nat
        BY <1>0, <1>1 DEF DeltaTypes, SourcesAssumption, D!DeltaSyncAssumption
      <3>3. QED
        BY <1>0, <1>1, <3>1, <3>2 DEF DeltaStored
    <2>2. Reaches(reconcile, rows, touched)'
      <3>1. reconcile \in Nat \cup {None} /\ rows \in SUBSET Item
        BY <1>0 DEF DeltaTypes
      <3>2. QED
        BY <1>0, <1>6, <3>1 DEF DeltaStored
    <2>3. run.pc # "reconcile" => LinkKept(reconcile, rows, Ended(reconcile, touched))'
      <3>1. CASE checkpoint = None
        BY <1>0, <3>1 DEF LinkKept
      <3>2. CASE checkpoint # None
        BY <1>0, <1>5, <1>7, <3>2 DEF DeltaStored
      <3>3. QED
        BY <3>1, <3>2
    <2>4. run.pc = "reconcile" => Told(checkpoint, rows, Ended(reconcile, touched))'
      BY <1>0, <1>3, <1>7 DEF DeltaStored, DeltaTypes, LinkOK, D!Link
    <2>5. QED
      BY <1>0, <2>1, <2>2, <2>3, <2>4 DEF DeltaStored
  <1>9. DeltaRun'
    <2> SUFFICES ASSUME AtWork' PROVE DeltaRun'
      BY DEF DeltaRun
    <2>0. AtWork /\ run \in D!Run
      BY <1>0 DEF AtWork, DeltaTypes, D!Idle
    <2>1. FromNothing' /\ FromLink' /\ LinkAtWork'
      <3>1. FromNothing'
        <4>1. checkpoint # None /\ Dead(checkpoint) => Dead(checkpoint)'
          BY <1>0, <1>2 DEF DeltaTypes
        <4>2. QED
          BY <1>0, <2>0, <4>1 DEF FromNothing, DeltaRun, Declared
      <3>2. FromLink'
        BY <1>0, <1>2, <2>0 DEF FromLink, DeltaRun
      <3>3. LinkAtWork'
        BY <1>0, <1>2, <2>0 DEF DeltaRun, LinkAtWork
      <3>4. QED
        BY <3>1, <3>2, <3>3
    <2>2. run.link # None => run.link.at \in Nat /\ run.link.at <= Len(log)
      BY <1>0, <2>0 DEF DeltaRun, LinkAtWork, LinkOK, D!Link
    <2>3. run.pc = "fetch" /\ run.link # None /\ run.link.epoch = epoch'
            => Told(run.link, rows, Ended(reconcile, touched))'
      <3>1. run.link # None /\ run.link.epoch = epoch' => run.link.epoch = epoch
        <4>1. run.link # None => run.link.epoch \in Nat /\ run.link.epoch <= epoch
          BY <1>0, <2>0 DEF DeltaRun, LinkAtWork, LinkOK, D!Link
        <4>2. epoch \in Nat /\ epoch' \in Nat
          BY <1>0, <1>1 DEF DeltaTypes
        <4>3. QED
          BY <1>1, <4>1, <4>2
      <3>2. QED
        BY <1>0, <1>3, <1>7, <2>0, <2>2, <3>1 DEF DeltaRun
    <2>4. run.pc = "apply" =>
            /\ Told(run.link, RowsNext, Ended(UnitNext, SeenNext))'
            /\ LinkKept(UnitNext, RowsNext, Ended(UnitNext, SeenNext))'
            /\ Reaches(UnitNext, RowsNext, SeenNext)'
      <3> SUFFICES ASSUME run.pc = "apply"
                   PROVE  /\ Told(run.link, RowsNext, Ended(UnitNext, SeenNext))'
                          /\ LinkKept(UnitNext, RowsNext, Ended(UnitNext, SeenNext))'
                          /\ Reaches(UnitNext, RowsNext, SeenNext)'
        OBVIOUS
      <3>1. /\ Told(run.link, RowsNext, Ended(UnitNext, SeenNext))
            /\ LinkKept(UnitNext, RowsNext, Ended(UnitNext, SeenNext))
            /\ Reaches(UnitNext, RowsNext, SeenNext) /\ run.link # None
        BY <1>0, <2>0 DEF DeltaRun
      <3>2. UnitNext \in Nat \cup {None} /\ RowsNext \in SUBSET Item
        BY <1>0, <2>0, <3>1 DEF UnitNext, RowsNext, DeltaTypes, D!Run, D!Link
      <3>3. Told(run.link, RowsNext, Ended(UnitNext, SeenNext))'
        BY <1>0, <1>3, <1>7, <2>2, <3>1
      <3>4. LinkKept(UnitNext, RowsNext, Ended(UnitNext, SeenNext))'
        <4>1. CASE checkpoint = None
          BY <1>0, <4>1 DEF LinkKept
        <4>2. CASE checkpoint # None
          BY <1>5, <1>7, <3>1, <4>2
        <4>3. QED
          BY <4>1, <4>2
      <3>5. Reaches(UnitNext, RowsNext, SeenNext)'
        BY <1>6, <1>7, <3>1, <3>2
      <3>6. QED
        BY <3>3, <3>4, <3>5
    <2>5. run.pc = "save" => Told(run.link, rows, Ended(reconcile, touched))'
      BY <1>0, <1>3, <1>7, <2>0, <2>2 DEF DeltaRun
    <2>6. QED
      BY <1>0, <2>0, <2>1, <2>3, <2>4, <2>5 DEF DeltaRun, D!Covers
  <1>10. QED
    BY <1>4, <1>8, <1>9 DEF DeltaOK

\* What is stored stays true while nothing stored changes.
LEMMA StoredSame ==
  ASSUME DeltaTypes, DeltaStored, UNCHANGED <<alive, log, epoch, today, source, rows, checkpoint, reconcile, touched>>,
         unlisted \subseteq unlisted', vouched \subseteq vouched', run'.pc # "reconcile"
  PROVE  DeltaStored'
  <1>1. \A l, R, X : Told(l, R, X) => Told(l, R, X)'
    BY ToldSame
  <1>2. Ended(reconcile, touched)' = Ended(reconcile, touched)
    BY EndedSame
  <1>3. LinkKept(reconcile, rows, Ended(reconcile, touched))
    BY DEF DeltaStored, LinkKept
  <1>4. LinkKept(reconcile, rows, Ended(reconcile, touched))'
    BY <1>1, <1>2, <1>3 DEF LinkKept, Dead, D!Stale
  <1>5. QED
    BY <1>4 DEF DeltaStored, Reaches

\* A checkpoint, and the link of a pass, are as they were.
LEMMA LinkSame ==
  ASSUME UNCHANGED <<log, epoch, today, source>>
  PROVE  \A l : LinkOK(l)' = LinkOK(l) /\ Dead(l)' = Dead(l)
  BY DEF LinkOK, Dead, D!Stale, D!Covers

\* A run that ends leaves what is stored.
LEMMA DeltaIdle ==
  ASSUME DeltaOK, UNCHANGED <<alive, log, epoch, today, source, rows, checkpoint, reconcile, touched>>,
         UNCHANGED <<unlisted, vouched>>, run' = D!Idle, kills' \in 0..MaxKills
  PROVE  DeltaOK'
  <1>1. run'.pc = "idle"
    BY DEF D!Idle
  <1>2. DeltaStored'
    BY <1>1, StoredSame DEF DeltaOK
  <1>3. DeltaTypes'
    BY LinkSame DEF DeltaOK, DeltaTypes
  <1>4. DeltaRun'
    BY <1>1 DEF DeltaRun, AtWork
  <1>5. QED
    BY <1>2, <1>3, <1>4 DEF DeltaOK

\* A run that dies leaves what is stored.
LEMMA DeltaKillStep == ASSUME SourcesAssumption, DeltaOK, D!Kill PROVE DeltaOK'
  <1>1. kills' \in 0..MaxKills
    BY DEF D!Kill, DeltaOK, DeltaTypes, SourcesAssumption, D!DeltaSyncAssumption
  <1>2. QED
    BY <1>1, DeltaIdle DEF D!Kill, D!Failed, D!provider, D!history

\* A run starts from the stored link, or from nothing when there is none or its
\* window is stale.
LEMMA DeltaStartStep == ASSUME SourcesAssumption, DeltaOK, D!StartRun PROVE DeltaOK'
  <1>0. /\ DeltaTypes /\ DeltaStored
        /\ UNCHANGED <<source, alive, log, epoch, today, rows, checkpoint, reconcile, touched, kills, unlisted, vouched>>
    BY DEF DeltaOK, D!StartRun, D!Quiet, D!provider, D!history
  <1>1. PICK previous \in D!Link \cup {None}, full \in BOOLEAN :
          /\ run' = D!Pass(previous, full, FALSE, {})
          /\ \/ previous = None /\ (checkpoint # None => D!Stale(checkpoint))
                /\ (full => source = "calendar")
             \/ previous = checkpoint /\ checkpoint # None /\ ~D!Stale(checkpoint) /\ full = checkpoint.full
    <2>1. CASE checkpoint = None
      BY <2>1 DEF D!StartRun
    <2>2. CASE checkpoint # None /\ D!Stale(checkpoint)
      BY <2>2 DEF D!StartRun, D!Stale
    <2>3. CASE checkpoint # None /\ ~D!Stale(checkpoint)
      <3>1. checkpoint \in D!Link /\ checkpoint.full \in BOOLEAN
        BY <1>0, <2>3 DEF DeltaTypes, LinkOK, D!Link
      <3>2. QED
        BY <2>3, <3>1 DEF D!StartRun
    <2>4. QED
      BY <2>1, <2>2, <2>3
  <1>2. /\ run'.pc = "fetch" /\ run'.previous = previous /\ run'.link = previous /\ run'.full = full
        /\ run'.retried = FALSE
    BY <1>1 DEF D!Pass
  <1>3. DeltaStored'
    BY <1>0, <1>2, StoredSame
  <1>4. DeltaTypes'
    <2>1. run' \in D!Run
      BY <1>1 DEF D!Pass, D!Run, SourcesAssumption, D!DeltaSyncAssumption
    <2>2. QED
      BY <1>0, <2>1, LinkSame DEF DeltaTypes
  <1>5. CASE previous = None
    <2>1. checkpoint # None => Dead(checkpoint)'
      BY <1>0, <1>1, <1>5, LinkSame DEF Dead
    <2>2. full => source = "calendar"
      BY <1>1, <1>5
    <2>3. FromNothing' /\ FromLink' /\ LinkAtWork'
      BY <1>0, <1>2, <1>5, <2>1 DEF FromNothing, FromLink, LinkAtWork
    <2>4. run'.full => source' # "bank"
      BY <1>0, <1>2, <2>2
    <2>5. QED
      BY <1>2, <1>3, <1>4, <1>5, <2>3, <2>4 DEF DeltaRun, DeltaOK
  <1>6. CASE previous # None
    <2>1. /\ previous = checkpoint /\ checkpoint # None /\ ~D!Stale(checkpoint) /\ full = checkpoint.full
          /\ LinkOK(checkpoint)'
      BY <1>0, <1>1, <1>6, LinkSame DEF DeltaTypes
    <2>2. LinkKept(reconcile, rows, Ended(reconcile, touched))
      BY <1>0 DEF DeltaOK, D!StartRun, D!Idle, DeltaStored
    <2>3. checkpoint.epoch = epoch => Told(checkpoint, rows, Ended(reconcile, touched))
      BY <2>1, <2>2 DEF LinkKept, Dead
    <2>4. checkpoint.epoch = epoch => Told(checkpoint, rows, Ended(reconcile, touched))'
      BY <1>0, <2>3, ToldSame, EndedSame
    <2>5. FromNothing'
      BY <1>2, <1>6 DEF FromNothing
    <2>6. FromLink'
      BY <1>0, <1>2, <1>6, <2>1 DEF FromLink, DeltaStored, DeltaTypes, LinkOK, D!Link
    <2>7. LinkAtWork'
      BY <1>0, <1>2, <1>6, <2>1 DEF LinkAtWork, LinkOK, D!Link
    <2>8. run'.full => source' # "bank"
      BY <1>0, <1>2, <2>1 DEF DeltaStored
    <2>9. run'.link.epoch = epoch' => Told(run.link, rows, Ended(reconcile, touched))'
      BY <1>0, <1>2, <2>1, <2>4
    <2>10. QED
      BY <1>2, <1>3, <1>4, <2>5, <2>6, <2>7, <2>8, <2>9 DEF DeltaRun, DeltaOK
  <1>7. QED
    BY <1>1, <1>5, <1>6

\* A link the provider has dropped: the pass starts again from nothing, or ends.
LEMMA DeltaDeadLinkStep == ASSUME SourcesAssumption, DeltaOK, D!DeadLink PROVE DeltaOK'
  <1>0. /\ DeltaTypes /\ DeltaStored /\ DeltaRun /\ AtWork /\ run \in D!Run
        /\ run.pc = "fetch" /\ run.link # None /\ run.link.epoch # epoch
        /\ UNCHANGED <<source, alive, log, epoch, today, rows, reconcile, touched, kills, unlisted, vouched>>
    BY DEF DeltaOK, D!DeadLink, D!provider, D!history, AtWork, DeltaTypes, D!Idle
  <1>1. CASE run' = D!Idle /\ checkpoint' = checkpoint
    BY <1>0, <1>1, DeltaIdle DEF DeltaTypes
  <1>2. CASE \E full, retried \in BOOLEAN :
               /\ run' = D!Pass(None, full, retried, run.touched)
               /\ full => source # "bank"
               /\ checkpoint' = None \/ (checkpoint' = checkpoint /\ run.previous # None)
    <2>1. PICK full \in BOOLEAN, retried \in BOOLEAN :
               /\ run' = D!Pass(None, full, retried, run.touched)
               /\ full => source # "bank"
               /\ checkpoint' = None \/ (checkpoint' = checkpoint /\ run.previous # None)
      BY <1>2
    <2>2. run'.pc = "fetch" /\ run'.previous = None /\ run'.link = None /\ run'.full = full
      BY <2>1 DEF D!Pass
    <2>3. run' \in D!Run
      <3>1. 1 \in 1..MaxAttempts /\ run.touched \in SUBSET Item
        BY <1>0 DEF D!Run, SourcesAssumption, D!DeltaSyncAssumption
      <3>2. QED
        BY <2>1, <3>1 DEF D!Pass, D!Run
    <2>4. DeltaTypes'
      BY <1>0, <2>1, <2>3, LinkSame DEF DeltaTypes
    <2>5. DeltaStored'
      <3>1. CASE checkpoint' = checkpoint
        BY <1>0, <2>2, <3>1, StoredSame
      <3>2. CASE checkpoint' = None
        BY <1>0, <2>2, <3>2 DEF DeltaStored, LinkKept, Reaches
      <3>3. QED
        BY <2>1, <3>1, <3>2
    <2>6. checkpoint' # None => Dead(checkpoint)'
      BY <1>0, <2>1, LinkSame DEF DeltaRun, FromLink, Dead
    <2>7. FromNothing' /\ FromLink' /\ LinkAtWork'
      BY <2>2, <2>6 DEF FromNothing, FromLink, LinkAtWork
    <2>8. DeltaRun'
      BY <1>0, <2>1, <2>2, <2>7 DEF DeltaRun
    <2>9. QED
      BY <2>4, <2>5, <2>8 DEF DeltaOK
  <1>3. QED
    <2>1. run.retried \in BOOLEAN
      BY <1>0 DEF D!Run
    <2>2. QED
      BY <1>0, <1>1, <1>2, <2>1 DEF D!DeadLink, D!CheckpointInvalid, D!Failed

\* The bank changed between two pages: the pass starts over where it began.
LEMMA DeltaMutationStep == ASSUME SourcesAssumption, DeltaOK, D!Mutation PROVE DeltaOK'
  <1>0. /\ DeltaTypes /\ DeltaStored /\ DeltaRun /\ AtWork /\ run \in D!Run
        /\ source = "bank" /\ run.pc = "fetch"
        /\ UNCHANGED <<source, alive, log, epoch, today, rows, checkpoint, reconcile, touched, kills, unlisted, vouched>>
    BY DEF DeltaOK, D!Mutation, D!Quiet, D!provider, D!history, AtWork, DeltaTypes, D!Idle
  <1>1. CASE run' = D!Idle
    BY <1>0, <1>1, DeltaIdle DEF DeltaTypes
  <1>2. CASE run.attempt # MaxAttempts /\ run' = [run EXCEPT !.attempt = @ + 1, !.link = run.previous]
    <2>1. /\ run' \in D!Run /\ run'.pc = "fetch" /\ run'.previous = run.previous /\ run'.link = run.previous
          /\ run'.full = run.full /\ run'.retried = run.retried
      <3>1. run.attempt + 1 \in 1..MaxAttempts /\ run.previous \in D!Link \cup {None}
        BY <1>0, <1>2 DEF D!Run, SourcesAssumption, D!DeltaSyncAssumption
      <3>2. QED
        BY <1>0, <1>2, <3>1 DEF D!Run
    <2>2. DeltaTypes'
      BY <1>0, <2>1, LinkSame DEF DeltaTypes
    <2>3. DeltaStored'
      BY <1>0, <2>1, StoredSame
    <2>4. CASE run.previous = None
      <3>1. checkpoint # None => Dead(checkpoint)'
        BY <1>0, <2>4, LinkSame DEF DeltaRun, FromNothing
      <3>2. FromNothing' /\ FromLink' /\ LinkAtWork'
        BY <1>0, <2>1, <2>4, <3>1 DEF FromNothing, FromLink, LinkAtWork
      <3>3. run.full => source # "bank"
        BY <1>0 DEF DeltaRun
      <3>4. DeltaRun'
        BY <1>0, <2>1, <2>4, <3>2, <3>3 DEF DeltaRun
      <3>5. QED
        BY <2>2, <2>3, <3>4 DEF DeltaOK
    <2>5. CASE run.previous # None
      <3>1. /\ FromLink /\ checkpoint = run.previous /\ checkpoint # None /\ LinkOK(checkpoint) /\ ~run.full
            /\ checkpoint.kind = "delta" /\ checkpoint.left = {} /\ ~run.retried /\ checkpoint.at \in Nat
        BY <1>0, <2>5 DEF DeltaRun, FromLink, LinkOK, D!Link
      <3>2. checkpoint.epoch = epoch => Told(checkpoint, rows, Ended(reconcile, touched))
        BY <1>0, <3>1 DEF DeltaStored, LinkKept, Dead, D!Stale
      <3>3. checkpoint.epoch = epoch => Told(checkpoint, rows, Ended(reconcile, touched))'
        BY <1>0, <3>2, ToldSame, EndedSame
      <3>4. LinkOK(checkpoint)'
        BY <1>0, <3>1, LinkSame
      <3>5. FromNothing' /\ FromLink' /\ LinkAtWork'
        BY <1>0, <2>1, <2>5, <3>1, <3>4 DEF FromNothing, FromLink, LinkAtWork
      <3>6. DeltaRun'
        BY <1>0, <2>1, <2>5, <3>1, <3>3, <3>5 DEF DeltaRun
      <3>7. QED
        BY <2>2, <2>3, <3>6 DEF DeltaOK
    <2>6. QED
      BY <2>4, <2>5
  <1>3. QED
    BY <1>1, <1>2 DEF D!Mutation, D!Failed, D!StartCursor

\* The reconcile takes away what the unit has not seen, and the checkpoint still
\* leads to whatever has changed.
LEMMA DeltaReconcileStep == ASSUME SourcesAssumption, DeltaOK, D!Reconcile PROVE DeltaOK'
  <1>0. /\ DeltaTypes /\ DeltaStored /\ run.pc = "reconcile"
        /\ UNCHANGED <<source, alive, log, epoch, today, checkpoint, kills, unlisted, vouched>>
        /\ reconcile' = None /\ touched' = {} /\ run' = D!Idle
        /\ rows' = {i \in rows : i \in touched \/ ~D!Covers(reconcile, i)}
    BY DEF DeltaOK, D!Reconcile, D!provider, D!history
  <1>1. Told(checkpoint, rows, Ended(reconcile, touched)) /\ reconcile # None
    BY <1>0 DEF DeltaStored
  <1>2. Told(checkpoint, rows, Ended(reconcile, touched))'
    <2>1. SUFFICES ASSUME NEW i \in Item, D!Covers(checkpoint.from, i)
                   PROVE  Settled(checkpoint, rows, Ended(reconcile, touched), i)'
      BY <1>0 DEF Told, D!Covers
    <2>2. Settled(checkpoint, rows, Ended(reconcile, touched), i)
      BY <1>1, <2>1 DEF Told
    <2>3. i \in Ended(reconcile, touched) <=> i \notin touched /\ D!Covers(reconcile, i)
      BY <1>1 DEF Ended
    <2>4. Ended(reconcile, touched)' = {}
      BY <1>0 DEF Ended
    <2>5. i \in rows' <=> i \in rows /\ i \notin Ended(reconcile, touched)
      BY <1>0, <2>3
    <2>6. QED
      BY <1>0, <2>2, <2>4, <2>5 DEF Settled, Changed
  <1>3. run'.pc = "idle"
    BY <1>0 DEF D!Idle
  <1>4. DeltaTypes'
    BY <1>0, LinkSame DEF DeltaTypes
  <1>5. DeltaStored'
    <2>1. ~checkpoint.full
      BY <1>0 DEF DeltaStored
    <2>2. source = "calendar" => \A i \in rows' : ItemDay[i] <= today + Span
      BY <1>0 DEF DeltaStored
    <2>3. QED
      BY <1>0, <1>2, <1>3, <2>1, <2>2 DEF DeltaStored, LinkKept, Reaches
  <1>6. DeltaRun'
    BY <1>3 DEF DeltaRun, AtWork
  <1>7. QED
    BY <1>4, <1>5, <1>6 DEF DeltaOK

\* A page is applied: the unit it declares, its rows, what it has seen.
LEMMA DeltaApplyStep == ASSUME SourcesAssumption, DeltaOK, D!Apply PROVE DeltaOK'
  <1>0. /\ DeltaTypes /\ DeltaStored /\ DeltaRun /\ AtWork /\ run \in D!Run
        /\ run.pc = "apply" /\ run.link # None
        /\ UNCHANGED <<source, alive, log, epoch, today, checkpoint, kills, unlisted, vouched>>
    BY DEF DeltaOK, DeltaRun, D!Apply, D!provider, D!history, AtWork, DeltaTypes, D!Idle
  <1>1. /\ reconcile' = UnitNext /\ touched' = SeenNext /\ rows' = RowsNext
        /\ run' = [run EXCEPT !.pc = "save", !.touched = @ \cup run.upserts]
    BY DEF D!Apply, D!LinkPage, UnitNext, SeenNext, RowsNext, NewUnit
  <1>2. /\ run' \in D!Run /\ run'.pc = "save" /\ run'.previous = run.previous /\ run'.link = run.link
        /\ run'.full = run.full /\ run'.retried = run.retried /\ run'.touched = run.touched \cup run.upserts
    BY <1>0, <1>1 DEF D!Run
  <1>3. LinkOK(run.link) /\ run.link.from \in Nat /\ run.link.from \in 0..LastDay
    BY <1>0 DEF DeltaRun, LinkAtWork, LinkOK, D!Link
  <1>4. /\ UnitNext \in 0..LastDay \cup {None} /\ RowsNext \subseteq Item /\ SeenNext \subseteq Item
        /\ (reconcile # None => UnitNext # None) /\ (NewUnit => UnitNext # None)
    BY <1>0, <1>3 DEF UnitNext, RowsNext, SeenNext, DeltaTypes, D!Run, SourcesAssumption, D!DeltaSyncAssumption
  <1>5. Ended(reconcile, touched)' = Ended(UnitNext, SeenNext)
    BY <1>0, <1>1 DEF Ended, D!Covers
  <1>6. \A l, R, X : Told(l, R, X) => Told(l, R, X)'
    BY <1>0, ToldSame
  <1>7. /\ \A i \in run.page : D!Covers(run.link.from, i)
        /\ run.upserts \subseteq run.page
        /\ Told(run.link, RowsNext, Ended(UnitNext, SeenNext))
        /\ LinkKept(UnitNext, RowsNext, Ended(UnitNext, SeenNext))
        /\ Reaches(UnitNext, RowsNext, SeenNext)
    BY <1>0 DEF DeltaRun
  <1>8. Told(run.link, rows, Ended(reconcile, touched))'
    BY <1>1, <1>2, <1>5, <1>6, <1>7
  <1>9. LinkKept(reconcile, rows, Ended(reconcile, touched))'
    <2>1. Dead(checkpoint)' = Dead(checkpoint)
      BY <1>0 DEF Dead, D!Stale
    <2>2. Told(checkpoint, RowsNext, Ended(UnitNext, SeenNext)) => Told(checkpoint, rows, Ended(reconcile, touched))'
      BY <1>0, <1>1, <1>5, <1>6
    <2>3. QED
      BY <1>0, <1>1, <1>7, <2>1, <2>2 DEF LinkKept
  <1>10. Reaches(reconcile, rows, touched)'
    BY <1>0, <1>1, <1>7 DEF Reaches
  <1>11. source = "calendar" => \A i \in run.upserts : ItemDay[i] <= run.link.from + Span
    BY <1>7 DEF D!Covers
  <1>12. source = "calendar" => \A i \in rows' : i \in rows \/ ItemDay[i] <= run.link.from + Span
    BY <1>1, <1>11 DEF RowsNext
  <1>13. DeltaTypes'
    BY <1>0, <1>1, <1>2, <1>4, LinkSame DEF DeltaTypes
  <1>14. DeltaStored'
    <2>1. source = "calendar" => \A i \in rows' : ItemDay[i] <= today + Span
      <3> SUFFICES ASSUME source = "calendar", NEW i \in rows' PROVE ItemDay[i] <= today + Span
        OBVIOUS
      <3>1. ItemDay[i] \in Nat /\ Span \in Nat /\ today \in Nat /\ run.link.from <= today
        BY <1>0, <1>1, <1>3, <1>4 DEF LinkOK, DeltaTypes, SourcesAssumption, D!DeltaSyncAssumption
      <3>2. i \in rows => ItemDay[i] <= today + Span
        BY <1>0 DEF DeltaStored
      <3>3. QED
        BY <1>3, <1>12, <3>1, <3>2
    <2>2. checkpoint # None =>
            /\ checkpoint.kind = "delta" => checkpoint.left = {} /\ ~checkpoint.full
            /\ checkpoint.full => reconcile' # None /\ source # "bank"
      BY <1>0, <1>1, <1>4 DEF DeltaStored
    <2>3. QED
      BY <1>0, <1>2, <1>9, <1>10, <2>1, <2>2 DEF DeltaStored
  <1>15. DeltaRun'
    <2>1. FromNothing'
      <3> SUFFICES ASSUME run.previous = None PROVE FromNothing'
        BY <1>2 DEF FromNothing
      <3>1. FromNothing
        BY <1>0 DEF DeltaRun
      <3>2. source = "calendar" => \A i \in rows' : ItemDay[i] <= run.link.from + Span
        BY <1>0, <1>12, <3>1 DEF FromNothing
      <3>3. run.full \/ run.retried => Declared'
        <4> SUFFICES ASSUME run.full \/ run.retried PROVE Declared'
          OBVIOUS
        <4>1. CASE source = "bank"
          <5>1. NewUnit \/ reconcile # None
            BY <4>1 DEF NewUnit, D!Declares, D!SameScope
          <5>2. QED
            BY <1>0, <1>1, <1>4, <4>1, <5>1 DEF Declared
        <4>2. CASE source # "bank"
          <5>1. NewUnit
            BY <4>2 DEF NewUnit, D!Declares, D!SameScope
          <5>2. reconcile' = run.link.from /\ touched' = run.touched \cup run.upserts /\ reconcile' # None
            BY <1>1, <1>4, <5>1 DEF UnitNext, SeenNext
          <5>3. QED
            BY <1>2, <5>2 DEF Declared
        <4>3. QED
          BY <4>1, <4>2
      <3>4. checkpoint # None => Dead(checkpoint)' \/ (source = "mail" /\ run.link # None)
        BY <1>0, <3>1, LinkSame DEF FromNothing
      <3>5. QED
        BY <1>0, <1>2, <3>2, <3>3, <3>4 DEF FromNothing
    <2>2. FromLink'
      BY <1>0, <1>1, <1>2, <1>4, LinkSame DEF DeltaRun, FromLink
    <2>3. LinkAtWork'
      BY <1>0, <1>2, LinkSame DEF DeltaRun, LinkAtWork
    <2>4. QED
      BY <1>0, <1>2, <1>8, <2>1, <2>2, <2>3 DEF DeltaRun
  <1>16. QED
    BY <1>13, <1>14, <1>15 DEF DeltaOK


\* The checkpoint of the page is stored: the new link when all has been listed,
\* the next page of a mail backfill, else what the pass started from.
LEMMA DeltaSaveStep == ASSUME SourcesAssumption, DeltaOK, D!Save PROVE DeltaOK'
  <1>0. /\ DeltaTypes /\ DeltaStored /\ DeltaRun /\ AtWork /\ run \in D!Run
        /\ run.pc = "save" /\ run.link # None
        /\ FromNothing /\ FromLink /\ LinkAtWork
        /\ UNCHANGED <<source, alive, log, epoch, today, rows, reconcile, touched, kills, unlisted, vouched>>
    BY DEF DeltaOK, DeltaRun, D!Save, D!provider, D!history, AtWork, DeltaTypes, D!Idle
  <1>1. /\ LinkOK(run.link) /\ run.link \in D!Link /\ run.link.full = run.full
        /\ run.link.kind = IF run.previous = None THEN "next" ELSE run.previous.kind
        /\ Told(run.link, rows, Ended(reconcile, touched))
    BY <1>0 DEF DeltaRun, LinkAtWork, LinkOK
  <1>2. \A l : Told(l, rows, Ended(reconcile, touched)) => Told(l, rows, Ended(reconcile, touched))'
    <2>1. /\ \A l, R, X : Told(l, R, X) => Told(l, R, X)'
          /\ Ended(reconcile, touched)' = Ended(reconcile, touched)
      BY <1>0, ToldSame, EndedSame
    <2>2. QED
      BY <1>0, <2>1
  <1>3. /\ None \notin D!Link
        /\ \A pc \in {"fetch", "reconcile"} : [run EXCEPT !.pc = pc] \in D!Run
    BY <1>0 DEF D!Run, SourcesAssumption, D!DeltaSyncAssumption
  <1>4. CASE D!Done
    <2>0. PICK L : L = D!DeltaLink(run.link)
      OBVIOUS
    <2>1. /\ L \in D!Link /\ L # None /\ L.kind = "delta" /\ L.left = {} /\ L.full = FALSE
          /\ L.at = run.link.at /\ L.epoch = run.link.epoch /\ L.from = run.link.from
      BY <1>1, <1>3, <2>0 DEF D!DeltaLink, D!Link
    <2>2. /\ checkpoint' = L
          /\ run' = IF reconcile = None THEN D!Idle ELSE [run EXCEPT !.pc = "reconcile"]
      BY <1>4, <2>0, <2>1 DEF D!Save, D!PageCheckpoint
    <2>3. LinkOK(L)'
      BY <1>0, <1>1, <2>1, LinkSame DEF LinkOK
    <2>4. Told(L, rows, Ended(reconcile, touched))
      BY <1>1, <1>4, <2>1 DEF Told, Settled, D!Done
    <2>5. Told(L, rows, Ended(reconcile, touched))'
      BY <1>2, <2>4
    <2>6. Told(checkpoint, rows, Ended(reconcile, touched))'
      BY <2>2, <2>5
    <2>7. run' \in D!Run \cup {D!Idle} /\ run'.pc \in {"idle", "reconcile"}
          /\ (run'.pc = "reconcile" => reconcile # None)
      BY <1>0, <1>3, <2>2 DEF D!Idle, D!Run
    <2>8. DeltaTypes'
      BY <1>0, <2>1, <2>2, <2>3, <2>7 DEF DeltaTypes
    <2>9. DeltaStored'
      BY <1>0, <2>1, <2>2, <2>6, <2>7 DEF DeltaStored, LinkKept, Reaches
    <2>10. DeltaRun'
      BY <2>7 DEF DeltaRun, AtWork
    <2>11. QED
      BY <2>8, <2>9, <2>10 DEF DeltaOK
  <1>5. CASE ~D!Done /\ checkpoint' = checkpoint
    <2>1. CASE run' = D!Idle
      BY <1>0, <1>5, <2>1, DeltaIdle DEF DeltaTypes
    <2>2. CASE run' = [run EXCEPT !.pc = "fetch"]
      <3>1. /\ run' \in D!Run /\ run'.pc = "fetch" /\ run'.previous = run.previous /\ run'.link = run.link
            /\ run'.full = run.full /\ run'.retried = run.retried /\ run'.touched = run.touched
        BY <1>0, <1>3, <2>2 DEF D!Run
      <3>2. DeltaTypes'
        BY <1>0, <1>5, <3>1, LinkSame DEF DeltaTypes
      <3>3. DeltaStored'
        BY <1>0, <1>5, <3>1, StoredSame
      <3>4. FromNothing'
        BY <1>0, <1>5, <3>1, LinkSame DEF FromNothing, Declared
      <3>5. FromLink'
        BY <1>0, <1>5, <3>1, LinkSame DEF FromLink
      <3>6. LinkAtWork'
        BY <1>0, <1>5, <3>1, LinkSame DEF LinkAtWork
      <3>7. Told(run.link, rows, Ended(reconcile, touched))'
        BY <1>1, <1>2, <3>1
      <3>8. DeltaRun'
        BY <1>0, <3>1, <3>4, <3>5, <3>6, <3>7 DEF DeltaRun
      <3>9. QED
        BY <3>2, <3>3, <3>8 DEF DeltaOK
    <2>3. QED
      BY <1>5, <2>1, <2>2 DEF D!Save
  <1>6. CASE ~D!Done /\ source = "mail" /\ (run.previous = None \/ run.previous.kind = "next")
    <2>1. checkpoint' = run.link /\ run.link.kind = "next"
      BY <1>0, <1>1, <1>6 DEF D!Save, D!PageCheckpoint
    <2>2. LinkOK(checkpoint)'
      <3>1. PICK l : l = run.link
        OBVIOUS
      <3>2. LinkOK(l)'
        BY <1>0, <1>1, <3>1, LinkSame
      <3>3. QED
        BY <2>1, <3>1, <3>2
    <2>3. run.full => reconcile # None
      BY <1>0 DEF FromNothing, FromLink, Declared
    <2>4. Told(checkpoint, rows, Ended(reconcile, touched))'
      <3>1. PICK l : l = run.link
        OBVIOUS
      <3>2. Told(l, rows, Ended(reconcile, touched))'
        BY <1>1, <1>2, <3>1
      <3>3. QED
        BY <2>1, <3>1, <3>2
    <2>5. run' = D!Idle \/ run' = [run EXCEPT !.pc = "fetch"]
      BY <1>6 DEF D!Save
    <2>6. run' \in D!Run \cup {D!Idle} /\ run'.pc \in {"idle", "fetch"}
      BY <1>0, <1>3, <2>5 DEF D!Idle, D!Run
    <2>7. DeltaTypes'
      BY <1>0, <1>3, <1>6, <2>1, <2>2, <2>6 DEF DeltaTypes
    <2>8. DeltaStored'
      BY <1>0, <1>1, <1>6, <2>1, <2>3, <2>4, <2>6 DEF DeltaStored, LinkKept, Reaches
    <2>9. DeltaRun'
      <3> SUFFICES ASSUME AtWork' PROVE DeltaRun'
        BY DEF DeltaRun
      <3>1. /\ run' \in D!Run /\ run'.pc = "fetch" /\ run'.previous = run.previous /\ run'.link = run.link
            /\ run'.full = run.full /\ run'.retried = run.retried /\ run'.touched = run.touched
        BY <1>0, <1>3, <2>5, <2>6 DEF AtWork, D!Run, D!Idle
      <3>2. FromNothing'
        BY <1>0, <1>6, <3>1 DEF FromNothing, Declared
      <3>3. FromLink'
        BY <1>0, <1>6, <2>1, <2>3, <3>1, LinkSame DEF FromLink
      <3>4. LinkAtWork'
        BY <1>0, <1>1, <2>1, <2>2, <3>1 DEF LinkAtWork, LinkOK, D!Link
      <3>5. Told(run.link, rows, Ended(reconcile, touched))'
        BY <2>1, <2>4, <3>1
      <3>6. QED
        BY <1>0, <3>1, <3>2, <3>3, <3>4, <3>5 DEF DeltaRun
    <2>10. QED
      BY <2>7, <2>8, <2>9 DEF DeltaOK
  <1>7. QED
    <2>1. ~D!Done /\ ~(source = "mail" /\ (run.previous = None \/ run.previous.kind = "next")) => checkpoint' = checkpoint
      <3>1. run.previous # None => run.previous.kind \in {"next", "delta"}
        BY <1>0 DEF D!Run, D!Link
      <3>2. QED
        BY <1>0, <3>1 DEF D!Save, D!PageCheckpoint, FromLink
    <2>2. QED
      BY <1>4, <1>5, <1>6, <2>1

\* A page of the listing: what it names is as the provider shows it, the rest as
\* it was.
LEMMA PageTold ==
  ASSUME UNCHANGED <<alive, log, source>>
  PROVE  \A k, l, R, page, unit, base :
           /\ Told(k, R, Ended(unit, base))'
           /\ l.from = k.from /\ l.at = k.at /\ k.left \ page \subseteq l.left
           => Told(l, (R \ page) \cup (page \cap alive),
                   Ended(unit, IF unit = None THEN {} ELSE base \cup (page \cap alive)))'
  <1> SUFFICES ASSUME NEW k, NEW l, NEW R, NEW page, NEW unit, NEW base,
                      Told(k, R, Ended(unit, base))',
                      l.from = k.from, l.at = k.at, k.left \ page \subseteq l.left,
                      NEW i \in Item, D!Covers(l.from, i)'
               PROVE  Settled(l, (R \ page) \cup (page \cap alive),
                              Ended(unit, IF unit = None THEN {} ELSE base \cup (page \cap alive)), i)'
    BY DEF Told
  <1> DEFINE R2 == (R \ page) \cup (page \cap alive)
             X1 == Ended(unit, base)
             X2 == Ended(unit, IF unit = None THEN {} ELSE base \cup (page \cap alive))
  <1>1. Settled(k, R, X1, i)'
    BY DEF Told
  <1>2. CASE i \in page
    <2>1. i \in alive => i \in R2' /\ i \notin X2'
      BY <1>2 DEF Ended
    <2>2. i \notin alive => i \notin R2'
      BY <1>2
    <2>3. QED
      BY <2>1, <2>2 DEF Settled
  <1>3. CASE i \notin page
    <2>1. (i \in R2' <=> i \in R) /\ (i \in X2' <=> i \in X1')
      BY <1>3 DEF Ended
    <2>2. (i \in k.left => i \in l.left) /\ (Changed(k.at, i)' => Changed(l.at, i)')
      BY <1>3
    <2>3. QED
      BY <1>1, <2>1, <2>2 DEF Settled
  <1>4. QED
    BY <1>2, <1>3

\* What a request settles before its page is cut from it: unit and base are the
\* unit at work once the page is applied, and what it has seen without the page.
Requested(l, unit, base) ==
  /\ LinkOK(l) /\ l.epoch = epoch
  /\ l.kind = IF run.previous = None THEN "next" ELSE run.previous.kind
  /\ checkpoint # None => checkpoint.at <= l.at
  /\ run.previous = None /\ source = "calendar" => \A i \in rows : ItemDay[i] <= l.from + Span
  /\ unit \in Nat \cup {None}
  /\ Told(l, rows, Ended(unit, base))'
  /\ LinkKept(unit, rows, Ended(unit, base))'
  /\ Reaches(unit, rows, base)
  /\ run.previous # None => l.epoch = run.previous.epoch

\* A page is cut from the request.
Cut(l, page) ==
  /\ page \subseteq l.left
  /\ run' = [run EXCEPT !.pc = "apply", !.page = page, !.upserts = page \cap alive,
                        !.link = [l EXCEPT !.left = @ \ page, !.full = run.full]]

\* The unit that applying the page at hand will leave.
Leaves(l, unit, base, page) ==
  /\ UnitNext' = unit
  /\ SeenNext' = IF unit = None THEN {} ELSE base \cup (page \cap alive)

\* The run once a page is cut from its link.
LEMMA CutRun ==
  ASSUME SourcesAssumption, run \in D!Run, NEW l, LinkOK(l), NEW page, Cut(l, page)
  PROVE  /\ run' \in D!Run /\ run'.pc = "apply" /\ run'.previous = run.previous /\ run'.full = run.full
         /\ run'.retried = run.retried /\ run'.touched = run.touched /\ run'.page = page
         /\ run'.upserts = page \cap alive /\ run'.link # None /\ page \subseteq Item
         /\ run'.link \in D!Link /\ run'.link.left = l.left \ page /\ run'.link.full = run.full
         /\ run'.link.at = l.at /\ run'.link.from = l.from /\ run'.link.epoch = l.epoch /\ run'.link.kind = l.kind
  <1>1. l \in D!Link /\ run.full \in BOOLEAN /\ None \notin D!Link /\ page \subseteq Item /\ page \cap alive \subseteq Item
    BY DEF LinkOK, D!Link, D!Run, SourcesAssumption, D!DeltaSyncAssumption, Cut
  <1>2. [l EXCEPT !.left = @ \ page, !.full = run.full] \in D!Link
    BY <1>1 DEF D!Link
  <1>3. QED
    BY <1>1, <1>2 DEF Cut, D!Run, D!Link

\* What is stored while a request is made, and what a request keeps.
LEMMA RequestKeeps ==
  ASSUME DeltaTypes, DeltaStored, run.pc = "fetch",
         UNCHANGED <<source, alive, log, epoch, today, rows, checkpoint, reconcile, touched, unlisted, vouched>>
  PROVE  /\ reconcile \in Nat \cup {None} /\ Reaches(reconcile, rows, touched)
         /\ LinkKept(reconcile, rows, Ended(reconcile, touched))'
         /\ \A l : Told(l, rows, Ended(reconcile, touched)) => Told(l, rows, Ended(reconcile, touched))'
  <1>1. reconcile \in Nat \cup {None} /\ Reaches(reconcile, rows, touched) /\ LinkKept(reconcile, rows, Ended(reconcile, touched))
    BY DEF DeltaTypes, DeltaStored
  <1>2. /\ \A l, R, X : Told(l, R, X) => Told(l, R, X)'
        /\ Ended(reconcile, touched)' = Ended(reconcile, touched)
    BY ToldSame, EndedSame
  <1>3. LinkKept(reconcile, rows, Ended(reconcile, touched))'
    BY <1>1, <1>2, LinkSame DEF LinkKept, Dead, D!Stale
  <1>4. QED
    BY <1>1, <1>2, <1>3

\* A request for what has changed since a delta link.
LEMMA DeltaRound ==
  ASSUME SourcesAssumption, DeltaTypes, DeltaStored, DeltaRun, AtWork, run \in D!Run, run.pc = "fetch", run.link # None,
         run.link.epoch = epoch, run.link = run.previous, run.link.kind = "delta", NEW l, l = D!Round(run.link),
         NEW page, Cut(l, page),
         UNCHANGED <<source, alive, log, epoch, today, rows, checkpoint, reconcile, touched, unlisted, vouched>>
  PROVE  Requested(l, reconcile, touched) /\ Leaves(l, reconcile, touched, page)
  <1>1. /\ LinkOK(run.link) /\ Told(run.link, rows, Ended(reconcile, touched))
        /\ FromNothing /\ FromLink /\ LinkAtWork /\ None \notin D!Link /\ Len(log) \in 0..MaxChanges
    BY DEF DeltaRun, LinkAtWork, DeltaTypes, SourcesAssumption, D!DeltaSyncAssumption
  <1>2. run.previous # None /\ run.link.left = {} /\ checkpoint = run.link /\ run.link \in D!Link
    BY <1>1 DEF FromLink, LinkOK
  <1>3. /\ l \in D!Link /\ l.at = Len(log) /\ l.epoch = run.link.epoch /\ l.from = run.link.from /\ l.kind = "delta"
        /\ l.left = {i \in Item : D!Covers(run.link.from, i) /\ Changed(run.link.at, i)}
    BY <1>1, <1>2 DEF D!Round, D!Link, Changed
  <1>4. LinkOK(l)
    BY <1>1, <1>3 DEF LinkOK
  <1>5. Told(l, rows, Ended(reconcile, touched))
    BY <1>1, <1>2, <1>3 DEF Told, Settled
  <1>6. Told(l, rows, Ended(reconcile, touched))'
    BY <1>5, RequestKeeps
  <1>7. checkpoint.at <= l.at
    BY <1>1, <1>2, <1>3 DEF LinkOK
  <1>8. Requested(l, reconcile, touched)
    BY <1>2, <1>3, <1>4, <1>6, <1>7, RequestKeeps DEF Requested
  <1>9. ~NewUnit'
    BY <1>2, <1>4, CutRun DEF NewUnit, D!Declares
  <1>10. QED
    BY <1>4, <1>8, <1>9, CutRun DEF Leaves, UnitNext, SeenNext

\* A request for the next page of a listing.
LEMMA DeltaContinue ==
  ASSUME SourcesAssumption, DeltaTypes, DeltaStored, DeltaRun, AtWork, run \in D!Run, run.pc = "fetch", run.link # None,
         run.link.epoch = epoch, NEW l, l = run.link, NEW page, Cut(l, page),
         UNCHANGED <<source, alive, log, epoch, today, rows, checkpoint, reconcile, touched, unlisted, vouched>>
  PROVE  Requested(l, reconcile, touched) /\ Leaves(l, reconcile, touched, page)
  <1>1. /\ LinkOK(l) /\ Told(l, rows, Ended(reconcile, touched))
        /\ FromNothing /\ FromLink /\ LinkAtWork
    BY DEF DeltaRun, LinkAtWork
  <1>2. Told(l, rows, Ended(reconcile, touched))'
    BY <1>1, RequestKeeps
  <1>3. Requested(l, reconcile, touched)
    BY <1>1, <1>2, RequestKeeps DEF Requested, FromNothing, FromLink, LinkAtWork
  <1>4. run'.link.from = l.from /\ run'.touched = run.touched /\ run'.upserts = page \cap alive
    BY <1>1, CutRun
  <1>5. NewUnit' <=> NewUnit
    BY <1>1, CutRun DEF NewUnit, D!Declares, D!SameScope
  <1>6. CASE ~NewUnit
    <2>1. UnitNext' = reconcile
      BY <1>4, <1>5, <1>6 DEF UnitNext
    <2>2. SeenNext' = IF reconcile = None THEN {} ELSE touched \cup (page \cap alive)
      BY <1>4, <1>5, <1>6, <2>1 DEF SeenNext
    <2>3. QED
      BY <1>3, <2>1, <2>2 DEF Leaves
  <1>7. CASE NewUnit
    <2>1. run.previous = None
      BY <1>1, <1>7 DEF NewUnit, D!Declares, D!SameScope, FromLink
    <2>2. reconcile # None /\ reconcile = l.from /\ touched = run.touched
      BY <1>1, <1>7, <2>1 DEF NewUnit, D!Declares, D!SameScope, FromNothing, Declared
    <2>3. UnitNext' = reconcile
      BY <1>4, <1>5, <1>7, <2>2 DEF UnitNext
    <2>4. SeenNext' = touched \cup (page \cap alive)
      BY <1>4, <1>5, <1>7, <2>2, <2>3 DEF SeenNext
    <2>5. QED
      BY <1>3, <2>2, <2>3, <2>4 DEF Leaves
  <1>8. QED
    BY <1>3, <1>6, <1>7

\* A listing that opens: what it does not report is excused, or goes with the
\* unit it declares or continues.
LEMMA DeltaOpen ==
  ASSUME SourcesAssumption, DeltaTypes, DeltaStored, DeltaRun, AtWork, run \in D!Run, run.pc = "fetch", run.link = None,
         NEW l, l = D!Listing, NEW page, Cut(l, page), D!Opening,
         UNCHANGED <<source, alive, log, epoch, today, rows, checkpoint, reconcile, touched>>
  PROVE  /\ \E unit, base : Requested(l, unit, base) /\ Leaves(l, unit, base, page)
         /\ unlisted \subseteq unlisted' /\ vouched \subseteq vouched'
         /\ unlisted' \subseteq Item /\ vouched' \subseteq Item
  <1> DEFINE declares == run.full \/ run.retried
             fresh == declares /\ ~(source = "bank" /\ reconcile # None)
             spared == IF fresh THEN run.touched ELSE touched
             declared == declares \/ reconcile # None
             from == IF fresh THEN today ELSE reconcile
  <1>0. /\ unlisted' = IF declared THEN unlisted ELSE unlisted \cup (rows \ alive)
        /\ vouched' = IF declared THEN vouched \cup ((rows \ alive) \cap spared) ELSE vouched
    BY DEF D!Opening
  <1>1. PICK unit, base : unit = from /\ base = spared
    OBVIOUS
  <1>2. run.previous = None /\ FromNothing
    BY DEF DeltaRun, FromLink
  <1>3. /\ l \in D!Link /\ l.at = Len(log) /\ l.epoch = epoch /\ l.from = today /\ l.kind = "next"
        /\ l.left = {i \in alive : D!Covers(today, i)} /\ Len(log) \in 0..MaxChanges
        /\ today \in Nat /\ today \in 0..LastDay /\ None \notin Nat /\ epoch \in Nat
    BY DEF D!Listing, D!Link, DeltaTypes, SourcesAssumption, D!DeltaSyncAssumption
  <1>4. LinkOK(l)
    BY <1>3 DEF LinkOK
  <1>5. /\ unlisted \subseteq unlisted' /\ vouched \subseteq vouched'
        /\ unlisted' \subseteq Item /\ vouched' \subseteq Item
    BY <1>0 DEF DeltaTypes
  <1>6. /\ unit \in Nat \cup {None} /\ (unit # None <=> declared) /\ (unit # None => unit <= today)
        /\ fresh => unit = today
        /\ ~fresh => unit = reconcile
    BY <1>1, <1>3 DEF DeltaTypes, DeltaStored, Reaches
  <1>7. source = "calendar" => \A i \in rows : ItemDay[i] <= today + Span
    BY DEF DeltaStored
  <1>8. Reaches(unit, rows, base)
    <2>1. CASE fresh
      BY <1>6, <1>7, <2>1 DEF Reaches
    <2>2. CASE ~fresh
      BY <1>1, <1>6, <2>2 DEF Reaches, DeltaStored
    <2>3. QED
      BY <2>1, <2>2
  <1>9. \A i \in rows \ alive : D!Covers(today, i) => i \in unlisted' \cup vouched' \/ i \in Ended(unit, base)
    <2> SUFFICES ASSUME NEW i \in rows \ alive, D!Covers(today, i), declared, i \notin spared
                 PROVE  i \in Ended(unit, base)
      BY <1>0
    <2>1. unit # None /\ i \notin base /\ i \in Item
      BY <1>1, <1>6 DEF DeltaTypes
    <2>2. D!Covers(unit, i)
      <3>1. CASE fresh
        BY <1>6, <3>1
      <3>2. CASE source = "bank"
        BY <3>2 DEF D!Covers
      <3>3. CASE source # "bank"
        <4>1. ItemDay[i] \in Nat /\ unit \in Nat /\ unit <= today /\ Span \in Nat /\ ItemDay[i] >= today
          BY <1>6, <2>1, <3>3 DEF D!Covers, SourcesAssumption, D!DeltaSyncAssumption
        <4>2. source = "calendar" => ItemDay[i] <= unit + Span
          BY <1>8, <2>1 DEF Reaches
        <4>3. source = "mail" \/ source = "calendar"
          BY <3>3 DEF DeltaTypes, D!Source
        <4>4. QED
          BY <1>3, <4>1, <4>2, <4>3 DEF D!Covers
      <3>4. QED
        BY <3>1, <3>2, <3>3
    <2>3. QED
      BY <2>1, <2>2 DEF Ended
  <1>10. Told(l, rows, Ended(unit, base))'
    <2> SUFFICES ASSUME NEW i \in Item, D!Covers(l.from, i)' PROVE Settled(l, rows, Ended(unit, base), i)'
      BY DEF Told
    <2>1. D!Covers(today, i) /\ (i \in Ended(unit, base) <=> i \in Ended(unit, base)')
      BY <1>3 DEF D!Covers, Ended
    <2>2. i \in alive => i \in l.left
      BY <1>3, <2>1
    <2>3. i \notin alive => (i \in rows => i \in (unlisted' \cup vouched') \cup Ended(unit, base)')
      BY <1>9, <2>1
    <2>4. QED
      BY <2>2, <2>3 DEF Settled
  <1>11. LinkKept(unit, rows, Ended(unit, base))'
    <2>1. CASE checkpoint = None
      BY <2>1 DEF LinkKept
    <2>2. CASE checkpoint # None /\ unit # None
      <3>1. Dead(checkpoint)
        BY <1>2, <2>2 DEF FromNothing
      <3>2. QED
        BY <2>2, <3>1 DEF LinkKept, Dead, D!Stale
    <2>3. CASE checkpoint # None /\ unit = None
      <3>1. reconcile = None /\ unit = reconcile
        BY <1>6, <2>3
      <3>2. LinkKept(reconcile, rows, Ended(reconcile, touched))
        BY DEF DeltaStored
      <3>3. Told(checkpoint, rows, Ended(unit, base))
        BY <2>3, <3>1, <3>2 DEF LinkKept, Ended
      <3>4. Told(checkpoint, rows, Ended(unit, base))'
        BY <1>5, <3>3 DEF Told, Settled, Changed, D!Covers, Ended
      <3>5. QED
        BY <3>4 DEF LinkKept
    <2>4. QED
      BY <2>1, <2>2, <2>3
  <1>12. checkpoint # None => checkpoint.at <= l.at
    BY <1>3 DEF DeltaTypes, LinkOK
  <1>13. Requested(l, unit, base)
    BY <1>2, <1>3, <1>4, <1>6, <1>7, <1>8, <1>10, <1>11, <1>12 DEF Requested
  <1>14. run'.link.from = today /\ run'.touched = run.touched /\ run'.upserts = page \cap alive
    BY <1>3, <1>4, CutRun
  <1>15. NewUnit' <=> fresh
    BY <1>2, <1>4, CutRun DEF NewUnit, D!Declares, D!SameScope
  <1>16. UnitNext' = unit
    BY <1>1, <1>14, <1>15 DEF UnitNext
  <1>17. SeenNext' = IF unit = None THEN {} ELSE base \cup (page \cap alive)
    BY <1>1, <1>14, <1>15, <1>16 DEF SeenNext
  <1>18. QED
    BY <1>5, <1>13, <1>16, <1>17 DEF Leaves

\* A page is asked for, and answered.
LEMMA DeltaRequest ==
  ASSUME SourcesAssumption, DeltaOK, D!Fetch
  PROVE  \E l, page, unit, base :
           /\ Cut(l, page) /\ Requested(l, unit, base) /\ Leaves(l, unit, base, page)
           /\ unlisted \subseteq unlisted' /\ vouched \subseteq vouched'
           /\ unlisted' \subseteq Item /\ vouched' \subseteq Item
  <1>1. /\ DeltaTypes /\ DeltaStored /\ DeltaRun /\ AtWork /\ run \in D!Run /\ run.pc = "fetch"
        /\ UNCHANGED <<source, alive, log, epoch, today, rows, checkpoint, reconcile, touched, kills>>
        /\ unlisted \subseteq Item /\ vouched \subseteq Item
    BY DEF DeltaOK, D!Fetch, D!Quiet, D!provider, AtWork, DeltaTypes, D!Idle
  <1>2. PICK l : l = IF run.link = None THEN D!Listing
                     ELSE IF run.link = run.previous /\ run.link.kind = "delta" THEN D!Round(run.link)
                     ELSE run.link
    OBVIOUS
  <1>a. PICK page : Cut(l, page)
    <2>1. \E page \in SUBSET l.left :
            run' = [run EXCEPT !.pc = "apply", !.page = page, !.upserts = page \cap alive,
                               !.link = [l EXCEPT !.left = @ \ page, !.full = run.full]]
      BY <1>2 DEF D!Fetch
    <2>2. QED
      BY <2>1 DEF Cut
  <1>3. CASE run.link = None
    BY <1>1, <1>2, <1>a, <1>3, DeltaOpen DEF D!Fetch
  <1>4. CASE run.link # None /\ run.link = run.previous /\ run.link.kind = "delta"
    BY <1>1, <1>2, <1>a, <1>4, DeltaRound DEF D!Fetch, D!history
  <1>5. CASE run.link # None /\ ~(run.link = run.previous /\ run.link.kind = "delta")
    BY <1>1, <1>2, <1>a, <1>5, DeltaContinue DEF D!Fetch, D!history
  <1>6. QED
    BY <1>3, <1>4, <1>5

\* A page is fetched: of a listing, of a round, or a listing that opens.
LEMMA DeltaFetchStep == ASSUME SourcesAssumption, DeltaOK, D!Fetch PROVE DeltaOK'
  <1>0. /\ DeltaTypes /\ DeltaStored /\ DeltaRun /\ AtWork /\ run \in D!Run /\ run.pc = "fetch"
        /\ FromNothing /\ FromLink /\ LinkAtWork
        /\ UNCHANGED <<source, alive, log, epoch, today, rows, checkpoint, reconcile, touched, kills>>
    BY DEF DeltaOK, DeltaRun, D!Fetch, D!Quiet, D!provider, AtWork, DeltaTypes, D!Idle
  <1>1. PICK l, page, unit, base :
           /\ Cut(l, page) /\ Requested(l, unit, base) /\ Leaves(l, unit, base, page)
           /\ unlisted \subseteq unlisted' /\ vouched \subseteq vouched'
           /\ unlisted' \subseteq Item /\ vouched' \subseteq Item
    BY DeltaRequest
  <1>2. LinkOK(l)
    BY <1>1 DEF Requested
  <1>3. /\ run' \in D!Run /\ run'.pc = "apply" /\ run'.previous = run.previous /\ run'.full = run.full
        /\ run'.retried = run.retried /\ run'.page = page
        /\ run'.upserts = page \cap alive /\ run'.link # None /\ page \subseteq Item
        /\ run'.link \in D!Link /\ run'.link.left = l.left \ page /\ run'.link.full = run.full
        /\ run'.link.at = l.at /\ run'.link.from = l.from /\ run'.link.epoch = l.epoch /\ run'.link.kind = l.kind
    BY <1>0, <1>1, <1>2, CutRun
  <1>4. DeltaTypes'
    BY <1>0, <1>1, <1>3, LinkSame DEF DeltaTypes
  <1>5. DeltaStored'
    BY <1>0, <1>1, <1>3, StoredSame
  <1>6. /\ RowsNext' = (rows \ page) \cup (page \cap alive) /\ UnitNext' = unit
        /\ SeenNext' = IF unit = None THEN {} ELSE base \cup (page \cap alive)
    BY <1>0, <1>1, <1>3 DEF RowsNext, Leaves
  <1>7. Told(run.link, RowsNext, Ended(UnitNext, SeenNext))'
    <2>1. PICK k, R2, seen : k = run'.link /\ R2 = (rows \ page) \cup (page \cap alive)
                             /\ seen = IF unit = None THEN {} ELSE base \cup (page \cap alive)
      OBVIOUS
    <2>2. Told(k, R2, Ended(unit, seen))'
      BY <1>0, <1>1, <1>3, <2>1, PageTold DEF Requested
    <2>3. QED
      BY <1>6, <2>1, <2>2
  <1>8. LinkKept(UnitNext, RowsNext, Ended(UnitNext, SeenNext))'
    <2>1. CASE checkpoint = None
      BY <1>0, <2>1 DEF LinkKept
    <2>2. CASE checkpoint # None /\ unit # None /\ Dead(checkpoint)'
      BY <1>0, <1>6, <2>2 DEF LinkKept
    <2>3. CASE checkpoint # None /\ Told(checkpoint, rows, Ended(unit, base))'
      <3>1. PICK k, R2, R1, seen :
                 k = checkpoint /\ R1 = rows /\ R2 = (rows \ page) \cup (page \cap alive)
              /\ seen = IF unit = None THEN {} ELSE base \cup (page \cap alive)
        OBVIOUS
      <3>2. Told(k, R1, Ended(unit, base))'
        BY <1>0, <2>3, <3>1
      <3>3. Told(k, R2, Ended(unit, seen))'
        BY <1>0, <3>1, <3>2, PageTold
      <3>4. Told(checkpoint, RowsNext, Ended(UnitNext, SeenNext))'
        BY <1>0, <1>6, <3>1, <3>3
      <3>5. QED
        BY <3>4 DEF LinkKept
    <2>4. QED
      BY <1>0, <1>1, <2>1, <2>2, <2>3 DEF Requested, LinkKept
  <1>9. Reaches(UnitNext, RowsNext, SeenNext)'
    BY <1>0, <1>1, <1>6 DEF Requested, Reaches
  <1>10. /\ run'.upserts \subseteq page /\ \A i \in page : D!Covers(l.from, i)
    BY <1>1, <1>2, <1>3 DEF LinkOK, Cut
  <1>11. FromNothing'
    <2>1. checkpoint # None /\ run.previous = None => Dead(checkpoint)' \/ source = "mail"
      BY <1>0, LinkSame DEF FromNothing
    <2>2. QED
      BY <1>0, <1>1, <1>3, <2>1 DEF FromNothing, Requested
  <1>12. FromLink'
    BY <1>0, <1>1, <1>3, LinkSame DEF FromLink, Requested
  <1>13. LinkAtWork'
    <2>1. PICK k : k = run'.link
      OBVIOUS
    <2>2. LinkOK(k)'
      BY <1>0, <1>2, <1>3, <2>1, LinkSame DEF LinkOK
    <2>3. QED
      BY <1>0, <1>1, <1>3, <2>1, <2>2 DEF LinkAtWork, Requested
  <1>14. DeltaRun'
    <2>1. (\A i \in run.page : D!Covers(run.link.from, i))'
      BY <1>0, <1>3, <1>10 DEF D!Covers
    <2>2. run'.full => source' # "bank"
      BY <1>0, <1>3 DEF DeltaRun
    <2>3. QED
      BY <1>3, <1>7, <1>8, <1>9, <1>10, <1>11, <1>12, <1>13, <2>1, <2>2 DEF DeltaRun
  <1>15. QED
    BY <1>4, <1>5, <1>14 DEF DeltaOK

\* Nothing is stored, nothing runs.
LEMMA DeltaInit == ASSUME SourcesAssumption, D!Init PROVE DeltaOK
  <1>1. /\ Len(log) = 0 /\ log \in Seq(Item) /\ {MaxChanges, DeltaExpiries, LastDay, MaxKills} \subseteq Nat
        /\ DeltaSources \subseteq D!Source
    BY DEF D!Init, SourcesAssumption, D!DeltaSyncAssumption
  <1>2. run.pc = "idle"
    BY DEF D!Init, D!Idle
  <1>3. DeltaTypes
    BY <1>1 DEF D!Init, DeltaTypes
  <1>4. DeltaStored
    BY <1>2 DEF D!Init, DeltaStored, Reaches, LinkKept
  <1>5. DeltaRun
    BY <1>2 DEF DeltaRun, AtWork
  <1>6. QED
    BY <1>3, <1>4, <1>5 DEF DeltaOK

\* The delta source's state as it was.
LEMMA DeltaStutter == ASSUME DeltaOK, UNCHANGED D!vars PROVE DeltaOK'
  <1>0. /\ DeltaTypes /\ DeltaStored /\ DeltaRun
        /\ UNCHANGED <<alive, log, epoch, today, source, rows, checkpoint, reconcile, touched, run, kills, unlisted, vouched>>
    BY DEF DeltaOK, D!vars, D!provider, D!history
  <1>1. /\ \A l, R, X : Told(l, R, X)' = Told(l, R, X)
        /\ Ended(reconcile, touched)' = Ended(reconcile, touched)
        /\ Ended(UnitNext, SeenNext)' = Ended(UnitNext, SeenNext)
        /\ UnitNext' = UnitNext /\ SeenNext' = SeenNext /\ RowsNext' = RowsNext
        /\ \A l : LinkOK(l)' = LinkOK(l) /\ Dead(l)' = Dead(l)
    <2>1. \A l, R, X : Told(l, R, X)' = Told(l, R, X)
      BY <1>0 DEF Told, Settled, Changed, D!Covers
    <2>2. QED
      BY <1>0, <2>1, NextSame, LinkSame
  <1>2. DeltaTypes'
    BY <1>0, <1>1 DEF DeltaTypes
  <1>3. LinkKept(reconcile, rows, Ended(reconcile, touched))' = LinkKept(reconcile, rows, Ended(reconcile, touched))
    BY <1>0, <1>1 DEF LinkKept
  <1>4. DeltaStored'
    BY <1>0, <1>1, <1>3 DEF DeltaStored, Reaches
  <1>5. /\ FromNothing' = FromNothing /\ FromLink' = FromLink /\ LinkAtWork' = LinkAtWork /\ AtWork' = AtWork
    BY <1>0, <1>1 DEF FromNothing, FromLink, LinkAtWork, Declared, AtWork
  <1>6. /\ LinkKept(UnitNext, RowsNext, Ended(UnitNext, SeenNext))' = LinkKept(UnitNext, RowsNext, Ended(UnitNext, SeenNext))
        /\ Reaches(UnitNext, RowsNext, SeenNext)' = Reaches(UnitNext, RowsNext, SeenNext)
        /\ Told(run.link, RowsNext, Ended(UnitNext, SeenNext))' = Told(run.link, RowsNext, Ended(UnitNext, SeenNext))
        /\ Told(run.link, rows, Ended(reconcile, touched))' = Told(run.link, rows, Ended(reconcile, touched))
    BY <1>0, <1>1 DEF LinkKept, Reaches
  <1>7. (\A i \in run.page : D!Covers(run.link.from, i))' = (\A i \in run.page : D!Covers(run.link.from, i))
    BY <1>0 DEF D!Covers
  <1>8. DeltaRun'
    BY <1>0, <1>5, <1>6, <1>7 DEF DeltaRun
  <1>9. QED
    BY <1>2, <1>4, <1>8 DEF DeltaOK

\* Every step of a delta source keeps its invariant.
LEMMA DeltaNext == ASSUME SourcesAssumption, DeltaOK, D!Next PROVE DeltaOK'
  BY DeltaProviderStep, DeltaStartStep, DeltaFetchStep, DeltaDeadLinkStep, DeltaMutationStep, DeltaApplyStep,
     DeltaSaveStep, DeltaReconcileStep, DeltaKillStep DEF D!Next, D!RunStep

\* Caught up, the stored link has nothing left to lead to: the rows are right.
LEMMA DeltaMirrors == ASSUME SourcesAssumption, DeltaOK PROVE D!MirrorsProvider
  <1> SUFFICES ASSUME D!CaughtUp, NEW i \in Item, D!Covers(checkpoint.from, i)
               PROVE  (i \in alive => i \in rows) /\ (i \in rows => i \in alive \cup (unlisted \cup vouched))
    BY DEF D!MirrorsProvider, D!Mirrors
  <1>1. /\ run.pc = "idle" /\ reconcile = None /\ checkpoint # None /\ checkpoint.kind = "delta"
        /\ checkpoint.at = Len(log) /\ checkpoint.left = {} /\ Len(log) \in Nat
    BY DEF D!CaughtUp, D!Idle, DeltaOK, DeltaStored, DeltaTypes
  <1>2. Told(checkpoint, rows, {})
    BY <1>1 DEF DeltaOK, DeltaStored, LinkKept, Ended
  <1>3. ~Changed(checkpoint.at, i)
    BY <1>1 DEF Changed
  <1>4. QED
    BY <1>1, <1>2, <1>3 DEF Told, Settled

-----------------------------------------------------------------------------
(***************************************************************************)
(* The Google calendars: the inductive invariant.                          *)
(***************************************************************************)

\* Rows that a listing could not tell about.
Excused == unlisted \cup vouched \cup forgotten

Logged(at, x) == \E n \in at + 1..Len(log) : log[n] = x

\* What a calendar's state leads to: its view, whether it asks at all, whether
\* Google will refuse it.
Asks(st) == st.sync # None \/ st.page # None
View(st) == [at |-> IF st.page # None THEN st.page.at ELSE st.sync.at,
             from |-> IF st.page # None THEN st.page.from ELSE st.sync.from,
             left |-> IF st.page # None THEN st.page.left ELSE {},
             series |-> st.series]
Refused(st) == \/ st.page # None /\ st.page.epoch # epoch
               \/ st.sync # None /\ st.sync.epoch # epoch

\* The view leads to the event, or to its series.
Leads(v, x) == x \in v.left \/ Logged(v.at, x)
LeadsBySeries(v, x) == MasterOf[x] # None /\ x \in v.series /\ Leads(v, MasterOf[x])

\* The rows R without X are what Google shows in the calendar, but for what the
\* view leads to: nothing gone stays, nothing shown in the window is missing,
\* and every stored instance is known to belong to its series.
GoneTold(v, R, X, x) == x \in R /\ x \notin alive => x \in Excused \cup X \/ Leads(v, x) \/ LeadsBySeries(v, x)
ShownTold(v, R, X, x) == x \in alive /\ InWindow(v.from, x) => (x \in R /\ x \notin X) \/ Leads(v, x)
SeriesTold(v, R, X, x) ==
  x \in R /\ x \in alive /\ MasterOf[x] # None => x \in v.series \cup Excused \cup X \/ Leads(v, x)

Faithful(v, c, R, X) ==
  \A x \in Event : CalendarOf[x] = c /\ DayOf[x] >= today =>
    GoneTold(v, R, X, x) /\ ShownTold(v, R, X, x) /\ SeriesTold(v, R, X, x)

Truth(st, c, R, X) == Asks(st) => Faithful(View(st), c, R, X)

\* A state keeps its truth unless it will be refused and listed anew.
Kept(st, c, unit, R, X) == Truth(st, c, R, X) \/ (Refused(st) /\ (unit # None \/ st.sync = None))

\* What the pending units take away, now and once the page at hand is applied.
Doomed == {x \in Event : /\ reconcile[CalendarOf[x]] # None /\ x \notin touched
                         /\ InWindow(reconcile[CalendarOf[x]], x)}

Mine == {x \in Event : CalendarOf[x] = Here}
Replaces == run.full /\ run.scope # None /\ (run.fresh \/ reconcile[Here] = None)
HereUnit == IF Replaces THEN run.scope ELSE reconcile[Here]
HereSeen == IF HereUnit = None THEN touched \ Mine
            ELSE (IF Replaces THEN (touched \ Mine) \cup (run.touched \cap Mine) ELSE touched) \cup run.upserts
HereRows == (rows \ run.deletes) \cup run.upserts
HereDoomed == {x \in Mine : HereUnit # None /\ x \notin HereSeen /\ InWindow(HereUnit, x)}

\* A state fits its calendar.
Fits(st, c) ==
  /\ st \in State
  /\ \A x \in st.series : CalendarOf[x] = c
  /\ st.sync # None => st.sync.at <= Len(log) /\ st.sync.epoch <= epoch
  /\ st.page # None =>
       /\ st.page.at <= Len(log) /\ st.page.epoch <= epoch /\ (st.page.listing <=> st.sync = None)
       /\ st.sync # None => st.page.epoch = st.sync.epoch /\ ~st.page.full
       /\ \A x \in st.page.left :
            CalendarOf[x] = c /\ (x \in Master => \A y \in alive : MasterOf[y] # x)

\* A full listing in progress has its unit.
HasUnit(st, unit) == st.page # None /\ st.page.full => unit # None

States == UNION {[S -> State] : S \in SUBSET Calendar}
CalendarRun ==
  [pc : {"fetch", "apply", "save", "reconcile"}, here : Calendar, left : SUBSET Calendar, states : States,
   full : BOOLEAN, fresh : BOOLEAN, resumed : BOOLEAN, touched : SUBSET Event,
   upserts : SUBSET Event, deletes : SUBSET Event, scope : 0..LastDay \cup {None}]

CalendarTypes ==
  /\ alive \subseteq Event /\ selected \subseteq Calendar /\ log \in Seq(Thing \cup Calendar)
  /\ Len(log) <= MaxChanges /\ epoch \in 0..MaxExpiries /\ today \in 0..LastDay
  /\ rows \subseteq Event /\ touched \subseteq Event /\ checkpoint \in States
  /\ reconcile \in [Calendar -> 0..LastDay \cup {None}]
  /\ run \in CalendarRun \cup {Idle} /\ kills \in 0..MaxKills
  \* a cancelled series shows no instance
  /\ \A n \in 1..Len(log) : \A x \in alive : MasterOf[x] # None => MasterOf[x] # log[n]

CalendarStored ==
  \A c \in DOMAIN checkpoint :
    /\ Fits(checkpoint[c], c) /\ HasUnit(checkpoint[c], reconcile[c])
    /\ Kept(checkpoint[c], c, reconcile[c], rows, Doomed)

Reading == run.pc \in {"fetch", "apply", "save"}

\* The calendars of the run that it is not reading.
Others ==
  /\ Here \in run.left /\ run.left \subseteq DOMAIN run.states
  /\ \A c \in DOMAIN run.states : Fits(run.states[c], c)
  /\ \A c \in DOMAIN run.states \ {Here} :
       HasUnit(run.states[c], reconcile[c]) /\ Kept(run.states[c], c, reconcile[c], rows, Doomed)
  /\ \A c \in DOMAIN run.states \ run.left :
       run.states[c].page = None /\ run.states[c].sync # None /\ Truth(run.states[c], c, rows, Doomed)

\* The stored state of the calendar being read, before the next request.
StoredHere(st) ==
  \/ st.sync = My.sync /\ st.page = My.page
  \/ ~Asks(st)
  \/ Refused(st) /\ ~Asks(My) /\ (st.sync # None => run.full)
  \/ Refused(st) /\ Refused(My) /\ My.page = None

\* A listing this run has opened and declared has its unit since.
Declaring(unit, seen) == unit = My.page.from /\ seen \cap Mine = run.touched \cap Mine

Fetching ==
  /\ run.full => My.sync = None
  /\ My.page # None => /\ run.full = My.page.full
                       /\ run.full => reconcile[Here] # None
                       /\ run.full /\ run.fresh => Declaring(reconcile[Here], touched)
  /\ ~Asks(My) => run.fresh
  /\ Truth(My, Here, rows, Doomed) \/ Refused(My)
  /\ Here \in DOMAIN checkpoint => StoredHere(checkpoint[Here])

Applying ==
  /\ run.upserts \cup run.deletes \subseteq Mine /\ run.deletes \cap alive = {}
  /\ My.page # None => run.full = My.page.full
  /\ My.page # None /\ run.full => run.scope = My.page.from
  /\ run.full => run.scope # None
  /\ Asks(My) /\ Truth(My, Here, HereRows, HereDoomed)
  /\ Here \in DOMAIN checkpoint => Kept(checkpoint[Here], Here, HereUnit, HereRows, HereDoomed)

Saving ==
  /\ My.page # None => run.full = My.page.full
  /\ run.full => reconcile[Here] # None
  /\ Asks(My) /\ Truth(My, Here, rows, Doomed)
  /\ My.page # None /\ run.full /\ run.fresh => Declaring(reconcile[Here], touched)

CalendarRunOK ==
  /\ Reading => Others
  /\ run.pc = "fetch" => Fetching
  /\ run.pc = "apply" => Applying
  /\ run.pc = "save" => Saving
  /\ run.pc = "reconcile" =>
       \A c \in DOMAIN checkpoint :
         checkpoint[c].page = None /\ checkpoint[c].sync # None /\ Truth(checkpoint[c], c, rows, Doomed)

CalendarOK == CalendarTypes /\ CalendarStored /\ CalendarRunOK

\* The assumption, one fact at a time.
LEMMA CalendarConstants ==
  ASSUME SourcesAssumption
  PROVE  /\ Primary \in Calendar /\ CalendarOf \in [Thing -> Calendar]
         /\ MasterOf \in [Event -> Master \cup {None}] /\ DayOf \in [Event -> Nat]
         /\ \A x \in Event : MasterOf[x] # None => CalendarOf[MasterOf[x]] = CalendarOf[x]
         /\ Event \cap Master = {} /\ Thing \cap Calendar = {}
         /\ None \notin Nat /\ None \notin Master /\ None \notin SyncToken /\ None \notin PageState
         /\ Ahead \in Nat /\ LastDay \in Nat /\ MaxChanges \in Nat /\ MaxExpiries \in Nat /\ MaxKills \in Nat
  BY DEF SourcesAssumption, CalendarSyncAssumption

\* What Google does next is reported: a view leads to it.
LEMMA ReportLeads ==
  ASSUME SourcesAssumption, CalendarTypes, NEW x \in Thing \cup Calendar, Report(x)
  PROVE  /\ Len(log') = Len(log) + 1 /\ log' \in Seq(Thing \cup Calendar) /\ Len(log') <= MaxChanges
         /\ \A y : \A at \in Nat : at <= Len(log) => (Logged(at, y) => Logged(at, y)') /\ Logged(at, x)'
         /\ \A n \in 1..Len(log') : log'[n] = x \/ (n \in 1..Len(log) /\ log'[n] = log[n])
  <1>1. /\ log' = Append(log, x) /\ log \in Seq(Thing \cup Calendar) /\ Len(log) \in Nat /\ Len(log) < MaxChanges
        /\ MaxChanges \in Nat
    BY CalendarConstants DEF CalendarTypes, Report
  <1>2. /\ Len(log') = Len(log) + 1 /\ log' \in Seq(Thing \cup Calendar)
        /\ \A n \in 1..Len(log) : log'[n] = log[n]
        /\ log'[Len(log) + 1] = x
    BY <1>1
  <1>3. ASSUME NEW at \in Nat, NEW y, at <= Len(log) PROVE (Logged(at, y) => Logged(at, y)') /\ Logged(at, x)'
    <2>1. Len(log) + 1 \in at + 1..Len(log')
      BY <1>1, <1>2, <1>3
    <2>2. \A n \in at + 1..Len(log) : n \in at + 1..Len(log') /\ log'[n] = log[n]
      BY <1>1, <1>2, <1>3
    <2>3. QED
      BY <1>2, <2>1, <2>2 DEF Logged
  <1>4. \A n \in 1..Len(log') : log'[n] = x \/ (n \in 1..Len(log) /\ log'[n] = log[n])
    BY <1>1, <1>2
  <1>5. QED
    BY <1>1, <1>2, <1>3, <1>4

\* The four things Google does.
GoogleStep ==
  \/ \E x \in Event \cup Calendar : Report(x) /\ UNCHANGED <<alive, epoch, today>>
  \/ \E e \in Event : Report(e) /\ alive' = alive \ {e} /\ UNCHANGED <<epoch, today>>
  \/ \E m \in Master : Report(m) /\ alive' = {e \in alive : MasterOf[e] # m} /\ UNCHANGED <<epoch, today>>
  \/ UNCHANGED <<alive, log>> /\ epoch' \in 0..MaxExpiries /\ epoch <= epoch'
     /\ today' \in 0..LastDay /\ today <= today'

\* Google's actions are those four.
LEMMA GoogleSteps ==
  ASSUME SourcesAssumption, CalendarTypes, Google
  PROVE  GoogleStep /\ selected' \subseteq Calendar
  <1>1. epoch \in Nat /\ today \in Nat /\ LastDay \in Nat /\ MaxExpiries \in Nat
    BY CalendarConstants DEF CalendarTypes
  <1>2. ASSUME NEW e \in Event, ChangeEvent(e) \/ CancelEvent(e), UNCHANGED <<selected, epoch, today>>
        PROVE  GoogleStep /\ selected' \subseteq Calendar
    BY <1>2 DEF GoogleStep, ChangeEvent, CancelEvent, CalendarTypes, Thing
  <1>3. ASSUME NEW m \in Master, CancelSeries(m), UNCHANGED <<selected, epoch, today>>
        PROVE  GoogleStep /\ selected' \subseteq Calendar
    BY <1>3 DEF GoogleStep, CancelSeries, CalendarTypes, Thing
  <1>4. ASSUME NEW c \in Calendar, Report(c), selected' = IF c \in selected THEN selected \ {c} ELSE selected \cup {c},
               UNCHANGED <<alive, epoch, today>>
        PROVE  GoogleStep /\ selected' \subseteq Calendar
    BY <1>4 DEF GoogleStep, CalendarTypes
  <1>5. CASE epoch < MaxExpiries /\ epoch' = epoch + 1 /\ UNCHANGED <<alive, selected, log, today>>
    BY <1>1, <1>5 DEF GoogleStep, CalendarTypes
  <1>6. CASE today < LastDay /\ today' = today + 1 /\ UNCHANGED <<alive, selected, log, epoch>>
    BY <1>1, <1>6 DEF GoogleStep, CalendarTypes
  <1>7. QED
    BY <1>2, <1>3, <1>4, <1>5, <1>6 DEF Google

\* Google's steps keep the truth of every view.
LEMMA FaithfulStays ==
  ASSUME SourcesAssumption, CalendarTypes, GoogleStep, UNCHANGED <<unlisted, vouched, forgotten>>
  PROVE  \A v, c, R, X : v.at \in Nat /\ v.at <= Len(log) /\ Faithful(v, c, R, X) => Faithful(v, c, R, X)'
  <1> SUFFICES ASSUME NEW v, NEW c, NEW R, NEW X, v.at \in Nat, v.at <= Len(log), Faithful(v, c, R, X),
                      NEW x \in Event, CalendarOf[x] = c, DayOf[x] >= today'
               PROVE  (GoneTold(v, R, X, x) /\ ShownTold(v, R, X, x) /\ SeriesTold(v, R, X, x))'
    BY DEF Faithful
  <1>0. /\ today \in Nat /\ today' \in Nat /\ today <= today' /\ DayOf[x] \in Nat /\ DayOf[x] >= today
        /\ Excused' = Excused
    <2>1. today \in Nat /\ today' \in Nat /\ today <= today' /\ DayOf[x] \in Nat
      BY CalendarConstants DEF GoogleStep, CalendarTypes
    <2>2. QED
      BY <2>1 DEF Excused
  <1>1. GoneTold(v, R, X, x) /\ ShownTold(v, R, X, x) /\ SeriesTold(v, R, X, x)
    BY <1>0 DEF Faithful
  <1>2. \A y : (Leads(v, y) => Leads(v, y)') /\ (LeadsBySeries(v, y) => LeadsBySeries(v, y)')
    <2>1. \A y : Logged(v.at, y) => Logged(v.at, y)'
      <3>1. CASE \E z \in Thing \cup Calendar : Report(z)
        BY <3>1, ReportLeads
      <3>2. CASE UNCHANGED log
        BY <3>2 DEF Logged
      <3>3. QED
        BY <3>1, <3>2 DEF GoogleStep, Thing
    <2>2. QED
      BY <2>1 DEF Leads, LeadsBySeries
  <1>3. CASE alive' = alive
    BY <1>0, <1>1, <1>2, <1>3 DEF GoneTold, ShownTold, SeriesTold, InWindow
  <1>4. ASSUME NEW e \in Event, Report(e), alive' = alive \ {e}
        PROVE  (GoneTold(v, R, X, x) /\ ShownTold(v, R, X, x) /\ SeriesTold(v, R, X, x))'
    <2>1. x = e => Leads(v, x)'
      BY <1>4, ReportLeads DEF Leads, Thing
    <2>2. QED
      BY <1>0, <1>1, <1>2, <1>4, <2>1 DEF GoneTold, ShownTold, SeriesTold, InWindow
  <1>5. ASSUME NEW m \in Master, Report(m), alive' = {e \in alive : MasterOf[e] # m}
        PROVE  (GoneTold(v, R, X, x) /\ ShownTold(v, R, X, x) /\ SeriesTold(v, R, X, x))'
    <2>1. Leads(v, m)' /\ m # None
      BY <1>5, ReportLeads, CalendarConstants DEF Leads, Thing
    <2>2. x \in alive /\ x \notin alive' => MasterOf[x] = m /\ MasterOf[x] # None
      BY <1>5, <2>1
    <2>3. x \in alive /\ x \notin alive' /\ x \in v.series => LeadsBySeries(v, x)'
      BY <2>1, <2>2 DEF LeadsBySeries, Leads
    <2>4. alive' \subseteq alive
      BY <1>5
    <2>5. GoneTold(v, R, X, x)'
      BY <1>0, <1>1, <1>2, <2>2, <2>3 DEF GoneTold, SeriesTold
    <2>6. (ShownTold(v, R, X, x) /\ SeriesTold(v, R, X, x))'
      BY <1>0, <1>1, <1>2, <2>4 DEF ShownTold, SeriesTold, InWindow
    <2>7. QED
      BY <2>5, <2>6
  <1>6. QED
    BY <1>3, <1>4, <1>5 DEF GoogleStep

\* A view stays true while more is excused.
LEMMA FaithfulSame ==
  ASSUME UNCHANGED <<alive, log, today>>, unlisted \subseteq unlisted', vouched \subseteq vouched',
         forgotten \subseteq forgotten'
  PROVE  \A v, c, R, X : Faithful(v, c, R, X) => Faithful(v, c, R, X)'
  <1>1. Excused \subseteq Excused'
    BY DEF Excused
  <1>2. \A v, x : Leads(v, x)' = Leads(v, x) /\ LeadsBySeries(v, x)' = LeadsBySeries(v, x)
    BY DEF Leads, LeadsBySeries, Logged
  <1>3. QED
    BY <1>1, <1>2 DEF Faithful, GoneTold, ShownTold, SeriesTold, InWindow

\* A state keeps its fit and its truth while Google goes on.
LEMMA StateStays ==
  ASSUME SourcesAssumption, CalendarTypes, GoogleStep, UNCHANGED <<unlisted, vouched, forgotten>>
  PROVE  \A st, c : Fits(st, c) =>
           /\ Fits(st, c)' /\ (Refused(st) => Refused(st)')
           /\ \A R, X : Truth(st, c, R, X) => Truth(st, c, R, X)'
           /\ \A unit, R, X : Kept(st, c, unit, R, X) => Kept(st, c, unit, R, X)'
  <1> SUFFICES ASSUME NEW st, NEW c, Fits(st, c)
               PROVE  /\ Fits(st, c)' /\ (Refused(st) => Refused(st)')
                      /\ \A R, X : Truth(st, c, R, X) => Truth(st, c, R, X)'
                      /\ \A unit, R, X : Kept(st, c, unit, R, X) => Kept(st, c, unit, R, X)'
    OBVIOUS
  <1>1. /\ Len(log) \in Nat /\ Len(log') \in Nat /\ Len(log) <= Len(log') /\ epoch \in Nat /\ epoch' \in Nat
        /\ epoch <= epoch' /\ alive' \subseteq alive
    <2>1. Len(log) \in Nat /\ epoch \in Nat
      BY DEF CalendarTypes
    <2>2. Thing \subseteq Thing \cup Calendar /\ Event \subseteq Thing \cup Calendar /\ Master \subseteq Thing \cup Calendar
      BY DEF Thing
    <2>3. (\E x \in Thing \cup Calendar : Report(x)) => Len(log') = Len(log) + 1
      BY ReportLeads
    <2>4. QED
      BY <2>1, <2>2, <2>3 DEF GoogleStep
  <1>2. /\ st.sync # None => st.sync.at \in Nat /\ st.sync.epoch \in Nat
        /\ st.page # None => st.page.at \in Nat /\ st.page.epoch \in Nat
    BY DEF Fits, State, SyncToken, PageState
  <1>3. Fits(st, c)'
    BY <1>1, <1>2 DEF Fits
  <1>4. Refused(st) => Refused(st)'
    BY <1>1, <1>2 DEF Fits, Refused
  <1>5. ASSUME NEW R, NEW X, Truth(st, c, R, X) PROVE Truth(st, c, R, X)'
    <2>1. Asks(st) => View(st).at \in Nat /\ View(st).at <= Len(log)
      BY <1>2 DEF Asks, View, Fits
    <2>2. PICK v : v = View(st)
      OBVIOUS
    <2>3. Asks(st) => Faithful(v, c, R, X)'
      BY <1>5, <2>1, <2>2, FaithfulStays DEF Truth
    <2>4. QED
      BY <2>2, <2>3 DEF Truth, View, Asks
  <1>6. QED
    BY <1>3, <1>4, <1>5 DEF Kept

\* A state is as it was.
LEMMA StateSame ==
  ASSUME UNCHANGED <<alive, log, epoch, today>>, unlisted \subseteq unlisted', vouched \subseteq vouched',
         forgotten \subseteq forgotten'
  PROVE  \A st, c :
           /\ Fits(st, c)' = Fits(st, c) /\ Refused(st)' = Refused(st)
           /\ \A R, X : Truth(st, c, R, X) => Truth(st, c, R, X)'
           /\ \A unit, R, X : Kept(st, c, unit, R, X) => Kept(st, c, unit, R, X)'
  <1>1. \A st, c : Fits(st, c)' = Fits(st, c) /\ Refused(st)' = Refused(st)
    BY DEF Fits, Refused
  <1>2. ASSUME NEW st, NEW c, NEW R, NEW X, Truth(st, c, R, X) PROVE Truth(st, c, R, X)'
    <2>1. PICK v : v = View(st)
      OBVIOUS
    <2>2. Asks(st) => Faithful(v, c, R, X)'
      BY <1>2, <2>1, FaithfulSame DEF Truth
    <2>3. QED
      BY <2>1, <2>2 DEF Truth, View, Asks
  <1>3. QED
    BY <1>1, <1>2 DEF Kept

\* What the pending units take away does not depend on Google.
LEMMA UnitSame ==
  ASSUME UNCHANGED <<rows, reconcile, touched, run>>
  PROVE  /\ Doomed' = Doomed /\ HereUnit' = HereUnit /\ HereRows' = HereRows /\ HereDoomed' = HereDoomed
         /\ Mine' = Mine /\ Replaces' = Replaces
  <1>1. Doomed' = Doomed /\ Mine' = Mine /\ Here' = Here
    BY DEF Doomed, InWindow, Mine, Here
  <1>2. Replaces' = Replaces /\ HereUnit' = HereUnit /\ HereRows' = HereRows /\ HereSeen' = HereSeen
    BY <1>1 DEF Replaces, HereUnit, HereRows, HereSeen
  <1>3. HereDoomed' = HereDoomed
    BY <1>1, <1>2 DEF HereDoomed, InWindow
  <1>4. QED
    BY <1>1, <1>2, <1>3

\* What the checkpoint and a run hold: a state for each of some calendars.
LEMMA StatesFacts ==
  \A f : f \in States <=> \E S \in SUBSET Calendar : f \in [S -> State]
  BY DEF States

\* Google's steps keep what is stored and what the run has in hand.
LEMMA CalendarGoogleStep == ASSUME SourcesAssumption, CalendarOK, Google PROVE CalendarOK'
  <1>0. /\ CalendarTypes /\ CalendarStored /\ CalendarRunOK
        /\ UNCHANGED <<rows, checkpoint, reconcile, touched, run, kills, unlisted, vouched, forgotten>>
    BY DEF CalendarOK, Google, store, history
  <1>1. GoogleStep /\ selected' \subseteq Calendar
    BY <1>0, GoogleSteps
  <1>2. \A st, c : Fits(st, c) =>
           /\ Fits(st, c)' /\ (Refused(st) => Refused(st)')
           /\ \A R, X : Truth(st, c, R, X) => Truth(st, c, R, X)'
           /\ \A unit, R, X : Kept(st, c, unit, R, X) => Kept(st, c, unit, R, X)'
    BY <1>0, <1>1, StateStays
  <1>3. /\ Doomed' = Doomed /\ HereUnit' = HereUnit /\ HereRows' = HereRows /\ HereDoomed' = HereDoomed
        /\ Mine' = Mine
    BY <1>0, UnitSame
  <1>4. /\ alive' \subseteq alive /\ epoch' \in 0..MaxExpiries /\ today' \in 0..LastDay
    BY <1>0, <1>1 DEF GoogleStep, CalendarTypes
  <1>5. CalendarTypes'
    <2>1. CASE \E x \in Thing \cup Calendar : Report(x)
      <3>1. PICK x \in Thing \cup Calendar : Report(x) /\
               \/ x \notin Master
               \/ x \in Master /\ alive' = {e \in alive : MasterOf[e] # x}
        <4>1. UNCHANGED log => ~\E x \in Thing \cup Calendar : Report(x)
          BY <1>0, ReportLeads DEF CalendarTypes
        <4>2. QED
          BY <1>1, <2>1, <4>1, CalendarConstants DEF GoogleStep, Thing
      <3>2. /\ Len(log') = Len(log) + 1 /\ log' \in Seq(Thing \cup Calendar) /\ Len(log') <= MaxChanges
            /\ \A n \in 1..Len(log') : log'[n] = x \/ (n \in 1..Len(log) /\ log'[n] = log[n])
        BY <1>0, <3>1, ReportLeads
      <3>3. ASSUME NEW n \in 1..Len(log'), NEW y \in alive', MasterOf[y] # None
            PROVE  MasterOf[y] # log'[n]
        <4>1. y \in alive /\ y \in Event /\ MasterOf[y] \in Master
          BY <1>0, <1>4, <3>3, CalendarConstants DEF CalendarTypes
        <4>2. MasterOf[y] # x
          BY <3>1, <4>1, CalendarConstants DEF Thing
        <4>3. QED
          BY <1>0, <3>2, <3>3, <4>1, <4>2 DEF CalendarTypes
      <3>4. QED
        BY <1>0, <1>1, <1>4, <3>2, <3>3 DEF CalendarTypes
    <2>2. CASE UNCHANGED <<log, alive>>
      BY <1>0, <1>1, <1>4, <2>2 DEF CalendarTypes
    <2>3. QED
      BY <1>1, <2>1, <2>2 DEF GoogleStep, Thing
  <1>6. CalendarStored'
    BY <1>0, <1>2, <1>3 DEF CalendarStored, HasUnit
  <1>7. CalendarRunOK'
    <2>0. Here' = Here /\ My' = My /\ (Reading' <=> Reading) /\ alive' \subseteq alive
      BY <1>0, <1>4 DEF Here, My, Reading
    <2>1. Reading => Others'
      BY <1>0, <1>2, <1>3, <2>0 DEF CalendarRunOK, Others, HasUnit
    <2>2. Reading => Fits(My, Here)
      BY <1>0 DEF CalendarRunOK, Others, My
    <2>3. ASSUME run.pc = "fetch" PROVE Fetching'
      <3>1. Fetching /\ Fits(My, Here)
        BY <1>0, <2>2, <2>3 DEF CalendarRunOK, Reading
      <3>2. Truth(My, Here, rows, Doomed)' \/ Refused(My)'
        BY <1>0, <1>2, <1>3, <2>0, <3>1 DEF Fetching
      <3>3. ASSUME Here \in DOMAIN checkpoint PROVE StoredHere(checkpoint[Here])'
        <4>1. StoredHere(checkpoint[Here]) /\ Fits(checkpoint[Here], Here)
          BY <1>0, <3>1, <3>3 DEF Fetching, CalendarStored
        <4>2. /\ Refused(checkpoint[Here]) => Refused(checkpoint[Here])'
              /\ Refused(My) => Refused(My)'
          BY <1>0, <1>2, <2>0, <3>1, <4>1
        <4>3. QED
          BY <1>0, <2>0, <4>1, <4>2 DEF StoredHere, Asks
      <3>4. QED
        BY <1>0, <1>3, <2>0, <3>1, <3>2, <3>3 DEF Fetching, Declaring, Asks
    <2>4. ASSUME run.pc = "apply" PROVE Applying'
      <3>1. Applying /\ Fits(My, Here)
        BY <1>0, <2>2, <2>4 DEF CalendarRunOK, Reading
      <3>2. Truth(My, Here, HereRows, HereDoomed)'
        BY <1>0, <1>2, <1>3, <2>0, <3>1 DEF Applying
      <3>3. Here \in DOMAIN checkpoint => Kept(checkpoint[Here], Here, HereUnit, HereRows, HereDoomed)'
        BY <1>0, <1>2, <1>3, <2>0, <3>1 DEF Applying, CalendarStored
      <3>4. QED
        BY <1>0, <1>3, <2>0, <3>1, <3>2, <3>3 DEF Applying, Asks
    <2>5. ASSUME run.pc = "save" PROVE Saving'
      <3>1. Saving /\ Fits(My, Here)
        BY <1>0, <2>2, <2>5 DEF CalendarRunOK, Reading
      <3>2. Truth(My, Here, rows, Doomed)'
        BY <1>0, <1>2, <1>3, <2>0, <3>1 DEF Saving
      <3>3. QED
        BY <1>0, <1>3, <2>0, <3>1, <3>2 DEF Saving, Asks, Declaring
    <2>6. ASSUME run.pc = "reconcile", NEW c \in DOMAIN checkpoint
          PROVE  checkpoint[c].page = None /\ checkpoint[c].sync # None /\ Truth(checkpoint[c], c, rows, Doomed)'
      <3>1. /\ checkpoint[c].page = None /\ checkpoint[c].sync # None /\ Truth(checkpoint[c], c, rows, Doomed)
            /\ Fits(checkpoint[c], c)
        BY <1>0, <2>6 DEF CalendarRunOK, CalendarStored
      <3>2. QED
        BY <1>0, <1>2, <1>3, <3>1
    <2>7. QED
      BY <1>0, <2>0, <2>1, <2>3, <2>4, <2>5, <2>6 DEF CalendarRunOK
  <1>8. QED
    BY <1>5, <1>6, <1>7 DEF CalendarOK

\* What is stored stays true while nothing stored changes.
LEMMA CalendarStoredSame ==
  ASSUME CalendarStored, UNCHANGED <<alive, log, epoch, today, rows, checkpoint, reconcile, touched>>,
         unlisted \subseteq unlisted', vouched \subseteq vouched', forgotten \subseteq forgotten'
  PROVE  CalendarStored' /\ Doomed' = Doomed
  <1>1. Doomed' = Doomed
    BY DEF Doomed, InWindow
  <1>2. QED
    BY <1>1, StateSame DEF CalendarStored, HasUnit

\* A run that ends leaves what is stored.
LEMMA CalendarIdle ==
  ASSUME CalendarOK, UNCHANGED <<alive, selected, log, epoch, today, rows, checkpoint, reconcile, touched>>,
         UNCHANGED <<unlisted, vouched, forgotten>>, run' = Idle, kills' \in 0..MaxKills
  PROVE  CalendarOK'
  <1>1. run'.pc = "idle"
    BY DEF Idle
  <1>2. CalendarStored'
    BY CalendarStoredSame DEF CalendarOK
  <1>3. CalendarTypes'
    BY DEF CalendarOK, CalendarTypes
  <1>4. CalendarRunOK'
    BY <1>1 DEF CalendarRunOK, Reading
  <1>5. QED
    BY <1>2, <1>3, <1>4 DEF CalendarOK

\* A run that dies leaves what is stored.
LEMMA CalendarKillStep == ASSUME SourcesAssumption, CalendarOK, Kill PROVE CalendarOK'
  <1>1. kills' \in 0..MaxKills
    BY CalendarConstants DEF Kill, CalendarOK, CalendarTypes
  <1>2. QED
    BY <1>1, CalendarIdle DEF Kill, google, store, history

\* The next calendar of a run: its state is the stored one.
LEMMA VisitFetching ==
  ASSUME Fits(My, Here)', HasUnit(My, reconcile[Here])', Kept(My, Here, reconcile[Here], rows, Doomed)',
         run'.full = (My'.page # None /\ My'.page.full), run'.fresh = (My'.page = None),
         Here' \in DOMAIN checkpoint' =>
           (checkpoint'[Here'].sync = My'.sync /\ checkpoint'[Here'].page = My'.page) \/ ~Asks(checkpoint[Here])'
  PROVE  Fetching'
  <1>1. run'.full => My'.sync = None /\ My'.page # None /\ My'.page.full
    BY DEF Fits
  <1>2. Truth(My, Here, rows, Doomed)' \/ Refused(My)'
    BY DEF Kept
  <1>3. My'.page # None => run'.full = My'.page.full /\ ~run'.fresh
    <2>1. My'.page # None => My'.page.full \in BOOLEAN
      BY DEF Fits, State, PageState
    <2>2. QED
      BY <2>1
  <1>4. (Here \in DOMAIN checkpoint => StoredHere(checkpoint[Here]))'
    BY DEF StoredHere
  <1>5. My'.page # None /\ run'.full => reconcile'[Here'] # None
    BY <1>1 DEF HasUnit
  <1>6. ~Asks(My)' => run'.fresh
    BY DEF Asks
  <1>7. QED
    BY <1>1, <1>2, <1>3, <1>4, <1>5, <1>6 DEF Fetching

\* loadState: what a calendar's state has dropped is excused, beyond the window.
LEMMA Loaded ==
  ASSUME SourcesAssumption, CalendarTypes, CalendarStored, UNCHANGED <<alive, log, epoch, today, rows, reconcile, touched>>,
         UNCHANGED <<unlisted, vouched>>, forgotten \subseteq forgotten', NEW c, NEW st, st = LoadState(c),
         {e \in Stored(c).series : DayOf[e] > today + Ahead} \subseteq forgotten'
  PROVE  /\ Fits(st, c) /\ HasUnit(st, reconcile[c])
         /\ Kept(st, c, reconcile[c], rows, Doomed)'
         /\ c \in DOMAIN checkpoint => st.sync = checkpoint[c].sync /\ st.page = checkpoint[c].page
  <1>1. CASE c \notin DOMAIN checkpoint
    <2>1. st = [sync |-> None, page |-> None, series |-> {}]
      BY <1>1 DEF LoadState, Stored, NewState
    <2>2. st \in State /\ st.sync = None /\ st.page = None /\ st.series = {}
      BY <2>1 DEF State
    <2>3. QED
      BY <1>1, <2>1, <2>2 DEF Fits, HasUnit, Kept, Truth, Asks
  <1>2. CASE c \in DOMAIN checkpoint
    <2>0. PICK cp : cp = checkpoint[c]
      OBVIOUS
    <2>1. /\ Fits(cp, c) /\ HasUnit(cp, reconcile[c]) /\ Kept(cp, c, reconcile[c], rows, Doomed) /\ cp \in State
      BY <1>2, <2>0 DEF CalendarStored, Fits
    <2>2. PICK s : s = [cp EXCEPT !.series = {e \in @ : InWindow(today, e)}]
      OBVIOUS
    <2>3. /\ s \in State /\ s.sync = cp.sync /\ s.page = cp.page
          /\ s.series = {e \in cp.series : InWindow(today, e)} /\ cp.series \subseteq Event
      BY <2>1, <2>2 DEF State
    <2>4. st = s
      BY <1>2, <2>0, <2>2 DEF LoadState, Stored
    <2>5. Fits(s, c) /\ HasUnit(s, reconcile[c])
      BY <2>1, <2>3 DEF Fits, HasUnit
    <2>6. \A e \in cp.series : DayOf[e] >= today => e \in s.series \/ e \in forgotten'
      <3> SUFFICES ASSUME NEW e \in cp.series, DayOf[e] >= today, e \notin forgotten' PROVE e \in s.series
        OBVIOUS
      <3>1. DayOf[e] \in Nat /\ today \in Nat /\ Ahead \in Nat /\ ~(DayOf[e] > today + Ahead)
        BY <1>2, <2>0, <2>3, CalendarConstants DEF CalendarTypes, Stored
      <3>2. QED
        BY <2>3, <3>1 DEF InWindow
    <2>7. Doomed' = Doomed
      BY DEF Doomed, InWindow
    <2>8. Refused(s) <=> Refused(cp)
      BY <2>3 DEF Refused
    <2>9. ASSUME Truth(cp, c, rows, Doomed) PROVE Truth(s, c, rows, Doomed)'
      <3>1. PICK k, v, X : k = View(cp) /\ v = View(s) /\ X = Doomed
        OBVIOUS
      <3>2. /\ v.at = k.at /\ v.from = k.from /\ v.left = k.left /\ k.series = cp.series /\ v.series = s.series
            /\ (Asks(s) <=> Asks(cp))
        BY <2>3, <3>1 DEF View, Asks
      <3>3. ASSUME Faithful(k, c, rows, X) PROVE Faithful(v, c, rows, X)'
        <4> SUFFICES ASSUME NEW x \in Event, CalendarOf[x] = c, DayOf[x] >= today
                     PROVE  (GoneTold(v, rows, X, x) /\ ShownTold(v, rows, X, x) /\ SeriesTold(v, rows, X, x))'
          BY DEF Faithful
        <4>1. GoneTold(k, rows, X, x) /\ ShownTold(k, rows, X, x) /\ SeriesTold(k, rows, X, x)
          BY <3>3 DEF Faithful
        <4>2. \A y : Leads(v, y)' = Leads(k, y)
          BY <3>2 DEF Leads, Logged
        <4>3. x \in k.series => x \in v.series \/ x \in Excused'
          BY <2>6, <3>2 DEF Excused
        <4>4. Excused \subseteq Excused'
          BY DEF Excused
        <4>5. LeadsBySeries(k, x) => LeadsBySeries(v, x)' \/ x \in Excused'
          BY <4>2, <4>3 DEF LeadsBySeries
        <4>6. QED
          BY <3>2, <4>1, <4>2, <4>3, <4>4, <4>5 DEF GoneTold, ShownTold, SeriesTold, InWindow
      <3>4. QED
        BY <2>7, <2>9, <3>1, <3>2, <3>3 DEF Truth, Asks, View
    <2>10. Kept(s, c, reconcile[c], rows, Doomed)'
      BY <2>1, <2>3, <2>8, <2>9 DEF Kept, Refused
    <2>11. QED
      BY <1>2, <2>0, <2>3, <2>4, <2>5, <2>10
  <1>3. QED
    BY <1>1, <1>2

\* A run starts with the state of every selected calendar.
LEMMA CalendarStartStep == ASSUME SourcesAssumption, CalendarOK, StartRun PROVE CalendarOK'
  <1>0. /\ CalendarTypes /\ CalendarStored
        /\ UNCHANGED <<alive, selected, log, epoch, today, rows, checkpoint, reconcile, touched, kills, unlisted, vouched>>
        /\ selected \subseteq Calendar /\ forgotten \subseteq forgotten'
    BY DEF CalendarOK, StartRun, google, store, CalendarTypes
  <1>1. PICK c \in selected :
          run' = Visit([pc |-> "fetch", here |-> c, left |-> selected,
                        states |-> [d \in selected |-> LoadState(d)],
                        full |-> FALSE, fresh |-> FALSE, resumed |-> FALSE, touched |-> {},
                        upserts |-> {}, deletes |-> {}, scope |-> None], c, selected)
    BY DEF StartRun, First
  <1>2. \A d \in selected : \A st : st = LoadState(d) =>
          /\ Fits(st, d) /\ Fits(st, d)' /\ HasUnit(st, reconcile[d]) /\ st \in State
          /\ Kept(st, d, reconcile[d], rows, Doomed)'
          /\ d \in DOMAIN checkpoint => st.sync = checkpoint[d].sync /\ st.page = checkpoint[d].page
    <2> SUFFICES ASSUME NEW d \in selected, NEW st, st = LoadState(d)
                 PROVE  /\ Fits(st, d) /\ Fits(st, d)' /\ HasUnit(st, reconcile[d]) /\ st \in State
                        /\ Kept(st, d, reconcile[d], rows, Doomed)'
                        /\ d \in DOMAIN checkpoint => st.sync = checkpoint[d].sync /\ st.page = checkpoint[d].page
      OBVIOUS
    <2>1. {e \in Stored(d).series : DayOf[e] > today + Ahead} \subseteq forgotten'
      BY DEF StartRun
    <2>2. /\ Fits(st, d) /\ HasUnit(st, reconcile[d])
          /\ Kept(st, d, reconcile[d], rows, Doomed)'
          /\ d \in DOMAIN checkpoint => st.sync = checkpoint[d].sync /\ st.page = checkpoint[d].page
      BY <1>0, <2>1, Loaded
    <2>3. QED
      BY <1>0, <2>2, StateSame DEF Fits
  <1>3. PICK loaded : loaded = [d \in selected |-> LoadState(d)]
    OBVIOUS
  <1>4. loaded \in States /\ DOMAIN loaded = selected /\ \A d \in selected : loaded[d] = LoadState(d)
    <2>1. loaded \in [selected -> State]
      BY <1>2, <1>3
    <2>2. QED
      BY <1>0, <1>3, <2>1, StatesFacts
  <1>5. loaded[c].page # None => loaded[c].page.full \in BOOLEAN
    BY <1>2, <1>4 DEF State, PageState
  <1>6. /\ run' \in CalendarRun /\ run'.pc = "fetch" /\ run'.here = c /\ run'.left = selected /\ run'.states = loaded
        /\ run'.full = (loaded[c].page # None /\ loaded[c].page.full) /\ run'.fresh = (loaded[c].page = None)
    <2>1. run' = [pc |-> "fetch", here |-> c, left |-> selected, states |-> loaded,
                  full |-> loaded[c].page # None /\ loaded[c].page.full, fresh |-> loaded[c].page = None,
                  resumed |-> loaded[c].page # None, touched |-> {}, upserts |-> {}, deletes |-> {}, scope |-> None]
      BY <1>1, <1>3 DEF Visit
    <2>2. QED
      BY <1>0, <1>4, <1>5, <2>1 DEF CalendarRun
  <1>7. CalendarTypes'
    BY <1>0, <1>6 DEF CalendarTypes
  <1>8. CalendarStored'
    BY <1>0, CalendarStoredSame
  <1>9. Here' = c /\ My' = loaded[c]
    BY <1>6 DEF Here, My
  <1>10. Others'
    <2>1. \A d \in selected : Fits(loaded[d], d)'
      BY <1>2, <1>4
    <2>2. \A d \in selected : HasUnit(loaded[d], reconcile[d])' /\ Kept(loaded[d], d, reconcile[d], rows, Doomed)'
      BY <1>0, <1>2, <1>4 DEF HasUnit
    <2>3. QED
      BY <1>4, <1>6, <1>9, <2>1, <2>2 DEF Others
  <1>11. Fetching'
    <2>1. PICK st : st = loaded[c]
      OBVIOUS
    <2>2. /\ Fits(st, c)' /\ HasUnit(st, reconcile[c])' /\ Kept(st, c, reconcile[c], rows, Doomed)'
          /\ c \in DOMAIN checkpoint => st.sync = checkpoint[c].sync /\ st.page = checkpoint[c].page
      BY <1>0, <1>2, <1>4, <2>1 DEF HasUnit
    <2>3. /\ Fits(My, Here)' /\ HasUnit(My, reconcile[Here])' /\ Kept(My, Here, reconcile[Here], rows, Doomed)'
      BY <1>9, <2>1, <2>2
    <2>4. QED
      BY <1>0, <1>6, <1>9, <2>1, <2>2, <2>3, VisitFetching
  <1>12. CalendarRunOK'
    BY <1>6, <1>10, <1>11 DEF CalendarRunOK, Reading
  <1>13. QED
    BY <1>7, <1>8, <1>12 DEF CalendarOK

\* A run that reads: its fields, and those of the state it reads.
LEMMA RunFacts ==
  ASSUME SourcesAssumption, CalendarOK, Reading
  PROVE  /\ CalendarTypes /\ CalendarStored /\ Others /\ run \in CalendarRun
         /\ run.states \in [DOMAIN run.states -> State] /\ DOMAIN run.states \subseteq Calendar
         /\ Here \in DOMAIN run.states /\ Here \in Calendar /\ Here = run.here /\ My = run.states[Here]
         /\ Fits(My, Here) /\ My \in State /\ {Idle} \cap CalendarRun = {}
  <1>1. CalendarTypes /\ CalendarStored /\ Others
    BY DEF CalendarOK, CalendarRunOK
  <1>2. run # Idle /\ run \in CalendarRun
    BY <1>1 DEF Reading, Idle, CalendarTypes
  <1>3. PICK S \in SUBSET Calendar : run.states \in [S -> State]
    BY <1>2, StatesFacts DEF CalendarRun
  <1>4. DOMAIN run.states = S
    BY <1>3
  <1>5. Here \in Calendar /\ Here = run.here /\ My = run.states[Here]
    BY <1>2 DEF Here, My, CalendarRun
  <1>6. Idle \notin CalendarRun
    <2>1. \A r \in CalendarRun : r.pc # "idle"
      BY DEF CalendarRun
    <2>2. QED
      BY <2>1 DEF Idle
  <1>7. QED
    BY <1>1, <1>2, <1>3, <1>4, <1>5, <1>6 DEF Others

\* A refused token is dropped from the state of the calendar being read.
LEMMA TokenDropped ==
  ASSUME SourcesAssumption, CalendarOK, run.pc = "fetch",
         UNCHANGED <<alive, selected, log, epoch, today, rows, checkpoint, reconcile, touched, kills>>,
         UNCHANGED <<unlisted, vouched, forgotten>>,
         run' \in CalendarRun, run'.pc = "fetch", run'.here = run.here, run'.left = run.left,
         NEW st, st \in State, Fits(st, Here), run'.states = [run.states EXCEPT ![Here] = st], Fetching'
  PROVE  CalendarOK'
  <1>0. /\ Reading /\ CalendarTypes /\ CalendarStored /\ Others
        /\ run.states \in [DOMAIN run.states -> State] /\ Here \in DOMAIN run.states
    BY RunFacts DEF Reading
  <1>1. /\ Here' = Here /\ DOMAIN run'.states = DOMAIN run.states /\ run'.states[Here] = st
        /\ \A c \in DOMAIN run.states \ {Here} : run'.states[c] = run.states[c]
    BY <1>0 DEF Here
  <1>2. Doomed' = Doomed /\ CalendarStored'
    BY <1>0, CalendarStoredSame
  <1>3. CalendarTypes'
    BY <1>0 DEF CalendarTypes
  <1>4. Others'
    <2>1. \A c \in DOMAIN run.states : Fits(run'.states[c], c)
      BY <1>0, <1>1 DEF Others
    <2>2. \A c \in DOMAIN run.states : \A s : s = run'.states[c] => Fits(s, c)'
      BY <2>1, StateSame
    <2>3. (\A c \in DOMAIN run.states : Fits(run.states[c], c))'
      BY <1>1, <2>2
    <2>4. \A c \in DOMAIN run.states \ {Here} : \A s : s = run.states[c] =>
            /\ HasUnit(s, reconcile[c])' /\ Kept(s, c, reconcile[c], rows, Doomed)'
            /\ c \notin run.left => s.page = None /\ s.sync # None /\ Truth(s, c, rows, Doomed)'
      BY <1>0, <1>2, StateSame DEF Others, HasUnit
    <2>5. (\A c \in DOMAIN run.states \ {Here} :
             /\ HasUnit(run.states[c], reconcile[c]) /\ Kept(run.states[c], c, reconcile[c], rows, Doomed)
             /\ c \notin run.left => run.states[c].page = None /\ run.states[c].sync # None /\ Truth(run.states[c], c, rows, Doomed))'
      BY <1>1, <2>4
    <2>6. Here \in run.left /\ run.left \subseteq DOMAIN run.states
      BY <1>0 DEF Others
    <2>7. QED
      BY <1>1, <2>3, <2>5, <2>6 DEF Others
  <1>5. QED
    BY <1>2, <1>3, <1>4 DEF CalendarOK, CalendarRunOK, Reading

\* 410: the state asks for nothing any more, the run is a full resync.
LEMMA CalendarExpiredStep == ASSUME SourcesAssumption, CalendarOK, SyncTokenExpired PROVE CalendarOK'
  <1>0. /\ run.pc = "fetch" /\ Reading
        /\ UNCHANGED <<alive, selected, log, epoch, today, rows, checkpoint, reconcile, touched, kills>>
        /\ UNCHANGED <<unlisted, vouched, forgotten>>
        /\ My.sync # None /\ My.sync.epoch # epoch
    BY DEF SyncTokenExpired, google, store, history, Reading, Live
  <1>1. /\ CalendarStored /\ run \in CalendarRun /\ Fits(My, Here) /\ My \in State /\ Fetching
        /\ run.states \in [DOMAIN run.states -> State] /\ Here \in DOMAIN run.states /\ DOMAIN run.states \subseteq Calendar
        /\ My = run.states[Here] /\ Here = run.here
    BY <1>0, RunFacts DEF CalendarOK, CalendarRunOK
  <1>2. PICK st : st = [My EXCEPT !.sync = None, !.page = None]
    OBVIOUS
  <1>3. st \in State /\ st.sync = None /\ st.page = None /\ st.series = My.series
    BY <1>1, <1>2 DEF State
  <1>4. Fits(st, Here)
    BY <1>1, <1>3 DEF Fits
  <1>5. run' = [run EXCEPT !.full = TRUE, !.fresh = TRUE, !.resumed = FALSE, !.states = [run.states EXCEPT ![Here] = st]]
    BY <1>1, <1>2 DEF SyncTokenExpired, CalendarRun
  <1>6. [run.states EXCEPT ![Here] = st] \in States
    BY <1>1, <1>3, StatesFacts
  <1>7. /\ run' \in CalendarRun /\ run'.pc = "fetch" /\ run'.here = run.here /\ run'.left = run.left
        /\ run'.states = [run.states EXCEPT ![Here] = st] /\ run'.full = TRUE /\ run'.fresh = TRUE
    BY <1>0, <1>1, <1>5, <1>6 DEF CalendarRun
  <1>8. Here' = Here /\ My' = st
    BY <1>1, <1>7 DEF Here, My
  <1>9. Here \in DOMAIN checkpoint => StoredHere(checkpoint[Here])'
    <2> SUFFICES ASSUME Here \in DOMAIN checkpoint PROVE StoredHere(checkpoint[Here])'
      OBVIOUS
    <2>1. StoredHere(checkpoint[Here])
      BY <1>1 DEF Fetching
    <2>2. ~Asks(checkpoint[Here]) \/ Refused(checkpoint[Here])
      BY <1>0, <2>1 DEF StoredHere, Asks, Refused
    <2>3. QED
      BY <1>0, <1>3, <1>7, <1>8, <2>2 DEF StoredHere, Asks, Refused
  <1>10. Fetching'
    BY <1>0, <1>3, <1>7, <1>8, <1>9 DEF Fetching, Truth, Asks
  <1>11. QED
    BY <1>0, <1>3, <1>4, <1>7, <1>10, TokenDropped

\* 400: the listing of this calendar starts over.
LEMMA CalendarRejectedStep == ASSUME SourcesAssumption, CalendarOK, PageTokenRejected PROVE CalendarOK'
  <1>0. /\ run.pc = "fetch" /\ Reading
        /\ UNCHANGED <<alive, selected, log, epoch, today, rows, checkpoint, reconcile, touched, kills>>
        /\ UNCHANGED <<unlisted, vouched, forgotten>>
        /\ My.page # None /\ My.page.epoch # epoch
    BY DEF PageTokenRejected, google, store, history, Reading, Live
  <1>1. /\ CalendarTypes /\ CalendarStored /\ run \in CalendarRun /\ Fits(My, Here) /\ My \in State /\ Fetching
        /\ run.states \in [DOMAIN run.states -> State] /\ Here \in DOMAIN run.states /\ DOMAIN run.states \subseteq Calendar
        /\ My = run.states[Here] /\ Here = run.here
    BY <1>0, RunFacts DEF CalendarOK, CalendarRunOK
  <1>a. CASE run' = Idle
    BY <1>0, <1>1, <1>a, CalendarIdle DEF CalendarTypes
  <1>b. CASE run' = [run EXCEPT !.fresh = TRUE, !.resumed = FALSE, !.states[Here].page = None]
    <2>1. PICK st : st = [My EXCEPT !.page = None]
      OBVIOUS
    <2>2. st \in State /\ st.sync = My.sync /\ st.page = None /\ st.series = My.series
      BY <1>1, <2>1 DEF State
    <2>3. Fits(st, Here)
      BY <1>1, <2>2 DEF Fits
    <2>4. run' = [run EXCEPT !.fresh = TRUE, !.resumed = FALSE, !.states = [run.states EXCEPT ![Here] = st]]
      BY <1>1, <1>b, <2>1 DEF CalendarRun
    <2>5. [run.states EXCEPT ![Here] = st] \in States
      BY <1>1, <2>2, StatesFacts
    <2>6. /\ run' \in CalendarRun /\ run'.pc = "fetch" /\ run'.here = run.here /\ run'.left = run.left
          /\ run'.states = [run.states EXCEPT ![Here] = st] /\ run'.full = run.full /\ run'.fresh = TRUE
      BY <1>0, <1>1, <2>4, <2>5 DEF CalendarRun
    <2>7. Here' = Here /\ My' = st
      BY <1>1, <2>6 DEF Here, My
    <2>8. Refused(My)' \/ ~Asks(My)'
      BY <1>0, <1>1, <2>2, <2>7 DEF Refused, Asks, Fits
    <2>9. Here \in DOMAIN checkpoint => StoredHere(checkpoint[Here])'
      <3> SUFFICES ASSUME Here \in DOMAIN checkpoint PROVE StoredHere(checkpoint[Here])'
        OBVIOUS
      <3>1. StoredHere(checkpoint[Here])
        BY <1>1 DEF Fetching
      <3>2. \/ ~Asks(checkpoint[Here])
            \/ Refused(checkpoint[Here]) /\ checkpoint[Here].sync = My.sync
        BY <1>0, <3>1 DEF StoredHere, Asks, Refused
      <3>3. Refused(checkpoint[Here])' = Refused(checkpoint[Here]) /\ Asks(checkpoint[Here])' = Asks(checkpoint[Here])
        BY <1>0, <2>7 DEF Refused, Asks
      <3>4. CASE Refused(My)'
        BY <1>0, <2>2, <2>7, <3>2, <3>3, <3>4 DEF StoredHere
      <3>5. CASE ~Asks(My)'
        BY <1>0, <2>2, <2>7, <3>2, <3>3, <3>5 DEF StoredHere, Asks
      <3>6. QED
        BY <2>8, <3>4, <3>5
    <2>10. Fetching'
      BY <1>0, <1>1, <2>2, <2>6, <2>7, <2>8, <2>9 DEF Fetching, Truth
    <2>11. QED
      BY <1>0, <2>2, <2>3, <2>6, <2>10, TokenDropped
  <1>2. QED
    BY <1>a, <1>b DEF PageTokenRejected

\* What is true of a calendar depends on its own events.
LEMMA TruthLocal ==
  \A st, c, R, X, R2, X2 :
    /\ Truth(st, c, R, X)
    /\ \A x \in Event : CalendarOf[x] = c => (x \in R <=> x \in R2) /\ (x \in X <=> x \in X2)
    => Truth(st, c, R2, X2)
  BY DEF Truth, Faithful, GoneTold, ShownTold, SeriesTold

\* A page of a calendar is applied: its unit, its rows, what it has seen.
LEMMA CalendarApplyStep == ASSUME SourcesAssumption, CalendarOK, Apply PROVE CalendarOK'
  <1>0. /\ run.pc = "apply" /\ Reading
        /\ UNCHANGED <<alive, selected, log, epoch, today, checkpoint, kills, unlisted, vouched, forgotten>>
    BY DEF Apply, google, history, Reading
  <1>1. /\ CalendarTypes /\ CalendarStored /\ Others /\ run \in CalendarRun /\ Fits(My, Here) /\ Applying
        /\ Here \in Calendar /\ Here \in DOMAIN run.states /\ My = run.states[Here] /\ Here = run.here
        /\ run.states \in [DOMAIN run.states -> State] /\ DOMAIN run.states \subseteq Calendar
    BY <1>0, RunFacts DEF CalendarOK, CalendarRunOK
  <1>2. /\ reconcile' = [reconcile EXCEPT ![Here] = HereUnit] /\ touched' = HereSeen /\ rows' = HereRows
        /\ run' = [run EXCEPT !.pc = "save", !.touched = @ \cup run.upserts]
    BY DEF Apply, HereUnit, HereSeen, HereRows, Replaces, Mine
  <1>3. /\ run' \in CalendarRun /\ run'.pc = "save" /\ run'.here = run.here /\ run'.left = run.left
        /\ run'.states = run.states /\ run'.full = run.full /\ run'.fresh = run.fresh
        /\ run'.touched = run.touched \cup run.upserts
    BY <1>1, <1>2 DEF CalendarRun
  <1>4. /\ Here' = Here /\ My' = My /\ Mine' = Mine
        /\ reconcile \in [Calendar -> 0..LastDay \cup {None}] /\ HereUnit \in 0..LastDay \cup {None}
        /\ reconcile'[Here] = HereUnit /\ \A c \in Calendar \ {Here} : reconcile'[c] = reconcile[c]
    <2>1. Here' = Here /\ My' = My /\ Mine' = Mine
      BY <1>1, <1>3 DEF Here, My, Mine
    <2>2. reconcile \in [Calendar -> 0..LastDay \cup {None}] /\ run.scope \in 0..LastDay \cup {None}
      BY <1>1 DEF CalendarTypes, CalendarRun
    <2>3. HereUnit \in 0..LastDay \cup {None}
      BY <1>1, <2>2 DEF HereUnit
    <2>4. QED
      BY <1>1, <1>2, <2>1, <2>2, <2>3
  <1>5. PICK R2, X2 : R2 = rows' /\ X2 = Doomed'
    OBVIOUS
  <1>6. /\ run.upserts \subseteq Mine /\ run.deletes \subseteq Mine
        /\ \A x \in Event : CalendarOf[x] \in Calendar /\ (x \in Mine <=> CalendarOf[x] = Here)
    BY <1>1, CalendarConstants DEF Applying, Mine, Thing
  <1>7. \A x \in Event : CalendarOf[x] = Here => (x \in HereRows <=> x \in R2) /\ (x \in HereDoomed <=> x \in X2)
    <2> SUFFICES ASSUME NEW x \in Event, CalendarOf[x] = Here PROVE x \in HereDoomed <=> x \in X2
      BY <1>2, <1>5
    <2>1. reconcile'[CalendarOf[x]] = HereUnit
      BY <1>4
    <2>2. QED
      BY <1>2, <1>5, <1>6, <2>1 DEF HereDoomed, Doomed, InWindow
  <1>8. \A x \in Event : CalendarOf[x] # Here => (x \in rows <=> x \in R2) /\ (x \in Doomed <=> x \in X2)
    <2> SUFFICES ASSUME NEW x \in Event, CalendarOf[x] # Here
                 PROVE  (x \in rows <=> x \in R2) /\ (x \in Doomed <=> x \in X2)
      OBVIOUS
    <2>1. reconcile'[CalendarOf[x]] = reconcile[CalendarOf[x]] /\ x \notin Mine
      BY <1>4, <1>6
    <2>2. x \in rows <=> x \in R2
      BY <1>2, <1>5, <1>6, <2>1 DEF HereRows
    <2>3. x \in touched <=> x \in touched'
      BY <1>2, <1>6, <2>1 DEF HereSeen
    <2>4. QED
      BY <1>5, <2>1, <2>2, <2>3 DEF Doomed, InWindow
  <1>9. \A st, c : c # Here =>
          /\ Truth(st, c, rows, Doomed) => Truth(st, c, R2, X2)'
          /\ \A unit : Kept(st, c, unit, rows, Doomed) => Kept(st, c, unit, R2, X2)'
    <2> SUFFICES ASSUME NEW st, NEW c, c # Here
                 PROVE  /\ Truth(st, c, rows, Doomed) => Truth(st, c, R2, X2)'
                        /\ \A unit : Kept(st, c, unit, rows, Doomed) => Kept(st, c, unit, R2, X2)'
      OBVIOUS
    <2>1. Truth(st, c, rows, Doomed) => Truth(st, c, R2, X2)
      BY <1>8, TruthLocal
    <2>2. QED
      BY <1>0, <2>1, StateSame DEF Kept
  <1>10. \A st : /\ Truth(st, Here, HereRows, HereDoomed) => Truth(st, Here, R2, X2)
                 /\ \A unit : Kept(st, Here, unit, HereRows, HereDoomed) => Kept(st, Here, unit, R2, X2)
    BY <1>7, TruthLocal DEF Kept
  <1>11. \A st, c : (Fits(st, c) => Fits(st, c)')
    BY <1>0, StateSame
  <1>12. CalendarTypes'
    <2>1. rows' \subseteq Event /\ touched' \subseteq Event
      BY <1>1, <1>2 DEF HereRows, HereSeen, CalendarTypes, CalendarRun, Mine
    <2>2. reconcile' \in [Calendar -> 0..LastDay \cup {None}]
      BY <1>2, <1>4
    <2>3. QED
      BY <1>0, <1>1, <1>3, <2>1, <2>2 DEF CalendarTypes
  <1>13. CalendarStored'
    <2> SUFFICES ASSUME NEW c \in DOMAIN checkpoint
                 PROVE  /\ Fits(checkpoint[c], c)' /\ HasUnit(checkpoint[c], reconcile[c])'
                        /\ Kept(checkpoint[c], c, reconcile[c], rows, Doomed)'
      BY <1>0 DEF CalendarStored
    <2>1. PICK st, unit : st = checkpoint[c] /\ unit = reconcile'[c]
      OBVIOUS
    <2>2. Fits(st, c) /\ HasUnit(st, reconcile[c]) /\ Kept(st, c, reconcile[c], rows, Doomed) /\ c \in Calendar
      <3>1. DOMAIN checkpoint \subseteq Calendar
        BY <1>1, StatesFacts DEF CalendarTypes
      <3>2. QED
        BY <1>1, <2>1, <3>1 DEF CalendarStored
    <2>3. Fits(st, c)'
      BY <1>11, <2>2
    <2>4. HasUnit(st, unit)
      <3>1. reconcile[Here] # None => HereUnit # None
        BY <1>1, CalendarConstants DEF HereUnit, Replaces
      <3>2. QED
        BY <1>4, <2>1, <2>2, <3>1 DEF HasUnit
    <2>5. Kept(st, c, unit, R2, X2)'
      <3>1. CASE c = Here
        <4>1. Kept(st, Here, HereUnit, HereRows, HereDoomed)
          BY <1>1, <2>1, <3>1 DEF Applying
        <4>2. Kept(st, c, unit, R2, X2)
          BY <1>4, <1>10, <2>1, <3>1, <4>1
        <4>3. QED
          BY <1>0, <4>2, StateSame
      <3>2. CASE c # Here
        BY <1>4, <1>9, <2>1, <2>2, <3>2
      <3>3. QED
        BY <3>1, <3>2
    <2>6. QED
      BY <1>0, <1>5, <2>1, <2>3, <2>4, <2>5 DEF HasUnit
  <1>14. Others'
    <2>1. \A c \in DOMAIN run.states : \A st : st = run.states[c] => Fits(st, c)'
      BY <1>1, <1>11 DEF Others
    <2>2. \A c \in DOMAIN run.states \ {Here} : \A st, unit : st = run.states[c] /\ unit = reconcile'[c] =>
            /\ HasUnit(st, unit)' /\ Kept(st, c, unit, R2, X2)'
            /\ c \notin run.left => st.page = None /\ st.sync # None /\ Truth(st, c, R2, X2)'
      BY <1>1, <1>4, <1>9 DEF Others, HasUnit
    <2>3. (\A c \in DOMAIN run.states : Fits(run.states[c], c))'
      BY <1>3, <2>1
    <2>4. (\A c \in DOMAIN run.states \ {Here} :
             /\ HasUnit(run.states[c], reconcile[c]) /\ Kept(run.states[c], c, reconcile[c], rows, Doomed)
             /\ c \notin run.left => run.states[c].page = None /\ run.states[c].sync # None /\ Truth(run.states[c], c, rows, Doomed))'
      BY <1>3, <1>4, <1>5, <2>2
    <2>5. Here \in run.left /\ run.left \subseteq DOMAIN run.states
      BY <1>1 DEF Others
    <2>6. QED
      BY <1>3, <1>4, <2>3, <2>4, <2>5 DEF Others
  <1>15. Saving'
    <2>1. Truth(My, Here, rows, Doomed)'
      <3>1. PICK st, c : st = My /\ c = Here
        OBVIOUS
      <3>2. Truth(st, c, R2, X2)
        BY <1>1, <1>10, <3>1 DEF Applying
      <3>3. Truth(st, c, R2, X2)'
        BY <1>0, <3>2, StateSame
      <3>4. QED
        BY <1>4, <1>5, <3>1, <3>3
    <2>2. run.full => HereUnit # None
      BY <1>1 DEF Applying, HereUnit, Replaces
    <2>3. ASSUME My.page # None, run.full, run.fresh PROVE Declaring(reconcile[Here], touched)'
      <3>1. Replaces /\ run.scope = My.page.from /\ run.scope # None
        BY <1>1, <2>3 DEF Applying, Replaces
      <3>2. HereUnit = My.page.from /\ HereUnit # None /\ HereSeen = (touched \ Mine) \cup (run.touched \cap Mine) \cup run.upserts
        BY <3>1 DEF HereUnit, HereSeen
      <3>3. QED
        BY <1>2, <1>3, <1>4, <1>6, <3>2 DEF Declaring
    <2>4. QED
      BY <1>1, <1>3, <1>4, <2>1, <2>2, <2>3 DEF Saving, Applying, Asks
  <1>16. CalendarRunOK'
    BY <1>3, <1>14, <1>15 DEF CalendarRunOK
  <1>17. QED
    BY <1>12, <1>13, <1>16 DEF CalendarOK

\* The reconcile takes away what the pending units have not seen.
LEMMA CalendarReconcileStep == ASSUME SourcesAssumption, CalendarOK, Reconcile PROVE CalendarOK'
  <1>0. /\ CalendarTypes /\ CalendarStored /\ run.pc = "reconcile"
        /\ UNCHANGED <<alive, selected, log, epoch, today, checkpoint, kills, unlisted, vouched, forgotten>>
        /\ reconcile' = [c \in Calendar |-> None] /\ touched' = {} /\ run' = Idle
    BY DEF CalendarOK, Reconcile, google, history
  <1>1. \A x \in Event : CalendarOf[x] \in Calendar
    BY CalendarConstants DEF Thing
  <1>2. rows' = rows \ Doomed /\ Doomed' = {} /\ rows' \subseteq Event
    <2>1. rows \subseteq Event
      BY <1>0 DEF CalendarTypes
    <2>2. rows' = rows \ Doomed
      BY <2>1 DEF Reconcile, Doomed
    <2>3. QED
      BY <1>0, <1>1, <2>1, <2>2 DEF Doomed
  <1>3. PICK R, X : R = rows /\ X = Doomed
    OBVIOUS
  <1>4. \A v, c : Faithful(v, c, R, X) => Faithful(v, c, R \ X, {})
    BY DEF Faithful, GoneTold, ShownTold, SeriesTold
  <1>5. \A st, c : Truth(st, c, R, X) => Truth(st, c, R \ X, {})'
    <2>1. \A st, c : Truth(st, c, R, X) => Truth(st, c, R \ X, {})
      BY <1>4 DEF Truth
    <2>2. QED
      BY <1>0, <2>1, StateSame
  <1>6. run'.pc = "idle"
    BY <1>0 DEF Idle
  <1>7. CalendarTypes'
    BY <1>0, <1>2 DEF CalendarTypes
  <1>8. CalendarStored'
    <2> SUFFICES ASSUME NEW c \in DOMAIN checkpoint
                 PROVE  /\ Fits(checkpoint[c], c)' /\ HasUnit(checkpoint[c], reconcile[c])'
                        /\ Kept(checkpoint[c], c, reconcile[c], rows, Doomed)'
      BY <1>0 DEF CalendarStored
    <2>1. PICK st : st = checkpoint[c]
      OBVIOUS
    <2>2. Fits(st, c) /\ st.page = None /\ Truth(st, c, R, X)
      BY <1>0, <1>3, <2>1 DEF CalendarOK, CalendarStored, CalendarRunOK
    <2>3. Fits(st, c)' /\ Truth(st, c, R \ X, {})'
      BY <1>0, <1>5, <2>2, StateSame
    <2>4. QED
      BY <1>0, <1>2, <1>3, <2>1, <2>2, <2>3 DEF HasUnit, Kept
  <1>9. CalendarRunOK'
    BY <1>6 DEF CalendarRunOK, Reading
  <1>10. QED
    BY <1>7, <1>8, <1>9 DEF CalendarOK

\* The state of every calendar of the run is stored.
LEMMA CalendarSaveStep == ASSUME SourcesAssumption, CalendarOK, Save PROVE CalendarOK'
  <1>0. /\ run.pc = "save" /\ Reading
        /\ UNCHANGED <<alive, selected, log, epoch, today, rows, reconcile, touched, kills, unlisted, vouched, forgotten>>
    BY DEF Save, google, history, Reading
  <1>1. /\ CalendarTypes /\ CalendarStored /\ Others /\ run \in CalendarRun /\ Fits(My, Here) /\ Saving
        /\ Here \in Calendar /\ Here \in DOMAIN run.states /\ My = run.states[Here] /\ Here = run.here
        /\ run.states \in [DOMAIN run.states -> State] /\ DOMAIN run.states \subseteq Calendar
    BY <1>0, RunFacts DEF CalendarOK, CalendarRunOK
  <1>2. Doomed' = Doomed
    BY <1>0 DEF Doomed, InWindow
  <1>3. \A c \in DOMAIN run.states : \A st : st = run.states[c] =>
          /\ Fits(st, c)' /\ HasUnit(st, reconcile[c])' /\ Kept(st, c, reconcile[c], rows, Doomed)'
          /\ c \notin run.left => st.page = None /\ st.sync # None /\ Truth(st, c, rows, Doomed)'
    <2> SUFFICES ASSUME NEW c \in DOMAIN run.states, NEW st, st = run.states[c]
                 PROVE  /\ Fits(st, c)' /\ HasUnit(st, reconcile[c])' /\ Kept(st, c, reconcile[c], rows, Doomed)'
                        /\ c \notin run.left => st.page = None /\ st.sync # None /\ Truth(st, c, rows, Doomed)'
      OBVIOUS
    <2>1. /\ Fits(st, c) /\ HasUnit(st, reconcile[c]) /\ Kept(st, c, reconcile[c], rows, Doomed)
          /\ c \notin run.left => st.page = None /\ st.sync # None /\ Truth(st, c, rows, Doomed)
      BY <1>1 DEF Others, Saving, HasUnit, Kept
    <2>2. QED
      BY <1>0, <1>2, <2>1, StateSame DEF HasUnit
  <1>4. /\ checkpoint' \in States
        /\ DOMAIN checkpoint' = {c \in DOMAIN run.states : run.states[c] # NewState}
        /\ \A c \in DOMAIN checkpoint' : checkpoint'[c] = run.states[c]
    <2>1. PICK K : K = {c \in DOMAIN run.states : run.states[c] # NewState}
      OBVIOUS
    <2>2. checkpoint' = [c \in K |-> run.states[c]]
      BY <2>1 DEF Save, ToCheckpoint
    <2>3. K \in SUBSET Calendar /\ checkpoint' \in [K -> State]
      BY <1>1, <2>1, <2>2
    <2>4. QED
      BY <2>1, <2>2, <2>3, StatesFacts
  <1>5. CalendarStored'
    BY <1>3, <1>4 DEF CalendarStored
  <1>6. ASSUME run' \in CalendarRun \cup {Idle} PROVE CalendarTypes'
    BY <1>0, <1>1, <1>4, <1>6 DEF CalendarTypes
  <1>7. ASSUME NEW c, c \in DOMAIN run.states
        PROVE  c \in DOMAIN checkpoint' \/ (run.states[c].page = None /\ run.states[c].sync = None)
    BY <1>4, <1>7 DEF NewState
  <1>8. CASE run' = Idle
    <2>1. run'.pc = "idle"
      BY <1>8 DEF Idle
    <2>2. QED
      BY <1>5, <1>6, <1>8, <2>1 DEF CalendarOK, CalendarRunOK, Reading
  <1>9. CASE My.page # None /\ run' = [run EXCEPT !.pc = "fetch"]
    <2>1. /\ run' \in CalendarRun /\ run'.pc = "fetch" /\ run'.here = run.here /\ run'.left = run.left
          /\ run'.states = run.states /\ run'.full = run.full /\ run'.fresh = run.fresh /\ run'.touched = run.touched
      BY <1>1, <1>9 DEF CalendarRun
    <2>2. Here' = Here /\ My' = My /\ Mine' = Mine
      BY <1>1, <2>1 DEF Here, My, Mine
    <2>3. Others'
      <3>1. (\A c \in DOMAIN run.states :
               /\ Fits(run.states[c], c) /\ HasUnit(run.states[c], reconcile[c])
               /\ Kept(run.states[c], c, reconcile[c], rows, Doomed)
               /\ c \notin run.left => run.states[c].page = None /\ run.states[c].sync # None /\ Truth(run.states[c], c, rows, Doomed))'
        BY <1>3, <2>1
      <3>2. Here \in run.left /\ run.left \subseteq DOMAIN run.states
        BY <1>1 DEF Others
      <3>3. QED
        BY <2>1, <2>2, <3>1, <3>2 DEF Others
    <2>4. Fetching'
      <3>1. run.full => My.sync = None
        BY <1>1, <1>9 DEF Fits, Saving
      <3>2. Truth(My, Here, rows, Doomed)'
        <4>1. PICK st, c : st = My /\ c = Here
          OBVIOUS
        <4>2. Truth(st, c, rows, Doomed)
          BY <1>1, <4>1 DEF Saving
        <4>3. Truth(st, c, rows, Doomed)'
          BY <1>0, <1>2, <4>2, StateSame
        <4>4. QED
          BY <2>2, <4>1, <4>3
      <3>3. Here \in DOMAIN checkpoint' /\ checkpoint'[Here] = My
        BY <1>1, <1>4, <1>9 DEF NewState
      <3>4. QED
        BY <1>0, <1>1, <1>9, <2>1, <2>2, <3>1, <3>2, <3>3 DEF Fetching, Saving, Declaring, StoredHere, Asks
    <2>5. QED
      BY <1>5, <1>6, <2>1, <2>3, <2>4 DEF CalendarOK, CalendarRunOK
  <1>10. ASSUME My.page = None, NEW c \in run.left \ {Here}, run' = [Visit(run, c, run.left \ {Here}) EXCEPT !.pc = "fetch"]
         PROVE  CalendarOK'
    <2>1. c \in DOMAIN run.states /\ c \in Calendar /\ run.left \subseteq DOMAIN run.states /\ c \in run.left
      BY <1>1, <1>10 DEF Others
    <2>2. run.states[c].page # None => run.states[c].page.full \in BOOLEAN
      BY <1>1, <2>1 DEF State, PageState
    <2>3. /\ run' \in CalendarRun /\ run'.pc = "fetch" /\ run'.here = c /\ run'.left = run.left \ {Here}
          /\ run'.states = run.states /\ run'.full = (run.states[c].page # None /\ run.states[c].page.full)
          /\ run'.fresh = (run.states[c].page = None)
      BY <1>1, <1>10, <2>1, <2>2 DEF CalendarRun, Visit
    <2>4. Here' = c /\ My' = run.states[c]
      BY <2>3 DEF Here, My
    <2>5. (\A d \in DOMAIN run.states :
             Fits(run.states[d], d) /\ HasUnit(run.states[d], reconcile[d]) /\ Kept(run.states[d], d, reconcile[d], rows, Doomed))'
      BY <1>3, <2>3
    <2>6. (\A d \in DOMAIN run.states \ run.left :
             run.states[d].page = None /\ run.states[d].sync # None /\ Truth(run.states[d], d, rows, Doomed))'
      <3>1. \A d \in DOMAIN run.states \ run.left : \A st : st = run.states[d] =>
              st.page = None /\ st.sync # None /\ Truth(st, d, rows, Doomed)'
        BY <1>3
      <3>2. \A st, d : st = My /\ d = Here => st.page = None /\ st.sync # None /\ Truth(st, d, rows, Doomed)'
        BY <1>0, <1>1, <1>2, <1>10, StateSame DEF Saving, Asks
      <3>3. \A d \in DOMAIN run.states \ (run.left \ {Here}) : \A st : st = run.states[d] =>
              st.page = None /\ st.sync # None /\ Truth(st, d, rows, Doomed)'
        BY <1>1, <3>1, <3>2
      <3>4. QED
        BY <2>3, <3>3
    <2>7. Others'
      BY <2>1, <2>3, <2>4, <2>5, <2>6 DEF Others
    <2>8. Fetching'
      <3>1. Fits(My, Here)' /\ HasUnit(My, reconcile[Here])' /\ Kept(My, Here, reconcile[Here], rows, Doomed)'
        BY <2>1, <2>3, <2>4, <2>5
      <3>2. Here' \in DOMAIN checkpoint' => checkpoint'[Here'].sync = My'.sync /\ checkpoint'[Here'].page = My'.page
        BY <1>4, <2>4
      <3>3. QED
        BY <2>3, <2>4, <3>1, <3>2, VisitFetching
    <2>9. QED
      BY <1>5, <1>6, <2>3, <2>7, <2>8 DEF CalendarOK, CalendarRunOK
  <1>11. CASE My.page = None /\ run.left = {Here} /\ run' = [run EXCEPT !.pc = "reconcile", !.left = {}]
    <2>1. run' \in CalendarRun /\ run'.pc = "reconcile"
      BY <1>1, <1>11 DEF CalendarRun
    <2>2. \A c \in DOMAIN run.states : \A st : st = run.states[c] =>
            st.page = None /\ st.sync # None /\ Truth(st, c, rows, Doomed)'
      <3>1. \A st, c : st = My /\ c = Here => st.page = None /\ st.sync # None /\ Truth(st, c, rows, Doomed)'
        BY <1>0, <1>1, <1>2, <1>11, StateSame DEF Saving, Asks
      <3>2. QED
        BY <1>1, <1>3, <1>11, <3>1
    <2>3. (\A c \in DOMAIN checkpoint :
             checkpoint[c].page = None /\ checkpoint[c].sync # None /\ Truth(checkpoint[c], c, rows, Doomed))'
      BY <1>4, <2>2
    <2>4. QED
      BY <1>5, <1>6, <2>1, <2>3 DEF CalendarOK, CalendarRunOK, Reading
  <1>12. QED
    BY <1>8, <1>9, <1>10, <1>11 DEF Save, First

\* A request of the calendar being read.
Asked(q) ==
  /\ q \in PageState /\ q.at <= Len(log) /\ q.epoch = epoch /\ (q.listing <=> My.sync = None) /\ q.full = run.full
  /\ My.sync # None => My.sync.epoch = epoch /\ ~q.full
  /\ \A x \in q.left : CalendarOf[x] = Here /\ (x \in Master => \A y \in alive : MasterOf[y] # x)

AskedView(q) == [at |-> q.at, from |-> q.from, left |-> q.left, series |-> My.series]

\* The page xs is cut from the request: what it deletes, and the state it leaves.
Drops(xs) == UNION {Cancelled(x, My.series) : x \in xs}

AfterPage(q, xs) ==
  [sync |-> IF q.left \ xs = {} THEN [at |-> q.at, epoch |-> epoch, from |-> q.from] ELSE My.sync,
   page |-> IF q.left \ xs = {} THEN None ELSE [q EXCEPT !.left = @ \ xs],
   series |-> (My.series \ Drops(xs)) \cup {e \in xs \cap alive : MasterOf[e] # None}]

Answer(q, xs) ==
  /\ xs \subseteq q.left
  /\ run' = [run EXCEPT !.pc = "apply", !.resumed = FALSE, !.upserts = xs \cap alive, !.deletes = Drops(xs),
                        !.scope = IF q.listing THEN q.from ELSE None,
                        !.states = [run.states EXCEPT ![Here] = AfterPage(q, xs)]]

\* A request is answered by a page of it.
LEMMA Answered ==
  ASSUME SourcesAssumption, CalendarOK, run.pc = "fetch", NEW q, Asked(q), Respond(q)
  PROVE  \E xs : Answer(q, xs)
  <1>1. run \in CalendarRun /\ My = run.states[Here] /\ Here = run.here
    BY RunFacts DEF Reading
  <1>2. \A xs : LET rest == [q EXCEPT !.left = q.left \ xs] IN rest.left = q.left \ xs
    BY DEF Asked, PageState
  <1>3. PICK xs \in SUBSET q.left :
          LET rest == [q EXCEPT !.left = q.left \ xs]
              done == rest.left = {}
          IN  run' = [run EXCEPT
                !.pc = "apply", !.resumed = FALSE, !.upserts = xs \cap alive, !.deletes = Drops(xs),
                !.scope = IF q.listing THEN q.from ELSE None,
                !.states[Here] =
                  [sync |-> IF done THEN [at |-> q.at, epoch |-> epoch, from |-> q.from] ELSE @.sync,
                   page |-> IF done THEN None ELSE rest,
                   series |-> (@.series \ Drops(xs)) \cup {e \in xs \cap alive : MasterOf[e] # None}]]
    BY DEF Respond, Drops
  <1>4. PICK st : st = [sync |-> IF q.left \ xs = {} THEN [at |-> q.at, epoch |-> epoch, from |-> q.from] ELSE run.states[Here].sync,
                        page |-> IF q.left \ xs = {} THEN None ELSE [q EXCEPT !.left = q.left \ xs],
                        series |-> (run.states[Here].series \ Drops(xs)) \cup {e \in xs \cap alive : MasterOf[e] # None}]
    OBVIOUS
  <1>5. run' = [run EXCEPT !.pc = "apply", !.resumed = FALSE, !.upserts = xs \cap alive, !.deletes = Drops(xs),
                           !.scope = IF q.listing THEN q.from ELSE None,
                           !.states = [run.states EXCEPT ![Here] = st]]
    BY <1>1, <1>2, <1>3, <1>4 DEF CalendarRun
  <1>6. st = AfterPage(q, xs)
    BY <1>1, <1>4 DEF AfterPage
  <1>7. QED
    BY <1>5, <1>6 DEF Answer

\* What a page deletes: stored instances of the calendar, and events, all gone.
LEMMA DropsGone ==
  ASSUME SourcesAssumption, CalendarOK, run.pc = "fetch", NEW q, Asked(q), NEW xs, xs \subseteq q.left
  PROVE  /\ Drops(xs) \subseteq Mine /\ Drops(xs) \cap alive = {} /\ xs \cap alive \subseteq Mine
         /\ \A x \in xs : x \in Event /\ x \notin alive => x \in Drops(xs)
         /\ \A x \in xs, y \in My.series : x \in Master /\ MasterOf[y] = x => y \in Drops(xs)
  <1>1. /\ CalendarTypes /\ Fits(My, Here) /\ My \in State /\ My.series \subseteq Event /\ alive \subseteq Event
        /\ Event \cap Master = {} /\ q.left \subseteq Event \cup Master
    BY RunFacts, CalendarConstants DEF Reading, CalendarTypes, State, Asked, PageState, Thing
  <1>2. \A y : y \in Drops(xs) <=> \E x \in xs : y \in Cancelled(x, My.series)
    BY DEF Drops
  <1>3. \A x \in xs : x \in Event => Cancelled(x, My.series) = {x} \ alive /\ CalendarOf[x] = Here
    BY DEF Cancelled, Asked
  <1>4. \A x \in xs : x \in Master =>
          Cancelled(x, My.series) = {y \in My.series : MasterOf[y] = x} /\ \A y \in alive : MasterOf[y] # x
    BY <1>1 DEF Cancelled, Instances, Asked
  <1>5. \A y \in My.series : CalendarOf[y] = Here
    BY <1>1 DEF Fits
  <1>6. QED
    BY <1>1, <1>2, <1>3, <1>4, <1>5 DEF Mine

\* The state a page leaves.
LEMMA AnswerState ==
  ASSUME SourcesAssumption, CalendarOK, run.pc = "fetch", NEW q, Asked(q), NEW xs, xs \subseteq q.left,
         NEW st, st = AfterPage(q, xs)
  PROVE  /\ Fits(st, Here) /\ Asks(st) /\ st.series = (My.series \ Drops(xs)) \cup {e \in xs \cap alive : MasterOf[e] # None}
         /\ View(st) = [at |-> q.at, from |-> q.from, left |-> q.left \ xs, series |-> st.series]
         /\ st.page # None => st.page.full = run.full /\ st.page.from = q.from
  <1>1. /\ CalendarTypes /\ run \in CalendarRun /\ Fits(My, Here) /\ My \in State
        /\ Here \in Calendar /\ Here \in DOMAIN run.states /\ My = run.states[Here] /\ Here = run.here
        /\ run.states \in [DOMAIN run.states -> State] /\ DOMAIN run.states \subseteq Calendar
        /\ None \notin SyncToken /\ None \notin PageState /\ alive \subseteq Event
    BY RunFacts, CalendarConstants DEF Reading, CalendarTypes
  <1>2. /\ Drops(xs) \subseteq Mine /\ xs \cap alive \subseteq Mine /\ Mine \subseteq Event
    BY DropsGone DEF Mine
  <1>3. /\ q \in PageState /\ q.at \in 0..MaxChanges /\ q.epoch \in 0..MaxExpiries /\ q.from \in 0..LastDay
        /\ q.left \subseteq Thing /\ epoch \in 0..MaxExpiries
    BY <1>1 DEF Asked, PageState, CalendarTypes
  <1>4. PICK rest : rest = [q EXCEPT !.left = @ \ xs]
    OBVIOUS
  <1>5. /\ rest \in PageState /\ rest # None /\ rest.left = q.left \ xs /\ rest.at = q.at /\ rest.epoch = q.epoch
        /\ rest.from = q.from /\ rest.listing = q.listing /\ rest.full = q.full
    BY <1>1, <1>3, <1>4 DEF PageState
  <1>6. PICK token : token = [at |-> q.at, epoch |-> epoch, from |-> q.from]
    OBVIOUS
  <1>7. token \in SyncToken /\ token # None /\ token.at = q.at /\ token.epoch = epoch /\ token.from = q.from
    BY <1>1, <1>3, <1>6 DEF SyncToken
  <1>8. /\ st.sync = (IF q.left \ xs = {} THEN token ELSE My.sync)
        /\ st.page = (IF q.left \ xs = {} THEN None ELSE rest)
        /\ st.series = (My.series \ Drops(xs)) \cup {e \in xs \cap alive : MasterOf[e] # None}
        /\ st = [sync |-> st.sync, page |-> st.page, series |-> st.series]
    BY <1>4, <1>6 DEF AfterPage
  <1>9. st \in State
    BY <1>1, <1>2, <1>5, <1>7, <1>8 DEF State
  <1>10. Fits(st, Here)
    <2>1. \A x \in st.series : CalendarOf[x] = Here
      BY <1>1, <1>2, <1>8 DEF Fits, Mine
    <2>2. epoch <= epoch /\ q.at <= Len(log) /\ q.epoch = epoch
      BY <1>3 DEF Asked
    <2>3. CASE q.left \ xs = {}
      BY <1>5, <1>7, <1>8, <1>9, <2>1, <2>2, <2>3 DEF Fits
    <2>4. CASE q.left \ xs # {}
      BY <1>1, <1>5, <1>7, <1>8, <1>9, <2>1, <2>2, <2>4 DEF Fits, Asked
    <2>5. QED
      BY <2>3, <2>4
  <1>11. Asks(st)
    BY <1>5, <1>7, <1>8 DEF Asks
  <1>12. View(st) = [at |-> q.at, from |-> q.from, left |-> q.left \ xs, series |-> st.series]
    BY <1>5, <1>7, <1>8 DEF View
  <1>13. st.page # None => st.page.full = run.full /\ st.page.from = q.from
    BY <1>5, <1>8 DEF Asked
  <1>14. QED
    BY <1>8, <1>10, <1>11, <1>12, <1>13

\* The run once the page is there.
LEMMA AnswerRun ==
  ASSUME SourcesAssumption, CalendarOK, run.pc = "fetch", NEW q, Asked(q), NEW xs, Answer(q, xs),
         NEW st, st = AfterPage(q, xs)
  PROVE  /\ run' \in CalendarRun /\ run'.pc = "apply" /\ run'.here = run.here /\ run'.left = run.left
         /\ run'.full = run.full /\ run'.fresh = run.fresh /\ run'.touched = run.touched
         /\ run'.upserts = xs \cap alive /\ run'.deletes = Drops(xs)
         /\ run'.scope = (IF q.listing THEN q.from ELSE None)
         /\ run'.states = [run.states EXCEPT ![Here] = st] /\ Here' = Here /\ My' = st /\ Mine' = Mine
  <1>1. /\ CalendarTypes /\ run \in CalendarRun
        /\ Here \in Calendar /\ Here \in DOMAIN run.states /\ My = run.states[Here] /\ Here = run.here
        /\ run.states \in [DOMAIN run.states -> State] /\ DOMAIN run.states \subseteq Calendar
    BY RunFacts DEF Reading
  <1>2. xs \subseteq q.left
    BY DEF Answer
  <1>3. Drops(xs) \subseteq Event /\ xs \cap alive \subseteq Event
    BY <1>2, DropsGone DEF Mine
  <1>4. q.from \in 0..LastDay
    BY DEF Asked, PageState
  <1>5. st \in State
    BY <1>2, AnswerState DEF Fits
  <1>6. [run.states EXCEPT ![Here] = st] \in States
    BY <1>1, <1>5, StatesFacts
  <1>7. run' = [run EXCEPT !.pc = "apply", !.resumed = FALSE, !.upserts = xs \cap alive, !.deletes = Drops(xs),
                        !.scope = IF q.listing THEN q.from ELSE None,
                        !.states = [run.states EXCEPT ![Here] = st]]
    BY DEF Answer
  <1>8. /\ run' \in CalendarRun /\ run'.pc = "apply" /\ run'.here = run.here /\ run'.left = run.left
        /\ run'.full = run.full /\ run'.fresh = run.fresh /\ run'.touched = run.touched
        /\ run'.upserts = xs \cap alive /\ run'.deletes = Drops(xs)
        /\ run'.scope = (IF q.listing THEN q.from ELSE None)
        /\ run'.states = [run.states EXCEPT ![Here] = st]
    BY <1>1, <1>3, <1>4, <1>6, <1>7 DEF CalendarRun
  <1>9. Here' = Here /\ My' = st /\ Mine' = Mine
    BY <1>1, <1>8 DEF Here, My, Mine
  <1>10. QED
    BY <1>8, <1>9

\* What the page names is as Google shows it: what the request settled, the
\* state it leaves does.
LEMMA CutFaithful ==
  ASSUME SourcesAssumption, CalendarOK, run.pc = "fetch", NEW q, Asked(q), NEW xs, Answer(q, xs),
         NEW st, st = AfterPage(q, xs), UNCHANGED <<alive, log, today>>,
         NEW v, v = AskedView(q), NEW c, c = Here, NEW X, NEW X2, NEW R, NEW R2, Faithful(v, c, R, X)',
         R2 = (R \ Drops(xs)) \cup (xs \cap alive),
         \A x \in Event : CalendarOf[x] = c => (x \in X2 <=> x \in X /\ x \notin xs \cap alive)
  PROVE  Truth(st, c, R2, X2)'
  <1>0. xs \subseteq q.left
    BY DEF Answer
  <1>1. /\ Drops(xs) \cap alive = {}
        /\ \A x \in xs : x \in Event /\ x \notin alive => x \in Drops(xs)
        /\ \A x \in xs, y \in My.series : x \in Master /\ MasterOf[y] = x => y \in Drops(xs)
        /\ st.series = (My.series \ Drops(xs)) \cup {e \in xs \cap alive : MasterOf[e] # None}
        /\ View(st) = [at |-> q.at, from |-> q.from, left |-> q.left \ xs, series |-> st.series]
    <2>1. /\ Drops(xs) \cap alive = {}
          /\ \A x \in xs : x \in Event /\ x \notin alive => x \in Drops(xs)
          /\ \A x \in xs, y \in My.series : x \in Master /\ MasterOf[y] = x => y \in Drops(xs)
      BY <1>0, DropsGone
    <2>2. /\ st.series = (My.series \ Drops(xs)) \cup {e \in xs \cap alive : MasterOf[e] # None}
          /\ View(st) = [at |-> q.at, from |-> q.from, left |-> q.left \ xs, series |-> st.series]
      BY <1>0, AnswerState
    <2>3. QED
      BY <2>1, <2>2
  <1>2. PICK k, series, drops : k = View(st) /\ series = My.series /\ drops = Drops(xs)
    OBVIOUS
  <1>3. /\ k.at = v.at /\ k.from = v.from /\ k.left = v.left \ xs /\ v.series = series
        /\ k.series = (series \ drops) \cup {e \in xs \cap alive : MasterOf[e] # None}
    BY <1>1, <1>2 DEF AskedView
  <1>4. \A y : Leads(v, y)' => Leads(k, y)' \/ y \in xs
    BY <1>3 DEF Leads
  <1>5. Faithful(k, c, R2, X2)'
    <2> SUFFICES ASSUME NEW x \in Event, CalendarOf[x] = c, DayOf[x] >= today'
                 PROVE  (GoneTold(k, R2, X2, x) /\ ShownTold(k, R2, X2, x) /\ SeriesTold(k, R2, X2, x))'
      BY DEF Faithful
    <2>1. (GoneTold(v, R, X, x) /\ ShownTold(v, R, X, x) /\ SeriesTold(v, R, X, x))'
      BY DEF Faithful
    <2>2. x \in X2 <=> x \in X /\ ~(x \in xs /\ x \in alive)
      BY <1>2
    <2>3. x \in R2 <=> (x \in R /\ x \notin drops) \/ (x \in xs /\ x \in alive)
      BY <1>2
    <2>4. /\ x \in alive => x \notin drops
          /\ x \in xs /\ x \notin alive => x \in drops
          /\ MasterOf[x] # None /\ MasterOf[x] \in xs /\ x \in series => x \in drops
      BY <1>1, <1>2, CalendarConstants
    <2>5. x \in series /\ x \notin drops => x \in k.series
      BY <1>3
    <2>6. GoneTold(k, R2, X2, x)'
      <3> SUFFICES ASSUME x \in R2, x \notin alive PROVE x \in Excused' \cup X2 \/ Leads(k, x)' \/ LeadsBySeries(k, x)'
        BY DEF GoneTold
      <3>1. x \in R /\ x \notin drops /\ x \notin xs
        BY <2>3, <2>4
      <3>2. x \in Excused' \cup X \/ Leads(v, x)' \/ LeadsBySeries(v, x)'
        BY <2>1, <3>1 DEF GoneTold
      <3>3. LeadsBySeries(v, x)' => LeadsBySeries(k, x)'
        BY <1>3, <1>4, <2>4, <2>5, <3>1 DEF LeadsBySeries
      <3>4. QED
        BY <1>4, <2>2, <3>1, <3>2, <3>3
    <2>7. ShownTold(k, R2, X2, x)'
      <3> SUFFICES ASSUME x \in alive, InWindow(k.from, x) PROVE (x \in R2 /\ x \notin X2) \/ Leads(k, x)'
        BY DEF ShownTold, InWindow
      <3>1. (x \in R /\ x \notin X) \/ Leads(v, x)'
        BY <1>3, <2>1 DEF ShownTold, InWindow
      <3>2. QED
        BY <1>4, <2>2, <2>3, <2>4, <3>1
    <2>8. SeriesTold(k, R2, X2, x)'
      <3> SUFFICES ASSUME x \in R2, x \in alive, MasterOf[x] # None
                   PROVE  x \in k.series \cup Excused' \cup X2 \/ Leads(k, x)'
        BY DEF SeriesTold
      <3>1. CASE x \in xs
        BY <1>3, <3>1
      <3>2. CASE x \notin xs
        <4>1. x \in R
          BY <2>3, <3>2
        <4>2. x \in series \cup Excused' \cup X \/ Leads(v, x)'
          BY <1>3, <2>1, <4>1 DEF SeriesTold
        <4>3. QED
          BY <1>4, <2>2, <2>4, <2>5, <3>2, <4>2
      <3>3. QED
        BY <3>1, <3>2
    <2>9. QED
      BY <2>6, <2>7, <2>8
  <1>6. Asks(st)
    BY <1>0, AnswerState
  <1>7. Faithful(View(st), c, R2, X2)'
    BY <1>2, <1>5 DEF View
  <1>8. QED
    BY <1>7 DEF Truth

\* A view that leads to all the page names stays true of the rows it leaves.
LEMMA KeptFaithful ==
  ASSUME SourcesAssumption, CalendarOK, run.pc = "fetch", NEW q, Asked(q), NEW xs, xs \subseteq q.left,
         UNCHANGED <<alive, log, today>>,
         NEW st, NEW X, NEW X2, NEW R, NEW R2, Truth(st, Here, R, X),
         UNCHANGED <<unlisted, vouched, forgotten>>,
         R2 = (R \ Drops(xs)) \cup (xs \cap alive), Asks(st) => \A x \in xs : Leads(View(st), x),
         \A x \in Event : CalendarOf[x] = Here => (x \in X2 <=> x \in X /\ x \notin xs \cap alive)
  PROVE  Truth(st, Here, R2, X2)
  <1>1. Drops(xs) \cap alive = {}
    BY DropsGone
  <1> SUFFICES ASSUME Asks(st), NEW x \in Event, CalendarOf[x] = Here, DayOf[x] >= today
               PROVE  GoneTold(View(st), R2, X2, x) /\ ShownTold(View(st), R2, X2, x) /\ SeriesTold(View(st), R2, X2, x)
    BY DEF Truth, Faithful
  <1>2. GoneTold(View(st), R, X, x) /\ ShownTold(View(st), R, X, x) /\ SeriesTold(View(st), R, X, x)
    BY DEF Truth, Faithful
  <1>3. QED
    BY <1>1, <1>2 DEF GoneTold, ShownTold, SeriesTold

\* What the page declares: the unit, and what it would take away.
LEMMA AnswerUnit ==
  ASSUME SourcesAssumption, CalendarOK, run.pc = "fetch", NEW q, Asked(q), NEW xs, Answer(q, xs),
         UNCHANGED <<alive, rows, reconcile, touched>>, NEW opens \in BOOLEAN,
         opens = (run.full /\ q.listing /\ (run.fresh \/ reconcile[Here] = None))
  PROVE  /\ HereRows' = (rows \ Drops(xs)) \cup (xs \cap alive)
         /\ HereUnit' = IF opens THEN q.from ELSE reconcile[Here]
         /\ \A x \in Event : CalendarOf[x] = Here =>
              (x \in HereDoomed' <=> /\ x \notin xs \cap alive
                                     /\ IF opens THEN x \notin run.touched /\ InWindow(q.from, x) ELSE x \in Doomed)
  <1>1. PICK st : st = AfterPage(q, xs)
    OBVIOUS
  <1>2. /\ run'.full = run.full /\ run'.fresh = run.fresh /\ run'.touched = run.touched
        /\ run'.upserts = xs \cap alive /\ run'.deletes = Drops(xs)
        /\ run'.scope = (IF q.listing THEN q.from ELSE None) /\ Here' = Here /\ Mine' = Mine
    BY <1>1, AnswerRun
  <1>3. q.from \in Nat /\ q.from # None /\ q.listing \in BOOLEAN
    BY CalendarConstants DEF Asked, PageState
  <1>4. Replaces' <=> opens
    BY <1>2, <1>3 DEF Replaces
  <1>5. HereUnit' = IF opens THEN q.from ELSE reconcile[Here]
    BY <1>2, <1>3, <1>4 DEF HereUnit
  <1>6. HereRows' = (rows \ Drops(xs)) \cup (xs \cap alive)
    BY <1>2 DEF HereRows
  <1>7. ASSUME NEW x \in Event, CalendarOf[x] = Here
        PROVE  x \in HereDoomed' <=> /\ x \notin xs \cap alive
                                     /\ IF opens THEN x \notin run.touched /\ InWindow(q.from, x) ELSE x \in Doomed
    <2>1. x \in Mine /\ x \in Mine'
      BY <1>2, <1>7 DEF Mine
    <2>2. PICK u, s : u = HereUnit' /\ s = HereSeen'
      OBVIOUS
    <2>3. x \in HereDoomed' <=> u # None /\ x \notin s /\ InWindow(u, x)
      BY <2>1, <2>2 DEF HereDoomed, InWindow
    <2>4. u # None => (x \in s <=> (IF opens THEN x \in run.touched ELSE x \in touched) \/ x \in xs \cap alive)
      BY <1>2, <1>4, <2>1, <2>2 DEF HereSeen
    <2>5. x \in Doomed <=> reconcile[Here] # None /\ x \notin touched /\ InWindow(reconcile[Here], x)
      BY <1>7 DEF Doomed
    <2>6. QED
      BY <1>3, <1>5, <2>2, <2>3, <2>4, <2>5
  <1>8. QED
    BY <1>5, <1>6, <1>7

\* What a request leaves: X is what the pending units would take away, the page
\* apart; what is stored keeps its truth.
Prepared(q, xs) ==
  /\ \E X : /\ \A x \in Event : CalendarOf[x] = Here => (x \in HereDoomed' <=> x \in X /\ x \notin xs \cap alive)
            /\ \A v, c, R : v = AskedView(q) /\ c = Here /\ R = rows => Faithful(v, c, R, X)'
  /\ Here \in DOMAIN checkpoint =>
       \A st, c, u, R, X : st = checkpoint[Here] /\ c = Here /\ u = HereUnit' /\ R = HereRows' /\ X = HereDoomed'
                           => Kept(st, c, u, R, X)

\* The next page of a listing or of a round.
LEMMA CalendarContinue ==
  ASSUME SourcesAssumption, CalendarOK, run.pc = "fetch", Live(My.page), Live(My.sync), My.page # None,
         NEW q, q = My.page, UNCHANGED <<alive, log, today, rows, reconcile, touched, unlisted, vouched, forgotten>>
  PROVE  Asked(q) /\ \A xs : Answer(q, xs) => Prepared(q, xs)
  <1>1. /\ CalendarTypes /\ CalendarStored /\ Fits(My, Here) /\ My \in State /\ Fetching /\ ~Refused(My) /\ Asks(My)
    BY RunFacts DEF Reading, CalendarOK, CalendarRunOK, Live, Refused, Asks
  <1>2. q \in PageState /\ q.epoch = epoch /\ q.full = run.full /\ q.full \in BOOLEAN
    BY <1>1 DEF State, Live, Fetching, PageState
  <1>3. Asked(q)
    BY <1>1, <1>2 DEF Asked, Fits, Live
  <1> SUFFICES ASSUME NEW xs, Answer(q, xs) PROVE Prepared(q, xs)
    BY <1>3
  <1>4. PICK opens \in BOOLEAN : opens = (run.full /\ q.listing /\ (run.fresh \/ reconcile[Here] = None))
    OBVIOUS
  <1>5. PICK X, X2, R2 : X = Doomed /\ X2 = HereDoomed' /\ R2 = HereRows'
    OBVIOUS
  <1>6. xs \subseteq q.left
    BY DEF Answer
  <1>7. \A x \in Event : CalendarOf[x] = Here => (x \in X2 <=> x \in X /\ x \notin xs \cap alive)
    <2> SUFFICES ASSUME NEW x \in Event, CalendarOf[x] = Here PROVE x \in X2 <=> x \in X /\ x \notin xs \cap alive
      OBVIOUS
    <2>1. x \in X2 <=> /\ x \notin xs \cap alive
                       /\ IF opens THEN x \notin run.touched /\ InWindow(q.from, x) ELSE x \in Doomed
      BY <1>3, <1>4, <1>5, AnswerUnit
    <2>2. opens => Declaring(reconcile[Here], touched) /\ reconcile[Here] # None
      BY <1>1, <1>4 DEF Fetching
    <2>3. opens => (x \in Doomed <=> x \notin run.touched /\ InWindow(q.from, x))
      BY <2>2 DEF Declaring, Doomed, Mine
    <2>4. QED
      BY <1>5, <2>1, <2>3
  <1>8. R2 = (rows \ Drops(xs)) \cup (xs \cap alive)
    BY <1>3, <1>4, <1>5, AnswerUnit
  <1>9. ASSUME NEW v, NEW c, NEW R, v = AskedView(q), c = Here, R = rows PROVE Faithful(v, c, R, X)'
    <2>1. Truth(My, c, R, X)
      BY <1>1, <1>5, <1>9 DEF Fetching
    <2>2. v = View(My)
      BY <1>9 DEF AskedView, View
    <2>3. QED
      BY <1>1, <2>1, <2>2, FaithfulSame DEF Truth
  <1>10. ASSUME Here \in DOMAIN checkpoint, NEW st, st = checkpoint[Here] PROVE Truth(st, Here, R2, X2)
    <2>1. StoredHere(st) /\ Kept(st, Here, reconcile[Here], rows, Doomed)
      BY <1>1, <1>10 DEF Fetching, CalendarStored
    <2>2. CASE ~Asks(st)
      BY <2>2 DEF Truth
    <2>3. CASE st.sync = My.sync /\ st.page = My.page
      <3>1. Truth(st, Here, rows, X)
        BY <1>1, <1>5, <2>1, <2>3 DEF Kept, Refused
      <3>2. Asks(st) => \A x \in xs : Leads(View(st), x)
        BY <1>6, <2>3 DEF View, Leads
      <3>3. QED
        BY <1>3, <1>6, <1>7, <1>8, <3>1, <3>2, KeptFaithful
    <2>4. QED
      BY <1>1, <2>1, <2>2, <2>3 DEF StoredHere
  <1>11. QED
    BY <1>5, <1>7, <1>9, <1>10 DEF Prepared, Kept

\* A round: what has changed since the token.
LEMMA CalendarRound ==
  ASSUME SourcesAssumption, CalendarOK, run.pc = "fetch", Live(My.sync), My.page = None, My.sync # None,
         NEW q, q = Round(Here, My.sync, run.full),
         UNCHANGED <<alive, log, today, rows, reconcile, touched, unlisted, vouched, forgotten>>
  PROVE  Asked(q) /\ \A xs : Answer(q, xs) => Prepared(q, xs)
  <1>1. /\ CalendarTypes /\ CalendarStored /\ Fits(My, Here) /\ My \in State /\ Fetching /\ ~Refused(My) /\ Asks(My)
    BY RunFacts DEF Reading, CalendarOK, CalendarRunOK, Live, Refused, Asks
  <1>2. run.full = FALSE
    BY <1>1, RunFacts DEF Fetching, Reading, CalendarRun
  <1>3. /\ My.sync \in SyncToken /\ My.sync.at \in Nat /\ My.sync.from \in 0..LastDay /\ My.sync.epoch = epoch
        /\ Len(log) \in Nat /\ Len(log) <= MaxChanges /\ epoch \in 0..MaxExpiries /\ MaxChanges \in Nat
    BY <1>1, CalendarConstants DEF State, SyncToken, Live, CalendarTypes
  <1>4. /\ q = [left |-> q.left, at |-> Len(log), epoch |-> epoch, from |-> My.sync.from, listing |-> FALSE, full |-> FALSE]
        /\ q.left = {x \in Thing : CalendarOf[x] = Here /\ Logged(My.sync.at, x)}
    BY <1>2 DEF Round, Logged
  <1>5. q \in PageState
    <2>1. PICK L : L = q.left
      OBVIOUS
    <2>2. L \in SUBSET Thing /\ Len(log) \in 0..MaxChanges
      BY <1>3, <1>4, <2>1
    <2>3. q = [left |-> L, at |-> Len(log), epoch |-> epoch, from |-> My.sync.from, listing |-> FALSE, full |-> FALSE]
      BY <1>4, <2>1
    <2>4. QED
      BY <1>3, <2>2, <2>3 DEF PageState
  <1>6. \A x \in q.left : x \in Master => \A y \in alive : MasterOf[y] # x
    <2> SUFFICES ASSUME NEW x \in q.left, x \in Master, NEW y \in alive, MasterOf[y] = x PROVE FALSE
      OBVIOUS
    <2>1. PICK n \in My.sync.at + 1..Len(log) : log[n] = x
      BY <1>4 DEF Logged
    <2>2. n \in 1..Len(log) /\ x # None
      BY <1>3, <2>1, CalendarConstants
    <2>3. QED
      BY <1>1, <2>1, <2>2 DEF CalendarTypes
  <1>7. Asked(q)
    <2>1. q.at = Len(log) /\ q.epoch = epoch /\ q.listing = FALSE /\ q.full = FALSE
      BY <1>4
    <2>a. \A x \in q.left : CalendarOf[x] = Here
      BY <1>4
    <2>b. q.at <= Len(log)
      BY <1>3, <2>1
    <2>c. (q.listing <=> My.sync = None) /\ q.full = run.full
      BY <1>2, <2>1
    <2>2. /\ \A x \in q.left : CalendarOf[x] = Here /\ (x \in Master => \A y \in alive : MasterOf[y] # x)
          /\ q.at <= Len(log) /\ (q.listing <=> My.sync = None) /\ q.full = run.full
      BY <1>6, <2>a, <2>b, <2>c
    <2>3. QED
      BY <1>3, <1>5, <2>1, <2>2 DEF Asked
  <1> SUFFICES ASSUME NEW xs, Answer(q, xs) PROVE Prepared(q, xs)
    BY <1>7
  <1>8. PICK opens \in BOOLEAN : opens = (run.full /\ q.listing /\ (run.fresh \/ reconcile[Here] = None))
    OBVIOUS
  <1>9. PICK X, X2, R2 : X = Doomed /\ X2 = HereDoomed' /\ R2 = HereRows'
    OBVIOUS
  <1>10. xs \subseteq q.left
    BY DEF Answer
  <1>11. /\ \A x \in Event : CalendarOf[x] = Here => (x \in X2 <=> x \in X /\ x \notin xs \cap alive)
         /\ R2 = (rows \ Drops(xs)) \cup (xs \cap alive)
    <2>1. opens = FALSE
      BY <1>2, <1>8
    <2>2. QED
      BY <1>7, <1>8, <1>9, <2>1, AnswerUnit
  <1>12. ASSUME NEW v, NEW c, NEW R, v = AskedView(q), c = Here, R = rows PROVE Faithful(v, c, R, X)'
    <2>1. PICK k : k = View(My)
      OBVIOUS
    <2>2. /\ k.at = My.sync.at /\ k.from = My.sync.from /\ k.left = {} /\ k.series = My.series
          /\ v.at = Len(log) /\ v.from = My.sync.from /\ v.left = q.left /\ v.series = My.series
      BY <1>4, <1>12, <2>1 DEF View, AskedView
    <2>3. Faithful(k, c, R, X)
      BY <1>1, <1>9, <1>12, <2>1 DEF Fetching, Truth
    <2>4. \A x \in Thing : CalendarOf[x] = c /\ Leads(k, x) => Leads(v, x)
      BY <1>4, <1>12, <2>2 DEF Leads
    <2>5. Faithful(v, c, R, X)
      <3> SUFFICES ASSUME NEW x \in Event, CalendarOf[x] = c, DayOf[x] >= today
                   PROVE  GoneTold(v, R, X, x) /\ ShownTold(v, R, X, x) /\ SeriesTold(v, R, X, x)
        BY DEF Faithful
      <3>1. GoneTold(k, R, X, x) /\ ShownTold(k, R, X, x) /\ SeriesTold(k, R, X, x)
        BY <2>3 DEF Faithful
      <3>2. Leads(k, x) => Leads(v, x)
        BY <2>4 DEF Thing
      <3>3. MasterOf[x] # None => MasterOf[x] \in Thing /\ CalendarOf[MasterOf[x]] = c
        BY CalendarConstants DEF Thing
      <3>4. LeadsBySeries(k, x) => LeadsBySeries(v, x)
        BY <2>2, <2>4, <3>3 DEF LeadsBySeries
      <3>5. QED
        BY <2>2, <3>1, <3>2, <3>4 DEF GoneTold, ShownTold, SeriesTold
    <2>6. QED
      BY <2>5, FaithfulSame
  <1>13. ASSUME Here \in DOMAIN checkpoint, NEW st, st = checkpoint[Here] PROVE Truth(st, Here, R2, X2)
    <2>1. StoredHere(st) /\ Kept(st, Here, reconcile[Here], rows, Doomed)
      BY <1>1, <1>13 DEF Fetching, CalendarStored
    <2>2. CASE ~Asks(st)
      BY <2>2 DEF Truth
    <2>3. CASE st.sync = My.sync /\ st.page = My.page
      <3>1. Truth(st, Here, rows, X)
        BY <1>1, <1>9, <2>1, <2>3 DEF Kept, Refused
      <3>2. Asks(st) => \A x \in xs : Leads(View(st), x)
        BY <1>4, <1>10, <2>3 DEF View, Leads
      <3>3. QED
        BY <1>7, <1>10, <1>11, <3>1, <3>2, KeptFaithful
    <2>4. QED
      BY <1>1, <2>1, <2>2, <2>3 DEF StoredHere
  <1>14. QED
    BY <1>9, <1>11, <1>12, <1>13 DEF Prepared, Kept

\* A listing opens: the rows it cannot tell about are excused.
LEMMA CalendarListing ==
  ASSUME SourcesAssumption, CalendarOK, run.pc = "fetch", My.page = None, My.sync = None,
         NEW q, q = Listing(Here, run.full), Opening,
         UNCHANGED <<alive, log, today, rows, reconcile, touched>>
  PROVE  Asked(q) /\ \A xs : Answer(q, xs) => Prepared(q, xs)
  <1>1. /\ CalendarTypes /\ CalendarStored /\ Fits(My, Here) /\ My \in State /\ Fetching /\ ~Refused(My) /\ ~Asks(My)
    BY RunFacts DEF Reading, CalendarOK, CalendarRunOK, Refused, Asks
  <1>2. run.full \in BOOLEAN /\ run.fresh
    BY <1>1, RunFacts DEF Fetching, Reading, CalendarRun
  <1>3. /\ Len(log) \in Nat /\ Len(log) <= MaxChanges /\ epoch \in 0..MaxExpiries /\ MaxChanges \in Nat
        /\ today \in 0..LastDay /\ today # None /\ alive \subseteq Event /\ rows \subseteq Event
    BY <1>1, CalendarConstants DEF CalendarTypes
  <1>4. /\ q = [left |-> q.left, at |-> Len(log), epoch |-> epoch, from |-> today, listing |-> TRUE, full |-> run.full]
        /\ q.left = {e \in alive : CalendarOf[e] = Here /\ InWindow(today, e)}
    BY DEF Listing
  <1>5. q \in PageState
    <2>1. PICK L : L = q.left
      OBVIOUS
    <2>2. L \in SUBSET Thing /\ Len(log) \in 0..MaxChanges
      BY <1>3, <1>4, <2>1 DEF Thing
    <2>3. q = [left |-> L, at |-> Len(log), epoch |-> epoch, from |-> today, listing |-> TRUE, full |-> run.full]
      BY <1>4, <2>1
    <2>4. QED
      BY <1>2, <1>3, <2>2, <2>3 DEF PageState
  <1>6. \A x \in q.left : CalendarOf[x] = Here /\ x \notin Master
    BY <1>3, <1>4, CalendarConstants
  <1>7. Asked(q)
    BY <1>3, <1>4, <1>5, <1>6 DEF Asked
  <1> SUFFICES ASSUME NEW xs, Answer(q, xs) PROVE Prepared(q, xs)
    BY <1>7
  <1>8. PICK X, X2, R2, u : /\ X = {x \in Event : IF run.full THEN x \notin run.touched /\ InWindow(today, x) ELSE x \in Doomed}
                            /\ X2 = HereDoomed' /\ R2 = HereRows' /\ u = HereUnit'
    OBVIOUS
  <1>9. /\ \A x \in Event : CalendarOf[x] = Here => (x \in X2 <=> x \in X /\ x \notin xs \cap alive)
        /\ run.full => u # None
    <2>1. PICK opens \in BOOLEAN : opens = (run.full /\ q.listing /\ (run.fresh \/ reconcile[Here] = None))
      OBVIOUS
    <2>2. (opens <=> run.full) /\ q.from = today
      BY <1>2, <1>4, <2>1
    <2>3. /\ u = IF opens THEN q.from ELSE reconcile[Here]
          /\ \A x \in Event : CalendarOf[x] = Here =>
               (x \in X2 <=> /\ x \notin xs \cap alive
                             /\ IF opens THEN x \notin run.touched /\ InWindow(q.from, x) ELSE x \in Doomed)
      BY <1>7, <1>8, <2>1, AnswerUnit
    <2>4. QED
      BY <1>3, <1>8, <2>2, <2>3
  <1>10. ASSUME NEW v, NEW c, NEW R, v = AskedView(q), c = Here, R = rows PROVE Faithful(v, c, R, X)'
    <2>1. v.at = Len(log) /\ v.from = today /\ v.left = q.left /\ v.series = My.series
      BY <1>4, <1>10 DEF AskedView
    <2> SUFFICES ASSUME NEW x \in Event, CalendarOf[x] = c, DayOf[x] >= today'
                 PROVE  (GoneTold(v, R, X, x) /\ ShownTold(v, R, X, x) /\ SeriesTold(v, R, X, x))'
      BY DEF Faithful
    <2>2. PICK gone, covered : /\ gone = {e \in rows \ alive : CalendarOf[e] = Here}
                               /\ covered = IF run.full THEN {e \in gone : InWindow(today, e)} ELSE {}
      OBVIOUS
    <2>3. /\ unlisted' = unlisted \cup (gone \ covered)
          /\ vouched' = vouched \cup (covered \cap run.touched)
          /\ forgotten' = forgotten \cup
               {e \in rows \ My.series : MasterOf[e] # None /\ CalendarOf[e] = Here /\ ~InWindow(today, e)}
      BY <2>2 DEF Opening
    <2>4. x \in alive /\ InWindow(today, x) => Leads(v, x)'
      BY <1>4, <1>10, <2>1 DEF Leads
    <2>5. GoneTold(v, R, X, x)'
      <3> SUFFICES ASSUME x \in R, x \notin alive, x \notin X PROVE x \in Excused'
        BY DEF GoneTold
      <3>1. x \in gone
        BY <1>10, <2>2
      <3>2. x \in covered => x \in run.touched
        BY <1>8, <2>2
      <3>3. QED
        BY <2>3, <3>1, <3>2 DEF Excused
    <2>6. ShownTold(v, R, X, x)'
      BY <2>1, <2>4 DEF ShownTold, InWindow
    <2>7. SeriesTold(v, R, X, x)'
      <3> SUFFICES ASSUME x \in R, x \in alive, MasterOf[x] # None, x \notin v.series, ~InWindow(today, x)
                   PROVE  x \in Excused'
        BY <2>4 DEF SeriesTold, InWindow
      <3>1. QED
        BY <1>10, <2>1, <2>3 DEF Excused
    <2>8. QED
      BY <2>5, <2>6, <2>7
  <1>11. ASSUME Here \in DOMAIN checkpoint, NEW st, st = checkpoint[Here], NEW c, NEW R, NEW Y
         PROVE  Kept(st, c, u, R, Y)
    <2>1. StoredHere(st)
      BY <1>1, <1>11 DEF Fetching
    <2>2. QED
      BY <1>1, <1>9, <2>1 DEF StoredHere, Kept, Truth, Asks
  <1>12. QED
    BY <1>8, <1>9, <1>10, <1>11 DEF Prepared

\* A page is fetched and folded into the state of its calendar.
LEMMA CalendarFetchStep == ASSUME SourcesAssumption, CalendarOK, Fetch PROVE CalendarOK'
  <1>0. /\ run.pc = "fetch" /\ Reading /\ Live(My.page) /\ Live(My.sync)
        /\ UNCHANGED <<alive, selected, log, epoch, today, rows, checkpoint, reconcile, touched, kills>>
    BY DEF Fetch, google, store, Reading
  <1>1. /\ CalendarTypes /\ CalendarStored /\ Others /\ run \in CalendarRun
        /\ run.states \in [DOMAIN run.states -> State] /\ DOMAIN run.states \subseteq Calendar
        /\ Here \in DOMAIN run.states /\ Here \in Calendar /\ Here = run.here
    BY <1>0, RunFacts
  <1>2. /\ unlisted \subseteq unlisted' /\ vouched \subseteq vouched' /\ forgotten \subseteq forgotten'
        /\ \E q : Asked(q) /\ Respond(q) /\ \A xs : Answer(q, xs) => Prepared(q, xs)
    <2>1. CASE My.page # None
      <3>1. Respond(My.page) /\ UNCHANGED <<unlisted, vouched, forgotten>>
        BY <2>1 DEF Fetch, history
      <3>2. PICK q : q = My.page
        OBVIOUS
      <3>3. QED
        BY <1>0, <2>1, <3>1, <3>2, CalendarContinue
    <2>2. CASE My.page = None /\ My.sync # None
      <3>1. Respond(Round(Here, My.sync, run.full)) /\ UNCHANGED <<unlisted, vouched, forgotten>>
        BY <2>2 DEF Fetch, history
      <3>2. PICK q : q = Round(Here, My.sync, run.full)
        OBVIOUS
      <3>3. QED
        BY <1>0, <2>2, <3>1, <3>2, CalendarRound
    <2>3. CASE My.page = None /\ My.sync = None
      <3>1. Respond(Listing(Here, run.full)) /\ Opening
        BY <2>3 DEF Fetch
      <3>2. PICK q : q = Listing(Here, run.full)
        OBVIOUS
      <3>3. Asked(q) /\ \A xs : Answer(q, xs) => Prepared(q, xs)
        BY <1>0, <2>3, <3>1, <3>2, CalendarListing
      <3>4. unlisted \subseteq unlisted' /\ vouched \subseteq vouched' /\ forgotten \subseteq forgotten'
        BY <3>1 DEF Opening
      <3>5. QED
        BY <3>1, <3>2, <3>3, <3>4
    <2>4. QED
      BY <2>1, <2>2, <2>3
  <1>3. PICK q : Asked(q) /\ Respond(q) /\ \A xs : Answer(q, xs) => Prepared(q, xs)
    BY <1>2
  <1>4. PICK xs : Answer(q, xs)
    BY <1>0, <1>3, Answered
  <1>5. Prepared(q, xs) /\ xs \subseteq q.left
    BY <1>3, <1>4 DEF Answer
  <1>6. PICK st : st = AfterPage(q, xs)
    OBVIOUS
  <1>7. /\ run' \in CalendarRun /\ run'.pc = "apply" /\ run'.here = run.here /\ run'.left = run.left
        /\ run'.full = run.full /\ run'.fresh = run.fresh /\ run'.touched = run.touched
        /\ run'.upserts = xs \cap alive /\ run'.deletes = Drops(xs)
        /\ run'.scope = (IF q.listing THEN q.from ELSE None)
        /\ run'.states = [run.states EXCEPT ![Here] = st] /\ Here' = Here /\ My' = st /\ Mine' = Mine
    BY <1>0, <1>3, <1>4, <1>6, AnswerRun
  <1>8. /\ Fits(st, Here) /\ Asks(st) /\ st \in State
        /\ st.page # None => st.page.full = run.full /\ st.page.from = q.from
    BY <1>0, <1>3, <1>5, <1>6, AnswerState DEF Fits
  <1>9. CalendarStored' /\ Doomed' = Doomed
    BY <1>0, <1>1, <1>2, CalendarStoredSame
  <1>10. CalendarTypes'
    BY <1>0, <1>1, <1>7 DEF CalendarTypes
  <1>11. Others'
    <2>1. /\ DOMAIN run'.states = DOMAIN run.states /\ run'.states[Here] = st
          /\ \A c \in DOMAIN run.states \ {Here} : run'.states[c] = run.states[c]
      BY <1>1, <1>7
    <2>2. \A c \in DOMAIN run.states : Fits(run'.states[c], c)
      BY <1>1, <1>8, <2>1 DEF Others
    <2>3. \A c \in DOMAIN run.states : \A s : s = run'.states[c] => Fits(s, c)'
      BY <1>0, <1>2, <2>2, StateSame
    <2>4. (\A c \in DOMAIN run.states : Fits(run.states[c], c))'
      BY <2>1, <2>3
    <2>5. \A c \in DOMAIN run.states \ {Here} : \A s : s = run.states[c] =>
            /\ HasUnit(s, reconcile[c])' /\ Kept(s, c, reconcile[c], rows, Doomed)'
            /\ c \notin run.left => s.page = None /\ s.sync # None /\ Truth(s, c, rows, Doomed)'
      BY <1>0, <1>1, <1>2, <1>9, StateSame DEF Others, HasUnit
    <2>6. (\A c \in DOMAIN run.states \ {Here} :
             /\ HasUnit(run.states[c], reconcile[c]) /\ Kept(run.states[c], c, reconcile[c], rows, Doomed)
             /\ c \notin run.left => run.states[c].page = None /\ run.states[c].sync # None /\ Truth(run.states[c], c, rows, Doomed))'
      BY <1>7, <2>1, <2>5
    <2>7. Here \in run.left /\ run.left \subseteq DOMAIN run.states
      BY <1>1 DEF Others
    <2>8. QED
      BY <1>7, <2>1, <2>4, <2>6, <2>7 DEF Others
  <1>12. Applying'
    <2>1. /\ Drops(xs) \subseteq Mine /\ Drops(xs) \cap alive = {} /\ xs \cap alive \subseteq Mine
      BY <1>0, <1>3, <1>5, DropsGone
    <2>2. run.full => q.listing /\ q.from # None
      <3>1. q.from # None /\ q.full = run.full
        BY <1>3, CalendarConstants DEF Asked, PageState
      <3>2. QED
        BY <1>3, <3>1 DEF Asked
    <2>3. HereRows' = (rows \ Drops(xs)) \cup (xs \cap alive)
      BY <1>7, <1>0 DEF HereRows
    <2>4. PICK R2, X2 : R2 = HereRows' /\ X2 = HereDoomed'
      OBVIOUS
    <2>5. Truth(My, Here, HereRows, HereDoomed)'
      <3>1. PICK v, c, R : v = AskedView(q) /\ c = Here /\ R = rows
        OBVIOUS
      <3>2. PICK X : /\ \A x \in Event : CalendarOf[x] = c => (x \in X2 <=> x \in X /\ x \notin xs \cap alive)
                     /\ Faithful(v, c, R, X)'
        BY <1>5, <2>4, <3>1 DEF Prepared
      <3>3. R2 = (R \ Drops(xs)) \cup (xs \cap alive)
        BY <2>3, <2>4, <3>1
      <3>4. Truth(st, c, R2, X2)'
        BY <1>0, <1>3, <1>4, <1>6, <3>1, <3>2, <3>3, CutFaithful
      <3>5. QED
        BY <1>7, <2>4, <3>1, <3>4
    <2>6. Here \in DOMAIN checkpoint => Kept(checkpoint[Here], Here, HereUnit, HereRows, HereDoomed)'
      <3>1. PICK cp, c, u : cp = checkpoint[Here] /\ c = Here /\ u = HereUnit'
        OBVIOUS
      <3>2. Here \in DOMAIN checkpoint => Kept(cp, c, u, R2, X2)
        BY <1>5, <2>4, <3>1 DEF Prepared
      <3>3. Here \in DOMAIN checkpoint => Kept(cp, c, u, R2, X2)'
        BY <1>0, <1>2, <3>2, StateSame
      <3>4. QED
        BY <1>0, <1>7, <2>4, <3>1, <3>3
    <2>7. QED
      BY <1>0, <1>7, <1>8, <2>1, <2>2, <2>5, <2>6 DEF Applying, Asks
  <1>13. QED
    BY <1>7, <1>9, <1>10, <1>11, <1>12 DEF CalendarOK, CalendarRunOK

\* Nothing is stored, nothing runs.
LEMMA CalendarInit == ASSUME SourcesAssumption, Init PROVE CalendarOK
  <1>1. checkpoint \in [{} -> State] /\ DOMAIN checkpoint = {}
    BY DEF Init
  <1>2. checkpoint \in States
    BY <1>1, StatesFacts
  <1>3. log = <<>> /\ Len(log) = 0 /\ log \in Seq(Thing \cup Calendar)
    BY DEF Init
  <1>4. reconcile \in [Calendar -> 0..LastDay \cup {None}]
    BY DEF Init
  <1>5. CalendarTypes
    BY <1>2, <1>3, <1>4, CalendarConstants DEF Init, CalendarTypes
  <1>6. CalendarStored
    BY <1>1 DEF CalendarStored
  <1>7. run.pc = "idle"
    BY DEF Init, Idle
  <1>8. CalendarRunOK
    BY <1>7 DEF CalendarRunOK, Reading
  <1>9. QED
    BY <1>5, <1>6, <1>8 DEF CalendarOK

\* The calendars' state as it was.
LEMMA CalendarStutter == ASSUME CalendarOK, UNCHANGED vars PROVE CalendarOK'
  <1>0. /\ UNCHANGED <<alive, selected, log, epoch, today, rows, checkpoint, reconcile, touched, run, kills>>
        /\ UNCHANGED <<unlisted, vouched, forgotten>>
    BY DEF vars, google, store, history
  <1>1. CalendarTypes'
    BY <1>0 DEF CalendarOK, CalendarTypes
  <1>2. CalendarStored' /\ Doomed' = Doomed
    BY <1>0, CalendarStoredSame DEF CalendarOK
  <1>3. /\ HereUnit' = HereUnit /\ HereRows' = HereRows /\ HereDoomed' = HereDoomed /\ Mine' = Mine
        /\ Here' = Here /\ My' = My
    BY <1>0, UnitSame DEF Here, My
  <1>4. \A st, c : /\ Fits(st, c)' = Fits(st, c) /\ Refused(st)' = Refused(st)
                   /\ \A R, X : Truth(st, c, R, X) => Truth(st, c, R, X)'
                   /\ \A unit, R, X : Kept(st, c, unit, R, X) => Kept(st, c, unit, R, X)'
    BY <1>0, StateSame
  <1>5. Others => Others'
    BY <1>0, <1>2, <1>3, <1>4 DEF Others, HasUnit
  <1>6. Fetching => Fetching'
    BY <1>0, <1>2, <1>3, <1>4 DEF Fetching, Declaring, StoredHere, Asks
  <1>7. Applying => Applying'
    BY <1>0, <1>2, <1>3, <1>4 DEF Applying, Asks
  <1>8. Saving => Saving'
    BY <1>0, <1>2, <1>3, <1>4 DEF Saving, Declaring, Asks
  <1>9. CalendarRunOK'
    BY <1>0, <1>2, <1>4, <1>5, <1>6, <1>7, <1>8 DEF CalendarOK, CalendarRunOK, Reading
  <1>10. QED
    BY <1>1, <1>2, <1>9 DEF CalendarOK

\* Every step of the Google source keeps its invariant.
LEMMA CalendarNext == ASSUME SourcesAssumption, CalendarOK, Next PROVE CalendarOK'
  BY CalendarGoogleStep, CalendarKillStep, CalendarStartStep, CalendarFetchStep, CalendarExpiredStep,
     CalendarRejectedStep, CalendarApplyStep, CalendarSaveStep, CalendarReconcileStep DEF Next, RunStep

\* With every selected calendar caught up nothing is pending, and nothing is
\* left that a view could lead to.
LEMMA CalendarMirrors == ASSUME SourcesAssumption, CalendarOK PROVE MirrorsCalendars
  <1> SUFFICES ASSUME CaughtUp, NEW e \in Event, CalendarOf[e] \in selected, DayOf[e] >= today
               PROVE  /\ e \in alive /\ InWindow(checkpoint[CalendarOf[e]].sync.from, e) => e \in rows
                      /\ e \in rows => e \in alive \cup unlisted \cup vouched \cup forgotten
    BY DEF MirrorsCalendars, Mirrors
  <1>1. PICK c, st : c = CalendarOf[e] /\ st = checkpoint[c]
    OBVIOUS
  <1>2. c \in DOMAIN checkpoint /\ reconcile[c] = None /\ st.page = None /\ st.sync # None /\ st.sync.at = Len(log)
    BY <1>1 DEF CaughtUp
  <1>3. Kept(st, c, reconcile[c], rows, Doomed)
    BY <1>1, <1>2 DEF CalendarOK, CalendarStored
  <1>4. Asks(st) /\ Truth(st, c, rows, Doomed)
    BY <1>2, <1>3 DEF Kept, Asks
  <1>5. PICK v : v = View(st)
    OBVIOUS
  <1>6. v.at = Len(log) /\ v.left = {} /\ v.from = st.sync.from
    BY <1>2, <1>5 DEF View
  <1>7. \A x : ~Leads(v, x)
    <2>1. Len(log) \in Nat
      BY DEF CalendarOK, CalendarTypes
    <2>2. QED
      BY <1>6, <2>1 DEF Leads, Logged
  <1>8. GoneTold(v, rows, Doomed, e) /\ ShownTold(v, rows, Doomed, e)
    BY <1>1, <1>4, <1>5 DEF Truth, Faithful
  <1>9. e \notin Doomed
    BY <1>1, <1>2 DEF Doomed
  <1>10. QED
    BY <1>1, <1>6, <1>7, <1>8, <1>9 DEF GoneTold, ShownTold, LeadsBySeries, Excused

-----------------------------------------------------------------------------
(***************************************************************************)
(* Both kinds of source.                                                   *)
(***************************************************************************)
SourcesOK == IF ofGoogle THEN CalendarOK ELSE DeltaOK

\* A source that has caught up has the rows its provider shows: the delta
\* sources item by item, the Google calendars with the instances of their
\* series; whatever expired, was cancelled, deselected or killed on the way, and
\* but for the rows that were gone before a listing that could not tell.
THEOREM MirrorsSourceHolds == SourcesSpec => []MirrorsSource
  <1>1. SourcesAssumption
    BY SourcesAssumption
  <1>2. SourcesInit => SourcesOK
    BY <1>1, CalendarInit, DeltaInit DEF SourcesInit, SourcesOK
  <1>3. SourcesOK /\ [SourcesNext]_allVars => SourcesOK'
    <2> SUFFICES ASSUME SourcesOK, [SourcesNext]_allVars PROVE SourcesOK'
      OBVIOUS
    <2>1. CASE ofGoogle /\ Next /\ UNCHANGED <<ofGoogle, source>>
      BY <1>1, <2>1, CalendarNext DEF SourcesOK
    <2>2. CASE ~ofGoogle /\ D!Next /\ UNCHANGED <<ofGoogle, selected, forgotten>>
      BY <1>1, <2>2, DeltaNext DEF SourcesOK
    <2>3. CASE UNCHANGED allVars
      <3>1. UNCHANGED <<vars, ofGoogle, source>> /\ UNCHANGED D!vars
        BY <2>3 DEF allVars, vars, google, store, history, D!vars, D!provider, D!history
      <3>2. QED
        BY <3>1, CalendarStutter, DeltaStutter DEF SourcesOK
    <2>4. QED
      BY <2>1, <2>2, <2>3 DEF SourcesNext
  <1>4. SourcesOK => MirrorsSource
    BY <1>1, CalendarMirrors, DeltaMirrors DEF SourcesOK, MirrorsSource
  <1>5. QED
    BY <1>2, <1>3, <1>4, PTL DEF SourcesSpec
=============================================================================
