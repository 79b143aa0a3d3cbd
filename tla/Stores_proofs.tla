---------------------------- MODULE Stores_proofs ----------------------------
(***************************************************************************)
(* The two stores are one: deletions with all that goes with them, the     *)
(* context of things, every step of SpineStore, and what follows for any   *)
(* number of calls.  Then the people rows: nobody is left twice in the     *)
(* list by a race, and merging people keeps every message linked, for any  *)
(* number of syncs, messages, addresses and people.                        *)
(***************************************************************************)
EXTENDS Stores, StoreRows_proofs
-----------------------------------------------------------------------------
(***************************************************************************)
(* Deletions: the rows named, what is about them, and what is about that.  *)
(***************************************************************************)
Deletable == {"mail_messages", "money_transactions", "time_events"}
Unfocused(row, gone) ==
  IF FocusFromRow(row) \in gone THEN Over(FocusToRow(None), row) ELSE row
IdsOf(db, t, keys) == {db[t][k].id : k \in keys}
Gone(db, t, keys) == S!WithDependents([db EXCEPT ![t] = Without(@, keys)], IdsOf(db, t, keys))
About(db, u, gone) == {k \in DOMAIN db[u] : db[u][k].id \in gone}
Touching(db, gone) == {e \in DOMAIN db.relationships : e.from \in gone \/ e.to \in gone}
Left(db, t, keys, gone) ==
  [u \in Tables |->
     CASE u = t -> Without(db[u], keys)
       [] u \in Derived -> Without(db[u], About(db, u, gone))
       [] u = "relationships" -> Without(db[u], Touching(db, gone))
       [] u = "handoffs" -> [k \in DOMAIN db[u] |-> Unfocused(db[u][k], gone)]
       [] OTHER -> db[u]]

LEMMA WithoutIs ==
  ASSUME NEW f, NEW K
  PROVE  /\ Without(f, K) = [k \in DOMAIN f \ K |-> f[k]]
         /\ DOMAIN Without(f, K) = DOMAIN f \ K
         /\ \A k \in DOMAIN f \ K : Without(f, K)[k] = f[k]
BY DEF Without, Restrict

LEMMA DeletableIs ==
  ASSUME NEW t \in Deletable
  PROVE  /\ t \in Tables /\ t \notin Derived /\ t # "relationships" /\ t # "handoffs" /\ t # "people"
         /\ t # "connector_accounts" /\ t # "devices" /\ t # "documents" /\ t # "threads"
         /\ Derived \subseteq Tables /\ {"relationships", "handoffs", "people", "documents",
                                         "connector_accounts", "devices", "threads"} \subseteq Tables
         /\ "relationships" \notin Derived /\ "handoffs" \notin Derived
         /\ "context_events" \in Derived /\ "conclusions" \in Derived
         /\ "people" \notin Derived /\ "documents" \notin Derived /\ "connector_accounts" \notin Derived
         /\ "devices" \notin Derived /\ "threads" \notin Derived
BY DEF Deletable, Tables, Derived

LEMMA DeleteIs ==
  ASSUME NEW db, DbType(db), NEW t \in Deletable, NEW keys
  PROVE  S!Delete(db, t, keys) = Left(db, t, keys, Gone(db, t, keys))
<1> DEFINE mid == [db EXCEPT ![t] = Without(@, keys)]
           refs == IdsOf(db, t, keys)
           gone == Gone(db, t, keys)
           Kept(table) == Without(table, {k \in DOMAIN table : table[k].id \in gone})
           after == [mid EXCEPT
                      !.context_events = Kept(@), !.conclusions = Kept(@),
                      !.relationships = Without(@, {e \in DOMAIN @ : e.from \in gone \/ e.to \in gone}),
                      !.handoffs = [k \in DOMAIN @ |-> Unfocused(@[k], gone)]]
           left == Left(db, t, keys, gone)
<1>1. S!Delete(db, t, keys) = after
  <2>1. S!WithDependents(mid, refs) = gone
    BY DEF Gone
  <2>2. S!Delete(db, t, keys) = S!OnEntityDeleted(mid, refs)
    BY SameHelpers DEF S!Delete, IdsOf
  <2> HIDE DEF mid, refs, gone
  <2>3. S!OnEntityDeleted(mid, refs) = after
    BY <2>1, SameHelpers, SameFocus DEF S!OnEntityDeleted, Unfocused
  <2> QED BY <2>2, <2>3
<1>2. DOMAIN db = Tables
  BY DEF DbType
<1>3. /\ DOMAIN mid = Tables /\ mid[t] = Without(db[t], keys) /\ \A u \in Tables \ {t} : mid[u] = db[u]
  BY <1>2, DeletableIs
<1> HIDE DEF mid, gone
<1>4. DOMAIN after = Tables /\ after = [u \in Tables |-> after[u]]
  BY <1>3
<1>5. /\ after["context_events"] = Kept(mid["context_events"])
      /\ after["conclusions"] = Kept(mid["conclusions"])
      /\ after["relationships"] = Without(mid["relationships"],
           {e \in DOMAIN mid["relationships"] : e.from \in gone \/ e.to \in gone})
      /\ after["handoffs"] = [k \in DOMAIN mid["handoffs"] |-> Unfocused(mid["handoffs"][k], gone)]
      /\ \A u \in Tables \ {"context_events", "conclusions", "relationships", "handoffs"} :
           after[u] = mid[u]
  BY <1>3, DeletableIs
<1>6. ASSUME NEW u \in Tables
      PROVE  after[u] = left[u]
  <2> HIDE DEF after
  <2>1. CASE u = t
    BY <1>3, <1>5, <2>1, DeletableIs DEF Left, Derived
  <2>2. CASE u \in Derived
    <3>1. mid[u] = db[u] /\ after[u] = Kept(mid[u])
      BY <1>3, <1>5, <2>2, DeletableIs DEF Derived
    <3>2. left[u] = Without(db[u], About(db, u, gone))
      BY <2>2, DeletableIs DEF Left
    <3> QED BY <3>1, <3>2 DEF About
  <2>3. CASE u = "relationships"
    <3>1. mid[u] = db[u]
      BY <1>3, <2>3, DeletableIs
    <3>2. left[u] = Without(db[u], Touching(db, gone))
      BY <2>3, DeletableIs DEF Left
    <3> QED BY <1>5, <2>3, <3>1, <3>2 DEF Touching
  <2>4. CASE u = "handoffs"
    <3>1. mid[u] = db[u]
      BY <1>3, <2>4, DeletableIs
    <3>2. left[u] = [k \in DOMAIN db[u] |-> Unfocused(db[u][k], gone)]
      BY <2>4, DeletableIs DEF Left
    <3> QED BY <1>5, <2>4, <3>1, <3>2
  <2>5. CASE u \notin {t, "relationships", "handoffs"} \cup Derived
    BY <1>3, <1>5, <2>5 DEF Left, Derived
  <2> QED BY <2>1, <2>2, <2>3, <2>4, <2>5
<1>7. left = [u \in Tables |-> left[u]]
  BY DEF Left
<1>8. after = left
  <2> HIDE DEF after, left
  <2> QED BY <1>4, <1>6, <1>7
<1> QED BY <1>1, <1>8 DEF gone

\* No two rows have one id.
LEMMA IdsDiffer ==
  ASSUME NEW db, DbType(db), NEW t \in Tables, NEW u \in Tables, NEW k \in DOMAIN db[t],
         NEW l \in DOMAIN db[u], db[t][k].id = db[u][l].id
  PROVE  t = u /\ k = l
<1>1. RowType(t, k, db[t][k]) /\ RowType(u, l, db[u][l])
  BY DEF DbType, TableType
<1> QED BY <1>1 DEF RowType

LEMMA IdNames ==
  ASSUME NEW db, DbType(db), NEW t \in Tables, NEW k \in DOMAIN db[t]
  PROVE  db[t][k].id[1] = t
<1>1. RowType(t, k, db[t][k])
  BY DEF DbType, TableType
<1> QED BY <1>1 DEF RowType

LEMMA GoneIs ==
  ASSUME NEW db, DbType(db), NEW t \in Deletable, NEW keys \in SUBSET DOMAIN db[t]
  PROVE  LET gone == Gone(db, t, keys)
             refs == IdsOf(db, t, keys)
         IN /\ refs \subseteq gone
            /\ \A u \in Derived : \A k \in DOMAIN db[u] :
                 S!Subject(db[u][k]) \in gone => db[u][k].id \in gone
            /\ \A id \in gone : id[1] \in Derived \cup {t}
            /\ \A id \in gone : id[1] \notin Derived => id \in refs
            /\ Flat(db) => \A u \in Derived : \A k \in DOMAIN db[u] :
                             db[u][k].id \in gone => S!Subject(db[u][k]) \in refs
<1> DEFINE mid == [db EXCEPT ![t] = Without(@, keys)]
           refs == IdsOf(db, t, keys)
           gone == Gone(db, t, keys)
           events == RowIds(db["context_events"])
           made == RowIds(db["conclusions"])
<1>1. mid["context_events"] = db["context_events"] /\ mid["conclusions"] = db["conclusions"]
      /\ \A u \in Derived : mid[u] = db[u]
  BY DeletableIs DEF Derived
<1>2. /\ refs \subseteq gone
      /\ \A u \in Derived : \A k \in DOMAIN mid[u] : S!Subject(mid[u][k]) \in gone => mid[u][k].id \in gone
      /\ gone \subseteq refs \cup RowIds(mid["context_events"]) \cup RowIds(mid["conclusions"])
  <2> HIDE DEF mid, refs
  <2>1. gone = S!WithDependents(mid, refs)
    BY DEF Gone, mid, refs
  <2> HIDE DEF gone
  <2> QED BY <2>1, DependentsClosed
<1>3. /\ \A u \in Derived : \A k \in DOMAIN db[u] : S!Subject(db[u][k]) \in gone => db[u][k].id \in gone
      /\ gone \subseteq refs \cup events \cup made
  BY <1>1, <1>2
<1>4. \A id \in refs : id[1] = t
  BY DeletableIs, IdNames DEF IdsOf
<1>5. \A id \in events \cup made : id[1] \in Derived
  BY DeletableIs, IdNames DEF RowIds
<1>6. /\ \A id \in gone : id[1] \in Derived \cup {t}
      /\ \A id \in gone : id[1] \notin Derived => id \in refs
  BY <1>3, <1>4, <1>5
<1>7. ASSUME Flat(db), NEW u \in Derived, NEW k \in DOMAIN db[u], db[u][k].id \in gone
      PROVE  S!Subject(db[u][k]) \in refs
  <2> DEFINE OfType(v) == {db[v][l].id : l \in {l \in DOMAIN db[v] : S!Subject(db[v][l]) \in refs}}
             some == refs \cup OfType("context_events") \cup OfType("conclusions")
  <2>1. \A v \in Derived : \A l \in DOMAIN db[v] : S!Subject(db[v][l])[1] \notin Derived
    BY <1>7, SubjectIs DEF Flat, Ref
  <2>2. \A id \in some : id[1] \in Derived \/ id \in refs
    BY DeletableIs, IdNames
  <2>3. \A v \in Derived : \A l \in DOMAIN db[v] : S!Subject(db[v][l]) \in some => S!Subject(db[v][l]) \in refs
    BY <2>1, <2>2
  <2>4. some \subseteq refs \cup events \cup made /\ refs \subseteq some
    BY DEF RowIds
  <2>5. ASSUME NEW v \in Derived, NEW l \in DOMAIN db[v], S!Subject(db[v][l]) \in some
        PROVE  db[v][l].id \in some
    <3>1. S!Subject(db[v][l]) \in refs
      BY <2>3, <2>5
    <3>2. db[v][l].id \in OfType(v)
      BY <3>1
    <3> QED BY <3>2 DEF Derived
  <2>6. gone \subseteq some
    <3> DEFINE Reached(v, g) == {db[v][l].id : l \in {l \in DOMAIN db[v] : S!Subject(db[v][l]) \in g}}
               all == refs \cup events \cup made
               complete == {g \in SUBSET all :
                     refs \subseteq g /\ Reached("context_events", g) \cup Reached("conclusions", g) \subseteq g}
    <3>1. gone = {id \in all : \A g \in complete : id \in g}
      BY <1>1, SameHelpers DEF Gone, S!WithDependents
    <3>2. Reached("context_events", some) \subseteq some /\ Reached("conclusions", some) \subseteq some
      <4>1. "context_events" \in Derived /\ "conclusions" \in Derived
        BY DEF Derived
      <4> HIDE DEF some
      <4> QED BY <2>5, <4>1
    <3>3. some \in complete
      <4> HIDE DEF some, Reached
      <4> QED BY <2>4, <3>2
    <3> HIDE DEF complete, some, gone
    <3> QED BY <3>1, <3>3
  <2>7. db[u][k].id \in some
    BY <1>7, <2>6
  <2>8. db[u][k].id \notin refs
    BY <1>4, DeletableIs, IdNames
  <2>9. PICK v \in Derived : \E l \in DOMAIN db[v] : S!Subject(db[v][l]) \in refs /\ db[u][k].id = db[v][l].id
    BY <2>7, <2>8, DeletableIs
  <2>10. PICK l \in DOMAIN db[v] : S!Subject(db[v][l]) \in refs /\ db[u][k].id = db[v][l].id
    BY <2>9
  <2>11. u = v /\ k = l
    BY <2>10, DeletableIs, IdsDiffer
  <2> QED BY <2>10, <2>11
<1> QED BY <1>2, <1>3, <1>6, <1>7

LEMMA LeftTables ==
  ASSUME NEW db, DbType(db), NEW t \in Deletable, NEW keys \in SUBSET DOMAIN db[t], NEW gone
  PROVE  LET left == Left(db, t, keys, gone)
         IN /\ left[t] = Without(db[t], keys)
            /\ \A u \in Derived : left[u] = Without(db[u], About(db, u, gone))
            /\ left["relationships"] = Without(db["relationships"], Touching(db, gone))
            /\ left["handoffs"] = [k \in DOMAIN db["handoffs"] |-> Unfocused(db["handoffs"][k], gone)]
            /\ \A u \in Tables \ ({t, "relationships", "handoffs"} \cup Derived) : left[u] = db[u]
            /\ left = [u \in Tables |-> left[u]]
<1> DEFINE left == Left(db, t, keys, gone)
<1>1. left[t] = Without(db[t], keys)
  BY DeletableIs DEF Left
<1>2. \A u \in Derived : left[u] = Without(db[u], About(db, u, gone))
  BY DeletableIs DEF Left
<1>3. left["relationships"] = Without(db["relationships"], Touching(db, gone))
  BY DeletableIs DEF Left
<1>4. left["handoffs"] = [k \in DOMAIN db["handoffs"] |-> Unfocused(db["handoffs"][k], gone)]
  BY DeletableIs DEF Left
<1>5. \A u \in Tables \ ({t, "relationships", "handoffs"} \cup Derived) : left[u] = db[u]
  BY DEF Left
<1>6. left = [u \in Tables |-> left[u]]
  BY DEF Left
<1> QED BY <1>1, <1>2, <1>3, <1>4, <1>5, <1>6

\* A handoff that loses its focus keeps the rest.
LEMMA UnfocusedIs ==
  ASSUME NEW k, NEW row, RowType("handoffs", k, row), NEW gone
  PROVE  /\ RowType("handoffs", k, Unfocused(row, gone)) /\ Unfocused(row, gone).id = row.id
         /\ Unfocused(row, gone).sourceDeviceId = row.sourceDeviceId
         /\ FocusFromRow(row) \notin gone => Unfocused(row, gone) = row
         /\ FocusFromRow(row) \in gone => FocusFromRow(Unfocused(row, gone)) = None
<1>1. CASE FocusFromRow(row) \notin gone
  BY <1>1 DEF Unfocused
<1>2. CASE FocusFromRow(row) \in gone
  <2> DEFINE cols == {"id", "createdAt", "sourceDeviceId", "state", "focusType", "focusId"}
             some == Unfocused(row, gone)
             none == [focusType |-> None, focusId |-> None]
  <2>1. some = Over(none, row)
    BY <1>2 DEF Unfocused, FocusToRow
  <2>2. Columns("handoffs") = cols /\ DOMAIN row = cols
    BY ColumnsOf DEF RowType
  <2>3. /\ some = [c \in cols |-> some[c]] /\ some["focusType"] = None /\ some["focusId"] = None
        /\ \A c \in cols \ {"focusType", "focusId"} : some[c] = row[c]
    BY <2>1, <2>2 DEF Over
  <2>4. FocusFromRow(some) = None
    <3> HIDE DEF some
    <3> QED BY <2>3 DEF FocusFromRow
  <2>5. RowType("handoffs", k, some)
    <3> HIDE DEF some
    <3> QED BY <2>2, <2>3 DEF RowType
  <2> HIDE DEF some
  <2> QED BY <1>2, <2>3, <2>4, <2>5 DEF some
<1> QED BY <1>1, <1>2

LEMMA FewerRows ==
  ASSUME NEW t, NEW rows, TableType(t, rows), NEW keys
  PROVE  TableType(t, Without(rows, keys))
<1>1. /\ Without(rows, keys) = [k \in DOMAIN rows \ keys |-> rows[k]]
      /\ DOMAIN Without(rows, keys) = DOMAIN rows \ keys
      /\ \A k \in DOMAIN rows \ keys : Without(rows, keys)[k] = rows[k]
  BY WithoutIs
<1>2. IsFiniteSet(DOMAIN rows \ keys)
  BY FS_Subset DEF TableType
<1>3. \A k \in DOMAIN rows \ keys : RowType(t, k, rows[k])
  BY DEF TableType
<1> QED BY <1>1, <1>2, <1>3 DEF TableType

LEMMA LeftType ==
  ASSUME NEW db, DbType(db), NEW t \in Deletable, NEW keys \in SUBSET DOMAIN db[t], NEW gone
  PROVE  DbType(Left(db, t, keys, gone))
<1> DEFINE left == Left(db, t, keys, gone)
<1>1. \A u \in Tables : TableType(u, db[u])
  BY DEF DbType
<1>2. /\ left[t] = Without(db[t], keys)
      /\ \A u \in Derived : left[u] = Without(db[u], About(db, u, gone))
      /\ left["relationships"] = Without(db["relationships"], Touching(db, gone))
      /\ left["handoffs"] = [k \in DOMAIN db["handoffs"] |-> Unfocused(db["handoffs"][k], gone)]
      /\ \A u \in Tables \ ({t, "relationships", "handoffs"} \cup Derived) : left[u] = db[u]
      /\ left = [u \in Tables |-> left[u]]
  BY LeftTables
<1> HIDE DEF left
<1>3. ASSUME NEW u \in Tables PROVE TableType(u, left[u])
  <2>1. CASE u = t \/ u \in Derived \/ u = "relationships"
    BY <1>1, <1>2, <2>1, FewerRows
  <2>2. CASE u = "handoffs"
    <3> DEFINE rows == db["handoffs"]
               less == [k \in DOMAIN rows |-> Unfocused(rows[k], gone)]
    <3>1. IsFiniteSet(DOMAIN rows) /\ \A k \in DOMAIN rows : RowType("handoffs", k, rows[k])
      BY <1>1, <2>2 DEF TableType
    <3>2. \A k \in DOMAIN rows : RowType("handoffs", k, less[k])
      BY <3>1, UnfocusedIs
    <3>3. TableType("handoffs", less)
      BY <3>1, <3>2 DEF TableType
    <3> QED BY <1>2, <2>2, <3>3
  <2>3. CASE u \in Tables \ ({t, "relationships", "handoffs"} \cup Derived)
    BY <1>1, <1>2, <2>3
  <2> QED BY <2>1, <2>2, <2>3
<1>4. DbType(left)
  BY <1>2, <1>3 DEF DbType
<1> QED BY <1>4 DEF left

\* What is not gone still exists.
LEMMA StillThere ==
  ASSUME NEW db, DbType(db), NEW t \in Deletable, NEW keys \in SUBSET DOMAIN db[t],
         NEW ref, S!EntityExists(db, ref), ref \notin Gone(db, t, keys)
  PROVE  S!EntityExists(Left(db, t, keys, Gone(db, t, keys)), ref)
<1> DEFINE gone == Gone(db, t, keys)
           left == Left(db, t, keys, gone)
           u == ref[1]
<1>1. u \in S!EntityTables /\ ref \in RowIds(db[u])
  BY SameHelpers DEF S!EntityExists
<1>2. u \in Tables /\ u # "relationships"
  BY <1>1 DEF S!EntityTables, Tables
<1>3. PICK k \in DOMAIN db[u] : ref = db[u][k].id
  BY <1>1 DEF RowIds
<1>4. /\ left[t] = Without(db[t], keys)
      /\ \A v \in Derived : left[v] = Without(db[v], About(db, v, gone))
      /\ left["handoffs"] = [l \in DOMAIN db["handoffs"] |-> Unfocused(db["handoffs"][l], gone)]
      /\ \A v \in Tables \ ({t, "relationships", "handoffs"} \cup Derived) : left[v] = db[v]
  BY LeftTables
<1>5. IdsOf(db, t, keys) \subseteq gone
  BY GoneIs
<1> HIDE DEF left, gone
<1>6. k \in DOMAIN left[u] /\ left[u][k].id = ref
  <2>1. CASE u = t
    <3>1. k \notin keys
      BY <1>3, <1>5, <2>1 DEF IdsOf, gone
    <3>2. left[u] = Without(db[u], keys)
      BY <1>4, <2>1
    <3>3. Without(db[u], keys)[k] = db[u][k] /\ k \in DOMAIN Without(db[u], keys)
      BY <1>3, <3>1 DEF Without, Restrict
    <3> QED BY <1>3, <3>2, <3>3
  <2>2. CASE u \in Derived
    <3>1. k \notin About(db, u, gone)
      BY <1>3 DEF About, gone
    <3>2. left[u] = Without(db[u], About(db, u, gone))
      BY <1>4, <2>2
    <3>3. Without(db[u], About(db, u, gone))[k] = db[u][k] /\ k \in DOMAIN Without(db[u], About(db, u, gone))
      BY <1>3, <3>1 DEF Without, Restrict
    <3> QED BY <1>3, <3>2, <3>3
  <2>3. CASE u = "handoffs"
    <3>1. RowType("handoffs", k, db["handoffs"][k])
      BY <1>2, <1>3, <2>3 DEF DbType, TableType
    <3>2. Unfocused(db["handoffs"][k], gone).id = db["handoffs"][k].id
      BY <3>1, UnfocusedIs
    <3>3. k \in DOMAIN left["handoffs"] /\ left["handoffs"][k] = Unfocused(db["handoffs"][k], gone)
      BY <1>3, <1>4, <2>3
    <3> QED BY <1>3, <2>3, <3>2, <3>3
  <2>4. CASE u \notin {t, "handoffs"} \cup Derived
    BY <1>2, <1>3, <1>4, <2>4
  <2> QED BY <2>1, <2>2, <2>3, <2>4
<1>7. ref \in RowIds(left[u])
  <2> HIDE DEF u
  <2> QED BY <1>6 DEF RowIds
<1>8. S!EntityExists(left, ref)
  BY <1>1, <1>7, SameHelpers DEF S!EntityExists
<1> QED BY <1>8 DEF left, gone

LEMMA LeftValid ==
  ASSUME NEW db, DbInv(db), NEW t \in Deletable, NEW keys \in SUBSET DOMAIN db[t],
         NEW u \in Tables, NEW k \in DOMAIN Left(db, t, keys, Gone(db, t, keys))[u]
  PROVE  LET left == Left(db, t, keys, Gone(db, t, keys))
         IN S!Valid(left, u, k, left[u][k])
<1> DEFINE gone == Gone(db, t, keys)
           left == Left(db, t, keys, gone)
           row == left[u][k]
<1>1. DbType(db) /\ AllValid(db)
  BY DEF DbInv
<1>2. /\ left[t] = Without(db[t], keys)
      /\ \A v \in Derived : left[v] = Without(db[v], About(db, v, gone))
      /\ left["relationships"] = Without(db["relationships"], Touching(db, gone))
      /\ left["handoffs"] = [l \in DOMAIN db["handoffs"] |-> Unfocused(db["handoffs"][l], gone)]
      /\ \A v \in Tables \ ({t, "relationships", "handoffs"} \cup Derived) : left[v] = db[v]
  <2> HIDE DEF gone
  <2> QED BY <1>1, LeftTables
<1>3. /\ left["people"] = db["people"] /\ left["documents"] = db["documents"]
      /\ left["connector_accounts"] = db["connector_accounts"] /\ left["devices"] = db["devices"]
  BY <1>2, DeletableIs
<1>4. /\ \A v \in Derived : \A l \in DOMAIN db[v] :
           S!Subject(db[v][l]) \in gone => db[v][l].id \in gone
  BY <1>1, GoneIs
<1>5. \A ref : S!EntityExists(db, ref) /\ ref \notin gone => S!EntityExists(left, ref)
  BY <1>1, StillThere
<1>6. k \in DOMAIN left[u]
  OBVIOUS
<1>7. \A v \in Tables : \A l \in DOMAIN db[v] : S!Valid(db, v, l, db[v][l])
  BY <1>1 DEF AllValid
<1> HIDE DEF left, gone
<1>8. CASE u \in Derived
  <2>0. left[u] = Without(db[u], About(db, u, gone))
    BY <1>2, <1>8
  <2>1. k \in DOMAIN db[u] \ About(db, u, gone) /\ row = db[u][k]
    BY <1>6, <2>0 DEF Without, Restrict
  <2>2. S!Subject(row) \notin gone
    BY <1>4, <1>8, <2>1 DEF About
  <2>3. S!Valid(db, u, k, row)
    BY <1>7, <2>1
  <2> HIDE DEF row
  <2>4. u \in {"context_events", "conclusions"}
    BY <1>8 DEF Derived
  <2>5. S!EntityExists(db, S!Subject(row)) /\ (u = "context_events" => row.importance \in 0..100)
    BY <2>3, <2>4 DEF S!Valid
  <2>6. S!EntityExists(left, S!Subject(row))
    BY <1>5, <2>2, <2>5
  <2>7. S!Valid(left, u, k, row)
    BY <2>4, <2>5, <2>6 DEF S!Valid
  <2> QED BY <2>7 DEF row, left, gone
<1>9. CASE u = "relationships"
  <2>1. k \in DOMAIN db[u] \ Touching(db, gone) /\ row = db[u][k]
    BY <1>2, <1>6, <1>9 DEF Without, Restrict
  <2>2. k.from \notin gone /\ k.to \notin gone
    BY <1>9, <2>1 DEF Touching
  <2>3. S!Valid(db, u, k, row)
    BY <1>7, <2>1
  <2> HIDE DEF row
  <2>4. S!EntityExists(db, k.from) /\ S!EntityExists(db, k.to) /\ k.from # k.to
    BY <1>9, <2>3 DEF S!Valid
  <2>5. S!Valid(left, u, k, row)
    BY <1>5, <1>9, <2>2, <2>4 DEF S!Valid
  <2> QED BY <2>5 DEF row, left, gone
<1>10. CASE u = "handoffs"
  <2> DEFINE old == db["handoffs"][k]
  <2>1. k \in DOMAIN db["handoffs"] /\ row = Unfocused(old, gone)
    BY <1>2, <1>6, <1>10
  <2>2. RowType("handoffs", k, old) /\ S!Valid(db, "handoffs", k, old)
    BY <1>1, <1>7, <1>10, <2>1 DEF DbType, TableType
  <2> HIDE DEF old, row
  <2>3. /\ old.sourceDeviceId \in DOMAIN db["devices"]
        /\ FocusFromRow(old) = None \/ S!EntityExists(db, FocusFromRow(old))
    BY <2>2, SameFocus DEF S!Valid
  <2>4. /\ row.sourceDeviceId = old.sourceDeviceId
        /\ FocusFromRow(old) \notin gone => row = old
        /\ FocusFromRow(old) \in gone => FocusFromRow(row) = None
    BY <2>1, <2>2, UnfocusedIs
  <2>5. FocusFromRow(row) = None \/ S!EntityExists(left, FocusFromRow(row))
    BY <1>5, <2>3, <2>4
  <2>6. S!Valid(left, "handoffs", k, row)
    BY <1>3, <2>3, <2>4, <2>5, SameFocus DEF S!Valid
  <2> QED BY <1>10, <2>6 DEF row, left, gone
<1>11. CASE u \notin Derived \cup {"relationships", "handoffs"}
  <2>1. k \in DOMAIN db[u] /\ row = db[u][k]
    <3>1. CASE u = t
      <4>1. k \in DOMAIN db[t] \ keys /\ left[t][k] = db[t][k]
        BY <1>2, <1>6, <3>1 DEF Without, Restrict
      <4> QED BY <3>1, <4>1
    <3>2. CASE u # t
      BY <1>2, <1>6, <1>11, <3>2
    <3> QED BY <3>1, <3>2
  <2>2. S!Valid(db, u, k, row)
    BY <1>7, <2>1
  <2>3. \A id : /\ S!Refers(db, "people", id) => S!Refers(left, "people", id)
                /\ S!Refers(db, "documents", id) => S!Refers(left, "documents", id)
    BY <1>3, SameHelpers DEF S!Refers
  <2> HIDE DEF row
  <2>4. S!Valid(left, u, k, row)
    <3>1. CASE u \in {"mail_messages", "money_accounts", "people", "ingest_items"}
      BY <1>3, <2>2, <2>3, <3>1 DEF S!Valid
    <3>2. CASE u \in {"money_transactions", "time_events", "sync_states", "person_identities"}
      BY <1>3, <2>2, <3>2 DEF S!Valid
    <3>3. CASE u \in {"threads", "documents", "connector_accounts", "devices", "action_requests"}
      BY <3>3 DEF S!Valid
    <3> QED BY <1>11, <3>1, <3>2, <3>3 DEF Tables, Derived
  <2> QED BY <2>4 DEF row, left, gone
<1> QED BY <1>8, <1>9, <1>10, <1>11

LEMMA DeleteKeeps ==
  ASSUME NEW db, DbInv(db), NEW t \in Deletable, NEW keys \in SUBSET DOMAIN db[t]
  PROVE  /\ DbInv(S!Delete(db, t, keys)) /\ (Flat(db) => Flat(S!Delete(db, t, keys)))
<1> DEFINE gone == Gone(db, t, keys)
           left == Left(db, t, keys, gone)
<1>1. DbType(db) /\ FirstRef \in RowIds(db["people"]) /\ Account \subseteq DOMAIN db["connector_accounts"]
  BY DEF DbInv
<1>2. S!Delete(db, t, keys) = left
  BY <1>1, DeleteIs
<1>3. DbType(left)
  BY <1>1, LeftType
<1>4. AllValid(left)
  <2>1. \A u \in Tables : \A k \in DOMAIN left[u] : S!Valid(left, u, k, left[u][k])
    BY LeftValid
  <2> HIDE DEF left
  <2> QED BY <2>1 DEF AllValid
<1>5. /\ left[t] = Without(db[t], keys)
      /\ \A v \in Derived : left[v] = Without(db[v], About(db, v, gone))
      /\ left["relationships"] = Without(db["relationships"], Touching(db, gone))
      /\ left["handoffs"] = [l \in DOMAIN db["handoffs"] |-> Unfocused(db["handoffs"][l], gone)]
      /\ \A v \in Tables \ ({t, "relationships", "handoffs"} \cup Derived) : left[v] = db[v]
  <2> HIDE DEF gone
  <2> QED BY <1>1, LeftTables
<1> HIDE DEF left, gone
<1>6. left["people"] = db["people"] /\ left["connector_accounts"] = db["connector_accounts"]
  BY <1>5, DeletableIs
<1>7. DbInv(left)
  BY <1>1, <1>3, <1>4, <1>6 DEF DbInv
<1>8. ASSUME Flat(db) PROVE Flat(left)
  <2>1. ASSUME NEW v \in Derived, NEW k \in DOMAIN left[v]
        PROVE  left[v][k].subjectType \notin Derived
    <3>0. left[v] = Without(db[v], About(db, v, gone)) /\ k \in DOMAIN left[v]
      BY <1>5, <2>1
    <3>1. k \in DOMAIN db[v] /\ left[v][k] = db[v][k]
      BY <3>0 DEF Without, Restrict
    <3> QED BY <1>8, <3>1 DEF Flat
  <2>2. ASSUME NEW e \in DOMAIN left["relationships"]
        PROVE  e.from[1] \notin Derived /\ e.to[1] \notin Derived
    <3>1. e \in DOMAIN db["relationships"]
      BY <1>5, <2>2 DEF Without, Restrict
    <3> QED BY <1>8, <3>1 DEF Flat
  <2> QED BY <2>1, <2>2 DEF Flat
<1> QED BY <1>2, <1>7, <1>8

\* What the in-memory store keeps.
Remaining(seen, t, keys, refs) ==
  [u \in Tables |->
   CASE u = t -> Without(seen[u], keys)
     [] u \in Derived -> Without(seen[u], {k \in DOMAIN seen[u] : seen[u][k].subject \in refs})
     [] u = "relationships" ->
          Without(seen[u], {e \in DOMAIN seen[u] : e.from \in refs \/ e.to \in refs})
     [] OTHER -> seen[u]]

\* Where nothing is about an event or a conclusion, the two stores delete alike.
LEMMA LeftSeen ==
  ASSUME NEW db, DbInv(db), Flat(db), NEW t \in Deletable, NEW keys \in SUBSET DOMAIN db[t]
  PROVE  Seen(Left(db, t, keys, Gone(db, t, keys))) = Remaining(Seen(db), t, keys, IdsOf(db, t, keys))
<1> DEFINE gone == Gone(db, t, keys)
           left == Left(db, t, keys, gone)
           refs == IdsOf(db, t, keys)
           seen == Seen(db)
           want == [u \in Tables |->
                 CASE u = t -> Without(seen[u], keys)
                   [] u \in Derived -> Without(seen[u], {k \in DOMAIN seen[u] : seen[u][k].subject \in refs})
                   [] u = "relationships" ->
                        Without(seen[u], {e \in DOMAIN seen[u] : e.from \in refs \/ e.to \in refs})
                   [] OTHER -> seen[u]]
<1>1. DbType(db)
  BY DEF DbInv
<1>2. DbType(left)
  BY <1>1, LeftType
<1>3. Seen(left) = [u \in Tables |-> [k \in DOMAIN left[u] |-> View(u, left[u][k])]]
  <2> HIDE DEF left
  <2> QED BY <1>2, SeenIs
<1>4. seen = [u \in Tables |-> [k \in DOMAIN db[u] |-> View(u, db[u][k])]]
  BY <1>1, SeenIs
<1>5. /\ left[t] = Without(db[t], keys)
      /\ \A v \in Derived : left[v] = Without(db[v], About(db, v, gone))
      /\ left["relationships"] = Without(db["relationships"], Touching(db, gone))
      /\ left["handoffs"] = [l \in DOMAIN db["handoffs"] |-> Unfocused(db["handoffs"][l], gone)]
      /\ \A v \in Tables \ ({t, "relationships", "handoffs"} \cup Derived) : left[v] = db[v]
  <2> HIDE DEF gone
  <2> QED BY <1>1, LeftTables
<1>6. /\ refs \subseteq gone
      /\ \A u \in Derived : \A k \in DOMAIN db[u] :
           S!Subject(db[u][k]) \in gone => db[u][k].id \in gone
      /\ \A id \in gone : id[1] \in Derived \cup {t}
      /\ \A id \in gone : id[1] \notin Derived => id \in refs
      /\ \A u \in Derived : \A k \in DOMAIN db[u] :
           db[u][k].id \in gone => S!Subject(db[u][k]) \in refs
  BY <1>1, GoneIs
<1> HIDE DEF left, gone, refs, seen
<1>7. ASSUME NEW u \in Tables PROVE Seen(left)[u] = want[u]
  <2>1. CASE u = t
    <3>1. want[u] = Without(seen[u], keys)
      BY <2>1, DeletableIs
    <3>2. left[u] = Without(db[u], keys)
      BY <1>5, <2>1
    <3>3. DOMAIN left[u] = DOMAIN db[u] \ keys /\ \A k \in DOMAIN left[u] : left[u][k] = db[u][k]
      BY <3>2 DEF Without, Restrict
    <3>4. Without(seen[u], keys) = [k \in DOMAIN db[u] \ keys |-> View(u, db[u][k])]
      BY <1>4 DEF Without, Restrict
    <3>5. Seen(left)[u] = [k \in DOMAIN db[u] \ keys |-> View(u, db[u][k])]
      BY <1>3, <3>3
    <3> QED BY <3>1, <3>4, <3>5
  <2>2. CASE u \in Derived
    <3> DEFINE out == {k \in DOMAIN seen[u] : seen[u][k].subject \in refs}
    <3>1. want[u] = Without(seen[u], out)
      BY <2>2, DeletableIs
    <3>2. left[u] = Without(db[u], About(db, u, gone))
      BY <1>5, <2>2
    <3>3. ASSUME NEW k \in DOMAIN db[u] PROVE View(u, db[u][k]).subject = S!Subject(db[u][k])
      BY <2>2, SubjectIs DEF View, ContextEventFromRow, ConclusionFromRow, Derived
    <3>4. \A k \in DOMAIN db[u] : db[u][k].id \in gone <=> S!Subject(db[u][k]) \in refs
      BY <1>6, <2>2
    <3>5. DOMAIN seen[u] = DOMAIN db[u] /\ \A k \in DOMAIN db[u] : seen[u][k] = View(u, db[u][k])
      BY <1>4
    <3>6. out = About(db, u, gone)
      BY <3>3, <3>4, <3>5 DEF About
    <3> HIDE DEF out
    <3> DEFINE some == DOMAIN db[u] \ About(db, u, gone)
    <3>7. DOMAIN left[u] = some /\ \A k \in some : left[u][k] = db[u][k]
      BY <3>2 DEF Without, Restrict
    <3>8. Without(seen[u], out) = [k \in some |-> View(u, db[u][k])]
      BY <3>5, <3>6 DEF Without, Restrict
    <3>9. Seen(left)[u] = [k \in some |-> View(u, db[u][k])]
      BY <1>3, <3>7
    <3> QED BY <3>1, <3>8, <3>9
  <2>3. CASE u = "relationships"
    <3> DEFINE out == {e \in DOMAIN seen[u] : e.from \in refs \/ e.to \in refs}
    <3>1. want[u] = Without(seen[u], out)
      BY <2>3, DeletableIs
    <3>2. left[u] = Without(db[u], Touching(db, gone))
      BY <1>5, <2>3
    <3>5. DOMAIN seen[u] = DOMAIN db[u] /\ \A k \in DOMAIN db[u] : seen[u][k] = View(u, db[u][k])
      BY <1>4
    <3>6. out = Touching(db, gone)
      <4>1. \A e \in DOMAIN db["relationships"] : e.from[1] \notin Derived /\ e.to[1] \notin Derived
        BY DEF Flat
      <4>2. \A e \in DOMAIN db["relationships"] :
              (e.from \in gone <=> e.from \in refs) /\ (e.to \in gone <=> e.to \in refs)
        BY <1>6, <4>1
      <4> QED BY <2>3, <3>5, <4>2 DEF Touching
    <3> HIDE DEF out
    <3> DEFINE some == DOMAIN db[u] \ Touching(db, gone)
    <3>7. DOMAIN left[u] = some /\ \A k \in some : left[u][k] = db[u][k]
      BY <3>2 DEF Without, Restrict
    <3>8. Without(seen[u], out) = [k \in some |-> View(u, db[u][k])]
      BY <3>5, <3>6 DEF Without, Restrict
    <3>9. Seen(left)[u] = [k \in some |-> View(u, db[u][k])]
      BY <1>3, <3>7
    <3> QED BY <3>1, <3>8, <3>9
  <2>4. CASE u = "handoffs"
    <3>1. want[u] = seen[u]
      BY <2>4, DeletableIs
    <3>2. DOMAIN left[u] = DOMAIN db[u] /\ \A k \in DOMAIN db[u] : left[u][k] = Unfocused(db[u][k], gone)
      BY <1>5, <2>4
    <3>3. ASSUME NEW k \in DOMAIN db[u] PROVE View(u, left[u][k]) = View(u, db[u][k])
      <4> DEFINE row == db[u][k]
                 less == Unfocused(row, gone)
      <4>1. RowType("handoffs", k, row)
        BY <1>1, <2>4, <3>3 DEF DbType, TableType
      <4>2. /\ FocusFromRow(row) = None \/ FocusFromRow(row)[1] = "threads"
        BY <4>1 DEF RowType, FocusFromRow, Ref
      <4>3. FocusFromRow(row) \in gone => FocusFromRow(row) = None
        BY <1>6, <4>2, DeletableIs
      <4>4. FocusFromRow(row) \notin gone => less = row
        BY <4>1, UnfocusedIs
      <4>5. FocusFromRow(row) \in gone => FocusFromRow(less) = None
        BY <4>1, UnfocusedIs
      <4>6. /\ less.id = row.id /\ less.sourceDeviceId = row.sourceDeviceId
            /\ less.state = row.state /\ less.createdAt = row.createdAt
        <5>1. DOMAIN row = {"id", "createdAt", "sourceDeviceId", "state", "focusType", "focusId"}
          BY <4>1, ColumnsOf DEF RowType
        <5>2. FocusToRow(None) = [focusType |-> None, focusId |-> None]
          BY DEF FocusToRow
        <5> HIDE DEF row
        <5> QED BY <5>1, <5>2 DEF Unfocused, Over
      <4> HIDE DEF row, less
      <4>7. HandoffFromRow(less) = HandoffFromRow(row)
        BY <4>3, <4>4, <4>5, <4>6 DEF HandoffFromRow
      <4> QED BY <2>4, <3>2, <4>7 DEF View, row, less
    <3>4. Seen(left)[u] = [k \in DOMAIN db[u] |-> View(u, db[u][k])]
      BY <1>3, <3>2, <3>3
    <3>5. seen[u] = [k \in DOMAIN db[u] |-> View(u, db[u][k])]
      BY <1>4
    <3> QED BY <3>1, <3>4, <3>5
  <2>5. CASE u \notin {t, "relationships", "handoffs"} \cup Derived
    <3>1. want[u] = seen[u]
      BY <2>5
    <3> QED BY <1>3, <1>4, <1>5, <2>5, <3>1
  <2> QED BY <2>1, <2>2, <2>3, <2>4, <2>5
<1>8. Seen(left) = want
  <2>1. Seen(left) = [u \in Tables |-> Seen(left)[u]]
    BY <1>3
  <2>2. want = [u \in Tables |-> want[u]]
    OBVIOUS
  <2> HIDE DEF want
  <2> QED BY <1>7, <2>1, <2>2
<1> QED BY <1>8 DEF left, gone, refs, seen, Remaining

LEMMA DeleteRowsIs ==
  ASSUME NEW db, DbInv(db), Flat(db), NEW t \in Deletable, NEW keys \in SUBSET DOMAIN db[t]
  PROVE  M!DeleteRows(Seen(db), t, keys) =
           [db |-> Seen(S!Delete(db, t, keys)), answer |-> <<"ok", Cardinality(keys)>>]
<1> DEFINE seen == Seen(db)
           refs == IdsOf(db, t, keys)
           mid == [seen EXCEPT ![t] = Without(@, keys)]
           after == [mid EXCEPT
              !.relationships = Without(@, {e \in DOMAIN @ : e.from \in refs \/ e.to \in refs}),
              !.context_events = Without(@, {k \in DOMAIN @ : @[k].subject \in refs}),
              !.conclusions = Without(@, {k \in DOMAIN @ : @[k].subject \in refs})]
           want == [u \in Tables |->
                 CASE u = t -> Without(seen[u], keys)
                   [] u \in Derived -> Without(seen[u], {k \in DOMAIN seen[u] : seen[u][k].subject \in refs})
                   [] u = "relationships" ->
                        Without(seen[u], {e \in DOMAIN seen[u] : e.from \in refs \/ e.to \in refs})
                   [] OTHER -> seen[u]]
<1>1. DbType(db)
  BY DEF DbInv
<1>2. DOMAIN seen = Tables /\ \A u \in Tables : DOMAIN seen[u] = DOMAIN db[u]
  BY <1>1, SeenIs
<1>3. \A k \in DOMAIN db[t] : seen[t][k].id = db[t][k].id
  BY <1>1, DeletableIs, SeenIds
<1>4. keys \cap DOMAIN seen[t] = keys /\ {seen[t][k].id : k \in keys} = refs
  BY <1>2, <1>3, DeletableIs DEF IdsOf
<1>5. M!DeleteRows(seen, t, keys) = [db |-> after, answer |-> <<"ok", Cardinality(keys)>>]
  <2> HIDE DEF seen, refs
  <2>1. M!DeleteRows(seen, t, keys) =
          [db |-> M!OnEntityDeleted(mid, refs), answer |-> <<"ok", M!Cardinality(keys)>>]
    BY <1>4, SameHelpers DEF M!DeleteRows
  <2> HIDE DEF mid
  <2>2. M!OnEntityDeleted(mid, refs) = after
    BY SameHelpers DEF M!OnEntityDeleted
  <2>3. M!Cardinality(keys) = Cardinality(keys)
    BY SameCardinality
  <2> HIDE DEF after
  <2> QED BY <2>1, <2>2, <2>3
<1>6. after = want
  <2> HIDE DEF seen, refs
  <2>1. /\ DOMAIN mid = Tables /\ mid[t] = Without(seen[t], keys)
        /\ \A u \in Tables \ {t} : mid[u] = seen[u]
    BY <1>2, DeletableIs
  <2> HIDE DEF mid
  <2>2. /\ DOMAIN after = Tables /\ after = [u \in Tables |-> after[u]]
        /\ after["relationships"] = Without(mid["relationships"],
             {e \in DOMAIN mid["relationships"] : e.from \in refs \/ e.to \in refs})
        /\ after["context_events"] = Without(mid["context_events"],
             {k \in DOMAIN mid["context_events"] : mid["context_events"][k].subject \in refs})
        /\ after["conclusions"] = Without(mid["conclusions"],
             {k \in DOMAIN mid["conclusions"] : mid["conclusions"][k].subject \in refs})
        /\ \A u \in Tables \ {"relationships", "context_events", "conclusions"} : after[u] = mid[u]
    BY <2>1, DeletableIs
  <2> HIDE DEF after
  <2>3. ASSUME NEW u \in Tables PROVE after[u] = want[u]
    <3>1. CASE u = t
      BY <2>1, <2>2, <3>1, DeletableIs
    <3>2. CASE u = "context_events"
      <4>1. mid[u] = seen[u]
        BY <2>1, <3>2, DeletableIs
      <4>2. want[u] = Without(seen[u], {k \in DOMAIN seen[u] : seen[u][k].subject \in refs})
        BY <3>2, DeletableIs
      <4> QED BY <2>2, <3>2, <4>1, <4>2
    <3>3. CASE u = "conclusions"
      <4>1. mid[u] = seen[u]
        BY <2>1, <3>3, DeletableIs
      <4>2. want[u] = Without(seen[u], {k \in DOMAIN seen[u] : seen[u][k].subject \in refs})
        BY <3>3, DeletableIs
      <4> QED BY <2>2, <3>3, <4>1, <4>2
    <3>4. CASE u = "relationships"
      <4>1. mid[u] = seen[u]
        BY <2>1, <3>4, DeletableIs
      <4>2. want[u] = Without(seen[u], {e \in DOMAIN seen[u] : e.from \in refs \/ e.to \in refs})
        BY <3>4, DeletableIs
      <4> QED BY <2>2, <3>4, <4>1, <4>2
    <3>5. CASE u \notin {t, "context_events", "conclusions", "relationships"}
      <4>1. want[u] = seen[u]
        BY <3>5 DEF Derived
      <4> QED BY <2>1, <2>2, <3>5, <4>1
    <3> QED BY <3>1, <3>2, <3>3, <3>4, <3>5
  <2>4. want = [u \in Tables |-> want[u]]
    OBVIOUS
  <2> HIDE DEF want
  <2> QED BY <2>2, <2>3, <2>4
<1>7. Seen(S!Delete(db, t, keys)) = want
  <2>1. S!Delete(db, t, keys) = Left(db, t, keys, Gone(db, t, keys))
    BY <1>1, DeleteIs
  <2> HIDE DEF want
  <2>2. Seen(Left(db, t, keys, Gone(db, t, keys))) = want
    <3>1. want = Remaining(Seen(db), t, keys, refs)
      BY DEF want, Remaining
    <3> QED BY <3>1, LeftSeen
  <2> QED BY <2>1, <2>2
<1> HIDE DEF want, after, seen
<1> QED BY <1>5, <1>6, <1>7 DEF seen

\* A deletion both stores make, and what they say of it.
LEMMA DeleteAgrees ==
  ASSUME NEW db, DbInv(db), Flat(db), NEW t \in Deletable, NEW keys \in SUBSET DOMAIN db[t], NEW count
  PROVE  Agrees(db, [M!DeleteRows(Seen(db), t, keys) EXCEPT !.answer = <<"ok", count>>],
                    [db |-> S!Delete(db, t, keys), answer |-> <<"ok", count>>])
<1> DEFINE m == M!DeleteRows(Seen(db), t, keys)
           after == S!Delete(db, t, keys)
<1>1. m = [db |-> Seen(after), answer |-> <<"ok", Cardinality(keys)>>]
  BY DeleteRowsIs
<1>2. DbInv(after) /\ (Flat(db) => Flat(after))
  BY DeleteKeeps
<1> HIDE DEF m, after
<1>3. [m EXCEPT !.answer = <<"ok", count>>] = [db |-> Seen(after), answer |-> <<"ok", count>>]
  BY <1>1
<1>4. Agrees(db, [m EXCEPT !.answer = <<"ok", count>>], [db |-> after, answer |-> <<"ok", count>>])
  BY <1>2, <1>3 DEF Agrees
<1> QED BY <1>4 DEF m, after

\* The rows of an account with some external ids.
LEMMA DeleteByIdsAgrees ==
  ASSUME NEW db, DbInv(db), Flat(db), NEW t \in Deletable, NEW keys \in SUBSET DOMAIN db[t]
  PROVE  Agrees(db, M!DeleteRows(Seen(db), t, keys), S!DeleteByExternalIds(db, t, keys))
<1>1. M!DeleteRows(Seen(db), t, keys) =
        [db |-> Seen(S!Delete(db, t, keys)), answer |-> <<"ok", Cardinality(keys)>>]
  BY DeleteRowsIs
<1>2. S!DeleteByExternalIds(db, t, keys) =
        [db |-> S!Delete(db, t, keys), answer |-> <<"ok", Cardinality(keys)>>]
  BY SameHelpers, SameCardinality DEF S!DeleteByExternalIds
<1>3. DbInv(S!Delete(db, t, keys)) /\ Flat(S!Delete(db, t, keys))
  BY DeleteKeeps
<1> QED BY <1>1, <1>2, <1>3 DEF Agrees

LEMMA SeenDomain ==
  ASSUME NEW db, DbInv(db), NEW t \in Tables
  PROVE  DOMAIN Seen(db)[t] = DOMAIN db[t]
BY SeenIds DEF DbInv

LEMMA DeleteMailMessagesAgrees ==
  ASSUME NEW db, DbInv(db), NEW a, NEW ids
  PROVE  /\ DbInv(S!DeleteMailMessages(db, a, ids).db)
         /\ Flat(db) => Agrees(db, M!DeleteMailMessages(Seen(db), a, ids), S!DeleteMailMessages(db, a, ids))
<1> DEFINE t == "mail_messages"
           keys == {k \in DOMAIN db[t] : k[1] = a /\ k[2] \in ids}
<1>1. t \in Deletable /\ t \in Tables /\ keys \in SUBSET DOMAIN db[t]
  BY DEF Deletable, Tables
<1>2. S!DeleteMailMessages(db, a, ids) = S!DeleteByExternalIds(db, t, keys)
  BY DEF S!DeleteMailMessages, S!OfAccount
<1>3. M!DeleteMailMessages(Seen(db), a, ids) = M!DeleteRows(Seen(db), t, keys)
  BY <1>1, SeenDomain DEF M!DeleteMailMessages, M!OfAccount
<1> HIDE DEF keys
<1>4. DbInv(S!DeleteByExternalIds(db, t, keys).db)
  <2>1. S!DeleteByExternalIds(db, t, keys).db = S!Delete(db, t, keys)
    BY SameHelpers DEF S!DeleteByExternalIds
  <2> QED BY <1>1, <2>1, DeleteKeeps
<1> QED BY <1>1, <1>2, <1>3, <1>4, DeleteByIdsAgrees

LEMMA DeleteMoneyTransactionsAgrees ==
  ASSUME NEW db, DbInv(db), Flat(db), NEW a, NEW ids
  PROVE  Agrees(db, M!DeleteMoneyTransactions(Seen(db), a, ids), S!DeleteMoneyTransactions(db, a, ids))
<1> DEFINE t == "money_transactions"
           keys == {k \in DOMAIN db[t] : k[1] = a /\ k[2] \in ids}
<1>1. t \in Deletable /\ t \in Tables /\ keys \in SUBSET DOMAIN db[t]
  BY DEF Deletable, Tables
<1>2. S!DeleteMoneyTransactions(db, a, ids) = S!DeleteByExternalIds(db, t, keys)
  BY DEF S!DeleteMoneyTransactions, S!OfAccount
<1>3. M!DeleteMoneyTransactions(Seen(db), a, ids) = M!DeleteRows(Seen(db), t, keys)
  BY <1>1, SeenDomain DEF M!DeleteMoneyTransactions, M!OfAccount
<1> HIDE DEF keys
<1> QED BY <1>1, <1>2, <1>3, DeleteByIdsAgrees

LEMMA DeleteTimeEventsAgrees ==
  ASSUME NEW db, DbInv(db), Flat(db), NEW a, NEW ids, NEW calendar
  PROVE  Agrees(db, M!DeleteTimeEvents(Seen(db), a, ids, calendar),
                    S!DeleteTimeEvents(db, a, ids, calendar))
<1> DEFINE t == "time_events"
           keys == {k \in DOMAIN db[t] : k[1] = a /\ k[2][2] \in ids
                                         /\ (calendar = None \/ k[2][1] = calendar)}
<1>1. t \in Deletable /\ t \in Tables /\ keys \in SUBSET DOMAIN db[t]
  BY DEF Deletable, Tables
<1>2. S!DeleteTimeEvents(db, a, ids, calendar) = S!DeleteByExternalIds(db, t, keys)
  BY DEF S!DeleteTimeEvents
<1>3. M!DeleteTimeEvents(Seen(db), a, ids, calendar) = M!DeleteRows(Seen(db), t, keys)
  BY <1>1, SeenDomain DEF M!DeleteTimeEvents
<1> HIDE DEF keys
<1> QED BY <1>1, <1>2, <1>3, DeleteByIdsAgrees

\* A count that stops at max_rows.
Counted(m) == [m EXCEPT !.answer[2] = IF @ > MaxRows THEN MaxRows ELSE @]

LEMMA RoundsAgree ==
  ASSUME StoreAssumption, NEW db, DbInv(db), Flat(db), NEW t \in Deletable, NEW keys \in SUBSET DOMAIN db[t]
  PROVE  Agrees(db, Counted(M!DeleteRows(Seen(db), t, keys)),
                    S!Done(S!Delete(db, t, keys), S!Least(S!Cardinality(keys), MaxRows)))
<1> DEFINE count == Cardinality(keys)
           least == IF count > MaxRows THEN MaxRows ELSE count
           after == S!Delete(db, t, keys)
           m == M!DeleteRows(Seen(db), t, keys)
<1>1. m = [db |-> Seen(after), answer |-> <<"ok", count>>]
  BY DeleteRowsIs
<1>2. S!Least(S!Cardinality(keys), MaxRows) = least
  BY SameCardinality DEF S!Least
<1>3. DbInv(after) /\ Flat(after)
  BY DeleteKeeps
<1> HIDE DEF m, after, count
<1>4. Counted(m) = [db |-> Seen(after), answer |-> <<"ok", least>>]
  BY <1>1 DEF Counted
<1>5. S!Done(after, least) = [db |-> after, answer |-> <<"ok", least>>]
  BY SameHelpers
<1> HIDE DEF least
<1>6. Agrees(db, Counted(m), S!Done(after, least))
  BY <1>3, <1>4, <1>5 DEF Agrees
<1> QED BY <1>2, <1>6 DEF m, after

LEMMA SameTimes ==
  ASSUME NEW db, DbInv(db)
  PROVE  /\ \A t \in Deletable : /\ DOMAIN Seen(db)[t] = DOMAIN db[t]
                                 /\ \A k \in DOMAIN db[t] : Seen(db)[t][k].updatedAt = db[t][k].updatedAt
         /\ \A k \in DOMAIN db["mail_messages"] :
              Seen(db)["mail_messages"][k].receivedAt = db["mail_messages"][k].receivedAt
         /\ \A k \in DOMAIN db["time_events"] : Seen(db)["time_events"][k] = db["time_events"][k]
<1>1. Seen(db) = [t \in Tables |-> [k \in DOMAIN db[t] |-> View(t, db[t][k])]]
  BY SeenIs DEF DbInv
<1>2. ASSUME NEW t \in Deletable, NEW k \in DOMAIN db[t]
      PROVE  View(t, db[t][k]).updatedAt = db[t][k].updatedAt
  <2>1. RowType(t, k, db[t][k]) /\ t \in Tables
    BY DeletableIs DEF DbInv, DbType, TableType
  <2>2. t \in {"mail_messages", "time_events", "money_transactions"}
    BY DEF Deletable
  <2> QED BY <2>1, <2>2, ViewKeeps
<1>3. \A r : View("mail_messages", r).receivedAt = r.receivedAt
  BY MailView
<1>4. \A r : View("time_events", r) = r
  BY DEF View
<1>5. "mail_messages" \in Tables /\ "time_events" \in Tables
  BY DEF Tables
<1> QED BY <1>1, <1>2, <1>3, <1>4, <1>5, DeletableIs

LEMMA DeleteUntouchedAgrees ==
  ASSUME StoreAssumption, NEW db, DbInv(db), Flat(db), NEW a, NEW capability \in {"mail", "calendar", "bank"},
         NEW since, NEW scope \in Scopes
  PROVE  Agrees(db, Counted(M!DeleteUntouched(Seen(db), a, capability, since, scope)),
                    S!DeleteUntouched(db, a, capability, since, scope))
<1> DEFINE m == M!DeleteUntouched(Seen(db), a, capability, since, scope)
           s == S!DeleteUntouched(db, a, capability, since, scope)
<1>0. scope.kind \in {"all", "mail", "calendar"}
  BY DEF Scopes
<1>1. CASE capability = "mail" /\ scope.kind = "mail"
  <2> DEFINE t == "mail_messages"
             keys == {k \in DOMAIN db[t] : k[1] = a /\ db[t][k].updatedAt < since
                                           /\ db[t][k].receivedAt >= scope.receivedSince}
  <2>1. t \in Deletable /\ keys \in SUBSET DOMAIN db[t]
    BY DEF Deletable
  <2>2. s = S!Done(S!Delete(db, t, keys), S!Least(S!Cardinality(keys), MaxRows))
    BY <1>1 DEF S!DeleteUntouched
  <2>3. keys = {k \in DOMAIN Seen(db)[t] :
                  k[1] = a /\ Seen(db)[t][k].updatedAt < since
                  /\ (scope.kind = "mail" => Seen(db)[t][k].receivedAt >= scope.receivedSince)}
    BY <1>1, <2>1, SameTimes
  <2> HIDE DEF keys
  <2>4. m = M!DeleteRows(Seen(db), t, keys)
    BY <1>1, <2>3 DEF M!DeleteUntouched
  <2> QED BY <2>1, <2>2, <2>4, RoundsAgree
<1>2. CASE capability = "mail" /\ scope.kind = "all"
  <2> DEFINE t == "mail_messages"
             keys == {k \in DOMAIN db[t] : k[1] = a /\ db[t][k].updatedAt < since /\ TRUE}
  <2>1. t \in Deletable /\ keys \in SUBSET DOMAIN db[t]
    BY DEF Deletable
  <2>2. s = S!Done(S!Delete(db, t, keys), S!Least(S!Cardinality(keys), MaxRows))
    BY <1>2 DEF S!DeleteUntouched
  <2>3. keys = {k \in DOMAIN Seen(db)[t] :
                  k[1] = a /\ Seen(db)[t][k].updatedAt < since
                  /\ (scope.kind = "mail" => Seen(db)[t][k].receivedAt >= scope.receivedSince)}
    BY <1>2, <2>1, SameTimes
  <2> HIDE DEF keys
  <2>4. m = M!DeleteRows(Seen(db), t, keys)
    BY <1>2, <2>3 DEF M!DeleteUntouched
  <2> QED BY <2>1, <2>2, <2>4, RoundsAgree
<1>3. CASE capability = "calendar" /\ scope.kind = "calendar"
  <2> DEFINE t == "time_events"
             keys == {k \in DOMAIN db[t] : k[1] = a /\ db[t][k].updatedAt < since
                                           /\ (/\ k[2][1] \in scope.calendarIds
                                               /\ db[t][k].endsAt > scope.from
                                               /\ db[t][k].startsAt < scope.to)}
  <2>1. t \in Deletable /\ keys \in SUBSET DOMAIN db[t]
    BY DEF Deletable
  <2>2. s = S!Done(S!Delete(db, t, keys), S!Least(S!Cardinality(keys), MaxRows))
    BY <1>3 DEF S!DeleteUntouched
  <2>3. keys = {k \in DOMAIN Seen(db)[t] :
                  k[1] = a /\ Seen(db)[t][k].updatedAt < since
                  /\ (scope.kind = "calendar" =>
                        /\ k[2][1] \in scope.calendarIds
                        /\ Seen(db)[t][k].endsAt > scope.from
                        /\ Seen(db)[t][k].startsAt < scope.to)}
    BY <1>3, <2>1, SameTimes
  <2> HIDE DEF keys
  <2>4. m = M!DeleteRows(Seen(db), t, keys)
    BY <1>3, <2>3 DEF M!DeleteUntouched
  <2> QED BY <2>1, <2>2, <2>4, RoundsAgree
<1>4. CASE capability = "calendar" /\ scope.kind = "all"
  <2> DEFINE t == "time_events"
             keys == {k \in DOMAIN db[t] : k[1] = a /\ db[t][k].updatedAt < since /\ TRUE}
  <2>1. t \in Deletable /\ keys \in SUBSET DOMAIN db[t]
    BY DEF Deletable
  <2>2. s = S!Done(S!Delete(db, t, keys), S!Least(S!Cardinality(keys), MaxRows))
    BY <1>4 DEF S!DeleteUntouched
  <2>3. keys = {k \in DOMAIN Seen(db)[t] :
                  k[1] = a /\ Seen(db)[t][k].updatedAt < since
                  /\ (scope.kind = "calendar" =>
                        /\ k[2][1] \in scope.calendarIds
                        /\ Seen(db)[t][k].endsAt > scope.from
                        /\ Seen(db)[t][k].startsAt < scope.to)}
    BY <1>4, <2>1, SameTimes
  <2> HIDE DEF keys
  <2>4. m = M!DeleteRows(Seen(db), t, keys)
    BY <1>4, <2>3 DEF M!DeleteUntouched
  <2> QED BY <2>1, <2>2, <2>4, RoundsAgree
<1>5. CASE capability = "bank" /\ scope.kind = "all"
  <2> DEFINE t == "money_transactions"
             keys == {k \in DOMAIN db[t] : k[1] = a /\ db[t][k].updatedAt < since /\ TRUE}
  <2>1. t \in Deletable /\ keys \in SUBSET DOMAIN db[t]
    BY DEF Deletable
  <2>2. s = S!Done(S!Delete(db, t, keys), S!Least(S!Cardinality(keys), MaxRows))
    BY <1>5 DEF S!DeleteUntouched
  <2>3. keys = {k \in DOMAIN Seen(db)[t] :
                  k[1] = a /\ Seen(db)[t][k].updatedAt < since /\ TRUE}
    BY <1>5, <2>1, SameTimes
  <2> HIDE DEF keys
  <2>4. m = M!DeleteRows(Seen(db), t, keys)
    BY <1>5, <2>3 DEF M!DeleteUntouched
  <2> QED BY <2>1, <2>2, <2>4, RoundsAgree
<1>6. CASE \/ capability = "mail" /\ scope.kind \notin {"mail", "all"}
           \/ capability = "calendar" /\ scope.kind \notin {"calendar", "all"}
           \/ capability = "bank" /\ scope.kind # "all"
  <2>1. s = [db |-> db, answer |-> <<"ok", 0>>]
    BY <1>6, SameHelpers DEF S!DeleteUntouched
  <2>2. m = [db |-> Seen(db), answer |-> <<"ok", 0>>]
    BY <1>6, SameHelpers DEF M!DeleteUntouched
  <2>3. ~(0 > MaxRows)
    BY DEF StoreAssumption
  <2> HIDE DEF m, s
  <2>4. Counted(m) = [db |-> Seen(db), answer |-> <<"ok", 0>>]
    BY <2>2, <2>3 DEF Counted
  <2>5. Agrees(db, Counted(m), s)
    BY <2>1, <2>4, NothingDone
  <2> QED BY <2>5 DEF m, s
<1> QED BY <1>1, <1>2, <1>3, <1>4, <1>5, <1>6

-----------------------------------------------------------------------------
(***************************************************************************)
(* Context events, conclusions and edges.                                  *)
(***************************************************************************)

\* What the context of a store without events about events is about.
PlainRef(ref) ==
  ref[1] \in {"people", "mail_messages"} /\ ref = <<ref[1], ref[2], ref[3]>>

LEMMA RefIs ==
  ASSUME NEW ref, PlainRef(ref)
  PROVE  /\ Ref(RefType(ref), RefId(ref)) = ref
         /\ RefType(ref) \notin Derived /\ ref[1] \notin Derived
<1>1. RefType(ref) = ref[1] /\ RefId(ref) = <<ref[2], ref[3]>>
  BY DEF RefType, RefId
<1>2. Ref(RefType(ref), RefId(ref)) = <<ref[1], ref[2], ref[3]>>
  BY <1>1 DEF Ref
<1> QED BY <1>1, <1>2 DEF PlainRef, Derived

LEMMA SameRefs ==
  /\ \A ref : S!RefType(ref) = RefType(ref) /\ S!RefId(ref) = RefId(ref)
  /\ \A type, id : S!Ref(type, id) = Ref(type, id)
BY DEF S!RefType, RefType, S!RefId, RefId, S!Ref, Ref

\* Rows about a few things are added to a table about things.
LEMMA FlatWritten ==
  ASSUME NEW db, DOMAIN db = Tables, Flat(db), NEW t \in Derived, NEW new,
         \A k \in DOMAIN new : new[k].subjectType \notin Derived
  PROVE  Flat(Written(db, t, new))
<1> DEFINE after == Written(db, t, new)
<1>1. /\ "relationships" \in Tables /\ Derived \subseteq Tables /\ t # "relationships" /\ t \in Tables
  BY DEF Tables, Derived
<1>2. after[t] = Over(new, db[t]) /\ \A u \in Tables \ {t} : after[u] = db[u]
  BY <1>1 DEF Written
<1> HIDE DEF after
<1>3. ASSUME NEW u \in Derived, NEW k \in DOMAIN after[u] PROVE after[u][k].subjectType \notin Derived
  <2>1. CASE u # t
    <3>1. after[u] = db[u]
      BY <1>1, <1>2, <2>1
    <3> QED BY <1>3, <3>1 DEF Flat
  <2>2. CASE u = t
    <3>1. /\ DOMAIN after[t] = DOMAIN new \cup DOMAIN db[t]
          /\ \A x \in DOMAIN new : after[t][x] = new[x]
          /\ \A x \in DOMAIN db[t] \ DOMAIN new : after[t][x] = db[t][x]
      BY <1>2 DEF Over
    <3> QED BY <1>3, <2>2, <3>1 DEF Flat
  <2> QED BY <2>1, <2>2
<1>4. after.relationships = db.relationships
  BY <1>1, <1>2
<1> QED BY <1>3, <1>4 DEF Flat, after

\* A row written by one call, as a batch of one.
LEMMA WithRowIs ==
  ASSUME NEW db, NEW t, NEW key, NEW row
  PROVE  WithRow(db, t, key, row) = Written(db, t, [k \in {key} |-> row])
BY PutIs DEF WithRow, Written

-----------------------------------------------------------------------------
ConclusionFields(subject) == [subjectType |-> RefType(subject), subjectId |-> RefId(subject)]

LEMMA ConclusionFieldsFit ==
  ASSUME NEW subject, NEW id
  PROVE  LET fields == ConclusionFields(subject)
         IN  /\ Fits("conclusions", fields) /\ Fills("conclusions", fields, <<>>)
             /\ KeyFits("conclusions", id) /\ "conclusions" \in Tables /\ Fits("conclusions", <<>>)
             /\ "conclusions" \notin S!Updatable
             /\ S!ConclusionToRow([subject |-> subject]) = fields
BY ColumnsOf, SameRefs, NothingFits DEF Fits, Fills, KeyFits, ConclusionFields, S!ConclusionToRow, Tables, S!Updatable

\* The schema holds, whatever a conclusion is about.
LEMMA InsertConclusionKeeps ==
  ASSUME NEW db, DbInv(db), NEW id, NEW subject, NEW n \in Nat
  PROVE  DbInv(S!InsertConclusion(db, id, subject, n).db)
<1> DEFINE fields == ConclusionFields(subject)
           one == S!InsertOne(db, "conclusions", id, fields, <<>>, n)
<1>1. /\ Fits("conclusions", fields) /\ Fills("conclusions", fields, <<>>)
      /\ KeyFits("conclusions", id) /\ "conclusions" \in Tables /\ Fits("conclusions", <<>>)
      /\ S!ConclusionToRow([subject |-> subject]) = fields
  BY ConclusionFieldsFit
<1>2. S!InsertConclusion(db, id, subject, n) =
        IF one.answer[1] = "ok" THEN [db |-> one.db, answer |-> <<"ok", S!ConclusionFromRow(one.answer[2])>>]
        ELSE one
  BY <1>1, SameHelpers DEF S!InsertConclusion, S!Read
<1>3. DbInv(one.db)
  <2> HIDE DEF fields
  <2> QED BY <1>1, OneInserted
<1> HIDE DEF one
<1> QED BY <1>2, <1>3

LEMMA InsertConclusionAgrees ==
  ASSUME NEW db, DbInv(db), NEW id, id \notin DOMAIN db.conclusions, NEW subject, PlainRef(subject),
         NEW n \in Nat
  PROVE  Agrees(db, M!InsertConclusion(Seen(db), id, subject, n), S!InsertConclusion(db, id, subject, n))
<1> DEFINE t == "conclusions"
           fields == ConclusionFields(subject)
           row == S!RowOf(db, t, id, fields, <<>>, n)
           one == S!InsertOne(db, t, id, fields, <<>>, n)
           s == S!InsertConclusion(db, id, subject, n)
           m == M!InsertConclusion(Seen(db), id, subject, n)
           view == [subject |-> subject, id |-> <<t, id, n>>, createdAt |-> n]
<1>1. /\ Fits(t, fields) /\ Fills(t, fields, <<>>)
      /\ KeyFits(t, id) /\ t \in Tables /\ Fits(t, <<>>)
      /\ S!ConclusionToRow([subject |-> subject]) = fields
  BY ConclusionFieldsFit
<1>2. s = IF one.answer[1] = "ok" THEN [db |-> one.db, answer |-> <<"ok", S!ConclusionFromRow(one.answer[2])>>]
          ELSE one
  BY <1>1, SameHelpers DEF S!InsertConclusion, S!Read
<1>3. /\ row["subjectType"] = RefType(subject) /\ row["subjectId"] = RefId(subject)
      /\ row["id"] = <<t, id, n>> /\ row["createdAt"] = n
  <2>1. DOMAIN fields = {"subjectType", "subjectId"} /\ fields["subjectType"] = RefType(subject)
        /\ fields["subjectId"] = RefId(subject)
    BY DEF ConclusionFields
  <2>2. DbType(db)
    BY DEF DbInv
  <2> HIDE DEF fields
  <2>3. /\ \A c \in DOMAIN fields : row[c] = fields[c]
        /\ id \notin DOMAIN db[t] => row["id"] = <<t, id, n>> /\ row["createdAt"] = n
    BY <1>1, <2>2, RowOfIs
  <2> HIDE DEF row
  <2> QED BY <2>1, <2>3
<1>4. Ref(row["subjectType"], row["subjectId"]) = subject /\ row["subjectType"] \notin Derived
  <2> HIDE DEF row
  <2> QED BY <1>3, RefIs
<1>5. View(t, row) = view /\ S!ConclusionFromRow(row) = view
  <2> HIDE DEF row
  <2> QED BY <1>3, <1>4, SameRefs DEF View, ConclusionFromRow, S!ConclusionFromRow
<1>6. S!Valid(db, t, id, row) <=> S!EntityExists(db, subject)
  <2>1. S!Subject(row) = subject
    <3> HIDE DEF row
    <3> QED BY <1>4, SubjectIs
  <2> HIDE DEF row
  <2> QED BY <2>1 DEF S!Valid
<1>7. M!EntityExists(Seen(db), subject) <=> S!EntityExists(db, subject)
  BY SameExists DEF DbInv
<1>8. /\ DbInv(one.db)
      /\ S!Valid(db, t, id, row) => /\ one.db = WithRow(db, t, id, row) /\ one.answer = <<"ok", row>>
                                    /\ Seen(one.db) = WithRow(Seen(db), t, id, View(t, row))
      /\ ~S!Valid(db, t, id, row) => one.db = db /\ one.answer = <<"integrity", None>>
  <2> HIDE DEF fields
  <2> QED BY <1>1, OneInserted
<1>9. CASE S!EntityExists(db, subject)
  <2>1. one.db = WithRow(db, t, id, row) /\ one.answer = <<"ok", row>>
        /\ Seen(one.db) = WithRow(Seen(db), t, id, view)
    BY <1>5, <1>6, <1>8, <1>9
  <2>2. s = [db |-> one.db, answer |-> <<"ok", view>>]
    <3> HIDE DEF one, s, row
    <3> QED BY <1>2, <1>5, <2>1
  <2>3. m = [db |-> WithRow(Seen(db), t, id, view), answer |-> <<"ok", view>>]
    <3>1. M!StoredAs(Seen(db), t, id, [subject |-> subject], n) =
            Over([subject |-> subject], [id |-> <<t, id, n>>, createdAt |-> n])
      BY <1>1, StoredIs
    <3>2. Over([subject |-> subject], [id |-> <<t, id, n>>, createdAt |-> n]) = view
      BY DEF Over
    <3>3. m = M!UpsertOne(Seen(db), t, id, [subject |-> subject], n)
      BY <1>7, <1>9 DEF M!InsertConclusion
    <3> HIDE DEF m, view
    <3> QED BY <3>1, <3>2, <3>3, MemoryInsert
  <2>4. Flat(db) => Flat(one.db)
    <3>1. one.db = Written(db, t, [k \in {id} |-> row])
      BY <2>1, WithRowIs
    <3>2. t \in Derived /\ DOMAIN db = Tables
      BY DEF Derived, DbInv, DbType
    <3> DEFINE new == [k \in {id} |-> row]
    <3>3. \A k \in DOMAIN new : new[k].subjectType \notin Derived
      <4> HIDE DEF row
      <4> QED BY <1>4
    <3> HIDE DEF one, new
    <3>4. Flat(db) => Flat(Written(db, t, new))
      BY <3>2, <3>3, FlatWritten
    <3> QED BY <3>1, <3>4 DEF new
  <2> HIDE DEF one, s, m, view
  <2>5. s.db = one.db /\ s.answer = <<"ok", view>> /\ m.db = Seen(one.db) /\ m.answer = <<"ok", view>>
    BY <2>1, <2>2, <2>3
  <2>6. Agrees(db, m, s)
    BY <1>8, <2>4, <2>5 DEF Agrees
  <2> QED BY <2>6 DEF m, s
<1>10. CASE ~S!EntityExists(db, subject)
  <2>1. one.db = db /\ one.answer = <<"integrity", None>>
    BY <1>6, <1>8, <1>10
  <2>2. s = one
    <3> HIDE DEF one, s
    <3> QED BY <1>2, <2>1
  <2>3. m = [db |-> Seen(db), answer |-> <<"integrity", None>>]
    BY <1>7, <1>10, SameHelpers DEF M!InsertConclusion
  <2>4. s.db = db /\ s.answer = <<"integrity", None>>
    BY <2>1, <2>2
  <2>5. m.db = Seen(db) /\ m.answer = <<"integrity", None>>
    BY <2>3
  <2> HIDE DEF m, s
  <2>6. Agrees(db, m, s)
    BY <2>4, <2>5 DEF Agrees
  <2> QED BY <2>6 DEF m, s
<1> QED BY <1>9, <1>10

-----------------------------------------------------------------------------
(***************************************************************************)
(* Edges.                                                                  *)
(***************************************************************************)
LEMMA GreatestIs ==
  ASSUME NEW a \in Nat, NEW b \in Nat
  PROVE  Max({a, b}) \in Nat /\ M!Max({a, b}) = Max({a, b}) /\ S!Max({a, b}) = Max({a, b})
<1>1. \E x \in {a, b} : \A y \in {a, b} : x >= y
  OBVIOUS
<1>2. Max({a, b}) \in {a, b}
  BY <1>1 DEF Max
<1>3. M!Max({a, b}) = Max({a, b}) /\ S!Max({a, b}) = Max({a, b})
  BY DEF M!Max, S!Max, Max
<1> QED BY <1>2, <1>3

\* The confidence an edge has after it is asserted.
Edge(from, to) == [from |-> from, to |-> to]
Strongest(db, from, to, confidence) ==
  IF Edge(from, to) \in DOMAIN db.relationships
  THEN Max({confidence, db.relationships[Edge(from, to)].confidence}) ELSE confidence

LEMMA StrongestIs ==
  ASSUME NEW db, DbInv(db), NEW from, NEW to, NEW c \in Nat
  PROVE  /\ Strongest(db, from, to, c) \in Nat
         /\ S!Relate(db, from, to, c, now) =
              S!InsertOne(db, "relationships", Edge(from, to),
                          [confidence |-> Strongest(db, from, to, c)], <<>>, now)
         /\ M!Relate(Seen(db), from, to, c, now) =
              IF ~S!EntityExists(db, from) \/ ~S!EntityExists(db, to) \/ from = to
              THEN [db |-> Seen(db), answer |-> <<"integrity", None>>]
              ELSE M!UpsertOne(Seen(db), "relationships", Edge(from, to),
                               [confidence |-> Strongest(db, from, to, c)], now)
<1> DEFINE edge == Edge(from, to)
           old == db.relationships[edge].confidence
           best == Strongest(db, from, to, c)
<1>1. "relationships" \in Tables /\ DbType(db)
  BY DEF Tables, DbInv
<1>2. edge \in DOMAIN db.relationships => old \in Nat
  <2>1. edge \in DOMAIN db.relationships => RowType("relationships", edge, db.relationships[edge])
    BY <1>1 DEF DbType, TableType
  <2>2. {"confidence"} \subseteq Columns("relationships")
    BY ColumnsOf
  <2> QED BY <2>1, <2>2 DEF RowType
<1>3. best \in Nat
  BY <1>2, GreatestIs DEF Strongest
<1>4. edge = [from |-> from, to |-> to]
  BY DEF Edge
<1>5. edge \in DOMAIN db.relationships => S!Max({c, old}) = best /\ M!Max({c, old}) = best
  BY <1>2, GreatestIs DEF Strongest
<1>6. edge \notin DOMAIN db.relationships => best = c
  BY DEF Strongest
<1>7. Seen(db).relationships = db.relationships
  <2>1. Seen(db) = [u \in Tables |-> [k \in DOMAIN db[u] |-> View(u, db[u][k])]]
    BY <1>1, SeenIs
  <2>2. \A k : View("relationships", db["relationships"][k]) = db["relationships"][k]
    BY DEF View
  <2>3. db["relationships"] = [k \in DOMAIN db["relationships"] |-> db["relationships"][k]]
    BY <1>1 DEF DbType, TableType
  <2> QED BY <1>1, <2>1, <2>2, <2>3
<1> HIDE DEF edge, old, best
<1>8. S!Relate(db, from, to, c, now) =
        S!InsertOne(db, "relationships", edge, [confidence |-> best], <<>>, now)
  <2>1. S!Relate(db, from, to, c, now) =
          S!InsertOne(db, "relationships", edge,
            [confidence |-> IF edge \in DOMAIN db.relationships THEN S!Max({c, old}) ELSE c], <<>>, now)
    BY <1>4 DEF S!Relate, old
  <2> QED BY <1>5, <1>6, <2>1
<1>9. M!EntityExists(Seen(db), from) = S!EntityExists(db, from)
      /\ M!EntityExists(Seen(db), to) = S!EntityExists(db, to)
  BY <1>1, SameExists
<1>10. M!Relate(Seen(db), from, to, c, now) =
         IF ~S!EntityExists(db, from) \/ ~S!EntityExists(db, to) \/ from = to
         THEN [db |-> Seen(db), answer |-> <<"integrity", None>>]
         ELSE M!UpsertOne(Seen(db), "relationships", edge, [confidence |-> best], now)
  <2>1. M!Relate(Seen(db), from, to, c, now) =
          IF ~M!EntityExists(Seen(db), from) \/ ~M!EntityExists(Seen(db), to) \/ from = to
          THEN [db |-> Seen(db), answer |-> <<"integrity", None>>]
          ELSE M!UpsertOne(Seen(db), "relationships", edge,
                 [confidence |-> IF edge \notin DOMAIN Seen(db).relationships THEN c
                                 ELSE M!Max({c, Seen(db).relationships[edge].confidence})], now)
    BY <1>4, SameHelpers DEF M!Relate
  <2>2. (IF edge \notin DOMAIN Seen(db).relationships THEN c
         ELSE M!Max({c, Seen(db).relationships[edge].confidence})) = best
    BY <1>5, <1>6, <1>7 DEF old
  <2> QED BY <1>9, <2>1, <2>2
<1> QED BY <1>3, <1>8, <1>10 DEF edge, best

LEMMA EdgeFits ==
  ASSUME NEW from, NEW to, NEW c \in Nat
  PROVE  /\ Fits("relationships", [confidence |-> c]) /\ Fills("relationships", [confidence |-> c], <<>>)
         /\ KeyFits("relationships", Edge(from, to)) /\ "relationships" \in Tables
         /\ Fits("relationships", <<>>) /\ "relationships" \notin S!Updatable
BY ColumnsOf, NothingFits DEF Fits, Fills, KeyFits, Edge, Tables, S!Updatable

\* The schema holds, whatever an edge is between.
LEMMA RelateKeeps ==
  ASSUME NEW db, DbInv(db), NEW from, NEW to, NEW c \in Nat, now \in Nat
  PROVE  DbInv(S!Relate(db, from, to, c, now).db)
<1> DEFINE fields == [confidence |-> Strongest(db, from, to, c)]
           edge == Edge(from, to)
<1>1. S!Relate(db, from, to, c, now) = S!InsertOne(db, "relationships", edge, fields, <<>>, now)
  BY StrongestIs
<1>2. /\ Fits("relationships", fields) /\ Fills("relationships", fields, <<>>)
      /\ KeyFits("relationships", edge) /\ "relationships" \in Tables /\ Fits("relationships", <<>>)
  BY StrongestIs, EdgeFits
<1> HIDE DEF fields, edge
<1>3. DbInv(S!InsertOne(db, "relationships", edge, fields, <<>>, now).db)
  BY <1>2, OneInserted
<1> QED BY <1>1, <1>3

LEMMA RelateAgrees ==
  ASSUME NEW db, DbInv(db), NEW from, NEW to, PlainRef(from), PlainRef(to), NEW c \in Nat, now \in Nat
  PROVE  Agrees(db, M!Relate(Seen(db), from, to, c, now), S!Relate(db, from, to, c, now))
<1> DEFINE t == "relationships"
           fields == [confidence |-> Strongest(db, from, to, c)]
           edge == Edge(from, to)
           row == S!RowOf(db, t, edge, fields, <<>>, now)
           s == S!Relate(db, from, to, c, now)
           m == M!Relate(Seen(db), from, to, c, now)
           ok == S!EntityExists(db, from) /\ S!EntityExists(db, to) /\ from # to
<1>1. /\ s = S!InsertOne(db, t, edge, fields, <<>>, now)
      /\ m = IF ok THEN M!UpsertOne(Seen(db), t, edge, fields, now)
             ELSE [db |-> Seen(db), answer |-> <<"integrity", None>>]
  <2>1. m = IF ~S!EntityExists(db, from) \/ ~S!EntityExists(db, to) \/ from = to
            THEN [db |-> Seen(db), answer |-> <<"integrity", None>>]
            ELSE M!UpsertOne(Seen(db), t, edge, fields, now)
    BY StrongestIs
  <2> HIDE DEF m
  <2> QED BY <2>1, StrongestIs
<1>2. /\ Fits(t, fields) /\ Fills(t, fields, <<>>) /\ KeyFits(t, edge) /\ t \in Tables /\ Fits(t, <<>>)
      /\ t \notin S!Updatable
  BY StrongestIs, EdgeFits
<1>3. edge.from = from /\ edge.to = to
  BY DEF Edge
<1> HIDE DEF edge, fields
<1>4. S!Valid(db, t, edge, row) <=> ok
  <2> HIDE DEF row
  <2> QED BY <1>3 DEF S!Valid
<1>5. View(t, row) = row
  <2> HIDE DEF row
  <2> QED BY DEF View
<1>6. row = M!StoredAs(Seen(db), t, edge, fields, now)
  <2>1. S!Stamp(t, now) = <<>>
    BY <1>2 DEF S!Stamp
  <2>2. CASE edge \in DOMAIN db[t]
    <3> DEFINE old == db[t][edge]
    <3>1. row = Over(fields, Over(<<>>, old))
      BY <2>1, <2>2, SameHelpers DEF S!RowOf
    <3>2. old = [x \in DOMAIN old |-> old[x]]
      <4>1. RowType(t, edge, old)
        BY <1>2, <2>2 DEF DbInv, DbType, TableType
      <4> QED BY <4>1 DEF RowType
    <3>3. M!StoredAs(Seen(db), t, edge, fields, now) = Over(fields, View(t, old))
      BY <1>2, <2>2, StoredIs
    <3>4. View(t, old) = old
      BY DEF View
    <3> HIDE DEF old, row
    <3>5. Over(<<>>, old) = old
      BY <3>2 DEF Over
    <3> QED BY <3>1, <3>3, <3>4, <3>5
  <2>3. CASE edge \notin DOMAIN db[t]
    <3> DEFINE born == [id |-> <<t, edge, now>>, createdAt |-> now]
    <3>1. row = Over(fields, Over(<<>>, Over(<<>>, born)))
      BY <2>1, <2>3, SameHelpers DEF S!RowOf
    <3>2. M!StoredAs(Seen(db), t, edge, fields, now) = Over(fields, born)
      BY <1>2, <2>3, StoredIs
    <3>3. Over(<<>>, born) = born
      BY DEF Over
    <3> HIDE DEF born, row
    <3> QED BY <3>1, <3>2, <3>3
  <2> QED BY <2>2, <2>3
<1>7. /\ DbInv(s.db)
      /\ S!Valid(db, t, edge, row) => /\ s.db = WithRow(db, t, edge, row) /\ s.answer = <<"ok", row>>
                                      /\ Seen(s.db) = WithRow(Seen(db), t, edge, View(t, row))
      /\ ~S!Valid(db, t, edge, row) => s.db = db /\ s.answer = <<"integrity", None>>
  BY <1>1, <1>2, OneInserted
<1> HIDE DEF row, s, m
<1>8. CASE ok
  <2>1. /\ s.db = WithRow(db, t, edge, row) /\ s.answer = <<"ok", row>>
        /\ Seen(s.db) = WithRow(Seen(db), t, edge, row)
    BY <1>4, <1>5, <1>7, <1>8
  <2>2. m = [db |-> WithRow(Seen(db), t, edge, row), answer |-> <<"ok", row>>]
    <3>1. m = M!UpsertOne(Seen(db), t, edge, fields, now)
      BY <1>1, <1>8
    <3> QED BY <1>6, <3>1, MemoryInsert
  <2>3. m.db = Seen(s.db) /\ m.answer = s.answer
    BY <2>1, <2>2
  <2>4. Flat(db) => Flat(s.db)
    <3>1. /\ \A u \in Tables \ {t} : s.db[u] = db[u]
          /\ s.db[t] = Put(db[t], edge, row)
      BY <1>2, <2>1 DEF WithRow, DbInv, DbType
    <3>2. \A u \in Derived : u \in Tables \ {t}
      BY DEF Derived, Tables
    <3>3. DOMAIN s.db[t] = DOMAIN db[t] \cup {edge}
      BY <3>1 DEF Put
    <3>4. edge.from[1] \notin Derived /\ edge.to[1] \notin Derived
      BY <1>3, RefIs
    <3> QED BY <3>1, <3>2, <3>3, <3>4 DEF Flat
  <2>5. Agrees(db, m, s)
    BY <1>7, <2>3, <2>4 DEF Agrees
  <2> QED BY <2>5 DEF m, s
<1>9. CASE ~ok
  <2>1. s.db = db /\ s.answer = <<"integrity", None>>
    BY <1>4, <1>7, <1>9
  <2>2. m = [db |-> Seen(db), answer |-> <<"integrity", None>>]
    BY <1>1, <1>9
  <2>3. m.db = Seen(db) /\ m.answer = <<"integrity", None>>
    BY <2>2
  <2>4. Agrees(db, m, s)
    BY <2>1, <2>3 DEF Agrees
  <2> QED BY <2>4 DEF m, s
<1> QED BY <1>8, <1>9

\* No constraint looks for an edge.
LEMMA ValidElsewhere ==
  ASSUME NEW db, NEW less, DOMAIN db = Tables, DOMAIN less = Tables,
         \A u \in Tables \ {"relationships"} : less[u] = db[u],
         NEW t \in Tables, NEW key, NEW row, S!Valid(db, t, key, row)
  PROVE  S!Valid(less, t, key, row)
<1>1. \A ref : S!EntityExists(db, ref) => S!EntityExists(less, ref)
  BY SameHelpers DEF S!EntityExists, S!EntityTables, Tables
<1>2. \A u \in Tables \ {"relationships"} : \A id : S!Refers(db, u, id) => S!Refers(less, u, id)
  BY SameHelpers DEF S!Refers
<1>3. /\ "people" \in Tables \ {"relationships"} /\ "documents" \in Tables \ {"relationships"}
      /\ "connector_accounts" \in Tables \ {"relationships"} /\ "devices" \in Tables \ {"relationships"}
  BY DEF Tables
<1>4. CASE t \in {"mail_messages", "money_accounts", "people", "ingest_items"}
  BY <1>1, <1>2, <1>3, <1>4 DEF S!Valid
<1>5. CASE t \in {"money_transactions", "time_events", "sync_states", "person_identities", "handoffs"}
  BY <1>1, <1>2, <1>3, <1>5 DEF S!Valid
<1>6. CASE t \in {"context_events", "conclusions", "relationships"}
  BY <1>1, <1>2, <1>3, <1>6 DEF S!Valid
<1>7. CASE t \in {"threads", "documents", "connector_accounts", "devices", "action_requests"}
  BY <1>7 DEF S!Valid
<1> QED BY <1>4, <1>5, <1>6, <1>7 DEF Tables

Unrelated(db, arrows) == [db EXCEPT !.relationships = Without(@, arrows)]

LEMMA UnrelatedKeeps ==
  ASSUME NEW db, DbInv(db), NEW arrows
  PROVE  /\ DbInv(Unrelated(db, arrows)) /\ (Flat(db) => Flat(Unrelated(db, arrows)))
         /\ Seen(Unrelated(db, arrows)) = Unrelated(Seen(db), arrows)
<1> DEFINE after == Unrelated(db, arrows)
           t == "relationships"
<1>1. t \in Tables /\ Derived \subseteq Tables \ {t} /\ {"people", "connector_accounts"} \subseteq Tables \ {t}
  BY DEF Tables, Derived
<1>2. /\ DOMAIN db = Tables /\ \A u \in Tables : TableType(u, db[u])
      /\ AllValid(db) /\ FirstRef \in RowIds(db.people) /\ Account \subseteq DOMAIN db.connector_accounts
      /\ DbType(db)
  BY DEF DbInv, DbType
<1>3. /\ DOMAIN after = Tables /\ after = [u \in Tables |-> after[u]]
      /\ after[t] = Without(db[t], arrows) /\ \A u \in Tables \ {t} : after[u] = db[u]
  BY <1>1, <1>2 DEF Unrelated
<1> HIDE DEF after
<1>4. TableType(t, after[t])
  BY <1>1, <1>2, <1>3, FewerRows
<1>5. DbType(after)
  BY <1>2, <1>3, <1>4 DEF DbType
<1>6. DOMAIN after[t] = DOMAIN db[t] \ arrows /\ \A k \in DOMAIN after[t] : after[t][k] = db[t][k]
  BY <1>3 DEF Without, Restrict
<1>7. AllValid(after)
  <2> SUFFICES ASSUME NEW u \in Tables, NEW k \in DOMAIN after[u] PROVE S!Valid(after, u, k, after[u][k])
    BY DEF AllValid
  <2>1. k \in DOMAIN db[u] /\ after[u][k] = db[u][k]
    BY <1>3, <1>6
  <2>2. S!Valid(db, u, k, after[u][k])
    BY <1>2, <2>1 DEF AllValid
  <2> QED BY <1>2, <1>3, <2>2, ValidElsewhere
<1>8. DbInv(after)
  BY <1>1, <1>2, <1>3, <1>5, <1>7 DEF DbInv
<1>9. Flat(db) => Flat(after)
  BY <1>1, <1>3, <1>6 DEF Flat
<1>10. Seen(after) = Unrelated(Seen(db), arrows)
  <2>1. /\ Seen(after) = [u \in Tables |-> [k \in DOMAIN after[u] |-> View(u, after[u][k])]]
        /\ Seen(db) = [u \in Tables |-> [k \in DOMAIN db[u] |-> View(u, db[u][k])]]
    BY <1>2, <1>5, SeenIs
  <2> DEFINE seen == Unrelated(Seen(db), arrows)
  <2>2. /\ DOMAIN seen = Tables /\ seen = [u \in Tables |-> seen[u]]
        /\ seen[t] = Without(Seen(db)[t], arrows) /\ \A u \in Tables \ {t} : seen[u] = Seen(db)[u]
    BY <1>1, <2>1 DEF Unrelated
  <2> HIDE DEF seen
  <2>3. \A u \in Tables \ {t} : Seen(after)[u] = seen[u]
    BY <1>3, <2>1, <2>2
  <2>4. Seen(after)[t] = seen[t]
    <3>1. Seen(db)[t] = [k \in DOMAIN db[t] |-> View(t, db[t][k])]
      BY <1>1, <2>1
    <3>2. seen[t] = [k \in DOMAIN db[t] \ arrows |-> View(t, db[t][k])]
      BY <2>2, <3>1 DEF Without, Restrict
    <3>3. Seen(after)[t] = [k \in DOMAIN after[t] |-> View(t, after[t][k])]
      BY <1>1, <2>1
    <3> QED BY <1>6, <3>2, <3>3
  <2>5. Seen(after) = [u \in Tables |-> Seen(after)[u]]
    BY <2>1
  <2>6. Seen(after) = seen
    BY <2>2, <2>3, <2>4, <2>5
  <2> QED BY <2>6 DEF seen
<1> QED BY <1>8, <1>9, <1>10 DEF after

LEMMA UnrelateAgrees ==
  ASSUME NEW db, DbInv(db), NEW from, NEW to
  PROVE  Agrees(db, M!Unrelate(Seen(db), from, to), S!Unrelate(db, from, to))
<1> DEFINE edge == [from |-> from, to |-> to]
           arrows == {e \in DOMAIN db.relationships : e.from = from /\ e.to = to}
           m == M!Unrelate(Seen(db), from, to)
           s == S!Unrelate(db, from, to)
<1>1. \A e \in DOMAIN db.relationships : e = [from |-> e.from, to |-> e.to]
  <2>1. "relationships" \in Tables
    BY DEF Tables
  <2> QED BY <2>1 DEF DbInv, DbType, TableType, RowType
<1>2. arrows = DOMAIN db.relationships \cap {edge}
  <2>1. ASSUME NEW e \in arrows PROVE e = edge
    BY <1>1
  <2> QED BY <2>1
<1>3. DOMAIN Seen(db).relationships = DOMAIN db.relationships
  BY SeenDomain DEF Tables
<1>4. s = [db |-> Unrelated(db, arrows), answer |-> <<"ok", arrows # {}>>]
  BY SameHelpers DEF S!Unrelate, Unrelated
<1>5. m = [db |-> Unrelated(Seen(db), {edge}), answer |-> <<"ok", edge \in DOMAIN db.relationships>>]
  BY <1>3, SameHelpers DEF M!Unrelate, Unrelated
<1>6. Unrelated(Seen(db), {edge}) = Unrelated(Seen(db), arrows)
  <2>1. Without(Seen(db).relationships, {edge}) = Without(Seen(db).relationships, arrows)
    BY <1>2, <1>3 DEF Without, Restrict
  <2> QED BY <2>1 DEF Unrelated
<1>7. (arrows # {}) = (edge \in DOMAIN db.relationships)
  BY <1>2
<1>8. DbInv(Unrelated(db, arrows)) /\ (Flat(db) => Flat(Unrelated(db, arrows)))
      /\ Seen(Unrelated(db, arrows)) = Unrelated(Seen(db), arrows)
  BY UnrelatedKeeps
<1> HIDE DEF arrows, edge, m, s
<1>9. s.db = Unrelated(db, arrows) /\ m.db = Seen(s.db) /\ m.answer = s.answer
  <2>1. s.answer = <<"ok", arrows # {}>> /\ m.answer = <<"ok", edge \in DOMAIN db.relationships>>
    BY <1>4, <1>5
  <2>2. s.db = Unrelated(db, arrows) /\ m.db = Unrelated(Seen(db), {edge})
    BY <1>4, <1>5
  <2>3. m.answer = s.answer
    BY <1>7, <2>1
  <2> QED BY <1>6, <1>8, <2>2, <2>3
<1>10. Agrees(db, m, s)
  BY <1>8, <1>9 DEF Agrees
<1> QED BY <1>10 DEF m, s

-----------------------------------------------------------------------------
Attention(row, attention, metadata) == [attention |-> attention, metadata |-> row.metadata \cup metadata]

LEMMA EventView ==
  ASSUME NEW r
  PROVE  View("context_events", r) =
           [id |-> r.id, subject |-> Ref(r.subjectType, r.subjectId), importance |-> r.importance,
            attention |-> r.attention, metadata |-> r.metadata, createdAt |-> r.createdAt]
BY DEF View, ContextEventFromRow

LEMMA SetContextEventAttentionAgrees ==
  ASSUME NEW db, DbInv(db), NEW key, NEW attention, NEW metadata
  PROVE  Agrees(db, M!SetContextEventAttention(Seen(db), key, attention, metadata),
                    S!SetContextEventAttention(db, key, attention, metadata))
<1> DEFINE t == "context_events"
           old == db[t][key]
           fields == Attention(old, attention, metadata)
           m == M!SetContextEventAttention(Seen(db), key, attention, metadata)
           s == S!SetContextEventAttention(db, key, attention, metadata)
<1>1. t \in Tables /\ t \notin S!Updatable /\ t \in Derived
  BY DEF Tables, S!Updatable, Derived
<1>2. DOMAIN Seen(db)[t] = DOMAIN db[t] /\ (key \in DOMAIN db[t] => Seen(db)[t][key] = View(t, old))
  BY <1>1, SeenIs DEF DbInv
<1>3. CASE key \notin DOMAIN db[t]
  <2>1. m = [db |-> Seen(db), answer |-> <<"not_found", None>>]
    BY <1>2, <1>3, SameHelpers DEF M!SetContextEventAttention
  <2>2. s = [db |-> db, answer |-> <<"not_found", None>>]
    BY <1>3, SameHelpers DEF S!SetContextEventAttention
  <2> QED BY <2>1, <2>2, NothingDone
<1>4. CASE key \in DOMAIN db[t]
  <2> DEFINE n == 0
             one == S!UpdateOne(db, t, key, fields, n)
             row == Over(fields, Over(S!Stamp(t, n), old))
  <2>1. s = IF one.answer[1] = "ok" THEN [db |-> one.db, answer |-> <<"ok", View(t, one.answer[2])>>]
            ELSE one
    <3>1. \A r : S!ContextEventFromRow(r) = View(t, r)
      BY SameRefs DEF S!ContextEventFromRow, ContextEventFromRow, View
    <3> QED BY <1>4, <3>1, SameHelpers DEF S!SetContextEventAttention, S!Read, Attention
  <2>2. Fits(t, fields)
    BY ColumnsOf DEF Fits, Attention
  <2>3. RowType(t, key, old) /\ S!Valid(db, t, key, old)
    BY <1>1, <1>4 DEF DbInv, DbType, TableType, AllValid
  <2>4. /\ DOMAIN fields = {"attention", "metadata"} /\ fields["attention"] = attention
        /\ fields["metadata"] = old["metadata"] \cup metadata
    BY DEF Attention
  <2>5. /\ row["attention"] = attention /\ row["metadata"] = old["metadata"] \cup metadata
        /\ \A c \in {"id", "createdAt", "importance", "subjectType", "subjectId"} : row[c] = old[c]
    <3>1. S!Stamp(t, n) = <<>>
      BY <1>1 DEF S!Stamp
    <3>2. DOMAIN old = {"id", "createdAt", "subjectType", "subjectId", "importance", "attention", "metadata"}
      BY <2>3, ColumnsOf DEF RowType
    <3>3. row = Over(fields, Over(<<>>, old))
      BY <3>1
    <3> HIDE DEF row, fields, old
    <3>4. DOMAIN Over(<<>>, old) = DOMAIN old /\ \A c \in DOMAIN old : Over(<<>>, old)[c] = old[c]
      BY DEF Over
    <3> QED BY <2>4, <3>2, <3>3, <3>4 DEF Over
  <2>6. S!Valid(db, t, key, row)
    <3>1. S!Subject(row) = S!Subject(old) /\ row["importance"] = old["importance"]
      <4> HIDE DEF row, old
      <4> QED BY <2>5, SubjectIs
    <3> HIDE DEF row, old
    <3> QED BY <2>3, <3>1 DEF S!Valid
  <2>7. View(t, row) = Over(fields, View(t, old))
    <3>1. View(t, old) =
           [id |-> old.id, subject |-> Ref(old.subjectType, old.subjectId), importance |-> old.importance,
            attention |-> old.attention, metadata |-> old.metadata, createdAt |-> old.createdAt]
      BY EventView
    <3>2. View(t, row) =
           [id |-> row.id, subject |-> Ref(row.subjectType, row.subjectId), importance |-> row.importance,
            attention |-> row.attention, metadata |-> row.metadata, createdAt |-> row.createdAt]
      BY EventView
    <3> HIDE DEF row, old, fields
    <3> QED BY <2>4, <2>5, <3>1, <3>2 DEF Over
  <2>8. /\ DbInv(one.db) /\ one.db = WithRow(db, t, key, row) /\ one.answer = <<"ok", row>>
        /\ Seen(one.db) = WithRow(Seen(db), t, key, View(t, row))
    <3> HIDE DEF fields
    <3> QED BY <1>1, <1>4, <2>2, <2>6, OnePatched
  <2>9. m = [db |-> WithRow(Seen(db), t, key, View(t, row)), answer |-> <<"ok", View(t, row)>>]
    <3>1. Seen(db)[t][key].metadata = old.metadata
      <4>1. View(t, old).metadata = old.metadata
        BY EventView
      <4> QED BY <1>2, <1>4, <4>1
    <3>2. m = M!PatchOne(Seen(db), t, key, fields)
      BY <1>2, <1>4, <3>1 DEF M!SetContextEventAttention, Attention
    <3> HIDE DEF fields, m, row
    <3>3. M!PatchOne(Seen(db), t, key, fields) =
            [db |-> WithRow(Seen(db), t, key, Over(fields, View(t, old))),
             answer |-> <<"ok", Over(fields, View(t, old))>>]
      BY <1>1, <1>4, MemoryPatch
    <3> QED BY <2>7, <3>2, <3>3
  <2>10. Flat(db) => Flat(one.db)
    <3>1. ASSUME Flat(db) PROVE row["subjectType"] \notin Derived
      <4> HIDE DEF row
      <4> QED BY <1>1, <1>4, <2>5, <3>1 DEF Flat
    <3> DEFINE new == [k \in {key} |-> row]
    <3>2. one.db = Written(db, t, new)
      BY <2>8, WithRowIs
    <3>3. DOMAIN db = Tables
      BY DEF DbInv, DbType
    <3>4. \A k \in DOMAIN new : new[k] = row
      OBVIOUS
    <3> HIDE DEF new, row, one
    <3>5. ASSUME Flat(db) PROVE Flat(Written(db, t, new))
      <4>1. \A k \in DOMAIN new : new[k].subjectType \notin Derived
        BY <3>1, <3>4, <3>5
      <4> QED BY <1>1, <3>3, <3>5, <4>1, FlatWritten
    <3> QED BY <3>2, <3>5
  <2> HIDE DEF one, row, m, s
  <2>11. s = [db |-> one.db, answer |-> <<"ok", View(t, row)>>]
    <3>1. one.answer[1] = "ok" /\ one.answer[2] = row
      BY <2>8
    <3> QED BY <2>1, <3>1
  <2>12. s.db = one.db /\ m.db = Seen(s.db) /\ m.answer = s.answer
    BY <2>8, <2>9, <2>11
  <2>13. Agrees(db, m, s)
    BY <2>8, <2>10, <2>12 DEF Agrees
  <2> QED BY <2>13 DEF m, s
<1> QED BY <1>3, <1>4

-----------------------------------------------------------------------------
(***************************************************************************)
(* Events, some of which are in the table already, or are written by       *)
(* another writer between the two statements of the call.                  *)
(***************************************************************************)
KeysIn(batch) == {batch[i].dedupeKey : i \in DOMAIN batch}
EventOf(batch, k) == batch[Min({i \in DOMAIN batch : batch[i].dedupeKey = k})]
EventToRow(e) ==
  [subjectType |-> RefType(e.subject), subjectId |-> RefId(e.subject), importance |-> e.importance,
   attention |-> e.attention, metadata |-> e.metadata]
EventRows(batch) == [i \in DOMAIN batch |-> [key |-> batch[i].dedupeKey, fields |-> EventToRow(batch[i])]]
NewEvent(k, e, n) ==
  [subject |-> e.subject, importance |-> e.importance, attention |-> e.attention, metadata |-> e.metadata,
   id |-> <<"context_events", k, n>>, createdAt |-> n]
NewEvents(keys, batch, n) == [k \in keys |-> NewEvent(k, EventOf(batch, k), n)]

\* What both stores take for an event.
EventFine(db, e) == e.importance \in 0..100 /\ S!EntityExists(db, e.subject)

\* Events about people and messages; a repeated key repeats its event.
EventBatch(batch, size) ==
  /\ DOMAIN batch = 1..size
  /\ \A i \in 1..size : batch[i].importance \in Nat /\ PlainRef(batch[i].subject)
  /\ \A i, j \in 1..size : batch[i].dedupeKey = batch[j].dedupeKey => batch[i] = batch[j]

LEMMA EventFits ==
  ASSUME NEW e, e.importance \in Nat, NEW key
  PROVE  /\ Fits("context_events", EventToRow(e)) /\ Fills("context_events", EventToRow(e), <<>>)
         /\ KeyFits("context_events", key)
<1>1. DOMAIN EventToRow(e) = {"subjectType", "subjectId", "importance", "attention", "metadata"}
      /\ EventToRow(e)["importance"] = e.importance
  BY DEF EventToRow
<1> QED BY <1>1, ColumnsOf DEF Fits, Fills, KeyFits

LEMMA EventsTable ==
  /\ "context_events" \in Tables /\ "context_events" \in Derived /\ "context_events" \notin S!Updatable
  /\ \A e : S!ContextEventToRow(e) = EventToRow(e) /\ ContextEventToRow(e) = EventToRow(e)
BY SameRefs DEF Tables, Derived, S!Updatable, S!ContextEventToRow, ContextEventToRow, EventToRow

LEMMA NewEventRow ==
  ASSUME NEW db, DbInv(db), NEW key, NEW e, e.importance \in Nat, PlainRef(e.subject), NEW n \in Nat
  PROVE  LET row == S!RowOf(db, "context_events", key, EventToRow(e), <<>>, n)
         IN /\ S!Valid(db, "context_events", key, row) <=> EventFine(db, e)
            /\ row["subjectType"] \notin Derived
            /\ key \notin DOMAIN db["context_events"] => View("context_events", row) = NewEvent(key, e, n)
<1> DEFINE t == "context_events"
           fields == EventToRow(e)
           row == S!RowOf(db, t, key, fields, <<>>, n)
<1>1. /\ row["subjectType"] = RefType(e.subject) /\ row["subjectId"] = RefId(e.subject)
      /\ row["importance"] = e.importance /\ row["attention"] = e.attention /\ row["metadata"] = e.metadata
      /\ key \notin DOMAIN db[t] => row["id"] = <<t, key, n>> /\ row["createdAt"] = n
  <2>1. /\ DOMAIN fields = {"subjectType", "subjectId", "importance", "attention", "metadata"}
        /\ fields["subjectType"] = RefType(e.subject) /\ fields["subjectId"] = RefId(e.subject)
        /\ fields["importance"] = e.importance /\ fields["attention"] = e.attention
        /\ fields["metadata"] = e.metadata
    BY DEF EventToRow
  <2>2. DbType(db) /\ Fits(t, fields) /\ Fills(t, fields, <<>>) /\ t \in Tables
    BY EventFits, EventsTable DEF DbInv
  <2> HIDE DEF fields
  <2>3. /\ \A c \in DOMAIN fields : row[c] = fields[c]
        /\ key \notin DOMAIN db[t] => row["id"] = <<t, key, n>> /\ row["createdAt"] = n
    BY <2>2, RowOfIs
  <2> HIDE DEF row
  <2> QED BY <2>1, <2>3
<1>2. Ref(row["subjectType"], row["subjectId"]) = e.subject /\ row["subjectType"] \notin Derived
  <2> HIDE DEF row
  <2> QED BY <1>1, RefIs
<1>3. S!Subject(row) = e.subject
  <2> HIDE DEF row
  <2> QED BY <1>2, SubjectIs
<1>4. S!Valid(db, t, key, row) <=> EventFine(db, e)
  <2> HIDE DEF row
  <2> QED BY <1>1, <1>3 DEF S!Valid, EventFine
<1>5. ASSUME key \notin DOMAIN db[t] PROVE View(t, row) = NewEvent(key, e, n)
  <2>1. View(t, row) =
          [id |-> row.id, subject |-> Ref(row.subjectType, row.subjectId), importance |-> row.importance,
           attention |-> row.attention, metadata |-> row.metadata, createdAt |-> row.createdAt]
    BY EventView
  <2> HIDE DEF row
  <2> QED BY <1>1, <1>2, <1>5, <2>1 DEF NewEvent
<1> QED BY <1>2, <1>4, <1>5

\* What stays of a key in a batch is its event.
LEMMA LastEvent ==
  ASSUME NEW size \in Nat, NEW batch, EventBatch(batch, size), NEW k \in KeysIn(batch)
  PROVE  /\ LastOf(EventRows(batch), k) = EventToRow(EventOf(batch, k))
         /\ \E i \in 1..size : batch[i].dedupeKey = k /\ EventOf(batch, k) = batch[i]
<1> DEFINE rows == EventRows(batch)
           T == {i \in DOMAIN batch : batch[i].dedupeKey = k}
<1>1. /\ DOMAIN rows = 1..size /\ DOMAIN batch = 1..size
      /\ \A i \in 1..size : rows[i].key = batch[i].dedupeKey /\ rows[i].fields = EventToRow(batch[i])
  BY DEF EventRows, EventBatch
<1>2. k \in KeysOf(rows)
  BY <1>1 DEF KeysOf, KeysIn
<1>3. T \in SUBSET Nat /\ T # {}
  BY <1>1 DEF KeysIn
<1>4. Min(T) \in T
  <2> HIDE DEF T
  <2> QED BY <1>3, MinIs
<1>5. Min(T) \in 1..size /\ batch[Min(T)].dedupeKey = k /\ EventOf(batch, k) = batch[Min(T)]
  BY <1>1, <1>4 DEF EventOf
<1> HIDE DEF rows, T
<1>6. PICK i \in 1..size : /\ rows[i].key = k /\ LastOf(rows, k) = rows[i].fields
                           /\ i = Max({j \in 1..size : rows[j].key = k})
  <2>1. DOMAIN rows = 1..size
    BY <1>1
  <2> QED BY <1>2, <2>1, LastOfIs
<1>7. batch[i] = batch[Min(T)]
  <2>1. \A j, m \in 1..size : batch[j].dedupeKey = batch[m].dedupeKey => batch[j] = batch[m]
    BY DEF EventBatch
  <2>2. batch[i].dedupeKey = batch[Min(T)].dedupeKey
    BY <1>1, <1>5, <1>6
  <2> QED BY ONLY <2>1, <2>2, <1>5, <1>6
<1> QED BY <1>1, <1>5, <1>6, <1>7 DEF rows

\* A chunked upsert that writes the new keys of a batch, and what the in-memory store sees of them.
EventsTaken(db, batch, keys, ign, n) ==
  LET t == "context_events"
      c == S!UpsertChunked(db, t, EventRows(batch), keys, ign, n)
      fresh == keys \ DOMAIN db[t]
  IN /\ c.ok = TRUE /\ c.keys = fresh /\ DbInv(c.db) /\ Flat(c.db)
     /\ Seen(c.db) = Written(Seen(db), t, NewEvents(fresh, batch, n))
     /\ \A u \in Tables \ {t} : c.db[u] = db[u]
     /\ DOMAIN c.db[t] = fresh \cup DOMAIN db[t]

LEMMA EventsWritten ==
  ASSUME StoreAssumption, NEW db, DbInv(db), Flat(db), NEW size \in Nat, NEW batch,
         EventBatch(batch, size), NEW keys \in SUBSET KeysIn(batch), NEW n \in Nat,
         \A i \in 1..size : batch[i].dedupeKey \in keys => EventFine(db, batch[i]),
         NEW ign, ign = TRUE \/ keys \cap DOMAIN db["context_events"] = {}
  PROVE  EventsTaken(db, batch, keys, ign, n)
<1> DEFINE t == "context_events"
           rows == EventRows(batch)
           c == S!UpsertChunked(db, t, rows, keys, ign, n)
           fresh == keys \ DOMAIN db[t]
           some == Chosen(rows, keys)
           new == NewRows(db, t, some, <<>>, ign, n)
<1>1. DOMAIN rows = 1..size /\ KeysOf(rows) = KeysIn(batch)
  BY DEF EventRows, EventBatch, KeysOf, KeysIn
<1>2. keys \in SUBSET KeysOf(rows) /\ t \in Tables /\ t \in Derived
  BY <1>1, EventsTable
<1>3. ASSUME NEW k \in keys
      PROVE  /\ LastOf(rows, k) = EventToRow(EventOf(batch, k))
             /\ EventOf(batch, k).importance \in Nat /\ PlainRef(EventOf(batch, k).subject)
             /\ EventFine(db, EventOf(batch, k))
  <2>1. PICK i \in 1..size : batch[i].dedupeKey = k /\ EventOf(batch, k) = batch[i]
    BY LastEvent
  <2>2. LastOf(rows, k) = EventToRow(EventOf(batch, k))
    BY LastEvent
  <2> QED BY <2>1, <2>2 DEF EventBatch
<1>4. ASSUME NEW k \in keys
      PROVE  /\ S!Valid(db, t, k, S!RowOf(db, t, k, LastOf(rows, k), <<>>, n))
             /\ S!RowOf(db, t, k, LastOf(rows, k), <<>>, n)["subjectType"] \notin Derived
             /\ k \in fresh => View(t, S!RowOf(db, t, k, LastOf(rows, k), <<>>, n))
                                 = NewEvent(k, EventOf(batch, k), n)
  <2> DEFINE e == EventOf(batch, k)
  <2>1. LastOf(rows, k) = EventToRow(e) /\ e.importance \in Nat /\ PlainRef(e.subject) /\ EventFine(db, e)
    BY <1>3
  <2> HIDE DEF e
  <2>2. /\ S!Valid(db, t, k, S!RowOf(db, t, k, EventToRow(e), <<>>, n)) <=> EventFine(db, e)
        /\ S!RowOf(db, t, k, EventToRow(e), <<>>, n)["subjectType"] \notin Derived
        /\ k \notin DOMAIN db[t] => View(t, S!RowOf(db, t, k, EventToRow(e), <<>>, n)) = NewEvent(k, e, n)
    BY <2>1, NewEventRow
  <2> QED BY <2>1, <2>2 DEF e
<1>5. ASSUME NEW k \in keys
      PROVE  KeyFits(t, k) /\ Fits(t, LastOf(rows, k)) /\ Fills(t, LastOf(rows, k), <<>>)
  BY <1>3, EventFits
<1>6. DOMAIN some = keys /\ \A k \in keys : some[k] = LastOf(rows, k)
  BY DEF Chosen
<1>7. ToWrite(db, t, some, ign) = fresh
  BY <1>6 DEF ToWrite
<1> HIDE DEF rows, some
<1>8. c = [ok |-> TRUE, db |-> Written(db, t, new), keys |-> ToWrite(db, t, some, ign)]
  <2>1. \A k \in keys : S!Valid(db, t, k, S!RowOf(db, t, k, LastOf(rows, k), <<>>, n))
    BY <1>4
  <2>2. DOMAIN rows = 1..size
    BY <1>1
  <2>3. keys \in SUBSET KeysOf(rows)
    BY <1>2
  <2>4. ASSUME NEW flag
        PROVE  S!UpsertChunked(db, t, rows, keys, flag, n) =
                 [ok |-> TRUE, db |-> Written(db, t, NewRows(db, t, Chosen(rows, keys), <<>>, flag, n)),
                  keys |-> ToWrite(db, t, Chosen(rows, keys), flag)]
    BY ONLY <2>1, <2>2, <2>3, ChunkedAccepted, StoreAssumption, size \in Nat, DbInv(db), <1>2
  <2> QED BY <2>4 DEF some
<1>9. DbInv(c.db)
  BY <1>1, <1>2, <1>5, ChunkedKeeps
<1> HIDE DEF c
<1>10. c.ok = TRUE /\ c.keys = fresh /\ c.db = Written(db, t, new)
  BY <1>7, <1>8
<1>11. /\ DOMAIN new = fresh
       /\ \A k \in fresh : new[k] = S!RowOf(db, t, k, LastOf(rows, k), <<>>, n)
  BY <1>6, <1>7 DEF NewRows
<1>12. Flat(c.db)
  <2>1. \A k \in DOMAIN new : new[k].subjectType \notin Derived
    BY <1>4, <1>11
  <2>2. DOMAIN db = Tables
    BY DEF DbInv, DbType
  <2> HIDE DEF new
  <2> QED BY <1>2, <1>10, <2>1, <2>2, FlatWritten
<1>13. Seen(c.db) = Written(Seen(db), t, NewEvents(fresh, batch, n))
  <2>1. Accepted(db, t, some, <<>>, ign, n)
    <3>1. ToCheck(db, t, some, ign) \subseteq keys
      BY <1>6 DEF ToCheck, ToWrite
    <3> QED BY <1>4, <1>6, <3>1 DEF Accepted
  <2>2. IsFiniteSet(DOMAIN some)
    BY <1>1, <1>2, <1>6, KeysFinite, FS_Subset
  <2>3. Fits(t, <<>>)
    BY NothingFits
  <2>4. \A k \in DOMAIN some : KeyFits(t, k) /\ Fits(t, some[k]) /\ (k \notin DOMAIN db[t] => Fills(t, some[k], <<>>))
    BY <1>5, <1>6
  <2>5. Seen(S!Insert(db, t, some, <<>>, ign, n).db) = Written(Seen(db), t, NewViews(db, t, some, <<>>, ign, n))
    BY <1>2, <2>1, <2>2, <2>3, <2>4, InsertKeeps
  <2>6. S!Insert(db, t, some, <<>>, ign, n).db = Written(db, t, new)
    BY <2>1, InsertIs
  <2>7. NewViews(db, t, some, <<>>, ign, n) = NewEvents(fresh, batch, n)
    <3>1. NewViews(db, t, some, <<>>, ign, n) = [k \in fresh |-> View(t, S!RowOf(db, t, k, some[k], <<>>, n))]
      BY <1>7 DEF NewViews
    <3>2. \A k \in fresh : View(t, S!RowOf(db, t, k, some[k], <<>>, n)) = NewEvent(k, EventOf(batch, k), n)
      BY <1>4, <1>6
    <3> QED BY <3>1, <3>2 DEF NewEvents
  <2> QED BY <1>10, <2>5, <2>6, <2>7
<1>14. /\ \A u \in Tables \ {t} : c.db[u] = db[u]
       /\ DOMAIN c.db[t] = fresh \cup DOMAIN db[t]
  <2>1. c.db[t] = Over(new, db[t]) /\ \A u \in Tables \ {t} : c.db[u] = db[u]
    BY <1>2, <1>10 DEF Written, DbInv, DbType
  <2> HIDE DEF new
  <2>2. DOMAIN c.db[t] = DOMAIN new \cup DOMAIN db[t]
    BY <2>1 DEF Over
  <2> QED BY <1>11, <2>1, <2>2
<1> QED BY <1>9, <1>10, <1>12, <1>13, <1>14 DEF EventsTaken, c, rows

\* What the in-memory store leaves and answers.
Kept(events, seen) == [seen EXCEPT !.context_events = Over(events, @)]
MemoryFresh(seen, batch) == KeysIn(batch) \ DOMAIN seen.context_events
EventIds(events, batch) == [i \in DOMAIN batch |-> events[batch[i].dedupeKey].id]
MemoryRefuses(seen, batch) ==
  \E i \in DOMAIN batch :
    /\ batch[i].dedupeKey \in MemoryFresh(seen, batch)
    /\ ~(batch[i].importance \in 0..100 /\ M!EntityExists(seen, batch[i].subject))

LEMMA MemoryEvents ==
  ASSUME NEW seen, NEW batch, NEW n
  PROVE  LET fresh == MemoryFresh(seen, batch)
             events == Over(NewEvents(fresh, batch, n), seen.context_events)
         IN M!UpsertContextEvents(seen, batch, n) =
              IF MemoryRefuses(seen, batch)
              THEN [db |-> seen, answer |-> <<"integrity", None>>]
              ELSE [db |-> Kept(NewEvents(fresh, batch, n), seen),
                    answer |-> <<"ok", [rows |-> EventIds(events, batch), inserted |-> Cardinality(fresh)]>>]
<1> DEFINE fresh == MemoryFresh(seen, batch)
           new == NewEvents(fresh, batch, n)
           mnew == [k \in fresh |->
                     LET e == batch[M!Min({i \in DOMAIN batch : batch[i].dedupeKey = k})]
                     IN [subject |-> e.subject, importance |-> e.importance, attention |-> e.attention,
                         metadata |-> e.metadata, id |-> <<"context_events", k, n>>, createdAt |-> n]]
           events == Over(new, seen.context_events)
<1>1. \A T : M!Min(T) = Min(T)
  BY DEF M!Min, Min
<1>2. mnew = new
  BY <1>1 DEF NewEvents, NewEvent, EventOf
<1>3. fresh = {batch[i].dedupeKey : i \in DOMAIN batch} \ DOMAIN seen.context_events
  BY DEF MemoryFresh, KeysIn
<1>4. M!UpsertContextEvents(seen, batch, n) =
        IF \E i \in DOMAIN batch : batch[i].dedupeKey \in fresh
             /\ (batch[i].importance \notin 0..100 \/ ~M!EntityExists(seen, batch[i].subject))
        THEN [db |-> seen, answer |-> <<"integrity", None>>]
        ELSE [db |-> [seen EXCEPT !.context_events = Over(mnew, seen.context_events)],
              answer |-> <<"ok", [rows |-> [i \in DOMAIN batch |->
                                              Over(mnew, seen.context_events)[batch[i].dedupeKey].id],
                                  inserted |-> M!Cardinality(fresh)]>>]
  BY <1>3, SameHelpers DEF M!UpsertContextEvents
<1>5. M!Cardinality(fresh) = Cardinality(fresh)
  BY SameCardinality
<1>6. (\E i \in DOMAIN batch : batch[i].dedupeKey \in fresh
             /\ (batch[i].importance \notin 0..100 \/ ~M!EntityExists(seen, batch[i].subject)))
        <=> MemoryRefuses(seen, batch)
  BY DEF MemoryRefuses
<1>7. [seen EXCEPT !.context_events = Over(new, seen.context_events)] = Kept(new, seen)
  BY DEF Kept
<1>8. [i \in DOMAIN batch |-> events[batch[i].dedupeKey].id] = EventIds(events, batch)
  BY DEF EventIds
<1> HIDE DEF mnew, new, fresh
<1>9. M!UpsertContextEvents(seen, batch, n) =
        IF MemoryRefuses(seen, batch) THEN [db |-> seen, answer |-> <<"integrity", None>>]
        ELSE [db |-> Kept(new, seen),
              answer |-> <<"ok", [rows |-> EventIds(events, batch), inserted |-> Cardinality(fresh)]>>]
  BY <1>2, <1>4, <1>5, <1>6, <1>7, <1>8
<1> QED BY <1>9 DEF new, fresh

\* The two statements of the Supabase store.
Raced(db, other, n) == S!UpsertChunked(db, "context_events", other, KeysOf(other), TRUE, n).db
Inserted(db, batch, other, n) ==
  S!UpsertChunked(Raced(db, other, n), "context_events", EventRows(batch),
                  KeysIn(batch) \ DOMAIN db.context_events, TRUE, n)

LEMMA SqlEvents ==
  ASSUME NEW db, NEW batch, NEW other, NEW n
  PROVE  LET done == Inserted(db, batch, other, n)
         IN S!UpsertContextEvents(db, batch, other, n) =
              IF ~done.ok THEN [db |-> done.db, answer |-> <<"integrity", None>>]
              ELSE [db |-> done.db,
                    answer |-> <<"ok", [rows |-> EventIds(done.db.context_events, batch),
                                        inserted |-> Cardinality(done.keys)]>>]
<1> DEFINE done == Inserted(db, batch, other, n)
           srows == [i \in DOMAIN batch |-> [key |-> batch[i].dedupeKey, fields |-> S!ContextEventToRow(batch[i])]]
           fresh == S!KeysOf(srows) \ DOMAIN db.context_events
           raced == S!UpsertChunked(db, "context_events", other, S!KeysOf(other), TRUE, n).db
           last == S!UpsertChunked(raced, "context_events", srows, fresh, TRUE, n)
<1>1. srows = EventRows(batch)
  BY EventsTable DEF EventRows
<1>2. S!KeysOf(srows) = KeysIn(batch)
  <2>1. KeysOf(EventRows(batch)) = KeysIn(batch)
    BY DEF KeysOf, EventRows, KeysIn
  <2> HIDE DEF srows
  <2> QED BY <1>1, <2>1, SameHelpers
<1>3. raced = Raced(db, other, n)
  BY SameHelpers DEF Raced
<1>4. last = done
  <2> HIDE DEF raced, srows
  <2> QED BY <1>1, <1>2, <1>3 DEF Inserted
<1>5. S!UpsertContextEvents(db, batch, other, n) =
        IF ~last.ok THEN [S!Refused(db, "integrity") EXCEPT !.db = last.db]
        ELSE S!Done(last.db, [rows |-> [i \in DOMAIN srows |-> last.db.context_events[srows[i].key].id],
                              inserted |-> S!Cardinality(last.keys)])
  BY DEF S!UpsertContextEvents
<1>6. [i \in DOMAIN srows |-> last.db.context_events[srows[i].key].id] = EventIds(last.db.context_events, batch)
  <2> HIDE DEF last
  <2> QED BY DEF EventIds
<1> HIDE DEF last, srows, done
<1>7. [S!Refused(db, "integrity") EXCEPT !.db = last.db] = [db |-> last.db, answer |-> <<"integrity", None>>]
  BY SameHelpers
<1>8. S!Cardinality(last.keys) = Cardinality(last.keys)
  BY SameCardinality
<1> QED BY <1>4, <1>5, <1>6, <1>7, <1>8, SameHelpers DEF done

LEMMA EventKeysOf ==
  ASSUME NEW batch
  PROVE  KeysOf(EventRows(batch)) = KeysIn(batch) /\ DOMAIN EventRows(batch) = DOMAIN batch
BY DEF KeysOf, EventRows, KeysIn

\* The schema holds, whatever the events are about.
LEMMA UpsertContextEventsKeeps ==
  ASSUME StoreAssumption, NEW db, DbInv(db), NEW size \in Nat, NEW batch, DOMAIN batch = 1..size,
         \A i \in 1..size : batch[i].importance \in Nat,
         NEW races \in Nat, NEW raced, DOMAIN raced = 1..races,
         \A i \in 1..races : raced[i].importance \in Nat, NEW n \in Nat
  PROVE  DbInv(S!UpsertContextEvents(db, batch, EventRows(raced), n).db)
<1> DEFINE t == "context_events"
           d == Raced(db, EventRows(raced), n)
           done == Inserted(db, batch, EventRows(raced), n)
<1>1. ASSUME NEW any, NEW long \in Nat, DOMAIN any = 1..long, \A i \in 1..long : any[i].importance \in Nat,
             NEW base, DbInv(base), NEW keys \in SUBSET KeysIn(any), NEW ign
      PROVE  DbInv(S!UpsertChunked(base, t, EventRows(any), keys, ign, n).db)
  <2> DEFINE rows == EventRows(any)
  <2>1. DOMAIN rows = 1..long /\ KeysOf(rows) = KeysIn(any)
    BY <1>1, EventKeysOf
  <2>2. \A i \in 1..long : rows[i].fields = EventToRow(any[i])
    BY <1>1 DEF EventRows
  <2> HIDE DEF rows
  <2>3. ASSUME NEW k \in keys
        PROVE  KeyFits(t, k) /\ Fits(t, LastOf(rows, k)) /\ Fills(t, LastOf(rows, k), <<>>)
    <3>1. k \in KeysOf(rows)
      BY <2>1
    <3>2. PICK i \in 1..long : /\ rows[i].key = k /\ LastOf(rows, k) = rows[i].fields
                               /\ i = Max({j \in 1..long : rows[j].key = k})
      <4>1. DOMAIN rows = 1..long
        BY <2>1
      <4> QED BY <3>1, <4>1, LastOfIs
    <3> QED BY <1>1, <2>2, <3>2, EventFits
  <2>4. keys \in SUBSET KeysOf(rows) /\ t \in Tables
    BY <2>1, EventsTable
  <2>5. DbInv(S!UpsertChunked(base, t, rows, keys, ign, n).db)
    BY <1>1, <2>1, <2>3, <2>4, ChunkedKeeps
  <2> QED BY <2>5 DEF rows
<1>2. DbInv(d)
  <2>1. ASSUME NEW ign
        PROVE  DbInv(S!UpsertChunked(db, t, EventRows(raced), KeysIn(raced), ign, n).db)
    BY <1>1
  <2> QED BY <2>1, EventKeysOf DEF Raced
<1>3. DbInv(done.db)
  <2> DEFINE keys == KeysIn(batch) \ DOMAIN db.context_events
  <2> HIDE DEF d
  <2>1. keys \in SUBSET KeysIn(batch)
    OBVIOUS
  <2> HIDE DEF keys
  <2>2. ASSUME NEW ign
        PROVE  DbInv(S!UpsertChunked(d, t, EventRows(batch), keys, ign, n).db)
    BY <1>1, <1>2, <2>1
  <2> QED BY <2>2 DEF Inserted, d, keys
<1> HIDE DEF done
<1>4. S!UpsertContextEvents(db, batch, EventRows(raced), n).db = done.db
  BY SqlEvents DEF done
<1> QED BY <1>3, <1>4

LEMMA UpsertContextEventsAgrees ==
  ASSUME StoreAssumption, NEW db, DbInv(db), Flat(db), NEW size \in Nat, NEW batch, EventBatch(batch, size),
         NEW races \in Nat, NEW raced, EventBatch(raced, races), NEW n \in Nat,
         (\E i \in 1..size : ~EventFine(db, batch[i])) => \A i \in 1..size : ~EventFine(db, batch[i]),
         \A i \in 1..races : EventFine(db, raced[i]),
         races # 0 => \A i \in 1..size : EventFine(db, batch[i])
  PROVE  Agrees(db, M!UpsertContextEvents(M!UpsertContextEvents(Seen(db), raced, n).db, batch, n),
                    S!UpsertContextEvents(db, batch, EventRows(raced), n))
<1> DEFINE t == "context_events"
           d == Raced(db, EventRows(raced), n)
           done == Inserted(db, batch, EventRows(raced), n)
           won == KeysIn(raced) \ DOMAIN db[t]
           keys == KeysIn(batch) \ DOMAIN db[t]
           fresh == KeysIn(batch) \ DOMAIN d[t]
           first == M!UpsertContextEvents(Seen(db), raced, n).db
           s == S!UpsertContextEvents(db, batch, EventRows(raced), n)
           m == M!UpsertContextEvents(first, batch, n)
<1>0. t \in Tables /\ DOMAIN batch = 1..size /\ DOMAIN raced = 1..races
  BY EventsTable DEF EventBatch
<1>1. /\ DbInv(d) /\ Flat(d) /\ Seen(d) = Written(Seen(db), t, NewEvents(won, raced, n))
      /\ \A u \in Tables \ {t} : d[u] = db[u]
      /\ DOMAIN d[t] = won \cup DOMAIN db[t]
  <2>2. ASSUME NEW some \in SUBSET KeysIn(raced), NEW flag,
               flag = TRUE \/ some \cap DOMAIN db[t] = {},
               \A i \in 1..races : raced[i].dedupeKey \in some => EventFine(db, raced[i])
        PROVE  EventsTaken(db, raced, some, flag, n)
    BY <2>2, EventsWritten
  <2>3. EventsTaken(db, raced, KeysIn(raced), TRUE, n)
    BY <2>2
  <2>4. d = S!UpsertChunked(db, t, EventRows(raced), KeysIn(raced), TRUE, n).db
    BY EventKeysOf DEF Raced
  <2> HIDE DEF d
  <2> QED BY <2>3, <2>4 DEF EventsTaken, won
<1>2. DOMAIN Seen(db)[t] = DOMAIN db[t] /\ DOMAIN Seen(d)[t] = DOMAIN d[t]
  <2> HIDE DEF d
  <2> QED BY <1>0, <1>1, SeenDomain
<1>3. \A ref : M!EntityExists(Seen(db), ref) = S!EntityExists(db, ref)
               /\ M!EntityExists(Seen(d), ref) = S!EntityExists(d, ref)
  <2> HIDE DEF d
  <2> QED BY <1>1, SameExists DEF DbInv
<1>4. first = Seen(d)
  <2>1. ~MemoryRefuses(Seen(db), raced)
    BY <1>0, <1>3 DEF MemoryRefuses, EventFine
  <2>2. MemoryFresh(Seen(db), raced) = won
    BY <1>2 DEF MemoryFresh
  <2>3. Written(Seen(db), t, NewEvents(won, raced, n)) = Kept(NewEvents(won, raced, n), Seen(db))
    BY DEF Written, Kept
  <2> HIDE DEF d, won
  <2> QED BY <1>1, <2>1, <2>2, <2>3, MemoryEvents
<1> HIDE DEF d, won, first
<1>5. ASSUME NEW i \in 1..size PROVE EventFine(d, batch[i]) <=> EventFine(db, batch[i])
  <2>1. batch[i].subject[1] \in Tables \ {t} /\ batch[i].subject[1] \in {"people", "mail_messages"}
    BY DEF EventBatch, PlainRef, Tables
  <2>2. S!EntityExists(d, batch[i].subject) <=> S!EntityExists(db, batch[i].subject)
    BY <1>1, <2>1 DEF S!EntityExists
  <2> QED BY <2>2 DEF EventFine
<1>6. /\ s.db = done.db
      /\ done.ok = TRUE => s.answer = <<"ok", [rows |-> EventIds(done.db.context_events, batch),
                                               inserted |-> Cardinality(done.keys)]>>
      /\ done.ok = FALSE => s.answer = <<"integrity", None>>
  <2>1. s = IF ~done.ok THEN [db |-> done.db, answer |-> <<"integrity", None>>]
            ELSE [db |-> done.db,
                    answer |-> <<"ok", [rows |-> EventIds(done.db.context_events, batch),
                                        inserted |-> Cardinality(done.keys)]>>]
    BY SqlEvents
  <2> HIDE DEF s, done
  <2> QED BY <2>1
<1>7. MemoryFresh(Seen(d), batch) = fresh
  BY <1>2 DEF MemoryFresh
<1>8. CASE \A i \in 1..size : batch[i].dedupeKey \in keys => EventFine(db, batch[i])
  <2>1. /\ done.ok = TRUE /\ done.keys = keys \ DOMAIN d[t] /\ DbInv(done.db) /\ Flat(done.db)
        /\ Seen(done.db) = Written(Seen(d), t, NewEvents(keys \ DOMAIN d[t], batch, n))
        /\ DOMAIN done.db[t] = (keys \ DOMAIN d[t]) \cup DOMAIN d[t]
    <3>1. keys \in SUBSET KeysIn(batch)
      OBVIOUS
    <3>2. \A i \in 1..size : batch[i].dedupeKey \in keys => EventFine(d, batch[i])
      BY <1>5, <1>8
    <3>3. done = S!UpsertChunked(d, t, EventRows(batch), keys, TRUE, n)
      BY DEF Inserted, d
    <3> HIDE DEF keys, done
    <3>4. ASSUME NEW flag, flag = TRUE \/ keys \cap DOMAIN d[t] = {}
          PROVE  EventsTaken(d, batch, keys, flag, n)
      BY <1>1, <3>1, <3>2, <3>4, EventsWritten
    <3>5. EventsTaken(d, batch, keys, TRUE, n)
      BY <3>4
    <3> QED BY <3>3, <3>5 DEF EventsTaken
  <2>2. keys \ DOMAIN d[t] = fresh
    BY <1>1
  <2>3. ~MemoryRefuses(Seen(d), batch)
    <3>1. ASSUME NEW i \in 1..size, batch[i].dedupeKey \in fresh
          PROVE  batch[i].importance \in 0..100 /\ M!EntityExists(Seen(d), batch[i].subject)
      <4>1. EventFine(d, batch[i])
        BY <1>5, <1>8, <2>2, <3>1
      <4> QED BY <1>3, <4>1 DEF EventFine
    <3> QED BY <1>0, <1>7, <3>1 DEF MemoryRefuses
  <2> DEFINE new == NewEvents(fresh, batch, n)
             events == Over(new, Seen(d)[t])
  <2>4. /\ m.db = Kept(new, Seen(d))
        /\ m.answer = <<"ok", [rows |-> EventIds(events, batch), inserted |-> Cardinality(fresh)]>>
    <3>1. M!UpsertContextEvents(Seen(d), batch, n) =
              [db |-> Kept(new, Seen(d)),
               answer |-> <<"ok", [rows |-> EventIds(events, batch), inserted |-> Cardinality(fresh)]>>]
      BY <1>7, <2>3, MemoryEvents
    <3> HIDE DEF new, events, fresh
    <3>2. m = [db |-> Kept(new, Seen(d)),
               answer |-> <<"ok", [rows |-> EventIds(events, batch), inserted |-> Cardinality(fresh)]>>]
      BY <1>4, <3>1
    <3> HIDE DEF m
    <3> QED BY <3>2
  <2>5. Kept(new, Seen(d)) = Seen(done.db)
    <3>1. Written(Seen(d), t, new) = Kept(new, Seen(d))
      BY DEF Written, Kept
    <3> HIDE DEF done, fresh, keys
    <3> QED BY <2>1, <2>2, <3>1
  <2>6. Seen(done.db)[t] = events
    <3>1. t \in DOMAIN Seen(d)
      BY <1>0, <1>1, SeenIs DEF DbInv
    <3>2. Kept(new, Seen(d))[t] = events
      BY <3>1 DEF Kept
    <3> HIDE DEF done, new, events
    <3> QED BY <2>5, <3>2
  <2>7. EventIds(events, batch) = EventIds(done.db[t], batch)
    <3> HIDE DEF done, events, fresh, keys
    <3>1. \A k \in DOMAIN done.db[t] : events[k].id = done.db[t][k].id
      BY <1>0, <2>1, <2>6, SeenIds DEF DbInv
    <3>2. \A i \in DOMAIN batch : batch[i].dedupeKey \in DOMAIN done.db[t]
      <4>1. \A i \in DOMAIN batch : batch[i].dedupeKey \in KeysIn(batch)
        BY DEF KeysIn
      <4>2. KeysIn(batch) \subseteq DOMAIN done.db[t]
        BY <2>1, <2>2 DEF fresh
      <4> QED BY <4>1, <4>2
    <3> QED BY <3>1, <3>2 DEF EventIds
  <2> HIDE DEF s, m, done, new, events, fresh, keys
  <2>8. m.db = Seen(s.db) /\ m.answer = s.answer
    BY <1>6, <2>1, <2>2, <2>4, <2>5, <2>7
  <2>9. Agrees(db, m, s)
    BY <1>6, <2>1, <2>8 DEF Agrees
  <2> QED BY <2>9 DEF m, s, first
<1>9. CASE \E i \in 1..size : batch[i].dedupeKey \in keys /\ ~EventFine(db, batch[i])
  <2>1. races = 0 /\ \A i \in 1..size : ~EventFine(d, batch[i])
    BY <1>5, <1>9
  <2>2. fresh = keys /\ keys # {}
    <3>1. KeysIn(raced) = {}
      BY <1>0, <2>1 DEF KeysIn
    <3> QED BY <1>1, <1>9, <3>1 DEF won
  <2>3. MemoryRefuses(Seen(d), batch)
    <3>1. PICK i \in 1..size : batch[i].dedupeKey \in keys
      BY <1>9
    <3>2. ~(batch[i].importance \in 0..100 /\ M!EntityExists(Seen(d), batch[i].subject))
      BY <1>3, <2>1 DEF EventFine
    <3> QED BY <1>0, <1>7, <2>2, <3>1, <3>2 DEF MemoryRefuses
  <2>4. m.db = Seen(d) /\ m.answer = <<"integrity", None>>
    <3>1. M!UpsertContextEvents(Seen(d), batch, n) = [db |-> Seen(d), answer |-> <<"integrity", None>>]
      BY <2>3, MemoryEvents
    <3>2. m = [db |-> Seen(d), answer |-> <<"integrity", None>>]
      BY <1>4, <3>1
    <3> HIDE DEF m
    <3> QED BY <3>2
  <2>5. done.ok = FALSE /\ done.db = d
    <3> DEFINE rows == EventRows(batch)
    <3>1. DOMAIN rows = 1..size /\ KeysOf(rows) = KeysIn(batch)
      BY <1>0, EventKeysOf
    <3>2. keys \in SUBSET KeysOf(rows)
      BY <3>1
    <3>3. ASSUME NEW k \in keys
          PROVE  ~S!Valid(d, t, k, S!RowOf(d, t, k, LastOf(rows, k), <<>>, n))
      <4> DEFINE e == EventOf(batch, k)
      <4>1. k \in KeysIn(batch)
        OBVIOUS
      <4>2. LastOf(rows, k) = EventToRow(e)
        BY <4>1, LastEvent
      <4>3. PICK i \in 1..size : batch[i].dedupeKey = k /\ e = batch[i]
        BY <4>1, LastEvent
      <4>4. e.importance \in Nat /\ PlainRef(e.subject) /\ ~EventFine(d, e)
        BY <2>1, <4>3 DEF EventBatch
      <4> HIDE DEF e
      <4>5. S!Valid(d, t, k, S!RowOf(d, t, k, EventToRow(e), <<>>, n)) <=> EventFine(d, e)
        BY <1>1, <4>4, NewEventRow
      <4> QED BY <4>2, <4>4, <4>5
    <3>4. DbType(d) /\ keys # {} /\ t \in Tables
      BY <1>0, <1>1, <2>2 DEF DbInv
    <3> HIDE DEF rows, keys
    <3>5. \A k \in keys : ~S!Valid(d, t, k, S!RowOf(d, t, k, LastOf(rows, k), <<>>, n))
      BY <3>3
    <3>6. DOMAIN rows = 1..size
      BY <3>1
    <3>7. ASSUME NEW flag, flag = FALSE \/ t = "context_events"
          PROVE  S!UpsertChunked(d, t, rows, keys, flag, n) = [ok |-> FALSE, db |-> d, keys |-> {}]
      BY ONLY <3>2, <3>4, <3>5, <3>6, <3>7, ChunkedRefused, StoreAssumption, size \in Nat
    <3>8. done = S!UpsertChunked(d, t, rows, keys, TRUE, n)
      BY DEF Inserted, d, rows, keys
    <3>9. done = [ok |-> FALSE, db |-> d, keys |-> {}]
      BY <3>7, <3>8
    <3> HIDE DEF done
    <3> QED BY <3>9
  <2> HIDE DEF s, m, done
  <2>6. s.db = d /\ s.answer = m.answer
    BY <1>6, <2>4, <2>5
  <2>7. Agrees(db, m, s)
    BY <1>1, <2>4, <2>6 DEF Agrees
  <2> QED BY <2>7 DEF m, s, first
<1> QED BY <1>8, <1>9

-----------------------------------------------------------------------------
(***************************************************************************)
(* The rows of the initial states.                                         *)
(***************************************************************************)
\* What is there before the first call.
LEMMA FirstOnes ==
  ASSUME StoreAssumption
  PROVE  /\ FirstAccount \in Account /\ FirstKey \in Key /\ FirstPerson \in Contact /\ FirstObject \in Object
         /\ IsFiniteSet(Account)
BY DEF StoreAssumption, FirstAccount, FirstKey, FirstPerson, FirstObject

LEMMA StoredRow ==
  ASSUME NEW t \in Tables, NEW key, NEW fields, DOMAIN fields = Columns(t) \ {"id", "createdAt"},
         \A c \in Columns(t) \cap {"updatedAt", "receivedAt", "importance", "confidence"} : fields[c] \in Nat,
         t \notin {"handoffs", "time_events", "relationships"}, t = "threads" => key \in Object
  PROVE  LET rows == Stored(t, key, fields)
         IN /\ TableType(t, rows) /\ DOMAIN rows = {key} /\ RowIds(rows) = {<<t, key, 0>>}
            /\ \A c \in DOMAIN fields : rows[key][c] = fields[c]
<1> DEFINE rows == Stored(t, key, fields)
           row == Over(fields, [id |-> <<t, key, 0>>, createdAt |-> 0])
<1>1. /\ row = [c \in Columns(t) |-> row[c]] /\ row["id"] = <<t, key, 0>> /\ row["createdAt"] = 0
      /\ \A c \in DOMAIN fields : row[c] = fields[c]
  <2>1. {"id", "createdAt"} \subseteq Columns(t)
    BY DEF Columns
  <2> QED BY <2>1 DEF Over
<1>2. rows = [k \in {key} |-> row] /\ DOMAIN rows = {key} /\ rows[key] = row
  BY DEF Stored
<1> HIDE DEF row
<1>3. RowType(t, key, row)
  <2>1. \A c \in Columns(t) \cap {"createdAt", "updatedAt", "receivedAt", "importance", "confidence"} :
          row[c] \in Nat
    BY <1>1
  <2>2. row.id[3] = 0
    BY <1>1
  <2> QED BY <1>1, <2>1, <2>2 DEF RowType
<1>4. IsFiniteSet({key})
  BY FS_Singleton
<1> HIDE DEF rows
<1>5. TableType(t, rows)
  BY <1>2, <1>3, <1>4 DEF TableType
<1>6. RowIds(rows) = {<<t, key, 0>>}
  BY <1>1, <1>2 DEF RowIds
<1> QED BY <1>1, <1>2, <1>5, <1>6 DEF rows

\* The tables with rows.
Filled == {"connector_accounts", "people", "threads", "documents", "devices"}

LEMMA SeededRows ==
  ASSUME StoreAssumption
  PROVE  /\ Seeded = [t \in Tables |-> Seeded[t]]
         /\ \A t \in Tables : TableType(t, Seeded[t])
         /\ \A t \in Tables \ Filled : DOMAIN Seeded[t] = {}
         /\ DOMAIN Seeded["people"] = {FirstPerson} /\ Seeded["people"][FirstPerson]["mergedIntoId"] = None
         /\ RowIds(Seeded["people"]) = {<<"people", FirstPerson, 0>>}
         /\ DOMAIN Seeded["connector_accounts"] = Account
<1> DEFINE person == [displayName |-> 0, mergedIntoId |-> None, updatedAt |-> 0]
           thread == [title |-> 0, status |-> "active", updatedAt |-> 0]
           document == [title |-> 0, sourceRef |-> {}, contentHash |-> None, updatedAt |-> 0]
           device == [name |-> 0]
           accounts == [a \in Account |-> [status |-> "active", credentialRef |-> None, updatedAt |-> 0,
                                           id |-> <<"connector_accounts", a, 0>>, createdAt |-> 0]]
<1>1. /\ Seeded = [t \in Tables |-> Seeded[t]]
      /\ Seeded["people"] = Stored("people", FirstPerson, person)
      /\ Seeded["threads"] = Stored("threads", FirstObject, thread)
      /\ Seeded["documents"] = Stored("documents", FirstObject, document)
      /\ Seeded["devices"] = Stored("devices", FirstObject, device)
      /\ Seeded["connector_accounts"] = accounts
      /\ \A t \in Tables \ Filled : Seeded[t] = <<>>
  BY DEF Seeded, Tables, Filled
<1>2. /\ TableType("people", Stored("people", FirstPerson, person))
      /\ DOMAIN Stored("people", FirstPerson, person) = {FirstPerson}
      /\ RowIds(Stored("people", FirstPerson, person)) = {<<"people", FirstPerson, 0>>}
      /\ Stored("people", FirstPerson, person)[FirstPerson]["mergedIntoId"] = None
  <2>1. /\ DOMAIN person = Columns("people") \ {"id", "createdAt"}
        /\ \A c \in Columns("people") \cap {"updatedAt", "receivedAt", "importance", "confidence"} : person[c] \in Nat
        /\ "people" \in Tables
    BY ColumnsOf DEF Tables
  <2> HIDE DEF person
  <2>2. TableType("people", Stored("people", FirstPerson, person))
    BY <2>1, StoredRow
  <2>3. DOMAIN Stored("people", FirstPerson, person) = {FirstPerson}
    BY <2>1, StoredRow
  <2>4. RowIds(Stored("people", FirstPerson, person)) = {<<"people", FirstPerson, 0>>}
    BY <2>1, StoredRow
  <2>5. Stored("people", FirstPerson, person)[FirstPerson]["mergedIntoId"] = None
    BY DEF Stored, Over, person
  <2> QED BY <2>2, <2>3, <2>4, <2>5
<1>3. TableType("threads", Stored("threads", FirstObject, thread))
  <2>1. /\ DOMAIN thread = Columns("threads") \ {"id", "createdAt"}
        /\ \A c \in Columns("threads") \cap {"updatedAt", "receivedAt", "importance", "confidence"} : thread[c] \in Nat
        /\ "threads" \in Tables
    BY ColumnsOf DEF Tables
  <2> HIDE DEF thread
  <2> QED BY <2>1, FirstOnes, StoredRow
<1>4. TableType("documents", Stored("documents", FirstObject, document))
  <2>1. /\ DOMAIN document = Columns("documents") \ {"id", "createdAt"}
        /\ \A c \in Columns("documents") \cap {"updatedAt", "receivedAt", "importance", "confidence"} : document[c] \in Nat
        /\ "documents" \in Tables
    BY ColumnsOf DEF Tables
  <2> HIDE DEF document
  <2> QED BY <2>1, StoredRow
<1>5. TableType("devices", Stored("devices", FirstObject, device))
  <2>1. /\ DOMAIN device = Columns("devices") \ {"id", "createdAt"}
        /\ Columns("devices") \cap {"updatedAt", "receivedAt", "importance", "confidence"} = {}
        /\ "devices" \in Tables
    BY ColumnsOf DEF Tables
  <2> HIDE DEF device
  <2> QED BY <2>1, StoredRow
<1>6. TableType("connector_accounts", accounts)
  <2>1. ASSUME NEW a \in Account PROVE RowType("connector_accounts", a, accounts[a])
    BY ColumnsOf DEF RowType
  <2>2. DOMAIN accounts = Account /\ accounts = [a \in Account |-> accounts[a]]
    OBVIOUS
  <2> HIDE DEF accounts
  <2> QED BY <2>1, <2>2, FirstOnes DEF TableType
<1>7. \A t \in Tables \ Filled : TableType(t, <<>>) /\ DOMAIN <<>> = {}
  BY FS_EmptySet DEF TableType
<1> HIDE DEF person, thread, document, device
<1>8. DOMAIN accounts = Account
  OBVIOUS
<1> HIDE DEF accounts
<1>9. \A t \in Tables : TableType(t, Seeded[t])
  <2>1. \A t \in Filled : TableType(t, Seeded[t])
    BY <1>1, <1>2, <1>3, <1>4, <1>5, <1>6 DEF Filled
  <2> QED BY <1>1, <1>7, <2>1
<1> QED BY <1>1, <1>2, <1>7, <1>8, <1>9

LEMMA SeededInv ==
  ASSUME StoreAssumption
  PROVE  /\ DbInv(Seeded) /\ Flat(Seeded) /\ Seen(Seeded) = Seeded
         /\ FirstRef = <<"people", FirstPerson, 0>> /\ FirstRef \in RowIds(Seeded["people"])
<1>1. DbType(Seeded)
  BY SeededRows DEF DbType
<1>2. FirstRef = <<"people", FirstPerson, 0>> /\ FirstRef \in RowIds(Seeded["people"])
  BY SeededRows DEF FirstRef
<1>3. AllValid(Seeded)
  <2>1. ASSUME NEW t \in Tables, NEW k \in DOMAIN Seeded[t] PROVE S!Valid(Seeded, t, k, Seeded[t][k])
    <3>1. t \in Filled
      BY SeededRows
    <3>2. CASE t = "people"
      <4>1. Seeded[t][k]["mergedIntoId"] = None
        BY <3>2, SeededRows
      <4> QED BY <3>2, <4>1 DEF S!Valid, S!Refers
    <3>3. CASE t # "people"
      <4>1. t \in Free
        BY <3>1, <3>3 DEF Filled, Free
      <4> QED BY <4>1, FreeValid
    <3> QED BY <3>2, <3>3
  <2> QED BY <2>1 DEF AllValid
<1>4. Account \subseteq DOMAIN Seeded.connector_accounts
  BY SeededRows
<1>5. Flat(Seeded)
  <2>1. DOMAIN Seeded["context_events"] = {} /\ DOMAIN Seeded["conclusions"] = {}
        /\ DOMAIN Seeded["relationships"] = {}
    BY SeededRows DEF Tables, Filled
  <2> QED BY <2>1 DEF Flat, Derived
<1>6. Seen(Seeded) = Seeded
  <2>1. \A t \in Tables : [k \in DOMAIN Seeded[t] |-> View(t, Seeded[t][k])] = Seeded[t]
    <3>1. ASSUME NEW t \in Tables PROVE Seeded[t] = [k \in DOMAIN Seeded[t] |-> Seeded[t][k]]
      BY SeededRows DEF TableType
    <3>2. ASSUME NEW t \in Filled PROVE \A row : View(t, row) = row
      BY DEF Filled, View
    <3>3. ASSUME NEW t \in Tables, NEW k \in DOMAIN Seeded[t] PROVE View(t, Seeded[t][k]) = Seeded[t][k]
      BY <3>2, SeededRows
    <3> QED BY <3>1, <3>3
  <2> QED BY <1>1, <2>1, SeededRows, SeenIs
<1> QED BY <1>1, <1>2, <1>3, <1>4, <1>5, <1>6 DEF DbInv

-----------------------------------------------------------------------------
(***************************************************************************)
(* The steps: in every family the stores stay in step.                     *)
(***************************************************************************)
\* The stores hold the same and answered the same, and nothing is about what
\* is itself derived.
InStep == DbInv(sql) /\ Flat(sql) /\ memory = Seen(sql) /\ answers[1] = answers[2]

LEMMA InitInStep ==
  ASSUME StoreAssumption, StoreInit
  PROVE  InStep /\ now \in Nat
<1> DEFINE mail == <<Mail(FirstKey, 1)>>
           m == M!UpsertMailMessages(Seen(Seeded), FirstAccount, mail, 0)
           s == S!UpsertMailMessages(Seeded, FirstAccount, mail, 0)
<1>1. now \in Nat /\ answers[1] = answers[2]
  BY DEF StoreInit
<1>2. CASE family \in {"context", "nested"}
  <2>1. memory = M!UpsertMailMessages(Seeded, FirstAccount, mail, 0).db /\ sql = s.db
    BY <1>2 DEF StoreInit
  <2>2. memory = m.db
    BY <2>1, SeededInv
  <2>3. mail \in Batches(Mails)
    <3>1. Mail(FirstKey, 1) \in Mails
      BY FirstOnes DEF Mails
    <3>2. mail \in [1..1 -> Mails]
      BY <3>1
    <3>3. 1 \in 0..MaxBatch
      BY DEF StoreAssumption
    <3> QED BY <3>2, <3>3 DEF Batches
  <2>4. FirstAccount \in DOMAIN Seeded.connector_accounts
    BY FirstOnes, SeededInv DEF DbInv
  <2>5. ASSUME NEW n \in Nat
        PROVE  Agrees(Seeded, M!UpsertMailMessages(Seen(Seeded), FirstAccount, mail, n),
                              S!UpsertMailMessages(Seeded, FirstAccount, mail, n))
    <3> HIDE DEF mail
    <3> QED BY <2>3, <2>4, <2>5, SeededInv, UpsertMailMessagesAgrees
  <2>6. Agrees(Seeded, m, s)
    BY <2>5
  <2> HIDE DEF m, s
  <2> QED BY <1>1, <2>1, <2>2, <2>6, SeededInv DEF Agrees, InStep
<1>3. CASE family \notin {"context", "nested"}
  <2>1. memory = Seeded /\ sql = Seeded
    BY <1>3 DEF StoreInit
  <2> QED BY <1>1, <2>1, SeededInv DEF InStep
<1> QED BY <1>1, <1>2, <1>3

\* A call on which both agree.
LEMMA Called ==
  ASSUME InStep, NEW m, NEW s, Agrees(sql, m, s), Call(m, s)
  PROVE  InStep'
BY DEF InStep, Agrees, Call

\* What either store says of the rows it has.
LEMMA SameRows ==
  ASSUME InStep
  PROVE  /\ \A t \in Tables : DOMAIN memory[t] = DOMAIN sql[t] /\ RowIds(memory[t]) = RowIds(sql[t])
         /\ \A ref : M!EntityExists(memory, ref) = S!EntityExists(sql, ref)
         /\ Account \subseteq DOMAIN sql.connector_accounts
BY SeenIds, SameExists DEF InStep, DbInv

LEMMA MailInStep ==
  ASSUME StoreAssumption, InStep, now \in Nat, UpsertMailMessages \/ DeleteMailMessages
  PROVE  InStep'
<1>1. memory = Seen(sql) /\ DbInv(sql) /\ Flat(sql)
  BY DEF InStep
<1>2. CASE UpsertMailMessages
  <2>1. PICK a \in Account \cup {Unlinked}, batch \in Batches(Mails) :
          /\ a \in Account \/ batch # <<>>
          /\ Call(M!UpsertMailMessages(Seen(sql), a, batch, now), S!UpsertMailMessages(sql, a, batch, now))
    <3>1. PICK a \in Account \cup {Unlinked}, batch \in Batches(Mails) :
            /\ Addressed(a, batch)
            /\ Call(M!UpsertMailMessages(memory, a, batch, now), S!UpsertMailMessages(sql, a, batch, now))
      BY <1>2 DEF UpsertMailMessages
    <3> QED BY <1>1, <3>1 DEF Addressed
  <2>2. Agrees(sql, M!UpsertMailMessages(Seen(sql), a, batch, now), S!UpsertMailMessages(sql, a, batch, now))
    BY <1>1, <2>1, SameRows, UpsertMailMessagesAgrees
  <2> QED BY <2>1, <2>2, Called
<1>3. CASE DeleteMailMessages
  <2>1. PICK a \in Account, ids \in SUBSET Key :
          Call(M!DeleteMailMessages(Seen(sql), a, ids), S!DeleteMailMessages(sql, a, ids))
    BY <1>1, <1>3 DEF DeleteMailMessages
  <2>2. Agrees(sql, M!DeleteMailMessages(Seen(sql), a, ids), S!DeleteMailMessages(sql, a, ids))
    BY <1>1, DeleteMailMessagesAgrees
  <2> QED BY <2>1, <2>2, Called
<1> QED BY <1>2, <1>3

LEMMA UntouchedInStep ==
  ASSUME StoreAssumption, InStep, family \in {"mail", "money", "time"}, DeleteUntouched
  PROVE  InStep'
<1>1. memory = Seen(sql) /\ DbInv(sql) /\ Flat(sql)
  BY DEF InStep
<1>2. PICK a \in Account, since \in {now - 1, now}, scope \in Scopes, capability \in {"mail", "calendar", "bank"} :
        Call(Counted(M!DeleteUntouched(Seen(sql), a, capability, since, scope)),
             S!DeleteUntouched(sql, a, capability, since, scope))
  BY <1>1 DEF DeleteUntouched, Counted
<1>3. Agrees(sql, Counted(M!DeleteUntouched(Seen(sql), a, capability, since, scope)),
                  S!DeleteUntouched(sql, a, capability, since, scope))
  BY <1>1, DeleteUntouchedAgrees
<1> QED BY <1>2, <1>3, Called

LEMMA MoneyInStep ==
  ASSUME StoreAssumption, InStep, now \in Nat,
         UpsertMoneyAccounts \/ UpsertMoneyTransactions \/ DeleteMoneyTransactions
  PROVE  InStep'
<1>1. memory = Seen(sql) /\ DbInv(sql) /\ Flat(sql) /\ FirstAccount \in DOMAIN sql.connector_accounts
  BY SameRows, FirstOnes DEF InStep
<1>2. CASE UpsertMoneyAccounts
  <2>1. PICK a \in {FirstAccount, Unlinked}, batch \in Batches(MoneyAccounts) :
          /\ a \in Account \/ batch # <<>>
          /\ Call(M!UpsertMoneyAccounts(Seen(sql), a, batch, now), S!UpsertMoneyAccounts(sql, a, batch, now))
    BY <1>1, <1>2 DEF UpsertMoneyAccounts, Addressed, MoneyAccounts
  <2>2. Agrees(sql, M!UpsertMoneyAccounts(Seen(sql), a, batch, now), S!UpsertMoneyAccounts(sql, a, batch, now))
    BY <1>1, <2>1, SameRows, UpsertMoneyAccountsAgrees
  <2> QED BY <2>1, <2>2, Called
<1>3. CASE UpsertMoneyTransactions
  <2>1. PICK batch \in Batches(MoneyTransactions) :
          Call(M!UpsertMoneyTransactions(Seen(sql), FirstAccount, batch, now),
               S!UpsertMoneyTransactions(sql, FirstAccount, batch, now))
    BY <1>1, <1>3 DEF UpsertMoneyTransactions, MoneyTransactions
  <2>2. Agrees(sql, M!UpsertMoneyTransactions(Seen(sql), FirstAccount, batch, now),
                    S!UpsertMoneyTransactions(sql, FirstAccount, batch, now))
    BY <1>1, <2>1, UpsertMoneyTransactionsAgrees
  <2> QED BY <2>1, <2>2, Called
<1>4. CASE DeleteMoneyTransactions
  <2>1. PICK ids \in SUBSET Key :
          Call(M!DeleteMoneyTransactions(Seen(sql), FirstAccount, ids),
               S!DeleteMoneyTransactions(sql, FirstAccount, ids))
    BY <1>1, <1>4 DEF DeleteMoneyTransactions
  <2>2. Agrees(sql, M!DeleteMoneyTransactions(Seen(sql), FirstAccount, ids),
                    S!DeleteMoneyTransactions(sql, FirstAccount, ids))
    BY <1>1, DeleteMoneyTransactionsAgrees
  <2> QED BY <2>1, <2>2, Called
<1> QED BY <1>2, <1>3, <1>4

LEMMA Pair ==
  ASSUME NEW a, NEW b
  PROVE  LET pair == <<a>> \o <<b>> IN DOMAIN pair = 1..2 /\ pair[1] = a /\ pair[2] = b
<1> DEFINE u == <<a>>
           v == <<b>>
           pair == u \o v
<1>1. u \in Seq({a, b}) /\ v \in Seq({a, b}) /\ Len(u) = 1 /\ Len(v) = 1 /\ u[1] = a /\ v[1] = b
  OBVIOUS
<1> HIDE DEF u, v
<1>2. /\ pair \in Seq({a, b}) /\ Len(pair) = Len(u) + Len(v)
      /\ \A i \in 1..Len(u) + Len(v) : pair[i] = IF i <= Len(u) THEN u[i] ELSE v[i - Len(u)]
  BY <1>1, ConcatProperties
<1>3. Len(u) + Len(v) = 2 /\ 2 - Len(u) = 1 /\ 1 <= Len(u) /\ ~(2 <= Len(u))
  BY <1>1
<1> HIDE DEF pair
<1>4. DOMAIN pair = 1..2
  BY <1>2, <1>3
<1>5. pair[1] = u[1] /\ pair[2] = v[1]
  BY <1>2, <1>3
<1> QED BY <1>1, <1>4, <1>5 DEF pair, u, v

LEMMA TimeInStep ==
  ASSUME StoreAssumption, InStep, now \in Nat, UpsertTimeEvents \/ DeleteTimeEvents
  PROVE  InStep'
<1>1. memory = Seen(sql) /\ DbInv(sql) /\ Flat(sql) /\ FirstAccount \in Account
  BY FirstOnes DEF InStep
<1>2. CASE UpsertTimeEvents
  <2>1. PICK a \in {FirstAccount, Unlinked}, calendar \in Calendars, span \in {<<0, 1>>, <<2, 3>>, <<2, 1>>},
             organizer \in {None, 0, 1}, person \in {None} \cup RowIds(memory.people),
             rest \in {<<>>} \cup {<<Event(c, <<1, 2>>, None, None)>> : c \in Calendars} :
          LET batch == <<Event(calendar, span, organizer, person)>> \o rest
          IN /\ (\E i \in DOMAIN batch : batch[i].endsAt < batch[i].startsAt) =>
                  \A i \in DOMAIN batch : batch[i].endsAt < batch[i].startsAt
             /\ Call(M!UpsertTimeEvents(memory, a, batch, now), S!UpsertTimeEvents(sql, a, batch, now))
    BY <1>2 DEF UpsertTimeEvents, AllOrNone
  <2> DEFINE first == Event(calendar, span, organizer, person)
             batch == <<first>> \o rest
  <2>2. EventGiven(first)
    <3>1. /\ first.externalCalendarId = calendar /\ first.externalId = 0
          /\ first.startsAt = span[1] /\ first.endsAt = span[2]
      BY DEF Event
    <3>2. span[1] \in Nat /\ span[2] \in Nat
      OBVIOUS
    <3> HIDE DEF first
    <3> QED BY <3>1, <3>2 DEF EventGiven
  <2>3. \A c \in Calendars : EventGiven(Event(c, <<1, 2>>, None, None))
    BY DEF Event, EventGiven
  <2> HIDE DEF first
  <2>4. PICK size \in Nat \ {0} : DOMAIN batch = 1..size /\ \A i \in 1..size : EventGiven(batch[i])
    <3>1. CASE rest = <<>>
      <4>1. batch = <<first>> /\ DOMAIN batch = 1..1 /\ batch[1] = first
        BY <3>1
      <4> HIDE DEF batch
      <4>2. \A i \in 1..1 : i = 1
        OBVIOUS
      <4> QED BY <2>2, <4>1, <4>2
    <3>2. CASE rest # <<>>
      <4>1. PICK c \in Calendars : rest = <<Event(c, <<1, 2>>, None, None)>>
        BY <3>2
      <4> DEFINE second == Event(c, <<1, 2>>, None, None)
      <4>2. EventGiven(second) /\ rest = <<second>>
        BY <2>3, <4>1
      <4> HIDE DEF second
      <4>3. batch = <<first>> \o <<second>>
        BY <4>2
      <4> HIDE DEF batch
      <4>4. DOMAIN batch = 1..2 /\ batch[1] = first /\ batch[2] = second
        BY <4>3, Pair
      <4>5. \A i \in 1..2 : i = 1 \/ i = 2
        OBVIOUS
      <4> QED BY <2>2, <4>2, <4>4, <4>5
    <3> QED BY <3>1, <3>2
  <2>5. /\ (\E i \in 1..size : batch[i].endsAt < batch[i].startsAt) =>
                  \A i \in 1..size : batch[i].endsAt < batch[i].startsAt
        /\ Call(M!UpsertTimeEvents(Seen(sql), a, batch, now), S!UpsertTimeEvents(sql, a, batch, now))
        /\ a \in Account \cup {Unlinked}
    BY <1>1, <2>1, <2>4 DEF first
  <2> HIDE DEF batch
  <2>6. Agrees(sql, M!UpsertTimeEvents(Seen(sql), a, batch, now), S!UpsertTimeEvents(sql, a, batch, now))
    BY <1>1, <2>4, <2>5, UpsertTimeEventsAgrees
  <2> QED BY <2>5, <2>6, Called
<1>3. CASE DeleteTimeEvents
  <2>1. PICK calendar \in Calendars \cup {None} :
          Call(M!DeleteTimeEvents(Seen(sql), FirstAccount, {0}, calendar),
               S!DeleteTimeEvents(sql, FirstAccount, {0}, calendar))
    BY <1>1, <1>3 DEF DeleteTimeEvents
  <2>2. Agrees(sql, M!DeleteTimeEvents(Seen(sql), FirstAccount, {0}, calendar),
                    S!DeleteTimeEvents(sql, FirstAccount, {0}, calendar))
    BY <1>1, DeleteTimeEventsAgrees
  <2> QED BY <2>1, <2>2, Called
<1> QED BY <1>2, <1>3

LEMMA PeopleInStep ==
  ASSUME StoreAssumption, InStep, now \in Nat, UpsertPerson \/ UpdatePerson \/ UpsertPersonIdentity
  PROVE  InStep'
<1>1. memory = Seen(sql) /\ DbInv(sql) /\ Flat(sql) /\ RowIds(memory.people) = RowIds(sql.people)
  BY SameRows DEF InStep, Tables
<1>2. CASE UpsertPerson
  <2>1. PICK id \in Contact, p \in [displayName : {1, 2}]
                               \cup [displayName : {1}, mergedIntoId : RowIds(sql.people)] :
          Call(M!UpsertPerson(Seen(sql), id, p, now), S!UpsertPerson(sql, id, p, now))
    BY <1>1, <1>2 DEF UpsertPerson
  <2>2. Agrees(sql, M!UpsertPerson(Seen(sql), id, p, now), S!UpsertPerson(sql, id, p, now))
    BY <1>1, UpsertPersonAgrees
  <2> QED BY <2>1, <2>2, Called
<1>3. CASE UpdatePerson
  <2>1. PICK id \in Contact, patch \in [displayName : {3}] \cup [mergedIntoId : {None} \cup RowIds(sql.people)] :
          Call(M!UpdatePerson(Seen(sql), id, patch, now), S!UpdatePerson(sql, id, patch, now))
    BY <1>1, <1>3 DEF UpdatePerson
  <2>2. Agrees(sql, M!UpdatePerson(Seen(sql), id, patch, now), S!UpdatePerson(sql, id, patch, now))
    BY <1>1, UpdatePersonAgrees
  <2> QED BY <2>1, <2>2, Called
<1>4. CASE UpsertPersonIdentity
  <2>1. PICK value \in Key, id \in Contact :
          Call(M!UpsertPersonIdentity(Seen(sql), value, [personId |-> id], now),
               S!UpsertPersonIdentity(sql, value, [personId |-> id], now))
    BY <1>1, <1>4 DEF UpsertPersonIdentity
  <2>2. Agrees(sql, M!UpsertPersonIdentity(Seen(sql), value, [personId |-> id], now),
                    S!UpsertPersonIdentity(sql, value, [personId |-> id], now))
    BY <1>1, UpsertPersonIdentityAgrees
  <2> QED BY <2>1, <2>2, Called
<1> QED BY <1>2, <1>3, <1>4

LEMMA ObjectsInStep ==
  ASSUME StoreAssumption, InStep, now \in Nat,
         \/ CreateThread \/ UpdateThread \/ UpsertDocument \/ UpsertAttachmentDocument \/ UpdateDocument
  PROVE  InStep'
<1>1. memory = Seen(sql) /\ DbInv(sql) /\ Flat(sql)
  BY DEF InStep
<1>2. CASE CreateThread
  <2>1. PICK id \in Object, t \in [title : {1}, status : {"active", "archived"}] :
          Call(M!CreateThread(Seen(sql), id, t, now), S!CreateThread(sql, id, t, now))
    BY <1>1, <1>2 DEF CreateThread
  <2>2. Agrees(sql, M!CreateThread(Seen(sql), id, t, now), S!CreateThread(sql, id, t, now))
    BY <1>1, CreateThreadAgrees
  <2> QED BY <2>1, <2>2, Called
<1>3. CASE UpdateThread
  <2>1. PICK id \in Object, patch \in [title : {2}] \cup [status : {"archived"}] :
          Call(M!UpdateThread(Seen(sql), id, patch, now), S!UpdateThread(sql, id, patch, now))
    BY <1>1, <1>3 DEF UpdateThread
  <2>2. Agrees(sql, M!UpdateThread(Seen(sql), id, patch, now), S!UpdateThread(sql, id, patch, now))
    BY <1>1, UpdateThreadAgrees
  <2> QED BY <2>1, <2>2, Called
<1>4. ASSUME NEW id, NEW d, d = [title |-> d.title, sourceRef |-> d.sourceRef, contentHash |-> d.contentHash],
             Call(M!UpsertDocument(memory, id, d, now), S!UpsertDocument(sql, id, d, now))
      PROVE  InStep'
  <2>1. Agrees(sql, M!UpsertDocument(Seen(sql), id, d, now), S!UpsertDocument(sql, id, d, now))
    BY <1>1, <1>4, UpsertDocumentAgrees
  <2>2. Call(M!UpsertDocument(Seen(sql), id, d, now), S!UpsertDocument(sql, id, d, now))
    BY <1>1, <1>4
  <2> QED BY <2>1, <2>2, Called
<1>5. CASE UpsertDocument
  <2>1. PICK id \in Object, d \in [title : {1}, sourceRef : SourceRefs, contentHash : {None, 1}] :
          Call(M!UpsertDocument(memory, id, d, now), S!UpsertDocument(sql, id, d, now))
    BY <1>5 DEF UpsertDocument
  <2>2. d = [title |-> d.title, sourceRef |-> d.sourceRef, contentHash |-> d.contentHash]
    OBVIOUS
  <2> QED BY <1>4, <2>1, <2>2
<1>6. CASE UpsertAttachmentDocument
  <2>0. PICK ref \in SourceRefs : \E id, hash :
          LET d == [title |-> 2, sourceRef |-> ref, contentHash |-> hash]
          IN Call(M!UpsertDocument(memory, id, d, now), S!UpsertDocument(sql, id, d, now))
    BY <1>6 DEF UpsertAttachmentDocument
  <2>1. PICK id, hash :
          LET d == [title |-> 2, sourceRef |-> ref, contentHash |-> hash]
          IN Call(M!UpsertDocument(memory, id, d, now), S!UpsertDocument(sql, id, d, now))
    BY <2>0
  <2> DEFINE d == [title |-> 2, sourceRef |-> ref, contentHash |-> hash]
  <2>2. d = [title |-> d.title, sourceRef |-> d.sourceRef, contentHash |-> d.contentHash]
    OBVIOUS
  <2>3. Call(M!UpsertDocument(memory, id, d, now), S!UpsertDocument(sql, id, d, now))
    BY <2>1
  <2> HIDE DEF d
  <2> QED BY <1>4, <2>2, <2>3
<1>7. CASE UpdateDocument
  <2>1. PICK id \in Object, patch \in [contentHash : {2}] \cup [sourceRef : SourceRefs] :
          Call(M!UpdateDocument(Seen(sql), id, patch, now), S!UpdateDocument(sql, id, patch, now))
    BY <1>1, <1>7 DEF UpdateDocument
  <2>2. Agrees(sql, M!UpdateDocument(Seen(sql), id, patch, now), S!UpdateDocument(sql, id, patch, now))
    BY <1>1, UpdateDocumentAgrees
  <2> QED BY <2>1, <2>2, Called
<1> QED BY <1>2, <1>3, <1>5, <1>6, <1>7

LEMMA AccountsInStep ==
  ASSUME StoreAssumption, InStep, now \in Nat,
         CreateConnectorAccount \/ UpdateConnectorAccount \/ UpsertSyncState
  PROVE  InStep'
<1>1. memory = Seen(sql) /\ DbInv(sql) /\ Flat(sql)
  BY DEF InStep
<1>2. CASE CreateConnectorAccount
  <2> DEFINE account == [status |-> "active", credentialRef |-> 1]
  <2>1. PICK a \in Account \cup {Unlinked} :
          Call(M!CreateConnectorAccount(Seen(sql), a, account, now), S!CreateConnectorAccount(sql, a, account, now))
    BY <1>1, <1>2 DEF CreateConnectorAccount
  <2>2. ASSUME NEW n \in Nat
        PROVE  Agrees(sql, M!CreateConnectorAccount(Seen(sql), a, account, n),
                           S!CreateConnectorAccount(sql, a, account, n))
    BY <1>1, CreateConnectorAccountAgrees
  <2> HIDE DEF account
  <2> QED BY <2>1, <2>2, Called
<1>3. CASE UpdateConnectorAccount
  <2>1. PICK a \in Account \cup {Unlinked},
             patch \in [status : {"needs_reauth"}] \cup [credentialRef : {None, 2}] :
          Call(M!UpdateConnectorAccount(Seen(sql), a, patch, now), S!UpdateConnectorAccount(sql, a, patch, now))
    BY <1>1, <1>3 DEF UpdateConnectorAccount
  <2>2. Agrees(sql, M!UpdateConnectorAccount(Seen(sql), a, patch, now), S!UpdateConnectorAccount(sql, a, patch, now))
    BY <1>1, UpdateConnectorAccountAgrees
  <2> QED BY <2>1, <2>2, Called
<1>4. CASE UpsertSyncState
  <2>1. PICK a \in Account \cup {Unlinked}, patch \in SyncPatches :
          Call(M!UpsertSyncState(Seen(sql), a, "mail", patch, now), S!UpsertSyncState(sql, a, "mail", patch, now))
    BY <1>1, <1>4 DEF UpsertSyncState, SyncPatches
  <2>2. Agrees(sql, M!UpsertSyncState(Seen(sql), a, "mail", patch, now), S!UpsertSyncState(sql, a, "mail", patch, now))
    BY <1>1, UpsertSyncStateAgrees
  <2> QED BY <2>1, <2>2, Called
<1> QED BY <1>2, <1>3, <1>4

LEMMA JobsInStep ==
  ASSUME StoreAssumption, InStep, now \in Nat,
         \/ UpsertDevice \/ UpdateDevice \/ CreateHandoff \/ UpdateHandoff
         \/ CreateIngestItem \/ UpdateIngestItem \/ CreateActionRequest \/ UpdateActionRequest
  PROVE  InStep'
<1>1. memory = Seen(sql) /\ DbInv(sql) /\ Flat(sql)
  BY DEF InStep
<1>2. /\ RowIds(memory.threads) = RowIds(sql.threads) /\ RowIds(memory.documents) = RowIds(sql.documents)
      /\ DOMAIN memory.handoffs = DOMAIN sql.handoffs
  BY SameRows DEF Tables
<1>3. CASE UpsertDevice
  <2>1. PICK id \in Object :
          Call(M!UpsertDevice(Seen(sql), id, [name |-> 1], now), S!UpsertDevice(sql, id, [name |-> 1], now))
    BY <1>1, <1>3 DEF UpsertDevice
  <2>2. Agrees(sql, M!UpsertDevice(Seen(sql), id, [name |-> 1], now), S!UpsertDevice(sql, id, [name |-> 1], now))
    BY <1>1, UpsertDeviceAgrees
  <2> QED BY <2>1, <2>2, Called
<1>4. CASE UpdateDevice
  <2>1. PICK id \in Object :
          Call(M!UpdateDevice(Seen(sql), id, [name |-> 2]), S!UpdateDevice(sql, id, [name |-> 2]))
    BY <1>1, <1>4 DEF UpdateDevice
  <2>2. Agrees(sql, M!UpdateDevice(Seen(sql), id, [name |-> 2]), S!UpdateDevice(sql, id, [name |-> 2]))
    BY <1>1, UpdateDeviceAgrees
  <2> QED BY <2>1, <2>2, Called
<1>5. CASE CreateHandoff
  <2>1. PICK id \in Object, h \in [sourceDeviceId : Object, state : {"pending"}, focus : Focuses(sql)] :
          /\ id \notin DOMAIN sql.handoffs
          /\ Call(M!CreateHandoff(Seen(sql), id, h, now), S!CreateHandoff(sql, id, h, now))
    BY <1>1, <1>2, <1>5 DEF CreateHandoff, Focuses
  <2>2. Agrees(sql, M!CreateHandoff(Seen(sql), id, h, now), S!CreateHandoff(sql, id, h, now))
    BY <1>1, <2>1, CreateHandoffAgrees
  <2> QED BY <2>1, <2>2, Called
<1>6. CASE UpdateHandoff
  <2>1. PICK id \in Object, patch \in HandoffPatches(sql) :
          Call(M!UpdateHandoff(Seen(sql), id, patch), S!UpdateHandoff(sql, id, patch))
    BY <1>1, <1>2, <1>6 DEF UpdateHandoff, HandoffPatches, Focuses
  <2>2. Agrees(sql, M!UpdateHandoff(Seen(sql), id, patch), S!UpdateHandoff(sql, id, patch))
    BY <1>1, UpdateHandoffAgrees
  <2> QED BY <2>1, <2>2, Called
<1>7. CASE CreateIngestItem
  <2>1. PICK id \in Object,
             i \in [status : {"received"}, documentId : {None}]
                   \cup [status : {"received"}, documentId : {None}, attempts : {1}] :
          Call(M!CreateIngestItem(Seen(sql), id, i, now), S!CreateIngestItem(sql, id, i, now))
    BY <1>1, <1>7 DEF CreateIngestItem
  <2>2. Agrees(sql, M!CreateIngestItem(Seen(sql), id, i, now), S!CreateIngestItem(sql, id, i, now))
    BY <1>1, CreateIngestItemAgrees
  <2> QED BY <2>1, <2>2, Called
<1>8. CASE UpdateIngestItem
  <2>1. PICK id \in Object,
             patch \in [status : {"failed"}, attempts : {2}] \cup [documentId : RowIds(sql.documents)] :
          Call(M!UpdateIngestItem(Seen(sql), id, patch), S!UpdateIngestItem(sql, id, patch))
    BY <1>1, <1>2, <1>8 DEF UpdateIngestItem
  <2>2. Agrees(sql, M!UpdateIngestItem(Seen(sql), id, patch), S!UpdateIngestItem(sql, id, patch))
    BY <1>1, UpdateIngestItemAgrees
  <2> QED BY <2>1, <2>2, Called
<1>9. CASE CreateActionRequest
  <2>1. PICK key \in Key, payload \in {1, 2} :
          Call(M!CreateActionRequest(Seen(sql), key, [payload |-> payload], now),
               S!CreateActionRequest(sql, key, [payload |-> payload], now))
    BY <1>1, <1>9 DEF CreateActionRequest
  <2>2. Agrees(sql, M!CreateActionRequest(Seen(sql), key, [payload |-> payload], now),
                    S!CreateActionRequest(sql, key, [payload |-> payload], now))
    BY <1>1, CreateActionRequestAgrees
  <2> QED BY <2>1, <2>2, Called
<1>10. CASE UpdateActionRequest
  <2>1. PICK key \in Key, patch \in [status : {"done"}, result : {1}] \cup [attempts : {1}] :
          Call(M!UpdateActionRequest(Seen(sql), key, patch, now), S!UpdateActionRequest(sql, key, patch, now))
    BY <1>1, <1>10 DEF UpdateActionRequest
  <2>2. Agrees(sql, M!UpdateActionRequest(Seen(sql), key, patch, now), S!UpdateActionRequest(sql, key, patch, now))
    BY <1>1, UpdateActionRequestAgrees
  <2> QED BY <2>1, <2>2, Called
<1> QED BY <1>3, <1>4, <1>5, <1>6, <1>7, <1>8, <1>9, <1>10

\* Outside "nested", what the context is about is a person or a message.
LEMMA RefsPlain ==
  ASSUME InStep, family # "nested", NEW ref \in Refs
  PROVE  PlainRef(ref)
<1>1. ref = <<"people", None, 0>> \/ \E t \in {"people", "mail_messages"} : ref \in RowIds(sql[t])
  BY SameRows DEF Refs, Tables
<1>2. ASSUME NEW t \in {"people", "mail_messages"}, ref \in RowIds(sql[t]) PROVE PlainRef(ref)
  <2>1. PICK k \in DOMAIN sql[t] : ref = sql[t][k].id
    BY <1>2 DEF RowIds
  <2>2. RowType(t, k, sql[t][k])
    BY DEF InStep, DbInv, DbType, TableType, Tables
  <2>3. ref = <<t, k, ref[3]>>
    BY <2>1, <2>2 DEF RowType
  <2> QED BY <2>3 DEF PlainRef
<1>3. PlainRef(<<"people", None, 0>>)
  BY DEF PlainRef
<1> QED BY <1>1, <1>2, <1>3

LEMMA ContextInStep ==
  ASSUME StoreAssumption, InStep, now \in Nat, family # "nested",
         \/ InsertConclusion \/ Relate \/ DeleteMailMessages \/ Unrelate \/ SetContextEventAttention
  PROVE  InStep'
<1>1. memory = Seen(sql) /\ DbInv(sql) /\ Flat(sql) /\ DOMAIN memory.conclusions = DOMAIN sql.conclusions
  BY SameRows DEF InStep, Tables
<1>2. CASE InsertConclusion
  <2>1. PICK id \in Object \ DOMAIN sql.conclusions, subject \in Refs :
          Call(M!InsertConclusion(Seen(sql), id, subject, now), S!InsertConclusion(sql, id, subject, now))
    BY <1>1, <1>2 DEF InsertConclusion
  <2>2. PlainRef(subject)
    BY RefsPlain
  <2>3. Agrees(sql, M!InsertConclusion(Seen(sql), id, subject, now), S!InsertConclusion(sql, id, subject, now))
    BY <1>1, <2>2, InsertConclusionAgrees
  <2> QED BY <2>1, <2>3, Called
<1>3. CASE Relate
  <2>1. PICK from \in Refs, to \in Refs, confidence \in {1, 2} :
          Call(M!Relate(Seen(sql), from, to, confidence, now), S!Relate(sql, from, to, confidence, now))
    BY <1>1, <1>3 DEF Relate
  <2>2. PlainRef(from) /\ PlainRef(to) /\ confidence \in Nat
    BY RefsPlain
  <2>3. Agrees(sql, M!Relate(Seen(sql), from, to, confidence, now), S!Relate(sql, from, to, confidence, now))
    BY <1>1, <2>2, RelateAgrees
  <2> QED BY <2>1, <2>3, Called
<1>4. CASE Unrelate
  <2>1. PICK from \in Refs, to \in Refs : Call(M!Unrelate(Seen(sql), from, to), S!Unrelate(sql, from, to))
    BY <1>1, <1>4 DEF Unrelate
  <2>2. Agrees(sql, M!Unrelate(Seen(sql), from, to), S!Unrelate(sql, from, to))
    BY <1>1, UnrelateAgrees
  <2> QED BY <2>1, <2>2, Called
<1>5. CASE SetContextEventAttention
  <2>1. PICK k \in Key, attention \in {"none", "dismissed"}, metadata \in SUBSET {"because"} :
          Call(M!SetContextEventAttention(Seen(sql), k, attention, metadata),
               S!SetContextEventAttention(sql, k, attention, metadata))
    BY <1>1, <1>5 DEF SetContextEventAttention
  <2>2. Agrees(sql, M!SetContextEventAttention(Seen(sql), k, attention, metadata),
                    S!SetContextEventAttention(sql, k, attention, metadata))
    BY <1>1, SetContextEventAttentionAgrees
  <2> QED BY <2>1, <2>2, Called
<1> QED BY <1>2, <1>3, <1>4, <1>5, MailInStep

LEMMA EventGivenIs ==
  ASSUME NEW k, NEW s, NEW i
  PROVE  LET e == ContextEvent(k, s, i)
         IN e.subject = s /\ e.importance = i /\ e.dedupeKey = k
BY DEF ContextEvent

\* A batch, and what another writer commits first.
LEMMA RacedIs ==
  ASSUME StoreAssumption, DbInv(sql), NEW raced \in Races
  PROVE  /\ raced = <<>> \/ raced # <<>>
         /\ \E races \in Nat : /\ DOMAIN raced = 1..races /\ (races # 0 => raced # <<>>)
                               /\ EventBatch(raced, races) /\ \A i \in 1..races : EventFine(sql, raced[i])
<1>1. CASE raced = <<>>
  <2>1. DOMAIN raced = 1..0 /\ 1..0 = {}
    BY <1>1
  <2>2. EventBatch(raced, 0)
    BY <2>1 DEF EventBatch
  <2> QED BY <2>1, <2>2
<1>2. CASE raced # <<>>
  <2>1. PICK k \in Key : raced = <<ContextEvent(k, FirstRef, 0)>>
    BY <1>2 DEF Races
  <2> DEFINE e == ContextEvent(k, FirstRef, 0)
  <2>2. e.subject = FirstRef /\ e.importance = 0
    BY EventGivenIs
  <2>3. PlainRef(FirstRef)
    BY SeededInv DEF PlainRef
  <2>4. S!EntityExists(sql, FirstRef)
    <3>1. FirstRef[1] = "people" /\ FirstRef \in RowIds(sql["people"])
      BY SeededInv DEF DbInv
    <3> QED BY <3>1, SameHelpers DEF S!EntityExists, S!EntityTables
  <2> HIDE DEF e
  <2>5. raced = <<e>>
    BY <2>1 DEF e
  <2>6. DOMAIN raced = 1..1 /\ raced[1] = e /\ 1..1 = {1}
    BY <2>5
  <2>7. EventFine(sql, e)
    BY <2>2, <2>4 DEF EventFine
  <2>8. EventBatch(raced, 1)
    BY <2>2, <2>3, <2>6 DEF EventBatch
  <2>9. \A i \in 1..1 : EventFine(sql, raced[i])
    BY <2>6, <2>7
  <2> QED BY <1>2, <2>6, <2>8, <2>9
<1> QED BY <1>1, <1>2

LEMMA BatchGiven ==
  ASSUME NEW batch \in Batches(ContextEvents), StoreAssumption
  PROVE  \E size \in Nat : /\ DOMAIN batch = 1..size
                           /\ \A i \in 1..size : /\ batch[i].subject \in Refs
                                                 /\ batch[i].importance \in Importances
<1>1. PICK size \in 0..MaxBatch : batch \in [1..size -> ContextEvents]
  BY DEF Batches
<1>2. size \in Nat /\ DOMAIN batch = 1..size
  BY <1>1
<1>3. ASSUME NEW i \in 1..size PROVE batch[i].subject \in Refs /\ batch[i].importance \in Importances
  <2>1. batch[i] \in ContextEvents
    BY <1>1
  <2>2. PICK k \in Key, s \in Refs, w \in Importances : batch[i] = ContextEvent(k, s, w)
    BY <2>1 DEF ContextEvents
  <2> QED BY <2>2, EventGivenIs
<1> QED BY <1>2, <1>3

\* What the two calls of an upsert are.
LEMMA EventsCalled ==
  ASSUME UpsertContextEvents
  PROVE  \E batch \in Batches(ContextEvents), raced \in Races :
           LET Bad(e) == e.importance = 101 \/ ~M!EntityExists(memory, e.subject)
           IN /\ (\E i \in DOMAIN batch : Bad(batch[i])) => \A i \in DOMAIN batch : Bad(batch[i])
              /\ \A i, j \in DOMAIN batch : batch[i].dedupeKey = batch[j].dedupeKey => batch[i] = batch[j]
              /\ raced # <<>> => \A i \in DOMAIN batch : ~Bad(batch[i])
              /\ Call(M!UpsertContextEvents(M!UpsertContextEvents(memory, raced, now).db, batch, now),
                      S!UpsertContextEvents(sql, batch, EventRows(raced), now))
<1>1. PICK batch \in Batches(ContextEvents), raced \in Races :
        LET Bad(e) == e.importance = 101 \/ ~M!EntityExists(memory, e.subject)
            other == [i \in DOMAIN raced |-> [key |-> raced[i].dedupeKey, fields |->
                                                ContextEventToRow(raced[i])]]
        IN /\ (\E i \in DOMAIN batch : Bad(batch[i])) => \A i \in DOMAIN batch : Bad(batch[i])
           /\ \A i, j \in DOMAIN batch : batch[i].dedupeKey = batch[j].dedupeKey => batch[i] = batch[j]
           /\ raced # <<>> => \A i \in DOMAIN batch : ~Bad(batch[i])
           /\ Call(M!UpsertContextEvents(M!UpsertContextEvents(memory, raced, now).db, batch, now),
                   S!UpsertContextEvents(sql, batch, other, now))
  BY DEF UpsertContextEvents, AllOrNone
<1>2. [i \in DOMAIN raced |-> [key |-> raced[i].dedupeKey, fields |-> ContextEventToRow(raced[i])]]
        = EventRows(raced)
  BY EventsTable DEF EventRows
<1> QED BY <1>1, <1>2

LEMMA EventsInStep ==
  ASSUME StoreAssumption, InStep, now \in Nat, family # "nested", UpsertContextEvents
  PROVE  InStep'
<1>1. memory = Seen(sql) /\ DbInv(sql) /\ Flat(sql)
  BY DEF InStep
<1>2. PICK batch \in Batches(ContextEvents), raced \in Races :
           LET Bad(e) == e.importance = 101 \/ ~M!EntityExists(memory, e.subject)
           IN /\ (\E i \in DOMAIN batch : Bad(batch[i])) => \A i \in DOMAIN batch : Bad(batch[i])
              /\ \A i, j \in DOMAIN batch : batch[i].dedupeKey = batch[j].dedupeKey => batch[i] = batch[j]
              /\ raced # <<>> => \A i \in DOMAIN batch : ~Bad(batch[i])
              /\ Call(M!UpsertContextEvents(M!UpsertContextEvents(memory, raced, now).db, batch, now),
                      S!UpsertContextEvents(sql, batch, EventRows(raced), now))
  BY EventsCalled
<1>3. PICK races \in Nat : /\ DOMAIN raced = 1..races /\ (races # 0 => raced # <<>>)
                           /\ EventBatch(raced, races) /\ \A i \in 1..races : EventFine(sql, raced[i])
  BY <1>1, RacedIs
<1>4. PICK size \in Nat : /\ DOMAIN batch = 1..size
                          /\ \A i \in 1..size : /\ batch[i].subject \in Refs
                                                /\ batch[i].importance \in Importances
  BY BatchGiven
<1>5. ASSUME NEW i \in 1..size
      PROVE  /\ batch[i].importance \in Nat /\ PlainRef(batch[i].subject)
             /\ EventFine(sql, batch[i]) <=> ~(batch[i].importance = 101 \/ ~M!EntityExists(memory, batch[i].subject))
  <2>1. batch[i].importance \in {40, 100, 101}
    BY <1>4 DEF Importances
  <2>2. PlainRef(batch[i].subject)
    BY <1>4, RefsPlain
  <2>3. M!EntityExists(memory, batch[i].subject) <=> S!EntityExists(sql, batch[i].subject)
    BY SameRows
  <2>4. batch[i].importance \in Nat /\ (batch[i].importance \in 0..100 <=> batch[i].importance # 101)
    BY <2>1
  <2> QED BY <2>2, <2>3, <2>4 DEF EventFine
<1>6. EventBatch(batch, size)
  BY <1>2, <1>4, <1>5 DEF EventBatch
<1>7. /\ (\E i \in 1..size : ~EventFine(sql, batch[i])) => \A i \in 1..size : ~EventFine(sql, batch[i])
      /\ races # 0 => \A i \in 1..size : EventFine(sql, batch[i])
  BY <1>2, <1>3, <1>4, <1>5
<1> DEFINE m == M!UpsertContextEvents(M!UpsertContextEvents(Seen(sql), raced, now).db, batch, now)
           s == S!UpsertContextEvents(sql, batch, EventRows(raced), now)
<1>8. Agrees(sql, m, s)
  BY <1>1, <1>3, <1>6, <1>7, UpsertContextEventsAgrees
<1>9. Call(m, s)
  BY <1>1, <1>2
<1> HIDE DEF m, s
<1> QED BY <1>8, <1>9, Called

-----------------------------------------------------------------------------
(***************************************************************************)
(* The invariant, and what it gives.                                       *)
(***************************************************************************)
LEMMA StoreInvIs == StoreInv <=> now \in Nat /\ DbInv(sql) /\ (family # "nested" => InStep)
BY DEF StoreInv, InStep

\* A step of the calls on which the stores need not agree: the schema holds.
LEMMA NestedKeeps ==
  ASSUME StoreAssumption, DbInv(sql), now \in Nat,
         UpsertContextEvents \/ InsertConclusion \/ Relate \/ DeleteMailMessages
  PROVE  DbInv(sql')
<1>1. CASE UpsertContextEvents
  <2>1. PICK batch \in Batches(ContextEvents), raced \in Races :
          sql' = S!UpsertContextEvents(sql, batch, EventRows(raced), now).db
    BY <1>1, EventsCalled DEF Call
  <2>2. PICK races \in Nat : /\ DOMAIN raced = 1..races /\ (races # 0 => raced # <<>>)
                             /\ EventBatch(raced, races) /\ \A i \in 1..races : EventFine(sql, raced[i])
    BY RacedIs
  <2>3. PICK size \in Nat : /\ DOMAIN batch = 1..size
                            /\ \A i \in 1..size : /\ batch[i].subject \in Refs
                                                  /\ batch[i].importance \in Importances
    BY BatchGiven
  <2>4. \A i \in 1..size : batch[i].importance \in Nat
    BY <2>3 DEF Importances
  <2>5. \A i \in 1..races : raced[i].importance \in Nat
    BY <2>2 DEF EventBatch
  <2>6. DbInv(S!UpsertContextEvents(sql, batch, EventRows(raced), now).db)
    BY <2>2, <2>3, <2>4, <2>5, UpsertContextEventsKeeps
  <2> QED BY <2>1, <2>6
<1>2. CASE InsertConclusion
  <2>1. PICK id, subject : sql' = S!InsertConclusion(sql, id, subject, now).db
    BY <1>2 DEF InsertConclusion, Call
  <2> QED BY <2>1, InsertConclusionKeeps
<1>3. CASE Relate
  <2>1. PICK from \in Refs, to \in Refs, confidence \in {1, 2} :
          sql' = S!Relate(sql, from, to, confidence, now).db
    BY <1>3 DEF Relate, Call
  <2>2. confidence \in Nat
    OBVIOUS
  <2> QED BY <2>1, <2>2, RelateKeeps
<1>4. CASE DeleteMailMessages
  <2>1. PICK a, ids : sql' = S!DeleteMailMessages(sql, a, ids).db
    BY <1>4 DEF DeleteMailMessages, Call
  <2> QED BY <2>1, DeleteMailMessagesAgrees
<1> QED BY <1>1, <1>2, <1>3, <1>4

LEMMA StoreStep ==
  ASSUME StoreAssumption, StoreInv, StoreNext
  PROVE  StoreInv'
<1>1. now \in Nat /\ DbInv(sql) /\ (family # "nested" => InStep)
  BY StoreInvIs
<1>2. now' \in Nat /\ family' = family
  BY <1>1 DEF StoreNext
<1>3. CASE family = "nested"
  <2>1. UpsertContextEvents \/ InsertConclusion \/ Relate \/ DeleteMailMessages
    BY <1>3 DEF StoreNext
  <2>2. DbInv(sql')
    BY <1>1, <2>1, NestedKeeps
  <2> QED BY <1>2, <1>3, <2>2 DEF StoreInv
<1>4. CASE family # "nested"
  <2>1. InStep
    BY <1>1, <1>4
  <2>2. ASSUME family = "mail" /\ (UpsertMailMessages \/ DeleteMailMessages \/ DeleteUntouched)
        PROVE  InStep'
    BY <1>1, <2>1, <2>2, MailInStep, UntouchedInStep
  <2>3. ASSUME family = "money" /\ (\/ UpsertMoneyAccounts \/ UpsertMoneyTransactions
                                   \/ DeleteMoneyTransactions \/ DeleteUntouched)
        PROVE  InStep'
    BY <1>1, <2>1, <2>3, MoneyInStep, UntouchedInStep
  <2>4. ASSUME family = "time" /\ (UpsertTimeEvents \/ DeleteTimeEvents \/ DeleteUntouched)
        PROVE  InStep'
    BY <1>1, <2>1, <2>4, TimeInStep, UntouchedInStep
  <2>5. ASSUME family = "context" /\ (UpsertContextEvents \/ InsertConclusion \/ Relate \/ DeleteMailMessages
                                     \/ Unrelate \/ SetContextEventAttention)
        PROVE  InStep'
    BY <1>1, <1>4, <2>1, <2>5, EventsInStep, ContextInStep
  <2>6. ASSUME family = "people" /\ (UpsertPerson \/ UpdatePerson \/ UpsertPersonIdentity)
        PROVE  InStep'
    BY <1>1, <2>1, <2>6, PeopleInStep
  <2>7. ASSUME family = "objects" /\ (CreateThread \/ UpdateThread \/ UpsertDocument
                                     \/ UpsertAttachmentDocument \/ UpdateDocument)
        PROVE  InStep'
    BY <1>1, <2>1, <2>7, ObjectsInStep
  <2>8. ASSUME family = "accounts" /\ (CreateConnectorAccount \/ UpdateConnectorAccount \/ UpsertSyncState)
        PROVE  InStep'
    BY <1>1, <2>1, <2>8, AccountsInStep
  <2>9. ASSUME family = "jobs" /\ (\/ UpsertDevice \/ UpdateDevice \/ CreateHandoff \/ UpdateHandoff
                                  \/ CreateIngestItem \/ UpdateIngestItem
                                  \/ CreateActionRequest \/ UpdateActionRequest)
        PROVE  InStep'
    BY <1>1, <2>1, <2>9, JobsInStep
  <2>10. InStep'
    BY <1>4, <2>2, <2>3, <2>4, <2>5, <2>6, <2>7, <2>8, <2>9 DEF StoreNext
  <2>11. DbInv(sql')
    BY <2>10 DEF InStep
  <2> QED BY <1>2, <2>10, <2>11 DEF StoreInv, InStep
<1> QED BY <1>3, <1>4

LEMMA StoresSteps ==
  /\ StoresAssumption /\ StoresInit => StoreInv /\ Init
  /\ [StoresNext]_allVars => [StoreNext]_storeVars /\ [Next]_vars
<1>1. ASSUME StoresAssumption, StoresInit PROVE StoreInv /\ Init
  <2>1. StoreAssumption /\ StoreInit /\ Init
    BY <1>1 DEF StoresAssumption, StoresInit
  <2>2. InStep /\ now \in Nat
    BY <2>1, InitInStep
  <2> QED BY <2>1, <2>2 DEF StoreInv, InStep
<1>2. ASSUME [StoresNext]_allVars PROVE [StoreNext]_storeVars /\ [Next]_vars
  BY <1>2 DEF StoresNext, allVars
<1> QED BY <1>1, <1>2

LEMMA StoreAlways == ASSUME StoresAssumption PROVE StoresSpec => []StoreInv
<1>1. StoresInit => StoreInv
  BY StoresSteps
<1>2. StoreInv /\ [StoresNext]_allVars => StoreInv'
  <2>1. StoreInv /\ UNCHANGED storeVars => StoreInv'
    BY DEF storeVars, StoreInv, DbInv, DbType, AllValid, Flat
  <2>2. StoreAssumption
    BY DEF StoresAssumption
  <2> QED BY <2>1, <2>2, StoreStep, StoresSteps
<1> QED BY <1>1, <1>2, PTL DEF StoresSpec

\* Every row of the database has the columns of its table.
THEOREM StoreType == ASSUME StoresAssumption PROVE StoresSpec => []DbType(sql)
<1>1. StoreInv => DbType(sql)
  BY DEF StoreInv, DbInv
<1> QED BY <1>1, StoreAlways, PTL

\* spine-store.ts and conformance.ts: one contract.
THEOREM StoresAreOne == ASSUME StoresAssumption PROVE StoresSpec => []StoresAgree
<1>1. StoreInv => StoresAgree
  BY DEF StoreInv, StoresAgree
<1> QED BY <1>1, StoreAlways, PTL

LEMMA ValidNothingDangles == ASSUME DbInv(sql) PROVE SqlNothingDangles
<1> DEFINE seen == Seen(sql)
<1>1. DbType(sql) /\ AllValid(sql)
  BY DEF DbInv
<1>2. \A ref : S!EntityExists(sql, ref) => S!EntityExists(seen, ref)
  <2>1. \A t \in S!EntityTables : RowIds(seen[t]) = RowIds(sql[t])
    BY <1>1, SeenIds DEF S!EntityTables, Tables
  <2> HIDE DEF seen
  <2> QED BY <2>1, SameHelpers DEF S!EntityExists
<1>3. ASSUME NEW table \in {"context_events", "conclusions"}, NEW k \in DOMAIN seen[table]
      PROVE  S!EntityExists(seen, seen[table][k].subject)
  <2>1. table \in Tables
    BY DEF Tables
  <2>2. k \in DOMAIN sql[table] /\ seen[table][k] = View(table, sql[table][k])
    BY <1>1, <2>1, SeenIs
  <2>3. View(table, sql[table][k]).subject = S!Subject(sql[table][k])
    BY SubjectIs DEF View, ContextEventFromRow, ConclusionFromRow
  <2>4. S!Valid(sql, table, k, sql[table][k])
    BY <1>1, <2>1, <2>2 DEF AllValid
  <2>5. S!EntityExists(sql, S!Subject(sql[table][k]))
    BY <2>4 DEF S!Valid
  <2> HIDE DEF seen
  <2> QED BY <1>2, <2>2, <2>3, <2>5
<1>4. ASSUME NEW e \in DOMAIN seen["relationships"]
      PROVE  S!EntityExists(seen, e.from) /\ S!EntityExists(seen, e.to)
  <2>1. "relationships" \in Tables
    BY DEF Tables
  <2>2. e \in DOMAIN sql["relationships"]
    BY <1>1, <2>1, SeenIs
  <2>3. S!Valid(sql, "relationships", e, sql["relationships"][e])
    BY <1>1, <2>1, <2>2 DEF AllValid
  <2>4. S!EntityExists(sql, e.from) /\ S!EntityExists(sql, e.to)
    BY <2>3 DEF S!Valid
  <2> HIDE DEF seen
  <2> QED BY <1>2, <2>4
<1> HIDE DEF seen
<1>5. NothingDangles(seen, S!EntityExists)
  BY <1>3, <1>4 DEF NothingDangles
<1> QED BY <1>5 DEF SqlNothingDangles, seen

\* vx_on_entity_deleted: through any depth of deletions and any calls.
THEOREM SchemaNothingDangles == ASSUME StoresAssumption PROVE StoresSpec => []SqlNothingDangles
<1>1. StoreInv => SqlNothingDangles
  BY ValidNothingDangles DEF StoreInv
<1> QED BY <1>1, StoreAlways, PTL

-----------------------------------------------------------------------------
(***************************************************************************)
(* Lists: sorted, and read page by page.                                   *)
(***************************************************************************)
LEMMA SameSorted ==
  ASSUME NEW n, NEW keys, NEW rank
  PROVE  M!Sorted(n, keys, rank) = Sorted(n, keys, rank) /\ S!Sorted(n, keys, rank) = Sorted(n, keys, rank)
BY DEF M!Sorted, S!Sorted, Sorted

LEMMA SameLists ==
  ASSUME NEW keys, NEW rank
  PROVE  /\ M!Ascending(keys, rank) = Ascending(keys, rank) /\ S!Ascending(keys, rank) = Ascending(keys, rank)
         /\ M!Descending(keys, rank) = Descending(keys, rank) /\ S!Descending(keys, rank) = Descending(keys, rank)
<1>1. M!Ascending(keys, rank) = Ascending(keys, rank) /\ S!Ascending(keys, rank) = Ascending(keys, rank)
  BY SameSorted, SameCardinality DEF M!Ascending, S!Ascending, Ascending
<1>2. M!Descending(keys, rank) = Descending(keys, rank)
  <2>1. \A s : M!Reverse(s) = Reverse(s)
    BY DEF M!Reverse, Reverse
  <2> QED BY <1>1, <2>1 DEF M!Descending, Descending
<1>3. S!Descending(keys, rank) = Descending(keys, rank)
  <2>1. \A s : S!Reverse(s) = Reverse(s)
    BY DEF S!Reverse, Reverse
  <2> QED BY <1>1, <2>1 DEF S!Descending, Descending
<1> QED BY <1>1, <1>2, <1>3

\* An order of finitely many keys, none of them twice.
InOrder(list, n, keys, rank) ==
  /\ list \in [1..n -> keys]
  /\ \A i, j \in 1..n : i < j => list[i] # list[j] /\ rank[list[i]] =< rank[list[j]]

LEMMA OneMore ==
  ASSUME NEW keys, NEW k \in keys, NEW rank, \A l \in keys : rank[l] \in Nat /\ rank[k] =< rank[l],
         NEW n \in Nat, NEW list, InOrder(list, n, keys \ {k}, rank)
  PROVE  InOrder([i \in 1..(n + 1) |-> IF i = 1 THEN k ELSE list[i - 1]], n + 1, keys, rank)
<1> DEFINE more == [i \in 1..(n + 1) |-> IF i = 1 THEN k ELSE list[i - 1]]
<1>1. \A i \in 1..(n + 1) : i # 1 => i - 1 \in 1..n /\ more[i] = list[i - 1] /\ list[i - 1] \in keys \ {k}
  BY DEF InOrder
<1>2. more[1] = k /\ more \in [1..(n + 1) -> keys]
  BY <1>1
<1> HIDE DEF more
<1>3. ASSUME NEW i \in 1..(n + 1), NEW j \in 1..(n + 1), i < j
      PROVE  more[i] # more[j] /\ rank[more[i]] =< rank[more[j]]
  <2>1. j # 1
    <3>1. \A a, b \in 1..(n + 1) : a < b => b # 1
      OBVIOUS
    <3> QED BY ONLY <3>1, <1>3
  <2>2. CASE i = 1
    BY <1>1, <1>2, <2>1, <2>2
  <2>3. CASE i # 1
    <3>1. i - 1 \in 1..n /\ j - 1 \in 1..n /\ i - 1 < j - 1
      <4>1. \A a, b \in 1..(n + 1) : a < b /\ a # 1 => a - 1 \in 1..n /\ b - 1 \in 1..n /\ a - 1 < b - 1
        OBVIOUS
      <4> QED BY ONLY <4>1, <1>3, <2>3
    <3> QED BY <1>1, <2>1, <2>3, <3>1 DEF InOrder
  <2> QED BY <2>2, <2>3
<1>4. InOrder(more, n + 1, keys, rank)
  BY <1>2, <1>3 DEF InOrder
<1> QED BY <1>4 DEF more

LEMMA OrderExists ==
  ASSUME NEW keys, IsFiniteSet(keys), NEW rank, \A k \in keys : rank[k] \in Nat
  PROVE  \E list : InOrder(list, Cardinality(keys), keys, rank)
<1> DEFINE Listed(some) == \E list : InOrder(list, Cardinality(some), some, rank)
           Bad == {n \in Nat : \E some \in SUBSET keys : Cardinality(some) = n /\ ~Listed(some)}
<1> SUFFICES ASSUME ~Listed(keys) PROVE FALSE
  OBVIOUS
<1>1. Cardinality(keys) \in Bad
  <2>1. keys \in SUBSET keys /\ Cardinality(keys) \in Nat
    BY FS_CardinalityType
  <2> QED BY <2>1
<1>2. Bad \in SUBSET Nat /\ Bad # {}
  BY <1>1
<1>3. Min(Bad) \in Bad /\ \A n \in Bad : Min(Bad) =< n
  <2> HIDE DEF Bad
  <2> QED BY <1>2, MinIs
<1>4. PICK some \in SUBSET keys : Cardinality(some) = Min(Bad) /\ ~Listed(some)
  BY <1>3
<1>5. IsFiniteSet(some) /\ Cardinality(some) \in Nat
  BY FS_Subset, FS_CardinalityType
<1>6. some # {}
  <2>1. SUFFICES ASSUME some = {} PROVE FALSE
    OBVIOUS
  <2>2. Cardinality(some) = 0
    BY <2>1, FS_EmptySet
  <2>3. InOrder(<<>>, 0, {}, rank)
    BY DEF InOrder
  <2> QED BY <1>4, <2>1, <2>2, <2>3
<1> DEFINE ranks == {rank[k] : k \in some}
<1>7. ranks \in SUBSET Nat /\ ranks # {}
  BY <1>6
<1>8. Min(ranks) \in ranks /\ \A r \in ranks : Min(ranks) =< r
  <2> HIDE DEF ranks
  <2> QED BY <1>7, MinIs
<1>9. PICK k \in some : rank[k] = Min(ranks)
  BY <1>8
<1> DEFINE less == some \ {k}
           n == Cardinality(less)
<1>10. IsFiniteSet(less) /\ n \in Nat /\ Cardinality(some) = n + 1
  <2>1. IsFiniteSet(less) /\ n \in Nat /\ n = Cardinality(some) - 1
    BY <1>5, FS_RemoveElement, FS_CardinalityType
  <2> QED BY <1>5, <2>1
<1>11. Listed(less)
  <2>1. n \notin Bad
    <3> HIDE DEF Bad, less, n
    <3> QED BY <1>2, <1>3, <1>4, <1>10
  <2>2. less \in SUBSET keys /\ Cardinality(less) = n
    OBVIOUS
  <2> HIDE DEF Listed, less
  <2> QED BY <1>10, <2>1, <2>2
<1>12. PICK list : InOrder(list, n, some \ {k}, rank)
  BY <1>11
<1>13. \A l \in some : rank[l] \in Nat /\ rank[k] =< rank[l]
  BY <1>8, <1>9
<1> HIDE DEF n
<1>14. \E more : InOrder(more, n + 1, some, rank)
  BY <1>10, <1>12, <1>13, OneMore
<1> QED BY <1>4, <1>10, <1>14

\* The sorted list of finitely many keys is a sequence of them.
LEMMA ListIs ==
  ASSUME NEW keys, IsFiniteSet(keys), NEW rank, \A k \in keys : rank[k] \in Nat
  PROVE  /\ Ascending(keys, rank) \in Seq(keys) /\ Len(Ascending(keys, rank)) = Cardinality(keys)
         /\ Descending(keys, rank) \in Seq(keys) /\ Len(Descending(keys, rank)) = Cardinality(keys)
<1> DEFINE n == Cardinality(keys)
           list == Ascending(keys, rank)
<1>1. n \in Nat
  BY FS_CardinalityType
<1>2. list \in [1..n -> keys]
  <2>1. \E some \in [1..n -> keys] : InOrder(some, n, keys, rank)
    BY OrderExists DEF InOrder
  <2> HIDE DEF n
  <2>2. Sorted(n, keys, rank) \in [1..n -> keys]
    BY <2>1 DEF Sorted, InOrder
  <2> QED BY <2>2 DEF Ascending, n
<1> HIDE DEF list
<1>3. list \in Seq(keys) /\ Len(list) = n
  BY <1>1, <1>2
<1>4. Reverse(list) \in Seq(keys) /\ Len(Reverse(list)) = n
  <2>1. Reverse(list) = [i \in 1..n |-> list[(n - i) + 1]]
    BY <1>3 DEF Reverse
  <2>2. \A i \in 1..n : (n - i) + 1 \in 1..n
    BY <1>1
  <2>3. Reverse(list) \in [1..n -> keys]
    BY <1>2, <2>1, <2>2
  <2> QED BY <1>1, <2>3
<1> QED BY <1>3, <1>4 DEF list, Descending

\* What a page read after got rows leaves to be read, when a query wants rows up
\* to want after its offset.
Rest(list, offset, want, got) == SubSeq(list, offset + got + 1, S!Least(offset + want, Len(list)))
NextPage(list, offset, want, got) ==
  SubSeq(list, offset + got + 1,
         S!Least(offset + got + S!Least(S!Least(Chunk, want - got), MaxRows), Len(list)))
Reads(list, offset, want, more, got) ==
  LET page == NextPage(list, offset, want, got)
  IN IF got >= want \/ page = <<>> THEN <<>>
     ELSE IF offset + got + Len(page) - offset >= Len(list) THEN page
     ELSE page \o more[got + Len(page)]

\* A page, and then the rest after it, are the rest.
LEMMA OneRead ==
  ASSUME StoreAssumption, NEW X, NEW list \in Seq(X), NEW offset \in Nat, offset =< Len(list),
         NEW want \in Nat, NEW got \in 0..Len(list), NEW more,
         \A later \in 0..Len(list) : later > got => more[later] = Rest(list, offset, want, later)
  PROVE  Reads(list, offset, want, more, got) = Rest(list, offset, want, got)
<1> DEFINE L == Len(list)
           end == S!Least(offset + want, L)
           from == offset + got + 1
           upto == S!Least(offset + got + S!Least(S!Least(Chunk, want - got), MaxRows), L)
           page == NextPage(list, offset, want, got)
           rest == Rest(list, offset, want, got)
<1>1. /\ L \in Nat /\ Chunk \in Nat /\ Chunk >= 1 /\ MaxRows \in Nat /\ Chunk =< MaxRows
  BY LenProperties DEF StoreAssumption
<1>2. /\ end \in Int /\ end =< L /\ end =< offset + want /\ (end = L \/ end = offset + want)
      /\ upto \in Int /\ upto =< L
      /\ got < want => upto =< offset + want /\ (upto = L \/ upto >= offset + got + 1)
      /\ upto \in {L, offset + got + Chunk, offset + want, offset + got + MaxRows}
  BY <1>1 DEF S!Least
<1>3. page = SubSeq(list, from, upto) /\ rest = SubSeq(list, from, end)
  BY DEF NextPage, Rest
<1>4. from \in Nat /\ from >= 1
  OBVIOUS
<1> HIDE DEF page, rest, end, upto
<1>5. CASE got >= want
  <2>1. end < from
    BY <1>1, <1>2, <1>5
  <2>2. rest = <<>>
    BY <1>2, <1>3, <1>4, <2>1, SubSeqEmpty
  <2> QED BY <1>5, <2>2 DEF Reads, page, rest
<1>6. ASSUME got < want, from > L
      PROVE  Reads(list, offset, want, more, got) = Rest(list, offset, want, got)
  <2>1. end < from /\ upto < from
    BY <1>1, <1>2, <1>6
  <2>2. rest = <<>> /\ page = <<>>
    BY <1>2, <1>3, <1>4, <2>1, SubSeqEmpty
  <2> QED BY <2>2 DEF Reads, page, rest
<1>7. ASSUME got < want, from =< L
      PROVE  Reads(list, offset, want, more, got) = Rest(list, offset, want, got)
  <2>1. from =< upto /\ upto =< end /\ end =< L
    BY <1>1, <1>2, <1>7
  <2>2. Len(page) = upto - from + 1 /\ page \in Seq(X) /\ page # <<>>
    <3>1. \A i \in from..upto : list[i] \in X
      BY <1>1, <1>2, <1>4, <2>1
    <3>2. page \in Seq(X) /\ Len(page) = upto - from + 1
      BY <1>2, <1>3, <1>4, <2>1, <3>1, SubSeqProperties
    <3> QED BY <1>2, <1>4, <2>1, <3>2
  <2>3. offset + got + Len(page) = upto
    BY <1>1, <1>2, <1>4, <2>2
  <2>4. ASSUME upto - offset >= L
        PROVE  Reads(list, offset, want, more, got) = Rest(list, offset, want, got)
    <3>1. upto = end
      BY <1>1, <1>2, <2>1, <2>4
    <3>2. page = rest
      BY <1>3, <3>1
    <3>3. offset + got + Len(page) - offset >= Len(list)
      BY <2>3, <2>4
    <3>4. ~(got >= want)
      BY <1>7
    <3> QED BY <2>2, <3>2, <3>3, <3>4 DEF Reads, page, rest
  <2>5. ASSUME ~(upto - offset >= L)
        PROVE  Reads(list, offset, want, more, got) = Rest(list, offset, want, got)
    <3> DEFINE later == got + Len(page)
    <3>1. later \in 0..L /\ later > got /\ offset + later = upto
      BY <1>1, <1>2, <1>4, <2>1, <2>2, <2>3, <2>5
    <3>2. more[later] = Rest(list, offset, want, later)
      BY <3>1
    <3>3. Rest(list, offset, want, later) = SubSeq(list, upto + 1, end)
      <4> HIDE DEF later
      <4> QED BY <3>1 DEF Rest, end
    <3>4. page \o SubSeq(list, upto + 1, end) = rest
      <4>1. from \in 1..Len(list) + 1 /\ upto \in from - 1..Len(list) /\ end \in upto..Len(list)
        BY <1>1, <1>2, <1>4, <1>7, <2>1
      <4> QED BY <1>3, <4>1, ConcatAdjacentSubSeq
    <3>5. ~(offset + got + Len(page) - offset >= Len(list)) /\ ~(got >= want)
      BY <1>7, <2>3, <2>5
    <3>6. Reads(list, offset, want, more, got) = page \o more[later]
      BY <2>2, <3>5 DEF Reads, page
    <3> QED BY <3>2, <3>3, <3>4, <3>6 DEF rest
  <2> QED BY <2>4, <2>5
<1> QED BY <1>1, <1>4, <1>5, <1>6, <1>7

\* pageAll reads what page cuts out, however small the pages are.
LEMMA PagesAreOne ==
  ASSUME StoreAssumption, NEW X, NEW list \in Seq(X), NEW q, q.offset \in Nat, q.offset =< Len(list),
         q.limit = None \/ q.limit \in Nat
  PROVE  S!PageAll(list, q) = M!Page(list, q)
<1> DEFINE L == Len(list)
           offset == q.offset
           want == IF q.limit = None THEN L ELSE q.limit
           Solves(f) == f = [got \in 0..L |-> Reads(list, offset, want, f, got)]
           read == CHOOSE f : Solves(f)
<1>1. L \in Nat /\ want \in Nat /\ offset \in Nat /\ offset =< Len(list)
  BY LenProperties
<1>2. S!PageAll(list, q) = read[0]
  BY DEF S!PageAll, Reads, NextPage
<1> HIDE DEF want, offset
<1>3. Solves([got \in 0..L |-> Rest(list, offset, want, got)])
  <2> DEFINE f == [got \in 0..L |-> Rest(list, offset, want, got)]
  <2>1. \A later \in 0..L : f[later] = Rest(list, offset, want, later)
    OBVIOUS
  <2> HIDE DEF f
  <2>2. ASSUME NEW got \in 0..L PROVE Reads(list, offset, want, f, got) = Rest(list, offset, want, got)
    <3>1. \A later \in 0..Len(list) : later > got => f[later] = Rest(list, offset, want, later)
      BY <2>1
    <3> QED BY <1>1, <3>1, OneRead
  <2>3. f = [got \in 0..L |-> Reads(list, offset, want, f, got)]
    BY <2>2 DEF f
  <2> QED BY <2>3 DEF f
<1>4. Solves(read)
  BY <1>3
<1> HIDE DEF read
<1>5. \A got \in 0..L : read[got] = Reads(list, offset, want, read, got)
  <2>1. read = [got \in 0..L |-> Reads(list, offset, want, read, got)]
    BY <1>4
  <2> DEFINE g == [got \in 0..L |-> Reads(list, offset, want, read, got)]
  <2>2. \A got \in 0..L : g[got] = Reads(list, offset, want, read, got)
    OBVIOUS
  <2> HIDE DEF g
  <2>3. read = g
    BY <2>1 DEF g
  <2> QED BY <2>2, <2>3
<1>6. \A got \in 0..L : read[got] = Rest(list, offset, want, got)
  <2> DEFINE Bad == {got \in 0..L : read[got] # Rest(list, offset, want, got)}
  <2> SUFFICES ASSUME Bad # {} PROVE FALSE
    OBVIOUS
  <2>1. Bad \in SUBSET (0..L)
    OBVIOUS
  <2>2. PICK got \in Bad : \A later \in Bad : later =< got
    <3> DEFINE Lefts == {L - got : got \in Bad}
    <3>1. Lefts \in SUBSET Nat /\ Lefts # {}
      BY <1>1, <2>1
    <3>2. Min(Lefts) \in Lefts /\ \A n \in Lefts : Min(Lefts) =< n
      <4> HIDE DEF Lefts
      <4> QED BY <3>1, MinIs
    <3>3. PICK got \in Bad : Min(Lefts) = L - got
      BY <3>2
    <3>4. \A later \in Bad : L - got =< L - later
      BY <3>2, <3>3
    <3> HIDE DEF Lefts, Bad
    <3> QED BY <1>1, <2>1, <3>4
  <2>3. got \in 0..L /\ read[got] # Rest(list, offset, want, got)
    BY <2>2
  <2>4. \A later \in 0..Len(list) : later > got => read[later] = Rest(list, offset, want, later)
    BY <2>2, <2>3
  <2> HIDE DEF Bad
  <2>5. Reads(list, offset, want, read, got) = Rest(list, offset, want, got)
    BY <1>1, <2>3, <2>4, OneRead
  <2> QED BY <1>5, <2>3, <2>5
<1>7. read[0] = SubSeq(list, offset + 1, S!Least(offset + want, L))
  BY <1>1, <1>6 DEF Rest
<1>8. M!Page(list, q) = SubSeq(list, offset + 1, S!Least(offset + want, L))
  <2>1. S!Least(offset + want, L) = IF offset + want < L THEN offset + want ELSE L
    BY <1>1 DEF S!Least
  <2> QED BY <2>1 DEF M!Page, want, offset
<1> QED BY <1>2, <1>7, <1>8

-----------------------------------------------------------------------------
(***************************************************************************)
(* Every read of the two stores answers alike.                             *)
(***************************************************************************)
\* What the queries of ReadsAgree may ask of n rows.
Asked(q, n) ==
  q.offset \in {0, 1} /\ q.limit \in {1, 2, None} /\ (q.offset < n \/ q.offset = 0)

LEMMA PagesAgree ==
  ASSUME StoreAssumption, NEW keys, IsFiniteSet(keys), NEW rank, \A k \in keys : rank[k] \in Nat,
         NEW q, Asked(q, Cardinality(keys))
  PROVE  /\ S!PageAll(S!Descending(keys, rank), q) = M!Page(M!Descending(keys, rank), q)
         /\ S!PageAll(S!Ascending(keys, rank), q) = M!Page(M!Ascending(keys, rank), q)
<1>1. /\ Ascending(keys, rank) \in Seq(keys) /\ Len(Ascending(keys, rank)) = Cardinality(keys)
      /\ Descending(keys, rank) \in Seq(keys) /\ Len(Descending(keys, rank)) = Cardinality(keys)
  BY ListIs
<1>2. q.offset \in Nat /\ (q.limit = None \/ q.limit \in Nat) /\ q.offset =< Cardinality(keys)
  BY FS_CardinalityType DEF Asked
<1>3. ASSUME NEW list \in Seq(keys), Len(list) = Cardinality(keys)
      PROVE  S!PageAll(list, q) = M!Page(list, q)
  BY <1>2, <1>3, PagesAreOne
<1> QED BY <1>1, <1>3, SameLists

LEMMA ReadRow ==
  ASSUME NEW db, DbType(db), NEW t \in Tables
  PROVE  /\ DOMAIN Seen(db)[t] = DOMAIN db[t] /\ IsFiniteSet(DOMAIN db[t])
         /\ \A k \in DOMAIN db[t] : Seen(db)[t][k] = View(t, db[t][k]) /\ RowType(t, k, db[t][k])
<1>1. Seen(db)[t] = [k \in DOMAIN db[t] |-> View(t, db[t][k])]
  BY SeenIs
<1>2. TableType(t, db[t])
  BY DEF DbType
<1> QED BY <1>1, <1>2 DEF TableType

\* A column that is read as it is stored, and lists are sorted by.
RankColumn(t, f) ==
  \A k, r : RowType(t, k, r) => View(t, r)[f] = r[f] /\ r[f] \in Nat

LEMMA RankColumns ==
  /\ RankColumn("mail_messages", "receivedAt") /\ RankColumn("context_events", "importance")
  /\ RankColumn("relationships", "createdAt") /\ RankColumn("documents", "updatedAt")
  /\ RankColumn("devices", "createdAt") /\ RankColumn("ingest_items", "createdAt")
<1>1. RankColumn("mail_messages", "receivedAt")
  BY ColumnsOf DEF RankColumn, RowType, View, MailMessageFromRow
<1>2. RankColumn("context_events", "importance")
  BY ColumnsOf DEF RankColumn, RowType, View, ContextEventFromRow
<1>3. RankColumn("relationships", "createdAt") /\ RankColumn("documents", "updatedAt")
  BY ColumnsOf DEF RankColumn, RowType, View
<1>4. RankColumn("devices", "createdAt") /\ RankColumn("ingest_items", "createdAt")
  BY ColumnsOf DEF RankColumn, RowType, View
<1> QED BY <1>1, <1>2, <1>3, <1>4

LEMMA SameColumn ==
  ASSUME NEW db, DbType(db), NEW t \in Tables, NEW f, RankColumn(t, f)
  PROVE  /\ M!Column(Seen(db)[t], f) = S!Column(db[t], f)
         /\ \A k \in DOMAIN db[t] : S!Column(db[t], f)[k] \in Nat
<1> DEFINE seen == Seen(db)[t]
           rows == db[t]
<1>1. DOMAIN seen = DOMAIN rows /\ \A k \in DOMAIN rows : seen[k][f] = rows[k][f] /\ rows[k][f] \in Nat
  BY ReadRow DEF RankColumn
<1> HIDE DEF seen, rows
<1>2. M!Column(seen, f) = S!Column(rows, f) /\ \A k \in DOMAIN rows : S!Column(rows, f)[k] \in Nat
  BY <1>1 DEF M!Column, S!Column
<1> QED BY <1>2 DEF seen, rows

LEMMA ListsAgree ==
  ASSUME StoreAssumption, NEW db, DbType(db), NEW t \in Tables, NEW f, RankColumn(t, f),
         NEW keys \in SUBSET DOMAIN db[t], NEW q, Asked(q, Cardinality(keys))
  PROVE  /\ S!PageAll(S!Descending(keys, S!Column(db[t], f)), q)
              = M!Page(M!Descending(keys, M!Column(Seen(db)[t], f)), q)
         /\ S!PageAll(S!Ascending(keys, S!Column(db[t], f)), q)
              = M!Page(M!Ascending(keys, M!Column(Seen(db)[t], f)), q)
<1> DEFINE rank == S!Column(db[t], f)
<1>1. M!Column(Seen(db)[t], f) = rank /\ \A k \in keys : rank[k] \in Nat
  BY SameColumn
<1>2. IsFiniteSet(keys)
  BY ReadRow, FS_Subset
<1> HIDE DEF rank
<1>3. /\ S!PageAll(S!Descending(keys, rank), q) = M!Page(M!Descending(keys, rank), q)
      /\ S!PageAll(S!Ascending(keys, rank), q) = M!Page(M!Ascending(keys, rank), q)
  BY <1>1, <1>2, PagesAgree
<1> QED BY <1>1, <1>3 DEF rank

LEMMA MailReads ==
  ASSUME StoreAssumption, NEW db, DbType(db), NEW a
  PROVE  /\ \A q : Asked(q, Cardinality({k \in DOMAIN Seen(db).mail_messages : k[1] = a})) =>
              M!ListMailMessages(Seen(db), a, q).answer = S!ListMailMessages(db, a, q).answer
         /\ \A x : M!FindMailMessageByExternalId(Seen(db), a, x).answer
                     = S!FindMailMessageByExternalId(db, a, x).answer
<1>1. "mail_messages" \in Tables
  BY DEF Tables
<1> DEFINE own == {k \in DOMAIN db.mail_messages : k[1] = a}
<1>2. {k \in DOMAIN Seen(db).mail_messages : k[1] = a} = own /\ own \in SUBSET DOMAIN db["mail_messages"]
  BY <1>1, ReadRow
<1>3. ASSUME NEW q, Asked(q, Cardinality(own))
      PROVE  M!ListMailMessages(Seen(db), a, q).answer = S!ListMailMessages(db, a, q).answer
  <2>1. RankColumn("mail_messages", "receivedAt")
    BY RankColumns
  <2> DEFINE seen == Seen(db)
  <2> HIDE DEF own, seen
  <2>2. S!PageAll(S!Descending(own, S!Column(db["mail_messages"], "receivedAt")), q)
              = M!Page(M!Descending(own, M!Column(seen["mail_messages"], "receivedAt")), q)
    BY <1>1, <1>2, <1>3, <2>1, ListsAgree DEF seen
  <2>3. M!ListMailMessages(seen, a, q).answer
          = <<"ok", M!Page(M!Descending(own, M!Column(seen.mail_messages, "receivedAt")), q)>>
    BY <1>2, SameHelpers DEF M!ListMailMessages, seen
  <2>4. S!ListMailMessages(db, a, q).answer
          = <<"ok", S!PageAll(S!Descending(own, S!Column(db.mail_messages, "receivedAt")), q)>>
    BY SameHelpers DEF S!ListMailMessages, own
  <2> QED BY <2>2, <2>3, <2>4 DEF seen
<1>4. ASSUME NEW x
      PROVE  M!FindMailMessageByExternalId(Seen(db), a, x).answer
               = S!FindMailMessageByExternalId(db, a, x).answer
  <2>1. DOMAIN Seen(db).mail_messages = DOMAIN db.mail_messages
        /\ \A k \in DOMAIN db.mail_messages :
             Seen(db).mail_messages[k] = S!MailMessageFromRow(db.mail_messages[k])
    BY <1>1, ReadRow DEF View, MailMessageFromRow, S!MailMessageFromRow
  <2> QED BY <2>1, SameHelpers DEF M!FindMailMessageByExternalId, S!FindMailMessageByExternalId, M!Get, S!Find
<1> QED BY <1>2, <1>3, <1>4

LEMMA MoneyReads ==
  ASSUME NEW db, DbType(db), NEW a
  PROVE  /\ M!ListMoneyTransactions(Seen(db), a).answer = S!ListMoneyTransactions(db, a).answer
         /\ M!ListMoneyAccounts(Seen(db), a).answer = S!ListMoneyAccounts(db, a).answer
<1>1. "money_transactions" \in Tables /\ "money_accounts" \in Tables
  BY DEF Tables
<1>2. DOMAIN Seen(db).money_transactions = DOMAIN db.money_transactions
  BY <1>1, ReadRow
<1>3. /\ DOMAIN Seen(db).money_accounts = DOMAIN db.money_accounts
      /\ \A k \in DOMAIN db.money_accounts :
           Seen(db).money_accounts[k] = MoneyAccountFromRow(db.money_accounts[k])
  BY <1>1, ReadRow DEF View
<1>4. \A r : S!MoneyAccountFromRow(r) = MoneyAccountFromRow(r)
  BY SameDecimals DEF S!MoneyAccountFromRow, MoneyAccountFromRow
<1> DEFINE some == {k \in DOMAIN db.money_accounts : a \in {None, k[1]}}
<1>5. {Seen(db).money_accounts[k] : k \in some} = {S!MoneyAccountFromRow(db.money_accounts[k]) : k \in some}
  BY <1>3, <1>4
<1> QED BY <1>2, <1>3, <1>5, SameHelpers DEF M!ListMoneyTransactions, S!ListMoneyTransactions,
     M!ListMoneyAccounts, S!ListMoneyAccounts

LEMMA TimeReads ==
  ASSUME NEW db, DbType(db), NEW from, NEW to
  PROVE  M!ListTimeEvents(Seen(db), from, to).answer = S!ListTimeEvents(db, from, to).answer
<1>1. "time_events" \in Tables
  BY DEF Tables
<1>2. /\ DOMAIN Seen(db).time_events = DOMAIN db.time_events
      /\ \A k \in DOMAIN db.time_events : Seen(db).time_events[k] = db.time_events[k]
  BY <1>1, ReadRow DEF View
<1> DEFINE seen == Seen(db).time_events
           rows == db.time_events
<1>3. {k \in DOMAIN seen : seen[k].startsAt =< to /\ seen[k].endsAt >= from}
        = {k \in DOMAIN rows : rows[k].startsAt =< to /\ rows[k].endsAt >= from}
  BY <1>2
<1> QED BY <1>3, SameHelpers DEF M!ListTimeEvents, S!ListTimeEvents

LEMMA EventReads ==
  ASSUME StoreAssumption, NEW db, DbType(db), NEW attention, NEW q,
         Asked(q, Cardinality({k \in DOMAIN Seen(db).context_events :
                                 Seen(db).context_events[k].attention \in attention}))
  PROVE  M!ListContextEvents(Seen(db), attention, q).answer = S!ListContextEvents(db, attention, q).answer
<1>1. "context_events" \in Tables /\ RankColumn("context_events", "importance")
  BY RankColumns DEF Tables
<1>2. /\ DOMAIN Seen(db).context_events = DOMAIN db.context_events
      /\ \A k \in DOMAIN db.context_events :
           Seen(db).context_events[k].attention = db.context_events[k].attention
  <2>1. \A r : View("context_events", r) = ContextEventFromRow(r)
    BY DEF View
  <2>2. \A r : ContextEventFromRow(r).attention = r.attention
    BY DEF ContextEventFromRow
  <2> QED BY <1>1, <2>1, <2>2, ReadRow
<1> DEFINE wanted == {k \in DOMAIN db.context_events : db.context_events[k].attention \in attention}
           seen == Seen(db)
<1>3. {k \in DOMAIN seen.context_events : seen.context_events[k].attention \in attention} = wanted
  BY <1>2
<1>4. wanted \in SUBSET DOMAIN db["context_events"] /\ Asked(q, Cardinality(wanted))
  BY <1>3
<1>5. M!ListContextEvents(seen, attention, q).answer
        = <<"ok", M!Page(M!Descending(wanted, M!Column(seen.context_events, "importance")), q)>>
  BY <1>3, SameHelpers DEF M!ListContextEvents
<1>6. S!ListContextEvents(db, attention, q).answer
        = <<"ok", S!PageAll(S!Descending(wanted, S!Column(db.context_events, "importance")), q)>>
  BY SameHelpers DEF S!ListContextEvents
<1> HIDE DEF wanted, seen
<1>7. S!PageAll(S!Descending(wanted, S!Column(db["context_events"], "importance")), q)
        = M!Page(M!Descending(wanted, M!Column(seen["context_events"], "importance")), q)
  BY <1>1, <1>4, ListsAgree DEF seen
<1> QED BY <1>5, <1>6, <1>7 DEF seen

LEMMA EdgeReads ==
  ASSUME StoreAssumption, NEW db, DbType(db), NEW q, Asked(q, Cardinality(DOMAIN Seen(db).relationships))
  PROVE  M!ListRelationships(Seen(db), q).answer = S!ListRelationships(db, q).answer
<1>1. "relationships" \in Tables /\ RankColumn("relationships", "createdAt")
  BY RankColumns DEF Tables
<1> DEFINE keys == DOMAIN db.relationships
           seen == Seen(db)
<1>2. DOMAIN seen.relationships = keys /\ keys \in SUBSET DOMAIN db["relationships"]
  BY <1>1, ReadRow
<1>3. M!ListRelationships(seen, q).answer
        = <<"ok", M!Page(M!Ascending(keys, M!Column(seen.relationships, "createdAt")), q)>>
  BY <1>2, SameHelpers DEF M!ListRelationships
<1>4. S!ListRelationships(db, q).answer
        = <<"ok", S!PageAll(S!Ascending(keys, S!Column(db.relationships, "createdAt")), q)>>
  BY SameHelpers DEF S!ListRelationships
<1> HIDE DEF keys, seen
<1>5. S!PageAll(S!Ascending(keys, S!Column(db["relationships"], "createdAt")), q)
        = M!Page(M!Ascending(keys, M!Column(seen["relationships"], "createdAt")), q)
  BY <1>1, <1>2, ListsAgree DEF seen
<1> QED BY <1>3, <1>4, <1>5 DEF seen

LEMMA NeighborReads ==
  ASSUME NEW db, DbInv(db), NEW node
  PROVE  M!Neighbors(Seen(db), node).answer = S!Neighbors(db, node).answer
<1>1. "relationships" \in Tables /\ DbType(db)
  BY DEF Tables, DbInv
<1>2. /\ DOMAIN Seen(db).relationships = DOMAIN db.relationships
      /\ \A e \in DOMAIN db.relationships : Seen(db).relationships[e] = db.relationships[e]
  BY <1>1, ReadRow DEF View
<1>3. \A e \in DOMAIN db.relationships : e.from # e.to
  BY <1>1 DEF DbInv, AllValid, S!Valid
<1> DEFINE all == DOMAIN db.relationships
           Row(e, direction, ref) ==
             [direction |-> direction, ref |-> ref, confidence |-> db.relationships[e].confidence]
           Out == {Row(e, "out", e.to) : e \in {e \in all : e.from = node}}
           In == {Row(e, "in", e.from) : e \in {e \in all : e.to = node}}
           Both == {[direction |-> IF e.from = node THEN "out" ELSE "in",
                     ref |-> IF e.from = node THEN e.to ELSE e.from,
                     confidence |-> Seen(db).relationships[e].confidence] :
                      e \in {e \in DOMAIN Seen(db).relationships : node \in {e.from, e.to}}}
<1>4. ASSUME NEW r \in Both PROVE r \in Out \cup In
  BY <1>2, <1>3, <1>4
<1>5. ASSUME NEW r \in Out PROVE r \in Both
  BY <1>2, <1>5
<1>6. ASSUME NEW r \in In PROVE r \in Both
  BY <1>2, <1>3, <1>6
<1>7. Both = Out \cup In
  <2> HIDE DEF Both, Out, In
  <2> QED BY <1>4, <1>5, <1>6
<1> QED BY <1>7, SameHelpers DEF M!Neighbors, S!Neighbors

LEMMA ConclusionReads ==
  ASSUME NEW db, DbType(db), NEW ref
  PROVE  M!ListConclusions(Seen(db), ref).answer = S!ListConclusions(db, ref).answer
<1>1. "conclusions" \in Tables
  BY DEF Tables
<1>2. /\ DOMAIN Seen(db).conclusions = DOMAIN db.conclusions
      /\ \A k \in DOMAIN db.conclusions : Seen(db).conclusions[k].subject = S!Subject(db.conclusions[k])
  <2>1. \A r : View("conclusions", r) = ConclusionFromRow(r)
    BY DEF View
  <2>2. \A r : ConclusionFromRow(r).subject = S!Subject(r)
    BY SubjectIs DEF ConclusionFromRow
  <2> QED BY <1>1, <2>1, <2>2, ReadRow
<1> QED BY <1>2, SameHelpers DEF M!ListConclusions, S!ListConclusions

LEMMA PlainRead ==
  ASSUME NEW db, DbType(db), NEW t \in Plain
  PROVE  /\ t \in Tables /\ DOMAIN Seen(db)[t] = DOMAIN db[t]
         /\ \A k \in DOMAIN db[t] : Seen(db)[t][k] = db[t][k]
BY PlainView, ReadRow

LEMMA PeopleReads ==
  ASSUME NEW db, DbType(db)
  PROVE  /\ \A merged \in BOOLEAN : M!ListPeople(Seen(db), merged).answer = S!ListPeople(db, merged).answer
         /\ \A value : M!FindPersonByIdentity(Seen(db), value).answer = S!FindPersonByIdentity(db, value).answer
<1>1. "people" \in Plain /\ "person_identities" \in Plain
  BY DEF Plain
<1>2. /\ DOMAIN Seen(db).people = DOMAIN db.people
      /\ \A k \in DOMAIN db.people : Seen(db).people[k] = db.people[k]
      /\ DOMAIN Seen(db).person_identities = DOMAIN db.person_identities
      /\ \A k \in DOMAIN db.person_identities : Seen(db).person_identities[k] = db.person_identities[k]
  BY <1>1, PlainRead
<1>3. ASSUME NEW merged \in BOOLEAN
      PROVE  M!ListPeople(Seen(db), merged).answer = S!ListPeople(db, merged).answer
  BY <1>2, SameHelpers DEF M!ListPeople, S!ListPeople
<1>4. ASSUME NEW value
      PROVE  M!FindPersonByIdentity(Seen(db), value).answer = S!FindPersonByIdentity(db, value).answer
  BY <1>2, SameHelpers DEF M!FindPersonByIdentity, S!FindPersonByIdentity
<1> QED BY <1>3, <1>4

LEMMA ObjectReads ==
  ASSUME NEW db, DbType(db)
  PROVE  /\ \A status : M!ListThreads(Seen(db), status).answer = S!ListThreads(db, status).answer
         /\ \A hash : M!FindDocumentByHash(Seen(db), hash).answer = S!FindDocumentByHash(db, hash).answer
         /\ \A ref : M!FindDocumentBySourceRef(Seen(db), ref).answer = S!FindDocumentBySourceRef(db, ref).answer
<1>1. "threads" \in Plain /\ "documents" \in Plain
  BY DEF Plain
<1>2. /\ DOMAIN Seen(db).threads = DOMAIN db.threads
      /\ \A k \in DOMAIN db.threads : Seen(db).threads[k] = db.threads[k]
      /\ DOMAIN Seen(db).documents = DOMAIN db.documents
      /\ \A k \in DOMAIN db.documents : Seen(db).documents[k] = db.documents[k]
  BY <1>1, PlainRead
<1>3. ASSUME NEW status PROVE M!ListThreads(Seen(db), status).answer = S!ListThreads(db, status).answer
  BY <1>2, SameHelpers DEF M!ListThreads, S!ListThreads
<1>4. ASSUME NEW hash PROVE M!FindDocumentByHash(Seen(db), hash).answer = S!FindDocumentByHash(db, hash).answer
  BY <1>2, SameHelpers DEF M!FindDocumentByHash, S!FindDocumentByHash
<1>5. ASSUME NEW ref
      PROVE  M!FindDocumentBySourceRef(Seen(db), ref).answer = S!FindDocumentBySourceRef(db, ref).answer
  BY <1>2, SameHelpers DEF M!FindDocumentBySourceRef, S!FindDocumentBySourceRef
<1> QED BY <1>3, <1>4, <1>5

LEMMA DocumentReads ==
  ASSUME StoreAssumption, NEW db, DbType(db), NEW since, NEW q,
         Asked(q, Cardinality({k \in DOMAIN Seen(db).documents : Seen(db).documents[k].updatedAt >= since}))
  PROVE  M!ListDocuments(Seen(db), since, q).answer = S!ListDocuments(db, since, q).answer
<1>1. "documents" \in Plain /\ "documents" \in Tables /\ RankColumn("documents", "updatedAt")
  BY RankColumns DEF Plain, Tables
<1>2. /\ DOMAIN Seen(db).documents = DOMAIN db.documents
      /\ \A k \in DOMAIN db.documents : Seen(db).documents[k] = db.documents[k]
  BY <1>1, PlainRead
<1> DEFINE wanted == {k \in DOMAIN db.documents : db.documents[k].updatedAt >= since}
           seen == Seen(db)
<1>3. {k \in DOMAIN seen.documents : seen.documents[k].updatedAt >= since} = wanted
  BY <1>2
<1>4. wanted \in SUBSET DOMAIN db["documents"] /\ Asked(q, Cardinality(wanted))
  BY <1>3
<1>5. M!ListDocuments(seen, since, q).answer
        = <<"ok", M!Page(M!Descending(wanted, M!Column(seen.documents, "updatedAt")), q)>>
  BY <1>3, SameHelpers DEF M!ListDocuments
<1>6. S!ListDocuments(db, since, q).answer
        = <<"ok", S!PageAll(S!Descending(wanted, S!Column(db.documents, "updatedAt")), q)>>
  BY SameHelpers DEF S!ListDocuments
<1> HIDE DEF wanted, seen
<1>7. S!PageAll(S!Descending(wanted, S!Column(db["documents"], "updatedAt")), q)
        = M!Page(M!Descending(wanted, M!Column(seen["documents"], "updatedAt")), q)
  BY <1>1, <1>4, ListsAgree DEF seen
<1> QED BY <1>5, <1>6, <1>7 DEF seen

LEMMA AccountReads ==
  ASSUME NEW db, DbType(db)
  PROVE  /\ M!ListConnectorAccounts(Seen(db)).answer = S!ListConnectorAccounts(db).answer
         /\ \A a : /\ M!FindConnectorAccount(Seen(db), a).answer = S!FindConnectorAccount(db, a).answer
                   /\ M!ListSyncStates(Seen(db), a).answer = S!ListSyncStates(db, a).answer
                   /\ M!GetSyncState(Seen(db), a, "mail").answer = S!GetSyncState(db, a, "mail").answer
<1>1. "connector_accounts" \in Plain /\ "sync_states" \in Tables
  BY DEF Plain, Tables
<1>2. /\ DOMAIN Seen(db).connector_accounts = DOMAIN db.connector_accounts
      /\ \A k \in DOMAIN db.connector_accounts : Seen(db).connector_accounts[k] = db.connector_accounts[k]
  BY <1>1, PlainRead
<1>3. /\ DOMAIN Seen(db).sync_states = DOMAIN db.sync_states
      /\ \A k \in DOMAIN db.sync_states : Seen(db).sync_states[k] = S!SyncStateFromRow(db.sync_states[k])
  <2>1. \A r : View("sync_states", r) = S!SyncStateFromRow(r)
    BY DEF View, SyncStateFromRow, S!SyncStateFromRow, ReconcileFromDb, S!ReconcileFromDb
  <2> QED BY <1>1, <2>1, ReadRow
<1>4. M!ListConnectorAccounts(Seen(db)).answer = S!ListConnectorAccounts(db).answer
  BY <1>2, SameHelpers DEF M!ListConnectorAccounts, S!ListConnectorAccounts
<1>5. ASSUME NEW a
      PROVE  M!FindConnectorAccount(Seen(db), a).answer = S!FindConnectorAccount(db, a).answer
  BY <1>2, SameHelpers DEF M!FindConnectorAccount, S!FindConnectorAccount, M!Get, S!Find
<1>6. ASSUME NEW a PROVE M!ListSyncStates(Seen(db), a).answer = S!ListSyncStates(db, a).answer
  <2> DEFINE some == {k \in DOMAIN db.sync_states : a \in {None, k[1]}}
  <2>1. {Seen(db).sync_states[k] : k \in some} = {S!SyncStateFromRow(db.sync_states[k]) : k \in some}
    BY <1>3
  <2> QED BY <1>3, <2>1, SameHelpers DEF M!ListSyncStates, S!ListSyncStates
<1>7. ASSUME NEW a
      PROVE  M!GetSyncState(Seen(db), a, "mail").answer = S!GetSyncState(db, a, "mail").answer
  BY <1>3, SameHelpers DEF M!GetSyncState, S!GetSyncState, M!Get, S!Find
<1> QED BY <1>4, <1>5, <1>6, <1>7

LEMMA JobReads ==
  ASSUME NEW db, DbType(db)
  PROVE  /\ \A states : M!ListHandoffs(Seen(db), states).answer = S!ListHandoffs(db, states).answer
         /\ M!ListDevices(Seen(db)).answer = S!ListDevices(db).answer
         /\ \A key : M!FindActionRequestByKey(Seen(db), key).answer = S!FindActionRequestByKey(db, key).answer
<1>1. "handoffs" \in Tables /\ "devices" \in Tables /\ "action_requests" \in Plain
  BY DEF Plain, Tables
<1>2. /\ DOMAIN Seen(db).handoffs = DOMAIN db.handoffs
      /\ \A k \in DOMAIN db.handoffs : Seen(db).handoffs[k].state = db.handoffs[k].state
  <2>1. \A r : View("handoffs", r) = HandoffFromRow(r)
    BY DEF View
  <2>2. \A r : HandoffFromRow(r).state = r.state
    BY DEF HandoffFromRow
  <2> QED BY <1>1, <2>1, <2>2, ReadRow
<1>3. ASSUME NEW states PROVE M!ListHandoffs(Seen(db), states).answer = S!ListHandoffs(db, states).answer
  BY <1>2, SameHelpers DEF M!ListHandoffs, S!ListHandoffs
<1>4. M!ListDevices(Seen(db)).answer = S!ListDevices(db).answer
  <2> DEFINE keys == DOMAIN db.devices
             seen == Seen(db)
  <2>1. DOMAIN seen.devices = keys
    BY <1>1, ReadRow
  <2>2. M!Column(seen["devices"], "createdAt") = S!Column(db["devices"], "createdAt")
    <3>1. RankColumn("devices", "createdAt")
      BY RankColumns
    <3> QED BY <1>1, <3>1, SameColumn
  <2>3. \A rank : M!Ascending(keys, rank) = S!Ascending(keys, rank)
    BY SameLists
  <2> HIDE DEF keys, seen
  <2>4. M!Ascending(keys, M!Column(seen.devices, "createdAt"))
          = S!Ascending(keys, S!Column(db.devices, "createdAt"))
    BY <2>2, <2>3
  <2>5. M!ListDevices(seen).answer = <<"ok", M!Ascending(keys, M!Column(seen.devices, "createdAt"))>>
    BY <2>1, SameHelpers DEF M!ListDevices
  <2>6. S!ListDevices(db).answer = <<"ok", S!Ascending(keys, S!Column(db.devices, "createdAt"))>>
    BY SameHelpers DEF S!ListDevices, keys
  <2> QED BY <2>4, <2>5, <2>6 DEF seen
<1>5. ASSUME NEW key
      PROVE  M!FindActionRequestByKey(Seen(db), key).answer = S!FindActionRequestByKey(db, key).answer
  <2>1. /\ DOMAIN Seen(db).action_requests = DOMAIN db.action_requests
        /\ \A k \in DOMAIN db.action_requests : Seen(db).action_requests[k] = db.action_requests[k]
    BY <1>1, PlainRead
  <2> QED BY <2>1, SameHelpers DEF M!FindActionRequestByKey, S!FindActionRequestByKey, M!Get, S!Find
<1> QED BY <1>3, <1>4, <1>5

LEMMA ItemReads ==
  ASSUME StoreAssumption, NEW db, DbType(db), NEW status, NEW q,
         Asked(q, Cardinality({k \in DOMAIN Seen(db).ingest_items :
                                 status \in {None, Seen(db).ingest_items[k].status}}))
  PROVE  M!ListIngestItems(Seen(db), status, q).answer = S!ListIngestItems(db, status, q).answer
<1>1. "ingest_items" \in Plain /\ "ingest_items" \in Tables /\ RankColumn("ingest_items", "createdAt")
  BY RankColumns DEF Plain, Tables
<1>2. /\ DOMAIN Seen(db).ingest_items = DOMAIN db.ingest_items
      /\ \A k \in DOMAIN db.ingest_items : Seen(db).ingest_items[k] = db.ingest_items[k]
  BY <1>1, PlainRead
<1> DEFINE wanted == {k \in DOMAIN db.ingest_items : status \in {None, db.ingest_items[k].status}}
           seen == Seen(db)
<1>3. {k \in DOMAIN seen.ingest_items : status \in {None, seen.ingest_items[k].status}} = wanted
  BY <1>2
<1>4. wanted \in SUBSET DOMAIN db["ingest_items"] /\ Asked(q, Cardinality(wanted))
  BY <1>3
<1>5. M!ListIngestItems(seen, status, q).answer
        = <<"ok", M!Page(M!Descending(wanted, M!Column(seen.ingest_items, "createdAt")), q)>>
  BY <1>3, SameHelpers DEF M!ListIngestItems
<1>6. S!ListIngestItems(db, status, q).answer
        = <<"ok", S!PageAll(S!Descending(wanted, S!Column(db.ingest_items, "createdAt")), q)>>
  BY SameHelpers DEF S!ListIngestItems
<1> HIDE DEF wanted, seen
<1>7. S!PageAll(S!Descending(wanted, S!Column(db["ingest_items"], "createdAt")), q)
        = M!Page(M!Descending(wanted, M!Column(seen["ingest_items"], "createdAt")), q)
  BY <1>1, <1>4, ListsAgree DEF seen
<1> QED BY <1>5, <1>6, <1>7 DEF seen

LEMMA QueriesAsked ==
  ASSUME NEW n,
         NEW q \in {q \in [offset : {0, 1}, limit : {1, 2, None}] : q.offset < n \/ q.offset = 0}
  PROVE  Asked(q, n)
BY DEF Asked

LEMMA ReadsHold ==
  ASSUME StoreAssumption, InStep
  PROVE  ReadsAgree
<1> DEFINE Queries(n) ==
             {q \in [offset : {0, 1}, limit : {1, 2, None}] : q.offset < n \/ q.offset = 0}
           OwnMail(a) == {k \in DOMAIN memory.mail_messages : k[1] = a}
           Surfaced(attention) ==
             {k \in DOMAIN memory.context_events : memory.context_events[k].attention \in attention}
           Recent(since) == {k \in DOMAIN memory.documents : memory.documents[k].updatedAt >= since}
           Items(status) == {k \in DOMAIN memory.ingest_items :
                               status \in {None, memory.ingest_items[k].status}}
<1>1. DbInv(sql) /\ DbType(sql) /\ memory = Seen(sql)
  BY DEF InStep, DbInv
<1>2. ASSUME NEW a
      PROVE  /\ \A q \in Queries(Cardinality(OwnMail(a))) :
                  M!ListMailMessages(memory, a, q).answer = S!ListMailMessages(sql, a, q).answer
             /\ \A x : M!FindMailMessageByExternalId(memory, a, x).answer
                         = S!FindMailMessageByExternalId(sql, a, x).answer
  <2>1. \A q \in Queries(Cardinality(OwnMail(a))) : Asked(q, Cardinality(OwnMail(a)))
    BY QueriesAsked
  <2>2. \A q : Asked(q, Cardinality({k \in DOMAIN Seen(sql).mail_messages : k[1] = a})) =>
              M!ListMailMessages(Seen(sql), a, q).answer = S!ListMailMessages(sql, a, q).answer
    BY <1>1, MailReads
  <2>3. \A x : M!FindMailMessageByExternalId(Seen(sql), a, x).answer
                     = S!FindMailMessageByExternalId(sql, a, x).answer
    BY <1>1, MailReads
  <2> QED BY <1>1, <2>1, <2>2, <2>3
<1>3. ASSUME NEW attention, NEW q \in Queries(Cardinality(Surfaced(attention)))
      PROVE  M!ListContextEvents(memory, attention, q).answer = S!ListContextEvents(sql, attention, q).answer
  <2>1. Asked(q, Cardinality(Surfaced(attention)))
    BY QueriesAsked
  <2>2. Asked(q, Cardinality({k \in DOMAIN Seen(sql).context_events :
                                 Seen(sql).context_events[k].attention \in attention}))
    BY <1>1, <2>1
  <2>3. M!ListContextEvents(Seen(sql), attention, q).answer = S!ListContextEvents(sql, attention, q).answer
    BY <1>1, <2>2, EventReads
  <2> QED BY <1>1, <2>3
<1>4. ASSUME NEW q \in Queries(Cardinality(DOMAIN memory.relationships))
      PROVE  M!ListRelationships(memory, q).answer = S!ListRelationships(sql, q).answer
  <2>1. Asked(q, Cardinality(DOMAIN memory.relationships))
    BY QueriesAsked
  <2>2. Asked(q, Cardinality(DOMAIN Seen(sql).relationships))
    BY <1>1, <2>1
  <2>3. M!ListRelationships(Seen(sql), q).answer = S!ListRelationships(sql, q).answer
    BY <1>1, <2>2, EdgeReads
  <2> QED BY <1>1, <2>3
<1>5. ASSUME NEW ref
      PROVE  /\ M!Neighbors(memory, ref).answer = S!Neighbors(sql, ref).answer
             /\ M!ListConclusions(memory, ref).answer = S!ListConclusions(sql, ref).answer
  BY <1>1, NeighborReads, ConclusionReads
<1>6. ASSUME NEW since, NEW q \in Queries(Cardinality(Recent(since)))
      PROVE  M!ListDocuments(memory, since, q).answer = S!ListDocuments(sql, since, q).answer
  <2>1. Asked(q, Cardinality(Recent(since)))
    BY QueriesAsked
  <2>2. Asked(q, Cardinality({k \in DOMAIN Seen(sql).documents : Seen(sql).documents[k].updatedAt >= since}))
    BY <1>1, <2>1
  <2>3. M!ListDocuments(Seen(sql), since, q).answer = S!ListDocuments(sql, since, q).answer
    BY <1>1, <2>2, DocumentReads
  <2> QED BY <1>1, <2>3
<1>7. ASSUME NEW status, NEW q \in Queries(Cardinality(Items(status)))
      PROVE  M!ListIngestItems(memory, status, q).answer = S!ListIngestItems(sql, status, q).answer
  <2>1. Asked(q, Cardinality(Items(status)))
    BY QueriesAsked
  <2>2. Asked(q, Cardinality({k \in DOMAIN Seen(sql).ingest_items :
                                 status \in {None, Seen(sql).ingest_items[k].status}}))
    BY <1>1, <2>1
  <2>3. M!ListIngestItems(Seen(sql), status, q).answer = S!ListIngestItems(sql, status, q).answer
    BY <1>1, <2>2, ItemReads
  <2> QED BY <1>1, <2>3
<1>8. /\ \A a : /\ M!ListMoneyTransactions(memory, a).answer = S!ListMoneyTransactions(sql, a).answer
                /\ M!ListMoneyAccounts(memory, a).answer = S!ListMoneyAccounts(sql, a).answer
      /\ \A from, to : M!ListTimeEvents(memory, from, to).answer = S!ListTimeEvents(sql, from, to).answer
  BY <1>1, MoneyReads, TimeReads
<1>9. /\ \A merged \in BOOLEAN : M!ListPeople(memory, merged).answer = S!ListPeople(sql, merged).answer
      /\ \A value : M!FindPersonByIdentity(memory, value).answer = S!FindPersonByIdentity(sql, value).answer
      /\ \A status : M!ListThreads(memory, status).answer = S!ListThreads(sql, status).answer
      /\ \A hash : M!FindDocumentByHash(memory, hash).answer = S!FindDocumentByHash(sql, hash).answer
      /\ \A ref : M!FindDocumentBySourceRef(memory, ref).answer = S!FindDocumentBySourceRef(sql, ref).answer
  BY <1>1, PeopleReads, ObjectReads
<1>10. /\ M!ListConnectorAccounts(memory).answer = S!ListConnectorAccounts(sql).answer
       /\ \A a : /\ M!FindConnectorAccount(memory, a).answer = S!FindConnectorAccount(sql, a).answer
                 /\ M!ListSyncStates(memory, a).answer = S!ListSyncStates(sql, a).answer
                 /\ M!GetSyncState(memory, a, "mail").answer = S!GetSyncState(sql, a, "mail").answer
       /\ \A states : M!ListHandoffs(memory, states).answer = S!ListHandoffs(sql, states).answer
       /\ M!ListDevices(memory).answer = S!ListDevices(sql).answer
       /\ \A key : M!FindActionRequestByKey(memory, key).answer = S!FindActionRequestByKey(sql, key).answer
  BY <1>1, AccountReads, JobReads
<1>11. CASE family = "mail"
  BY <1>2, <1>11 DEF ReadsAgree
<1>12. CASE family = "money"
  BY <1>8, <1>12 DEF ReadsAgree
<1>13. CASE family = "time"
  BY <1>8, <1>13 DEF ReadsAgree
<1>14. CASE family = "context"
  BY <1>3, <1>4, <1>5, <1>14 DEF ReadsAgree
<1>15. CASE family = "people"
  BY <1>9, <1>15 DEF ReadsAgree
<1>16. CASE family = "objects"
  BY <1>6, <1>9, <1>16 DEF ReadsAgree
<1>17. CASE family = "accounts"
  BY <1>10, <1>17 DEF ReadsAgree
<1>18. CASE family = "jobs"
  BY <1>7, <1>10, <1>18 DEF ReadsAgree
<1>19. CASE family \notin {"mail", "money", "time", "context", "people", "objects", "accounts", "jobs"}
  BY <1>19 DEF ReadsAgree
<1> QED BY <1>11, <1>12, <1>13, <1>14, <1>15, <1>16, <1>17, <1>18, <1>19

\* Every query is answered alike by both stores, in pages of any size, however
\* many rows PostgREST returns at a time (supabase-spine-store.ts, pageAll).
THEOREM ReadsAreOne == ASSUME StoresAssumption PROVE StoresSpec => []ReadsAgree
<1>1. StoreInv => ReadsAgree
  <2>1. ASSUME StoreInv, family # "nested" PROVE ReadsAgree
    <3>1. StoreAssumption /\ InStep
      BY <2>1, StoreInvIs DEF StoresAssumption
    <3> QED BY <3>1, ReadsHold
  <2>2. family = "nested" => ReadsAgree
    BY DEF ReadsAgree
  <2> QED BY <2>1, <2>2
<1> QED BY <1>1, StoreAlways, PTL

-----------------------------------------------------------------------------
(***************************************************************************)
(* The people rows: what names a person names one who has a row.           *)
(***************************************************************************)
\* The locals of a sync and of a merge.
LinkerRecord ==
  [pc : {"idle", "resolve", "create", "identity", "fold", "relate"},
   message : Message \cup {None}, todo : SUBSET Address, address : Address \cup {None},
   created : Person \cup {None}, resolved : SUBSET Person]
MergerRecord ==
  [pc : {"idle", "read", "neighbors", "move", "unrelate"}, survivor : Person \cup {None},
   merged : Person \cup {None}, left : SUBSET Message, moving : Message \cup {None}]

\* Whatever names a person names one who has a row.
TypeInv ==
  /\ people \in 0..MaxPerson /\ kills \in Nat
  /\ mergedInto \in [Person -> 1..people \cup {None}]
  /\ identity \in [Address -> 1..people \cup {None}]
  /\ linker \in [Linker -> LinkerRecord] /\ merger \in [Merger -> MergerRecord]
  /\ \A l \in Linker :
       /\ linker[l].pc \in {"create", "identity", "fold"} => linker[l].address \in Address
       /\ linker[l].pc \in {"identity", "fold"} <=> linker[l].created # None
       /\ linker[l].pc \in {"identity", "fold"} => linker[l].created \in 1..people
       /\ linker[l].pc = "fold" => identity[linker[l].address] # None
       /\ linker[l].pc \notin {"idle"} => linker[l].message \in Message
       /\ linker[l].resolved \subseteq 1..people
  /\ \A g \in Merger : merger[g].pc # "idle" =>
       merger[g].survivor \in 1..people /\ merger[g].merged \in 1..people

LEMMA Persons ==
  ASSUME PeopleAssumption, TypeInv
  PROVE  /\ people \in Nat /\ None \notin 1..people /\ 1..people \subseteq Person
         /\ MaxPerson \in Nat /\ None \notin Person
BY DEF PeopleAssumption, TypeInv, Person

LEMMA InitType == PeopleAssumption /\ Init => TypeInv
<1> SUFFICES ASSUME PeopleAssumption, Init PROVE TypeInv
  OBVIOUS
<1>1. IdleLinker \in LinkerRecord /\ IdleLinker.pc = "idle" /\ IdleLinker.created = None
      /\ IdleLinker.resolved = {}
  BY DEF IdleLinker, LinkerRecord
<1>2. IdleMerger \in MergerRecord /\ IdleMerger.pc = "idle"
  BY DEF IdleMerger, MergerRecord
<1> QED BY <1>1, <1>2 DEF Init, TypeInv, PeopleAssumption

\* The next address of a batch is resolved to a person who has a row.
LEMMA ResolveType ==
  ASSUME PeopleAssumption, TypeInv, NEW l \in Linker, NEW a, NEW p \in 1..people,
         linker[l].pc # "idle", Resolve(l, a, p)
  PROVE  /\ linker' \in [Linker -> LinkerRecord]
         /\ \A k \in Linker \ {l} : linker'[k] = linker[k]
         /\ linker'[l].pc \in {"resolve", "relate"} /\ linker'[l].created = None
         /\ linker'[l].message = linker[l].message
         /\ linker'[l].resolved = linker[l].resolved \cup {p}
<1>1. linker[l] \in LinkerRecord /\ linker \in [Linker -> LinkerRecord] /\ p \in Person
  BY Persons DEF TypeInv
<1> DEFINE pc == IF linker[l].todo = {a} THEN "relate" ELSE "resolve"
           after == [linker[l] EXCEPT !.pc = pc, !.todo = @ \ {a}, !.address = None,
                                      !.created = None, !.resolved = @ \cup {p}]
<1>2. linker' = [linker EXCEPT ![l] = after]
  BY DEF Resolve
<1>3. linker'[l] = after /\ \A k \in Linker \ {l} : linker'[k] = linker[k]
  BY <1>1, <1>2
<1>4. /\ after \in LinkerRecord /\ after.created = None /\ after.pc = pc
      /\ after.message = linker[l].message /\ after.resolved = linker[l].resolved \cup {p}
  BY <1>1 DEF LinkerRecord
<1> QED BY <1>1, <1>2, <1>3, <1>4

\* The rows of a batch: what a sync does keeps the types.
LEMMA LinkerType ==
  ASSUME PeopleAssumption, TypeInv, NEW l \in Linker,
         \/ \E m \in Message : StartBatch(l, m)
         \/ FindPerson(l) \/ CreatePerson(l) \/ PutIdentity(l) \/ Fold(l)
         \/ RelatePeople(l) \/ KillLinker(l)
  PROVE  TypeInv'
<1>0. /\ IdleLinker \in LinkerRecord /\ IdleLinker.pc = "idle" /\ IdleLinker.created = None
      /\ IdleLinker.resolved = {}
  BY DEF IdleLinker, LinkerRecord
<1>1. ASSUME NEW m \in Message, StartBatch(l, m) PROVE TypeInv'
  <2>1. /\ linker' \in [Linker -> LinkerRecord] /\ linker'[l].pc = "resolve"
        /\ linker'[l].created = None /\ linker'[l].message = m /\ linker'[l].resolved = {}
        /\ \A k \in Linker \ {l} : linker'[k] = linker[k]
    <3>1. Correspondents(m) \subseteq Address
      BY DEF Correspondents, Address
    <3> QED BY <1>0, <1>1, <3>1 DEF StartBatch, TypeInv, LinkerRecord, IdleLinker
  <2> QED BY <1>1, <2>1 DEF StartBatch, TypeInv
<1>2. ASSUME FindPerson(l) PROVE TypeInv'
  <2>1. PICK a \in linker[l].todo :
          IF identity[a] = None
          THEN linker' = [linker EXCEPT ![l].pc = "create", ![l].address = a]
          ELSE Resolve(l, a, Behind(a))
    BY <1>2 DEF FindPerson
  <2>2. a \in Address /\ linker[l].pc = "resolve"
    BY <1>2 DEF FindPerson, TypeInv, LinkerRecord
  <2>3. CASE identity[a] = None
    <3>1. /\ linker' \in [Linker -> LinkerRecord] /\ linker'[l].pc = "create"
          /\ linker'[l].created = linker[l].created /\ linker'[l].message = linker[l].message
          /\ linker'[l].resolved = linker[l].resolved /\ linker'[l].address = a
          /\ \A k \in Linker \ {l} : linker'[k] = linker[k]
      BY <2>1, <2>2, <2>3 DEF TypeInv, LinkerRecord
    <3> QED BY <1>2, <2>2, <3>1 DEF FindPerson, TypeInv
  <2>4. CASE identity[a] # None
    <3>1. Behind(a) \in 1..people
      BY <2>2, <2>4, Persons DEF Behind, TypeInv
    <3>2. Resolve(l, a, Behind(a))
      BY <2>1, <2>4
    <3> QED BY <1>2, <2>2, <3>1, <3>2, ResolveType DEF FindPerson, TypeInv
  <2> QED BY <2>3, <2>4
<1>3. ASSUME CreatePerson(l) PROVE TypeInv'
  <2>1. people' = people + 1 /\ people' \in 0..MaxPerson /\ people' \in 1..people'
        /\ 1..people \subseteq 1..people' /\ people' \in Person
    BY <1>3, Persons DEF CreatePerson, TypeInv, Person
  <2>2. /\ linker' \in [Linker -> LinkerRecord] /\ linker'[l].pc = "identity"
        /\ linker'[l].created = people' /\ linker'[l].message = linker[l].message
        /\ linker'[l].resolved = linker[l].resolved /\ linker'[l].address = linker[l].address
        /\ \A k \in Linker \ {l} : linker'[k] = linker[k]
    BY <1>3, <2>1 DEF CreatePerson, TypeInv, LinkerRecord
  <2>3. people' # None
    BY <2>1, Persons
  <2> QED BY <1>3, <2>1, <2>2, <2>3 DEF CreatePerson, TypeInv
<1>4. ASSUME PutIdentity(l) PROVE TypeInv'
  <2> DEFINE a == linker[l].address
             p == linker[l].created
  <2>1. a \in Address /\ p \in 1..people /\ p # None /\ linker[l].pc = "identity"
    BY <1>4, Persons DEF PutIdentity, TypeInv
  <2>2. CASE identity[a] = None
    <3>1. Resolve(l, a, p) /\ identity' = [identity EXCEPT ![a] = p]
      BY <1>4, <2>2 DEF PutIdentity
    <3>2. identity' \in [Address -> 1..people \cup {None}]
          /\ \A b \in Address : identity[b] # None => identity'[b] # None
      BY <2>1, <2>2, <3>1 DEF TypeInv
    <3> QED BY <1>4, <2>1, <3>1, <3>2, ResolveType DEF PutIdentity, TypeInv
  <2>3. CASE identity[a] # None
    <3>1. /\ linker' \in [Linker -> LinkerRecord] /\ linker'[l].pc = "fold"
          /\ linker'[l].created = p /\ linker'[l].message = linker[l].message
          /\ linker'[l].resolved = linker[l].resolved /\ linker'[l].address = a
          /\ \A k \in Linker \ {l} : linker'[k] = linker[k]
      BY <1>4, <2>3 DEF PutIdentity, TypeInv, LinkerRecord
    <3> QED BY <1>4, <2>1, <2>3, <3>1 DEF PutIdentity, TypeInv
  <2> QED BY <2>2, <2>3
<1>5. ASSUME Fold(l) PROVE TypeInv'
  <2> DEFINE w == identity[linker[l].address]
  <2>1. w \in 1..people /\ linker[l].created \in Person /\ linker[l].pc = "fold"
    BY <1>5, Persons DEF Fold, TypeInv
  <2>2. mergedInto' \in [Person -> 1..people \cup {None}]
    BY <1>5, <2>1 DEF Fold, TypeInv
  <2>3. Resolve(l, linker[l].address, w)
    BY <1>5 DEF Fold
  <2> QED BY <1>5, <2>1, <2>2, <2>3, ResolveType DEF Fold, TypeInv
<1>6. ASSUME RelatePeople(l) PROVE TypeInv'
  <2>1. /\ linker' \in [Linker -> LinkerRecord]
        /\ \A k \in Linker \ {l} : linker'[k] = linker[k]
        /\ \/ linker'[l] = IdleLinker
           \/ /\ linker'[l].pc = linker[l].pc /\ linker'[l].created = linker[l].created
              /\ linker'[l].message = linker[l].message /\ linker'[l].address = linker[l].address
              /\ linker'[l].resolved \subseteq linker[l].resolved
    BY <1>0, <1>6 DEF RelatePeople, TypeInv, LinkerRecord
  <2> QED BY <1>0, <1>6, <2>1 DEF RelatePeople, TypeInv
<1>7. ASSUME KillLinker(l) PROVE TypeInv'
  BY <1>0, <1>7 DEF KillLinker, TypeInv
<1> QED BY <1>1, <1>2, <1>3, <1>4, <1>5, <1>6, <1>7

\* What a merge does keeps them, too.
LEMMA MergerType ==
  ASSUME PeopleAssumption, TypeInv, NEW g \in Merger,
         \/ \E s, d \in 1..people : ReadSurvivor(g, s, d)
         \/ ReadMerged(g) \/ ListNeighbors(g) \/ AssertEdge(g) \/ RemoveEdge(g)
         \/ MarkMerged(g) \/ KillMerger(g)
  PROVE  TypeInv'
<1>0. IdleMerger \in MergerRecord /\ IdleMerger.pc = "idle"
  BY DEF IdleMerger, MergerRecord
<1>1. UNCHANGED <<people, identity, linker>>
  BY DEF ReadSurvivor, ReadMerged, ListNeighbors, AssertEdge, RemoveEdge, MarkMerged, KillMerger
<1>2. /\ merger' \in [Merger -> MergerRecord]
      /\ \A h \in Merger \ {g} : merger'[h] = merger[h]
      /\ merger'[g].pc # "idle" =>
           merger'[g].survivor \in 1..people /\ merger'[g].merged \in 1..people
  <2>0. merger \in [Merger -> MergerRecord] /\ merger[g] \in MergerRecord
    BY DEF TypeInv
  <2>1. ASSUME NEW s \in 1..people, NEW d \in 1..people, ReadSurvivor(g, s, d)
        PROVE  /\ merger' \in [Merger -> MergerRecord]
               /\ \A h \in Merger \ {g} : merger'[h] = merger[h]
               /\ merger'[g].survivor = s /\ merger'[g].merged = d
    BY <1>0, <2>0, <2>1, Persons DEF ReadSurvivor, MergerRecord, IdleMerger
  <2>2. CASE ReadMerged(g) \/ ListNeighbors(g) \/ AssertEdge(g) \/ RemoveEdge(g)
    <3>1. /\ merger' \in [Merger -> MergerRecord]
          /\ \A h \in Merger \ {g} : merger'[h] = merger[h]
          /\ merger[g].pc # "idle"
          /\ \/ merger'[g] = IdleMerger
             \/ merger'[g].survivor = merger[g].survivor /\ merger'[g].merged = merger[g].merged
      <4>1. CASE ReadMerged(g)
        BY <1>0, <2>0, <4>1 DEF ReadMerged, MergerRecord
      <4>2. CASE ListNeighbors(g)
        BY <2>0, <4>2 DEF ListNeighbors, MergerRecord
      <4>3. CASE AssertEdge(g)
        <5>1. PICK m \in merger[g].left :
                merger' = [merger EXCEPT ![g].moving = m, ![g].pc = "unrelate"]
          BY <4>3 DEF AssertEdge
        <5>2. m \in Message
          BY <2>0, <5>1 DEF MergerRecord
        <5> QED BY <2>0, <4>3, <5>1, <5>2 DEF AssertEdge, MergerRecord
      <4>4. CASE RemoveEdge(g)
        BY <2>0, <4>4 DEF RemoveEdge, MergerRecord
      <4> QED BY <2>2, <4>1, <4>2, <4>3, <4>4
    <3> QED BY <1>0, <3>1 DEF TypeInv
  <2>3. CASE MarkMerged(g) \/ KillMerger(g)
    <3>1. merger' = [merger EXCEPT ![g] = IdleMerger]
      BY <2>3 DEF MarkMerged, KillMerger
    <3> QED BY <1>0, <2>0, <3>1
  <2> QED BY <2>1, <2>2, <2>3
<1>3. mergedInto' \in [Person -> 1..people \cup {None}]
  <2>1. CASE MarkMerged(g)
    BY <2>1 DEF MarkMerged, TypeInv
  <2>2. CASE ~MarkMerged(g)
    BY <2>2 DEF ReadSurvivor, ReadMerged, ListNeighbors, AssertEdge, RemoveEdge, KillMerger, TypeInv
  <2> QED BY <2>1, <2>2
<1>4. kills' \in Nat
  <2>1. kills' = kills \/ kills' = kills + 1
    BY DEF ReadSurvivor, ReadMerged, ListNeighbors, AssertEdge, RemoveEdge, MarkMerged, KillMerger
  <2> QED BY <2>1 DEF TypeInv
<1> QED BY <1>1, <1>2, <1>3, <1>4 DEF TypeInv

LEMMA NextType == PeopleAssumption /\ TypeInv /\ [Next]_vars => TypeInv'
<1>1. TypeInv /\ UNCHANGED vars => TypeInv'
  BY DEF vars, TypeInv
<1> QED BY <1>1, LinkerType, MergerType DEF Next

-----------------------------------------------------------------------------
\* While nobody was killed, a person with neither an address nor a row it is
\* merged into is still being created.
ListedInv ==
  kills = 0 => \A p \in 1..people :
    mergedInto[p] # None \/ Working(p) \/ \E a \in Address : identity[a] = p

LEMMA LinkerListed ==
  ASSUME PeopleAssumption, TypeInv, ListedInv, NEW l \in Linker,
         \/ \E m \in Message : StartBatch(l, m)
         \/ FindPerson(l) \/ CreatePerson(l) \/ PutIdentity(l) \/ Fold(l)
         \/ RelatePeople(l) \/ KillLinker(l)
  PROVE  ListedInv'
<1>0. /\ linker \in [Linker -> LinkerRecord] /\ IdleLinker.created = None
      /\ \A k \in Linker : linker[k].pc \in {"identity", "fold"} <=> linker[k].created # None
      /\ None \notin 1..people /\ None \notin Person /\ people \in Nat
  BY Persons DEF TypeInv, IdleLinker
<1>1. ASSUME NEW m \in Message, StartBatch(l, m) PROVE ListedInv'
  <2>1. \A k \in Linker : linker'[k].created = linker[k].created
    BY <1>0, <1>1 DEF StartBatch, IdleLinker
  <2> QED BY <1>1, <2>1 DEF StartBatch, ListedInv, Working
<1>2. ASSUME FindPerson(l) PROVE ListedInv'
  <2>1. \A k \in Linker : linker[k].created # None => linker'[k].created = linker[k].created
    BY <1>0, <1>2 DEF FindPerson, Resolve
  <2> QED BY <1>0, <1>2, <2>1 DEF FindPerson, ListedInv, Working
<1>3. ASSUME CreatePerson(l) PROVE ListedInv'
  <2>1. linker'[l].created = people + 1 /\ \A k \in Linker \ {l} : linker'[k] = linker[k]
    BY <1>0, <1>3 DEF CreatePerson, LinkerRecord
  <2>2. linker[l].created = None
    BY <1>0, <1>3 DEF CreatePerson
  <2>3. \A p \in 1..people' : p \in 1..people \/ p = people + 1
    BY <1>0, <1>3 DEF CreatePerson
  <2> QED BY <1>0, <1>3, <2>1, <2>2, <2>3 DEF CreatePerson, ListedInv, Working
<1>4. ASSUME PutIdentity(l) PROVE ListedInv'
  <2> DEFINE a == linker[l].address
             q == linker[l].created
  <2>1. a \in Address /\ q \in 1..people /\ identity \in [Address -> 1..people \cup {None}]
    BY <1>4 DEF PutIdentity, TypeInv
  <2>2. CASE identity[a] = None
    <3>1. identity' = [identity EXCEPT ![a] = q] /\ Resolve(l, a, q)
      BY <1>4, <2>2 DEF PutIdentity
    <3>2. \A k \in Linker \ {l} : linker'[k] = linker[k]
      BY <1>0, <3>1 DEF Resolve
    <3>3. identity'[a] = q /\ \A p \in 1..people : \A b \in Address : identity[b] = p => identity'[b] = p
      BY <1>0, <2>1, <2>2, <3>1
    <3> QED BY <1>4, <2>1, <3>2, <3>3 DEF PutIdentity, ListedInv, Working
  <2>3. CASE identity[a] # None
    <3>1. \A k \in Linker : linker'[k].created = linker[k].created
      BY <1>0, <1>4, <2>3 DEF PutIdentity, LinkerRecord
    <3> QED BY <1>4, <2>3, <3>1 DEF PutIdentity, ListedInv, Working
  <2> QED BY <2>2, <2>3
<1>5. ASSUME Fold(l) PROVE ListedInv'
  <2> DEFINE q == linker[l].created
             w == identity[linker[l].address]
  <2>1. w \in 1..people /\ w # None /\ q \in Person /\ mergedInto \in [Person -> 1..people \cup {None}]
    BY <1>5, Persons DEF Fold, TypeInv
  <2>2. \A k \in Linker \ {l} : linker'[k] = linker[k]
    BY <1>0, <1>5 DEF Fold, Resolve
  <2>3. mergedInto'[q] = w /\ \A p \in Person \ {q} : mergedInto'[p] = mergedInto[p]
    BY <1>5, <2>1 DEF Fold
  <2> QED BY <1>0, <1>5, <2>1, <2>2, <2>3, Persons DEF Fold, ListedInv, Working
<1>6. ASSUME RelatePeople(l) PROVE ListedInv'
  <2>1. \A k \in Linker : linker[k].created # None => linker'[k].created = linker[k].created
    BY <1>0, <1>6 DEF RelatePeople, LinkerRecord
  <2> QED BY <1>0, <1>6, <2>1 DEF RelatePeople, ListedInv, Working
<1>7. ASSUME KillLinker(l) PROVE ListedInv'
  <2>1. kills' # 0
    BY <1>7 DEF KillLinker, TypeInv
  <2> QED BY <2>1 DEF ListedInv
<1> QED BY <1>1, <1>2, <1>3, <1>4, <1>5, <1>6, <1>7

LEMMA MergerListed ==
  ASSUME PeopleAssumption, TypeInv, ListedInv, NEW g \in Merger,
         \/ \E s, d \in 1..people : ReadSurvivor(g, s, d)
         \/ ReadMerged(g) \/ ListNeighbors(g) \/ AssertEdge(g) \/ RemoveEdge(g)
         \/ MarkMerged(g) \/ KillMerger(g)
  PROVE  ListedInv'
<1>1. CASE MarkMerged(g)
  <2>1. merger[g].survivor # None /\ merger[g].merged \in Person
    BY <1>1, Persons DEF MarkMerged, TypeInv
  <2>2. \A p \in Person : mergedInto[p] # None => mergedInto'[p] # None
    BY <1>1, <2>1 DEF MarkMerged, TypeInv
  <2> QED BY <1>1, <2>2, Persons DEF MarkMerged, ListedInv, Working
<1>2. CASE KillMerger(g)
  <2>1. kills' # 0
    BY <1>2 DEF KillMerger, TypeInv
  <2> QED BY <2>1 DEF ListedInv
<1>3. CASE ~MarkMerged(g) /\ ~KillMerger(g)
  <2>1. UNCHANGED <<people, mergedInto, identity, linker, kills>>
    BY <1>3 DEF ReadSurvivor, ReadMerged, ListNeighbors, AssertEdge, RemoveEdge
  <2> QED BY <2>1 DEF ListedInv, Working
<1> QED BY <1>1, <1>2, <1>3

\* ContextLinker.resolve, racing with itself in any number of syncs and with merges:
\* unless one of them is killed half-way, the people list shows nobody who lost
\* the race for an address.
THEOREM RacesLeaveNobody ==
  ASSUME StoresAssumption PROVE StoresSpec => []NoDuplicatePeople
<1>1. Init => ListedInv
  BY DEF Init, ListedInv
<1>2. TypeInv /\ ListedInv /\ [Next]_vars => ListedInv'
  <2>1. ListedInv /\ UNCHANGED vars => ListedInv'
    BY DEF vars, ListedInv, Working
  <2> QED BY <2>1, LinkerListed, MergerListed DEF Next
<1>3. ListedInv => NoDuplicatePeople
  BY DEF ListedInv, NoDuplicatePeople
<1>4. PeopleAssumption
  BY DEF StoresAssumption
<1> QED BY <1>1, <1>2, <1>3, InitType, NextType, StoresSteps, <1>4, PTL DEF StoresSpec

-----------------------------------------------------------------------------
\* The edge a merge is about to remove has its like on the survivor, and the
\* edges of a batch are there before it counts as linked.
LinksInv ==
  /\ \A m \in linked : \E p \in 1..people : <<m, p>> \in edges
  /\ \A g \in Merger :
       /\ merger[g].pc # "idle" => merger[g].survivor # merger[g].merged
       /\ merger[g].pc = "unrelate" => <<merger[g].moving, merger[g].survivor>> \in edges

LEMMA LinkerLinks ==
  ASSUME PeopleAssumption, TypeInv, LinksInv, NEW l \in Linker,
         \/ \E m \in Message : StartBatch(l, m)
         \/ FindPerson(l) \/ CreatePerson(l) \/ PutIdentity(l) \/ Fold(l)
         \/ RelatePeople(l) \/ KillLinker(l)
  PROVE  LinksInv'
<1>1. edges \subseteq edges' /\ 1..people \subseteq 1..people' /\ merger' = merger
  <2>1. edges' = edges \/ \E e : edges' = edges \cup {e}
    BY DEF StartBatch, FindPerson, CreatePerson, PutIdentity, Fold, RelatePeople, KillLinker
  <2>2. people' = people \/ people' = people + 1
    BY DEF StartBatch, FindPerson, CreatePerson, PutIdentity, Fold, RelatePeople, KillLinker
  <2>3. merger' = merger
    BY DEF StartBatch, FindPerson, CreatePerson, PutIdentity, Fold, RelatePeople, KillLinker
  <2> QED BY <2>1, <2>2, <2>3, Persons
<1>2. ASSUME NEW m \in linked' \ linked PROVE \E p \in 1..people' : <<m, p>> \in edges'
  <2>1. RelatePeople(l)
    BY <1>2 DEF StartBatch, FindPerson, CreatePerson, PutIdentity, Fold, KillLinker
  <2>2. PICK p \in linker[l].resolved :
          edges' = edges \cup {<<linker[l].message, p>>} /\ m = linker[l].message
    BY <1>2, <2>1 DEF RelatePeople
  <2> QED BY <1>1, <2>2 DEF TypeInv
<1> QED BY <1>1, <1>2 DEF LinksInv

\* Two merges in opposite directions can drop a link between them: the theorem is
\* about one at a time.
LEMMA MergerLinks ==
  ASSUME PeopleAssumption, TypeInv, LinksInv, NEW g, Merger = {g},
         \/ \E s, d \in 1..people : ReadSurvivor(g, s, d)
         \/ ReadMerged(g) \/ ListNeighbors(g) \/ AssertEdge(g) \/ RemoveEdge(g)
         \/ MarkMerged(g) \/ KillMerger(g)
  PROVE  LinksInv'
<1>0. merger \in [{g} -> MergerRecord] /\ merger[g] \in MergerRecord /\ IdleMerger.pc = "idle"
  BY DEF TypeInv, IdleMerger
<1>1. linked' = linked /\ people' = people
  BY DEF ReadSurvivor, ReadMerged, ListNeighbors, AssertEdge, RemoveEdge, MarkMerged, KillMerger
<1>2. ASSUME NEW s \in 1..people, NEW d \in 1..people, ReadSurvivor(g, s, d) PROVE LinksInv'
  <2>1. merger'[g].pc = "read" /\ merger'[g].survivor = s /\ merger'[g].merged = d
    BY <1>0, <1>2 DEF ReadSurvivor, IdleMerger
  <2> QED BY <1>1, <1>2, <2>1 DEF ReadSurvivor, LinksInv
<1>3. CASE ReadMerged(g) \/ ListNeighbors(g)
  <2>1. edges' = edges /\ merger[g].pc # "idle"
    BY <1>3 DEF ReadMerged, ListNeighbors
  <2>2. \/ merger'[g].pc = "idle"
        \/ /\ merger'[g].pc \in {"neighbors", "move"} /\ merger'[g].survivor = merger[g].survivor
           /\ merger'[g].merged = merger[g].merged
    BY <1>0, <1>3 DEF ReadMerged, ListNeighbors, MergerRecord
  <2> QED BY <1>1, <2>1, <2>2 DEF LinksInv
<1>4. CASE AssertEdge(g)
  <2>1. PICK m \in merger[g].left :
          /\ edges' = edges \cup {<<m, merger[g].survivor>>}
          /\ merger' = [merger EXCEPT ![g].moving = m, ![g].pc = "unrelate"]
    BY <1>4 DEF AssertEdge
  <2>2. /\ merger'[g].moving = m /\ merger'[g].survivor = merger[g].survivor
        /\ merger'[g].merged = merger[g].merged /\ merger[g].pc # "idle"
    BY <1>0, <1>4, <2>1 DEF MergerRecord, AssertEdge
  <2> QED BY <1>1, <2>1, <2>2 DEF LinksInv
<1>5. CASE RemoveEdge(g)
  <2> DEFINE m == merger[g].moving
             s == merger[g].survivor
  <2>1. edges' = edges \ {<<m, merger[g].merged>>} /\ merger[g].pc = "unrelate"
    BY <1>5 DEF RemoveEdge
  <2>2. <<m, s>> \in edges /\ s # merger[g].merged /\ s \in 1..people
    BY <2>1 DEF LinksInv, TypeInv
  <2>3. <<m, s>> \in edges'
    BY <2>1, <2>2
  <2>4. ASSUME NEW k \in linked PROVE \E p \in 1..people : <<k, p>> \in edges'
    <3>1. CASE k = m
      BY <2>2, <2>3, <3>1
    <3>2. CASE k # m
      BY <2>1, <3>2 DEF LinksInv
    <3> QED BY <3>1, <3>2
  <2>5. merger'[g].pc = "move" /\ merger'[g].survivor = s /\ merger'[g].merged = merger[g].merged
    BY <1>0, <1>5 DEF RemoveEdge, MergerRecord
  <2> QED BY <1>1, <2>2, <2>4, <2>5 DEF LinksInv
<1>6. CASE MarkMerged(g) \/ KillMerger(g)
  <2>1. edges' = edges /\ merger' = [merger EXCEPT ![g] = IdleMerger]
    BY <1>6 DEF MarkMerged, KillMerger
  <2>2. merger'[g].pc = "idle"
    BY <1>0, <2>1
  <2> QED BY <1>1, <2>1, <2>2 DEF LinksInv
<1> QED BY <1>2, <1>3, <1>4, <1>5, <1>6

\* person.merge, killed and retried at any point while syncs apply pages, as long
\* as one merge is at work at a time: a message that was linked stays linked.
THEOREM MergeKeepsLinks ==
  ASSUME StoresAssumption, NEW g, Merger = {g} PROVE StoresSpec => []LinksSurviveMerges
<1>1. Init => LinksInv
  BY DEF Init, LinksInv, IdleMerger
<1>2. TypeInv /\ LinksInv /\ [Next]_vars => LinksInv'
  <2>1. LinksInv /\ UNCHANGED vars => LinksInv'
    BY DEF vars, LinksInv
  <2> QED BY <2>1, LinkerLinks, MergerLinks DEF Next
<1>3. LinksInv => LinksSurviveMerges
  BY DEF LinksInv, LinksSurviveMerges
<1>4. PeopleAssumption
  BY DEF StoresAssumption
<1> QED BY <1>1, <1>2, <1>3, InitType, NextType, StoresSteps, <1>4, PTL DEF StoresSpec
=============================================================================
