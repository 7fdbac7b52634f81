--------------------------- MODULE RowStoreProofs ---------------------------
(***************************************************************************)
(* What the statements of RowStore do to the constraints, for any app and  *)
(* any rows.  SQLite holds inserts and updates against them.  What a       *)
(* delete leaves is the work of the cascades: the rows that go with a row  *)
(* are closed under ON DELETE CASCADE, so a reference into them is one     *)
(* that is set to null or one that forbids the delete.                     *)
(***************************************************************************)
EXTENDS RowStore, TLAPS

Constrained(rows) == ReferencesHold(rows) /\ UniqueHolds(rows) /\ RequiredHolds(rows)

-----------------------------------------------------------------------------
\* A reference has an ON DELETE clause (semantic.go:268-296).
LEMMA ReferencesHaveAction ==
  ASSUME NEW e \in DOMAIN App, NEW f \in References(e)
  PROVE  OnDelete(e, f) \in {"set_null", "restrict", "cascade"}
<1>1. f \in DOMAIN App[e].fields /\ App[e].fields[f].type = "reference"
  BY DEF References, Fields
<1>2. ValidField(App[e].fields[f], DOMAIN App)
  BY <1>1, AppIsValid DEF ValidManifest
<1>3. App[e].fields[f].ref # {} /\ \A r \in App[e].fields[f].ref : r.onDelete \in OnDeleteActions
  BY <1>1, <1>2 DEF ValidField
<1> QED
  BY <1>3 DEF OnDelete, Fields, OnDeleteActions

\* The rows that go with a row are rows, that row among them.
LEMMA DoomedAreRows ==
  ASSUME NEW rows, NEW i \in DOMAIN rows
  PROVE  Doomed(rows, i) \subseteq DOMAIN rows /\ i \in Doomed(rows, i)
<1>1. \A k \in DOMAIN rows : Cascades(rows)[k] \subseteq DOMAIN rows
  BY DEF Cascades, Children
<1>2. DOMAIN Cascades(rows) = DOMAIN rows
  BY DEF Cascades
<1>3. Closure(Cascades(rows), i) \subseteq DOMAIN rows /\ i \in Closure(Cascades(rows), i)
  BY <1>1, <1>2 DEF Closure
<1> QED
  BY <1>3 DEF Doomed

\* What refers with ON DELETE CASCADE to a row that goes, goes.
LEMMA DoomedAreClosed ==
  ASSUME NEW rows, NEW i, NEW k \in Doomed(rows, i), NEW j \in Children(rows, k, "cascade"),
         i \in DOMAIN rows
  PROVE  j \in Doomed(rows, i)
<1> DEFINE cascades == Cascades(rows)
           able == {i} \cup UNION {cascades[m] : m \in DOMAIN cascades}
<1>1. k \in DOMAIN rows /\ k \in Closure(cascades, i)
  BY DoomedAreRows DEF Doomed
<1>2. k \in DOMAIN cascades /\ j \in cascades[k]
  BY <1>1 DEF Cascades
<1>3. j \in able
  BY <1>2
<1> HIDE DEF cascades
<1>4. ASSUME NEW gone \in SUBSET able, i \in gone, \A m \in gone : cascades[m] \subseteq gone
      PROVE  j \in gone
  BY <1>1, <1>2, <1>4 DEF Closure
<1>5. j \in Closure(cascades, i)
  BY <1>3, <1>4 DEF Closure
<1> QED
  BY <1>5 DEF Doomed, cascades

-----------------------------------------------------------------------------
(***************************************************************************)
(* Delete.                                                                 *)
(***************************************************************************)
\* What is left of a row: its columns, some of its references null.
LEMMA LeftRows ==
  ASSUME NEW rows, RowsTyped(rows), NEW gone, NEW j \in DOMAIN WithoutRows(rows, gone)
  PROVE  LET left == WithoutRows(rows, gone)
         IN /\ j \in DOMAIN rows \ gone
            /\ DOMAIN left[j] = {"ent", "vals"}
            /\ left[j].ent = rows[j].ent
            /\ DOMAIN left[j].vals = DOMAIN rows[j].vals
            /\ \A f \in DOMAIN rows[j].vals :
                 left[j].vals[f] =
                   IF f \in References(rows[j].ent) /\ OnDelete(rows[j].ent, f) = "set_null"
                      /\ rows[j].vals[f] \in gone
                   THEN Null ELSE rows[j].vals[f]
<1> DEFINE left == WithoutRows(rows, gone)
           vals == [f \in DOMAIN rows[j].vals |->
                      IF f \in References(rows[j].ent) /\ OnDelete(rows[j].ent, f) = "set_null"
                         /\ rows[j].vals[f] \in gone
                      THEN Null ELSE rows[j].vals[f]]
<1>1. DOMAIN left = DOMAIN rows \ gone
  BY DEF WithoutRows
<1>2. j \in DOMAIN rows \ gone
  BY <1>1
<1>3. DOMAIN rows[j] = {"ent", "vals"}
  BY <1>2 DEF RowsTyped
<1>4. left[j] = [rows[j] EXCEPT !.vals = vals]
  BY <1>2, <1>3 DEF WithoutRows
<1>5. DOMAIN left[j] = {"ent", "vals"} /\ left[j].ent = rows[j].ent /\ left[j].vals = vals
  BY <1>3, <1>4
<1> HIDE DEF left
<1> QED
  BY <1>2, <1>5 DEF left

\* Rows stay rows.
LEMMA DeleteRowKeepsTypes ==
  ASSUME NEW rows, RowsTyped(rows), NEW e, NEW i
  PROVE  RowsTyped(DeleteRow(rows, e, i))
<1>1. CASE ~Exists(rows, e, i)
  BY <1>1 DEF DeleteRow
<1>2. CASE Exists(rows, e, i)
  <2> DEFINE left == WithoutRows(rows, Doomed(rows, i))
  <2>1. DeleteRow(rows, e, i) = left
    BY <1>2 DEF DeleteRow, ForeignKeysOn
  <2>2. \A j \in DOMAIN left :
          /\ j \in DOMAIN rows
          /\ DOMAIN left[j] = {"ent", "vals"}
          /\ left[j].ent = rows[j].ent
          /\ DOMAIN left[j].vals = DOMAIN rows[j].vals
    BY LeftRows
  <2> QED
    BY <2>1, <2>2 DEF RowsTyped
<1> QED
  BY <1>1, <1>2

\* A reference of a row that is left refers to a row that is left: had it referred to
\* one that went, the row had gone along, the delete been refused, or the reference set to null.
LEMMA DeleteRowKeepsReferences ==
  ASSUME NEW rows, RowsTyped(rows), ReferencesHold(rows), NEW e, NEW i,
         DeleteError(rows, e, i) = "none"
  PROVE  ReferencesHold(DeleteRow(rows, e, i))
<1>1. CASE ~Exists(rows, e, i)
  BY <1>1 DEF DeleteRow
<1>2. CASE Exists(rows, e, i)
  <2> DEFINE gone == Doomed(rows, i)
             left == WithoutRows(rows, gone)
  <2>1. DeleteRow(rows, e, i) = left
    BY <1>2 DEF DeleteRow, ForeignKeysOn
  <2>2. \A k \in gone : Children(rows, k, "restrict") = {}
    BY <1>2 DEF DeleteError, ForeignKeysOn
  <2>3. \A k \in gone : Children(rows, k, "cascade") \subseteq gone
    BY <1>2, DoomedAreClosed DEF Exists
  <2>4. DOMAIN left = DOMAIN rows \ gone
    BY DEF WithoutRows
  <2> SUFFICES ASSUME NEW j \in DOMAIN left, NEW f \in References(left[j].ent)
               PROVE  \/ left[j].vals[f] = Null
                      \/ Exists(left, Target(left[j].ent, f), left[j].vals[f])
    BY <2>1 DEF ReferencesHold
  <2> DEFINE v == rows[j].vals[f]
             action == OnDelete(rows[j].ent, f)
  <2>5. /\ j \in DOMAIN rows \ gone
        /\ left[j].ent = rows[j].ent
        /\ \A g \in DOMAIN rows[j].vals :
             left[j].vals[g] =
               IF g \in References(rows[j].ent) /\ OnDelete(rows[j].ent, g) = "set_null"
                  /\ rows[j].vals[g] \in gone
               THEN Null ELSE rows[j].vals[g]
    BY LeftRows
  <2>6. rows[j].ent \in DOMAIN App /\ f \in DOMAIN rows[j].vals
    BY <2>5 DEF RowsTyped, References
  <2>7. CASE v \in gone
    <3>1. action \in {"set_null", "restrict", "cascade"}
      BY <2>5, <2>6, ReferencesHaveAction
    <3>2. j \in Children(rows, v, action)
      BY <2>5 DEF Children
    <3>3. action = "set_null"
      BY <2>2, <2>3, <2>5, <2>7, <3>1, <3>2
    <3> QED
      BY <2>5, <2>6, <2>7, <3>3
  <2>8. CASE v \notin gone
    <3>1. left[j].vals[f] = v
      BY <2>5, <2>6, <2>8
    <3>2. v = Null \/ Exists(rows, Target(rows[j].ent, f), v)
      BY <2>5 DEF ReferencesHold
    <3>3. ASSUME v \in DOMAIN rows
          PROVE  v \in DOMAIN left /\ left[v].ent = rows[v].ent
      BY <2>4, <2>8, <3>3, LeftRows
    <3> QED
      BY <2>5, <3>1, <3>2, <3>3 DEF Exists
  <2> QED
    BY <2>7, <2>8
<1> QED
  BY <1>1, <1>2

\* Fewer rows, and null in places, is still no value twice.
LEMMA DeleteRowKeepsUnique ==
  ASSUME NEW rows, RowsTyped(rows), UniqueHolds(rows), NEW e, NEW i
  PROVE  UniqueHolds(DeleteRow(rows, e, i))
<1>1. CASE ~Exists(rows, e, i)
  BY <1>1 DEF DeleteRow
<1>2. CASE Exists(rows, e, i)
  <2> DEFINE left == WithoutRows(rows, Doomed(rows, i))
  <2>1. DeleteRow(rows, e, i) = left
    BY <1>2 DEF DeleteRow, ForeignKeysOn
  <2>2. \A j \in DOMAIN left :
          /\ j \in DOMAIN rows
          /\ left[j].ent = rows[j].ent
          /\ \A f \in DOMAIN rows[j].vals :
               left[j].vals[f] = Null \/ left[j].vals[f] = rows[j].vals[f]
    BY LeftRows
  <2>3. \A j \in DOMAIN rows : UniqueFields(App[rows[j].ent]) \subseteq DOMAIN rows[j].vals
    BY DEF UniqueFields, RowsTyped, Fields
  <2> HIDE DEF left
  <2> QED
    BY <2>1, <2>2, <2>3 DEF UniqueHolds
<1> QED
  BY <1>1, <1>2

\* A delete changes no field of a row that is left, but one that referred to a row that went.
LEMMA DeleteRowKeepsFields ==
  ASSUME NEW rows, RowsTyped(rows), NEW e, NEW i, NEW j \in DOMAIN DeleteRow(rows, e, i),
         NEW f \in DOMAIN rows[j].vals, DeleteRow(rows, e, i)[j].vals[f] # rows[j].vals[f]
  PROVE  rows[j].vals[f] \notin DOMAIN DeleteRow(rows, e, i)
<1>1. Exists(rows, e, i)
  BY DEF DeleteRow
<1> DEFINE gone == Doomed(rows, i)
           left == WithoutRows(rows, gone)
<1>2. DeleteRow(rows, e, i) = left
  BY <1>1 DEF DeleteRow, ForeignKeysOn
<1>3. rows[j].vals[f] \in gone
  BY <1>2, LeftRows
<1>4. DOMAIN left = DOMAIN rows \ gone
  BY DEF WithoutRows
<1> QED
  BY <1>2, <1>3, <1>4

\* A delete that is not refused keeps every constraint.
LEMMA DeleteRowKeeps ==
  ASSUME NEW rows, RowsTyped(rows), Constrained(rows), NEW e, NEW i,
         DeleteError(rows, e, i) = "none"
  PROVE  RowsTyped(DeleteRow(rows, e, i)) /\ Constrained(DeleteRow(rows, e, i))
<1>1. RequiredHolds(DeleteRow(rows, e, i))
  BY DEF DeleteError
<1> QED
  BY <1>1, DeleteRowKeepsTypes, DeleteRowKeepsReferences, DeleteRowKeepsUnique DEF Constrained

-----------------------------------------------------------------------------
(***************************************************************************)
(* Insert and update.                                                      *)
(***************************************************************************)
\* What a statement leaves without an error holds.
LEMMA StatementKeeps ==
  ASSUME NEW rows, StatementError(rows) = "none"
  PROVE  Constrained(rows)
BY DEF StatementError, Constrained, ForeignKeysOn

\* A new row has all columns of its entity.
LEMMA InsertRowKeepsTypes ==
  ASSUME NEW rows, RowsTyped(rows), NEW i, NEW e \in DOMAIN App, NEW body
  PROVE  RowsTyped(InsertRow(rows, i, e, Completed(Fields(e), body)))
<1> DEFINE vals == Completed(Fields(e), body)
           after == InsertRow(rows, i, e, vals)
<1>1. DOMAIN Fields(e) \subseteq DOMAIN vals
  BY DEF Completed, Over
<1> HIDE DEF vals
<1>2. /\ DOMAIN after = {i} \cup DOMAIN rows
      /\ after[i] = Row(e, vals)
      /\ \A j \in DOMAIN rows : j # i => after[j] = rows[j]
  BY DEF InsertRow, Over
<1>3. DOMAIN Row(e, vals) = {"ent", "vals"} /\ Row(e, vals).ent = e /\ Row(e, vals).vals = vals
  BY DEF Row
<1> HIDE DEF after
<1>4. RowsTyped(after)
  BY <1>1, <1>2, <1>3 DEF RowsTyped
<1> QED
  BY <1>4 DEF after, vals

\* An update changes one row, whose entity and other columns stay.
LEMMA UpdatedRow ==
  ASSUME NEW rows, RowsTyped(rows), NEW e, NEW i, NEW vals, Exists(rows, e, i)
  PROVE  LET after == UpdateRow(rows, e, i, vals)
         IN /\ DOMAIN after = DOMAIN rows
            /\ DOMAIN after[i] = {"ent", "vals"}
            /\ after[i].ent = rows[i].ent
            /\ DOMAIN after[i].vals = DOMAIN vals \cup DOMAIN rows[i].vals
            /\ \A f \in DOMAIN rows[i].vals \ DOMAIN vals : after[i].vals[f] = rows[i].vals[f]
            /\ \A j \in DOMAIN rows : j # i => after[j] = rows[j]
<1>1. DOMAIN rows[i] = {"ent", "vals"} /\ i \in DOMAIN rows
  BY DEF RowsTyped, Exists
<1>2. UpdateRow(rows, e, i, vals) = [rows EXCEPT ![i] = [rows[i] EXCEPT !.vals = Over(vals, rows[i].vals)]]
  BY <1>1 DEF UpdateRow
<1> QED
  BY <1>1, <1>2 DEF Over

\* Rows stay rows, and where there is none nothing changes.
LEMMA UpdateRowKeepsTypes ==
  ASSUME NEW rows, RowsTyped(rows), NEW e, NEW i, NEW vals
  PROVE  RowsTyped(UpdateRow(rows, e, i, vals))
<1>1. CASE ~Exists(rows, e, i)
  BY <1>1 DEF UpdateRow
<1>2. CASE Exists(rows, e, i)
  <2> DEFINE after == UpdateRow(rows, e, i, vals)
  <2>1. /\ DOMAIN after = DOMAIN rows
        /\ DOMAIN after[i] = {"ent", "vals"}
        /\ after[i].ent = rows[i].ent
        /\ DOMAIN after[i].vals = DOMAIN vals \cup DOMAIN rows[i].vals
        /\ \A j \in DOMAIN rows : j # i => after[j] = rows[j]
    BY <1>2, UpdatedRow
  <2>2. i \in DOMAIN rows
    BY <1>2 DEF Exists
  <2> HIDE DEF after
  <2>3. RowsTyped(after)
    BY <2>1, <2>2 DEF RowsTyped
  <2> QED
    BY <2>3 DEF after
<1> QED
  BY <1>1, <1>2

-----------------------------------------------------------------------------
(***************************************************************************)
(* Sound rows: typed, constrained, and none under an id still to be given  *)
(* out.  What a statement that is not refused leaves is sound.             *)
(***************************************************************************)
IdsUpTo(rows, n) == \A i \in DOMAIN rows : i[2] \in Int /\ i[2] <= n

Sound(rows, n) == RowsTyped(rows) /\ Constrained(rows) /\ IdsUpTo(rows, n)

\* No row has the id that is given out next.
LEMMA NextIdIsNew ==
  ASSUME NEW n \in Nat, NEW rows, IdsUpTo(rows, n)
  PROVE  Id(n + 1) \notin DOMAIN rows
<1>1. Id(n + 1)[2] = n + 1
  BY DEF Id
<1> QED
  BY <1>1 DEF IdsUpTo

\* Ids stay old.
LEMMA SoundLater ==
  ASSUME NEW n \in Nat, NEW m \in Nat, n <= m, NEW rows, Sound(rows, n)
  PROVE  Sound(rows, m)
BY DEF Sound, IdsUpTo

\* An insert leaves the other rows as they are.
LEMMA InsertIsSound ==
  ASSUME NEW n \in Nat, NEW rows, Sound(rows, n), NEW e \in DOMAIN App, NEW body,
         StatementError(InsertRow(rows, Id(n + 1), e, Completed(Fields(e), body))) = "none"
  PROVE  LET after == InsertRow(rows, Id(n + 1), e, Completed(Fields(e), body))
         IN /\ Sound(after, n + 1)
            /\ DOMAIN after = DOMAIN rows \cup {Id(n + 1)}
            /\ \A i \in DOMAIN rows : after[i] = rows[i]
<1> DEFINE vals == Completed(Fields(e), body)
           after == InsertRow(rows, Id(n + 1), e, vals)
<1>1. RowsTyped(after) /\ Constrained(after)
  BY InsertRowKeepsTypes, StatementKeeps DEF Sound
<1>2. Id(n + 1) \notin DOMAIN rows
  BY NextIdIsNew DEF Sound
<1>3. Id(n + 1)[2] = n + 1
  BY DEF Id
<1> HIDE DEF vals
<1>4. DOMAIN after = DOMAIN rows \cup {Id(n + 1)} /\ \A i \in DOMAIN rows : after[i] = rows[i]
  BY <1>2 DEF InsertRow, Over
<1> HIDE DEF after
<1>5. IdsUpTo(after, n + 1)
  BY <1>3, <1>4 DEF Sound, IdsUpTo
<1> QED
  BY <1>1, <1>4, <1>5 DEF Sound, after, vals

\* An update leaves the same rows.
LEMMA UpdateIsSound ==
  ASSUME NEW n \in Nat, NEW rows, Sound(rows, n), NEW e, NEW i, NEW vals,
         StatementError(UpdateRow(rows, e, i, vals)) = "none"
  PROVE  Sound(UpdateRow(rows, e, i, vals), n)
<1>1. RowsTyped(UpdateRow(rows, e, i, vals)) /\ Constrained(UpdateRow(rows, e, i, vals))
  BY UpdateRowKeepsTypes, StatementKeeps DEF Sound
<1>2. DOMAIN UpdateRow(rows, e, i, vals) = DOMAIN rows
  BY UpdatedRow DEF Sound, UpdateRow
<1> QED
  BY <1>1, <1>2 DEF Sound, IdsUpTo

\* A delete leaves fewer rows if there is one to delete, and else the same.
LEMMA DeleteIsSound ==
  ASSUME NEW n \in Nat, NEW rows, Sound(rows, n), NEW e, NEW i, DeleteError(rows, e, i) = "none"
  PROVE  /\ Sound(DeleteRow(rows, e, i), n)
         /\ DeleteRow(rows, e, i) # rows <=> Exists(rows, e, i)
<1>1. RowsTyped(DeleteRow(rows, e, i)) /\ Constrained(DeleteRow(rows, e, i))
  BY DeleteRowKeeps DEF Sound
<1>2. CASE Exists(rows, e, i)
  <2>1. DOMAIN DeleteRow(rows, e, i) = DOMAIN rows \ Doomed(rows, i)
    BY <1>2 DEF DeleteRow, WithoutRows, ForeignKeysOn
  <2>2. i \in DOMAIN rows /\ i \in Doomed(rows, i)
    BY <1>2, DoomedAreRows DEF Exists
  <2>3. DeleteRow(rows, e, i) # rows
    BY <2>1, <2>2
  <2> QED
    BY <1>1, <1>2, <2>1, <2>3 DEF Sound, IdsUpTo
<1>3. CASE ~Exists(rows, e, i)
  BY <1>3 DEF DeleteRow
<1> QED
  BY <1>2, <1>3
=============================================================================
