---------------------------- MODULE MCEvolution ----------------------------
(***************************************************************************)
(* Universes of manifests for Evolution.  One entity "task" carries the    *)
(* fields under change; an optional entity "person" is a reference target. *)
(***************************************************************************)
EXTENDS Evolution

Field(name, type, required, unique) ==
  [name |-> name, type |-> type, required |-> required, unique |-> unique,
   default |-> {}, min |-> {}, max |-> {}, values |-> {}, ref |-> {}]

X == Text(1, 0, <<1>>)
Y == Text(2, 0, <<2>>)

PlainText == Field("f", "text", FALSE, FALSE)
RequiredText == Field("f", "text", TRUE, FALSE)
RenamedText == Field("g", "text", FALSE, FALSE)
DefaultText == [PlainText EXCEPT !.default = {X}]
UniqueText == Field("f", "text", FALSE, TRUE)
RenamedBounded == [RenamedText EXCEPT !.max = {1}]
WholeNumber == Field("f", "integer", FALSE, FALSE)
RequiredNumber == Field("f", "integer", TRUE, FALSE)
Decimal == Field("f", "real", FALSE, FALSE)
Flag == [Field("f", "boolean", TRUE, FALSE) EXCEPT !.default = {Bool(TRUE)}]
Stamp == Field("f", "datetime", FALSE, FALSE)
Choice == [Field("f", "enum", FALSE, FALSE) EXCEPT !.values = {X}]
WiderChoice == [Choice EXCEPT !.values = {X, Y}]
Reference(action) ==
  [Field("f", "reference", FALSE, FALSE) EXCEPT
     !.ref = {[target |-> "person", onDelete |-> action]}]

Person == [name |-> "Person", fields |-> [nick |-> Field("nick", "text", TRUE, FALSE)]]

Task(name, fields) == [name |-> name, fields |-> fields]

\* A second field, so that an entity always has a field left.
State == Field("state", "text", TRUE, FALSE)

\* Every shape of one field beside every shape of another, so that one
\* changeset mixes native operations, rebuilds, safe and destructive classes;
\* fields and entities come and go.
EveryShape ==
  LET plain == {PlainText, RequiredText, RenamedText, DefaultText, UniqueText, WholeNumber,
                RequiredNumber, Decimal, Flag, Stamp, Choice, WiderChoice}
      refs == {Reference("set_null"), Reference("cascade")}
      second == {State, [State EXCEPT !.name = "status", !.required = FALSE],
                 [State EXCEPT !.default = {Y}]}
      tasks == {Task("Task", [f1 |-> s, f2 |-> t]) : s \in plain, t \in second}
               \cup {Task("Job", [f1 |-> s]) : s \in plain}
               \cup {Task("Task", [f2 |-> t]) : t \in second}
  IN {[task |-> t] : t \in tasks}
     \cup {[task |-> t, person |-> Person] : t \in tasks}
     \cup {[task |-> Task("Task", [f1 |-> r, f2 |-> State]), person |-> Person] : r \in refs}
     \cup {[person |-> Person]}

AllWitnesses ==
  UNION {[fields -> WitnessKinds] : fields \in SUBSET {"f1", "f2"}}

Samples == {X, Y, Integer(0), Integer(1), Integer(2), Real(0), Real(3), Real(8)}

\* A universe in which a documented statement fails.
OneField(shapes) == {[task |-> Task("Task", [f1 |-> s, f2 |-> State])] : s \in shapes}

Bounds == OneField({PlainText, RenamedBounded})
=============================================================================
