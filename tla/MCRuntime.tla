------------------------------ MODULE MCRuntime ------------------------------
(***************************************************************************)
(* A small app for Runtime: people own tasks (cascade) and review them     *)
(* (set null), and notes keep their task from being deleted (restrict).    *)
(***************************************************************************)
EXTENDS Runtime

CONSTANTS c1, c2

Field(name, type, required) ==
  [name |-> name, type |-> type, required |-> required, unique |-> FALSE,
   default |-> {}, min |-> {}, max |-> {}, values |-> {}, ref |-> {}]

Reference(name, required, target, onDelete) ==
  [Field(name, "reference", required) EXCEPT !.ref = {[target |-> target, onDelete |-> onDelete]}]

Title == [Field("title", "text", TRUE) EXCEPT !.unique = TRUE, !.max = {2}]
Pinned == [Field("pinned", "boolean", FALSE) EXCEPT !.default = {Bool(1)}]

TaskApp ==
  [person |-> [name |-> "Person", fields |-> [nick |-> Field("nick", "text", FALSE)]],
   task |-> [name |-> "Task",
             fields |-> [title |-> Title,
                         owner |-> Reference("owner", TRUE, "person", "cascade"),
                         reviewer |-> Reference("reviewer", FALSE, "person", "set_null")]],
   note |-> [name |-> "Note",
             fields |-> [task |-> Reference("task", TRUE, "task", "restrict"), pinned |-> Pinned]]]

AllOperations == {"create", "read", "update", "delete"}
SomeOperations ==
  [person |-> AllOperations, task |-> AllOperations, note |-> AllOperations \ {"update"}]

\* The rows before the first request: their ids are none of those given out.
ann == Id(-1)
bob == Id(-2)
chore == Id(-3)
A == Text(1, 0, <<1>>)
B == Text(1, 0, <<2>>)
TooLong == Text(3, 0, <<3>>)
Noon == Text(20, 0, <<4>>)

Times == {Noon}

People == [i \in {ann, bob} |-> Row("person", [nick |-> Null])]
OneTask ==
  [i \in {ann, bob, chore} |->
     IF i = chore THEN Row("task", [title |-> A, owner |-> ann, reviewer |-> bob]) ELSE People[i]]

Param(name) == [root |-> "params", name |-> name]
Step1(field) == [root |-> "steps", name |-> 1, field |-> field]
Literal(v) == [root |-> "literal", value |-> v]

\* handover: a task and a note on it for the newcomer, and the old owner goes,
\* which fails when a note holds a task of theirs.
Handover ==
  [params |-> [from |-> Reference("from", TRUE, "person", "restrict"),
               to |-> Reference("to", FALSE, "person", "restrict")],
   steps |-> <<[op |-> "create", ent |-> "task", rowId |-> {},
                set |-> [title |-> Literal(B), owner |-> Param("to")]],
               [op |-> "create", ent |-> "note", rowId |-> {}, set |-> [task |-> Step1("id")]],
               [op |-> "update", ent |-> "task", rowId |-> {Step1("id")},
                set |-> [reviewer |-> Step1("owner")]],
               [op |-> "read", ent |-> "task", rowId |-> {Step1("id")}, set |-> <<>>],
               [op |-> "list", ent |-> "task", rowId |-> {}, set |-> [reviewer |-> Param("to")]],
               [op |-> "delete", ent |-> "person", rowId |-> {Param("from")}, set |-> <<>>]>>]

TheTools == [handover |-> Handover]

Request(kind, ent, id, body) == [kind |-> kind, ent |-> ent, id |-> id, body |-> body]

Query(filters) == [filters |-> filters, limit |-> 1, offset |-> 0]

TheRequests ==
  {Request("create", "task", Null, [title |-> B, owner |-> ann, reviewer |-> bob]),
   Request("create", "task", Null, [title |-> TooLong, owner |-> ann]),
   Request("create", "note", Null, [task |-> chore]),
   Request("update", "task", chore, [owner |-> bob]),
   Request("update", "task", chore, [title |-> B, reviewer |-> Null]),
   Request("update", "note", Id(1), [task |-> chore]),
   Request("read", "task", chore, <<>>),
   Request("list", "task", Null, Query({[field |-> "owner", op |-> "ne", value |-> bob]})),
   Request("list", "note", Null, Query({[field |-> "pinned", op |-> "eq", value |-> B]})),
   Request("list", "note", Null, Query({[field |-> "created_at", op |-> "eq", value |-> A]})),
   Request("list", "task", Null, Query({[field |-> "id", op |-> "eq", value |-> chore],
                                        [field |-> "updated_at", op |-> "gt", value |-> Noon]})),
   Request("delete", "person", ann, <<>>),
   Request("delete", "person", bob, <<>>),
   Request("tool", "handover", Null, [from |-> ann, to |-> bob]),
   Request("tool", "handover", Null, [from |-> bob, to |-> Null])}

TheDatabases == {OneTask}
=============================================================================
