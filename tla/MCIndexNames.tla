---------------------------- MODULE MCIndexNames ----------------------------
(***************************************************************************)
(* Manifests for IndexNames: a task, and a task_log beside it.  No two     *)
(* columns of theirs share an index name, as task's log_title would with   *)
(* task_log's title.                                                       *)
(***************************************************************************)
EXTENDS IndexNames

Field(name, required, unique) ==
  [name |-> name, type |-> "text", required |-> required, unique |-> unique,
   default |-> {}, min |-> {}, max |-> {}, values |-> {}, ref |-> {}]

ThePieces ==
  [task |-> <<"task">>, task_log |-> <<"task", "log">>, title |-> <<"title">>,
   text |-> <<"text">>]

TheOrder == <<"task", "task_log">>

Shapes(name) == {Field(name, FALSE, FALSE), Field(name, FALSE, TRUE), Field(name, TRUE, TRUE)}

Renamed == Field("body", FALSE, FALSE)

\* ADD COLUMN leaves its DEFAULT behind.
Defaulted == [Field("text", FALSE, FALSE) EXCEPT !.default = {Text(1, 0, <<1>>)}]

Entities(name) ==
  {[name |-> name, fields |-> [title |-> s]] : s \in Shapes("title")}
  \cup {[name |-> name, fields |-> [text |-> s]] : s \in Shapes("text") \cup {Renamed}}
  \cup {[name |-> name, fields |-> [title |-> s, text |-> t]] : s \in Shapes("title"), t \in {Defaulted}}

Apart ==
  {[task |-> t] : t \in Entities("Task")}
  \cup {[task |-> t, task_log |-> l] : t \in Entities("Task"), l \in Entities("Log")}

Backfills == {[f \in {"title", "text"} |-> "backfill"]}

Samples == {Text(1, 0, <<1>>)}

ASSUME NamesNeverMeet
=============================================================================
