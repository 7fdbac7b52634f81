----------------------------- MODULE MCSandbox -----------------------------
(***************************************************************************)
(* A library for Sandbox: books refer to their authors.  Two functions     *)
(* share one module; later versions of the manifest widen one of them, or  *)
(* narrow both.                                                            *)
(***************************************************************************)
EXTENDS Sandbox, TLC

CONSTANTS c1, c2

Field(name, type, required) ==
  [name |-> name, type |-> type, required |-> required, unique |-> FALSE,
   default |-> {}, min |-> {}, max |-> {}, values |-> {}, ref |-> {}]

Author == [Field("author", "reference", TRUE) EXCEPT
             !.ref = {[target |-> "author", onDelete |-> "set_null"]}]

Library ==
  [author |-> [name |-> "Author", fields |-> [nick |-> Field("nick", "text", FALSE)]],
   book |-> [name |-> "Book", fields |-> [author |-> Author]]]

AllOperations == {"create", "read", "update", "delete"}
SomeOperations == [author |-> AllOperations, book |-> AllOperations]

ann == Id(-1)

OneAuthor == ann :> Row("author", [nick |-> Null])

TheDatabases == {OneAuthor}

Function(entry, caps) == [entry |-> entry, caps |-> caps]

First ==
  [clean |-> Function("fn.wasm", Capable([author |-> {"delete"}], {}, FALSE)),
   write |-> Function("fn.wasm", Capable([book |-> {"create", "read"}], {"site"}, FALSE))]
Second ==
  [clean |-> Function("lost.wasm", Capable(<<>>, {}, FALSE)),
   write |-> Function("fn.wasm", Capable([author |-> {"delete"}, book |-> {"create", "update"}],
                                         {"site"}, TRUE))]

TheManifests == {First, Second}

\* A version that narrows both functions, so that a later one widens them again.
Third ==
  [clean |-> Function("fn.wasm", Capable([author |-> {"read"}], {}, FALSE)),
   write |-> Function("fn.wasm", Capable([book |-> {"read"}], {"mirror"}, FALSE))]

ThreeManifests == {First, Second, Third}
TheFiles == [path \in {"fn.wasm"} |-> "one"]

Fetch(host, joins) == [kind |-> "network", host |-> host, joins |-> joins]

DataAsk(op, ent, id, values) == [kind |-> "data", op |-> op, ent |-> ent, id |-> id, values |-> values]

TheAsks ==
  {DataAsk("create", "book", Null, [author |-> ann]),
   DataAsk("update", "book", Id(1), [author |-> ann]),
   DataAsk("read", "book", Null, <<>>),
   DataAsk("delete", "author", ann, <<>>),
   Fetch("site", {}),
   [kind |-> "model"],
   [kind |-> "malformed"]}

\* For the runs that follow one invocation over several versions and calls.
FewAsks ==
  {DataAsk("create", "book", Null, [author |-> ann]),
   DataAsk("update", "book", Id(1), [author |-> ann]),
   DataAsk("read", "book", Null, <<>>),
   DataAsk("delete", "author", ann, <<>>),
   Fetch("site", {}), Fetch("site", {"elsewhere"}), Fetch("mirror", {}),
   [kind |-> "model"],
   [kind |-> "malformed"]}
=============================================================================
