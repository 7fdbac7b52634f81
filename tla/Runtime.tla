------------------------------- MODULE Runtime -------------------------------
(***************************************************************************)
(* Requests over the rows of one served app: package domain behind the     *)
(* HTTP API, and package tools behind MCP.  Each client has one request    *)
(* under way; a request is a sequence of statements.                       *)
(*                                                                         *)
(* The store has one connection (SetMaxOpenConns(1)).  A plain request     *)
(* takes it for one statement at a time, so requests interleave between    *)
(* statements; a tool call holds it from BeginTx to Commit or Rollback.    *)
(***************************************************************************)
EXTENDS RowStore

CONSTANTS
  Clients,
  NoClient,
  Requests,     \* what clients ask for
  Tools,        \* tool -> its params and steps
  Operations,   \* entity -> the operations the manifest enables
  Databases,    \* the databases an app may have been served with so far
  MaxSent       \* bound on the requests ever sent

ASSUME NoClientIsNone == NoClient \notin Clients
ASSUME MaxSentIsNatural == MaxSent \in Nat
\* The HTTP API and MCP answer "not found" for an entity or a tool there is none of.
ASSUME RequestsAreKnown ==
  \A r \in Requests :
    /\ r.kind \in {"create", "read", "list", "update", "delete", "tool"}
    /\ IF r.kind = "tool" THEN r.ent \in DOMAIN Tools ELSE r.ent \in DOMAIN App
\* Validation has found each step's operation and entity.
ASSUME ToolsAreValid ==
  \A t \in DOMAIN Tools :
    /\ Len(Tools[t].steps) \in Nat /\ DOMAIN Tools[t].steps = 1..Len(Tools[t].steps)
    /\ \A k \in DOMAIN Tools[t].steps :
         /\ Tools[t].steps[k].op \in {"create", "read", "list", "update", "delete"}
         /\ Tools[t].steps[k].ent \in DOMAIN App
ASSUME DatabasesHold ==
  \A rows \in Databases :
    RowsTyped(rows) /\ ReferencesHold(rows) /\ UniqueHolds(rows) /\ RequiredHolds(rows)
\* store.NewID never gives an id out twice; those given out before have no positive number.
ASSUME IdsAreOld == \A rows \in Databases : \A i \in DOMAIN rows : i[2] \in Int /\ i[2] <= 0

VARIABLES
  db,       \* the committed rows
  conn,     \* who holds the connection
  work,     \* the rows as the transaction that holds the connection sees them
  next,     \* the number of ids store.NewID has given out
  call,     \* client -> its request and how far it got
  answer,   \* client -> the answer to its last request
  wrote,    \* client -> its last request changed db (an observer)
  sent

vars == <<db, conn, work, next, call, answer, wrote, sent>>

NoRows == [i \in {} |-> {}]

NoCall == [pc |-> "idle", req |-> [kind |-> "none"], checks |-> {}, missing |-> FALSE,
           id |-> Null, total |-> 0, existing |-> NoRows, k |-> 0, results |-> NoRows, found |-> NoRows]

NoAnswer == [status |-> "none", kind |-> "none", row |-> {}]

Init ==
  /\ db \in Databases
  /\ conn = NoClient /\ work = NoRows
  /\ next = 0
  /\ call = [c \in Clients |-> NoCall]
  /\ answer = [c \in Clients |-> NoAnswer]
  /\ wrote = [c \in Clients |-> FALSE]
  /\ sent = 0

Goto(c, pc) == call' = [call EXCEPT ![c].pc = pc]

\* The request ends; row is the optional row its answer carries.
Answer(c, status, row) ==
  /\ answer' = [answer EXCEPT ![c] = [status |-> status, kind |-> call[c].req.kind, row |-> row]]
  /\ call' = [call EXCEPT ![c] = NoCall]

\* A mutant: a reference is checked on the store, whoever asks.
ReadsStore(c) == conn = NoClient

\* The rs argument of domain's In functions: a plain request checks references
\* on the store, a tool's step on its own transaction.
CanReadReferences(c) == conn \in {NoClient, c}

-----------------------------------------------------------------------------
(***************************************************************************)
(* Plain requests.                                                         *)
(***************************************************************************)
\* A list is a read.
Enabled(r) ==
  r.kind = "tool" \/ (IF r.kind = "list" THEN "read" ELSE r.kind) \in Operations[r.ent]

FirstStep(kind) ==
  CASE kind = "create" -> "check" [] kind = "update" -> "find" [] kind = "tool" -> "begin"
    [] kind = "list" -> "count"
    [] OTHER -> kind

FirstChecks(r) == IF r.kind = "create" THEN ReferencesIn(Fields(r.ent), r.body) ELSE {}

\* The HTTP API refuses a body with a key that is no field before it looks further.
Unknown(r) == r.kind \in {"create", "update"} /\ ~(DOMAIN r.body \subseteq DOMAIN Fields(r.ent))

\* A filter on what is no column, or with a value that its column cannot have.
BadQuery(r) ==
  r.kind = "list" /\ \E q \in r.body.filters :
    q.field \notin DOMAIN Queryable(r.ent) \/ ~Filterable(Queryable(r.ent)[q.field], q.op, q.value)

Refusal(r) ==
  IF Unknown(r) THEN "invalid" ELSE IF ~Enabled(r) THEN "disabled"
  ELSE IF BadQuery(r) THEN "invalid" ELSE "none"

Send(c, r) ==
  /\ call[c].pc = "idle"
  /\ sent < MaxSent
  /\ sent' = sent + 1
  /\ wrote' = [wrote EXCEPT ![c] = FALSE]
  /\ IF Refusal(r) = "none"
     THEN /\ call' = [call EXCEPT ![c] = [NoCall EXCEPT !.pc = FirstStep(r.kind), !.req = r,
                                                        !.checks = FirstChecks(r), !.id = r.id]]
          /\ answer' = [answer EXCEPT ![c] = NoAnswer]
     ELSE /\ answer' = [answer EXCEPT ![c] = [NoAnswer EXCEPT !.status = Refusal(r)]]
          /\ UNCHANGED call
  /\ UNCHANGED <<db, conn, work, next>>

Statement(c, pc) == call[c].pc = pc /\ conn = NoClient

Get(c) ==
  /\ Statement(c, "read")
  /\ LET r == call[c].req
     IN IF Exists(db, r.ent, r.id) THEN Answer(c, "ok", {db[r.id]}) ELSE Answer(c, "notFound", {})
  /\ UNCHANGED <<db, conn, work, next, wrote, sent>>

\* A list counts in one statement, and selects a page in another.
Count(c) ==
  /\ Statement(c, "count")
  /\ LET r == call[c].req
     IN \E found \in Matches(db, r.ent, r.body.filters) :
          call' = [call EXCEPT ![c].pc = "select", ![c].total = Cardinality(found)]
  /\ UNCHANGED <<db, conn, work, next, answer, wrote, sent>>

Select(c) ==
  /\ Statement(c, "select")
  /\ LET r == call[c].req
     IN \E found \in Matches(db, r.ent, r.body.filters) :
          \E page \in Pages(found, r.body.limit, r.body.offset) :
            Answer(c, "ok", {[total |-> call[c].total, page |-> page]})
  /\ UNCHANGED <<db, conn, work, next, wrote, sent>>

\* Update's first read: the row it finds only tells that there is one.
Find(c) ==
  /\ Statement(c, "find")
  /\ LET r == call[c].req
     IN IF Exists(db, r.ent, r.id)
        THEN /\ call' = [call EXCEPT ![c].pc = "check", ![c].existing = db[r.id].vals,
                                     ![c].checks = ReferencesIn(Fields(r.ent), r.body)]
             /\ UNCHANGED answer
        ELSE Answer(c, "notFound", {})
  /\ UNCHANGED <<db, conn, work, next, wrote, sent>>

\* A look-up that fails is a reference that could not be verified.
CheckReference(c) ==
  /\ call[c].pc = "check"
  /\ CanReadReferences(c) /\ conn = NoClient
  /\ \E f \in call[c].checks, read \in BOOLEAN :
       LET r == call[c].req
           found == read /\ TargetExists(db, Fields(r.ent)[f], r.body[f])
       IN call' = [call EXCEPT ![c].checks = @ \ {f}, ![c].missing = @ \/ ~found]
  /\ UNCHANGED <<db, conn, work, next, answer, wrote, sent>>

Checked(c) == call[c].pc = "check" /\ call[c].checks = {}

Rejected(c) ==
  LET r == call[c].req
  IN call[c].missing \/ BodyIssues(Fields(r.ent), r.body, r.kind = "create")

Reject(c) ==
  /\ Checked(c) /\ Rejected(c)
  /\ Answer(c, "invalid", {})
  /\ UNCHANGED <<db, conn, work, next, wrote, sent>>

Insert(c) ==
  /\ Checked(c) /\ ~Rejected(c) /\ conn = NoClient
  /\ call[c].req.kind = "create"
  /\ LET r == call[c].req
     IN \E after \in {InsertRow(db, Id(next + 1), r.ent, Completed(Fields(r.ent), r.body))} :
        IF StatementError(after) = "none"
        THEN /\ db' = after
             /\ next' = next + 1
             /\ call' = [call EXCEPT ![c].pc = "reread", ![c].id = Id(next + 1)]
             /\ wrote' = [wrote EXCEPT ![c] = TRUE]
             /\ UNCHANGED answer
        ELSE Answer(c, StatementError(after), {}) /\ UNCHANGED <<db, next, wrote>>
  /\ UNCHANGED <<conn, work, sent>>

\* A mutant: the row that was found is written back with the changes.
WholeRow(c) == Over(call[c].req.body, call[c].existing)

\* A partial change: only the fields present in the body.
ChangedFields(c) == call[c].req.body

Update(c) ==
  /\ Checked(c) /\ ~Rejected(c) /\ conn = NoClient
  /\ call[c].req.kind = "update"
  /\ LET r == call[c].req
     IN \E after \in {UpdateRow(db, r.ent, r.id, ChangedFields(c))} :
        IF StatementError(after) = "none"
        THEN /\ db' = after
             /\ Goto(c, "reread")
             /\ wrote' = [wrote EXCEPT ![c] = after # db]
             /\ UNCHANGED answer
        ELSE Answer(c, StatementError(after), {}) /\ UNCHANGED <<db, wrote>>
  /\ UNCHANGED <<conn, work, next, sent>>

\* The row as it is now: update answers not found without one, create does not.
Reread(c) ==
  /\ Statement(c, "reread")
  /\ LET r == call[c].req
         row == {db[i] : i \in {call[c].id} \cap DOMAIN db}
     IN Answer(c, IF row = {} /\ r.kind = "update" THEN "notFound" ELSE "ok", row)
  /\ UNCHANGED <<db, conn, work, next, wrote, sent>>

Delete(c) ==
  /\ Statement(c, "delete")
  /\ LET r == call[c].req
         error == DeleteError(db, r.ent, r.id)
     IN /\ Answer(c, IF error # "none" THEN error
                     ELSE IF Exists(db, r.ent, r.id) THEN "ok" ELSE "notFound", {})
        /\ db' = IF error = "none" THEN DeleteRow(db, r.ent, r.id) ELSE db
  /\ wrote' = [wrote EXCEPT ![c] = db' # db]
  /\ UNCHANGED <<conn, work, next, sent>>

\* A statement fails (a full disk, a file gone).  An insert or update that is
\* followed by a failing read-back stays.
Fail(c) ==
  /\ conn = NoClient
  /\ \/ call[c].pc \in {"read", "count", "select", "find", "reread", "delete"}
     \/ Checked(c) /\ ~Rejected(c)
  /\ Answer(c, "internal", {})
  /\ UNCHANGED <<db, conn, work, next, wrote, sent>>

-----------------------------------------------------------------------------
(***************************************************************************)
(* Tool calls.  A template is a literal, a param of the call, or a field   *)
(* of an earlier step's result; it resolves to at most one value.  A step  *)
(* has templates for the fields it sets or, a list, filters by.            *)
(***************************************************************************)
ToolOf(c) == Tools[call[c].req.ent]

ParamIssues(rows, params, given) ==
  \/ ~(DOMAIN given \subseteq DOMAIN params)
  \/ BodyIssues(params, given, TRUE)
  \/ \E p \in ReferencesIn(params, given) : ~TargetExists(rows, params[p], given[p])

Resolve(template, params, results) ==
  CASE template.root = "literal" -> {template.value}
    [] template.root = "params" -> {params[template.name]}
    [] OTHER -> {results[s][template.field] :
                   s \in {s \in {template.name} \cap DOMAIN results :
                            template.field \in DOMAIN results[s]}}

ResolvedSet(set, params, results) ==
  [f \in DOMAIN set |-> CHOOSE v \in Resolve(set[f], params, results) : TRUE]

\* A filter compares with the value its template resolves to, null included.
ResolvedFilters(set, params, results) ==
  {[field |-> f, op |-> "eq", value |-> ResolvedSet(set, params, results)[f]] : f \in DOMAIN set}

Unresolved(step, params, results) ==
  \/ \E f \in DOMAIN step.set : Resolve(step.set[f], params, results) = {}
  \/ \E t \in step.rowId : Resolve(t, params, results) = {}

Failed(error) == {[error |-> error, rows |-> NoRows, result |-> NoRows, ids |-> 0]}

Done(rows, result, ids) == {[error |-> "none", rows |-> rows, result |-> result, ids |-> ids]}

AsResult(rows, i) == Over([x \in {"id"} |-> i], rows[i].vals)

\* A write that leaves these rows, ids of them new.
Written(rows, i, ids) ==
  IF StatementError(rows) = "none" THEN Done(rows, AsResult(rows, i), ids)
  ELSE Failed(StatementError(rows))

Deleted(rows, e, i) ==
  IF DeleteError(rows, e, i) # "none" THEN Failed(DeleteError(rows, e, i))
  ELSE IF Exists(rows, e, i) THEN Done(DeleteRow(rows, e, i), [x \in {"id"} |-> i], 0)
  ELSE Failed("notFound")

BodyRefused(rows, e, body, onCreate) ==
  \/ BodyIssues(Fields(e), body, onCreate)
  \/ \E f \in ReferencesIn(Fields(e), body) : ~TargetExists(rows, Fields(e)[f], body[f])

\* The outcome, as a set of one, of a step on row i over the rows that the
\* transaction sees.
Outcomes(op, e, i, body, rows) ==
  IF op = "delete" THEN Deleted(rows, e, i)
  ELSE IF op # "create" /\ ~Exists(rows, e, i) THEN Failed("notFound")
  ELSE IF op = "read" THEN Done(rows, AsResult(rows, i), 0)
  ELSE IF BodyRefused(rows, e, body, op = "create") THEN Failed("invalid")
  ELSE IF op = "update"
  THEN UNION {Written(after, i, 0) : after \in {UpdateRow(rows, e, i, body)}}
  ELSE UNION {Written(after, i, 1) : after \in {InsertRow(rows, i, e, Completed(Fields(e), body))}}

\* Of a list, later steps may use the total; a page of rows is no value of a field.
Listed(rows, found) == Done(rows, [x \in {"total"} |-> Integer(Cardinality(found))], 0)

StepOutcomes(step, params, results, rows, new) ==
  IF Unresolved(step, params, results) THEN Failed("invalid")
  ELSE IF step.op = "list"
  THEN UNION {Listed(rows, found) :
                found \in Matches(rows, step.ent, ResolvedFilters(step.set, params, results))}
  ELSE UNION {Outcomes(step.op, step.ent, i, ResolvedSet(step.set, params, results), rows) :
                i \in IF step.op = "create" THEN {new}
                      ELSE UNION {Resolve(t, params, results) : t \in step.rowId}}

\* BeginTx, then the params against the transaction.
ToolBegin(c) ==
  /\ Statement(c, "begin")
  /\ ~ParamIssues(db, ToolOf(c).params, call[c].req.body)
  /\ conn' = c /\ work' = db
  /\ call' = [call EXCEPT ![c].pc = "step", ![c].k = 1, ![c].found = db]
  /\ UNCHANGED <<db, next, answer, wrote, sent>>

ToolRefuse(c) ==
  /\ Statement(c, "begin")
  /\ ParamIssues(db, ToolOf(c).params, call[c].req.body)
  /\ Answer(c, "invalid", {})
  /\ UNCHANGED <<db, conn, work, next, wrote, sent>>

Outcome(c) ==
  LET t == ToolOf(c)
  IN StepOutcomes(t.steps[call[c].k], Completed(t.params, call[c].req.body), call[c].results,
                  work, Id(next + 1))

StepReady(c) ==
  /\ call[c].pc = "step" /\ conn = c
  /\ call[c].k <= Len(ToolOf(c).steps)
  /\ LET step == ToolOf(c).steps[call[c].k]
     IN step.op = "list" \/ DOMAIN step.set \cap References(step.ent) = {} \/ CanReadReferences(c)

ToolStep(c) ==
  /\ StepReady(c)
  /\ \E out \in Outcome(c) :
        /\ out.error = "none"
        /\ work' = out.rows
        /\ next' = next + out.ids
        /\ call' = [call EXCEPT ![c].k = @ + 1,
                                ![c].results = Over([k \in {call[c].k} |-> out.result], @)]
  /\ UNCHANGED <<db, conn, answer, wrote, sent>>

\* A mutant: a step that fails does not stop the sequence.
ToolSkipsStep(c) ==
  /\ StepReady(c)
  /\ \E out \in Outcome(c) : out.error # "none"
  /\ call' = [call EXCEPT ![c].k = @ + 1]
  /\ UNCHANGED <<db, conn, work, next, answer, wrote, sent>>

\* A mutant: what was done before the failure is committed.
ToolStopsShort(c) ==
  /\ StepReady(c)
  /\ \E out \in Outcome(c) : out.error # "none" /\ Answer(c, out.error, {})
  /\ db' = work /\ wrote' = [wrote EXCEPT ![c] = work # db]
  /\ conn' = NoClient /\ work' = NoRows
  /\ UNCHANGED <<next, sent>>

\* A step fails: the transaction rolls back.
ToolRollback(c) ==
  /\ StepReady(c)
  /\ \E out \in Outcome(c) : out.error # "none" /\ Answer(c, out.error, {})
  /\ conn' = NoClient /\ work' = NoRows
  /\ UNCHANGED <<db, next, wrote, sent>>

ToolCommit(c) ==
  /\ call[c].pc = "step" /\ conn = c
  /\ call[c].k > Len(ToolOf(c).steps)
  /\ db' = work
  /\ wrote' = [wrote EXCEPT ![c] = work # db]
  /\ conn' = NoClient /\ work' = NoRows
  /\ Answer(c, "ok", {})
  /\ UNCHANGED <<next, sent>>

\* The client of a tool goes away: its context ends, and with it BeginTx's
\* transaction.  Whatever the handler tries next fails (a reference check as
\* invalid).  A statement or a commit that fails ends it in the same way.
Cancel(c) ==
  /\ call[c].pc \in {"begin", "step"}
  /\ IF conn = c THEN conn' = NoClient /\ work' = NoRows ELSE UNCHANGED <<conn, work>>
  /\ \E status \in {"internal", "invalid"} : Answer(c, status, {})
  /\ UNCHANGED <<db, next, wrote, sent>>

-----------------------------------------------------------------------------
Step(c) ==
  \/ Get(c) \/ Count(c) \/ Select(c) \/ Find(c) \/ CheckReference(c) \/ Reject(c)
  \/ Insert(c) \/ Update(c) \/ Reread(c) \/ Delete(c)
  \/ ToolBegin(c) \/ ToolRefuse(c) \/ ToolStep(c) \/ ToolRollback(c) \/ ToolCommit(c)

Next == \E c \in Clients : \/ \E r \in Requests : Send(c, r)
                           \/ Step(c) \/ Cancel(c) \/ Fail(c)

\* A handler keeps running until it has answered: goroutines are scheduled, and
\* the pool hands the connection to those who wait for it in turn.
Spec == Init /\ [][Next]_vars /\ \A c \in Clients : WF_vars(Step(c))

-----------------------------------------------------------------------------
(***************************************************************************)
(* Properties.                                                             *)
(***************************************************************************)
\* The committed rows satisfy the manifest's constraints, though a reference is
\* checked in one statement and written in another (coerce.go:121-136,
\* store.go:40-47).
ConstraintsHold == ReferencesHold(db) /\ UniqueHolds(db) /\ RequiredHolds(db)

\* A request that is answered with a failure has not changed the database, be it
\* a plain request or a tool call of several steps (tools/execute.go:31-35), with
\* two exceptions, both of the read-back that follows a committed write
\* (store.go:428, 556-558): it may itself fail, and after an update the row may be
\* gone.  A refusal, and whatever ends a tool call but its commit, leaves nothing.
FailuresWriteNothing ==
  \A c \in Clients :
    wrote[c] => \/ answer[c].status \in {"none", "ok"}
                \/ answer[c].status = "internal" /\ answer[c].kind \in {"create", "update"}
                \/ answer[c].status = "notFound" /\ answer[c].kind = "update"

\* "everything else is left as-is" (operations.go:233-234): a plain request
\* changes a field of a row only if its body names the field, or if the row the
\* field referenced is gone; in particular no update undoes a concurrent one.
UpdatesKeepOtherFields ==
  [][conn = NoClient =>
       \A i \in DOMAIN db \cap DOMAIN db' : \A f \in DOMAIN db[i].vals :
         db'[i].vals[f] # db[i].vals[f] =>
           \/ db[i].vals[f] \notin DOMAIN db'
           \/ \E c \in Clients : /\ call[c] # call'[c] /\ call[c].req.kind = "update"
                                 /\ call[c].req.id = i /\ f \in DOMAIN call[c].req.body]_vars

\* "it either fully applies or has no effect at all" (tools/execute.go:31-35): a
\* tool's transaction that changes the database ends with the result of every
\* step, and changes the database it began with: no other request wrote in
\* between, so none is undone.
ToolsRunWhole ==
  [][\A c \in Clients :
       conn = c /\ conn' # c /\ db' # db =>
         /\ db = call[c].found /\ answer'[c].status = "ok"
         /\ DOMAIN call[c].results = DOMAIN ToolOf(c).steps]_vars

\* Every request is answered: nobody waits for a connection for ever.
RequestsAnswered == \A c \in Clients : (call[c].pc # "idle") ~> (call[c].pc = "idle")
=============================================================================
