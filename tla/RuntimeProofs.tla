--------------------------- MODULE RuntimeProofs ---------------------------
(***************************************************************************)
(* Theorems about Runtime, for any app, requests, tools and clients, and   *)
(* any order of their statements.                                          *)
(*                                                                         *)
(* RuntimeInv is inductive.  Its parts lean on each other: the committed   *)
(* rows keep the constraints because a tool's own rows do (Data), those    *)
(* are the committed ones with its steps because the holder of the         *)
(* connection is the only one that writes (Holds), and a failure but a     *)
(* read-back's has written nothing since a request writes last             *)
(* (WritesLast).                                                           *)
(***************************************************************************)
EXTENDS Runtime, RowStoreProofs

Members == {"pc", "req", "checks", "missing", "id", "total", "existing", "k", "results", "found"}

\* What is committed is sound, and so is what a tool would commit.
Data == next \in Nat /\ Sound(db, next) /\ Sound(work, next)

Shape ==
  /\ DOMAIN call = Clients /\ DOMAIN answer = Clients /\ DOMAIN wrote = Clients
  /\ \A c \in Clients : DOMAIN call[c] = Members

ToolPCs == {"begin", "step"}

\* A request is one of those that may be sent, and where its kind may be.
Serves(c) ==
  call[c].pc # "idle" =>
    /\ call[c].req \in Requests
    /\ call[c].pc \in ToolPCs <=> call[c].req.kind = "tool"
    /\ call[c].pc = "reread" => call[c].req.kind \in {"create", "update"}

\* The holder of the connection is a tool under way; nobody wrote since it began.
Holds(c) ==
  /\ call[c].pc = "step" <=> conn = c
  /\ call[c].pc = "step" => db = call[c].found

\* A tool has the results of the steps before its next one.
Progress(c) ==
  /\ call[c].pc = "begin" => DOMAIN call[c].results = {}
  /\ call[c].pc = "step" =>
       /\ call[c].k \in 1..Len(ToolOf(c).steps) + 1
       /\ DOMAIN call[c].results = 1..call[c].k - 1

\* What a request that has written may be answered.
MayFollowWrite(kind, status) ==
  \/ status \in {"none", "ok"}
  \/ status = "internal" /\ kind \in {"create", "update"}
  \/ status = "notFound" /\ kind = "update"

FailureWroteNothing(c) == wrote[c] => MayFollowWrite(answer[c].kind, answer[c].status)

\* A request that has not answered has written only if it is about to reread.
WritesLast(c) ==
  /\ call[c].pc # "idle" => answer[c].status = "none"
  /\ call[c].pc \notin {"idle", "reread"} => ~wrote[c]
  /\ FailureWroteNothing(c)

Local(c) == Serves(c) /\ Holds(c) /\ Progress(c) /\ WritesLast(c)

RuntimeInv == Data /\ Shape /\ \A c \in Clients : Local(c)

-----------------------------------------------------------------------------
(***************************************************************************)
(* What the outcomes of a tool's step are.                                 *)
(***************************************************************************)
\* An outcome that is no failure is a step done.
LEMMA DoneFields ==
  ASSUME NEW rows, NEW result, NEW ids, NEW out \in Done(rows, result, ids)
  PROVE  out.error = "none" /\ out.rows = rows /\ out.ids = ids
BY DEF Done

LEMMA FailedFields ==
  ASSUME NEW error, NEW out \in Failed(error)
  PROVE  out.error = error
BY DEF Failed

\* A statement's error is "none" or an error.
LEMMA WrittenIsSound ==
  ASSUME NEW rows, NEW i, NEW ids, NEW out \in Written(rows, i, ids), out.error = "none"
  PROVE  out.rows = rows /\ out.ids = ids /\ Constrained(rows)
<1>1. CASE StatementError(rows) = "none"
  BY <1>1, DoneFields, StatementKeeps DEF Written
<1>2. CASE StatementError(rows) # "none"
  BY <1>2, FailedFields DEF Written
<1> QED
  BY <1>1, <1>2

\* Rows stay rows, the constraints hold, and at most the new row is added.
LEMMA OutcomesAreSound ==
  ASSUME NEW rows, RowsTyped(rows), Constrained(rows),
         NEW op \in {"create", "read", "update", "delete"}, NEW e \in DOMAIN App, NEW i,
         NEW body, NEW out \in Outcomes(op, e, i, body, rows), out.error = "none"
  PROVE  /\ RowsTyped(out.rows) /\ Constrained(out.rows)
         /\ out.ids \in {0, 1}
         /\ DOMAIN out.rows \subseteq DOMAIN rows \cup {x \in {i} : op = "create" /\ out.ids = 1}
<1>1. CASE op = "delete"
  <2>1. DeleteError(rows, e, i) = "none" /\ Exists(rows, e, i)
        /\ out \in Done(DeleteRow(rows, e, i), [x \in {"id"} |-> i], 0)
    BY <1>1, FailedFields DEF Outcomes, Deleted
  <2>2. out.rows = DeleteRow(rows, e, i) /\ out.ids = 0
    BY <2>1, DoneFields
  <2>3. DOMAIN DeleteRow(rows, e, i) \subseteq DOMAIN rows
    BY DEF DeleteRow, WithoutRows
  <2> QED
    BY <2>1, <2>2, <2>3, DeleteRowKeeps
<1>2. CASE op = "read"
  <2>1. out \in Done(rows, AsResult(rows, i), 0)
    BY <1>2, FailedFields DEF Outcomes
  <2> QED
    BY <2>1, DoneFields
<1>3. CASE op = "update"
  <2>0. Exists(rows, e, i) /\ ~BodyRefused(rows, e, body, FALSE)
    BY <1>3, FailedFields DEF Outcomes
  <2>1. out \in Written(UpdateRow(rows, e, i, body), i, 0) /\ Exists(rows, e, i)
    BY <1>3, <2>0 DEF Outcomes
  <2>2. out.rows = UpdateRow(rows, e, i, body) /\ out.ids = 0 /\ Constrained(out.rows)
    BY <2>1, WrittenIsSound
  <2>3. DOMAIN UpdateRow(rows, e, i, body) = DOMAIN rows
    BY <2>1, UpdatedRow
  <2> QED
    BY <2>2, <2>3, UpdateRowKeepsTypes
<1>4. CASE op = "create"
  <2> DEFINE after == InsertRow(rows, i, e, Completed(Fields(e), body))
  <2>0. ~BodyRefused(rows, e, body, TRUE)
    BY <1>4, FailedFields DEF Outcomes
  <2>1. out \in Written(after, i, 1)
    BY <1>4, <2>0 DEF Outcomes
  <2>2. out.rows = after /\ out.ids = 1 /\ Constrained(after)
    BY <2>1, WrittenIsSound
  <2>3. DOMAIN after = {i} \cup DOMAIN rows
    BY DEF InsertRow, Over
  <2> QED
    BY <1>4, <2>2, <2>3, InsertRowKeepsTypes
<1> QED
  BY <1>1, <1>2, <1>3, <1>4

LEMMA StepOutcomesAreSound ==
  ASSUME NEW rows, RowsTyped(rows), Constrained(rows), NEW step, step.ent \in DOMAIN App,
         step.op \in {"create", "read", "list", "update", "delete"}, NEW params, NEW results, NEW new,
         NEW out \in StepOutcomes(step, params, results, rows, new), out.error = "none"
  PROVE  /\ RowsTyped(out.rows) /\ Constrained(out.rows)
         /\ out.ids \in {0, 1}
         /\ DOMAIN out.rows \subseteq DOMAIN rows \cup {x \in {new} : out.ids = 1}
<1>1. ~Unresolved(step, params, results)
  BY FailedFields DEF StepOutcomes
<1>2. CASE step.op = "list"
  <2>1. \E found : out \in Listed(rows, found)
    BY <1>1, <1>2 DEF StepOutcomes
  <2>2. out.rows = rows /\ out.ids = 0
    BY <2>1, DoneFields DEF Listed
  <2> QED
    BY <2>2
<1>3. CASE step.op # "list"
  <2> DEFINE body == ResolvedSet(step.set, params, results)
         ids == IF step.op = "create" THEN {new}
                ELSE UNION {Resolve(t, params, results) : t \in step.rowId}
  <2>1. out \in UNION {Outcomes(step.op, step.ent, i, body, rows) : i \in ids}
    BY <1>1, <1>3 DEF StepOutcomes
  <2>2. step.op = "create" => ids = {new}
    OBVIOUS
  <2> HIDE DEF body, ids
  <2>3. PICK i \in ids : out \in Outcomes(step.op, step.ent, i, body, rows)
    BY <2>1
  <2> QED
    BY <1>3, <2>2, <2>3, OutcomesAreSound
<1> QED
  BY <1>2, <1>3

-----------------------------------------------------------------------------
(***************************************************************************)
(* Rows.                                                                   *)
(***************************************************************************)
\* No rows are sound.
LEMMA NoRowsAreSound == RowsTyped(NoRows) /\ Constrained(NoRows) /\ DOMAIN NoRows = {}
<1>1. DOMAIN NoRows = {}
  BY DEF NoRows
<1> QED
  BY <1>1 DEF RowsTyped, Constrained, ReferencesHold, UniqueHolds, RequiredHolds

\* What the database and a tool see stays sound when neither changes.
LEMMA DataKept ==
  ASSUME Data, UNCHANGED <<db, work, next>>
  PROVE  Data'
BY DEF Data, Sound, IdsUpTo

-----------------------------------------------------------------------------
(***************************************************************************)
(* Steps of one client.                                                    *)
(***************************************************************************)
\* What the invariant says of a client.
LEMMA Unfolded ==
  ASSUME RuntimeInv, NEW c \in Clients
  PROVE  /\ DOMAIN call = Clients /\ DOMAIN answer = Clients /\ DOMAIN wrote = Clients
         /\ DOMAIN call[c] = Members
         /\ Data /\ Serves(c) /\ Holds(c) /\ Progress(c) /\ WritesLast(c)
BY DEF RuntimeInv, Shape, Local

\* What it takes for a step of one client to keep the invariant.
LEMMA ClientStep ==
  ASSUME RuntimeInv, NEW c \in Clients,
         DOMAIN call' = Clients, DOMAIN answer' = Clients, DOMAIN wrote' = Clients,
         DOMAIN call'[c] = Members,
         \A d \in Clients : d # c =>
           /\ call'[d] = call[d] /\ answer'[d] = answer[d] /\ wrote'[d] = wrote[d]
           /\ conn' = d <=> conn = d
           /\ conn = d => db' = db,
         Data', Local(c)'
  PROVE  RuntimeInv'
<1>1. Shape'
  BY DEF RuntimeInv, Shape
<1>2. ASSUME NEW d \in Clients, d # c
      PROVE  Local(d)'
  <2>1. Serves(d) /\ Holds(d) /\ Progress(d) /\ WritesLast(d)
    BY Unfolded
  <2>2. Serves(d)' /\ Progress(d)'
    BY <1>2, <2>1 DEF Serves, Progress, ToolOf
  <2>3. Holds(d)'
    BY <1>2, <2>1 DEF Holds
  <2>4. WritesLast(d)'
    BY <1>2, <2>1 DEF WritesLast, FailureWroteNothing
  <2> QED
    BY <2>2, <2>3, <2>4 DEF Local
<1> QED
  BY <1>1, <1>2 DEF RuntimeInv

\* A request ends: it lets go of the connection, and has not written if it failed.
LEMMA EndStep ==
  ASSUME RuntimeInv, NEW c \in Clients, NEW STATE status, NEW STATE row, Answer(c, status, row),
         DOMAIN wrote' = Clients,
         \A d \in Clients : d # c =>
           /\ wrote'[d] = wrote[d]
           /\ conn' = d <=> conn = d
           /\ conn = d => db' = db,
         conn' # c, Data',
         wrote'[c] => MayFollowWrite(call[c].req.kind, status)
  PROVE  RuntimeInv'
<1>0. DOMAIN call = Clients /\ DOMAIN answer = Clients
  BY Unfolded
<1>1. DOMAIN NoCall = Members /\ NoCall.pc = "idle"
  BY DEF NoCall, Members
<1>2. /\ DOMAIN call' = Clients /\ call'[c] = NoCall
      /\ \A d \in Clients : d # c => call'[d] = call[d]
  BY <1>0 DEF Answer
<1>3. /\ DOMAIN answer' = Clients
      /\ answer'[c].status = status /\ answer'[c].kind = call[c].req.kind
      /\ \A d \in Clients : d # c => answer'[d] = answer[d]
  BY <1>0 DEF Answer
<1>4. Serves(c)' /\ Holds(c)' /\ Progress(c)'
  BY <1>1, <1>2 DEF Serves, Holds, Progress
<1>5. WritesLast(c)'
  <2>1. MayFollowWrite(call[c].req.kind, status) = MayFollowWrite(answer[c].kind, answer[c].status)'
    BY <1>3 DEF MayFollowWrite
  <2> QED
    BY <1>1, <1>2, <1>3, <2>1 DEF WritesLast, FailureWroteNothing
<1> QED
  BY <1>1, <1>2, <1>3, <1>4, <1>5, ClientStep DEF Local

\* A plain request ends and writes nothing in that step.
LEMMA AnswerStep ==
  ASSUME RuntimeInv, NEW c \in Clients, NEW STATE status, NEW STATE row, Answer(c, status, row),
         call[c].pc \notin {"idle", "step"}, UNCHANGED <<db, conn, work, next, wrote>>,
         call[c].pc = "reread" =>
           status \in {"ok", "internal"} \/ (status = "notFound" /\ call[c].req.kind = "update")
  PROVE  RuntimeInv'
<1>1. /\ DOMAIN wrote = Clients /\ Data /\ conn # c
      /\ call[c].pc # "reread" => ~wrote[c]
      /\ call[c].pc = "reread" => call[c].req.kind \in {"create", "update"}
  BY Unfolded DEF Holds, WritesLast, Serves
<1>2. Data'
  BY <1>1, DataKept
<1>3. wrote'[c] => MayFollowWrite(call[c].req.kind, status)
  BY <1>1 DEF MayFollowWrite
<1> QED
  BY <1>1, <1>2, <1>3, EndStep

\* A plain request goes on to its next statement.
LEMMA MoveStep ==
  ASSUME RuntimeInv, NEW c \in Clients, NEW STATE r, call' = [call EXCEPT ![c] = r],
         DOMAIN r = Members, r.req = call[c].req,
         {call[c].pc, r.pc} \cap {"idle", "begin", "step", "reread"} = {},
         UNCHANGED <<db, conn, work, next, answer, wrote>>
  PROVE  RuntimeInv'
<1>1. /\ DOMAIN call = Clients /\ DOMAIN answer = Clients /\ DOMAIN wrote = Clients /\ Data
      /\ Serves(c) /\ Holds(c) /\ WritesLast(c)
  BY Unfolded
<1>2. /\ DOMAIN call' = Clients /\ call'[c] = r
      /\ \A d \in Clients : d # c => call'[d] = call[d]
  BY <1>1
<1>3. Data'
  BY <1>1, DataKept
<1>4. Serves(c)'
  BY <1>1, <1>2 DEF Serves, ToolPCs
<1>5. Holds(c)' /\ Progress(c)'
  BY <1>1, <1>2 DEF Holds, Progress
<1>6. WritesLast(c)'
  BY <1>1, <1>2 DEF WritesLast, FailureWroteNothing
<1> QED
  BY <1>1, <1>2, <1>3, <1>4, <1>5, <1>6, ClientStep DEF Local

\* A request without a transaction has written, and is about to reread.
LEMMA CommitStep ==
  ASSUME RuntimeInv, NEW c \in Clients, NEW STATE r, call' = [call EXCEPT ![c] = r],
         DOMAIN r = Members, r.req = call[c].req, r.req.kind \in {"create", "update"},
         call[c].pc = "check", r.pc = "reread", conn = NoClient,
         UNCHANGED <<conn, answer>>, Data',
         DOMAIN wrote' = Clients, \A d \in Clients : d # c => wrote'[d] = wrote[d]
  PROVE  RuntimeInv'
<1>1. /\ DOMAIN call = Clients /\ DOMAIN answer = Clients
      /\ Serves(c) /\ Holds(c) /\ WritesLast(c) /\ \A d \in Clients : conn # d
  BY Unfolded, NoClientIsNone
<1>2. /\ DOMAIN call' = Clients /\ call'[c] = r
      /\ \A d \in Clients : d # c => call'[d] = call[d]
  BY <1>1
<1>3. Serves(c)'
  BY <1>1, <1>2 DEF Serves, ToolPCs
<1>4. Holds(c)' /\ Progress(c)'
  BY <1>1, <1>2 DEF Holds, Progress
<1>5. WritesLast(c)'
  BY <1>1, <1>2 DEF WritesLast, FailureWroteNothing, MayFollowWrite
<1> QED
  BY <1>1, <1>2, <1>3, <1>4, <1>5, ClientStep DEF Local

-----------------------------------------------------------------------------
(***************************************************************************)
(* Plain requests.                                                         *)
(***************************************************************************)
\* Initially nobody asks, and the database is sound.
LEMMA InitRuntimeInv == Init => RuntimeInv
<1> SUFFICES ASSUME Init
             PROVE  RuntimeInv
  OBVIOUS
<1>1. Data
  <2>1. RowsTyped(db) /\ Constrained(db) /\ IdsUpTo(db, next)
    BY DatabasesHold, IdsAreOld DEF Init, Constrained, IdsUpTo
  <2> QED
    BY <2>1, NoRowsAreSound DEF Init, Data, Sound, IdsUpTo
<1>2. DOMAIN NoCall = Members /\ NoCall.pc = "idle" /\ NoAnswer.status = "none"
  BY DEF NoCall, Members, NoAnswer
<1>3. Shape
  BY <1>2 DEF Init, Shape
<1>4. ASSUME NEW c \in Clients
      PROVE  Local(c)
  <2>1. call[c] = NoCall /\ answer[c] = NoAnswer /\ wrote[c] = FALSE /\ conn # c
    BY NoClientIsNone DEF Init
  <2> QED
    BY <1>2, <2>1 DEF Local, Serves, Holds, Progress, WritesLast, FailureWroteNothing
<1> QED
  BY <1>1, <1>3, <1>4 DEF RuntimeInv

\* A request is refused, or starts having written nothing.
LEMMA SendKeeps ==
  ASSUME RuntimeInv, NEW c \in Clients, NEW r \in Requests, Send(c, r)
  PROVE  RuntimeInv'
<1>0. /\ DOMAIN call = Clients /\ DOMAIN answer = Clients /\ DOMAIN wrote = Clients
      /\ DOMAIN call[c] = Members /\ Data /\ Holds(c) /\ call[c].pc = "idle"
  BY Unfolded DEF Send
<1>1. /\ DOMAIN wrote' = Clients /\ wrote'[c] = FALSE
      /\ \A d \in Clients : d # c => wrote'[d] = wrote[d]
  BY <1>0 DEF Send
<1>2. UNCHANGED <<db, conn, work, next>> /\ Data'
  BY <1>0, DataKept DEF Send
<1>3. CASE Refusal(r) = "none"
  <2> DEFINE new == [NoCall EXCEPT !.pc = FirstStep(r.kind), !.req = r,
                                   !.checks = FirstChecks(r), !.id = r.id]
  <2>1. call' = [call EXCEPT ![c] = new] /\ answer' = [answer EXCEPT ![c] = NoAnswer]
    BY <1>3 DEF Send
  <2>2. DOMAIN new = Members /\ new.pc = FirstStep(r.kind) /\ new.req = r
    BY DEF NoCall, Members
  <2>3. FirstStep(r.kind) \in {"check", "find", "begin", "count", "read", "delete"}
        /\ (FirstStep(r.kind) = "begin" <=> r.kind = "tool")
    BY RequestsAreKnown DEF FirstStep
  <2> HIDE DEF new
  <2>4. /\ DOMAIN call' = Clients /\ call'[c] = new /\ DOMAIN answer' = Clients
        /\ answer'[c] = NoAnswer /\ NoAnswer.status = "none"
        /\ \A d \in Clients : d # c => call'[d] = call[d] /\ answer'[d] = answer[d]
    BY <1>0, <2>1 DEF NoAnswer
  <2>5. Serves(c)'
    BY <2>2, <2>3, <2>4 DEF Serves, ToolPCs
  <2>6. Holds(c)' /\ Progress(c)'
    <3>1. DOMAIN new.results = {}
      BY NoRowsAreSound DEF new, NoCall
    <3> QED
      BY <1>0, <1>2, <2>2, <2>3, <2>4, <3>1 DEF Holds, Progress
  <2>7. WritesLast(c)'
    BY <1>1, <2>4 DEF WritesLast, FailureWroteNothing
  <2> QED
    BY <1>1, <1>2, <2>2, <2>4, <2>5, <2>6, <2>7, ClientStep DEF Local
<1>4. CASE Refusal(r) # "none"
  <2>1. call' = call /\ answer' = [answer EXCEPT ![c] = [NoAnswer EXCEPT !.status = Refusal(r)]]
    BY <1>4 DEF Send
  <2>2. DOMAIN answer' = Clients /\ \A d \in Clients : d # c => answer'[d] = answer[d]
    BY <1>0, <2>1
  <2>3. Serves(c)' /\ Holds(c)' /\ Progress(c)'
    BY <1>0, <1>2, <2>1 DEF Serves, Holds, Progress
  <2>4. WritesLast(c)'
    BY <1>0, <1>1, <2>1 DEF WritesLast, FailureWroteNothing
  <2> QED
    BY <1>0, <1>1, <1>2, <2>1, <2>2, <2>3, <2>4, ClientStep DEF Local
<1> QED
  BY <1>3, <1>4

\* The steps that write nothing and answer.
LEMMA ReadKeeps ==
  ASSUME RuntimeInv, NEW c \in Clients,
         Get(c) \/ Select(c) \/ Reject(c) \/ Reread(c) \/ ToolRefuse(c) \/ Fail(c)
  PROVE  RuntimeInv'
<1>1. CASE Get(c)
  BY <1>1, AnswerStep DEF Get, Statement
<1>2. CASE Select(c)
  <2>1. \E row : Answer(c, "ok", row)
    BY <1>2 DEF Select
  <2> QED
    BY <1>2, <2>1, AnswerStep DEF Select, Statement
<1>3. CASE Reject(c)
  BY <1>3, AnswerStep DEF Reject, Checked
<1>4. CASE Reread(c)
  <2> DEFINE row == {db[i] : i \in {call[c].id} \cap DOMAIN db}
             status == IF row = {} /\ call[c].req.kind = "update" THEN "notFound" ELSE "ok"
  <2>1. Answer(c, status, row)
    BY <1>4 DEF Reread
  <2>2. status = "ok" \/ (status = "notFound" /\ call[c].req.kind = "update")
    OBVIOUS
  <2> HIDE DEF status, row
  <2> QED
    BY <1>4, <2>1, <2>2, AnswerStep DEF Reread, Statement
<1>5. CASE ToolRefuse(c)
  BY <1>5, AnswerStep DEF ToolRefuse, Statement
<1>6. CASE Fail(c)
  BY <1>6, AnswerStep DEF Fail, Checked
<1> QED
  BY <1>1, <1>2, <1>3, <1>4, <1>5, <1>6

\* A count, the row an update finds, a reference looked up.
LEMMA MoveKeeps ==
  ASSUME RuntimeInv, NEW c \in Clients, Count(c) \/ Find(c) \/ CheckReference(c)
  PROVE  RuntimeInv'
<1>0. DOMAIN call = Clients /\ DOMAIN call[c] = Members
  BY Unfolded
<1>1. CASE Count(c)
  <2>0. PICK found \in Matches(db, call[c].req.ent, call[c].req.body.filters) :
          call' = [call EXCEPT ![c].pc = "select", ![c].total = Cardinality(found)]
    BY <1>1 DEF Count
  <2> DEFINE r == [call[c] EXCEPT !.pc = "select", !.total = Cardinality(found)]
  <2>1. DOMAIN r = Members /\ r.req = call[c].req /\ r.pc = "select"
    BY <1>0 DEF Members
  <2>2. call' = [call EXCEPT ![c] = r]
    BY <1>0, <2>0 DEF Members
  <2> HIDE DEF r
  <2> QED
    BY <1>1, <2>1, <2>2, MoveStep DEF Count, Statement
<1>2. CASE Find(c)
  <2>1. CASE Exists(db, call[c].req.ent, call[c].req.id)
    <3> DEFINE r == [call[c] EXCEPT !.pc = "check", !.existing = db[call[c].req.id].vals,
                       !.checks = ReferencesIn(Fields(call[c].req.ent), call[c].req.body)]
    <3>1. DOMAIN r = Members /\ r.req = call[c].req /\ r.pc = "check"
      BY <1>0 DEF Members
    <3>2. call' = [call EXCEPT ![c] = r] /\ answer' = answer
      BY <1>0, <1>2, <2>1 DEF Find, Members
    <3> HIDE DEF r
    <3> QED
      BY <1>2, <3>1, <3>2, MoveStep DEF Find, Statement
  <2>2. CASE ~Exists(db, call[c].req.ent, call[c].req.id)
    BY <1>2, <2>2, AnswerStep DEF Find, Statement
  <2> QED
    BY <2>1, <2>2
<1>3. CASE CheckReference(c)
  <2>1. PICK f \in call[c].checks, read \in BOOLEAN :
          LET r == call[c].req
              found == read /\ TargetExists(db, Fields(r.ent)[f], r.body[f])
          IN call' = [call EXCEPT ![c].checks = @ \ {f}, ![c].missing = @ \/ ~found]
    BY <1>3 DEF CheckReference
  <2> DEFINE found == read /\ TargetExists(db, Fields(call[c].req.ent)[f], call[c].req.body[f])
             missing == call[c].missing \/ ~found
             r == [call[c] EXCEPT !.checks = call[c].checks \ {f}, !.missing = missing]
  <2>2. DOMAIN r = Members /\ r.req = call[c].req /\ r.pc = call[c].pc
    BY <1>0 DEF Members
  <2>3. call' = [call EXCEPT ![c] = r]
    BY <1>0, <2>1 DEF Members
  <2>4. call[c].pc = "check" /\ UNCHANGED <<db, conn, work, next, answer, wrote>>
    BY <1>3 DEF CheckReference
  <2> HIDE DEF r
  <2> QED
    BY <2>2, <2>3, <2>4, MoveStep
<1> QED
  BY <1>1, <1>2, <1>3

-----------------------------------------------------------------------------
(***************************************************************************)
(* Plain requests that write.                                              *)
(***************************************************************************)
\* The row is inserted, or the statement is refused.
LEMMA InsertKeeps ==
  ASSUME RuntimeInv, NEW c \in Clients, Insert(c)
  PROVE  RuntimeInv'
<1> DEFINE req == call[c].req
           after == InsertRow(db, Id(next + 1), req.ent, Completed(Fields(req.ent), req.body))
<1>0. /\ DOMAIN call = Clients /\ DOMAIN call[c] = Members /\ DOMAIN wrote = Clients /\ Data /\ Serves(c)
      /\ call[c].pc = "check" /\ req.kind = "create" /\ conn = NoClient
      /\ UNCHANGED <<conn, work, sent>>
  BY Unfolded DEF Insert, Checked
<1>1. CASE StatementError(after) = "none"
  <2> DEFINE r == [call[c] EXCEPT !.pc = "reread", !.id = Id(next + 1)]
  <2>1. /\ db' = after /\ next' = next + 1 /\ answer' = answer
        /\ call' = [call EXCEPT ![c].pc = "reread", ![c].id = Id(next + 1)]
        /\ wrote' = [wrote EXCEPT ![c] = TRUE]
    BY <1>1 DEF Insert
  <2>2. DOMAIN r = Members /\ r.req = call[c].req /\ r.pc = "reread"
    BY <1>0 DEF Members
  <2>3. call' = [call EXCEPT ![c] = r]
    BY <1>0, <2>1 DEF Members
  <2>4. req.ent \in DOMAIN App
    BY <1>0, RequestsAreKnown DEF Serves
  <2>5. Data'
    <3>1. next \in Nat /\ Sound(db, next) /\ Sound(work, next)
      BY <1>0 DEF Data
    <3>2. Sound(after, next + 1)
      BY <1>1, <2>4, <3>1, InsertIsSound
    <3>3. Sound(work, next + 1)
      BY <3>1, SoundLater
    <3> HIDE DEF after
    <3> QED
      BY <1>0, <2>1, <3>1, <3>2, <3>3 DEF Data
  <2>6. DOMAIN wrote' = Clients /\ \A d \in Clients : d # c => wrote'[d] = wrote[d]
    BY <1>0, <2>1
  <2>7. r.req.kind = "create" /\ conn' = conn /\ answer' = answer
    BY <1>0, <2>1, <2>2
  <2> HIDE DEF r
  <2> QED
    BY <1>0, <2>2, <2>3, <2>5, <2>6, <2>7, CommitStep
<1>2. CASE StatementError(after) # "none"
  <2>1. Answer(c, StatementError(after), {}) /\ UNCHANGED <<db, conn, work, next, wrote>>
    BY <1>0, <1>2 DEF Insert
  <2> HIDE DEF after
  <2> QED
    BY <1>0, <2>1, AnswerStep
<1> QED
  BY <1>1, <1>2

\* The row is updated, or was gone, or the statement is refused.
LEMMA UpdateKeeps ==
  ASSUME RuntimeInv, NEW c \in Clients, Update(c)
  PROVE  RuntimeInv'
<1> DEFINE req == call[c].req
           after == UpdateRow(db, req.ent, req.id, ChangedFields(c))
<1>0. /\ DOMAIN call = Clients /\ DOMAIN call[c] = Members /\ DOMAIN wrote = Clients /\ Data
      /\ call[c].pc = "check" /\ req.kind = "update" /\ conn = NoClient
      /\ UNCHANGED <<conn, work, next>>
  BY Unfolded DEF Update, Checked
<1>1. CASE StatementError(after) = "none"
  <2> DEFINE r == [call[c] EXCEPT !.pc = "reread"]
  <2>1. /\ db' = after /\ answer' = answer /\ call' = [call EXCEPT ![c].pc = "reread"]
        /\ \E changed : wrote' = [wrote EXCEPT ![c] = changed]
    BY <1>1 DEF Update, Goto
  <2>2. DOMAIN r = Members /\ r.req = call[c].req /\ r.pc = "reread"
    BY <1>0 DEF Members
  <2>3. call' = [call EXCEPT ![c] = r]
    BY <1>0, <2>1 DEF Members
  <2>7. Data'
    BY <1>0, <1>1, <2>1, UpdateIsSound DEF Data
  <2>8. DOMAIN wrote' = Clients /\ \A d \in Clients : d # c => wrote'[d] = wrote[d]
    BY <1>0, <2>1
  <2>9. r.req.kind = "update" /\ conn' = conn /\ answer' = answer
    BY <1>0, <2>1, <2>2
  <2> HIDE DEF r
  <2> QED
    BY <1>0, <2>2, <2>3, <2>7, <2>8, <2>9, CommitStep
<1>2. CASE StatementError(after) # "none"
  <2>1. Answer(c, StatementError(after), {}) /\ UNCHANGED <<db, conn, work, next, wrote>>
    BY <1>0, <1>2 DEF Update
  <2> HIDE DEF after
  <2> QED
    BY <1>0, <2>1, AnswerStep
<1> QED
  BY <1>1, <1>2

\* The row goes with those that depend on it, or nothing does and the answer says so.
LEMMA DeleteKeeps ==
  ASSUME RuntimeInv, NEW c \in Clients, Delete(c)
  PROVE  RuntimeInv'
<1> DEFINE req == call[c].req
           error == DeleteError(db, req.ent, req.id)
           status == IF error # "none" THEN error
                     ELSE IF Exists(db, req.ent, req.id) THEN "ok" ELSE "notFound"
<1>0. /\ DOMAIN wrote = Clients /\ Data /\ Holds(c)
      /\ call[c].pc = "delete" /\ conn = NoClient /\ UNCHANGED <<conn, work, next>>
      /\ db' = IF error = "none" THEN DeleteRow(db, req.ent, req.id) ELSE db
  BY Unfolded DEF Delete, Statement
<1>1. Answer(c, status, {}) /\ wrote' = [wrote EXCEPT ![c] = db' # db]
  BY DEF Delete
<1>2. Data'
  <2>1. CASE error = "none"
    BY <1>0, <2>1, DeleteIsSound DEF Data
  <2>2. CASE error # "none"
    BY <1>0, <2>2, DataKept
  <2> QED
    BY <2>1, <2>2
<1>3. status # "ok" => db' = db
  BY <1>0 DEF DeleteRow
<1>4. DOMAIN wrote' = Clients /\ \A d \in Clients : d # c => wrote'[d] = wrote[d]
  BY <1>0, <1>1
<1>5. db' = db => ~wrote'[c]
  BY <1>0, <1>1
<1>6. wrote'[c] => MayFollowWrite(req.kind, status)
  BY <1>3, <1>5 DEF MayFollowWrite
<1> HIDE DEF status
<1> QED
  BY <1>0, <1>1, <1>2, <1>4, <1>6, EndStep, NoClientIsNone, Unfolded DEF Holds

-----------------------------------------------------------------------------
(***************************************************************************)
(* Tool calls.                                                             *)
(***************************************************************************)
\* A tool sees the committed rows when it takes the connection.
LEMMA ToolBeginKeeps ==
  ASSUME RuntimeInv, NEW c \in Clients, ToolBegin(c)
  PROVE  RuntimeInv'
<1> DEFINE r == [call[c] EXCEPT !.pc = "step", !.k = 1, !.found = db]
<1>0. /\ DOMAIN call = Clients /\ DOMAIN call[c] = Members /\ DOMAIN answer = Clients
      /\ DOMAIN wrote = Clients /\ Data /\ Serves(c) /\ Progress(c) /\ WritesLast(c)
      /\ call[c].pc = "begin" /\ conn = NoClient /\ conn' = c /\ work' = db
      /\ UNCHANGED <<db, next, answer, wrote>>
  BY Unfolded DEF ToolBegin, Statement
<1>1. /\ DOMAIN r = Members /\ r.req = call[c].req /\ r.pc = "step" /\ r.k = 1 /\ r.found = db
      /\ r.results = call[c].results
  BY <1>0 DEF Members
<1>2. call' = [call EXCEPT ![c] = r]
  BY <1>0 DEF ToolBegin, Members
<1> HIDE DEF r
<1>3. /\ DOMAIN call' = Clients /\ call'[c] = r
      /\ \A d \in Clients : d # c => call'[d] = call[d]
  BY <1>0, <1>2
<1>4. Data'
  BY <1>0 DEF Data, Sound, IdsUpTo
<1>5. Serves(c)'
  BY <1>0, <1>1, <1>3 DEF Serves, ToolPCs
<1>6. Holds(c)'
  BY <1>0, <1>1, <1>3 DEF Holds
<1>7. Len(ToolOf(c).steps) \in Nat
  BY <1>0, RequestsAreKnown, ToolsAreValid DEF Serves, ToolPCs, ToolOf
<1>8. Progress(c)'
  <2>1. DOMAIN r.results = 1..r.k - 1
    BY <1>0, <1>1 DEF Progress
  <2>2. ToolOf(c)' = ToolOf(c)
    BY <1>1, <1>3 DEF ToolOf
  <2>3. r.k \in 1..Len(ToolOf(c).steps) + 1
    BY <1>1, <1>7
  <2> QED
    BY <1>1, <1>3, <2>1, <2>2, <2>3 DEF Progress
<1>9. WritesLast(c)'
  BY <1>0, <1>1, <1>3 DEF WritesLast, FailureWroteNothing
<1> QED
  BY <1>0, <1>1, <1>3, <1>4, <1>5, <1>6, <1>8, <1>9, ClientStep, NoClientIsNone DEF Local

\* The step a tool is at is one of its steps.
LEMMA StepIsValid ==
  ASSUME RuntimeInv, NEW c \in Clients, StepReady(c)
  PROVE  LET step == ToolOf(c).steps[call[c].k]
         IN /\ call[c].k \in 1..Len(ToolOf(c).steps) /\ Len(ToolOf(c).steps) \in Nat
            /\ step.op \in {"create", "read", "list", "update", "delete"}
            /\ step.ent \in DOMAIN App
<1>1. call[c].req \in Requests /\ call[c].req.kind = "tool" /\ Progress(c) /\ call[c].pc = "step"
  BY Unfolded DEF Serves, ToolPCs, StepReady
<1>2. call[c].req.ent \in DOMAIN Tools
  BY <1>1, RequestsAreKnown
<1>3. Len(ToolOf(c).steps) \in Nat /\ DOMAIN ToolOf(c).steps = 1..Len(ToolOf(c).steps)
  BY <1>2, ToolsAreValid DEF ToolOf
<1>4. call[c].k \in 1..Len(ToolOf(c).steps)
  BY <1>1, <1>3 DEF Progress, StepReady
<1> QED
  BY <1>2, <1>3, <1>4, ToolsAreValid DEF ToolOf

\* A step's rows are sound, and seen by nobody else.
LEMMA ToolStepKeeps ==
  ASSUME RuntimeInv, NEW c \in Clients, ToolStep(c)
  PROVE  RuntimeInv'
<1>0. /\ DOMAIN call = Clients /\ DOMAIN call[c] = Members /\ DOMAIN answer = Clients
      /\ DOMAIN wrote = Clients /\ Data /\ Serves(c) /\ Holds(c) /\ Progress(c) /\ WritesLast(c)
      /\ call[c].pc = "step" /\ conn = c /\ StepReady(c) /\ UNCHANGED <<db, conn, answer, wrote>>
  BY Unfolded DEF ToolStep, StepReady
<1>1. PICK out \in Outcome(c) :
        /\ out.error = "none" /\ work' = out.rows /\ next' = next + out.ids
        /\ call' = [call EXCEPT ![c].k = @ + 1,
                                ![c].results = Over([k \in {call[c].k} |-> out.result], @)]
  BY DEF ToolStep
<1> DEFINE step == ToolOf(c).steps[call[c].k]
           results == Over([k \in {call[c].k} |-> out.result], call[c].results)
           r == [call[c] EXCEPT !.k = call[c].k + 1, !.results = results]
<1>2. /\ RowsTyped(out.rows) /\ Constrained(out.rows) /\ out.ids \in {0, 1}
      /\ DOMAIN out.rows \subseteq DOMAIN work \cup {i \in {Id(next + 1)} : out.ids = 1}
  BY <1>0, <1>1, StepIsValid, StepOutcomesAreSound DEF Outcome, Data, Sound
<1>3. Data'
  <2>1. next \in Nat /\ next' \in Nat /\ next <= next'
    BY <1>0, <1>1, <1>2 DEF Data
  <2>2. Id(next + 1)[2] = next + 1
    BY DEF Id
  <2>3. IdsUpTo(work, next)'
    BY <1>0, <1>1, <1>2, <2>1, <2>2 DEF Data, Sound, IdsUpTo
  <2>4. IdsUpTo(db, next)'
    BY <1>0, <2>1 DEF Data, Sound, IdsUpTo
  <2> QED
    BY <1>0, <1>1, <1>2, <2>1, <2>3, <2>4 DEF Data, Sound
<1>4. /\ DOMAIN r = Members /\ r.req = call[c].req /\ r.pc = "step" /\ r.k = call[c].k + 1
      /\ r.found = call[c].found /\ r.results = results
  BY <1>0 DEF Members
<1>5. call' = [call EXCEPT ![c] = r]
  BY <1>0, <1>1 DEF Members
<1>6. DOMAIN results = {call[c].k} \cup DOMAIN call[c].results
  BY DEF Over
<1> HIDE DEF r, results
<1>7. /\ DOMAIN call' = Clients /\ call'[c] = r
      /\ \A d \in Clients : d # c => call'[d] = call[d]
  BY <1>0, <1>5
<1>8. Serves(c)' /\ Holds(c)'
  BY <1>0, <1>4, <1>7 DEF Serves, Holds, ToolPCs
<1>9. Progress(c)'
  <2>1. call[c].k \in 1..Len(ToolOf(c).steps) /\ Len(ToolOf(c).steps) \in Nat
    BY <1>0, StepIsValid
  <2>2. DOMAIN results = 1..(call[c].k + 1) - 1
    BY <1>0, <1>6, <2>1 DEF Progress
  <2>3. call[c].k + 1 \in 1..Len(ToolOf(c).steps) + 1
    BY <2>1
  <2> QED
    BY <1>4, <1>7, <2>2, <2>3 DEF Progress, ToolOf
<1>10. WritesLast(c)'
  BY <1>0, <1>4, <1>7 DEF WritesLast, FailureWroteNothing
<1> QED
  BY <1>0, <1>3, <1>4, <1>7, <1>8, <1>9, <1>10, ClientStep DEF Local

\* A tool's transaction is rolled back and leaves nothing, or is committed.
LEMMA ToolEndKeeps ==
  ASSUME RuntimeInv, NEW c \in Clients, ToolRollback(c) \/ ToolCommit(c)
  PROVE  RuntimeInv'
<1>0. /\ DOMAIN wrote = Clients /\ Data /\ WritesLast(c) /\ call[c].pc = "step" /\ conn = c
      /\ conn' = NoClient /\ work' = NoRows /\ next' = next
      /\ conn' # c /\ \A d \in Clients : d # c => (conn' = d <=> conn = d) /\ conn # d
  BY Unfolded, NoClientIsNone DEF ToolRollback, ToolCommit, StepReady
<1>1. CASE ToolRollback(c)
  <2>1. PICK out \in Outcome(c) : Answer(c, out.error, {})
    BY <1>1 DEF ToolRollback
  <2>2. db' = db /\ wrote' = wrote
    BY <1>1 DEF ToolRollback
  <2>3. Data'
    BY <1>0, <2>2, NoRowsAreSound DEF Data, Sound, IdsUpTo
  <2>4. ~wrote'[c]
    BY <1>0, <2>2 DEF WritesLast
  <2> QED
    BY <1>0, <2>1, <2>2, <2>3, <2>4, EndStep
<1>2. CASE ToolCommit(c)
  <2>1. /\ Answer(c, "ok", {}) /\ db' = work
        /\ \E changed : wrote' = [wrote EXCEPT ![c] = changed]
    BY <1>2 DEF ToolCommit
  <2>2. DOMAIN wrote' = Clients /\ \A d \in Clients : d # c => wrote'[d] = wrote[d]
    BY <1>0, <2>1
  <2>3. Data'
    BY <1>0, <2>1, NoRowsAreSound DEF Data, Sound, IdsUpTo
  <2>4. MayFollowWrite(call[c].req.kind, "ok")
    BY DEF MayFollowWrite
  <2> QED
    BY <1>0, <2>1, <2>2, <2>3, <2>4, EndStep
<1> QED
  BY <1>1, <1>2

\* A client that goes takes its transaction along.
LEMMA CancelKeeps ==
  ASSUME RuntimeInv, NEW c \in Clients, Cancel(c)
  PROVE  RuntimeInv'
<1>0. /\ DOMAIN wrote = Clients /\ Data /\ Holds(c) /\ WritesLast(c)
      /\ call[c].pc \in {"begin", "step"} /\ UNCHANGED <<db, next, wrote>>
  BY Unfolded DEF Cancel
<1>1. PICK status \in {"internal", "invalid"} : Answer(c, status, {})
  BY DEF Cancel
<1>2. /\ conn' # c /\ \A d \in Clients : d # c => (conn' = d <=> conn = d)
      /\ Sound(work, next)'
  <2>1. CASE conn = c
    BY <1>0, <2>1, NoClientIsNone, NoRowsAreSound DEF Cancel, Sound, IdsUpTo
  <2>2. CASE conn # c
    BY <1>0, <2>2 DEF Cancel, Data, Sound, IdsUpTo
  <2> QED
    BY <2>1, <2>2
<1>3. Data'
  BY <1>0, <1>2 DEF Data, Sound, IdsUpTo
<1>4. ~wrote'[c]
  BY <1>0 DEF WritesLast
<1> QED
  BY <1>0, <1>1, <1>2, <1>3, <1>4, EndStep

-----------------------------------------------------------------------------
(***************************************************************************)
(* The invariant, and what follows.                                        *)
(***************************************************************************)
\* The invariant is inductive.
LEMMA RuntimeInvInductive == RuntimeInv /\ [Next]_vars => RuntimeInv'
<1> SUFFICES ASSUME RuntimeInv, [Next]_vars
             PROVE  RuntimeInv'
  OBVIOUS
<1>1. CASE UNCHANGED vars
  BY <1>1 DEF vars, RuntimeInv, Data, Sound, IdsUpTo, Shape, Local, Serves, Holds, Progress, ToolOf,
              WritesLast, FailureWroteNothing
<1>2. ASSUME NEW c \in Clients, NEW r \in Requests, Send(c, r)
      PROVE  RuntimeInv'
  BY <1>2, SendKeeps
<1>3. ASSUME NEW c \in Clients, Cancel(c)
      PROVE  RuntimeInv'
  BY <1>3, CancelKeeps
<1>4. ASSUME NEW c \in Clients, Fail(c)
      PROVE  RuntimeInv'
  BY <1>4, ReadKeeps
<1>5. ASSUME NEW c \in Clients, Step(c)
      PROVE  RuntimeInv'
  BY <1>5, ReadKeeps, MoveKeeps, InsertKeeps, UpdateKeeps, DeleteKeeps, ToolBeginKeeps, ToolStepKeeps,
     ToolEndKeeps DEF Step
<1> QED
  BY <1>1, <1>2, <1>3, <1>4, <1>5 DEF Next

\* In every state.
LEMMA RuntimeInvHolds == Spec => []RuntimeInv
BY InitRuntimeInv, RuntimeInvInductive, PTL DEF Spec

\* Whatever requests and tools interleave, and however many rows cascade: the committed
\* rows satisfy the manifest's constraints (coerce.go:121-136, store.go:40-47).
THEOREM RowsStayConstrained == Spec => []ConstraintsHold
<1>1. RuntimeInv => ConstraintsHold
  BY DEF RuntimeInv, Data, Sound, Constrained, ConstraintsHold
<1> QED
  BY <1>1, RuntimeInvHolds, PTL

\* A request answered with a failure has changed nothing, a tool call of any number of
\* steps included (tools/execute.go:31-35), but for the read-back of a plain create or
\* update (store.go:428, 556-558).
THEOREM FailuresNeverWrite == Spec => []FailuresWriteNothing
<1>1. RuntimeInv => FailuresWriteNothing
  BY DEF RuntimeInv, Local, WritesLast, FailureWroteNothing, MayFollowWrite, FailuresWriteNothing
<1> QED
  BY <1>1, RuntimeInvHolds, PTL

\* Which steps change the database: those of plain requests, and a tool's last.
LEMMA WhoWrites ==
  ASSUME [Next]_vars, db' # db
  PROVE  \E c \in Clients :
           \/ conn = NoClient /\ conn' = conn /\ (Insert(c) \/ Update(c) \/ Delete(c))
           \/ ToolCommit(c)
<1>1. PICK c \in Clients : (\E r \in Requests : Send(c, r)) \/ Step(c) \/ Cancel(c) \/ Fail(c)
  BY DEF Next, vars
<1>2. ~Cancel(c) /\ ~Fail(c) /\ \A r \in Requests : ~Send(c, r)
  BY DEF Send, Cancel, Fail
<1>3. ~Get(c) /\ ~Count(c) /\ ~Select(c) /\ ~Find(c)
  BY DEF Get, Count, Select, Find
<1>4. ~CheckReference(c) /\ ~Reject(c) /\ ~Reread(c)
  BY DEF CheckReference, Reject, Reread
<1>5. ~ToolBegin(c) /\ ~ToolRefuse(c) /\ ~ToolStep(c) /\ ~ToolRollback(c)
  BY DEF ToolBegin, ToolRefuse, ToolStep, ToolRollback
<1>6. Insert(c) \/ Update(c) \/ Delete(c) \/ ToolCommit(c)
  BY <1>1, <1>2, <1>3, <1>4, <1>5 DEF Step
<1>7. Insert(c) \/ Update(c) \/ Delete(c) => conn = NoClient /\ conn' = conn
  BY DEF Insert, Update, Delete, Checked, Statement
<1> QED
  BY <1>6, <1>7

\* An insert changes no row that was there: its id is new.
LEMMA InsertKeepsFields ==
  ASSUME RuntimeInv, NEW c \in Clients, Insert(c), NEW i \in DOMAIN db
  PROVE  db'[i] = db[i]
<1>1. Id(next + 1) \notin DOMAIN db
  BY NextIdIsNew DEF RuntimeInv, Data, Sound
<1>2. \A e, vals : InsertRow(db, Id(next + 1), e, vals)[i] = db[i]
  BY <1>1 DEF InsertRow, Over
<1> QED
  BY <1>2 DEF Insert

\* An update changes the fields of its body, in its row.
LEMMA UpdateKeepsFields ==
  ASSUME RuntimeInv, NEW c \in Clients, Update(c), NEW i \in DOMAIN db, NEW f \in DOMAIN db[i].vals,
         db'[i].vals[f] # db[i].vals[f]
  PROVE  /\ call[c] # call'[c] /\ call[c].req.kind = "update"
         /\ call[c].req.id = i /\ f \in DOMAIN call[c].req.body
<1> DEFINE req == call[c].req
<1>0. /\ DOMAIN call = Clients /\ DOMAIN call[c] = Members /\ RowsTyped(db)
      /\ req.kind = "update" /\ call[c].pc = "check"
  BY Unfolded DEF Update, Checked, Data, Sound
<1>1. db' = UpdateRow(db, req.ent, req.id, req.body) /\ call'[c].pc = "reread"
  BY <1>0 DEF Update, ChangedFields, Goto, Members
<1>2. Exists(db, req.ent, req.id)
  BY <1>1 DEF UpdateRow
<1>3. req.id = i /\ f \in DOMAIN req.body
  BY <1>0, <1>1, <1>2, UpdatedRow
<1> QED
  BY <1>0, <1>1, <1>3

\* "everything else is left as-is" (operations.go:233-234): for any schema, no update
\* undoes what another request did to other fields.
THEOREM UpdatesArePartial == Spec => UpdatesKeepOtherFields
<1> DEFINE Kept ==
      conn = NoClient =>
        \A i \in DOMAIN db \cap DOMAIN db' : \A f \in DOMAIN db[i].vals :
          db'[i].vals[f] # db[i].vals[f] =>
            \/ db[i].vals[f] \notin DOMAIN db'
            \/ \E c \in Clients : /\ call[c] # call'[c] /\ call[c].req.kind = "update"
                                  /\ call[c].req.id = i /\ f \in DOMAIN call[c].req.body
<1>1. RuntimeInv /\ [Next]_vars => [Kept]_vars
  <2> SUFFICES ASSUME RuntimeInv, [Next]_vars, conn = NoClient,
                      NEW i \in DOMAIN db \cap DOMAIN db', NEW f \in DOMAIN db[i].vals,
                      db'[i].vals[f] # db[i].vals[f]
               PROVE  \/ db[i].vals[f] \notin DOMAIN db'
                      \/ \E c \in Clients : /\ call[c] # call'[c] /\ call[c].req.kind = "update"
                                            /\ call[c].req.id = i /\ f \in DOMAIN call[c].req.body
    OBVIOUS
  <2>1. PICK c \in Clients : Insert(c) \/ Update(c) \/ Delete(c)
    BY WhoWrites, NoClientIsNone DEF ToolCommit
  <2>2. CASE Insert(c)
    BY <2>2, InsertKeepsFields
  <2>3. CASE Update(c)
    BY <2>3, UpdateKeepsFields
  <2>4. CASE Delete(c)
    <3>1. RowsTyped(db)
      BY DEF RuntimeInv, Data, Sound
    <3>2. \E e, id : db' = DeleteRow(db, e, id)
      BY <2>4 DEF Delete
    <3> QED
      BY <3>1, <3>2, DeleteRowKeepsFields
  <2> QED
    BY <2>1, <2>2, <2>3, <2>4
<1> QED
  BY <1>1, RuntimeInvHolds, PTL DEF Spec, UpdatesKeepOtherFields

\* "it either fully applies or has no effect at all" (tools/execute.go:31-35), for tools
\* of any number of steps among any number of other requests.
THEOREM ToolsAreAtomic == Spec => ToolsRunWhole
<1> DEFINE Whole ==
      \A c \in Clients :
        conn = c /\ conn' # c /\ db' # db =>
          /\ db = call[c].found /\ answer'[c].status = "ok"
          /\ DOMAIN call[c].results = DOMAIN ToolOf(c).steps
<1>1. RuntimeInv /\ [Next]_vars => [Whole]_vars
  <2> SUFFICES ASSUME RuntimeInv, [Next]_vars, NEW c \in Clients, conn = c, conn' # c, db' # db
               PROVE  /\ db = call[c].found /\ answer'[c].status = "ok"
                      /\ DOMAIN call[c].results = DOMAIN ToolOf(c).steps
    OBVIOUS
  <2>1. ToolCommit(c)
    BY WhoWrites, NoClientIsNone DEF ToolCommit
  <2>2. /\ DOMAIN answer = Clients /\ Serves(c) /\ Holds(c) /\ Progress(c)
    BY Unfolded
  <2>3. answer'[c].status = "ok"
    BY <2>1, <2>2 DEF ToolCommit, Answer
  <2>4. db = call[c].found
    BY <2>2 DEF Holds
  <2>5. Len(ToolOf(c).steps) \in Nat /\ DOMAIN ToolOf(c).steps = 1..Len(ToolOf(c).steps)
    BY <2>1, <2>2, RequestsAreKnown, ToolsAreValid DEF Serves, ToolPCs, ToolOf, ToolCommit
  <2>6. /\ call[c].k \in 1..Len(ToolOf(c).steps) + 1 /\ call[c].k > Len(ToolOf(c).steps)
        /\ DOMAIN call[c].results = 1..call[c].k - 1
    BY <2>1, <2>2 DEF ToolCommit, Progress
  <2>7. call[c].k - 1 = Len(ToolOf(c).steps)
    BY <2>5, <2>6
  <2> QED
    BY <2>3, <2>4, <2>5, <2>6, <2>7
<1> QED
  BY <1>1, RuntimeInvHolds, PTL DEF Spec, ToolsRunWhole
=============================================================================
