------------------------------ MODULE Sandbox ------------------------------
(***************************************************************************)
(* Functions: package sandbox compiles their modules and runs them behind  *)
(* the capability-checked host calls, package broker reaches the model.    *)
(* Callers run concurrently over one Sandbox and one store; a data call is *)
(* a sequence of statements, between which others interleave.              *)
(*                                                                         *)
(* Nothing in the repository calls the sandbox but its tests, which        *)
(* compile a function's module and invoke it: a caller here does the same. *)
(* The guest is WebAssembly nobody trusts: it makes any host call, with    *)
(* any request, in any order, returns, traps or never ends.                *)
(***************************************************************************)
EXTENDS RowStore, Capabilities

CONSTANTS
  Callers,
  Manifests,        \* the functions that versions of the manifest may declare
  FirstManifest,
  Operations,       \* entity -> the operations the manifest enables
  FirstFiles,       \* path -> what the .wasm file holds at first
  NewBinaries,      \* what a file may be replaced by
  Broken,           \* a binary that does not compile
  Asks,             \* the requests of gated calls
  Chunks,           \* the sizes of output_write's writes
  Inputs,           \* the sizes of inputs
  MaxInput, MaxOutput,
  HasBroker,        \* the host was started with a model token
  Databases,
  MaxInvocations, MaxCalls, MaxEdits    \* bounds

ASSUME FirstManifestIsOne == FirstManifest \in Manifests
ASSUME ManifestsAreValid ==
  \A m \in Manifests : \A f \in DOMAIN m : ValidCapabilities(m[f].caps, Operations)
ASSUME OperationsAreOfEntities == DOMAIN Operations \subseteq DOMAIN App
ASSUME AsksAreRequests ==
  \A ask \in Asks : ask.kind \in {"data", "network", "model", "malformed"}
ASSUME LimitsAreNaturals == {MaxInput, MaxOutput, MaxInvocations, MaxCalls, MaxEdits} \subseteq Nat
ASSUME DatabasesHold ==
  \A rows \in Databases :
    RowsTyped(rows) /\ ReferencesHold(rows) /\ UniqueHolds(rows) /\ RequiredHolds(rows)
\* store.NewID never gives an id out twice; those given out before have no positive number.
ASSUME IdsAreOld == \A rows \in Databases : \A i \in DOMAIN rows : i[2] \in Int /\ i[2] <= 0

VARIABLES
  db,         \* the rows
  next,       \* the number of ids given out
  functions,  \* what the manifest declares now
  granted,    \* what the user of the app has consented to
  files,      \* path -> binary
  compiled,   \* the sandbox's cache: path -> module
  modules,    \* the number of modules compiled so far
  run,        \* caller -> its invocation, and how far it got
  invoked, edits

vars == <<db, next, functions, granted, files, compiled, modules, run, invoked, edits>>

Nothing == [x \in {} |-> x]
NoAsk == [kind |-> "none"]

\* asked is the number of the last call that got past its memory range.
Idle == [pc |-> "idle", fn |-> NoAsk, n |-> 0, mod |-> {}, calls |-> 0, asked |-> 0, output |-> 0,
         pending |-> {}, ask |-> NoAsk, checks |-> {}, id |-> Null, wrote |-> FALSE]

Init ==
  /\ db \in Databases /\ next = 0
  /\ functions = FirstManifest /\ granted = Union(FirstManifest)
  /\ files = FirstFiles /\ compiled = Nothing /\ modules = 0
  /\ run = [c \in Callers |-> Idle]
  /\ invoked = 0 /\ edits = 0

Goto(c, pc) == run' = [run EXCEPT ![c].pc = pc]

\* Compile returns an error, or Invoke returns: whatever the invocation held goes.
End(c) == run' = [run EXCEPT ![c] = Idle]

Entry(c) == run[c].fn.entry

-----------------------------------------------------------------------------
(***************************************************************************)
(* Compile.                                                                *)
(***************************************************************************)
Start(c, f) ==
  /\ run[c].pc = "idle" /\ invoked < MaxInvocations
  /\ invoked' = invoked + 1
  /\ run' = [run EXCEPT ![c] = [Idle EXCEPT !.pc = "lookup", !.fn = functions[f], !.n = invoked + 1]]
  /\ UNCHANGED <<db, next, functions, granted, files, compiled, modules, edits>>

\* The cache is looked up under the lock, which is then released.
Lookup(c) ==
  /\ run[c].pc = "lookup"
  /\ run' = IF Entry(c) \in DOMAIN compiled
            THEN [run EXCEPT ![c].pc = "invoke", ![c].mod = {compiled[Entry(c)]}]
            ELSE [run EXCEPT ![c].pc = "read"]
  /\ UNCHANGED <<db, next, functions, granted, files, compiled, modules, invoked, edits>>

ReadAndCompile(c) ==
  /\ run[c].pc = "read"
  /\ IF Entry(c) \notin DOMAIN files \/ files[Entry(c)] = Broken
     THEN End(c) /\ UNCHANGED modules
     ELSE /\ modules' = modules + 1
          /\ run' = [run EXCEPT ![c].pc = "publish",
                                ![c].mod = {[binary |-> files[Entry(c)], number |-> modules + 1]}]
  /\ UNCHANGED <<db, next, functions, granted, files, compiled, invoked, edits>>

\* A mutant: the last module compiled is kept.
KeepLast(c) == CHOOSE m \in run[c].mod : TRUE

\* Under the lock again: a module that another goroutine has published stays.
Winner(c) == IF Entry(c) \in DOMAIN compiled THEN compiled[Entry(c)] ELSE CHOOSE m \in run[c].mod : TRUE

Publish(c) ==
  /\ run[c].pc = "publish"
  /\ compiled' = [path \in DOMAIN compiled \cup {Entry(c)} |->
                     IF path = Entry(c) THEN Winner(c) ELSE compiled[path]]
  /\ run' = [run EXCEPT ![c].pc = "invoke", ![c].mod = {Winner(c)}]
  /\ UNCHANGED <<db, next, functions, granted, files, modules, invoked, edits>>

-----------------------------------------------------------------------------
(***************************************************************************)
(* Invoke: the limits, and the guest's host calls that are not gated.      *)
(***************************************************************************)
Invoke(c, size) ==
  /\ run[c].pc = "invoke"
  /\ IF size > MaxInput THEN End(c) ELSE Goto(c, "guest")
  /\ UNCHANGED <<db, next, functions, granted, files, compiled, modules, invoked, edits>>

\* A write that does not fit, or from a bad range, changes nothing.
OutputWrite(c, n) ==
  /\ run[c].pc = "guest" /\ run[c].output + n <= MaxOutput
  /\ run' = [run EXCEPT ![c].output = @ + n]
  /\ UNCHANGED <<db, next, functions, granted, files, compiled, modules, invoked, edits>>

\* What result_read copies into the guest's memory, as often as it asks.
ResultRead(c) == run[c].pending

\* run returns zero or another code; or the guest traps, or is out of memory,
\* or the module cannot be instantiated.
Return(c) ==
  /\ run[c].pc = "guest"
  /\ End(c)
  /\ UNCHANGED <<db, next, functions, granted, files, compiled, modules, invoked, edits>>

\* A mutant: the runtime does not watch the context while the guest computes.
Interruptible(c) == run[c].pc = "provider"

\* wazero ends the module when the context does, be it in a loop of its own;
\* a provider's call ends with the context, a statement does not.
Running(c) == run[c].pc \in {"guest", "provider"}

Timeout(c) ==
  /\ Running(c)
  /\ End(c)
  /\ UNCHANGED <<db, next, functions, granted, files, compiled, modules, invoked, edits>>

-----------------------------------------------------------------------------
(***************************************************************************)
(* Gated calls.                                                            *)
(***************************************************************************)
\* The result of a call; the row is that of the answer.
Result(c, code, row, wrote) ==
  [n |-> run[c].n, call |-> run[c].calls, to |-> run[c].ask, code |-> code, row |-> row,
   wrote |-> wrote]

\* A mutant: a denial, which has no result, replaces none.
PendingUnlessDenied(c, code, row, wrote) ==
  IF code = "denied" THEN run[c].pending ELSE {Result(c, code, row, wrote)}

\* finishGated: a denial leaves nothing pending.
Pending(c, code, row, wrote) ==
  IF code = "denied" THEN {} ELSE {Result(c, code, row, wrote)}

Finish(c, code, row, wrote) ==
  run' = [run EXCEPT ![c].pending = Pending(c, code, row, wrote), ![c].pc = "guest",
                     ![c].ask = NoAsk, ![c].checks = {}, ![c].id = Null, ![c].wrote = FALSE]

\* Refused, denied or failed.
Fail(c, code) == Finish(c, code, {}, run[c].wrote)

Calling(c) == run[c].pc = "guest" /\ run[c].calls < MaxCalls

\* The request's memory range is bad: codeBadRequest, and what is pending stays.
BadRange(c) ==
  /\ Calling(c)
  /\ run' = [run EXCEPT ![c].calls = @ + 1]
  /\ UNCHANGED <<db, next, functions, granted, files, compiled, modules, invoked, edits>>

Allowed(c) ==
  LET ask == run[c].ask
      caps == run[c].fn.caps
  IN CASE ask.kind = "data" -> Allows(caps, ask.ent, ask.op)
       [] ask.kind = "network" -> AllowsDomain(caps, ask.host)
       [] ask.kind = "model" -> caps.model
       [] OTHER -> TRUE

\* The guest waits from here to the answer, which replaces what is pending.
Ask(c, ask) ==
  /\ Calling(c)
  /\ run' = [run EXCEPT ![c].pc = "gate", ![c].ask = ask, ![c].calls = @ + 1,
                         ![c].asked = run[c].calls + 1]
  /\ UNCHANGED <<db, next, functions, granted, files, compiled, modules, invoked, edits>>

\* The values of the request that belong to a field.
Known(ask) == [f \in DOMAIN ask.values \cap DOMAIN Fields(ask.ent) |-> ask.values[f]]

\* A request that its handler refuses before it looks at the database.
Refused(ask) ==
  \/ ask.kind = "malformed"
  \/ /\ ask.kind = "data"
     /\ \/ ask.op \in {"update", "delete"} /\ ask.id = Null
        \/ ask.op \in {"create", "update"}
             /\ BodyIssues(Fields(ask.ent), Known(ask), ask.op = "create")

FirstStep(ask) ==
  IF ask.kind # "data" THEN "provider"
  ELSE CASE ask.op \in {"create", "update"} -> "check"
         [] ask.op = "read" -> "select"
         [] OTHER -> "delete"

FirstChecks(ask) ==
  IF ask.kind = "data" /\ ask.op \in {"create", "update"}
  THEN ReferencesIn(Fields(ask.ent), ask.values) ELSE {}

\* The gate, and then the handler's first look at the request.
Gate(c) ==
  /\ run[c].pc = "gate"
  /\ LET ask == run[c].ask
     IN IF ~Allowed(c) THEN Fail(c, "denied")
        ELSE IF Refused(ask) THEN Fail(c, "bad")
        ELSE IF ask.kind = "model" /\ ~HasBroker THEN Fail(c, "backend")
        ELSE run' = [run EXCEPT ![c].pc = FirstStep(ask), ![c].checks = FirstChecks(ask)]
  /\ UNCHANGED <<db, next, functions, granted, files, compiled, modules, invoked, edits>>

\* The URL is "https://", the host and the path in one string, so that a path which
\* does not start with a slash may continue the name of the host: joins holds the
\* host that the two then make.
HostReached(ask) == IF ask.joins = {} THEN ask.host ELSE CHOOSE h \in ask.joins : TRUE

Effect(ask) ==
  CASE ask.kind = "data" -> <<"data", ask.ent, ask.op>>
    [] ask.kind = "network" -> <<"network", HostReached(ask)>>
    [] OTHER -> <<"model">>

\* network_fetch's request to the host, whose redirects are not followed, or
\* the broker's to the model provider; either may fail, and there may be no
\* such request (http.NewRequest).
Provider(c) ==
  /\ run[c].pc = "provider"
  /\ \E code \in {"ok", "bad", "backend"} :
        /\ code = "bad" => run[c].ask.kind = "network"
        /\ Finish(c, code, {}, FALSE)
  /\ UNCHANGED <<db, next, functions, granted, files, compiled, modules, invoked, edits>>

-----------------------------------------------------------------------------
(***************************************************************************)
(* Data calls, statement by statement.                                     *)
(***************************************************************************)
CheckReference(c) ==
  /\ run[c].pc = "check"
  /\ \E f \in run[c].checks :
       LET ask == run[c].ask
       IN IF TargetExists(db, Fields(ask.ent)[f], ask.values[f])
          THEN run' = [run EXCEPT ![c].checks = @ \ {f}]
          ELSE Fail(c, "bad")
  /\ UNCHANGED <<db, next, functions, granted, files, compiled, modules, invoked, edits>>

\* storeErrorBody.
CodeOf(error) == IF error = "conflict" THEN "bad" ELSE "backend"

\* A statement leaves these rows: they are committed, and read back.
Commit(c, rows, id) ==
  /\ db' = rows
  /\ run' = [run EXCEPT ![c].pc = "reread", ![c].id = id, ![c].wrote = rows # db]

Insert(c) ==
  /\ run[c].pc = "check" /\ run[c].checks = {} /\ run[c].ask.op = "create"
  /\ LET ask == run[c].ask
         after == InsertRow(db, Id(next + 1), ask.ent, Completed(Fields(ask.ent), Known(ask)))
     IN IF StatementError(after) = "none"
        THEN Commit(c, after, Id(next + 1)) /\ next' = next + 1
        ELSE Fail(c, CodeOf(StatementError(after))) /\ UNCHANGED <<db, next>>
  /\ UNCHANGED <<functions, granted, files, compiled, modules, invoked, edits>>

\* Nobody looks whether the row is there.
Update(c) ==
  /\ run[c].pc = "check" /\ run[c].checks = {} /\ run[c].ask.op = "update"
  /\ LET ask == run[c].ask
         after == UpdateRow(db, ask.ent, ask.id, Known(ask))
     IN IF StatementError(after) = "none" THEN Commit(c, after, ask.id)
        ELSE Fail(c, CodeOf(StatementError(after))) /\ UNCHANGED db
  /\ UNCHANGED <<next, functions, granted, files, compiled, modules, invoked, edits>>

\* A row that is gone is answered as a success without a row.
Reread(c) ==
  /\ run[c].pc = "reread"
  /\ Finish(c, "ok", {i \in {run[c].id} : Exists(db, run[c].ask.ent, i)}, run[c].wrote)
  /\ UNCHANGED <<db, next, functions, granted, files, compiled, modules, invoked, edits>>

\* A mutant: a delete that went through is taken for one of a row.
GoneNow(ask) == {ask.id}

\* The row of the answer tells "deleted": RowsAffected.
Affected(ask) == {i \in {ask.id} : Exists(db, ask.ent, i)}

Delete(c) ==
  /\ run[c].pc = "delete"
  /\ LET ask == run[c].ask
         error == DeleteError(db, ask.ent, ask.id)
     IN IF error = "none"
        THEN /\ db' = DeleteRow(db, ask.ent, ask.id)
             /\ Finish(c, "ok", Affected(ask), db' # db)
        ELSE Fail(c, CodeOf(error)) /\ UNCHANGED db
  /\ UNCHANGED <<next, functions, granted, files, compiled, modules, invoked, edits>>

\* A statement fails (a full disk, a file gone): a look-up is a reference that could
\* not be verified, and a write whose read-back fails stays.
StatementFails(c) ==
  /\ run[c].pc \in {"check", "select", "delete", "reread"}
  /\ Fail(c, IF run[c].pc = "check" /\ run[c].checks # {} THEN "bad" ELSE "backend")
  /\ UNCHANGED <<db, next, functions, granted, files, compiled, modules, invoked, edits>>

\* A row by its id, or, without one, a page of rows.
Read(c) ==
  /\ run[c].pc = "select"
  /\ Finish(c, "ok", {}, FALSE)
  /\ UNCHANGED <<db, next, functions, granted, files, compiled, modules, invoked, edits>>

-----------------------------------------------------------------------------
(***************************************************************************)
(* The app's author, and the user who is asked.                            *)
(***************************************************************************)
\* A new version of the manifest.  If it widens what functions may do, the user
\* is shown what it adds and agrees, or the app stays as it is.
Upgrade ==
  /\ edits < MaxEdits /\ edits' = edits + 1
  /\ \E new \in Manifests \ {functions} :
       LET delta == Widened(functions, new)
       IN /\ functions' = new
          /\ granted' = IF RequiresReconsent(delta)
                        THEN [data |-> granted.data \cup delta.data,
                              network |-> granted.network \cup delta.network,
                              model |-> granted.model \/ delta.model]
                        ELSE granted
  /\ UNCHANGED <<db, next, files, compiled, modules, run, invoked>>

ReplaceFile ==
  /\ edits < MaxEdits /\ edits' = edits + 1
  /\ \E path \in DOMAIN files : \E binary \in NewBinaries : files' = [files EXCEPT ![path] = binary]
  /\ UNCHANGED <<db, next, functions, granted, compiled, modules, run, invoked>>

-----------------------------------------------------------------------------
DataStep(c) == CheckReference(c) \/ Insert(c) \/ Update(c) \/ Reread(c) \/ Delete(c) \/ Read(c)

Host(c) ==
  \/ Lookup(c) \/ ReadAndCompile(c) \/ Publish(c)
  \/ \E size \in Inputs : Invoke(c, size)
  \/ Gate(c) \/ DataStep(c) \/ Timeout(c)

Guest(c) == \/ \E n \in Chunks : OutputWrite(c, n)
            \/ BadRange(c)
            \/ \E ask \in Asks : Ask(c, ask)
            \/ Return(c)

Next ==
  \/ \E c \in Callers : \/ \E f \in DOMAIN functions : Start(c, f)
                        \/ Host(c) \/ Guest(c) \/ Provider(c) \/ StatementFails(c)
  \/ Upgrade \/ ReplaceFile

\* The host's goroutines keep running and deadlines pass.  Neither a guest nor a
\* provider need ever do anything.
Spec == Init /\ [][Next]_vars /\ \A c \in Callers : WF_vars(Host(c))

-----------------------------------------------------------------------------
(***************************************************************************)
(* Properties.                                                             *)
(***************************************************************************)
\* "keep its result; the one this call compiled is simply discarded"
\* (sandbox.go:145-146): whoever compiles a path, at the same time or later, runs
\* the module that the first of them published, though the file may have changed.
OneModule ==
  \A c \in Callers :
    run[c].pc \notin {"idle", "lookup", "read", "publish"} =>
      Entry(c) \in DOMAIN compiled /\ run[c].mod = {compiled[Entry(c)]}

\* What a guest is told of a data call is what happened (data.go:35-38, 217-219),
\* though the call is several statements among those of others.  A bad request has
\* written nothing; a backend error has, at most, where the call creates or updates
\* and its read-back failed (store.go:428, 556-558); a created row was written, and
\* a row is told to be deleted exactly if it was.
AnswersTruthful ==
  \A c \in Callers : \A answer \in run[c].pending :
    /\ answer.code # "ok" /\ answer.wrote =>
         /\ answer.code = "backend"
         /\ answer.to.kind = "data" /\ answer.to.op \in {"create", "update"}
    /\ answer.code = "ok" /\ answer.to.kind = "data" =>
         /\ answer.to.op = "create" => answer.wrote
         /\ answer.to.op = "delete" => (answer.wrote <=> answer.row # {})

\* Whatever calls came before, refused, denied and failed ones among them, a guest
\* reads the result of its invocation's last call that got past its memory range,
\* and nothing if that was denied (host.go:156-171; "nothing in a Sandbox carries
\* state across invocations", invoke.go:36-40).
AnswersAreOwn ==
  \A c \in Callers : run[c].pc = "guest" =>
    \A answer \in ResultRead(c) : answer.n = run[c].n /\ answer.call = run[c].asked

\* A gated call has passed its gate and is about to act.
Acting == {"provider", "check", "select", "delete"}

\* What the user of the app has agreed to, as effects.
Consented ==
  {<<"data", g[1], g[2]>> : g \in granted.data} \cup
  {<<"network", h>> : h \in granted.network} \cup
  {e \in {<<"model">>} : granted.model}

\* A path that leaves the host what it is.
KeepsHost(ask) == ask.kind = "network" => ask.joins = {}

\* The functions of an app, those still running under an older manifest included,
\* do nothing that its user was not shown as part of some version's widening
\* (widen.go:15-18), whatever sequence of versions there was: for every data and
\* model call, and every fetch whose path leaves the host what it is.
EffectsConsented ==
  \A c \in Callers :
    run[c].pc \in Acting /\ KeepsHost(run[c].ask) => Effect(run[c].ask) \in Consented

\* Functions check references in one statement and write in another.
RowsHold == ReferencesHold(db) /\ UniqueHolds(db) /\ RequiredHolds(db)

\* Every invocation ends, whatever its guest does or does not do (invoke.go:89-93).
InvocationsEnd == \A c \in Callers : (run[c].pc # "idle") ~> (run[c].pc = "idle")
=============================================================================
