--------------------------- MODULE SandboxProofs ---------------------------
(***************************************************************************)
(* Theorems about Sandbox, for any number of callers, functions, files,    *)
(* limits and calls, and any sequence of versions of the manifest.         *)
(*                                                                         *)
(* OneModule is inductive once the shape of an invocation is known;        *)
(* AnswersAreOwn is with the number of the call under way, for what was    *)
(* pending before it stays so until it is answered.  EffectsConsented is   *)
(* not inductive: it asks of a request what only the gate has looked at,   *)
(* under capabilities that were declared versions ago.  ConsentInv says    *)
(* what carries it from there.                                             *)
(*                                                                         *)
(* The last section is about the rows functions write: they hold by what   *)
(* RowStoreProofs says of each operation, and what a guest is told of its  *)
(* last write is what the database has.                                    *)
(***************************************************************************)
EXTENDS Sandbox, RowStoreProofs

Members ==
  {"pc", "fn", "n", "mod", "calls", "asked", "output", "pending", "ask", "checks", "id", "wrote"}

\* An invocation has the members of Idle.
Shape ==
  /\ DOMAIN run = Callers
  /\ \A c \in Callers : DOMAIN run[c] = Members

\* A gated call is under way.
Gated == {"gate", "reread"} \cup Acting

\* Past Compile, a caller has the module of the cache.
HasModule(c) ==
  run[c].pc \notin {"idle", "lookup", "read", "publish"} =>
    Entry(c) \in DOMAIN compiled /\ run[c].mod = {compiled[Entry(c)]}

\* What is pending is, between gated calls, the result of the last that was asked.
OwnAnswers(c) ==
  \A answer \in run[c].pending :
    answer.n = run[c].n /\ (run[c].pc \notin Gated => answer.call = run[c].asked)

\* The call under way is the last that was asked.
Counted(c) == run[c].pc \in Gated => run[c].calls = run[c].asked

Local(c) == HasModule(c) /\ OwnAnswers(c) /\ Counted(c)

SandboxInv == Shape /\ \A c \in Callers : Local(c)

-----------------------------------------------------------------------------
(***************************************************************************)
(* Steps of one caller leave the others alone.                             *)
(***************************************************************************)
\* An update of one invocation is one of no other.
LEMMA OneCaller ==
  ASSUME NEW c \in Callers, NEW STATE r, DOMAIN run = Callers, run' = [run EXCEPT ![c] = r]
  PROVE  /\ DOMAIN run' = Callers
         /\ run'[c] = r
         /\ \A d \in Callers : d # c => run'[d] = run[d]
OBVIOUS

\* What it takes for a step of one caller, with the cache as it is, to keep the invariant.
LEMMA LocalStep ==
  ASSUME NEW c \in Callers, NEW STATE r, SandboxInv, run' = [run EXCEPT ![c] = r],
         compiled' = compiled, DOMAIN r = Members,
         r.pc \notin {"idle", "lookup", "read", "publish"} =>
            r.fn.entry \in DOMAIN compiled /\ r.mod = {compiled[r.fn.entry]},
         \A answer \in r.pending :
            answer.n = r.n /\ (r.pc \notin Gated => answer.call = r.asked),
         r.pc \in Gated => r.calls = r.asked
  PROVE  SandboxInv'
<1>1. /\ DOMAIN run' = Callers
      /\ run'[c] = r
      /\ \A d \in Callers : d # c => run'[d] = run[d]
  BY OneCaller DEF SandboxInv, Shape
<1>2. Shape'
  BY <1>1 DEF SandboxInv, Shape
<1>3. Local(c)'
  BY <1>1 DEF Local, HasModule, OwnAnswers, Counted, Entry, Gated, Acting
<1>4. ASSUME NEW d \in Callers, d # c
      PROVE  Local(d)'
  BY <1>1, <1>4 DEF SandboxInv, Local, HasModule, OwnAnswers, Counted, Entry, Gated, Acting
<1> QED
  BY <1>2, <1>3, <1>4 DEF SandboxInv

\* Whatever an invocation held goes.
LEMMA EndStep ==
  ASSUME NEW c \in Callers, SandboxInv, End(c), compiled' = compiled
  PROVE  SandboxInv'
<1> DEFINE r == Idle
<1>1. /\ DOMAIN r = Members /\ r.pc = "idle" /\ r.pending = {}
  BY DEF Idle, Members
<1>2. run' = [run EXCEPT ![c] = r]
  BY DEF End
<1> HIDE DEF r
<1> QED
  BY <1>1, <1>2, LocalStep DEF Gated, Acting

\* An answer is the caller's own.
LEMMA FinishStep ==
  ASSUME NEW c \in Callers, NEW code, NEW row, NEW wrote, SandboxInv,
         run[c].pc \in Gated, Finish(c, code, row, wrote), compiled' = compiled
  PROVE  SandboxInv'
<1> DEFINE answers == Pending(c, code, row, wrote)
           r == [run[c] EXCEPT !.pending = answers, !.pc = "guest", !.ask = NoAsk, !.checks = {},
                               !.id = Null, !.wrote = FALSE]
<1>0. /\ DOMAIN run = Callers /\ DOMAIN run[c] = Members
      /\ HasModule(c) /\ run[c].calls = run[c].asked
  BY DEF SandboxInv, Shape, Local, Counted
<1>1. run' = [run EXCEPT ![c] = r]
  BY <1>0 DEF Finish, Members
<1>2. /\ DOMAIN r = Members /\ r.fn = run[c].fn /\ r.mod = run[c].mod /\ r.pc = "guest"
      /\ r.pending = answers /\ r.n = run[c].n /\ r.asked = run[c].asked
  BY <1>0 DEF Members
<1>3. \A answer \in answers : answer.n = run[c].n /\ answer.call = run[c].asked
  BY <1>0 DEF Pending, Result
<1> HIDE DEF r, answers
<1> QED
  BY <1>0, <1>1, <1>2, <1>3, LocalStep DEF HasModule, Entry, Gated, Acting

-----------------------------------------------------------------------------
(***************************************************************************)
(* The actions, one by one.                                                *)
(***************************************************************************)
\* What the invariant says of a caller, for the steps that follow.
LEMMA Unfolded ==
  ASSUME SandboxInv, NEW c \in Callers
  PROVE  /\ DOMAIN run = Callers /\ DOMAIN run[c] = Members
         /\ HasModule(c) /\ OwnAnswers(c) /\ Counted(c)
BY DEF SandboxInv, Shape, Local

\* Initially nobody runs anything.
LEMMA InitSandboxInv == Init => SandboxInv
<1>1. DOMAIN Idle = Members /\ Idle.pc = "idle" /\ Idle.pending = {}
  BY DEF Idle, Members
<1>2. Init => /\ DOMAIN run = Callers
              /\ \A c \in Callers : run[c] = Idle
  BY DEF Init
<1> QED
  BY <1>1, <1>2 DEF SandboxInv, Shape, Local, HasModule, OwnAnswers, Counted, Gated, Acting

\* An invocation starts with nothing of an earlier one.
LEMMA StartKeeps ==
  ASSUME SandboxInv, NEW c \in Callers, NEW f, Start(c, f)
  PROVE  SandboxInv'
<1> DEFINE r == [Idle EXCEPT !.pc = "lookup", !.fn = functions[f], !.n = invoked + 1]
<1>1. /\ DOMAIN r = Members /\ r.pc = "lookup" /\ r.pending = {}
  BY DEF Idle, Members
<1>2. run' = [run EXCEPT ![c] = r] /\ compiled' = compiled
  BY DEF Start
<1> HIDE DEF r
<1> QED
  BY <1>1, <1>2, LocalStep DEF Gated, Acting

\* The module a lookup finds is that of the cache.
LEMMA LookupKeeps ==
  ASSUME SandboxInv, NEW c \in Callers, Lookup(c)
  PROVE  SandboxInv'
<1> DEFINE found == Entry(c) \in DOMAIN compiled
           r == IF found THEN [run[c] EXCEPT !.pc = "invoke", !.mod = {compiled[Entry(c)]}]
                ELSE [run[c] EXCEPT !.pc = "read"]
<1>0. /\ DOMAIN run = Callers /\ DOMAIN run[c] = Members
      /\ OwnAnswers(c) /\ run[c].pc = "lookup"
  BY Unfolded DEF Lookup
<1>1. /\ DOMAIN r = Members /\ r.calls = run[c].calls /\ r.fn = run[c].fn /\ r.n = run[c].n
      /\ r.pending = run[c].pending /\ r.asked = run[c].asked
      /\ found => r.pc = "invoke" /\ r.mod = {compiled[Entry(c)]}
      /\ ~found => r.pc = "read"
  BY <1>0 DEF Members
<1>2. run' = [run EXCEPT ![c] = r] /\ compiled' = compiled
  BY <1>0 DEF Lookup, Members
<1> HIDE DEF r
<1> QED
  BY <1>0, <1>1, <1>2, LocalStep DEF OwnAnswers, Entry, Gated, Acting

\* Compiling a module touches no cache.
LEMMA CompileKeeps ==
  ASSUME SandboxInv, NEW c \in Callers, ReadAndCompile(c)
  PROVE  SandboxInv'
<1>1. CASE End(c)
  BY <1>1, EndStep DEF ReadAndCompile
<1>2. CASE ~End(c)
  <2> DEFINE m == {[binary |-> files[Entry(c)], number |-> modules + 1]}
             r == [run[c] EXCEPT !.pc = "publish", !.mod = m]
  <2>0. /\ DOMAIN run = Callers /\ DOMAIN run[c] = Members
        /\ OwnAnswers(c) /\ run[c].pc = "read"
    BY Unfolded DEF ReadAndCompile
  <2>1. /\ DOMAIN r = Members /\ r.calls = run[c].calls /\ r.n = run[c].n /\ r.pc = "publish"
        /\ r.pending = run[c].pending /\ r.asked = run[c].asked
    BY <2>0 DEF Members
  <2>2. run' = [run EXCEPT ![c] = r] /\ compiled' = compiled
    BY <1>2, <2>0 DEF ReadAndCompile
  <2> HIDE DEF r
  <2> QED
    BY <2>0, <2>1, <2>2, LocalStep DEF OwnAnswers, Gated, Acting
<1> QED
  BY <1>1, <1>2

\* A module in the cache stays, and a caller that publishes gets the one of the cache:
\* a caller that has it already keeps what it has.
LEMMA PublishKeeps ==
  ASSUME SandboxInv, NEW c \in Callers, Publish(c)
  PROVE  SandboxInv'
<1> DEFINE r == [run[c] EXCEPT !.pc = "invoke", !.mod = {Winner(c)}]
<1>0. /\ DOMAIN run = Callers /\ DOMAIN run[c] = Members
      /\ OwnAnswers(c) /\ run[c].pc = "publish"
  BY Unfolded DEF Publish
<1>1. /\ DOMAIN r = Members /\ r.pc = "invoke" /\ r.n = run[c].n /\ r.fn = run[c].fn
      /\ r.pending = run[c].pending /\ r.asked = run[c].asked /\ r.mod = {Winner(c)}
  BY <1>0 DEF Members
<1>2. run' = [run EXCEPT ![c] = r]
  BY <1>0 DEF Publish
<1> HIDE DEF r
<1>3. /\ DOMAIN run' = Callers
      /\ run'[c] = r
      /\ \A d \in Callers : d # c => run'[d] = run[d]
  BY <1>0, <1>2, OneCaller
<1>4. /\ Entry(c) \in DOMAIN compiled'
      /\ compiled'[Entry(c)] = Winner(c)
      /\ \A e \in DOMAIN compiled : e \in DOMAIN compiled' /\ compiled'[e] = compiled[e]
  BY DEF Publish, Winner
<1>5. Shape'
  BY <1>0, <1>1, <1>3 DEF SandboxInv, Shape
<1>6. Local(c)'
  BY <1>0, <1>1, <1>3, <1>4 DEF Local, HasModule, OwnAnswers, Counted, Entry, Gated, Acting
<1>7. ASSUME NEW d \in Callers, d # c
      PROVE  Local(d)'
  BY <1>3, <1>4, <1>7 DEF SandboxInv, Local, HasModule, OwnAnswers, Counted, Entry, Gated, Acting
<1> QED
  BY <1>5, <1>6, <1>7 DEF SandboxInv

\* A caller past Compile moves on, with its module, answers and output as they are.
LEMMA MoveStep ==
  ASSUME NEW c \in Callers, NEW STATE r, SandboxInv, run' = [run EXCEPT ![c] = r],
         compiled' = compiled, DOMAIN r = Members,
         run[c].pc \notin {"idle", "lookup", "read", "publish"},
         r.calls = run[c].calls, r.fn = run[c].fn, r.mod = run[c].mod, r.n = run[c].n,
         r.pending = run[c].pending, r.asked = run[c].asked,
         r.pc \in Gated <=> run[c].pc \in Gated
  PROVE  SandboxInv'
BY Unfolded, LocalStep DEF HasModule, OwnAnswers, Counted, Entry, Gated, Acting

\* The input is too large, or the guest runs.
LEMMA InvokeKeeps ==
  ASSUME SandboxInv, NEW c \in Callers, NEW size, Invoke(c, size)
  PROVE  SandboxInv'
<1>1. CASE End(c)
  BY <1>1, EndStep DEF Invoke
<1>2. CASE Goto(c, "guest")
  <2> DEFINE r == [run[c] EXCEPT !.pc = "guest"]
  <2>1. /\ DOMAIN r = Members /\ r.calls = run[c].calls /\ r.fn = run[c].fn
        /\ r.mod = run[c].mod /\ r.n = run[c].n /\ r.pending = run[c].pending
        /\ r.asked = run[c].asked /\ r.pc = "guest"
    BY Unfolded DEF Members
  <2>2. run' = [run EXCEPT ![c] = r] /\ compiled' = compiled /\ run[c].pc = "invoke"
    BY <1>2, Unfolded DEF Invoke, Goto
  <2> HIDE DEF r
  <2> QED
    BY <2>1, <2>2, MoveStep DEF Gated, Acting
<1> QED
  BY <1>1, <1>2 DEF Invoke

\* Output is no answer.
LEMMA OutputWriteKeeps ==
  ASSUME SandboxInv, NEW c \in Callers, NEW n, OutputWrite(c, n)
  PROVE  SandboxInv'
<1> DEFINE r == [run[c] EXCEPT !.output = run[c].output + n]
<1>1. /\ DOMAIN r = Members /\ r.calls = run[c].calls /\ r.fn = run[c].fn /\ r.pc = run[c].pc
      /\ r.mod = run[c].mod /\ r.n = run[c].n /\ r.pending = run[c].pending
      /\ r.asked = run[c].asked
  BY Unfolded DEF Members
<1>2. run' = [run EXCEPT ![c] = r] /\ compiled' = compiled /\ run[c].pc = "guest"
  BY Unfolded DEF OutputWrite, Members
<1> HIDE DEF r
<1> QED
  BY <1>1, <1>2, MoveStep

\* The invocation ends, as its guest wants or not.
LEMMA ReturnKeeps ==
  ASSUME SandboxInv, NEW c \in Callers, Return(c) \/ Timeout(c)
  PROVE  SandboxInv'
<1>1. End(c) /\ compiled' = compiled
  BY DEF Return, Timeout
<1> QED
  BY <1>1, EndStep

\* A refused range counts as a call, but not as one that was asked.
LEMMA BadRangeKeeps ==
  ASSUME SandboxInv, NEW c \in Callers, BadRange(c)
  PROVE  SandboxInv'
<1> DEFINE r == [run[c] EXCEPT !.calls = run[c].calls + 1]
<1>0. /\ DOMAIN run = Callers /\ DOMAIN run[c] = Members /\ run[c].pc = "guest"
      /\ HasModule(c) /\ OwnAnswers(c)
  BY Unfolded DEF BadRange, Calling
<1>1. /\ DOMAIN r = Members /\ r.fn = run[c].fn /\ r.mod = run[c].mod /\ r.n = run[c].n
      /\ r.pending = run[c].pending /\ r.pc = run[c].pc /\ r.asked = run[c].asked
  BY <1>0 DEF Members
<1>2. run' = [run EXCEPT ![c] = r] /\ compiled' = compiled
  BY <1>0 DEF BadRange, Members
<1> HIDE DEF r
<1> QED
  BY <1>0, <1>1, <1>2, LocalStep DEF HasModule, OwnAnswers, Entry, Gated, Acting

\* A call begins with what was pending before it.
LEMMA AskKeeps ==
  ASSUME SandboxInv, NEW c \in Callers, NEW ask, Ask(c, ask)
  PROVE  SandboxInv'
<1> DEFINE r == [run[c] EXCEPT !.pc = "gate", !.ask = ask, !.calls = run[c].calls + 1,
                               !.asked = run[c].calls + 1]
<1>0. /\ DOMAIN run = Callers /\ DOMAIN run[c] = Members /\ run[c].pc = "guest"
      /\ HasModule(c) /\ OwnAnswers(c)
  BY Unfolded DEF Ask, Calling
<1>1. /\ DOMAIN r = Members /\ r.fn = run[c].fn /\ r.mod = run[c].mod /\ r.n = run[c].n
      /\ r.pending = run[c].pending /\ r.pc = "gate" /\ r.asked = r.calls
  BY <1>0 DEF Members
<1>2. run' = [run EXCEPT ![c] = r] /\ compiled' = compiled
  BY <1>0 DEF Ask, Members
<1> HIDE DEF r
<1> QED
  BY <1>0, <1>1, <1>2, LocalStep DEF HasModule, OwnAnswers, Entry, Gated, Acting

-----------------------------------------------------------------------------
(***************************************************************************)
(* From the gate to the answer.                                            *)
(***************************************************************************)
\* A refusal, a denial or a failure is an answer.
LEMMA FailStep ==
  ASSUME NEW c \in Callers, NEW code, SandboxInv, run[c].pc \in Gated,
         Fail(c, code), compiled' = compiled
  PROVE  SandboxInv'
BY FinishStep DEF Fail

\* The gate answers, or lets the request through.
LEMMA GateKeeps ==
  ASSUME SandboxInv, NEW c \in Callers, Gate(c)
  PROVE  SandboxInv'
<1>0. run[c].pc = "gate" /\ compiled' = compiled
  BY DEF Gate
<1>1. CASE \E code \in {"denied", "bad", "backend"} : Fail(c, code)
  BY <1>0, <1>1, FailStep DEF Gated
<1>2. CASE ~ \E code \in {"denied", "bad", "backend"} : Fail(c, code)
  <2> DEFINE r == [run[c] EXCEPT !.pc = FirstStep(run[c].ask), !.checks = FirstChecks(run[c].ask)]
  <2>1. /\ DOMAIN r = Members /\ r.calls = run[c].calls /\ r.fn = run[c].fn
        /\ r.mod = run[c].mod /\ r.n = run[c].n /\ r.pending = run[c].pending
        /\ r.asked = run[c].asked /\ r.pc = FirstStep(run[c].ask)
    BY Unfolded DEF Members
  <2>2. run' = [run EXCEPT ![c].pc = FirstStep(run[c].ask), ![c].checks = FirstChecks(run[c].ask)]
    BY <1>2 DEF Gate
  <2>3. run' = [run EXCEPT ![c] = r]
    BY <2>2, Unfolded DEF Members
  <2> HIDE DEF r
  <2> QED
    BY <1>0, <2>1, <2>3, MoveStep DEF Gated, Acting, FirstStep
<1> QED
  BY <1>1, <1>2

\* A provider's answer, a row read back, a row read, or no row.
LEMMA AnswerKeeps ==
  ASSUME SandboxInv, NEW c \in Callers, Provider(c) \/ Reread(c) \/ Read(c)
  PROVE  SandboxInv'
<1>1. CASE Provider(c)
  BY <1>1, FinishStep DEF Provider, Gated, Acting
<1>2. CASE Reread(c)
  BY <1>2, FinishStep DEF Reread, Gated, Acting
<1>3. CASE Read(c)
  BY <1>3, FinishStep DEF Read, Gated, Acting
<1> QED
  BY <1>1, <1>2, <1>3

\* A reference is found, or the request is refused.
LEMMA CheckReferenceKeeps ==
  ASSUME SandboxInv, NEW c \in Callers, CheckReference(c)
  PROVE  SandboxInv'
<1>0. run[c].pc = "check" /\ compiled' = compiled
  BY DEF CheckReference
<1>1. CASE Fail(c, "bad")
  BY <1>0, <1>1, FailStep DEF Gated, Acting
<1>2. CASE ~ Fail(c, "bad")
  <2>1. PICK f : run' = [run EXCEPT ![c].checks = @ \ {f}]
    BY <1>2 DEF CheckReference
  <2> DEFINE r == [run[c] EXCEPT !.checks = run[c].checks \ {f}]
  <2>2. /\ DOMAIN r = Members /\ r.calls = run[c].calls /\ r.fn = run[c].fn
        /\ r.mod = run[c].mod /\ r.n = run[c].n /\ r.pending = run[c].pending
        /\ r.asked = run[c].asked /\ r.pc = run[c].pc
    BY Unfolded DEF Members
  <2>3. run' = [run EXCEPT ![c] = r]
    BY <2>1, Unfolded DEF Members
  <2> HIDE DEF r
  <2> QED
    BY <1>0, <2>2, <2>3, MoveStep
<1> QED
  BY <1>1, <1>2

\* A statement's rows wait to be read back.
LEMMA CommitStep ==
  ASSUME NEW c \in Callers, NEW STATE rows, NEW STATE id, SandboxInv, run[c].pc = "check",
         Commit(c, rows, id), compiled' = compiled
  PROVE  SandboxInv'
<1> DEFINE r == [run[c] EXCEPT !.pc = "reread", !.id = id, !.wrote = (rows # db)]
<1>1. /\ DOMAIN r = Members /\ r.calls = run[c].calls /\ r.fn = run[c].fn
      /\ r.mod = run[c].mod /\ r.n = run[c].n /\ r.pending = run[c].pending
      /\ r.asked = run[c].asked /\ r.pc = "reread"
  BY Unfolded DEF Members
<1>2. run' = [run EXCEPT ![c] = r]
  BY Unfolded DEF Commit, Members
<1> HIDE DEF r
<1> QED
  BY <1>1, <1>2, MoveStep DEF Gated, Acting

\* The row is written and waits to be read back, or the statement fails.
LEMMA WriteKeeps ==
  ASSUME SandboxInv, NEW c \in Callers, Insert(c) \/ Update(c)
  PROVE  SandboxInv'
<1>0. run[c].pc = "check" /\ compiled' = compiled
  BY DEF Insert, Update
<1>1. (\E code : Fail(c, code)) \/ (\E rows, id : Commit(c, rows, id))
  BY DEF Insert, Update
<1>2. CASE \E code : Fail(c, code)
  BY <1>0, <1>2, FailStep DEF Gated, Acting
<1> QED
  BY <1>0, <1>1, <1>2, CommitStep

\* The row goes, or the statement fails.
LEMMA DeleteKeeps ==
  ASSUME SandboxInv, NEW c \in Callers, Delete(c)
  PROVE  SandboxInv'
<1>0. run[c].pc = "delete" /\ compiled' = compiled
  BY DEF Delete
<1>1. (\E code : Fail(c, code)) \/ (\E row, wrote : Finish(c, "ok", row, wrote))
  BY DEF Delete
<1> QED
  BY <1>0, <1>1, FailStep, FinishStep DEF Gated, Acting

\* A statement that fails is answered.
LEMMA StatementFailsKeeps ==
  ASSUME SandboxInv, NEW c \in Callers, StatementFails(c)
  PROVE  SandboxInv'
<1>1. run[c].pc \in Gated /\ compiled' = compiled /\ \E code : Fail(c, code)
  BY DEF StatementFails, Gated, Acting
<1> QED
  BY <1>1, FailStep

\* A new version of the manifest, a new file, and steps of nobody touch no invocation.
LEMMA OutsideKeeps ==
  ASSUME SandboxInv, Upgrade \/ ReplaceFile \/ UNCHANGED vars
  PROVE  SandboxInv'
<1>1. run' = run /\ compiled' = compiled
  BY DEF Upgrade, ReplaceFile, vars
<1> QED
  BY <1>1 DEF SandboxInv, Shape, Local, HasModule, OwnAnswers, Counted, Entry, Gated, Acting

\* The invariant is inductive.
LEMMA SandboxInvInductive == SandboxInv /\ [Next]_vars => SandboxInv'
<1> SUFFICES ASSUME SandboxInv, [Next]_vars
             PROVE  SandboxInv'
  OBVIOUS
<1>1. CASE Upgrade \/ ReplaceFile \/ UNCHANGED vars
  BY <1>1, OutsideKeeps
<1>2. ASSUME NEW c \in Callers, NEW f, Start(c, f)
      PROVE  SandboxInv'
  BY <1>2, StartKeeps
<1>3. ASSUME NEW c \in Callers, Host(c)
      PROVE  SandboxInv'
  <2>1. CASE Lookup(c)
    BY <2>1, LookupKeeps
  <2>2. CASE ReadAndCompile(c)
    BY <2>2, CompileKeeps
  <2>3. CASE Publish(c)
    BY <2>3, PublishKeeps
  <2>4. CASE \E size \in Inputs : Invoke(c, size)
    BY <2>4, InvokeKeeps
  <2>5. CASE Gate(c)
    BY <2>5, GateKeeps
  <2>6. CASE DataStep(c)
    BY <2>6, CheckReferenceKeeps, WriteKeeps, AnswerKeeps, DeleteKeeps DEF DataStep
  <2>7. CASE Timeout(c)
    BY <2>7, ReturnKeeps
  <2> QED
    BY <1>3, <2>1, <2>2, <2>3, <2>4, <2>5, <2>6, <2>7 DEF Host
<1>4. ASSUME NEW c \in Callers, Guest(c)
      PROVE  SandboxInv'
  BY <1>4, OutputWriteKeeps, BadRangeKeeps, AskKeeps, ReturnKeeps DEF Guest
<1>5. ASSUME NEW c \in Callers, Provider(c)
      PROVE  SandboxInv'
  BY <1>5, AnswerKeeps
<1>6. ASSUME NEW c \in Callers, StatementFails(c)
      PROVE  SandboxInv'
  BY <1>6, StatementFailsKeeps
<1> QED
  BY <1>1, <1>2, <1>3, <1>4, <1>5, <1>6 DEF Next

\* In every state.
LEMMA SandboxInvHolds == Spec => []SandboxInv
BY InitSandboxInv, SandboxInvInductive, PTL DEF Spec

-----------------------------------------------------------------------------
\* Whoever compiles a path runs the module that was published first, however many
\* callers race for it and however often its file is replaced (sandbox.go:120-151).
THEOREM ModuleIsShared == Spec => []OneModule
<1>1. SandboxInv => OneModule
  BY DEF SandboxInv, Local, HasModule, OneModule
<1> QED
  BY <1>1, SandboxInvHolds, PTL

\* However many calls were refused, denied or failed before, a guest reads the result of
\* its invocation's last call that was asked, if any (invoke.go:36-63, host.go:156-171).
THEOREM ResultsAreOwn == Spec => []AnswersAreOwn
<1>1. SandboxInv => AnswersAreOwn
  BY DEF SandboxInv, Local, OwnAnswers, AnswersAreOwn, ResultRead, Gated, Acting
<1> QED
  BY <1>1, SandboxInvHolds, PTL

-----------------------------------------------------------------------------
(***************************************************************************)
(* EffectsConsented, for every sequence of versions of the manifest.       *)
(*                                                                         *)
(* It is not inductive: it asks of a request that has passed the gate what *)
(* only the gate has looked at, under capabilities that may have been      *)
(* declared versions ago.  ConsentInv says what carries it from there: the *)
(* user has consented to every function the manifest declares now, and to  *)
(* the function of every invocation, for consent never shrinks.            *)
(***************************************************************************)
\* The user has agreed to everything these capabilities allow.
Covered(caps) ==
  /\ \A e \in DOMAIN caps.data : \A op \in caps.data[e] : <<e, op>> \in granted.data
  /\ caps.network \subseteq granted.network
  /\ caps.model => granted.model

\* What consent a caller's invocation rests on.
Authorised(c) ==
  /\ run[c].pc # "idle" => Covered(run[c].fn.caps)
  /\ run[c].pc \in Gated => run[c].ask \in Asks
  /\ run[c].pc \in Acting /\ KeepsHost(run[c].ask) => Effect(run[c].ask) \in Consented

ConsentInv ==
  /\ \A f \in DOMAIN functions : Covered(functions[f].caps)
  /\ \A c \in Callers : Authorised(c)

-----------------------------------------------------------------------------
(***************************************************************************)
(* Unions of capabilities.                                                 *)
(***************************************************************************)
\* A union holds what each of its functions may do.
LEMMA UnionHolds ==
  ASSUME NEW fs, NEW f \in DOMAIN fs
  PROVE  /\ \A e \in DOMAIN fs[f].caps.data : \A op \in fs[f].caps.data[e] :
              <<e, op>> \in Union(fs).data
         /\ fs[f].caps.network \subseteq Union(fs).network
         /\ fs[f].caps.model => Union(fs).model
<1> DEFINE caps == fs[f].caps
           all == {fs[g].caps : g \in DOMAIN fs}
<1>1. caps \in all
  OBVIOUS
<1>2. /\ Union(fs).data = UNION {UNION {{e} \X k.data[e] : e \in DOMAIN k.data} : k \in all}
      /\ Union(fs).network = UNION {k.network : k \in all}
      /\ Union(fs).model = \E k \in all : k.model
  BY DEF Union
<1>3. ASSUME NEW e \in DOMAIN caps.data, NEW op \in caps.data[e]
      PROVE  <<e, op>> \in Union(fs).data
  <2>1. <<e, op>> \in {e} \X caps.data[e]
    BY <1>3
  <2>2. <<e, op>> \in UNION {{d} \X caps.data[d] : d \in DOMAIN caps.data}
    BY <2>1
  <2> HIDE DEF all, caps
  <2> QED
    BY <1>1, <1>2, <2>2
<1> HIDE DEF all
<1>4. caps.network \subseteq Union(fs).network
  BY <1>1, <1>2
<1>5. caps.model => Union(fs).model
  BY <1>1, <1>2
<1> QED
  BY <1>3, <1>4, <1>5

\* Consent to every function is consent to their union.
LEMMA UnionCovered ==
  ASSUME \A f \in DOMAIN functions : Covered(functions[f].caps)
  PROVE  /\ Union(functions).data \subseteq granted.data
         /\ Union(functions).network \subseteq granted.network
         /\ Union(functions).model => granted.model
<1>1. ASSUME NEW g \in Union(functions).data
      PROVE  g \in granted.data
  <2>1. PICK f \in DOMAIN functions :
          g \in UNION {{e} \X functions[f].caps.data[e] : e \in DOMAIN functions[f].caps.data}
    BY <1>1 DEF Union
  <2>2. PICK e \in DOMAIN functions[f].caps.data : g \in {e} \X functions[f].caps.data[e]
    BY <2>1
  <2>3. PICK op \in functions[f].caps.data[e] : g = <<e, op>>
    BY <2>2
  <2> QED
    BY <2>3 DEF Covered
<1>2. Union(functions).network \subseteq granted.network
  BY DEF Union, Covered
<1>3. Union(functions).model => granted.model
  BY DEF Union, Covered
<1> QED
  BY <1>1, <1>2, <1>3

\* What a new version adds is agreed to, whether or not it adds anything.
LEMMA UpgradeGrants ==
  ASSUME \A f \in DOMAIN functions : Covered(functions[f].caps), Upgrade
  PROVE  /\ granted.data \subseteq granted'.data /\ Union(functions').data \subseteq granted'.data
         /\ granted.network \subseteq granted'.network
         /\ Union(functions').network \subseteq granted'.network
         /\ granted.model => granted'.model
         /\ Union(functions').model => granted'.model
<1> DEFINE delta == Widened(functions, functions')
<1>1. granted' = IF RequiresReconsent(delta)
                 THEN [data |-> granted.data \cup delta.data,
                       network |-> granted.network \cup delta.network,
                       model |-> granted.model \/ delta.model]
                 ELSE granted
  BY DEF Upgrade
<1>2. /\ delta.data = Union(functions').data \ Union(functions).data
      /\ delta.network = Union(functions').network \ Union(functions).network
      /\ delta.model <=> (Union(functions').model /\ ~Union(functions).model)
  BY DEF Widened
<1>3. /\ Union(functions).data \subseteq granted.data
      /\ Union(functions).network \subseteq granted.network
      /\ Union(functions).model => granted.model
  BY UnionCovered
<1> HIDE DEF delta
<1>4. CASE RequiresReconsent(delta)
  <2>1. /\ granted'.data = granted.data \cup delta.data
        /\ granted'.network = granted.network \cup delta.network
        /\ granted'.model <=> granted.model \/ delta.model
    BY <1>1, <1>4
  <2> QED
    BY <1>2, <1>3, <2>1
<1>5. CASE ~RequiresReconsent(delta)
  <2>1. granted' = granted
    BY <1>1, <1>5
  <2>2. delta.data = {} /\ delta.network = {} /\ ~delta.model
    BY <1>5 DEF RequiresReconsent
  <2> QED
    BY <1>2, <1>3, <2>1, <2>2
<1> QED
  BY <1>4, <1>5

-----------------------------------------------------------------------------
(***************************************************************************)
(* Steps.                                                                  *)
(***************************************************************************)
\* Initially the user has agreed to what the first version declares.
LEMMA InitConsentInv == Init => ConsentInv
<1> SUFFICES ASSUME Init
             PROVE  ConsentInv
  OBVIOUS
<1>1. granted = Union(functions) /\ \A c \in Callers : run[c] = Idle
  BY DEF Init
<1>2. \A f \in DOMAIN functions : Covered(functions[f].caps)
  BY <1>1, UnionHolds DEF Covered
<1>3. \A c \in Callers : run[c].pc = "idle"
  BY <1>1 DEF Idle
<1>4. \A c \in Callers : Authorised(c)
  BY <1>3 DEF Authorised, Gated, Acting
<1> QED
  BY <1>2, <1>4 DEF ConsentInv

\* A new version leaves the older one's invocations consented to.
LEMMA UpgradeConsented ==
  ASSUME ConsentInv, Upgrade
  PROVE  ConsentInv'
<1>0. run' = run
  BY DEF Upgrade
<1>1. /\ granted.data \subseteq granted'.data /\ Union(functions').data \subseteq granted'.data
      /\ granted.network \subseteq granted'.network
      /\ Union(functions').network \subseteq granted'.network
      /\ granted.model => granted'.model
      /\ Union(functions').model => granted'.model
  BY UpgradeGrants DEF ConsentInv
<1>2. (\A f \in DOMAIN functions : Covered(functions[f].caps))'
  BY <1>1, UnionHolds DEF Covered
<1>3. ASSUME NEW caps, Covered(caps)
      PROVE  Covered(caps)'
  BY <1>1, <1>3 DEF Covered
<1>4. Consented \subseteq Consented'
  <2>1. {<<"data", g[1], g[2]>> : g \in granted.data} \subseteq {<<"data", g[1], g[2]>> : g \in granted'.data}
    BY <1>1
  <2>2. {<<"network", h>> : h \in granted.network} \subseteq {<<"network", h>> : h \in granted'.network}
    BY <1>1
  <2>3. {e \in {<<"model">>} : granted.model} \subseteq {e \in {<<"model">>} : granted'.model}
    BY <1>1
  <2> QED
    BY <2>1, <2>2, <2>3 DEF Consented
<1>5. ASSUME NEW c \in Callers
      PROVE  Authorised(c)'
  <2>1. Authorised(c)
    BY <1>5 DEF ConsentInv
  <2>2. (run[c].pc # "idle" => Covered(run[c].fn.caps))'
    BY <1>0, <1>3, <2>1 DEF Authorised
  <2>3. (run[c].pc \in Gated => run[c].ask \in Asks)'
    BY <1>0, <2>1 DEF Authorised, Gated, Acting
  <2>4. (run[c].pc \in Acting /\ KeepsHost(run[c].ask) => Effect(run[c].ask) \in Consented)'
    BY <1>0, <1>4, <2>1 DEF Authorised, Acting, Effect, HostReached, KeepsHost
  <2> QED
    BY <2>2, <2>3, <2>4 DEF Authorised
<1> QED
  BY <1>2, <1>5 DEF ConsentInv

\* What it takes for a step of one caller to keep the invariant.
LEMMA CallerStep ==
  ASSUME ConsentInv, NEW c \in Callers, functions' = functions, granted' = granted,
         \A d \in Callers : d # c => run'[d] = run[d],
         Authorised(c)'
  PROVE  ConsentInv'
<1>1. (\A f \in DOMAIN functions : Covered(functions[f].caps))'
  BY DEF ConsentInv, Covered
<1>2. ASSUME NEW d \in Callers, d # c
      PROVE  Authorised(d)'
  BY <1>2 DEF ConsentInv, Authorised, Covered, Consented, Gated, Acting, Effect, HostReached, KeepsHost
<1> QED
  BY <1>1, <1>2 DEF ConsentInv

\* A caller that answers, waits, or ends needs no new consent.
LEMMA QuietStep ==
  ASSUME ConsentInv, NEW c \in Callers, functions' = functions, granted' = granted,
         \A d \in Callers : d # c => run'[d] = run[d],
         \/ run'[c].pc = "idle"
         \/ /\ run[c].pc # "idle" /\ run'[c].fn = run[c].fn
            /\ \/ run'[c].pc \notin Gated
               \/ /\ run'[c].ask = run[c].ask /\ run[c].pc \in Gated
                  /\ run'[c].pc \in {run[c].pc, "reread"}
  PROVE  ConsentInv'
<1>1. Authorised(c)
  BY DEF ConsentInv
<1>2. (run[c].pc # "idle" => Covered(run[c].fn.caps))'
  BY <1>1 DEF Authorised, Covered
<1>3. (run[c].pc \in Gated => run[c].ask \in Asks)'
  BY <1>1 DEF Authorised, Gated, Acting
<1>4. (run[c].pc \in Acting /\ KeepsHost(run[c].ask) => Effect(run[c].ask) \in Consented)'
  BY <1>1 DEF Authorised, Gated, Acting, Effect, HostReached, KeepsHost, Consented
<1> QED
  BY <1>2, <1>3, <1>4, CallerStep DEF Authorised

\* An invocation starts with a function that the manifest declares now.
LEMMA StartConsented ==
  ASSUME SandboxInv, ConsentInv, NEW c \in Callers, NEW f \in DOMAIN functions, Start(c, f)
  PROVE  ConsentInv'
<1> DEFINE r == [Idle EXCEPT !.pc = "lookup", !.fn = functions[f], !.n = invoked + 1]
<1>1. r.pc = "lookup" /\ r.fn = functions[f]
  BY DEF Idle
<1>2. run' = [run EXCEPT ![c] = r] /\ functions' = functions /\ granted' = granted
  BY DEF Start
<1> HIDE DEF r
<1>3. run'[c] = r /\ \A d \in Callers : d # c => run'[d] = run[d]
  BY <1>2, OneCaller, Unfolded
<1>4. Covered(functions[f].caps)
  BY DEF ConsentInv
<1>5. Authorised(c)'
  BY <1>1, <1>2, <1>3, <1>4 DEF Authorised, Covered, Gated, Acting
<1> QED
  BY <1>2, <1>3, <1>5, CallerStep

\* Whoever ends rests on no consent.
LEMMA EndConsented ==
  ASSUME SandboxInv, ConsentInv, NEW c \in Callers, End(c), functions' = functions, granted' = granted
  PROVE  ConsentInv'
<1>1. run'[c].pc = "idle" /\ \A d \in Callers : d # c => run'[d] = run[d]
  BY Unfolded DEF End, Idle
<1> QED
  BY <1>1, QuietStep

\* An answered guest rests on no consent but that to its function.
LEMMA FinishConsented ==
  ASSUME SandboxInv, ConsentInv, NEW c \in Callers, NEW code, NEW row, NEW wrote,
         run[c].pc # "idle", Finish(c, code, row, wrote), functions' = functions, granted' = granted
  PROVE  ConsentInv'
<1>0. DOMAIN run = Callers /\ DOMAIN run[c] = Members
  BY Unfolded
<1>1. /\ run'[c].pc = "guest" /\ run'[c].fn = run[c].fn
      /\ \A d \in Callers : d # c => run'[d] = run[d]
  BY <1>0 DEF Finish, Members
<1> QED
  BY <1>1, QuietStep DEF Gated, Acting

\* Compile, the input, the output and a bad range concern no gate.
LEMMA UngatedConsented ==
  ASSUME SandboxInv, ConsentInv, NEW c \in Callers,
         \/ Lookup(c) \/ ReadAndCompile(c) \/ Publish(c)
         \/ \E size \in Inputs : Invoke(c, size)
         \/ \E n \in Chunks : OutputWrite(c, n)
         \/ BadRange(c) \/ Return(c) \/ Timeout(c)
  PROVE  ConsentInv'
<1>0. /\ DOMAIN run = Callers /\ DOMAIN run[c] = Members
      /\ functions' = functions /\ granted' = granted
  BY Unfolded DEF Lookup, ReadAndCompile, Publish, Invoke, OutputWrite, BadRange, Return, Timeout
<1>1. CASE End(c)
  BY <1>0, <1>1, EndConsented
<1>2. CASE ~End(c)
  <2>1. CASE Lookup(c)
    <3>1. /\ run[c].pc = "lookup" /\ run'[c].fn = run[c].fn /\ run'[c].pc \in {"invoke", "read"}
          /\ \A d \in Callers : d # c => run'[d] = run[d]
      BY <1>0, <2>1 DEF Lookup, Members
    <3> QED
      BY <1>0, <3>1, QuietStep DEF Gated, Acting
  <2>2. CASE ReadAndCompile(c)
    <3>1. /\ run[c].pc = "read" /\ run'[c].fn = run[c].fn /\ run'[c].pc = "publish"
          /\ \A d \in Callers : d # c => run'[d] = run[d]
      BY <1>0, <1>2, <2>2 DEF ReadAndCompile, Members
    <3> QED
      BY <1>0, <3>1, QuietStep DEF Gated, Acting
  <2>3. CASE Publish(c)
    <3>1. /\ run[c].pc = "publish" /\ run'[c].fn = run[c].fn /\ run'[c].pc = "invoke"
          /\ \A d \in Callers : d # c => run'[d] = run[d]
      BY <1>0, <2>3 DEF Publish, Members
    <3> QED
      BY <1>0, <3>1, QuietStep DEF Gated, Acting
  <2>4. CASE \E size \in Inputs : Invoke(c, size)
    <3>1. /\ run[c].pc = "invoke" /\ run'[c].fn = run[c].fn /\ run'[c].pc = "guest"
          /\ \A d \in Callers : d # c => run'[d] = run[d]
      BY <1>0, <1>2, <2>4 DEF Invoke, Goto, Members
    <3> QED
      BY <1>0, <3>1, QuietStep DEF Gated, Acting
  <2>5. CASE \E n \in Chunks : OutputWrite(c, n)
    <3>1. /\ run[c].pc = "guest" /\ run'[c].fn = run[c].fn /\ run'[c].pc = "guest"
          /\ \A d \in Callers : d # c => run'[d] = run[d]
      BY <1>0, <2>5 DEF OutputWrite, Members
    <3> QED
      BY <1>0, <3>1, QuietStep DEF Gated, Acting
  <2>6. CASE BadRange(c)
    <3>1. /\ run[c].pc = "guest" /\ run'[c].fn = run[c].fn /\ run'[c].pc = "guest"
          /\ \A d \in Callers : d # c => run'[d] = run[d]
      BY <1>0, <2>6 DEF BadRange, Calling, Members
    <3> QED
      BY <1>0, <3>1, QuietStep DEF Gated, Acting
  <2> QED
    BY <1>2, <2>1, <2>2, <2>3, <2>4, <2>5, <2>6 DEF Return, Timeout
<1> QED
  BY <1>1, <1>2

\* A guest asks.
LEMMA AskConsented ==
  ASSUME SandboxInv, ConsentInv, NEW c \in Callers, NEW ask \in Asks, Ask(c, ask)
  PROVE  ConsentInv'
<1>0. /\ DOMAIN run = Callers /\ DOMAIN run[c] = Members /\ Authorised(c)
      /\ functions' = functions /\ granted' = granted /\ run[c].pc = "guest"
  BY Unfolded DEF Ask, Calling, ConsentInv
<1>1. /\ run'[c].pc = "gate" /\ run'[c].fn = run[c].fn /\ run'[c].ask = ask
      /\ \A d \in Callers : d # c => run'[d] = run[d]
  BY <1>0 DEF Ask, Members
<1>2. Authorised(c)'
  BY <1>0, <1>1 DEF Authorised, Covered, Gated, Acting
<1> QED
  BY <1>0, <1>1, <1>2, CallerStep

\* What the function's capabilities allow, the user has agreed to; the gate has looked
\* at the host of a fetch, which is the host reached unless the path continues its name.
LEMMA AllowedIsConsented ==
  ASSUME NEW c \in Callers, Covered(run[c].fn.caps), Allowed(c), run[c].ask \in Asks,
         run[c].ask.kind # "malformed", KeepsHost(run[c].ask)
  PROVE  Effect(run[c].ask) \in Consented
<1> DEFINE ask == run[c].ask
           caps == run[c].fn.caps
<1>0. ask.kind \in {"data", "network", "model"}
  BY AsksAreRequests
<1>1. CASE ask.kind = "data"
  <2>1. <<ask.ent, ask.op>> \in granted.data
    BY <1>1 DEF Allowed, Allows, Covered
  <2> DEFINE g == <<ask.ent, ask.op>>
  <2>2. Effect(ask) = <<"data", g[1], g[2]>>
    BY <1>1 DEF Effect
  <2> QED
    BY <2>1, <2>2 DEF Consented
<1>2. CASE ask.kind = "network"
  <2>1. ask.host \in granted.network
    BY <1>2 DEF Allowed, AllowsDomain, Covered
  <2>2. Effect(ask) = <<"network", ask.host>>
    BY <1>2 DEF Effect, HostReached, KeepsHost
  <2> QED
    BY <2>1, <2>2 DEF Consented
<1>3. CASE ask.kind = "model"
  <2>1. granted.model
    BY <1>3 DEF Allowed, Covered
  <2>2. Effect(ask) = <<"model">>
    BY <1>3 DEF Effect
  <2> QED
    BY <2>1, <2>2 DEF Consented
<1> QED
  BY <1>0, <1>1, <1>2, <1>3

\* What passes the gate, the user has agreed to.
LEMMA GateConsented ==
  ASSUME SandboxInv, ConsentInv, NEW c \in Callers, Gate(c)
  PROVE  ConsentInv'
<1>0. /\ DOMAIN run = Callers /\ DOMAIN run[c] = Members /\ Authorised(c)
      /\ functions' = functions /\ granted' = granted /\ run[c].pc = "gate"
  BY Unfolded DEF Gate, ConsentInv
<1>1. CASE \E code : Fail(c, code)
  BY <1>0, <1>1, FinishConsented DEF Fail
<1>2. CASE ~ \E code : Fail(c, code)
  <2>1. /\ Allowed(c) /\ ~Refused(run[c].ask)
        /\ run' = [run EXCEPT ![c].pc = FirstStep(run[c].ask), ![c].checks = FirstChecks(run[c].ask)]
    BY <1>2 DEF Gate
  <2>2. /\ run'[c].fn = run[c].fn /\ run'[c].ask = run[c].ask
        /\ \A d \in Callers : d # c => run'[d] = run[d]
    BY <1>0, <2>1 DEF Members
  <2>3. Covered(run[c].fn.caps) /\ run[c].ask \in Asks
    BY <1>0 DEF Authorised, Gated
  <2>4. KeepsHost(run[c].ask) => Effect(run[c].ask) \in Consented
    BY <2>1, <2>3, AllowedIsConsented DEF Refused
  <2>5. Consented' = Consented
    BY <1>0 DEF Consented
  <2>6. Authorised(c)'
    BY <1>0, <2>2, <2>3, <2>4, <2>5 DEF Authorised, Covered, Effect, HostReached, KeepsHost
  <2> QED
    BY <1>0, <2>2, <2>6, CallerStep
<1> QED
  BY <1>1, <1>2

\* A data call goes on as it was let through.
LEMMA DataConsented ==
  ASSUME SandboxInv, ConsentInv, NEW c \in Callers,
         DataStep(c) \/ Provider(c) \/ StatementFails(c)
  PROVE  ConsentInv'
<1>0. /\ DOMAIN run = Callers /\ DOMAIN run[c] = Members
      /\ functions' = functions /\ granted' = granted
      /\ run[c].pc \in {"check", "reread", "delete", "select", "provider"}
  BY Unfolded DEF DataStep, CheckReference, Insert, Update, Reread, Delete, Read, Provider,
                   StatementFails
<1>1. CASE \E code, row, wrote : Finish(c, code, row, wrote)
  BY <1>0, <1>1, FinishConsented
<1>2. CASE ~ \E code, row, wrote : Finish(c, code, row, wrote)
  <2>1. CASE CheckReference(c)
    <3>1. PICK f : run' = [run EXCEPT ![c].checks = @ \ {f}]
      BY <1>2, <2>1 DEF CheckReference, Fail
    <3>2. /\ run'[c].fn = run[c].fn /\ run'[c].ask = run[c].ask /\ run'[c].pc = run[c].pc
          /\ \A d \in Callers : d # c => run'[d] = run[d]
      BY <1>0, <3>1 DEF Members
    <3> QED
      BY <1>0, <3>2, QuietStep DEF Gated, Acting
  <2>2. CASE Insert(c) \/ Update(c)
    <3>1. PICK rows, id : Commit(c, rows, id)
      BY <1>2, <2>2 DEF Insert, Update, Fail
    <3>2. /\ run'[c].fn = run[c].fn /\ run'[c].ask = run[c].ask /\ run'[c].pc = "reread"
          /\ \A d \in Callers : d # c => run'[d] = run[d]
      BY <1>0, <3>1 DEF Commit, Members
    <3> QED
      BY <1>0, <3>2, QuietStep DEF Gated, Acting
  <2> QED
    BY <1>2, <2>1, <2>2 DEF DataStep, Reread, Delete, Read, Provider, StatementFails, Fail
<1> QED
  BY <1>1, <1>2

\* With SandboxInv, the invariant is inductive.
LEMMA ConsentInvInductive == SandboxInv /\ ConsentInv /\ [Next]_vars => ConsentInv'
<1> SUFFICES ASSUME SandboxInv, ConsentInv, [Next]_vars
             PROVE  ConsentInv'
  OBVIOUS
<1>1. CASE Upgrade
  BY <1>1, UpgradeConsented
<1>2. CASE ReplaceFile \/ UNCHANGED vars
  BY <1>2 DEF ReplaceFile, vars, ConsentInv, Authorised, Covered, Consented, Gated, Acting, Effect,
              HostReached, KeepsHost
<1>3. ASSUME NEW c \in Callers, \E f \in DOMAIN functions : Start(c, f)
      PROVE  ConsentInv'
  BY <1>3, StartConsented
<1>4. ASSUME NEW c \in Callers, Host(c)
      PROVE  ConsentInv'
  BY <1>4, UngatedConsented, GateConsented, DataConsented DEF Host
<1>5. ASSUME NEW c \in Callers, Guest(c)
      PROVE  ConsentInv'
  BY <1>5, UngatedConsented, AskConsented DEF Guest
<1>6. ASSUME NEW c \in Callers, Provider(c) \/ StatementFails(c)
      PROVE  ConsentInv'
  BY <1>6, DataConsented
<1> QED
  BY <1>1, <1>2, <1>3, <1>4, <1>5, <1>6 DEF Next

\* Whatever versions of the manifest there were, and in whatever order, a function of
\* any of them acts only as the user agreed to (consent/widen.go:18-51,
\* sandbox/data.go:45-48, network.go:39-41, model.go:28-30), in every data and model
\* call and every fetch whose path leaves the host what it is.
THEOREM FunctionsActAsConsented == Spec => []EffectsConsented
<1>1. ConsentInv => EffectsConsented
  BY DEF ConsentInv, Authorised, EffectsConsented
<1> QED
  BY <1>1, InitConsentInv, InitSandboxInv, SandboxInvInductive, ConsentInvInductive, PTL DEF Spec

-----------------------------------------------------------------------------
(***************************************************************************)
(* RowsHold and AnswersTruthful.  A data call of an allowed function is on *)
(* an entity of the app; it writes in one statement, before which it has   *)
(* written nothing and after which nothing can fail but the read-back.     *)
(***************************************************************************)
\* What an answer says of what happened.
Truthful(answer) ==
  /\ answer.code # "ok" /\ answer.wrote =>
       /\ answer.code = "backend"
       /\ answer.to.kind = "data" /\ answer.to.op \in {"create", "update"}
  /\ answer.code = "ok" /\ answer.to.kind = "data" =>
       /\ answer.to.op = "create" => answer.wrote
       /\ answer.to.op = "delete" => (answer.wrote <=> answer.row # {})

\* What a caller's request is, by how far it got.
Asked(c) ==
  LET ask == run[c].ask
      pc == run[c].pc
  IN /\ pc \in {"check", "select", "delete"} => ask.kind = "data"
     /\ pc = "check" => ask.op \in {"create", "update"} /\ ask.ent \in DOMAIN App
     /\ pc = "reread" => ask.kind = "data" /\ ask.op \in {"create", "update"}
     /\ pc = "select" => ask.op = "read"
     /\ pc = "delete" => ask.op # "create"
     /\ pc = "provider" => ask.kind # "data"

\* Only a call that is about to reread has written; a create has.
WritesLast(c) ==
  /\ run[c].pc # "reread" => run[c].wrote = FALSE
  /\ run[c].pc = "reread" /\ run[c].ask.op = "create" => run[c].wrote = TRUE

Declared(c) == run[c].pc # "idle" => ValidCapabilities(run[c].fn.caps, Operations)

DataCall(c) ==
  Asked(c) /\ WritesLast(c) /\ Declared(c) /\ \A answer \in run[c].pending : Truthful(answer)

RowsInv ==
  /\ next \in Nat /\ Sound(db, next)
  /\ functions \in Manifests
  /\ \A c \in Callers : DataCall(c)

\* Initially nobody has asked, and the rows are sound.
LEMMA InitRowsInv == Init => RowsInv
<1> SUFFICES ASSUME Init
             PROVE  RowsInv
  OBVIOUS
<1>1. next \in Nat /\ Sound(db, next)
  BY DatabasesHold, IdsAreOld DEF Init, Sound, Constrained, IdsUpTo
<1>2. functions \in Manifests
  BY FirstManifestIsOne DEF Init
<1>3. Idle.pc = "idle" /\ Idle.pending = {} /\ Idle.wrote = FALSE
  BY DEF Idle
<1>4. ASSUME NEW c \in Callers
      PROVE  DataCall(c)
  <2>1. run[c] = Idle
    BY DEF Init
  <2> QED
    BY <1>3, <2>1 DEF DataCall, Asked, WritesLast, Declared
<1> QED
  BY <1>1, <1>2, <1>4 DEF RowsInv

\* What it takes for a step of one caller to keep the invariant.
LEMMA RowsCallerStep ==
  ASSUME RowsInv, NEW c \in Callers, functions' = functions, (next \in Nat /\ Sound(db, next))',
         \A d \in Callers : d # c => run'[d] = run[d],
         DataCall(c)'
  PROVE  RowsInv'
<1>1. ASSUME NEW d \in Callers, d # c
      PROVE  DataCall(d)'
  BY <1>1 DEF RowsInv, DataCall, Asked, WritesLast, Declared
<1> QED
  BY <1>1 DEF RowsInv

\* The rows stay as they are.
LEMMA RowsKept ==
  ASSUME RowsInv, db' = db, next' = next
  PROVE  (next \in Nat /\ Sound(db, next))'
BY DEF RowsInv

\* A caller goes on outside of the calls that write.
LEMMA RowsQuietStep ==
  ASSUME RowsInv, NEW c \in Callers, UNCHANGED <<db, next, functions>>,
         \A d \in Callers : d # c => run'[d] = run[d],
         run[c].pc \notin {"idle", "reread"}, run'[c].fn = run[c].fn, run'[c].wrote = run[c].wrote,
         run'[c].pc \notin {"check", "select", "delete", "reread", "provider"},
         run'[c].pending = run[c].pending
  PROVE  RowsInv'
<1>1. DataCall(c)
  BY DEF RowsInv
<1>2. \A answer \in run'[c].pending : Truthful(answer)
  BY <1>1 DEF DataCall
<1>3. Asked(c)' /\ WritesLast(c)' /\ Declared(c)'
  BY <1>1 DEF DataCall, Asked, WritesLast, Declared
<1>4. DataCall(c)'
  BY <1>2, <1>3 DEF DataCall, Truthful
<1> QED
  BY <1>4, RowsKept, RowsCallerStep

\* Nobody is left with an answer.
LEMMA RowsEndStep ==
  ASSUME SandboxInv, RowsInv, NEW c \in Callers, End(c), UNCHANGED <<db, next, functions>>
  PROVE  RowsInv'
<1>1. Idle.pc = "idle" /\ Idle.pending = {} /\ Idle.wrote = FALSE
  BY DEF Idle
<1>2. run'[c] = Idle /\ \A d \in Callers : d # c => run'[d] = run[d]
  BY Unfolded DEF End
<1>3. DataCall(c)'
  BY <1>1, <1>2 DEF DataCall, Asked, WritesLast, Declared
<1> QED
  BY <1>2, <1>3, RowsKept, RowsCallerStep

\* An answer is true of what its call did.
LEMMA RowsFinishStep ==
  ASSUME SandboxInv, RowsInv, NEW c \in Callers, NEW code, NEW row, NEW written,
         run[c].pc # "idle", Finish(c, code, row, written),
         functions' = functions, (next \in Nat /\ Sound(db, next))',
         code # "ok" /\ written =>
           code = "backend" /\ run[c].ask.kind = "data" /\ run[c].ask.op \in {"create", "update"},
         code = "ok" /\ run[c].ask.kind = "data" =>
           /\ run[c].ask.op = "create" => written
           /\ run[c].ask.op = "delete" => (written <=> row # {})
  PROVE  RowsInv'
<1> DEFINE given == Result(c, code, row, written)
<1>0. DOMAIN run = Callers /\ DOMAIN run[c] = Members /\ DataCall(c)
  BY Unfolded DEF RowsInv
<1>1. /\ run'[c].pc = "guest" /\ run'[c].fn = run[c].fn /\ run'[c].wrote = FALSE
      /\ run'[c].pending = IF code = "denied" THEN {} ELSE {given}
      /\ \A d \in Callers : d # c => run'[d] = run[d]
  BY <1>0 DEF Finish, Pending, Members
<1>2. given.code = code /\ given.to = run[c].ask /\ given.row = row /\ given.wrote = written
  BY DEF Result
<1> HIDE DEF given
<1>3. Truthful(given)
  BY <1>2 DEF Truthful
<1>4. (\A answer \in run[c].pending : Truthful(answer))'
  BY <1>1, <1>3 DEF Truthful
<1>5. Asked(c)' /\ WritesLast(c)' /\ Declared(c)'
  BY <1>0, <1>1 DEF DataCall, Asked, WritesLast, Declared
<1> QED
  BY <1>1, <1>4, <1>5, RowsCallerStep DEF DataCall

\* A call that fails has written nothing, unless it is its read-back that fails.
LEMMA RowsFailStep ==
  ASSUME SandboxInv, RowsInv, NEW c \in Callers, NEW code \in {"denied", "bad", "backend"},
         run[c].pc # "idle", run[c].pc = "reread" => code = "backend",
         Fail(c, code), UNCHANGED <<db, next, functions>>
  PROVE  RowsInv'
<1>1. DataCall(c)
  BY DEF RowsInv
<1>2. CASE run[c].pc = "reread"
  <2>1. code = "backend" /\ run[c].ask.kind = "data" /\ run[c].ask.op \in {"create", "update"}
    BY <1>1, <1>2 DEF DataCall, Asked
  <2> QED
    BY <2>1, RowsKept, RowsFinishStep DEF Fail
<1>3. CASE run[c].pc # "reread"
  <2>1. Finish(c, code, {}, FALSE)
    BY <1>1, <1>3 DEF Fail, DataCall, WritesLast
  <2> QED
    BY <2>1, RowsKept, RowsFinishStep
<1> QED
  BY <1>2, <1>3

\* An invocation starts with a function of a valid manifest.
LEMMA StartKeepsRows ==
  ASSUME SandboxInv, RowsInv, NEW c \in Callers, NEW f \in DOMAIN functions, Start(c, f)
  PROVE  RowsInv'
<1> DEFINE r == [Idle EXCEPT !.pc = "lookup", !.fn = functions[f], !.n = invoked + 1]
<1>1. r.pc = "lookup" /\ r.fn = functions[f] /\ r.wrote = FALSE /\ r.pending = {}
  BY DEF Idle
<1>2. run' = [run EXCEPT ![c] = r] /\ UNCHANGED <<db, next, functions>>
  BY DEF Start
<1> HIDE DEF r
<1>3. run'[c] = r /\ \A d \in Callers : d # c => run'[d] = run[d]
  BY <1>2, OneCaller, Unfolded
<1>4. ValidCapabilities(functions[f].caps, Operations)
  BY ManifestsAreValid DEF RowsInv
<1>5. DataCall(c)'
  BY <1>1, <1>3, <1>4 DEF DataCall, Asked, WritesLast, Declared
<1> QED
  BY <1>2, <1>3, <1>5, RowsKept, RowsCallerStep

\* Compile, the input, the output, a bad range and the question itself touch no row.
LEMMA QuietKeepsRows ==
  ASSUME SandboxInv, RowsInv, NEW c \in Callers,
         \/ Lookup(c) \/ ReadAndCompile(c) \/ Publish(c)
         \/ \E size \in Inputs : Invoke(c, size)
         \/ \E n \in Chunks : OutputWrite(c, n)
         \/ \E ask \in Asks : Ask(c, ask)
         \/ BadRange(c) \/ Return(c) \/ Timeout(c)
  PROVE  RowsInv'
<1>0. /\ DOMAIN run = Callers /\ DOMAIN run[c] = Members
      /\ UNCHANGED <<db, next, functions>>
  BY Unfolded DEF Lookup, ReadAndCompile, Publish, Invoke, OutputWrite, Ask, BadRange, Return, Timeout
<1>1. CASE End(c)
  BY <1>0, <1>1, RowsEndStep
<1>2. CASE ~End(c)
  <2>1. CASE Lookup(c)
    <3>1. /\ run[c].pc = "lookup" /\ run'[c].fn = run[c].fn /\ run'[c].pc \in {"invoke", "read"}
          /\ run'[c].wrote = run[c].wrote /\ run'[c].pending = run[c].pending
          /\ \A d \in Callers : d # c => run'[d] = run[d]
      BY <1>0, <2>1 DEF Lookup, Members
    <3> QED
      BY <1>0, <3>1, RowsQuietStep
  <2>2. CASE ReadAndCompile(c)
    <3>1. /\ run[c].pc = "read" /\ run'[c].fn = run[c].fn /\ run'[c].pc = "publish"
          /\ run'[c].wrote = run[c].wrote /\ run'[c].pending = run[c].pending
          /\ \A d \in Callers : d # c => run'[d] = run[d]
      BY <1>0, <1>2, <2>2 DEF ReadAndCompile, Members
    <3> QED
      BY <1>0, <3>1, RowsQuietStep
  <2>3. CASE Publish(c)
    <3>1. /\ run[c].pc = "publish" /\ run'[c].fn = run[c].fn /\ run'[c].pc = "invoke"
          /\ run'[c].wrote = run[c].wrote /\ run'[c].pending = run[c].pending
          /\ \A d \in Callers : d # c => run'[d] = run[d]
      BY <1>0, <2>3 DEF Publish, Members
    <3> QED
      BY <1>0, <3>1, RowsQuietStep
  <2>4. CASE \E size \in Inputs : Invoke(c, size)
    <3>1. /\ run[c].pc = "invoke" /\ run'[c].fn = run[c].fn /\ run'[c].pc = "guest"
          /\ run'[c].wrote = run[c].wrote /\ run'[c].pending = run[c].pending
          /\ \A d \in Callers : d # c => run'[d] = run[d]
      BY <1>0, <1>2, <2>4 DEF Invoke, Goto, Members
    <3> QED
      BY <1>0, <3>1, RowsQuietStep
  <2>5. CASE BadRange(c) \/ \E n \in Chunks : OutputWrite(c, n)
    <3>1. /\ run[c].pc = "guest" /\ run'[c].fn = run[c].fn /\ run'[c].pc = "guest"
          /\ run'[c].wrote = run[c].wrote /\ run'[c].pending = run[c].pending
          /\ \A d \in Callers : d # c => run'[d] = run[d]
      BY <1>0, <2>5 DEF OutputWrite, BadRange, Calling, Members
    <3> QED
      BY <1>0, <3>1, RowsQuietStep
  <2>6. CASE \E ask \in Asks : Ask(c, ask)
    <3>1. PICK ask : /\ run[c].pc = "guest"
                     /\ run' = [run EXCEPT ![c].pc = "gate", ![c].ask = ask,
                                           ![c].calls = run[c].calls + 1,
                                           ![c].asked = run[c].calls + 1]
      BY <1>0, <2>6 DEF Ask, Calling, Members
    <3>2. /\ run'[c].fn = run[c].fn /\ run'[c].pc = "gate"
          /\ run'[c].wrote = run[c].wrote /\ run'[c].pending = run[c].pending
          /\ \A d \in Callers : d # c => run'[d] = run[d]
      BY <1>0, <3>1 DEF Members
    <3> QED
      BY <1>0, <3>1, <3>2, RowsQuietStep
  <2> QED
    BY <1>2, <2>1, <2>2, <2>3, <2>4, <2>5, <2>6 DEF Return, Timeout
<1> QED
  BY <1>1, <1>2

\* What passes the gate as a data call is one on an entity of the app.
LEMMA GateKeepsRows ==
  ASSUME SandboxInv, ConsentInv, RowsInv, NEW c \in Callers, Gate(c)
  PROVE  RowsInv'
<1>0. /\ DOMAIN run = Callers /\ DOMAIN run[c] = Members /\ DataCall(c)
      /\ run[c].pc = "gate" /\ UNCHANGED <<db, next, functions>>
  BY Unfolded DEF Gate, RowsInv
<1>1. CASE \E code \in {"denied", "bad", "backend"} : Fail(c, code)
  BY <1>0, <1>1, RowsFailStep
<1>2. CASE ~ \E code \in {"denied", "bad", "backend"} : Fail(c, code)
  <2> DEFINE ask == run[c].ask
  <2>1. /\ Allowed(c) /\ ~Refused(ask)
        /\ run' = [run EXCEPT ![c].pc = FirstStep(ask), ![c].checks = FirstChecks(ask)]
    BY <1>2 DEF Gate
  <2>2. /\ run'[c].pc = FirstStep(ask) /\ run'[c].ask = ask /\ run'[c].fn = run[c].fn
        /\ run'[c].wrote = run[c].wrote /\ run'[c].pending = run[c].pending
        /\ \A d \in Callers : d # c => run'[d] = run[d]
    BY <1>0, <2>1 DEF Members
  <2>3. ask.kind \in {"data", "network", "model"}
    BY <1>0, <2>1, AsksAreRequests DEF ConsentInv, Authorised, Gated, Refused
  <2>4. ASSUME ask.kind = "data"
        PROVE  ask.ent \in DOMAIN App
    <3>1. ask.ent \in DOMAIN run[c].fn.caps.data
      BY <2>1, <2>4 DEF Allowed, Allows
    <3>2. ValidCapabilities(run[c].fn.caps, Operations)
      BY <1>0 DEF DataCall, Declared
    <3> QED
      BY <3>1, <3>2, OperationsAreOfEntities DEF ValidCapabilities
  <2> HIDE DEF ask
  <2>5. Asked(c)'
    BY <2>2, <2>3, <2>4 DEF Asked, FirstStep
  <2>6. WritesLast(c)' /\ Declared(c)'
    BY <1>0, <2>2, <2>3 DEF DataCall, WritesLast, Declared, FirstStep
  <2>7. (\A answer \in run[c].pending : Truthful(answer))'
    BY <1>0, <2>2 DEF DataCall, Truthful
  <2> QED
    BY <1>0, <2>2, <2>5, <2>6, <2>7, RowsKept, RowsCallerStep DEF DataCall
<1> QED
  BY <1>1, <1>2

\* A reference is there, or the call fails.
LEMMA CheckKeepsRows ==
  ASSUME SandboxInv, RowsInv, NEW c \in Callers, CheckReference(c)
  PROVE  RowsInv'
<1>0. /\ DOMAIN run = Callers /\ DOMAIN run[c] = Members /\ DataCall(c)
      /\ run[c].pc = "check" /\ UNCHANGED <<db, next, functions>>
  BY Unfolded DEF CheckReference, RowsInv
<1>1. CASE Fail(c, "bad")
  BY <1>0, <1>1, RowsFailStep
<1>2. CASE ~Fail(c, "bad")
  <2>1. PICK f : run' = [run EXCEPT ![c].checks = @ \ {f}]
    BY <1>2 DEF CheckReference
  <2>2. /\ run'[c].pc = run[c].pc /\ run'[c].ask = run[c].ask /\ run'[c].fn = run[c].fn
        /\ run'[c].wrote = run[c].wrote /\ run'[c].pending = run[c].pending
        /\ \A d \in Callers : d # c => run'[d] = run[d]
    BY <1>0, <2>1 DEF Members
  <2>3. DataCall(c)'
    BY <1>0, <2>2 DEF DataCall, Asked, WritesLast, Declared, Truthful
  <2> QED
    BY <1>0, <2>2, <2>3, RowsKept, RowsCallerStep
<1> QED
  BY <1>1, <1>2

\* A call that wrote goes on to reread.
LEMMA RowsCommitStep ==
  ASSUME SandboxInv, RowsInv, NEW c \in Callers, NEW STATE rows, NEW STATE id, Commit(c, rows, id),
         run[c].pc = "check", functions' = functions, (next \in Nat /\ Sound(db, next))',
         run[c].ask.op = "create" => rows # db
  PROVE  RowsInv'
<1>0. DOMAIN run = Callers /\ DOMAIN run[c] = Members /\ DataCall(c)
  BY Unfolded DEF RowsInv
<1>1. /\ run'[c].pc = "reread" /\ run'[c].ask = run[c].ask /\ run'[c].fn = run[c].fn
      /\ run'[c].pending = run[c].pending
      /\ rows # db => run'[c].wrote = TRUE
      /\ \A d \in Callers : d # c => run'[d] = run[d]
  BY <1>0 DEF Commit, Members
<1>2. Asked(c)' /\ WritesLast(c)' /\ Declared(c)'
  BY <1>0, <1>1 DEF DataCall, Asked, WritesLast, Declared
<1>3. (\A answer \in run[c].pending : Truthful(answer))'
  BY <1>0, <1>1 DEF DataCall, Truthful
<1> QED
  BY <1>1, <1>2, <1>3, RowsCallerStep DEF DataCall

\* The error of a statement is answered as a failure.
LEMMA CodesAreFailures ==
  ASSUME NEW error
  PROVE  CodeOf(error) \in {"denied", "bad", "backend"}
BY DEF CodeOf

\* A row of an entity of the app is inserted under a new id, or the call fails.
LEMMA InsertKeepsRows ==
  ASSUME SandboxInv, RowsInv, NEW c \in Callers, Insert(c)
  PROVE  RowsInv'
<1> DEFINE ask == run[c].ask
           after == InsertRow(db, Id(next + 1), ask.ent, Completed(Fields(ask.ent), Known(ask)))
<1>0. /\ next \in Nat /\ Sound(db, next) /\ ask.ent \in DOMAIN App
      /\ run[c].pc = "check" /\ functions' = functions
  BY DEF Insert, RowsInv, DataCall, Asked
<1>1. CASE StatementError(after) = "none"
  <2>1. Commit(c, after, Id(next + 1)) /\ next' = next + 1 /\ db' = after
    BY <1>1 DEF Insert, Commit
  <2>2. Sound(after, next + 1) /\ DOMAIN after = DOMAIN db \cup {Id(next + 1)}
    BY <1>0, <1>1, InsertIsSound
  <2>3. Id(next + 1) \notin DOMAIN db
    BY <1>0, NextIdIsNew DEF Sound
  <2> HIDE DEF after
  <2>4. after # db
    BY <2>2, <2>3
  <2>5. (next \in Nat /\ Sound(db, next))'
    BY <1>0, <2>1, <2>2
  <2> QED
    BY <1>0, <2>1, <2>4, <2>5, RowsCommitStep
<1>2. CASE StatementError(after) # "none"
  <2>1. Fail(c, CodeOf(StatementError(after))) /\ UNCHANGED <<db, next, functions>>
    BY <1>2 DEF Insert
  <2> QED
    BY <1>0, <2>1, CodesAreFailures, RowsFailStep
<1> QED
  BY <1>1, <1>2

\* The row is updated, or was gone, or the call fails.
LEMMA UpdateKeepsRows ==
  ASSUME SandboxInv, RowsInv, NEW c \in Callers, Update(c)
  PROVE  RowsInv'
<1> DEFINE ask == run[c].ask
           after == UpdateRow(db, ask.ent, ask.id, Known(ask))
<1>0. /\ next \in Nat /\ Sound(db, next) /\ ask.op = "update"
      /\ run[c].pc = "check" /\ next' = next /\ functions' = functions
  BY DEF Update, RowsInv
<1>1. CASE StatementError(after) = "none"
  <2>1. Commit(c, after, ask.id) /\ db' = after
    BY <1>1 DEF Update, Commit
  <2>2. Sound(after, next)
    BY <1>0, <1>1, UpdateIsSound
  <2> HIDE DEF after
  <2>3. (next \in Nat /\ Sound(db, next))'
    BY <1>0, <2>1, <2>2
  <2> QED
    BY <1>0, <2>1, <2>3, RowsCommitStep
<1>2. CASE StatementError(after) # "none"
  <2>1. Fail(c, CodeOf(StatementError(after))) /\ UNCHANGED <<db, next, functions>>
    BY <1>2 DEF Update
  <2> QED
    BY <1>0, <2>1, CodesAreFailures, RowsFailStep
<1> QED
  BY <1>1, <1>2

\* The answer tells whether there was a row to delete, or why it stays.
LEMMA DeleteKeepsRows ==
  ASSUME SandboxInv, RowsInv, NEW c \in Callers, Delete(c)
  PROVE  RowsInv'
<1> DEFINE ask == run[c].ask
           error == DeleteError(db, ask.ent, ask.id)
<1>0. /\ next \in Nat /\ Sound(db, next) /\ ask.op # "create" /\ ask.kind = "data"
      /\ run[c].pc = "delete" /\ next' = next /\ functions' = functions
  BY DEF Delete, RowsInv, DataCall, Asked
<1>1. CASE error = "none"
  <2>1. db' = DeleteRow(db, ask.ent, ask.id) /\ Finish(c, "ok", Affected(ask), db' # db)
    BY <1>1 DEF Delete
  <2>2. Sound(db', next) /\ (db' # db <=> Exists(db, ask.ent, ask.id))
    BY <1>0, <1>1, <2>1, DeleteIsSound
  <2>3. Affected(ask) # {} <=> Exists(db, ask.ent, ask.id)
    BY DEF Affected
  <2>4. PICK written \in BOOLEAN : written <=> db' # db
    OBVIOUS
  <2>5. Finish(c, "ok", Affected(ask), written)
    <3>1. CASE written
      BY <2>1, <2>4, <3>1
    <3>2. CASE ~written
      BY <2>1, <2>4, <3>2
    <3> QED
      BY <3>1, <3>2
  <2>6. (next \in Nat /\ Sound(db, next))'
    BY <1>0, <2>2
  <2> QED
    BY <1>0, <2>2, <2>3, <2>4, <2>5, <2>6, RowsFinishStep
<1>2. CASE error # "none"
  <2>1. Fail(c, CodeOf(error)) /\ UNCHANGED <<db, next, functions>>
    BY <1>2 DEF Delete
  <2> QED
    BY <1>0, <2>1, CodesAreFailures, RowsFailStep
<1> QED
  BY <1>1, <1>2

\* Answers that tell of no write of theirs, and the one of a write before.
LEMMA AnswerKeepsRows ==
  ASSUME SandboxInv, RowsInv, NEW c \in Callers, Provider(c) \/ Reread(c) \/ Read(c)
  PROVE  RowsInv'
<1>0. DataCall(c) /\ UNCHANGED <<db, next, functions>>
  BY DEF RowsInv, Provider, Reread, Read
<1>1. CASE Provider(c)
  BY <1>0, <1>1, RowsKept, RowsFinishStep DEF Provider, DataCall, Asked
<1>2. CASE Read(c)
  BY <1>0, <1>2, RowsKept, RowsFinishStep DEF Read, DataCall, Asked
<1>3. CASE Reread(c)
  <2>1. run[c].pc = "reread" /\ run[c].ask.op \in {"create", "update"}
    BY <1>0, <1>3 DEF Reread, DataCall, Asked
  <2> QED
    BY <1>0, <1>3, <2>1, RowsKept, RowsFinishStep DEF Reread, DataCall, WritesLast
<1> QED
  BY <1>1, <1>2, <1>3

\* A statement that fails before the write leaves the rows as they were; a read-back that
\* fails leaves what was written.
LEMMA StatementFailsKeepsRows ==
  ASSUME SandboxInv, RowsInv, NEW c \in Callers, StatementFails(c)
  PROVE  RowsInv'
<1>1. /\ run[c].pc \in {"check", "select", "delete", "reread"}
      /\ UNCHANGED <<db, next, functions>>
  BY DEF StatementFails
<1>2. PICK code \in {"bad", "backend"} : Fail(c, code) /\ (run[c].pc = "reread" => code = "backend")
  BY DEF StatementFails
<1> QED
  BY <1>1, <1>2, RowsFailStep

\* A new version of the manifest is one of them; a new file touches no row.
LEMMA OutsideKeepsRows ==
  ASSUME RowsInv, Upgrade \/ ReplaceFile \/ UNCHANGED vars
  PROVE  RowsInv'
<1>1. run' = run /\ db' = db /\ next' = next /\ functions' \in Manifests
  BY DEF Upgrade, ReplaceFile, vars, RowsInv
<1> QED
  BY <1>1 DEF RowsInv, DataCall, Asked, WritesLast, Declared, Truthful

\* With the invariants above, this one is inductive.
LEMMA RowsInvInductive == SandboxInv /\ ConsentInv /\ RowsInv /\ [Next]_vars => RowsInv'
<1> SUFFICES ASSUME SandboxInv, ConsentInv, RowsInv, [Next]_vars
             PROVE  RowsInv'
  OBVIOUS
<1>1. CASE Upgrade \/ ReplaceFile \/ UNCHANGED vars
  BY <1>1, OutsideKeepsRows
<1>2. ASSUME NEW c \in Callers, NEW f \in DOMAIN functions, Start(c, f)
      PROVE  RowsInv'
  BY <1>2, StartKeepsRows
<1>3. ASSUME NEW c \in Callers, Host(c)
      PROVE  RowsInv'
  BY <1>3, QuietKeepsRows, GateKeepsRows, CheckKeepsRows, InsertKeepsRows, UpdateKeepsRows,
     DeleteKeepsRows, AnswerKeepsRows DEF Host, DataStep
<1>4. ASSUME NEW c \in Callers, Guest(c)
      PROVE  RowsInv'
  BY <1>4, QuietKeepsRows DEF Guest
<1>5. ASSUME NEW c \in Callers, Provider(c)
      PROVE  RowsInv'
  BY <1>5, AnswerKeepsRows
<1>6. ASSUME NEW c \in Callers, StatementFails(c)
      PROVE  RowsInv'
  BY <1>6, StatementFailsKeepsRows
<1> QED
  BY <1>1, <1>2, <1>3, <1>4, <1>5, <1>6 DEF Next

\* In every state.
LEMMA RowsInvHolds == Spec => []RowsInv
BY InitRowsInv, RowsInvInductive, InitConsentInv, ConsentInvInductive, InitSandboxInv,
   SandboxInvInductive, PTL DEF Spec

\* Functions, however many and whatever they ask, keep the app's constraints: what the
\* reference checks saw may be gone, the statements look again (data.go:137-151).
THEOREM FunctionsKeepConstraints == Spec => []RowsHold
<1>1. RowsInv => RowsHold
  BY DEF RowsInv, Sound, Constrained, RowsHold
<1> QED
  BY <1>1, RowsInvHolds, PTL

\* A guest is told what happened, whatever others did between its call's statements
\* and whichever of them fails (data.go:35-38, 217-219): only a create or update told
\* as a backend error may have written, when its read-back failed.
THEOREM GuestsAreToldTheTruth == Spec => []AnswersTruthful
<1>1. RowsInv => AnswersTruthful
  BY DEF RowsInv, DataCall, Truthful, AnswersTruthful
<1> QED
  BY <1>1, RowsInvHolds, PTL
=============================================================================
