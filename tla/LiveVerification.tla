-------------------------- MODULE LiveVerification --------------------------
(***************************************************************************)
(* One live verification in the trusted bridge: the executor of a claimed  *)
(* request (deployment/live_bridge.py), the model's candidate              *)
(* (deployment/model_candidate.py), the worker that runs the witness in    *)
(* three worlds (verifier/trust_bridge.py, verifier/sandbox.py,            *)
(* causal/materializer.py) and, under it, the sandbox adapter.             *)
(*                                                                         *)
(* Digests, signatures and texts are right or wrong, as the environment    *)
(* chooses.  LiveExecution models what becomes of the claim when requests  *)
(* are repeated; here one request is followed to the end.                  *)
(***************************************************************************)
EXTENDS SandboxAdapter

CONSTANT MaxAttempts  \* model calls for one candidate (three in the code)

ASSUME AttemptsAssumption == MaxAttempts \in Nat \ {0}

VARIABLES
    phase,     \* where the request stands
    grounded,  \* whether client, adapter, worker and signer are the real ones
    model,     \* model calls: sent, and counted in what the executor tells
    at,        \* the worker's place in its Program
    box,       \* the sandbox of each world, 0 before it has one
    did,       \* the operation of each step of each world, 0 for none
    outcome,   \* what the witness showed in each world
    raised,    \* the error a world ended with
    result,    \* the executor's result
    reply      \* the HTTP status, and the state of the claim

worker == <<at, box, did, outcome, raised>>
bridge == <<phase, grounded, model, worker, result, reply>>
vars == <<adapter, bridge>>

Worlds == {"BASE", "CANDIDATE", "COUNTERFACTUAL"}
Commands == {"clone", "apply", "deploy", "witness"}

Program ==
    << <<"BASE", "create">>, <<"BASE", "clone">>, <<"BASE", "deploy">>,
       <<"BASE", "witness">>, <<"BASE", "teardown">>,
       <<"CANDIDATE", "create">>, <<"CANDIDATE", "clone">>, <<"CANDIDATE", "apply">>,
       <<"CANDIDATE", "deploy">>, <<"CANDIDATE", "witness">>, <<"CANDIDATE", "teardown">>,
       <<"COUNTERFACTUAL", "create">>, <<"COUNTERFACTUAL", "clone">>,
       <<"COUNTERFACTUAL", "apply">>, <<"COUNTERFACTUAL", "deploy">>,
       <<"COUNTERFACTUAL", "witness">>, <<"COUNTERFACTUAL", "teardown">> >>

World == Program[at][1]
Step == Program[at][2]
At(step) == phase = "work" /\ Step = step

\* The teardown that ends the present world.
EndOfWorld == CHOOSE i \in DOMAIN Program : Program[i] = <<World, "teardown">>

VerificationInit ==
    /\ AdapterInit
    /\ phase = "start" /\ grounded = FALSE /\ model = [sent |-> 0, counted |-> 0]
    /\ at = 1 /\ box = [w \in Worlds |-> 0] /\ raised = None
    /\ did = [w \in Worlds |-> [c \in Commands |-> 0]]
    /\ outcome = [w \in Worlds |-> None]
    /\ result = None /\ reply = [code |-> None, claim |-> "IN_PROGRESS"]

\* Fault: a result that is not a receipt tells of no model calls.
FaultReturn(status, verdict) ==
    /\ result' = [status |-> status, verdict |-> verdict, operations |-> live',
                  calls |-> IF status = "COMPLETED" THEN model'.counted ELSE 0]
    /\ phase' = "respond"


\* The executor returns: with every operation the adapter has seen end.
Return(status, verdict) ==
    /\ result' = [status |-> status, verdict |-> verdict, operations |-> live',
                  calls |-> model'.counted]
    /\ phase' = "respond"

-----------------------------------------------------------------------------
(* The request, and the candidate. *)

\* Without its real parts the executor takes a fixture for the candidate.
Ground ==
    /\ phase = "start"
    /\ \E real \in BOOLEAN :
           /\ grounded' = real
           /\ phase' = IF real THEN "generate" ELSE "prepare"
    /\ UNCHANGED <<adapter, model, worker, result, reply>>

\* The files of the commit cannot be read, or the request names no source: the
\* handler of the exception fails itself, on a variable that is not yet set.
Collapse ==
    /\ phase = "start"
    /\ grounded' = TRUE /\ phase' = "done"
    /\ UNCHANGED <<adapter, model, worker, result, reply>>

Ask ==
    /\ UNCHANGED <<adapter, grounded, worker, reply>>
    /\ phase = "generate"
    /\ model' = [sent |-> model.sent + 1, counted |-> model.sent + 1]

\* A proposal that passes every check becomes the candidate.
AnswerTaken == Ask /\ phase' = "prepare" /\ UNCHANGED result

\* One that is empty or does not validate is sent back with what was wrong.
AnswerInvalid == Ask /\ model.sent + 1 < MaxAttempts /\ UNCHANGED <<phase, result>>

\* The call fails after it was sent, the response is unusable, or the last
\* proposal is invalid, too.
GenerationFails == Ask /\ Return("GENERATION_FAILED", None)

\* The client refuses the request before it is sent; then none counts.
RefuseToAsk ==
    /\ UNCHANGED <<adapter, grounded, worker, reply>>
    /\ phase = "generate"
    /\ model' = [model EXCEPT !.counted = 0]
    /\ Return("GENERATION_FAILED", None)

\* The tree of the candidate, the sealed witness, its lock, the plan.  The
\* worker runs nothing for a fixture.
Prepare ==
    /\ UNCHANGED <<adapter, grounded, model, worker, reply>>
    /\ phase = "prepare"
    /\ \/ grounded /\ phase' = "work" /\ UNCHANGED result
       \/ ~grounded /\ Return("BLOCKED", None)
       \/ Return("FAILED", None)

-----------------------------------------------------------------------------
(* The worker. *)

CreateStep ==
    /\ At("create") /\ CreateSandbox
    /\ box' = [box EXCEPT ![World] = Len(handles')] /\ at' = at + 1
    /\ UNCHANGED <<phase, grounded, model, did, outcome, raised, result, reply>>

\* Fault: the candidate is applied in a machine that is thrown away.
FaultKeeps == Step # "apply"


\* Every command keeps the image of its machine for the next.
Keeps == TRUE

CommandStep ==
    /\ phase = "work" /\ Step \in Commands /\ answer = None
    /\ Execute(box[World], Keeps)
    /\ UNCHANGED bridge

\* What a raised error, or a result that will not do, means to the worker.  A
\* counterfactual that cannot be built is a finding of the run.
Severity(how) ==
    CASE World = "COUNTERFACTUAL" /\ Step = "clone" -> "invalid"
      [] World = "COUNTERFACTUAL" /\ Step = "apply" /\ how = "returned" -> "invalid"
      [] how = "ambiguous" -> "ambiguous"
      [] OTHER -> "definite"

GoesWrong(how) ==
    /\ Step # "witness"
    /\ raised' = Severity(how) /\ at' = EndOfWorld
    /\ UNCHANGED <<did, outcome>>

\* The code of a command says that it worked; for a checkout and a candidate,
\* the commit and the tree must be the expected ones, too.
GoesWell(op) ==
    /\ Step # "witness" /\ operations[op].exit = 0
    /\ did' = [did EXCEPT ![World][Step] = op] /\ at' = at + 1
    /\ UNCHANGED <<outcome, raised>>

\* PASS or FAIL by the witness's exit code, but ERROR, which stands for every
\* other outcome, when it could not be collected.  Without an exit code the
\* text decides: that something failed, or nothing.
Shown(exit) ==
    CASE exit = 0 -> {"PASS", "ERROR"}
      [] exit = 1 -> {"FAIL", "ERROR"}
      [] exit = None -> {"FAIL", "ERROR"}

\* A witness command that raises has shown its exception's text.
Witnessed(op) ==
    /\ Step = "witness"
    /\ \E o \in Shown(IF op = 0 THEN None ELSE operations[op].exit) :
           outcome' = [outcome EXCEPT ![World] = o]
    /\ did' = [did EXCEPT ![World][Step] = op] /\ at' = at + 1
    /\ UNCHANGED raised

TakeAnswer ==
    /\ phase = "work" /\ answer # None /\ answer' = None
    /\ \/ Witnessed(answer.op)
       \/ answer.how = "returned" /\ GoesWell(answer.op)
       \/ answer.how = "returned" /\ Step \in {"clone", "apply"} /\ GoesWrong("returned")
       \/ answer.how = "returned" /\ operations[answer.op].exit # 0 /\ GoesWrong("returned")
       \/ answer.how # "returned" /\ GoesWrong(answer.how)
    /\ UNCHANGED <<handles, operations, call, live, faults>>
    /\ UNCHANGED <<phase, grounded, model, box, result, reply>>

\* Fault: only a world that went well is torn down.
FaultTeardownStep ==
    /\ UNCHANGED <<grounded, model, box, did, outcome, raised, reply>>
    /\ At("teardown")
    /\ IF raised = None THEN Teardown(box[World], FALSE) ELSE UNCHANGED adapter
    /\ \/ raised \in {None, "invalid"} /\ at < Len(Program) /\ at' = at + 1
          /\ UNCHANGED <<phase, result>>
       \/ raised \in {None, "invalid"} /\ at = Len(Program) /\ phase' = "conclude"
          /\ UNCHANGED <<at, result>>
       \/ raised = "ambiguous" /\ Return("UNKNOWN_OUTCOME", None) /\ UNCHANGED at
       \/ raised = "definite" /\ Return("FAILED", None) /\ UNCHANGED at


\* Fault: tried again until the sandbox is disposed of.
FaultTeardownAgain ==
    /\ UNCHANGED <<grounded, model, box, did, outcome, raised, reply>>
    /\ At("teardown") /\ Teardown(box[World], FALSE)
    /\ IF handles'[box[World]].state # "DISPOSED" THEN UNCHANGED <<at, phase, result>>
       ELSE \/ raised \in {None, "invalid"} /\ at < Len(Program) /\ at' = at + 1
               /\ UNCHANGED <<phase, result>>
            \/ raised \in {None, "invalid"} /\ at = Len(Program) /\ phase' = "conclude"
               /\ UNCHANGED <<at, result>>
            \/ raised = "ambiguous" /\ Return("UNKNOWN_OUTCOME", None) /\ UNCHANGED at
            \/ raised = "definite" /\ Return("FAILED", None) /\ UNCHANGED at


\* Tried once, whatever comes of it; then the error of the world goes on.
TeardownStep ==
    /\ UNCHANGED <<grounded, model, box, did, outcome, raised, reply>>
    /\ At("teardown") /\ Teardown(box[World], FALSE)
    /\ \/ raised \in {None, "invalid"} /\ at < Len(Program) /\ at' = at + 1
          /\ UNCHANGED <<phase, result>>
       \/ raised \in {None, "invalid"} /\ at = Len(Program) /\ phase' = "conclude"
          /\ UNCHANGED <<at, result>>
       \/ raised = "ambiguous" /\ Return("UNKNOWN_OUTCOME", None) /\ UNCHANGED at
       \/ raised = "definite" /\ Return("FAILED", None) /\ UNCHANGED at

\* The reconciliation verifies FAIL, PASS, FAIL, unless the witness is vacuous
\* or two trees are the same.
Verified ==
    <<outcome["BASE"], outcome["CANDIDATE"], outcome["COUNTERFACTUAL"]>>
        = <<"FAIL", "PASS", "FAIL">>

\* What is left to do, the public receipt among it, may fail.
Conclude ==
    /\ UNCHANGED <<adapter, grounded, model, worker, reply>>
    /\ phase = "conclude"
    /\ \/ Verified /\ Return("COMPLETED", "VERIFIED")
       \/ Return("COMPLETED", "OTHER")
       \/ Return("FAILED", None)

-----------------------------------------------------------------------------
(* The answer. *)

\* The receipt holds together: what it verifies passed in the candidate only.
Consistent ==
    result.verdict = "VERIFIED" =>
        {w \in Worlds : outcome[w] = "PASS"} = {"CANDIDATE"}

\* Its attestation has the signature of the pinned key, which only a grounded
\* executor holds, over two different sandboxes.
Attested == grounded /\ box["BASE"] # box["CANDIDATE"]

\* It names the operations, and each of its worlds had a sandbox to itself.
Isolated ==
    /\ result.operations # <<>>
    /\ \A v, w \in Worlds : outcome[v] # None /\ outcome[w] # None /\ box[v] = box[w] => v = w

\* Integrity and authority, checked again by the bridge.
Certified == result.status = "COMPLETED" /\ Consistent /\ Attested /\ Isolated

Code == IF result.status = "UNKNOWN_OUTCOME" THEN {502}
        ELSE IF result.status # "COMPLETED" THEN {503}
        ELSE IF Certified THEN {201, 502} ELSE {502}

\* A claim that cannot be settled stays as it is.
Respond ==
    /\ phase = "respond" /\ phase' = "done"
    /\ \/ /\ \E c \in Code : reply' = [code |-> c, claim |->
                 IF result.status = "UNKNOWN_OUTCOME" THEN "AMBIGUOUS" ELSE "COMPLETED"]
          /\ UNCHANGED faults
       \/ Fault /\ reply' = [reply EXCEPT !.code = 502]
    /\ UNCHANGED <<handles, operations, call, answer, live>>
    /\ UNCHANGED <<grounded, model, worker, result>>

Bridge ==
    \/ Ground \/ Collapse
    \/ AnswerTaken \/ AnswerInvalid \/ GenerationFails \/ RefuseToAsk \/ Prepare
    \/ CreateStep \/ CommandStep \/ TakeAnswer \/ TeardownStep
    \/ (PollEnded \/ PollFails \/ ClientTimeout) /\ UNCHANGED bridge
    \/ Conclude \/ Respond

Next == Bridge \/ (Provider /\ UNCHANGED bridge)

\* The thread of the request runs, and so does its clock.
Spec == VerificationInit /\ [][Next]_vars /\ WF_vars(Bridge)

-----------------------------------------------------------------------------
(* Properties. *)

\* A receipt that was certified speaks of genuine components, and what it says
\* of a world was shown by a machine that held the checkout, the candidate and
\* the witness of that world, and nothing else (trust_bridge.py:1168-1262,
\* live_bridge.py:1021-1187).
CertifiedWorlds ==
    reply.code = 201 =>
        /\ grounded
        /\ \A w \in Worlds :
               LET i == did[w]["witness"]
                   before == {did[w][c] : c \in Commands \ {"witness"}} \ {0}
               IN  i # 0 =>
                   /\ operations[i].from = before
                   /\ Cardinality(before) = IF w = "BASE" THEN 2 ELSE 3
                   /\ outcome[w] = "PASS" => operations[i].exit = 0

\* Whatever went wrong in whatever world, what still runs when the request is
\* over is an operation whose name never arrived or whose cancellation was not
\* confirmed; and no sandbox is left that could have been disposed of
\* (verifier/sandbox.py:694-706, trust_bridge.py:1168-1262).
NothingLeftRunning ==
    phase = "done" =>
        /\ \A i \in Running : ~operations[i].told \/ operations[i].unheard
        /\ \A s \in DOMAIN handles : handles[s].state \in {"RUNNING", "DISPOSED"}

\* "Outer failure handlers retain all already-observed generation facts rather
\* than resetting them" (live_bridge.py:1268): whichever way an executor
\* returns, it tells of all operations that were seen to end and, once there is
\* a candidate, of all model calls.
AccountingSurvives ==
    result # None =>
        /\ \A i \in DOMAIN operations :
               (operations[i].seen /\ operations[i].exit # None)
                   <=> (\E k \in DOMAIN result.operations : result.operations[k] = i)
        /\ result.status # "GENERATION_FAILED" => result.calls = model.sent

\* Every request that was begun is over at last, whatever hangs or is lost.
RunIsAnswered == <>(phase = "done")
=============================================================================
