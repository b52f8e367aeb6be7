--------------------------- MODULE SandboxAdapter ---------------------------
(***************************************************************************)
(* The Nebius sandbox adapter (adapters/nebius/sandbox.py).  A sandbox is  *)
(* a handle in the caller's process: each command is an operation of its   *)
(* own at the provider, on the image the last successful one left, and the *)
(* adapter polls it until it ends.  Any request may fail, before or after  *)
(* it has taken effect; one that starts a command may also take effect     *)
(* long after its caller has given it up.                                  *)
(*                                                                         *)
(* One call at a time, as its callers make them.  Sandboxes and operations *)
(* are named by their places in the order of creation and of sending; an   *)
(* image is the set of operations whose effects it holds.                  *)
(***************************************************************************)
EXTENDS Integers, Sequences, FiniteSets

CONSTANTS
    MaxSandboxes,   \* bound: handles created
    MaxOperations,  \* bound: commands sent
    MaxFaults,      \* bound: requests that fail
    Ends,           \* how operations may end: <<status, exit code>>
    None

ASSUME AdapterBounds ==
    /\ {MaxSandboxes, MaxOperations, MaxFaults} \subseteq Nat
    /\ Ends \subseteq ({"SUCCESS"} \X {0, 1}) \cup ({"FAILED"} \X {1, None})
                     \cup {<<"TIMEOUT", None>>}
    /\ None \notin Nat \cup [sandbox : Nat, op : Nat]
                      \cup [how : {"returned", "ambiguous", "definite"}, op : Nat]

VARIABLES
    handles,     \* the handles, in order of creation
    operations,  \* the operations asked of the provider, in order of sending
    call,        \* the command being polled, or None
    answer,      \* what the last command returned or raised, or None
    live,        \* operations counted as executed live, oldest first
    faults

adapter == <<handles, operations, call, answer, live, faults>>

\* A handle keeps the last operation it was told of and the image of the last
\* that succeeded, which is the operations it was made by; `checked' is set when
\* its disposal was verified with the provider.
NewHandle == [state |-> "CREATED", op |-> None, image |-> {}, checked |-> FALSE]

\* `told': the adapter learned the operation's name; `seen': it saw it end;
\* `unheard': it last asked to cancel it and had no confirmation.  An operation it was
\* not told of is only on its way: it may reach the provider at any time, or never;
\* `late' after the disposal of its sandbox was verified.
NewOperation(s, image, keeps, told) ==
    [sandbox |-> s, from |-> image, keeps |-> keeps,
     status |-> IF told THEN "RUNNING" ELSE "SENT", exit |-> None,
     told |-> told, seen |-> FALSE, unheard |-> FALSE, late |-> FALSE]

Terminal == {"SUCCESS", "FAILED", "TIMEOUT", "CANCELLED"}

\* A call returns the result of an operation, or raises: `ambiguous' for a
\* timeout or a transport error, `definite' for any other.
Returned(op) == answer' = [how |-> "returned", op |-> op]

Running == {i \in DOMAIN operations : operations[i].status = "RUNNING"}

Fault == faults < MaxFaults /\ faults' = faults + 1

Raise(how) == answer' = [how |-> how, op |-> 0]

-----------------------------------------------------------------------------

AdapterInit ==
    /\ handles = <<>> /\ operations = <<>> /\ call = None /\ answer = None
    /\ live = <<>> /\ faults = 0

\* Nothing is asked of the provider yet.
CreateSandbox ==
    /\ call = None /\ Len(handles) < MaxSandboxes
    /\ handles' = Append(handles, NewHandle)
    /\ UNCHANGED <<operations, call, answer, live, faults>>

\* Sandbox 0 stands for a command on an image, without a handle.
Mark(s, state, op) ==
    handles' = IF s = 0 THEN handles
               ELSE [handles EXCEPT ![s].state = state, ![s].op = op]

LastOp(s) == IF s = 0 THEN None ELSE handles[s].op

Send(s, keeps, told) ==
    operations' = Append(operations,
        NewOperation(s, IF s = 0 THEN {} ELSE handles[s].image, keeps, told))

MayExecute(s) ==
    /\ call = None /\ Len(operations) < MaxOperations
    /\ s # 0 => handles[s].state # "DISPOSED"

\* The one POST is answered with the operation's name.
Spawn(s, keeps) ==
    LET op == Len(operations) + 1 IN
    /\ MayExecute(s)
    /\ Send(s, keeps, TRUE)
    /\ Mark(s, "RUNNING", op)
    /\ call' = [sandbox |-> s, op |-> op] /\ answer' = None
    /\ UNCHANGED <<live, faults>>

\* It is not: it never arrives, is refused, or arrives, now or when its caller has
\* long timed out, and its answer is lost or unreadable.  The handle counts as
\* running all the same, with its old name.
SpawnFails(s, keeps) ==
    /\ MayExecute(s) /\ Fault
    /\ Send(s, keeps, FALSE)
    /\ Mark(s, "RUNNING", LastOp(s))
    /\ \E how \in {"ambiguous", "definite"} : Raise(how)
    /\ UNCHANGED <<call, live>>

Execute(s, keeps) == Spawn(s, keeps) \/ SpawnFails(s, keeps)

\* The provider: a request that was given up reaches it after all.
Deliver(i) ==
    /\ operations[i].status = "SENT"
    /\ operations' = [operations EXCEPT
           ![i].status = "RUNNING",
           ![i].late = operations[i].sandbox # 0 /\ handles[operations[i].sandbox].checked]
    /\ UNCHANGED <<handles, call, answer, live, faults>>

\* An operation ends by itself.
Finish(i, end) ==
    /\ i \in Running
    /\ operations' = [operations EXCEPT ![i].status = end[1], ![i].exit = end[2]]
    /\ UNCHANGED <<handles, call, answer, live, faults>>

\* Fault: the image of the last command is kept, whatever became of it.
FaultPollEnded ==
    LET op == operations[call.op]
        state == IF op.status = "SUCCESS" THEN "COMPLETED" ELSE "FAILED"
    IN
    /\ call # None /\ op.status \in Terminal
    /\ operations' = [operations EXCEPT ![call.op].seen = TRUE]
    /\ handles' = IF call.sandbox = 0 THEN handles
                  ELSE [handles EXCEPT ![call.sandbox].state = state,
                                       ![call.sandbox].image = {call.op}]
    /\ live' = IF op.exit # None THEN Append(live, call.op) ELSE live
    /\ Returned(call.op) /\ call' = None
    /\ UNCHANGED faults


PollEnded ==
    LET op == operations[call.op]
        s == call.sandbox
        image == IF op.status = "SUCCESS" /\ op.keeps THEN op.from \cup {call.op}
                 ELSE handles[s].image
        state == IF op.status = "SUCCESS" THEN "COMPLETED" ELSE "FAILED"
    IN
    /\ call # None /\ op.status \in Terminal
    /\ operations' = [operations EXCEPT ![call.op].seen = TRUE]
    /\ handles' = IF s = 0 THEN handles
                  ELSE [handles EXCEPT ![s].state = state, ![s].image = image]
    /\ live' = IF op.exit # None THEN Append(live, call.op) ELSE live
    /\ Returned(call.op) /\ call' = None
    /\ UNCHANGED faults

\* A poll that fails, or cannot be read, ends the call, not the operation.
PollFails ==
    /\ call # None /\ Fault
    /\ \E how \in {"ambiguous", "definite"} : Raise(how)
    /\ call' = None
    /\ UNCHANGED <<handles, operations, live>>

\* A DELETE that is confirmed has ended the operation; one that is not may have.
Cancelled(i, confirmed) ==
    LET stop == [operations EXCEPT ![i].status = IF @ = "RUNNING" THEN "CANCELLED" ELSE @,
                                   ![i].unheard = ~confirmed]
    IN  \/ operations' = stop
        \/ ~confirmed /\ operations' = [operations EXCEPT ![i].unheard = TRUE]

\* The budget of the command and ten seconds more are over; whether the
\* operation could be cancelled makes no difference.
ClientTimeout ==
    /\ call # None /\ call.op \in Running
    /\ \/ Cancelled(call.op, TRUE) /\ UNCHANGED faults
       \/ Cancelled(call.op, FALSE) /\ Fault
    /\ Mark(call.sandbox, "FAILED", LastOp(call.sandbox))
    /\ Raise("ambiguous") /\ call' = None
    /\ UNCHANGED live

\* Fault: what the provider still runs is asked for and not looked at.
FaultDispose(s, verify) ==
    handles' = [handles EXCEPT ![s].state = "DISPOSED", ![s].checked = verify]


\* With verification, only when the provider reports no running instance at all.
Dispose(s, verify) ==
    IF verify /\ \E i \in DOMAIN operations' : operations'[i].status = "RUNNING"
    THEN UNCHANGED handles
    ELSE handles' = [handles EXCEPT ![s].state = "DISPOSED", ![s].checked = verify]

\* A running sandbox has its last known operation cancelled first.
TeardownRunning(s, verify) ==
    /\ handles[s].state = "RUNNING" /\ handles[s].op # None
    /\ \/ Cancelled(handles[s].op, TRUE) /\ Dispose(s, verify) /\ UNCHANGED faults
       \/ Cancelled(handles[s].op, FALSE) /\ UNCHANGED handles /\ Fault

\* A running sandbox whose operation has no name cannot be torn down.
TeardownRefused(s) ==
    /\ handles[s].state = "RUNNING" /\ handles[s].op = None
    /\ UNCHANGED <<handles, operations, faults>>

TeardownIdle(s, verify) ==
    /\ handles[s].state \in {"CREATED", "COMPLETED", "FAILED"}
    /\ UNCHANGED operations
    /\ \/ Dispose(s, verify) /\ UNCHANGED faults
       \/ verify /\ Fault /\ UNCHANGED handles

Teardown(s, verify) ==
    /\ call = None
    /\ TeardownRunning(s, verify) \/ TeardownRefused(s) \/ TeardownIdle(s, verify)
    /\ UNCHANGED <<call, answer, live>>

Provider ==
    \E i \in DOMAIN operations : Deliver(i) \/ \E end \in Ends : Finish(i, end)

\* Callers that do with their sandboxes what they please.
AdapterNext ==
    \/ CreateSandbox
    \/ \E s \in 0..Len(handles), keeps \in BOOLEAN : Execute(s, keeps)
    \/ PollEnded \/ PollFails \/ ClientTimeout
    \/ \E s \in DOMAIN handles, verify \in BOOLEAN : Teardown(s, verify)
    \/ Provider

AdapterSpec == AdapterInit /\ [][AdapterNext]_adapter

-----------------------------------------------------------------------------
(* Properties. *)

\* A sandbox that was disposed of with verification is at rest: no command that had
\* reached the provider by then runs in it, not one whose answer was lost, whose
\* poll failed or whose cancellation was not heard.  Only a request that was still
\* on its way, given up by its caller before, can run in it afterwards
\* (sandbox.py:997-1063, 910-921).
VerifiedMeansStopped ==
    \A s \in DOMAIN handles : handles[s].checked =>
        \A i \in Running : operations[i].sandbox = s =>
            operations[i].late /\ ~operations[i].told

\* A command starts from all that the successful commands of its sandbox whose
\* results were seen have left, and from nothing that failed
\* (sandbox.py:833, 947-955).
CommandsBuildOn ==
    \A j \in DOMAIN operations :
        LET o == operations[j] IN o.sandbox # 0 =>
            /\ \A i \in o.from : operations[i].status = "SUCCESS"
            /\ \A i \in 1..(j - 1) :
                   LET p == operations[i]
                   IN  p.sandbox = o.sandbox /\ p.seen /\ p.status = "SUCCESS" /\ p.keeps
                           => i \in o.from

=============================================================================
