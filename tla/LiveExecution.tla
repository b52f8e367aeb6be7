--------------------------- MODULE LiveExecution ---------------------------
(***************************************************************************)
(* A live run end to end: the worker's admission ledger, the dispatcher    *)
(* that sends the run to the trusted bridge (provider_dispatcher.js), the  *)
(* network between them, and the bridge's request handler with its durable *)
(* ExecutionIdempotencyStore (deployment/live_bridge.py).                  *)
(*                                                                         *)
(* The bridge serves each request in a thread of its own; threads share    *)
(* only the store, one file per request id (the run id).  The worker sends *)
(* one request per run; the network may deliver copies of it, late and in  *)
(* any order, as long as its signature is fresh.                           *)
(***************************************************************************)
EXTENDS AdmissionLedger

CONSTANTS
  Copies,       \* deliveries of one request
  Original      \* the one the worker waits for

ASSUME CopyAssumption == Original \in Copies

VARIABLES
  request,      \* by run and copy: where a delivery stands
  claim,        \* by run: the state of its file in the store
  cached,       \* by run: the response a COMPLETED file carries
  executed,     \* the runs whose executor was ever called
  reply         \* by run: the bridge's reply on its way to the worker

bridge == <<request, claim, cached, executed, reply>>
allVars == <<vars, bridge>>

RequestState == {"unsent", "sent", "executing", "answered"}
ClaimState == {"NONE", "IN_PROGRESS", "AMBIGUOUS", "COMPLETED"}

(* What the worker reads in a reply: a receipt; a failure after provider   *)
(* work may have started; ambiguous_outcome; or provider_dispatched =      *)
(* false, nothing was started.                                             *)
Final == {"completed", "failed"}
Reply == Final \cup {"unknown", "rejected"}

----------------------------------------------------------------------------
(* The dispatcher, inside the handler of a run.                            *)

(* Bridge URL, secret or transport are not configured.                     *)
RefuseToDispatch(r) ==
  /\ request[r][Original] = "unsent"
  /\ RecordExecutionFailure(r, FALSE, FALSE, Null)
  /\ UNCHANGED bridge

SendRequest(r) ==
  /\ handler[r] = "dispatching"
  /\ request[r][Original] = "unsent"
  /\ request' = [request EXCEPT ![r][Original] = "sent"]
  /\ UNCHANGED <<vars, claim, cached, executed, reply>>

FaultTransportUndispatched(r) ==
  /\ request[r][Original] # "unsent"
  /\ RecordExecutionFailure(r, FALSE, FALSE, Null)
  /\ UNCHANGED bridge

(* fetch throws; the request may be anywhere.                              *)
TransportFails(r) ==
  /\ request[r][Original] # "unsent"
  /\ RecordExecutionFailure(r, TRUE, TRUE, Null)
  /\ UNCHANGED bridge

(* A receipt whose proof does not verify is a failure after dispatch.  The *)
(* bridge never reports a measured cost.                                   *)
RecordReply(r) ==
  /\ reply[r] # "none"
  /\ \/ reply[r] = "completed" /\ RecordExecutionSuccess(r, Null)
     \/ RecordExecutionFailure(r, reply[r] = "unknown", reply[r] # "rejected", Null)
  /\ UNCHANGED bridge

----------------------------------------------------------------------------
(* The network and the bridge.                                             *)

Duplicate(r, i) ==
  /\ request[r][Original] # "unsent"
  /\ request[r][i] = "unsent"
  /\ request' = [request EXCEPT ![r][i] = "sent"]
  /\ UNCHANGED <<vars, claim, cached, executed, reply>>

Answer(r, i, x) ==
  /\ request' = [request EXCEPT ![r][i] = "answered"]
  /\ reply' = IF i = Original THEN [reply EXCEPT ![r] = x] ELSE reply

(* Any refusal before the claim is made, or when its file cannot be read:  *)
(* authentication, validation, an expired deadline, live disabled, missing *)
(* authority, no durable store.                                            *)
Reject(r, i) ==
  /\ request[r][i] = "sent"
  /\ Answer(r, i, "rejected")
  /\ UNCHANGED <<vars, claim, cached, executed>>

(* O_CREAT | O_EXCL created the file, writing it failed.                   *)
ClaimNotPersisted(r, i) ==
  /\ request[r][i] = "sent" /\ claim[r] = "NONE"
  /\ claim' = [claim EXCEPT ![r] = "IN_PROGRESS"]
  /\ Answer(r, i, "rejected")
  /\ UNCHANGED <<vars, cached, executed>>

FaultExecuteAmbiguousAgain(r, i) ==
  /\ request[r][i] = "sent" /\ claim[r] \in {"NONE", "AMBIGUOUS"}
  /\ claim' = [claim EXCEPT ![r] = "IN_PROGRESS"]
  /\ request' = [request EXCEPT ![r][i] = "executing"]
  /\ executed' = executed \cup {r}
  /\ UNCHANGED <<vars, cached, reply>>

Execute(r, i) ==
  /\ request[r][i] = "sent" /\ claim[r] = "NONE"
  /\ claim' = [claim EXCEPT ![r] = "IN_PROGRESS"]
  /\ request' = [request EXCEPT ![r][i] = "executing"]
  /\ executed' = executed \cup {r}
  /\ UNCHANGED <<vars, cached, reply>>

AnswerFromClaim(r, i) ==
  /\ request[r][i] = "sent" /\ claim[r] # "NONE"
  /\ Answer(r, i, IF claim[r] = "COMPLETED" THEN cached[r] ELSE "unknown")
  /\ UNCHANGED <<vars, claim, cached, executed>>

Finish(r, i, x) ==
  /\ request[r][i] = "executing"
  /\ IF x = "unknown"
     THEN /\ claim' = [claim EXCEPT ![r] = "AMBIGUOUS"]
          /\ UNCHANGED cached
     ELSE /\ claim' = [claim EXCEPT ![r] = "COMPLETED"]
          /\ cached' = [cached EXCEPT ![r] = x]
  /\ Answer(r, i, x)
  /\ UNCHANGED <<vars, executed>>

FaultUnpersistedCompletes(r, i) ==
  /\ request[r][i] = "executing"
  /\ Answer(r, i, "completed")
  /\ UNCHANGED <<vars, claim, cached, executed>>

(* The outcome cannot be written: the claim stays IN_PROGRESS.             *)
FinishUnpersisted(r, i) ==
  /\ request[r][i] = "executing"
  /\ Answer(r, i, "unknown")
  /\ UNCHANGED <<vars, claim, cached, executed>>

(* An uncaught exception or the death of the process.  Threads share only  *)
(* the store, so the deaths of several need no common step.                *)
ExecutionDies(r, i) ==
  /\ request[r][i] = "executing"
  /\ request' = [request EXCEPT ![r][i] = "answered"]
  /\ UNCHANGED <<vars, claim, cached, executed, reply>>

----------------------------------------------------------------------------
LiveInit ==
  /\ Init
  /\ request = [r \in Runs |-> [i \in Copies |-> "unsent"]]
  /\ claim = [r \in Runs |-> "NONE"]
  /\ cached = [r \in Runs |-> "none"]
  /\ executed = {}
  /\ reply = [r \in Runs |-> "none"]

Dispatcher(r) ==
  \/ RefuseToDispatch(r)
  \/ SendRequest(r)
  \/ TransportFails(r)
  \/ RecordReply(r)

Bridge(r, i) ==
  \/ Duplicate(r, i)
  \/ Reject(r, i)
  \/ ClaimNotPersisted(r, i)
  \/ Execute(r, i)
  \/ AnswerFromClaim(r, i)
  \/ \E x \in Final \cup {"unknown"} : Finish(r, i, x)
  \/ FinishUnpersisted(r, i)
  \/ ExecutionDies(r, i)

Ledger ==
  /\ \/ Configure
     \/ Operate
     \/ ReserveAdmission
     \/ \E r \in Runs : MarkInFlight(r) \/ HandlerDies(r)
     \/ Tick
  /\ UNCHANGED bridge

LiveNext ==
  \/ Ledger
  \/ \E r \in Runs : Dispatcher(r)
  \/ \E r \in Runs, i \in Copies : Bridge(r, i)

LiveSpec == LiveInit /\ [][LiveNext]_allVars

(* The ledger's Fairness; neither the network nor the bridge has any.      *)
LiveFairness == WF_allVars(Tick /\ UNCHANGED bridge)
             /\ WF_allVars(ReserveAdmission /\ UNCHANGED bridge)

----------------------------------------------------------------------------
(* Properties.                                                             *)

Executing(r) == {i \in Copies : request[r][i] = "executing"}

(* The store's promise: one attempt per run, once, with one lasting        *)
(* outcome, under duplicates, deaths and failed writes.                    *)
AtMostOnce == INSTANCE AtMostOnceExecution WITH
  Ids <- Runs, Attempts <- Copies, Outcomes <- Final, NoOutcome <- "none",
  performers <- [r \in Runs |-> Executing(r)],
  spent <- {r \in Runs : claim[r] # "NONE"},
  outcome <- cached
ImplementsAtMostOnce == AtMostOnce!Spec

(* A public receipt is that of an execution whose outcome is durably       *)
(* stored: no late, replayed or lost reply makes one out of nothing.       *)
ReceiptOfExecution ==
  receipts \subseteq {r \in executed : claim[r] = "COMPLETED" /\ cached[r] = "completed"}

(* Provider work is never accounted for as free: for each executed run at  *)
(* least the least estimate is reserved, held as unknown, or was released  *)
(* by an operator, across lost replies, dead handlers, recoveries and late *)
(* records.                                                                *)
ExecutionCovered ==
  \A e \in Estimates : (\A d \in Estimates : e <= d) =>
    e * Cardinality(executed) <=
      costs.reserved + costs.unknown + MapThenSumSet(LAMBDA r : released[r], Runs)

(* Without duplicate deliveries it never is.  (With them, a copy may be    *)
(* executed while the awaited request is refused as never dispatched.)     *)
AwaitedExecutionCovered ==
  (\A r \in Runs, i \in Copies \ {Original} : request[r][i] = "unsent") => ExecutionCovered

============================================================================
