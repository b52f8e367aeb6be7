# A verification development for Basebreak

Basebreak turns an engineering task into a reviewed contract, lets a builder
synthesise a candidate, verifies it in three worlds, repairs it, and publishes
receipts. A live run, one that costs money at a provider, is admitted by a
Cloudflare Durable Object and executed by a trusted bridge. This directory holds
TLA+ models of the parts whose correctness depends on the order of events, the
TLC runs that check them, and TLAPS proofs of what matters most.

Contents: 1 the system's parts; 2 the plan; 3 the modules; 4 the runs; 5 the
proofs; 6 what was read in the code on the way; 7 what is not modelled.

## 1. Inventory

| Component | State it keeps | Operations | What is hard | Module |
|---|---|---|---|---|
| Admission ledger (`cloudflare/src/ledger.js`) | SQLite tables grants, runs, costs, reconciliations, cost_hold_exceptions, receipts, config | issueGrant, reserveAdmission, markInFlight, recordExecutionSuccess/Failure, recoverDurableState, reconcileUnknownCost, authorizeCostHoldException, configuration | requests interleave at every await; recovery races late records; money must not vanish | `AdmissionLedger` |
| Worker (`cloudflare/src/index.js`) | none; one handler per request | POST /v1/runs, admin routes, public reads | dies between awaits | `AdmissionLedger`, `LiveExecution` |
| Dispatcher (`cloudflare/src/provider_dispatcher.js`) | none | one signed POST to the bridge, classification of the reply | lost replies, ambiguous outcomes | `LiveExecution` |
| Trusted bridge (`deployment/live_bridge.py`) | ExecutionIdempotencyStore: a file per request id | authenticate, validate, claim, execute, persist, answer | threads claim at once, duplicates, failed writes, deaths | `LiveExecution`, `LiveVerification` |
| Nebius adapter (`adapters/nebius/`) | a handle per sandbox, the operations counted live | create, execute, poll, cancel, tear down; model calls | lost POSTs and cancellations, client time limits | `SandboxAdapter`, `LiveVerification` |
| Trusted verifier worker (`verifier/trust_bridge.py`, `verifier/sandbox.py`) | a sandbox per world | pair, triplet, attest | partial failure in any step of any world | `LiveVerification`, `CausalVerdict` |
| Witness vault (`verifier/witness_store.py`) | sealed witnesses, last execution per world, attestations | seal, observe, attest | authority that has grown stale; restarts | `CausalVerdict` |
| Causal engine, coverage (`causal/`) | none between runs | reconcile, aggregate | which receipts may stand for a requirement | `CausalVerdict` |
| Slice minimizer and cache (`causal/minimizer.py`, `cache.py`, `slice*.py`) | executed facts by key | search, look up, store | budgets, a stale or foreign fact, flickering witnesses | `SliceSearch` |
| Builder (`builder/`) | a candidate's sandbox, git state in it | context, plan, execute, capture, enforce, reproduce | commands that do anything to the sandbox; three layers that make and tear down sandboxes | `CandidateRun` |
| Sealed repair loop (`repair/`) | attempt counter, lineage, feedback | attempt, sanitize, reproduce | termination, lineage under failure | `RepairLoop`, `RepairSeries` |
| Compiler (`compiler/`) | bundle and result files, review sessions, frozen contracts | ingest, propose, edit, approve, freeze | stale decisions, two ways into the freeze | `ContractReview` |
| Verification API (`api/`) | runs in memory under a lock, files on disk | create or get a run, publish, recover | idempotency against a crash between two files | `RunStore` |
| CLI pipeline (`cli/`) | the working copy, three directories, three files per run | verify, status, evidence, receipt | others edit and commit meanwhile; what a run leaves behind; deaths while saving | `VerificationPipeline` |

The remaining packages (budget, evidence, recovery, grounding, Tavily, security
policies, GitHub integration, performance, replays, UI, domain records) are
listed in `PROJECT.json` with the reason each is left out; section 7 sums up.

How the parts interact. A client presents an operator-issued grant to the
worker. The worker's handler awaits, in this order, `reserveAdmission`,
`markInFlight`, the dispatcher's fetch and one of the two record methods. The
ledger is one object whose methods are synchronous, so each call is atomic;
between calls any other request, the operator and the clock may act, and the
handler may die. The bridge runs each request in a thread; its threads share
only the claim files. Inside a claimed request, one thread asks the model for a
candidate, then has the worker drive one sandbox after the other through the
adapter, while the provider works by itself. The CLI and the API run the
demonstration pipeline on the host; builder, repair loop, compiler, vault and
minimizer are sequential libraries whose callers, files and callees are the
environment.

What makes each correct, in a sentence: the ledger never has two runs in flight
nor forgets money; the bridge executes a request once; a receipt it signs off is
of worlds that held what they should; a run that fails leaves nothing running
that could be stopped; a verdict of VERIFIED stands on executions that show the
cause; a candidate found compliant is what git says it is; what is frozen is
what was approved and valid; and what a caller was told can be shown later.

## 2. Plan

Done: the modules of section 3, in this order: `AdmissionLedger`,
`AtMostOnceExecution`, `LiveExecution`, `RunStore`, `RepairSeries`, `RepairLoop`
(with the proofs of ledger, live execution and repair), then `CandidateRun`,
`ContractReview`, `CausalVerdict`, `SliceSearch`, `SandboxAdapter`,
`LiveVerification`, `VerificationPipeline` and its proofs; then the proofs of the
store, the adapter and the live verification on top of it, verdicts, slices,
candidates, reviews, and of the ledger's money.

Composition: `LiveExecution` is the ledger with dispatcher and bridge, and
implements `AtMostOnceExecution`; `LiveVerification` is the bridge's executor on
top of `SandboxAdapter`; `RepairLoop` implements `RepairSeries`. The others
stand beside these, since nothing in the code shares state with them at run
time: what passes between them are records.

Left, the most valuable first:

1. The reconcilers of the other change classes (`causal/refactor.py`,
   `feature.py`, `security.py`, `performance.py`, `dep_api.py`), as further
   cases of `CausalVerdict!Reconcile`.
2. Planning and generation of witnesses (`verifier/witness_plan.py`,
   `witness_generator.py`, `witness_lock.py`) before the seal.
3. `recovery/` and `budget/`, once production code calls them: the order in
   which a caller evaluates, registers, reserves and commits is what there would
   be to check.

## 3. Modules

### AdmissionLedger

Models `ledger.js` and the handler that drives it. Variables are the tables;
`handler` says at which await the handler of a run stands (a handler that was
refused keeps no state, so an admitted one is named by its run id).

| Action | Code |
|---|---|
| `ReserveAdmission` = `AnswerWithoutReserving` \/ `RefuseExpiredGrant` \/ `Reserve` | `reserveAdmission`, recovery included: every call first runs `recoverDurableState` |
| `MarkInFlight`, `RecordExecutionSuccess`, `RecordExecutionFailure` | the methods of those names, called by the handler |
| `HandlerDies` | eviction of the worker, or a throw of `recordExecutionSuccess` on a receipt it refuses |
| `IssueGrant`, `AuthorizeCostHoldException`, `ReconcileUnknownCost`, `ExpireStaleCostHoldExceptions`, `SetKillSwitch`, `ConfigureLiveGate`, `ConfigureInvocationCap`, `ConfigureSourceCommit` | the operator's routes |
| `Tick` | `Date.now()` advances by one unit |

Abstractions. Money is a natural number of units (the code's floats are not
modelled: rounding is out of scope). Times are relative, and saturate where the
code cannot tell the values apart: a row's age just past the deadline, a grant's
life just below zero. The answers that reserve nothing are one action, because
the ledger makes the same writes for each. The allowlisted target is constant.
Grants that a test issues with `max_uses` other than one do not exist: the route
always issues single-use grants.

### LiveExecution

`EXTENDS AdmissionLedger` and adds the request's way through the dispatcher, the
network and the bridge. `request[r][i]` is where delivery `i` of run `r`'s
request stands, `claim[r]` the state of its file, `cached[r]` the response a
COMPLETED file carries, `reply[r]` the answer on its way back. `Duplicate` is
the only thing the network does by itself; loss is `TransportFails`, delay is
that nothing is fair. `Reject` may happen to any delivery, because what it
checks (deadline, authentication window, configuration) changes with time.
`Execute` is the claim by exclusive creation and the start of the executor;
`Finish`, `FinishUnpersisted`, `ExecutionDies` are its ends.

### AtMostOnceExecution

The bridge's promise without files, threads or replies: a request is started by
at most one attempt, once, and its outcome never changes.
`ImplementsAtMostOnce` is the refinement from `LiveExecution`, with the
performers, the claimed requests and the cached outcomes as the mapping.

### SandboxAdapter

Models `adapters/nebius/sandbox.py`. A sandbox is a handle in the caller's
process: at the provider there are only operations, each on the image that the
last successful one left. `handles` and `operations` list them in order of
creation, `call` is the command being polled, `answer` what the last call
returned or raised. An image is the set of operations whose effects it holds.
An operation is `SENT` until it has reached the provider.

| Action | Code |
|---|---|
| `CreateSandbox` | `create_sandbox`: nothing is asked of the provider |
| `Spawn`, `SpawnFails` | the POST of `execute_command`, answered, or given up by the client: its operation is then only on its way |
| `PollEnded`, `PollFails`, `ClientTimeout` | its polling loop: the operation ended, the poll failed, the time limit passed and the operation is cancelled, heard or not |
| `TeardownRunning`, `TeardownRefused`, `TeardownIdle` | `teardown_sandbox`: cancel and verify, no operation to cancel, nothing to do |
| `Provider` | an operation ends, or a request that the client gave up arrives after all (`Deliver`), at any later time or never, also after a teardown has asked what runs (external) |

`VerifiedMeansStopped` says what a verified disposal is worth: everything that had
reached the provider by then is at rest. A POST that the client gave up and that is
still on its way can run afterwards, since the adapter learns neither its name nor
its fate (`adapters/nebius/sandbox.py:910-921`, `:1027-1063`); such an operation is
marked `late`, and the property says that nothing else runs.

Assumed of the provider: a command that keeps its machine and succeeds returns
an image, and a status FAILED has no exit code 0. Refusals before anything is
sent change nothing and are stutters.

### LiveVerification

`EXTENDS SandboxAdapter` and follows one claimed request through the executor of
`live_bridge.py`, the model calls of `model_candidate.py`, and the worker of
`trust_bridge.py` with its sandbox manager and materializer. The worker is a
`Program`: for each world create, clone, (apply), deploy, witness, tear down;
`at` is its place, `box` the sandbox of each world, `did` which operation each
step was, `raised` the error a world ends with.

| Action | Code |
|---|---|
| `Ground`, `Collapse` | `_assess_production_grounding`; base files that cannot be read |
| `AnswerTaken`, `AnswerInvalid`, `GenerationFails`, `RefuseToAsk` | `generate_model_candidate` over `NebiusModelClient.complete` |
| `Prepare` | tree, sealed witness, lock and plan |
| `CreateStep`, `CommandStep`, `TakeAnswer` | a step of a world and what the worker makes of its result (`GoesWell`, `GoesWrong`, `Witnessed`) |
| `TeardownStep` | the `finally` of a world: tried once, then its error goes on |
| `Conclude`, `Respond` | reconciliation, attestation and public receipt; the bridge's check of the result, the settling of the claim and the HTTP status |

Digests, signatures and texts are right or wrong, as the environment chooses.
`LiveExecution` models what becomes of a claim when requests are repeated; here
one request is followed to the end.

### CausalVerdict

From a sealed witness to a verdict: `verifier/witness_store.py`, `sandbox.py`,
`witness_result.py`, `vacuity.py`, the executors of `trust_bridge.py` and
`causal/engine.py`, `reconciliation.py` for BUG_FIX, and `coverage.py`.
`sealed`, `observed` and `registered` are the vault, which a `Restart` empties;
`run` is the run in progress, `receipts` what was handed out and may be put
before coverage at any later time, `live` and `lost` the sandboxes. Runners are
the engine (attested by the vault), the engine in its genuine mode (which signs
nothing) and the worker (with its own key; only the pinned one counts).

| Action | Code |
|---|---|
| `SealWitness`, `StartRun` | `seal_witness`; validation of a pair or triplet |
| `OpenWorld`, `CreateFails`, `MaterialiseFails` | `create_isolated_verifier_sandbox` and its refusals |
| `DeployFails`, `ExecuteWitness`, `CloseWorld` | `execute_world`, `record_observed_execution`, teardown |
| `Conclude` | the receipt and its attestation |
| `Attestable`, `Attest` | `attest_execution`: the guards on seal and observations; signature and registration |
| `Outcome`, `Vacuous`, `Reconcile`, `Overall` | normalisation, vacuity, reconciliation, aggregation: the pure decisions |

A command report is what can be told apart of status, exit code and text.
`compute_causal_coverage` is a function of what it is given: the authority (this
process's vault, a root with the pinned key or with another, or none), the
requirements to leave out, and for each requirement a receipt, a claim or
nothing. It is not an action: `VerifiedIsCausal` is stated for all of these in
every state. Leaving a requirement out is always refused (`ExclusionRefused`),
since every class of change is behavioural; so is a receipt put under another
requirement than its own (`Refused`). A claim is always of VERIFIED: for the other
verdicts a claim counts as a receipt does.

Assumed: the manager tears down on failure, as it does by default, and a provider
names sandboxes of different runs differently. `LastExecutionHasAuthority` speaks of
receipts: a run that was aborted has none, and when it has ended nothing is said of
what it left observed. The second worker of `AllRunners`, with a key of its own, is
in the theorems only: a run with it differs by the key that signs.

### SliceSearch

`causal/minimizer.py` with cache, facts, scopes and receipts. A hunk is its
place in the patch; `Plan` is the order of the subsets. What the code selects from
a sequence is given by places (`Kept`), and what passed is named by its place in
the order of the search (`Passing`, `Smallest`): the first of the smallest is the
least place. `Execute` may come out
differently each time, since a witness is a command and not a function.

A search looks a fact up under the command it was given
(`causal/minimizer.py:475-481`) and the cache keeps it under the command the fact
itself names (`causal/cache.py:586`); nothing compares the two
(`minimizer.py:401-464`). `Key` therefore has the command, `Execute` may return a
fact of another one, and `MaxStrays` bounds how often a run of the checker does so.
Such a fact is accepted, is not found again by the search that had it executed, and
may replace one that searches with its command rely on. `SameSearchSameResult`
holds of searches whose facts all name the command that was asked for (`Honest`);
of others nothing is said, because nothing holds.
`UseCache` is a hit, `Abort` a fact that is refused, `ConcludeFull` and
`ConcludeSearch` the decisions `JudgeFull` and `Judge`, `RefuseBase` and `Begin`
the ways a search starts. `SliceReceipt` and `ReceiptValid` are the construction
of a result's receipt and the checks its constructor makes. Subsets of a plan for
which the patch cannot be rebuilt are skipped by the code
(`causal/minimizer.py:709`); each is made of the patch's own hunks, and the model
has no such subset.

### CandidateRun

`builder/`: the loop (`AssembleContext` to `ReadAnswer`), preflight
(`RefuseProposal`), the executor step by step or bundled (`AcquireSandbox` to
`FinishExecution`), the capture (`CaptureInSteps`, `CaptureBundled`,
`HeadMoved`), the enforcement of what was captured (`Violation`, `Comply`) and
the reproduction in another sandbox (`StartReproduction` to `Reproduce`,
`ReproductionFails`). A tree is a function from files to contents. `work`,
`head`, `hidden` and `staged` are what git and the file system of the sandbox
hold; a proposed command (`RunCommand`) may write any file, commit, hide a file
from git, stage an ignored one, or change what the capture reads.

The last is `said`, one of the `Reports`. The bundled script runs the commands
unquoted and prints what the capture needs between markers on the same output, of
which the parser takes the first (`builder/execution.py:1714-1731`, `:1811-1860`);
step by step, git answers under a configuration the commands can write
(`builder/capture.py:986`). So each of the four answers (HEAD, tree, changed files,
patch) may be another than git's own, in either mode, and nothing compares them
with each other before a reproduction. The enforcement then looks at the patch alone
(`builder/enforcement.py:519`, `:633`), and `CompliantCandidate` claims no more:
whatever was said, the captured patch leaves protected files alone; that tree and
changed files agree with it, and hence that the tree leaves them alone, holds if
the commands left the answers alone. What is made of a candidate is made by the
reproduction, which applies the patch to a fresh base and compares tree and
changes: `ReproducedCandidate` holds whatever was said.

`mode` is the configuration of provider and executor, `open` the sandboxes not
torn down. On a disposable provider the materializer works in a sandbox of its own
to make a checkpoint of the base, for the execution and again for the reproduction
(`builder/execution.py:1339`, `builder/reproduction.py:639`); nobody here is given
its handle and nobody tears it down, and `checkpoints` counts how many there are.
A teardown that raises is swallowed by the code and counts as one.

### ContractReview

`compiler/`: classification of the text (`Certainty`), proposals by the model or
a file (`ProposeRequirements`, `CreateBundle`), or the contract of an earlier
approval if it still validates to itself (`CreateBundleFromContract`), sessions
with their edits, approval and rejection, the result file, and `Freeze` under a
digest (`Payload`). A bundle is created over the one that is there, whoever
reviews it. Reviewers' processes interleave between reading a file and
replacing it. Statements and citations are opaque, and what the validator's
patterns find in a statement is given by constants. `IdOf` is the short hash of
a requirement's content, so two requirements may collide; the instance has one
collision. The code's sort before a digest is stable, so that `InOrder` gives
each requirement its `Place`: the number of those that come before it by key, or
by position where the keys are equal.

### RunStore

Models `api/store.py`, the files of `cli/persistence.py` and the two routes of
`api/server.py` that change state. `mem` holds the store's dictionaries, `disk`
what a new process would find, `lock` the store's `_lock`, `thread` where each
request stands: its phase and the files the phase has still to write. `fault`,
chosen at the start, is the kind of fault that an execution meets: deaths or
failed writes.

| Action | Code |
|---|---|
| `Execute`, `Register`, `Bind`, `Conclude` | `create_or_get_run`: the pipeline, the run in memory, the binding, the answer; each but the first after the writes of the one before |
| `Replay` | `create_or_get_run` when the key's run can be read |
| `RequestPublication`, `StartPublication`, `FinishPublication` | `publish_run` before the lock, when it takes it, and its return |
| `Open`, `Fill` | `open(path, "w")`, which truncates, and `json.dump`; the two steps of each file |
| `WriteFails` | either of them raises; `publish_run` swallows that of the metadata |
| `Crash` | the process dies, and `recover_from_disk` of the next one |
| `Refuse` | the answers that change nothing |

A file between the two steps is `Torn`: unreadable to whoever opens it. The
evidence and events files are left out, since no decision reads them. Two
threads that each read a run's metadata from disk may hold two dictionaries of
it; the model has one, so that a replay in the code may publish once more than
in the model, which writes the same files. The pipeline's own writes are those
of the first save, and a run that ended blocked or invalid has no receipt.

### VerificationPipeline

`basebreak verify` (`cli/runner.py`), the files of `cli/persistence.py`, and
what `status`, `evidence` and `receipt` (`cli/commands.py`) show of a run. The
target is two things, the file that the canonical patch repairs and the rest;
`disk` is the working copy, `history` the commits, `workspace` the temporary
directory of each world and `digest` its digest from before its witness ran.
One action per stage of `_execute_trusted_demo_pipeline`, named for it
(`ReadHead`, `ReadTree`, `CheckClean`, `ResolveBase`, `CheckPatch`, `CopyBase`,
..., `Judge`); `Simulate` is the run over prescribed outcomes; `WriteFile` opens
and fills each file, and `SaveFails` is a directory, an opening or a write that
raises, with what was written before it left behind; `Die` and `Change` are the
environment: a death at any step, and edits and commits by others at any step until
the result is made.

Assumed: the files a witness run leaves never make its directory equal to a
working copy without them, and git answers or fails (its calls have no time
limit).

### RepairLoop

Models `run_sealed_repair_loop` of `repair/engine.py` with the lineage, context,
feedback and reproduction it calls, and the sandbox manager of
`verifier/sandbox.py`. The loop is sequential. What is not its own is what it
calls: the builder, the sandbox provider, the materializer, the witness. A step
is the code between two such calls, and `phase` names the call it waits for.

| Action | Code |
|---|---|
| `RefuseFacts`, `StartLoop` | the checks before the first round |
| `ClockExpired`, `RefuseFeedback`, `ContextRaises`, `OutOfBuilderAttempts`, `CallBuilder` | the head of a round: clock, feedback, context, builder's budget |
| `BuilderFails`, `RefuseCandidate` | the builder raises or its candidate is refused by path, id, or being unchanged |
| `RefuseRepeatedPatch`, `SnapshotRaises`, `OutOfExecutions`, `StartReproduction` | after the lineage is recorded: seen patches, the snapshot, the two ceilings |
| `NoSandbox`, `BuilderSandboxAnswered`, `SandboxAnswered` | `create_isolated_verifier_sandbox`, up to the provider's answer |
| `MaterializationFails`, `RefusePriorSandbox`, `Materialized` | its rest, and the check of prior sandboxes |
| `DeployFails` | the witness cannot be deployed or raises |
| `PassVerified`, `PassRefuted`, `NoJudgement`, `FailedAgain`, `FailedLast` | the reproduction's receipt and what the loop makes of it |

Abstractions. A digest of an execution is its place in the loop: 0 for the
failure the caller brought, `k` for the `k`-th reproduction. A candidate is its
id, patch and tree and one of four kinds, by what the code refuses about it. The
clock, the token limit and the sanitizer's verdict are nondeterministic. That
receipts and lineages are intact is assumed, since the loop builds them itself.
Candidates that claim authority do not exist: `CandidateSnapshot` refuses them.
The model passes no prior candidate ids to the reproduction, because the code
passes it sandbox ids in their place, and the two kinds of names never meet. The
manager knows only the builder sandboxes it was told of at construction. The
sandbox of a builder that repairs is not among them unless the caller put it
there; nothing in the loop adds it, and the model does not either.

### RepairSeries

What the loop promises without rounds, budgets or lineages: candidates are
judged one after another, on a patch and in a sandbox of their own, only after a
failure, and a positive verdict is that of the last judgement. `ImplementsSeries`
is the refinement, with the list of reproductions and the receipt as the mapping.

### MC modules and mutants

Each `MC...` module gives the structured constants of its run: proposals,
requirements, requests, reports, and the symmetry sets. `MCAdmissionLedger` and
`MCLiveExecution` add `OpenSpec`, the specification in which the operator opens
the gate first and then leaves the configuration alone, so that the runs spend
their states on money and deliveries. Run ids, tokens, commits, requirements and
reviewers are only compared by the code, so permuting them is sound; a run with
a liveness property uses no symmetry.

Definitions named `Fault...` are plausible mistakes in the definition that
follows each; no action uses them. The runs are repeated with them in place of
the real definition, to see that each property notices.

## 4. Runs

Passing:

| Run | Question | Instance |
|---|---|---|
| `LedgerRuns` | Do all interleavings leave one active run with its reservation, single-use grants and exceptions, settled rows as they are, and no exposure that falls by itself? | 2 grants, 2 runs, 1 key (and none), estimates 2 and 3, charge 1 or unmeasured, cap 2, balance 9, floor 5 |
| `LiveDeliveries` | Does the bridge execute a request once whatever the network does, is executed work accounted for, and does every run leave the slot? | 1 run, 3 deliveries, fairness |
| `SandboxCommands` | Is everything at rest that a verified disposal could know of, and does each command build on the right image, whatever requests are lost or late? | 1 sandbox and commands without one, 3 operations, 2 faults |
| `LiveVerifications` | Is a certified receipt of the right worlds, is nothing left running that could be stopped, is all work told of, and is the request answered? | one request, 3 sandboxes, 11 operations, 2 model calls, 2 faults, fairness |
| `CausalVerdicts` | Does VERIFIED stand on executions that show the cause, does the vault's word stay with the last execution, and are sandboxes torn down? | 2 requirements, base and one other tree, 4 kinds of report, 3 runners, 2 runs, 1 fault, every authority and exclusion |
| `SliceSearches` | Does every result have a valid receipt, is a necessary subset the smallest, and does a cache answer as the search did? | 1 to 3 hunks, 6 requests under 2 commands, with budgets and proposals that differ, 3 searches, 7 executions, 1 of them with another command, 1 restart |
| `CandidateRuns` | Does what is found compliant leave protected files alone, is a reproduction of the candidate and not of its sandbox whatever the capture was made to read, and is every sandbox returned whose handle is known? | 4 files (ordinary, new, protected, ignored) and a directory, 9 proposals, 3 command effects, 5 forged captures, all modes |
| `ContractReviews` | Is what is frozen valid and named by its digest, and is an approval of a draft that is there? | 2 reviewers, 4 statements, 2 citations, 2 edits or bundles written over, 2 frozen contracts, one id collision |
| `StoreRuns` | Is a published receipt readable wherever the process dies, and do racing requests and failed writes leave a key with one run, a binding with a saved run, and the lock free? | 2 threads, 2 runs, 1 key (and none), a plain and a publishing payload, deaths or failed writes, fairness |
| `Pipelines` | Are the three worlds of one source, is the commit named the one that was run, is what was returned saved, and what does a save leave that raises or dies? | any working copy and one or two commits, 2 changes by others at any step |
| `RepairRounds` | Does the loop repair on the right evidence, keep its trail, leave no sandbox, judge nothing twice, and end? | 3 rounds, 2 ids, 4 patches, 2 trees, 3 fresh sandboxes with one of the builder's and a prior one, ceilings of 3 and 0 or 1 of each used already, fairness |

Bounds and why they are enough.

- Ledger: every property relates at most two rows, and one run being active
  while another is refused, timed out or recorded late needs two. A deadline of
  one tick and a life of one tick let each of "in time", "at the limit" and
  "past it" happen. Estimates 2 and 3 with charge 1 make every difference of
  reserved, observed and unknown visible. An exception needs
  `balance - (unknown + cap) >= Floor`: 9, 2 and 5 are the least at which one
  hold of 2 qualifies and two do not.
- Deliveries: three let two copies race while the awaited one is answered; the
  interplay of two runs is in `LedgerRuns` and in the proofs.
- Adapter: an operation whose answer was lost, one in progress and one that
  follows are three; two faults let a request and its cancellation both fail, or
  one POST be late behind another.
- Live verification: three sandboxes and eleven operations are all that one
  request can need (three worlds; three commands in the base, four in each of
  the others), so that the bounds cut nothing off. Two attempts of the code's
  three are a first one that is sent back and a last one.
- Verdicts: two requirements make aggregation and foreign receipts possible, two
  runs a receipt that another run outdates; one fault leaves one teardown,
  creation or process lost in any place.
- Slices: three hunks are the least for which omissions, singles and pairs are
  not the same sets in each role; seven executions are one exhaustive search, or
  two small ones and the start of a third; three searches let one that returns a
  foreign fact come before, between or after two of one request. One request of
  each kind is there for each branch of the decision.
- Candidates: one file for each way the code treats a path; three effects let a
  command undo or hide what another did, and forge the capture of it.
- Review: a draft may be edited behind an approval and once more; two reviewers
  are one to save over the other's work.
- Store: two threads let one wait for the lock or overtake a publication; two
  runs are the answer and the wrong answer. Deaths and failed writes do not
  meet in one execution, for the reasons under 6.
- Pipeline: one change can fall between two readings of the repository, a second
  can undo it; the proofs hold for any number. A save has three files, each absent,
  torn or whole, and may raise at each.
- Repair: three rounds are the first, one between two others and the last; four
  patches let each round have a new one and repeat any earlier one; with two ids
  a repair can take only the id of its grandparent; ceilings of 3, partly used,
  are met in any round.

Where deadlock is not checked, the system really stops: a request is answered, a
pipeline ended, or the bound on runs, edits or executions is used up.

Violated, a finding of `PROJECT.json`:

| Run | What the repository says | What the code does |
|---|---|---|
| `LedgerStranded` | held cost awaits operator reconciliation (`ledger.js:1133`) | a record after TIMED_OUT overwrites the row's unknown cost with 0 while the aggregate keeps it; no release is then accepted |

Fairness. `AdmissionLedger!Fairness`, which `LiveFairness` repeats for the
composed module, is weak fairness of the clock and of `ReserveAdmission`. The
first is time. The second is an assumption on clients, not on the code: recovery
has no alarm and runs only inside `reserveAdmission`, so `SlotFreed` says that a
stuck run costs the service nothing as soon as somebody asks again. Handlers and
the bridge get no fairness there: they may die. `RunStore!LiveSpec` is weak
fairness of `Continue(c)`: a thread in the middle of a request, which is the
holder of the lock or about to write, is scheduled by the interpreter; no
fairness makes a request arrive or a write fail. `RepairLoop!LiveSpec` is weak
fairness of `Step`: the callees answer, each in a way of its own choosing. This
is an assumption on them: the code hands a time limit to the sandbox and to the
witness, and bounds how often the builder is called, not for how long.
`LiveVerification!Spec` is weak fairness of `Bridge`, the thread of the request,
which always has a next step because a polled command runs into the client's own
time limit; the provider has none, so that an operation may hang for ever and
`RunIsAnswered` holds all the same.

## 5. Proofs

Each of the modules below proves, for all values of the constants that the named
assumptions allow, what its run checks on one instance. No bound of a run is a
hypothesis: the bounds are any natural numbers. All arguments have one shape: the
checked property is not inductive, an invariant is that contains it or implies
it, and one lemma per action or group of actions shows that it is kept.

**Ledger** (`LiveExecution_proofs`, part I). `LedgerInvariant` says that `IndInv`
holds in every reachable state. `IndInv` is the type invariant with the checked
invariants and `KeyNamesOneRun`, `ReceiptIffCompleted`,
`TotalIsObservedPlusUnknown` and `HandlerOwnsRun`. The last is the strengthening
that makes the rest inductive: the record methods do not look at the status of
the row they overwrite, so that they overwrite nothing settled follows only from
where handlers can stand. `SettledRunsStay`, an action property, follows from the
same invariant. Assumptions: costs are naturals with positive estimates, `Null`
is none of the values it stands beside, `Runs` is finite.

**The ledger's money** (part II). `ExposureFallsOnlyByRelease` needs that the
aggregate's unknown cost covers what each row shows: otherwise a release would be
cut off at zero. With many runs this is a statement about a sum, and rows do not
even add up to the aggregate, since a record that comes after recovery overwrites
a row's unknown cost and leaves the aggregate alone (the finding
`LedgerStranded`). The invariant `Held` therefore gives each run a share of the
aggregate, at least what its row shows; the share of an overwritten row stays.
No induction theorem can be cited for such sums, so that the fold is first shown
to be the number of its units, the pairs of a run and a number up to its value
(`SumIsUnits`, from a least set of runs for which it is not, which exists by the
pigeonhole principle). What adding to one share does to the sum is then a fact
about the size of finite sets.

**A live run** (parts III and IV). Every behaviour of `LiveSpec` is one of the
ledger's `Spec` (`LiveImplementsLedger`), hence the ledger's theorems hold inside
the whole system; a receipt is that of an execution whose outcome is stored
(`LiveReceiptOfExecution`), from an invariant that relates replies to claims; the
refinement `LiveAtMostOnce`, for any number of deliveries; and
`LiveExecutionCovered`: with no duplicate deliveries, executed work is never
booked as free. Its invariant says of each executed run that the reply it waits
for cannot be a refusal (`Awaited`), and that its share of what is reserved, held
or released is at least the least estimate (`Covered`).

**Repair** (`RepairLoop_proofs`). `RepairInvariant`, for any names, inputs and
budget. That a receipt's rounds match its lists depends on how long each list is
at each call (`Progress`), that a parent's evidence is the right one on what each
list holds and what the loop has in hand for the next entry (`Evidence`), that
nothing is judged twice on what it remembers (`Freshness`). To keep the cases
few, the actions that return are first shown to be of four kinds
(`EndingSteps`), by the list they extend. Type correctness,
`FeedbackOfParentFailure`, `AuditTrailMatchesRounds`, `NoSandboxLeft` and
`CeilingsHold` follow, and with `Freshness` the refinement
`LoopImplementsSeries`. Assumptions: limits are positive, counters start at or
below them, `None` is no value.

**Pipeline** (`VerificationPipeline_proofs`). `PipelineWorlds`, `PipelineSource`
and `PipelineRecord`, for any number of changes by others. `WorldsInv` says which
digests are already related; its heart is the lemma `LitterShows`: the candidate
is copied from the working copy a second time, and nothing compares the two
copies, but a directory from which the patch is taken and which then equals the
base's digest can only have been the base with the patch. `SourceInv` says that,
as long as nobody disturbed the repository, the tree that was read is that of the
commit and of the working copy, up to the copy. `RecordInv` says that files are
written only at the end and in order, whatever then cuts the writing short.
Assumptions: `ChangesAssumption`,
`NoneAssumption`.

**Store** (`RunStore_proofs`). `KeysAnsweredOnce`, `BindingsNameSavedRuns` and
`PublishedReadable`, for any threads, keys and runs. `StoreInv` says what a
request knows at each place of its program: its key is unbound until its run is
saved and its own from then on (`KeyOf`), its run is on disk by then (`RunOf`),
and nobody who waits to publish a run waits for a receipt that is torn for good
(`ReceiptsReadable`). Only the holder of the lock is at a place where something
is written (`LockHeld`), without which none of this would be kept.
Assumption: `StoreAssumption`.

**Adapter and live verification** (`LiveVerification_proofs`). `AdapterInv` is
proved of the adapter by itself, for any callers (`AdapterInvariant`, hence
`VerifiedStopped` and `EachCommandBuildsOn`), and each step of the live
verification is shown to keep it, the provider's late deliveries included:
what is `late` was given up without a name before its sandbox was disposed of. On
top of it, `WorkerInv` says where the worker
is and in which sandbox (`Position`); `Told`, that the replies so far account for
what was seen; `Reaped`, what can still be running; and `WorldsInv`, which of a
world's commands have run, on what, and what they showed (`Behind`, `Built`,
`Shows`, `Genuine`). `AccountsSurvive`, `NothingIsLeftRunning` and
`WorldsAreCertified` follow. Assumption: `AdapterBounds`.

**Verdicts** (`Causal_proofs`, part I). `VerdictInv` says that each sandbox is the
present world's, lost, or torn down (`Accounted`), that runs and receipts come in
the order of their numbers (`Ordered`), that the vault has noted each execution
of the run in progress (`Noted`), and that each receipt's verdict is the one its
own executions give (`Justified`). `TornDown`, `LastHasAuthority` and
`VerifiedHasCause` follow, the last for every authority and exclusion that
coverage may be given. `EngineIsAttested`: a run that the vault has to attest
never reaches the end with a guard of `attest_execution` unmet, because the
witness stays sealed and what was observed last is the run's own. Assumptions: `BoundsAssumption`, `RunnersAssumption`,
`NoneAssumption`.

**Slices** (`Causal_proofs`, part II). `SearchInv` says that a search has gone
through the first subsets of its agenda (`Agenda`: the full candidate and, once
that has passed, the plan), in order and within the budget (`Tested`), with the
rest still ahead (`Ahead`); that no two facts of the cache have one key
(`Cached`); and that each result is what its own facts say (`Concluded`).
`SameSearchSameResult` is part of it, since it rests on the cache at the time of
the second search: facts of a caching search stay in the cache until a restart
(`Remembered`), because nothing is executed whose key is there; the first fact
decides the agenda, each later one is found under its key, and the budget cuts
both off at the same length (`SameFacts`). All of this is said of facts that name
the command of the search that had them executed; that the cache keeps one fact
per key, and a search's own receipt, need no such condition. `SearchReceipts` and `NecessaryIsLeast`
follow from `Tested`, from what the plan tries (`PlanTried`: smaller subsets only,
among them each hunk alone and each left out) and from what `Judge` chooses
(`JudgeChooses`). Assumptions: those of the module on outcomes, requests and
bounds.

**Candidates** (`CandidateRun_proofs`). `CandidateInv` says what was enforced of
a capture and that it stays so, for any `Reports`: of a forged capture that its
patch was looked at, of a true one that its parts agree; `Returned`, at each place,
which sandbox is whose to dispose of. `CompliantIsFaithful`, `ReproductionIsFaithful` and
`SandboxesAreReturned` follow. Assumptions: `TreeAssumption`, `NoneAssumption`.

**Reviews** (`ContractReview_proofs`). `ReviewInv` says of every place where a
draft or an approval may lie (process, bundle, result file, frozen contract) that
an approval is of valid requirements, and of each frozen contract that its digest
is that of its requirements in order (`Named`). `FrozenIsValid`, `ApprovalsArePresent` and
`DigestsNameRequirements` follow. The last needs that requirements sorted in one
way have one order: each has a place, no two have the same, hence every place is
taken (`EveryRankTaken`), and two drafts of the same requirements with the same
keys have the same sequence. Assumptions: those of the module on text, ids,
entries and answers, and `NoneAssumption`.

Type correctness is proved where it is needed and not run besides.

Only model-checked: the liveness properties `SlotFreed`, `LockReleased`,
`LoopEnds` and `RunIsAnswered`, which are out of the prover's reach. Every other
property of a passing run is a theorem.

## 6. Read in the code while modelling

What the actions show and no run states as a property of its own. Paths are
below `src/basebreak/` unless they say otherwise.

Ledger and live runs. The general hold refuses nothing and the invocation cap is
only reported: no guard of `Reserve` reads either. The kill switch stops
admission and leaves an admitted run alone. A duplicate delivery may be executed
while the awaited one is refused, and then the reservation of an execution that
took place is released (`ledger.js:1060`, `:1110`); `AwaitedExecutionCovered`
therefore speaks of the awaited delivery. Recovery acts after 60 s while the
bridge may work for 180 s, so that a second run can be admitted while the first
still executes.

Store. `idempotency.json` is rewritten in place (`api/store.py:102`): a death in
between loses all bindings, after which a replayed key executes again, and
likewise a death during the rewrite of a run's metadata leaves that run
unreadable. A failed save after the receipt was examined leaves it torn. These
are why `AnswersAgree` speaks of failed writes and `PublishedReceiptValid` of
deaths.

Repair. Two calls outside every `try` (`repair/engine.py:844`, `:1109`) raise on
a candidate of another source, or that modified no file; a candidate's id is
compared only with its parent's, since the list of prior ids that the loop hands
to the reproduction holds sandbox ids.

Builder. The enforcer with its default configuration raises
`InvalidExecutionModeError` on every disposable provider. A violation found
after the execution leaves the sandbox when `teardown_on_completion` is off, and
with the default the sandbox the enforcer made is never returned. A snapshot
captured from files in memory carries another kind of digest and cannot be
reproduced. Only tests call `execute_and_enforce` and `reproduce`.

Compiler. A bundle created with two invalid requirements cannot be repaired by
the command line, whose every edit validates the whole; two edit commands that
overlap lose one of the edits (`compiler/review_cli.py:144`), which no text
promises otherwise; an approval under a weaker manifest is refused when the
result is constructed. `create-bundle` writes over a bundle under review
without asking. The audit trail of edits does not survive a command.

Verdicts. The worker's triplet does not compare sandbox identities, so that
`Causal` asks for distinct sandboxes of the vault's receipts only. Executing a
witness again outdates its earlier receipts even if the run is aborted.
Receipts of the pinned key keep their authority for ever. A builder sandbox
whose identity the provider answers with again is torn down; a provider that
names no identity leaves a sandbox that cannot be. Errors of teardown are
swallowed. A command that raised is normalised by the exception's text
(`verifier/witness_result.py:263`): one that has "fail" in it counts as FAIL, so
that a base or counterfactual that never ran can stand in a VERIFIED triplet of
a provider that raises so (`verifier/trust_bridge.py:1481`). `Causal`
therefore says how an execution counts, and `LiveVerification!CertifiedWorlds`
says of a PASS alone that it was shown by an exit code. Receipts
other than VERIFIED keep no executions.

Slices. A search that shares a cache with a candidate of the same tree and
another id raises instead of missing. ERROR and TIMEOUT of a smaller subset are
ignored when another passes, and INVALID_PRECONDITION counts as "not
sufficient". From four hunks on some subsets in the middle are never tested,
and the result is still called EXHAUSTIVE_BOUNDED. A reordered or repeated
proposal is executed once more (`causal/minimizer.py:666`, `:676`).

Adapter and live verification. A command over its time limit whose cancellation
was not heard leaves a handle that is disposed of without verification while its
operation runs, and so does an operation that a later command displaced
(`adapters/nebius/sandbox.py:936`, `:1005`): `NothingLeftRunning` names exactly
these exceptions. Base files that cannot be read make the executor fail in its
own handler, and the claim stays IN_PROGRESS (`Collapse`). A refusal of the
client after earlier model calls reports none of them. Replies with 502 after a
receipt was rejected carry no accounting. A lost POST in a witness, or in the
clone of a counterfactual, ends with the claim COMPLETED. `is_timed_out` and
`is_timeout` do not meet, so that a witness's time limit is never TIMEOUT. A
counterfactual that cannot be cloned or applied is INCONCLUSIVE and answered
with 201, one whose witness cannot be deployed is a failure.

Pipeline. Every INCONCLUSIVE outcome of the demonstration raises (`coverage.py`
asks that its counts add up to the eligible requirements, and the runner gives it
none for the inconclusive one), and so does a VERIFIED run of the classes whose
base must pass; nothing is saved of either. An edit between the status check and
the copy makes the receipt name a commit that does not hold the base:
`SourceIsCommitted` excludes exactly this window. The patch file is read twice.
A death between the files leaves a run that shows VERIFIED without a receipt and
with an empty list of evidence.

## 7. Not modelled

Within the modelled components: the audit log, token counts, client information
and the wording of errors, which no decision reads; signatures, digests and
receipt proofs, each a nondeterministic verdict or an identity; `storeReceipt`
outside `recordExecutionSuccess`, which only a probe calls; floating-point
rounding of money; serialisation and rendering of slices; the static analysis of
what a witness asserts; the reconcilers of change classes other than BUG_FIX;
`identify_builder_authored_tests` and captures from files in memory; the API's
authentication and read routes.

Components without a module: `budget/`, `recovery/` and `evidence/append_model.py`
have state, but no production code calls them, so that any order of calls would
be invented; `adapters/nebius/retry.py` likewise. Reading them: the idempotency
table of `recovery/` evaluates and registers in two calls that nothing makes one,
its state transitions have no guard on their order, and
`sync_from_repair_loop_counters` of `budget/` does not look at active
reservations. Grounding, Tavily, security policies, GitHub integration, domain
records, evidence capture, performance, replays and UI are functions from values
to values, single HTTP calls, measurement or rendering: there is no order of
events in them to get wrong.
