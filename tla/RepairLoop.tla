----------------------------- MODULE RepairLoop -----------------------------
(***************************************************************************)
(* run_sealed_repair_loop of repair/engine.py with the reproduction it     *)
(* calls (repair/reproduction.py, verifier/sandbox.py).  The loop is       *)
(* sequential; what happens between its steps is the builder's, the        *)
(* sandbox provider's and the materializer's.  A step of the module is the *)
(* code between two such calls.                                            *)
(*                                                                         *)
(* A digest of an execution is its place in the loop: 0 is the originating *)
(* failure, k the k-th reproduction.                                       *)
(***************************************************************************)
EXTENDS Integers, Sequences

CONSTANTS
    Ids, Patches, Trees,      \* what names a candidate: its id, patch and tree
    Sandboxes,                \* identities the provider may answer with
    BuilderSandboxes,         \* known_builder_sandbox_ids of the manager
    PriorSandboxes,           \* prior_sandbox_ids a caller may pass
    Initials,                 \* candidates a loop may be asked to repair
    Changes,                  \* what kinds of change, with which counterfactual outcomes
    Spent,                    \* what the caller's counters may have used already
    None,
    MaxRounds, MaxBuilder, MaxVerifier, MaxSandbox,   \* RepairLoopBudget
    TeardownOnFailure         \* teardown_on_failure of the manager

ASSUME BudgetAssumption == {MaxRounds, MaxBuilder, MaxVerifier, MaxSandbox} \subseteq Nat \ {0}
ASSUME SandboxesAssumption ==
    BuilderSandboxes \subseteq Sandboxes /\ PriorSandboxes \subseteq Sandboxes
ASSUME SpentAssumption ==
    Spent \subseteq Nat /\ \A n \in Spent : n <= MaxBuilder /\ n <= MaxVerifier /\ n <= MaxSandbox
ASSUME TeardownAssumption == TeardownOnFailure \in BOOLEAN

VARIABLES
    phase,          \* the call the loop is waiting for
    input,          \* what the caller knows of the failure and the change
    round,          \* round_idx
    current,        \* current_candidate
    origin,         \* current_receipt_digest
    facts,          \* the execution digest of current_failed_facts
    made,           \* repaired_cand_snapshot, which the receipt names as final
    seen,           \* seen_patch_digests
    used,           \* all_sandbox_ids
    session,        \* the sandbox of the reproduction under way
    open,           \* sandboxes made and not yet asked to be torn down
    feedbacks, lineages, reproductions,
    counters,
    receipt         \* what the loop returned, or that it raised

inputs == <<input, counters>>
trail == <<feedbacks, lineages, reproductions>>
place == <<round, current, origin, facts>>
boxes == <<used, session, open>>
vars == <<phase, input, round, current, origin, facts, made, seen, used, session, open,
          feedbacks, lineages, reproductions, counters, receipt>>

(***************************************************************************)
(* The data.  A candidate is "unusable" when no builder context can be     *)
(* built from it (it modifies no file, or its patch holds a secret or a    *)
(* verifier path), "protected" when it edits a protected path, "foreign"   *)
(* when its source is not the loop's.                                      *)
(***************************************************************************)
Candidate == [id : Ids, patch : Patches, tree : Trees,
              kind : {"plain", "unusable", "protected", "foreign"}]

ASSUME InitialsAssumption ==
    Initials \subseteq {c \in Candidate : c.kind \in {"plain", "unusable"}}

Outcomes == {"PASS", "FAIL", "TIMEOUT", "ERROR", "INVALID_PRECONDITION"}
Status == {"VERIFIED_AFTER_REPAIR", "REPAIR_NO_PROGRESS", "REPAIR_REGRESSED",
           "REPAIR_BUDGET_EXHAUSTED", "REPAIR_INVALID_CANDIDATE", "REPAIR_FEEDBACK_UNSAFE",
           "REPAIR_INFRA_FAILURE", "INCONCLUSIVE", "raised"}
Verdicts == {"VERIFIED", "CONTRADICTED", "INCONCLUSIVE"}

\* Whether the initial facts pass the checks before the loop, and the change.
\* A counterfactual outcome is None when that world is not run.
Input == [confirmed : BOOLEAN, change : Changes]
ASSUME ChangesAssumption ==
    Changes \subseteq [bugFix : BOOLEAN, counterfactual : Outcomes \cup {None}]

Counters == [builder : Nat, verifier : Nat, sandbox : Nat]

Feedback == [candidate : Ids, origin : 0..MaxRounds, round : 1..MaxRounds]
Lineage == [parent : Candidate, repaired : Candidate, feedback : 1..MaxRounds]
Reproduction == [candidate : Candidate, sandbox : Sandboxes, outcome : Outcomes]
Receipt == [status : Status, verdict : Verdicts, rounds : 0..MaxRounds]
ASSUME NoneAssumption == None \notin Candidate \cup Sandboxes \cup Receipt

Init ==
    /\ phase = "called"
    /\ input \in Input
    /\ counters \in [builder : Spent, verifier : Spent, sandbox : Spent]
    /\ current \in Initials
    /\ seen = {current.patch}
    /\ used \in SUBSET PriorSandboxes
    /\ round = 0 /\ origin = 0 /\ facts = 0
    /\ made = None /\ session = None /\ open = {}
    /\ feedbacks = <<>> /\ lineages = <<>> /\ reproductions = <<>>
    /\ receipt = None

(***************************************************************************)
(* Every way out of the loop.                                              *)
(***************************************************************************)
Return(status, verdict, rounds) ==
    /\ phase' = "returned"
    /\ receipt' = [status |-> status, verdict |-> verdict, rounds |-> rounds]

\* An exception that no handler of the loop catches.
Raise == Return("raised", "INCONCLUSIVE", round)

GoOn(next) == phase' = next /\ UNCHANGED receipt

(***************************************************************************)
(* Before the loop: missing, malformed, mismatched or inconclusive facts   *)
(* are refused, others start the first round.                              *)
(***************************************************************************)
RefuseFacts ==
    /\ phase = "called" /\ ~input.confirmed
    /\ Return("INCONCLUSIVE", "INCONCLUSIVE", 0)
    /\ UNCHANGED <<inputs, place, made, seen, boxes, trail>>

StartLoop ==
    /\ phase = "called" /\ input.confirmed
    /\ round' = 1
    /\ GoOn("round")
    /\ UNCHANGED <<inputs, current, origin, facts, made, seen, boxes, trail>>

(***************************************************************************)
(* The head of a round: the clock, then the feedback, then the context,    *)
(* then the builder's budget.                                              *)
(***************************************************************************)
\* Fault: the receipt counts the round that was not run.
FaultClockCountsRound ==
    /\ phase = "round"
    /\ Return("REPAIR_BUDGET_EXHAUSTED", "INCONCLUSIVE", round)
    /\ UNCHANGED <<inputs, place, made, seen, boxes, trail>>

ClockExpired ==
    /\ phase = "round"
    /\ Return("REPAIR_BUDGET_EXHAUSTED", "INCONCLUSIVE", round - 1)
    /\ UNCHANGED <<inputs, place, made, seen, boxes, trail>>

\* The sanitizer finds a disclosure it cannot remove, or the facts are not
\* those of the execution the receipt digest names.
RefuseFeedback ==
    /\ phase = "round"
    /\ \/ Return("REPAIR_FEEDBACK_UNSAFE", "INCONCLUSIVE", round - 1)
       \/ Return("INCONCLUSIVE", "INCONCLUSIVE", round - 1)
    /\ UNCHANGED <<inputs, place, made, seen, boxes, trail>>

DeriveFeedback ==
    /\ phase = "round"
    /\ facts = origin
    /\ feedbacks' = Append(feedbacks, [candidate |-> current.id, origin |-> origin, round |-> round])
    /\ UNCHANGED <<input, place, made, seen, boxes, lineages, reproductions>>

\* create_builder_repair_context is outside every try of the loop.
ContextRaises ==
    /\ DeriveFeedback
    /\ current.kind = "unusable"
    /\ Raise
    /\ UNCHANGED counters

OutOfBuilderAttempts ==
    /\ DeriveFeedback
    /\ current.kind # "unusable" /\ counters.builder >= MaxBuilder
    /\ Return("REPAIR_BUDGET_EXHAUSTED", "INCONCLUSIVE", round - 1)
    /\ UNCHANGED counters

CallBuilder ==
    /\ DeriveFeedback
    /\ current.kind # "unusable" /\ counters.builder < MaxBuilder
    /\ counters' = [counters EXCEPT !.builder = @ + 1]
    /\ GoOn("building")

(***************************************************************************)
(* The builder answers.                                                    *)
(***************************************************************************)
BuilderFails ==
    /\ phase = "building"
    /\ \/ Return("REPAIR_INVALID_CANDIDATE", "CONTRADICTED", round)      \* capture failed
       \/ Return("REPAIR_INFRA_FAILURE", "INCONCLUSIVE", round - 1)      \* any other exception
       \/ Return("REPAIR_BUDGET_EXHAUSTED", "INCONCLUSIVE", round - 1)   \* it used too many tokens
    /\ UNCHANGED <<inputs, place, made, seen, boxes, trail>>

ReuseOfParent(c) == c.id = current.id
Unchanged(c) == c.patch = current.patch \/ c.tree = current.tree
LineageOf(c) == [parent |-> current, repaired |-> c, feedback |-> round]

RefuseCandidate(c) ==
    /\ phase = "building"
    /\ \/ /\ c.kind = "protected" \/ ReuseOfParent(c)
          /\ Return("REPAIR_INVALID_CANDIDATE", "CONTRADICTED", round)
       \/ /\ c.kind # "protected" /\ ~ReuseOfParent(c) /\ Unchanged(c)
          /\ Return("REPAIR_NO_PROGRESS", "CONTRADICTED", round)
    /\ made' = c
    /\ UNCHANGED <<inputs, place, seen, boxes, trail>>

Accountable(c) == c.kind # "protected" /\ ~ReuseOfParent(c) /\ ~Unchanged(c)

RecordLineage(c) ==
    /\ phase = "building"
    /\ Accountable(c)
    /\ made' = c
    /\ lineages' = Append(lineages, LineageOf(c))
    /\ UNCHANGED <<input, place, boxes, feedbacks, reproductions>>

RefuseRepeatedPatch(c) ==
    /\ RecordLineage(c)
    /\ c.patch \in seen
    /\ Return("REPAIR_NO_PROGRESS", "CONTRADICTED", round)
    /\ UNCHANGED <<seen, counters>>

\* RepairedCandidateSnapshot refuses another source, outside every try.
SnapshotRaises(c) ==
    /\ RecordLineage(c)
    /\ c.patch \notin seen /\ c.kind = "foreign"
    /\ seen' = seen \cup {c.patch}
    /\ Raise
    /\ UNCHANGED counters

HasExecutions == counters.sandbox < MaxSandbox /\ counters.verifier < MaxVerifier

OutOfExecutions(c) ==
    /\ RecordLineage(c)
    /\ c.patch \notin seen /\ c.kind # "foreign" /\ ~HasExecutions
    /\ seen' = seen \cup {c.patch}
    /\ Return("REPAIR_BUDGET_EXHAUSTED", "INCONCLUSIVE", round)
    /\ UNCHANGED counters

StartReproduction(c) ==
    /\ RecordLineage(c)
    /\ c.patch \notin seen /\ c.kind # "foreign" /\ HasExecutions
    /\ seen' = seen \cup {c.patch}
    /\ counters' = [builder |-> counters.builder, verifier |-> counters.verifier + 1,
                    sandbox |-> counters.sandbox + 1]
    /\ GoOn("creating")

(***************************************************************************)
(* The reproduction: a sandbox is made, the candidate materialized in it,  *)
(* the sealed witness deployed and run, the sandbox torn down.  That a     *)
(* teardown was asked for is what the code controls; it ignores failures.  *)
(***************************************************************************)
ReproductionFails == Return("REPAIR_INFRA_FAILURE", "INCONCLUSIVE", round)

\* The lock chain is refused, or the provider raises or answers nothing.
NoSandbox ==
    /\ phase = "creating"
    /\ ReproductionFails
    /\ UNCHANGED <<inputs, place, made, seen, boxes, trail>>

\* It is torn down at once.
BuilderSandboxAnswered(s) ==
    /\ phase = "creating" /\ s \in BuilderSandboxes
    /\ ReproductionFails
    /\ UNCHANGED <<inputs, place, made, seen, boxes, trail>>

SandboxAnswered(s) ==
    /\ phase = "creating" /\ s \notin BuilderSandboxes
    /\ session' = s
    /\ open' = open \cup {s}
    /\ GoOn("materializing")
    /\ UNCHANGED <<inputs, place, made, seen, used, trail>>

MaterializationFails ==
    /\ phase = "materializing"
    /\ open' = IF TeardownOnFailure THEN open \ {session} ELSE open
    /\ ReproductionFails
    /\ UNCHANGED <<inputs, place, made, seen, used, session, trail>>

RefusePriorSandbox ==
    /\ phase = "materializing" /\ session \in used
    /\ open' = open \ {session}
    /\ ReproductionFails
    /\ UNCHANGED <<inputs, place, made, seen, used, session, trail>>

Materialized ==
    /\ phase = "materializing" /\ session \notin used
    /\ GoOn("running")
    /\ UNCHANGED <<inputs, place, made, seen, boxes, trail>>

\* Fault: the deployment is outside the block that ends with the teardown.
FaultDeployLeavesSandbox ==
    /\ phase = "running"
    /\ ReproductionFails
    /\ UNCHANGED <<inputs, place, made, seen, boxes, trail>>

DeployFails ==
    /\ phase = "running"
    /\ open' = open \ {session}
    /\ ReproductionFails
    /\ UNCHANGED <<inputs, place, made, seen, used, session, trail>>

\* Fault: the sandbox of a reproduction is not remembered.
FaultSandboxForgotten(outcome) ==
    /\ phase = "running"
    /\ open' = open \ {session}
    /\ reproductions' =
           Append(reproductions, [candidate |-> made, sandbox |-> session, outcome |-> outcome])
    /\ UNCHANGED <<inputs, made, seen, used, session, feedbacks, lineages>>

\* The witness ran: the sandbox is torn down, the receipt made and recorded.
Reproduce(outcome) ==
    /\ phase = "running"
    /\ open' = open \ {session}
    /\ used' = used \cup {session}
    /\ reproductions' =
           Append(reproductions, [candidate |-> made, sandbox |-> session, outcome |-> outcome])
    /\ UNCHANGED <<inputs, made, seen, session, feedbacks, lineages>>

\* The base outcome is FAIL, so that a PASS is causal; a counterfactual that
\* does not fail refutes it, for a bug fix.
Refuted == input.change.bugFix /\ input.change.counterfactual \notin {None, "FAIL"}

PassVerified ==
    /\ Reproduce("PASS") /\ ~Refuted
    /\ Return("VERIFIED_AFTER_REPAIR", "VERIFIED", round)
    /\ UNCHANGED place

PassRefuted ==
    /\ Reproduce("PASS") /\ Refuted
    /\ Return("REPAIR_REGRESSED", "CONTRADICTED", round)
    /\ UNCHANGED place

\* Fault: a reproduction that errs is repeated without counting it.
FaultErrorRetried ==
    /\ phase = "running"
    /\ open' = open \ {session}
    /\ GoOn("creating")
    /\ UNCHANGED <<inputs, place, made, seen, used, session, trail>>

NoJudgement ==
    /\ \/ /\ Reproduce("ERROR") \/ Reproduce("TIMEOUT")
          /\ Return("REPAIR_INFRA_FAILURE", "INCONCLUSIVE", round)
       \/ /\ Reproduce("INVALID_PRECONDITION")
          /\ Return("INCONCLUSIVE", "INCONCLUSIVE", round)
    /\ UNCHANGED place

\* Fault: the next round repairs the candidate of this one's parent.
FaultParentKept ==
    /\ Reproduce("FAIL") /\ round < MaxRounds
    /\ origin' = Len(reproductions')
    /\ facts' = Len(reproductions')
    /\ round' = round + 1
    /\ GoOn("round")
    /\ UNCHANGED current

FailedAgain ==
    /\ Reproduce("FAIL") /\ round < MaxRounds
    /\ current' = made
    /\ origin' = Len(reproductions')
    /\ facts' = Len(reproductions')
    /\ round' = round + 1
    /\ GoOn("round")

FailedLast ==
    /\ Reproduce("FAIL") /\ round >= MaxRounds
    /\ Return("REPAIR_BUDGET_EXHAUSTED", "CONTRADICTED", MaxRounds)
    /\ UNCHANGED place

Returned == phase = "returned" /\ UNCHANGED vars

Step ==
    \/ RefuseFacts \/ StartLoop
    \/ ClockExpired \/ RefuseFeedback \/ ContextRaises \/ OutOfBuilderAttempts \/ CallBuilder
    \/ BuilderFails
    \/ \E c \in Candidate :
          \/ RefuseCandidate(c) \/ RefuseRepeatedPatch(c) \/ SnapshotRaises(c)
          \/ OutOfExecutions(c) \/ StartReproduction(c)
    \/ NoSandbox \/ \E s \in Sandboxes : BuilderSandboxAnswered(s) \/ SandboxAnswered(s)
    \/ MaterializationFails \/ RefusePriorSandbox \/ Materialized \/ DeployFails
    \/ PassVerified \/ PassRefuted \/ NoJudgement \/ FailedAgain \/ FailedLast

Next == Step \/ Returned

Spec == Init /\ [][Next]_vars

\* The builder, the provider and the materializer answer: the loop bounds how
\* often it calls them, the callee how long a call takes.
LiveSpec == Spec /\ WF_vars(Step)

(***************************************************************************)
(* Properties.                                                             *)
(***************************************************************************)
\* Every variable has the values the code gives it.
TypeOK ==
    /\ phase \in {"called", "round", "building", "creating", "materializing", "running", "returned"}
    /\ input \in Input /\ counters \in Counters
    /\ round \in 0..MaxRounds /\ origin \in 0..MaxRounds /\ facts \in 0..MaxRounds
    /\ current \in Candidate /\ made \in Candidate \cup {None}
    /\ seen \subseteq Patches /\ used \subseteq Sandboxes /\ open \subseteq Sandboxes
    /\ session \in Sandboxes \cup {None}
    /\ feedbacks \in Seq(Feedback) /\ lineages \in Seq(Lineage)
    /\ reproductions \in Seq(Reproduction)
    /\ receipt \in Receipt \cup {None}

\* Feedback k, and the parent of lineage k, are those of the execution that
\* failed in round k - 1: nothing is repaired on another candidate's evidence.
FeedbackOfParentFailure ==
    /\ \A k \in DOMAIN feedbacks : feedbacks[k].origin = k - 1 /\ feedbacks[k].round = k
    /\ \A k \in DOMAIN lineages :
          /\ feedbacks[lineages[k].feedback].candidate = lineages[k].parent.id
          /\ k > 1 => /\ reproductions[k - 1].outcome = "FAIL"
                       /\ lineages[k].parent = reproductions[k - 1].candidate
                       /\ lineages[k - 1].repaired = lineages[k].parent

\* The rounds a receipt reports agree with the evidence it lists: a feedback
\* for each round and at most one more, at most one round without a lineage
\* or a reproduction, and none missing when it grants PASS to the last.
AuditTrailMatchesRounds ==
    receipt # None =>
        LET n == receipt.rounds IN
        /\ receipt.status # "raised" => Len(feedbacks) \in {n, n + 1}
        /\ receipt.status # "raised" => Len(lineages) \in {n - 1, n}
        /\ Len(reproductions) <= Len(lineages) /\ Len(lineages) <= Len(reproductions) + 1
        /\ receipt.status = "VERIFIED_AFTER_REPAIR" =>
               /\ Len(reproductions) = n /\ Len(lineages) = n /\ Len(feedbacks) = n
               /\ reproductions[n].candidate = made
               /\ \A k \in 1..n : reproductions[k].outcome = "PASS" <=> k = n

\* Whatever fails, a sandbox that the loop obtained is torn down before
\* another is made and before the loop returns.
NoSandboxLeft ==
    TeardownOnFailure /\ phase \notin {"materializing", "running"} => open = {}

\* However the calls end, no more of them are made than the budget allows,
\* counting those of the loops that used the counters before.
CeilingsHold ==
    /\ counters.builder <= MaxBuilder
    /\ counters.verifier <= MaxVerifier
    /\ counters.sandbox <= MaxSandbox
    /\ Len(reproductions) <= counters.verifier /\ Len(reproductions) <= counters.sandbox
    /\ Len(lineages) <= counters.builder

\* A loop ends, whatever the callees answer.
LoopEnds == <>(phase = "returned")

\* Candidates are judged one at a time, each with a patch and a sandbox of its
\* own, and PASS is granted by the last judgement only.
Series == INSTANCE RepairSeries WITH
    MaxJudgements <- MaxRounds,
    judged <- [k \in DOMAIN reproductions |-> [patch |-> reproductions[k].candidate.patch,
                  sandbox |-> reproductions[k].sandbox, outcome |-> reproductions[k].outcome]],
    verdict <- IF receipt = None THEN "open"
               ELSE IF receipt.status = "VERIFIED_AFTER_REPAIR" THEN "verified" ELSE "unverified"
ImplementsSeries == Series!Spec

=============================================================================
