------------------------ MODULE CandidateRun_proofs ------------------------
(***************************************************************************)
(* Proofs about candidates: for any files, proposals, commands, modes and  *)
(* sandboxes, what a compliant candidate and its reproduction are, and what*)
(* becomes of the sandboxes.                                               *)
(***************************************************************************)
EXTENDS CandidateRun, TLAPS

\* Captured of commands that left the capture alone, a candidate says what it changed
\* of the source commit and its patch makes it of that commit; whatever they did, the
\* patch of one that is compliant changes nothing that is protected.
Faithful ==
    said = Silent =>
        /\ snapshot.changed = NameStatus(Base, snapshot.tree)
        /\ Applied(snapshot.patch) = snapshot.tree

Enforced ==
    /\ phase = "checking" => Faithful
    /\ result = "compliant" =>
           /\ phase \in {"enforced", "reproducing", "done"}
           /\ Faithful /\ DOMAIN snapshot.patch \cap Protected = {}
    /\ phase = "reproducing" => result = "compliant"
    /\ reproduced # None => phase = "done"

CandidateInv == Enforced /\ ReproducedCandidate

\* The sandbox that somebody has still to tear down: in the end the executor's
\* is torn down before the capture.
Given == IF mode.given THEN {CallerSandbox} ELSE {}
Owed ==
    IF phase \in {"probing", "materializing", "executing", "reproducing"}
       \/ (phase \in {"capturing", "checking"} /\ owner # "executor")
    THEN {box} ELSE {}

\* The checkpoints that may have been made by the time of a phase.
Made ==
    IF ~mode.disposable THEN {0}
    ELSE IF phase \in {"reproducing", "done"} THEN {0, 1, 2}
    ELSE IF phase \in {"materializing", "executing", "capturing", "checking", "enforced"} THEN {0, 1}
    ELSE {0}

Returned ==
    /\ checkpoints \in Made
    /\ mode.onFailure /\ mode.onCompletion => open \subseteq Given \cup Owed
    /\ phase \in {"materializing", "executing", "capturing", "checking"} =>
           \/ owner = "caller" /\ box \in Given
           \/ owner \in {"executor", "enforcer"}

-----------------------------------------------------------------------------
\* The patch of the base to a tree makes that tree of the base.
LEMMA PatchMakesTree ==
    ASSUME NEW to, to = [f \in Files |-> to[f]]
    PROVE  Applied(PatchOf(Base, to)) = to
<1>1. \A f \in Files : f \notin Touched(NameStatus(Base, to)) => to[f] = Base[f]
    BY DEF Touched, NameStatus
<1>2. /\ DOMAIN PatchOf(Base, to) = Touched(NameStatus(Base, to))
      /\ \A f \in DOMAIN PatchOf(Base, to) : PatchOf(Base, to)[f] = to[f]
    BY DEF PatchOf
<1>3. Applied(PatchOf(Base, to)) = [f \in Files |-> to[f]]
    BY <1>1, <1>2 DEF Applied
<1> QED BY <1>3

\* What a patch leaves out is as in the base.
LEMMA PatchLeavesAlone ==
    ASSUME NEW patch, NEW f \in Files, f \notin DOMAIN patch
    PROVE  Applied(patch)[f] = Base[f]
BY DEF Applied

\* Of the calls of the planning loop and of the enforcement, only the capture and the
\* check make or judge a candidate.
Calls ==
    \/ \E files \in SUBSET Files : AssembleContext(files)
    \/ \E s \in Sandboxes : Probe(s) \/ AcquireSandbox(s)
    \/ RefuseContext \/ ProbeEnds \/ OutOfModelCalls \/ CallModel \/ ReadAnswer
    \/ RefuseProposal \/ NoSandbox \/ ExecutionFails \/ Materialize \/ Mutate \/ RunCommand
    \/ FinishExecution \/ HeadMoved \/ Violation

LEMMA CallsStep ==
    ASSUME CandidateInv, Calls
    PROVE  CandidateInv'
<1>1. /\ UNCHANGED <<snapshot, reproduced>> /\ phase \notin {"enforced", "reproducing", "done"}
      /\ phase' \notin {"checking", "reproducing"}
      /\ result' # "compliant" \/ UNCHANGED result
    <2>1. CASE \E files \in SUBSET Files : AssembleContext(files)
        BY <2>1 DEF AssembleContext
    <2>2. CASE \E s \in Sandboxes : Probe(s) \/ AcquireSandbox(s)
        BY <2>2 DEF Probe, AcquireSandbox, Planning, Execution
    <2>3. CASE RefuseContext \/ ProbeEnds \/ OutOfModelCalls \/ CallModel \/ ReadAnswer
        BY <2>3 DEF RefuseContext, ProbeEnds, OutOfModelCalls, CallModel, ReadAnswer, Planning
    <2>4. CASE RefuseProposal \/ NoSandbox \/ ExecutionFails \/ HeadMoved \/ Violation
        BY <2>4 DEF RefuseProposal, NoSandbox, ExecutionFails, HeadMoved, Violation, Settled, Execution
    <2>5. CASE Materialize \/ Mutate \/ RunCommand \/ FinishExecution
        BY <2>5 DEF Materialize, Mutate, RunCommand, FinishExecution, Execution
    <2> QED BY <2>1, <2>2, <2>3, <2>4, <2>5 DEF Calls
<1>2. result # "compliant" /\ reproduced = None
    BY <1>1 DEF CandidateInv, Enforced
<1> QED BY <1>1, <1>2 DEF CandidateInv, Enforced, ReproducedCandidate

LEMMA CaptureStep ==
    ASSUME CandidateInv, NEW p \in Provenances, CaptureInSteps \/ CaptureBundled(p)
    PROVE  CandidateInv'
<1>1. /\ phase = "capturing" /\ HeadOfSource /\ phase' = "checking"
      /\ UNCHANGED <<result, reproduced, said>>
      /\ \E q : snapshot' = CandidateSnapshot(q)
    BY DEF CaptureInSteps, CaptureBundled, Captured, Execution, inner
<1>2. PICK q : snapshot' = CandidateSnapshot(q)
    BY <1>1
<1>3. ASSUME said = Silent
      PROVE  /\ snapshot'.tree = Index /\ snapshot'.changed = NameStatus(Base, Index)
             /\ snapshot'.patch = PatchOf(Base, Index)
    <2>1. HeadTree = Base /\ said.tree = None /\ said.changed = None /\ said.patch = None
        BY <1>1, <1>3 DEF HeadOfSource, HeadTree, Silent
    <2> QED BY <1>2, <2>1 DEF CandidateSnapshot
<1>4. Faithful'
    <2>1. Index = [f \in Files |-> Index[f]]
        BY DEF Index
    <2>2. Applied(PatchOf(Base, Index)) = Index
        BY <2>1, PatchMakesTree
    <2> QED BY <1>1, <1>3, <2>2 DEF Faithful, Applied
<1>5. result # "compliant" /\ reproduced = None
    BY <1>1 DEF CandidateInv, Enforced
<1> QED BY <1>1, <1>4, <1>5 DEF CandidateInv, Enforced, ReproducedCandidate

LEMMA ComplyStep ==
    ASSUME CandidateInv, Comply
    PROVE  CandidateInv'
<1>1. /\ phase = "checking" /\ phase' = "enforced" /\ result' = "compliant"
      /\ UNCHANGED <<snapshot, reproduced, said>> /\ DOMAIN snapshot.patch \cap Protected = {}
    BY DEF Comply, Settled, Execution, DiffTouchesProtected, inner
<1>2. Faithful /\ reproduced = None
    BY <1>1 DEF CandidateInv, Enforced
<1> QED BY <1>1, <1>2 DEF CandidateInv, Enforced, ReproducedCandidate, Faithful, Applied

LEMMA ReproductionStep ==
    ASSUME CandidateInv,
           \/ \E files \in SUBSET Files : RejectSnapshot(files) \/ NoFreshSandbox(files)
           \/ \E files \in SUBSET Files, s \in Sandboxes : StartReproduction(files, s)
           \/ ReproductionFails \/ UNCHANGED vars
    PROVE  CandidateInv'
<1>1. CASE UNCHANGED vars
    BY <1>1 DEF vars, inner, CandidateInv, Enforced, ReproducedCandidate, Faithful, Applied
<1>2. CASE ~UNCHANGED vars
    <2>1. /\ UNCHANGED <<snapshot, result, reproduced, said>> /\ phase \in {"enforced", "reproducing"}
          /\ phase' \in {"reproducing", "done"} /\ result = "compliant"
        BY <1>2 DEF RejectSnapshot, NoFreshSandbox, StartReproduction, ReproductionFails, Reproduction,
           ReproductionEnds, CandidateInv, Enforced, inner
    <2>2. reproduced = None
        BY <2>1 DEF CandidateInv, Enforced
    <2> QED BY <2>1, <2>2 DEF CandidateInv, Enforced, ReproducedCandidate, Faithful, Applied
<1> QED BY <1>1, <1>2

LEMMA ReproduceStep ==
    ASSUME CandidateInv, NEW p \in Provenances, Reproduce(p)
    PROVE  CandidateInv'
<1>1. /\ phase = "reproducing" /\ phase' = "done" /\ box # snapshot.sandbox
      /\ (p = "LIVE_NEBIUS" => snapshot.provenance = p)
      /\ UNCHANGED <<snapshot, result, said>> /\ reproduced' = ReproductionResult(p)
    BY DEF Reproduce, FreshSandbox, ReproductionEnds, Reproduction, inner
<1>2. ReproducedTree = snapshot.tree /\ NameStatus(Base, ReproducedTree) = snapshot.changed
    BY DEF Reproduce, TreesAgree
<1>3. /\ reproduced'.tree = snapshot.tree /\ reproduced'.sandbox = box /\ reproduced'.provenance = p
    BY <1>1, <1>2 DEF ReproductionResult
<1>4. result = "compliant" /\ Faithful /\ DOMAIN snapshot.patch \cap Protected = {}
    BY <1>1 DEF CandidateInv, Enforced
<1>5. \A f \in Protected : f \in Files /\ Applied(snapshot.patch)[f] = Base[f]
    BY <1>4, TreeAssumption, PatchLeavesAlone
<1>6. \A f \in Ignored \cup Protected : ReproducedTree[f] = Base[f]
    BY <1>5, TreeAssumption DEF ReproducedTree
<1>7. ReproducedCandidate'
    BY <1>1, <1>2, <1>3, <1>6 DEF ReproducedCandidate, NameStatus
<1>8. Enforced'
    BY <1>1, <1>4 DEF Enforced, Faithful, Applied
<1> QED BY <1>7, <1>8 DEF CandidateInv

LEMMA CandidateStep == CandidateInv /\ [Next]_vars => CandidateInv'
<1> SUFFICES ASSUME CandidateInv, [Next]_vars PROVE CandidateInv'
    OBVIOUS
<1>1. CASE Calls
    BY <1>1, CallsStep
<1>2. CASE CaptureInSteps \/ \E p \in Provenances : CaptureBundled(p)
    BY <1>2, CaptureStep DEF Provenances
<1>3. CASE \E p \in Provenances : Reproduce(p)
    BY <1>3, ReproduceStep
<1>4. CASE \/ \E files \in SUBSET Files : RejectSnapshot(files) \/ NoFreshSandbox(files)
           \/ \E files \in SUBSET Files, s \in Sandboxes : StartReproduction(files, s)
           \/ ReproductionFails \/ UNCHANGED vars
    BY <1>4, ReproductionStep
<1>5. Stopped => UNCHANGED vars
    BY DEF Stopped
<1> QED BY <1>1, <1>2, <1>3, <1>4, <1>5, ComplyStep DEF Next, Calls

\* What was enforced of a capture stays true of the candidate until it is handed
\* out, and what is reproduced is what was captured, also when the commands forged
\* what the capture read (execution.py, capture.py, enforcement.py).
THEOREM CandidateInvariant == Spec => []CandidateInv
<1>1. Init => CandidateInv
    BY NoneAssumption DEF Init, CandidateInv, Enforced, ReproducedCandidate
<1> QED BY <1>1, CandidateStep, PTL DEF Spec

\* The patch of a compliant candidate leaves every protected file alone; and whatever
\* a proposal deletes and its commands do to the files, the index and the commits of
\* the sandbox, as long as they leave the capture's answers alone the candidate does
\* so itself and says what it changed of the source commit.
THEOREM CompliantIsFaithful == Spec => []CompliantCandidate
<1>1. CandidateInv => CompliantCandidate
    <2> SUFFICES ASSUME CandidateInv, result = "compliant"
                 PROVE  /\ \A f \in Protected : Applied(snapshot.patch)[f] = Base[f]
                        /\ said = Silent =>
                              /\ \A f \in Protected : snapshot.tree[f] = Base[f]
                              /\ snapshot.changed = NameStatus(Base, snapshot.tree)
                              /\ Applied(snapshot.patch) = snapshot.tree
        BY DEF CompliantCandidate
    <2>1. Faithful /\ DOMAIN snapshot.patch \cap Protected = {}
        BY DEF CandidateInv, Enforced
    <2>2. \A f \in Protected : Applied(snapshot.patch)[f] = Base[f]
        BY <2>1, TreeAssumption, PatchLeavesAlone
    <2> QED BY <2>1, <2>2 DEF Faithful
<1> QED BY <1>1, CandidateInvariant, PTL

\* A reproduction is of the captured tree, in another sandbox, with every
\* protected and ignored file as the source has it, whatever the commands did to the
\* sandbox and made the capture read.
THEOREM ReproductionIsFaithful == Spec => []ReproducedCandidate
<1>1. CandidateInv => ReproducedCandidate
    BY DEF CandidateInv
<1> QED BY <1>1, CandidateInvariant, PTL

-----------------------------------------------------------------------------
LEMMA ReturnedStep == Returned /\ [Next]_vars => Returned'
<1> SUFFICES ASSUME Returned, [Next]_vars PROVE Returned'
    OBVIOUS
<1> USE DEF Returned, Given, Owed, Made
<1>1. ASSUME NEW files \in SUBSET Files, AssembleContext(files) PROVE Returned'
    BY <1>1 DEF AssembleContext
<1>2. ASSUME NEW s \in Sandboxes, Probe(s) PROVE Returned'
    BY <1>2 DEF Probe, Planning
<1>3. ASSUME NEW s \in Sandboxes, AcquireSandbox(s) PROVE Returned'
    BY <1>3 DEF AcquireSandbox, Checkpointed, Execution
<1>4. CASE RefuseContext \/ ProbeEnds \/ OutOfModelCalls \/ CallModel \/ ReadAnswer
    BY <1>4 DEF RefuseContext, ProbeEnds, OutOfModelCalls, CallModel, ReadAnswer, Planning
<1>5. CASE RefuseProposal \/ NoSandbox
    BY <1>5 DEF RefuseProposal, NoSandbox, Checkpointed, Settled, Execution
<1>6. CASE ExecutionFails \/ HeadMoved
    BY <1>6 DEF ExecutionFails, HeadMoved, OpenAfterFailure, Settled, Execution
<1>7. CASE Materialize \/ Mutate \/ RunCommand
    BY <1>7 DEF Materialize, Mutate, RunCommand, Execution
<1>8. CASE FinishExecution
    BY <1>8 DEF FinishExecution, Execution
<1>9. CASE CaptureInSteps \/ \E p \in Provenances : CaptureBundled(p)
    BY <1>9 DEF CaptureInSteps, CaptureBundled, Captured, Execution
<1>10. CASE Violation \/ Comply
    BY <1>10 DEF Violation, Comply, Settled, Execution
<1>11. CASE \E files \in SUBSET Files : RejectSnapshot(files) \/ NoFreshSandbox(files)
    BY <1>11 DEF RejectSnapshot, NoFreshSandbox, Checkpointed, ReproductionEnds, Reproduction
<1>12. CASE \E files \in SUBSET Files, s \in Sandboxes : StartReproduction(files, s)
    BY <1>12 DEF StartReproduction, Checkpointed, Reproduction
<1>13. CASE ReproductionFails \/ \E p \in Provenances : Reproduce(p)
    BY <1>13 DEF ReproductionFails, Reproduce, ReproductionEnds, Reproduction
<1>14. CASE Stopped \/ UNCHANGED vars
    BY <1>14 DEF Stopped, vars
<1> QED BY <1>1, <1>2, <1>3, <1>4, <1>5, <1>6, <1>7, <1>8, <1>9, <1>10, <1>11, <1>12, <1>13, <1>14
        DEF Next

\* Configured to tear down, the builder's three layers leave no sandbox of their
\* own, wherever they fail, but those of at most two checkpoints.
THEOREM SandboxesAreReturned == Spec => []SandboxesReturned
<1>1. Init => Returned
    BY DEF Init, Returned, Given, Made
<1>2. Returned => SandboxesReturned
    BY DEF Returned, Given, Owed, Made, SandboxesReturned
<1> QED BY <1>1, <1>2, ReturnedStep, PTL DEF Spec

=============================================================================
