---------------------------- MODULE CandidateRun ----------------------------
(***************************************************************************)
(* How a candidate comes to be (builder/): the context is assembled, the   *)
(* model asked for a proposal, the proposal executed in a sandbox and its  *)
(* outcome captured and checked, and the captured patch reproduced in      *)
(* another sandbox.  The code is sequential; what is not its own is the    *)
(* model, the sandbox provider, the materializer, and the proposed         *)
(* commands, which may do anything to the sandbox they run in: write any   *)
(* file, commit, hide a file from git, stage one that git ignores, and     *)
(* change what the capture reads, since it reads git's answers in the same *)
(* sandbox and, in the bundled mode, in the same output.                   *)
(*                                                                         *)
(* A tree is a function from files to contents; a directory is a path that *)
(* only a deletion can act on.                                             *)
(***************************************************************************)
EXTENDS Integers, Sequences

CONSTANTS
    Files, Contents, Absent,
    Base,              \* the tree of the source commit
    Protected,         \* files of the canonical protected manifest
    Ignored,           \* files git add -A leaves out, until somebody stages them
    Within,            \* the files of each directory that may be proposed
    Proposals,         \* what the model may answer
    MaxAdmitted,       \* max_admitted_files
    MaxActions,        \* max_file_actions
    MaxModelCalls,     \* max_model_calls
    MaxEffects,        \* bound: what the commands of a proposal do, in steps
    Reports,           \* what they may make the capture read
    Sandboxes,         \* identities the provider may answer with
    CallerSandbox,     \* one that the caller may hand in
    Modes,
    None

Tree == [Files -> Contents \cup {Absent}]
Paths == Files \cup DOMAIN Within
Action == [kind : {"CREATE", "MODIFY", "DELETE"}, path : Paths, content : Contents]
Proposal == [actions : Seq(Action), commands : {"none", "allowed", "forbidden"}]

\* git diff --name-status, with a renaming as a deletion and an addition.
NameStatus(from, to) ==
    LET differ == {f \in Files : from[f] # to[f]} IN
    [added |-> {f \in differ : from[f] = Absent},
     deleted |-> {f \in differ : to[f] = Absent},
     modified |-> {f \in differ : Absent \notin {from[f], to[f]}}]
Touched(changed) == changed.added \cup changed.modified \cup changed.deleted

\* git diff --binary: what becomes of each file that differs.
PatchOf(from, to) == [f \in Touched(NameStatus(from, to)) |-> to[f]]

\* Of the four answers a capture reads, those that are not git's own: that HEAD is
\* the source's, and another tree, other changed files, another patch.
Change == [added : SUBSET Files, deleted : SUBSET Files, modified : SUBSET Files]
Patches == UNION {[fs -> Contents \cup {Absent}] : fs \in SUBSET Files}
Report == [head : BOOLEAN, tree : Tree \cup {None}, changed : Change \cup {None},
           patch : Patches \cup {None}]
Silent == [head |-> FALSE, tree |-> None, changed |-> None, patch |-> None]

\* How provider and executor are configured, and whether the caller hands in
\* a sandbox.
Mode == [disposable : BOOLEAN,     \* is_disposable_provider
         bundled : BOOLEAN,        \* bundled_execution
         live : BOOLEAN,           \* the adapter's results say LIVE_NEBIUS
         given : BOOLEAN,          \* sandbox_handle
         onFailure : BOOLEAN, onCompletion : BOOLEAN]   \* teardown_on_...

ASSUME TreeAssumption ==
    /\ Base \in Tree /\ Protected \subseteq Files /\ Ignored \subseteq Files
    /\ Absent \notin Contents
    /\ \A f \in Ignored : Base[f] = Absent
ASSUME PathsAssumption ==
    DOMAIN Within \cap Files = {} /\ \A d \in DOMAIN Within : Within[d] \subseteq Files
ASSUME ProposalsAssumption == Proposals \subseteq Proposal
ASSUME LimitsAssumption == {MaxAdmitted, MaxActions, MaxModelCalls, MaxEffects} \subseteq Nat
ASSUME SandboxAssumption == CallerSandbox \in Sandboxes
ASSUME NoneAssumption == None \notin Sandboxes \cup Proposals /\ None # "compliant"
ASSUME ModesAssumption == Modes \subseteq Mode
ASSUME ReportsAssumption == Reports \subseteq Report

VARIABLES
    phase,      \* the call that is awaited
    mode,
    context,    \* the admitted files, which the context digest names
    calls,      \* _model_call_count
    proposal,
    box,        \* the sandbox that is worked in
    owner,      \* who made it
    open,       \* sandboxes made or handed in and not torn down
    checkpoints,   \* how often the materializer worked in a sandbox of its own
    work, head, hidden, staged,    \* what git and the file system of the sandbox hold
    said,       \* what the commands make the capture read instead
    applied,    \* mutations done
    effects,    \* and what commands did since
    snapshot,   \* the captured candidate
    result,     \* how the enforcement ended
    reproduced  \* the reproduction's result

inner == <<work, head, hidden, staged, said, applied, effects>>
vars == <<phase, mode, context, calls, proposal, box, owner, open, checkpoints, inner,
          snapshot, result, reproduced>>

Provenances == {"LOCAL_EXECUTION", "LIVE_NEBIUS"}

Init ==
    /\ phase = "context"
    /\ mode \in {m \in Modes : m.disposable => m.bundled}    \* InvalidExecutionModeError
    /\ open = IF mode.given THEN {CallerSandbox} ELSE {}
    /\ context = None /\ calls = 0 /\ proposal = None /\ box = None /\ owner = None
    /\ work = Base /\ head = None /\ hidden = {} /\ staged = {} /\ said = Silent
    /\ applied = 0 /\ effects = 0 /\ checkpoints = 0
    /\ snapshot = None /\ result = None /\ reproduced = None

(***************************************************************************)
(* The context: an allowlist of files that exist and are not protected.    *)
(***************************************************************************)
Admissible(files) ==
    /\ files \cap Protected = {}
    /\ \A f \in files : Base[f] # Absent
    /\ \E n \in 0..MaxAdmitted : \E e \in [1..n -> files] : files = {e[k] : k \in 1..n}

AssembleContext(files) ==
    /\ phase = "context"
    /\ Admissible(files)
    /\ context' = files
    /\ phase' = "idle"
    /\ UNCHANGED <<mode, calls, proposal, box, owner, open, checkpoints, inner, snapshot, result,
                   reproduced>>

(***************************************************************************)
(* The plan and code loop.  A caller may run it again, also after a call   *)
(* that failed: the count of model calls belongs to the loop's instance.   *)
(***************************************************************************)
Planning == UNCHANGED <<mode, context, checkpoints, inner, snapshot, result, reproduced>>

\* The context digest is computed again and the prompt scanned for secrets.
RefuseContext ==
    /\ phase = "idle"
    /\ phase' = "done"
    /\ Planning /\ UNCHANGED <<calls, proposal, box, owner, open>>

\* The probe needs a sandbox of its own, torn down however it ends.
Probe(s) ==
    /\ phase = "idle" /\ s \notin open
    /\ box' = s /\ owner' = "loop" /\ open' = open \cup {s}
    /\ phase' = "probing"
    /\ Planning /\ UNCHANGED <<calls, proposal>>

ProbeEnds ==
    /\ phase = "probing"
    /\ box' = None /\ owner' = None /\ open' = open \ {box}
    /\ phase' \in {"inferring", "idle"}       \* idle: the probe failed
    /\ Planning /\ UNCHANGED <<calls, proposal>>

OutOfModelCalls ==
    /\ phase = "inferring" /\ calls >= MaxModelCalls
    /\ phase' = "idle"
    /\ Planning /\ UNCHANGED <<calls, proposal, box, owner, open>>

\* The call is counted before it is made; it may raise or time out.
CallModel ==
    /\ phase = "inferring" /\ calls < MaxModelCalls
    /\ calls' = calls + 1
    /\ phase' \in {"answered", "idle"}
    /\ Planning /\ UNCHANGED <<proposal, box, owner, open>>

\* The answer holds a secret, or is no JSON object with a plan and actions on
\* paths of the repository; or it is a proposal.
ReadAnswer ==
    /\ phase = "answered"
    /\ \/ phase' = "idle" /\ proposal' = None
       \/ phase' = "proposed" /\ proposal' \in Proposals
    /\ Planning /\ UNCHANGED <<calls, box, owner, open>>

(***************************************************************************)
(* Enforcement: preflight, sandbox, materialization, mutations, commands,  *)
(* capture, the check of the actual diff.                                  *)
(***************************************************************************)
\* Too many actions, an action on a path of the manifest, or a path twice.
ActionsRefused(p) ==
    \/ Len(p.actions) > MaxActions
    \/ \E k \in DOMAIN p.actions :
          \/ p.actions[k].path \in Protected
          \/ \E j \in 1..(k - 1) : p.actions[j].path = p.actions[k].path

\* Too many or too long, a secret, a fork bomb, a nested shell or a daemon.
CommandsRefused(p) == p.commands = "forbidden"

Refused(p) == ActionsRefused(p) \/ CommandsRefused(p)

Settled(outcome) == phase' = "enforced" /\ result' = outcome

RefuseProposal ==
    /\ phase = "proposed" /\ Refused(proposal)
    /\ Settled("refused")
    /\ UNCHANGED <<mode, context, calls, proposal, box, owner, open, checkpoints, inner, snapshot,
                   reproduced>>

Execution == UNCHANGED <<mode, context, calls, proposal, reproduced>>

\* On a disposable provider the materializer makes a checkpoint of the base, in a
\* sandbox whose handle nobody here gets.
Checkpointed == checkpoints' = IF mode.disposable THEN checkpoints + 1 ELSE checkpoints

\* A given sandbox is used; otherwise one is made, on a disposable provider by
\* the executor and from the checkpoint.
AcquireSandbox(s) ==
    /\ phase = "proposed" /\ ~Refused(proposal)
    /\ \/ mode.given /\ s = CallerSandbox /\ owner' = "caller"
       \/ ~mode.given /\ s \notin open /\ owner' = IF mode.disposable THEN "executor" ELSE "enforcer"
    /\ box' = s /\ open' = open \cup {s}
    /\ Checkpointed
    /\ phase' = "materializing"
    /\ Execution /\ UNCHANGED <<inner, snapshot, result>>

\* The checkpoint, its record, the image of the given sandbox or the provider failed.
NoSandbox ==
    /\ phase = "proposed" /\ ~Refused(proposal)
    /\ Checkpointed \/ UNCHANGED checkpoints
    /\ Settled("failed")
    /\ Execution /\ UNCHANGED <<box, owner, open, inner, snapshot>>

\* What is left open when something in the execution fails: whoever made the
\* sandbox tears it down, if so configured.  A teardown that fails is swallowed, here
\* and elsewhere, and counts as one.
OpenAfterFailure == IF owner # "caller" /\ mode.onFailure THEN open \ {box} ELSE open

ExecutionFails ==
    /\ phase \in {"materializing", "executing", "capturing"}
    /\ open' = OpenAfterFailure
    /\ Settled("failed")
    /\ Execution /\ UNCHANGED <<box, owner, checkpoints, inner, snapshot>>

\* The record of the materializer is verified against the envelope.
Materialize ==
    /\ phase = "materializing"
    /\ work' = Base /\ head' = None /\ hidden' = {} /\ staged' = {}
    /\ said' = Silent /\ applied' = 0 /\ effects' = 0
    /\ phase' = "executing"
    /\ Execution /\ UNCHANGED <<box, owner, open, checkpoints, snapshot, result>>

Reach(path) == IF path \in Files THEN {path} ELSE Within[path]

\* The preconditions of the mutation scripts (exit codes 101, 102, 103).
Possible(tree, a) ==
    CASE a.kind = "CREATE" -> \A f \in Reach(a.path) : tree[f] = Absent
      [] a.kind = "MODIFY" -> a.path \in Files /\ tree[a.path] # Absent
      [] a.kind = "DELETE" -> \E f \in Reach(a.path) : tree[f] # Absent

After(tree, a) ==
    [f \in Files |-> IF f \notin Reach(a.path) THEN tree[f]
                     ELSE IF a.kind = "DELETE" THEN Absent ELSE a.content]

\* Of several steps in the sandbox, or part of the bundled script.
Mutate ==
    /\ phase = "executing" /\ applied < Len(proposal.actions)
    /\ LET a == proposal.actions[applied + 1] IN
          /\ Possible(work, a) /\ (a.kind = "CREATE" => a.path \in Files)
          /\ work' = After(work, a)
    /\ applied' = applied + 1
    /\ Execution /\ UNCHANGED <<phase, box, owner, open, checkpoints, head, hidden, staged, said,
                                effects, snapshot, result>>

\* What git add -A sees.
Unseen == hidden \cup (Ignored \ staged)
Index == [f \in Files |-> IF f \in Unseen THEN Base[f] ELSE work[f]]

Command ==
    \/ /\ \E f \in Files, c \in Contents \cup {Absent} : work' = [work EXCEPT ![f] = c]
       /\ UNCHANGED <<head, hidden, staged, said>>
    \/ head' = Index /\ UNCHANGED <<work, hidden, staged, said>>                 \* git commit
    \/ \E f \in Files : hidden' = hidden \cup {f} /\ UNCHANGED <<work, head, staged, said>>
    \/ \E f \in Ignored : staged' = staged \cup {f} /\ UNCHANGED <<work, head, hidden, said>>
    \/ said' \in Reports /\ UNCHANGED <<work, head, hidden, staged>>

\* A command's exit code is recorded, not judged.
RunCommand ==
    /\ phase = "executing" /\ applied = Len(proposal.actions) /\ proposal.commands = "allowed"
    /\ effects < MaxEffects /\ effects' = effects + 1
    /\ Command
    /\ Execution /\ UNCHANGED <<phase, box, owner, open, checkpoints, applied, snapshot, result>>

\* The executor's own teardown precedes the snapshot: in the bundled mode what
\* the script printed is all that the capture needs.
FinishExecution ==
    /\ phase = "executing" /\ applied = Len(proposal.actions)
    /\ open' = IF owner = "executor" /\ mode.onCompletion THEN open \ {box} ELSE open
    /\ phase' = "capturing"
    /\ Execution /\ UNCHANGED <<box, owner, checkpoints, inner, snapshot, result>>

HeadTree == IF head = None THEN Base ELSE head

\* Fault: the commit of the sandbox is not compared with the source's.
FaultAnyHead == phase = "capturing"

HeadOfSource == head = None \/ said.head

CandidateSnapshot(p) ==
    [tree |-> IF said.tree = None THEN Index ELSE said.tree,
     changed |-> IF said.changed = None THEN NameStatus(HeadTree, Index) ELSE said.changed,
     patch |-> IF said.patch = None THEN PatchOf(HeadTree, Index) ELSE said.patch,
     context |-> context, sandbox |-> box, provenance |-> p]

\* The parts are taken as they are read: nothing compares tree, changes and patch.
Captured(p) ==
    /\ snapshot' = CandidateSnapshot(p)
    /\ phase' = "checking"
    /\ Execution /\ UNCHANGED <<box, owner, open, checkpoints, inner, result>>

\* Step by step: the capture's own commands in the sandbox of the execution.
CaptureInSteps ==
    /\ phase = "capturing" /\ ~mode.bundled /\ HeadOfSource
    /\ Captured("LOCAL_EXECUTION")

\* From what the bundled script printed, the commands' own output in it.  The evidence
\* is live if the adapter says so and names an operation of the provider's own.
ProviderOperation(p) == p = "LIVE_NEBIUS" => mode.live
CaptureBundled(p) ==
    /\ phase = "capturing" /\ mode.bundled /\ HeadOfSource
    /\ ProviderOperation(p)
    /\ Captured(p)

HeadMoved ==
    /\ phase = "capturing" /\ ~HeadOfSource
    /\ open' = OpenAfterFailure
    /\ Settled("failed")
    /\ Execution /\ UNCHANGED <<box, owner, checkpoints, inner, snapshot>>

\* Of the snapshot's parts only the patch is looked at.
DiffTouchesProtected == DOMAIN snapshot.patch \cap Protected # {}

\* The handle the enforcer knows is torn down whoever made it.  It knows none
\* that the executor made.
Violation ==
    /\ phase = "checking" /\ DiffTouchesProtected
    /\ open' = IF owner = "executor" THEN open ELSE open \ {box}
    /\ Settled("violation")
    /\ Execution /\ UNCHANGED <<box, owner, checkpoints, inner, snapshot>>

\* Fault: the sandbox is left to the caller, whoever made it.
FaultLeaveSandbox ==
    /\ phase = "checking" /\ ~DiffTouchesProtected
    /\ Settled("compliant")
    /\ Execution /\ UNCHANGED <<box, owner, open, checkpoints, inner, snapshot>>

Comply ==
    /\ phase = "checking" /\ ~DiffTouchesProtected
    /\ open' = IF owner = "enforcer" /\ mode.onCompletion THEN open \ {box} ELSE open
    /\ Settled("compliant")
    /\ Execution /\ UNCHANGED <<box, owner, checkpoints, inner, snapshot>>

(***************************************************************************)
(* Reproduction of a snapshot under an envelope: the captured patch on a   *)
(* fresh base in another sandbox.                                          *)
(***************************************************************************)
Reproduction == UNCHANGED <<mode, context, calls, proposal, snapshot, result, inner>>
ReproductionEnds == phase' = "done" /\ box' = None /\ owner' = None

\* Another context, a protected path in the patch, or a live adapter for a
\* candidate that was not captured live.
Rejects(files) ==
    \/ files # snapshot.context
    \/ DiffTouchesProtected
    \/ mode.live /\ snapshot.provenance # "LIVE_NEBIUS"

RejectSnapshot(files) ==
    /\ phase = "enforced" /\ result = "compliant" /\ Rejects(files)
    /\ ReproductionEnds
    /\ Reproduction /\ UNCHANGED <<open, checkpoints, reproduced>>

\* The checkpoint, its record or the provider failed.
NoFreshSandbox(files) ==
    /\ phase = "enforced" /\ result = "compliant" /\ ~Rejects(files)
    /\ Checkpointed \/ UNCHANGED checkpoints
    /\ ReproductionEnds
    /\ Reproduction /\ UNCHANGED <<open, reproduced>>

StartReproduction(files, s) ==
    /\ phase = "enforced" /\ result = "compliant" /\ ~Rejects(files)
    /\ Checkpointed
    /\ box' = s /\ owner' = "reproduction" /\ open' = open \cup {s}
    /\ phase' = "reproducing"
    /\ Reproduction /\ UNCHANGED reproduced

FreshSandbox == box # snapshot.sandbox

\* git apply on the fresh base.
Applied(patch) == [f \in Files |-> IF f \in DOMAIN patch THEN patch[f] ELSE Base[f]]

\* Nothing is applied for a candidate that says it changed nothing, or has no patch.
NoChange == Touched(snapshot.changed) = {} \/ DOMAIN snapshot.patch = {}

\* The patch on the base, staged anew: an ignored file is left out again.
ReproducedTree ==
    [f \in Files |-> IF f \in Ignored \/ NoChange THEN Base[f] ELSE Applied(snapshot.patch)[f]]

\* Fault: it is enough that the patch applies.
FaultPatchApplies == phase = "reproducing"

TreesAgree ==
    /\ ReproducedTree = snapshot.tree
    /\ NameStatus(Base, ReproducedTree) = snapshot.changed

\* Materialization, transport or git may fail, the tree may be another one.
ReproductionFails ==
    /\ phase = "reproducing"
    /\ open' = IF mode.onFailure THEN open \ {box} ELSE open
    /\ ReproductionEnds
    /\ Reproduction /\ UNCHANGED <<checkpoints, reproduced>>

ReproductionResult(p) == [tree |-> ReproducedTree, sandbox |-> box, provenance |-> p]

Reproduce(p) ==
    /\ phase = "reproducing" /\ FreshSandbox /\ TreesAgree
    /\ ProviderOperation(p) /\ (p = "LIVE_NEBIUS" => mode.bundled /\ snapshot.provenance = p)
    /\ reproduced' = ReproductionResult(p)
    /\ open' = IF mode.onCompletion THEN open \ {box} ELSE open
    /\ ReproductionEnds
    /\ Reproduction /\ UNCHANGED checkpoints

Stopped ==
    /\ \/ phase = "done"
       \/ phase = "enforced" /\ result # "compliant"
       \/ phase = "idle" /\ Sandboxes \subseteq open
    /\ UNCHANGED vars

Next ==
    \/ \E files \in SUBSET Files : AssembleContext(files)
    \/ \E s \in Sandboxes : Probe(s) \/ AcquireSandbox(s)
    \/ RefuseContext \/ ProbeEnds \/ OutOfModelCalls \/ CallModel \/ ReadAnswer
    \/ RefuseProposal \/ NoSandbox \/ ExecutionFails \/ Materialize \/ Mutate \/ RunCommand
    \/ FinishExecution \/ CaptureInSteps \/ HeadMoved \/ Violation \/ Comply
    \/ \E p \in Provenances : CaptureBundled(p) \/ Reproduce(p)
    \/ \E files \in SUBSET Files : RejectSnapshot(files) \/ NoFreshSandbox(files)
    \/ \E files \in SUBSET Files, s \in Sandboxes : StartReproduction(files, s)
    \/ ReproductionFails \/ Stopped

Spec == Init /\ [][Next]_vars

(***************************************************************************)
(* Properties.                                                             *)
(***************************************************************************)

\* Whatever the proposal deleted and its commands wrote, committed, hid or staged,
\* a candidate found compliant leaves every protected file as the source commit has
\* it, the files it says it changed are those in which it differs from that commit,
\* and its patch makes it of that commit.  This is not said of commands that alter
\* what the capture reads, through git's configuration or by printing the script's
\* own markers: the enforcement looks at the patch alone and compares it with
\* nothing, so of such a candidate only the patch is known to leave protected files
\* alone.  What is reproduced of one is another matter (ReproducedCandidate).
CompliantCandidate ==
    result = "compliant" =>
        /\ \A f \in Protected : Applied(snapshot.patch)[f] = Base[f]
        /\ said = Silent =>
              /\ \A f \in Protected : snapshot.tree[f] = Base[f]
              /\ snapshot.changed = NameStatus(Base, snapshot.tree)
              /\ Applied(snapshot.patch) = snapshot.tree

\* Whatever the commands did and made the capture read, a reproduction is of the
\* tree that was captured, with the files changed that the candidate says, made in
\* another sandbox than the candidate's; it leaves ignored and protected files as the
\* source has them, and is called live only if the candidate's capture was.
ReproducedCandidate ==
    reproduced # None =>
        /\ reproduced.tree = snapshot.tree
        /\ snapshot.changed = NameStatus(Base, reproduced.tree)
        /\ reproduced.sandbox # snapshot.sandbox
        /\ \A f \in Ignored \cup Protected : reproduced.tree[f] = Base[f]
        /\ reproduced.provenance = "LIVE_NEBIUS" => snapshot.provenance = "LIVE_NEBIUS"

\* Configured to tear down, the builder leaves no sandbox whose handle it was given,
\* whichever of its three layers made it and wherever it failed; what nobody tears
\* down are the sandboxes of the checkpoints, on a disposable provider one for the
\* execution and one for the reproduction.
SandboxesReturned ==
    /\ mode.onFailure /\ mode.onCompletion
    /\ phase \in {"idle", "inferring", "answered", "proposed", "enforced", "done"}
    => /\ open \subseteq IF mode.given THEN {CallerSandbox} ELSE {}
       /\ checkpoints <= IF ~mode.disposable THEN 0 ELSE IF phase = "done" THEN 2 ELSE 1

=============================================================================
