------------------------- MODULE VerificationPipeline -------------------------
(***************************************************************************)
(* `basebreak verify` (cli/runner.py): one run of the pipeline over the    *)
(* demonstration target, which lies in a working copy that others edit and *)
(* commit to meanwhile, up to the three files of the run (cli/persistence) *)
(* and what the other commands read of them (cli/commands.py).             *)
(*                                                                         *)
(* The target is two things: the file the canonical patch repairs, and the *)
(* rest.  A digest of a directory stands for its contents.                 *)
(***************************************************************************)
EXTENDS Integers, Sequences

CONSTANTS
    MaxChanges,  \* edits and commits by others during the run
    None

ASSUME ChangesAssumption == MaxChanges \in Nat
ASSUME NoneAssumption == None \notin {"returned", "raised", "died"}

Tree == [cli : {"defect", "fixed"}, rest : {"kept", "altered"}]
Worlds == {"BASE", "CANDIDATE", "COUNTERFACTUAL"}
Outcomes == {"PASS", "FAIL", "TIMEOUT", "ERROR"}

VARIABLES
    disk,       \* the target in the working copy
    history,    \* the target in each commit, HEAD last
    changes,    \* what others changed so far
    disturbed,  \* whether one fell between reading HEAD and copying the target
    pc,         \* where the pipeline stands
    source,     \* the commit and the tree git named
    workspace,  \* the temporary directory of each world
    digest,     \* its digest, taken before its witness runs
    outcome,    \* what its witness showed
    result,     \* the result: its status, and a receipt if the worlds ran
    record,     \* the files of the run
    ended       \* returned, raised or died

repository == <<disk, history, changes, disturbed>>
worlds == <<workspace, digest, outcome>>
vars == <<repository, pc, source, worlds, result, record, ended>>

Files == {"metadata", "evidence", "receipt"}

Init ==
    /\ history \in [1..1 -> Tree] \cup [1..2 -> Tree] /\ disk \in Tree
    /\ changes = 0 /\ disturbed = FALSE
    /\ pc = "start" /\ source = [commit |-> None, tree |-> None]
    /\ workspace = [w \in Worlds |-> None] /\ digest = [w \in Worlds |-> None]
    /\ outcome = [w \in Worlds |-> None]
    /\ result = None /\ record = [f \in Files |-> "absent"] /\ ended = None

At(here) == pc = here /\ ended = None
HEAD == Len(history)
Goto(there) == pc' = there /\ UNCHANGED <<repository, result, record, ended>>

-----------------------------------------------------------------------------
(* The ends of the pipeline: it saves what it will return. *)

Save(status, receipt) ==
    /\ result' = [status |-> status, receipt |-> receipt] /\ pc' = "save"
    /\ UNCHANGED <<repository, record, ended>>

Stop(status) == Save(status, None) /\ UNCHANGED <<source, worlds>>

\* The record of an inconclusive run, and the receipt of one that verifies a
\* class whose base must pass, do not stand their own checks.
Raise ==
    /\ ended' = "raised"
    /\ UNCHANGED <<repository, pc, source, worlds, result, record>>

Receipt(provenance, verdict, out) ==
    [provenance |-> provenance, commit |-> source.commit, trees |-> digest,
     outcome |-> out, verdict |-> verdict]

-----------------------------------------------------------------------------
(* The request. *)

\* No target and no patch, live execution, an unknown change class, an empty
\* patch.
RefuseRequest == At("start") /\ \E s \in {"INVALID_INPUT", "BLOCKED", "CONTRADICTED"} : Stop(s)

\* A target other than the demonstration is not run on the host.
RefuseTarget == At("start") /\ Stop("BLOCKED")

\* The verdict over outcomes that a test facility prescribes.
Prescribed(class, out) ==
    IF {out["BASE"], out["CANDIDATE"]} \intersect {"ERROR", "TIMEOUT"} # {} THEN "INCONCLUSIVE"
    ELSE IF class = "BUG_FIX"
    THEN IF out["BASE"] = "FAIL" /\ out["CANDIDATE"] = "PASS" /\ out["COUNTERFACTUAL"] # "PASS"
         THEN "VERIFIED" ELSE "CONTRADICTED"
    ELSE IF out["CANDIDATE"] = "PASS" /\ out["BASE"] # "PASS" THEN "VERIFIED" ELSE "CONTRADICTED"

\* What a receipt does not let pass.
Inconsistent(class, verdict, out) ==
    /\ verdict = "VERIFIED"
    /\ \/ class = "REFACTOR" /\ out["BASE"] # "PASS"
       \/ class # "REFACTOR" /\ "PASS" \in {out["BASE"], out["COUNTERFACTUAL"]}

Classes == {"BUG_FIX", "FEATURE", "REFACTOR"}

\* Nothing is run, and the receipt says that it is of a fixture.
Simulate ==
    /\ At("start")
    /\ \E class \in Classes, out \in [Worlds -> Outcomes] :
           IF Inconsistent(class, Prescribed(class, out), out) THEN Raise
           ELSE /\ Save(Prescribed(class, out), Receipt("FIXTURE", Prescribed(class, out), out))
                /\ UNCHANGED <<source, worlds>>

-----------------------------------------------------------------------------
(* The source. *)

\* The directory is missing, or has symbolic links in it.
RefuseFixture == At("start") /\ Stop("BLOCKED")

ReadHead ==
    /\ At("start") /\ source' = [commit |-> HEAD, tree |-> source.tree]
    /\ Goto("tree") /\ UNCHANGED worlds

ReadTree ==
    /\ At("tree") /\ source' = [commit |-> source.commit, tree |-> history[HEAD]]
    /\ Goto("status") /\ UNCHANGED worlds

\* Fault: the working copy is not asked for its changes.
FaultCheckClean == At("status") /\ Goto("base") /\ UNCHANGED <<source, worlds>>


\* The working copy of the target must be as HEAD has it.
CheckClean ==
    /\ At("status")
    /\ IF disk = history[HEAD] THEN Goto("base") /\ UNCHANGED <<source, worlds>>
       ELSE Stop("BLOCKED")

\* A failure of git, wherever it is asked.
GitFails == pc \in {"start", "tree", "status", "base"} /\ ended = None /\ Stop("BLOCKED")

\* A commit the caller names must have the same tree; without one, HEAD is it.
ResolveBase ==
    /\ At("base")
    /\ \/ Goto("patch") /\ UNCHANGED <<source, worlds>>
       \/ \E c \in DOMAIN history :
              IF history[c] = source.tree
              THEN /\ source' = [commit |-> c, tree |-> source.tree]
                   /\ Goto("patch") /\ UNCHANGED worlds
              ELSE Stop("BLOCKED")

\* Only the bytes of the canonical patch are let through.
CheckPatch ==
    /\ At("patch")
    /\ \/ Goto("copy") /\ UNCHANGED <<source, worlds>>
       \/ Stop("CONTRADICTED")

-----------------------------------------------------------------------------
(* The three worlds. *)

Place(w, tree, next) ==
    /\ workspace' = [workspace EXCEPT ![w] = tree] /\ digest' = [digest EXCEPT ![w] = tree]
    /\ Goto(next) /\ UNCHANGED <<source, outcome>>

\* The test asks for what the patch repairs; it may also time out, or not run.
Shown(tree) == Outcomes \ (IF tree.cli = "defect" THEN {"PASS"} ELSE {})

\* What runs may leave files that the working copy has not.
Litter(tree) == [cli |-> tree.cli, rest |-> "littered"]

RunWitness(w, here, next) ==
    /\ At(here)
    /\ outcome' \in {[outcome EXCEPT ![w] = o] : o \in Shown(workspace[w])}
    /\ workspace' \in {workspace, [workspace EXCEPT ![w] = Litter(workspace[w])]}
    /\ Goto(next) /\ UNCHANGED <<source, digest>>

CopyBase == At("copy") /\ Place("BASE", disk, "run base")
RunBase == RunWitness("BASE", "run base", "candidate")

\* The patch applies where the defect is, and nowhere else.
Applies(tree, reverse) == tree.cli = (IF reverse THEN "fixed" ELSE "defect")
Apply(tree, reverse) == [cli |-> IF reverse THEN "defect" ELSE "fixed", rest |-> tree.rest]

\* Copied from the working copy again; the caller may expect another tree.
BuildCandidate ==
    /\ At("candidate")
    /\ \/ /\ Applies(disk, FALSE) /\ workspace["BASE"].cli # "fixed"
          /\ Place("CANDIDATE", Apply(disk, FALSE), "run candidate")
       \/ Stop("CONTRADICTED")

RunCandidate == RunWitness("CANDIDATE", "run candidate", "counterfactual")

\* Fault: the reconstructed tree is not compared with the base.
FaultBuildCounterfactual ==
    /\ At("counterfactual")
    /\ IF Applies(workspace["CANDIDATE"], TRUE)
       THEN Place("COUNTERFACTUAL", Apply(workspace["CANDIDATE"], TRUE), "run counterfactual")
       ELSE Stop("CONTRADICTED")


\* The candidate's directory, as its run left it, without the patch, must be
\* the base again.
BuildCounterfactual ==
    /\ At("counterfactual")
    /\ IF /\ Applies(workspace["CANDIDATE"], TRUE)
          /\ Apply(workspace["CANDIDATE"], TRUE) = digest["BASE"]
       THEN Place("COUNTERFACTUAL", Apply(workspace["CANDIDATE"], TRUE), "run counterfactual")
       ELSE Stop("CONTRADICTED")

RunCounterfactual == RunWitness("COUNTERFACTUAL", "run counterfactual", "judge")

Verdict ==
    IF outcome = [w \in Worlds |-> IF w = "CANDIDATE" THEN "PASS" ELSE "FAIL"] THEN "VERIFIED"
    ELSE IF \E w \in Worlds : outcome[w] \in {"TIMEOUT", "ERROR"} THEN "INCONCLUSIVE"
    ELSE "CONTRADICTED"

Judge ==
    /\ At("judge")
    /\ \E class \in Classes :
           IF Verdict = "INCONCLUSIVE" \/ Inconsistent(class, Verdict, outcome) THEN Raise
           ELSE /\ Save(Verdict, Receipt("LOCAL_EXECUTION", Verdict, outcome))
                /\ UNCHANGED <<source, worlds>>

-----------------------------------------------------------------------------
(* The files. *)

Wanted == Files \ (IF result.receipt = None THEN {"receipt"} ELSE {})

\* Fault: the files are written in any order.
FaultBefore(f) == {}


Before(f) ==
    CASE f = "metadata" -> {}
      [] f = "evidence" -> {"metadata"}
      [] f = "receipt" -> {"metadata", "evidence"}

\* Opening a file for writing empties it.
WriteFile(f) ==
    /\ At("save") /\ f \in Wanted /\ \A g \in Before(f) : record[g] = "whole"
    /\ \/ record[f] = "absent" /\ record' = [record EXCEPT ![f] = "torn"]
       \/ record[f] = "torn" /\ record' = [record EXCEPT ![f] = "whole"]
    /\ UNCHANGED <<repository, pc, source, worlds, result, ended>>

\* The directory is not made, a file not opened, or what is written does not get
\* there: what has been written stays, and the file in hand torn.
SaveFails == At("save") /\ Raise

Answer ==
    /\ At("save") /\ \A f \in Wanted : record[f] = "whole"
    /\ ended' = "returned"
    /\ UNCHANGED <<repository, pc, source, worlds, result, record>>

Die ==
    /\ ended = None /\ ended' = "died"
    /\ UNCHANGED <<repository, pc, source, worlds, result, record>>

\* What the other commands can show of the run.  Without its file the evidence
\* of a run is an empty list.
ShowsStatus == record["metadata"] = "whole"
ShowsReceipt == record["receipt"] = "whole"
ShowsEvidence ==
    record["evidence"] = "whole" \/ (record["evidence"] = "absent" /\ record["metadata"] # "absent")

-----------------------------------------------------------------------------
(* Others work in the same repository; once the result is made, nothing here *)
(* looks at it any more. *)

Change ==
    /\ pc \notin {"start", "save"} /\ ended = None
    /\ changes < MaxChanges /\ changes' = changes + 1
    /\ disturbed' = (disturbed \/ pc \in {"tree", "status", "base", "patch", "copy"})
    /\ \/ disk' \in Tree /\ UNCHANGED history
       \/ history' = Append(history, disk) /\ UNCHANGED disk
    /\ UNCHANGED <<pc, source, worlds, result, record, ended>>

Pipeline ==
    \/ RefuseRequest \/ RefuseTarget \/ Simulate \/ RefuseFixture
    \/ ReadHead \/ ReadTree \/ CheckClean \/ GitFails \/ ResolveBase \/ CheckPatch
    \/ CopyBase \/ RunBase \/ BuildCandidate \/ RunCandidate
    \/ BuildCounterfactual \/ RunCounterfactual \/ Judge
    \/ (\E f \in Files : WriteFile(f)) \/ SaveFails \/ Answer

Next == Pipeline \/ Die \/ Change

Spec == Init /\ [][Next]_vars

-----------------------------------------------------------------------------
(* Properties. *)

LocalReceipt ==
    result # None /\ result.receipt # None /\ result.receipt.provenance = "LOCAL_EXECUTION"

\* Whatever others do to the working copy between the two copies that are made
\* of it, and whatever the witness runs leave behind: a receipt of a local
\* execution is of a base that has the defect, of that very base with the
\* patch, and of that base once more; and it verifies exactly what failed,
\* passed and failed again (runner.py:494-886).
WorldsOfOneSource ==
    LocalReceipt =>
        LET r == result.receipt IN
        /\ r.trees["BASE"].cli = "defect"
        /\ r.trees["CANDIDATE"] = Apply(r.trees["BASE"], FALSE)
        /\ r.trees["COUNTERFACTUAL"] = r.trees["BASE"]
        /\ r.verdict = "VERIFIED" <=>
               \A w \in Worlds : r.outcome[w] = (IF w = "CANDIDATE" THEN "PASS" ELSE "FAIL")

\* The commit that a receipt of a local execution names holds the base that was
\* run, unless others changed the repository after HEAD was read and before the
\* base was copied (runner.py:232-422).
SourceIsCommitted ==
    LocalReceipt /\ ~disturbed =>
        history[result.receipt.commit] = result.receipt.trees["BASE"]

\* What is returned has been saved and can be shown, the receipt if there is
\* one; what raised before the saving has left nothing.  The saving itself may
\* raise, or the process die, with files whole and torn left behind, of a run that
\* nobody was told the result of: then too a receipt that can be shown is that of a
\* run whose status and evidence can be, evidence that of a run whose status can
\* be, and a receipt is not there, not even torn, where the result had none
\* (persistence.py:38-140, commands.py:126-248).
AnswersAreSaved ==
    /\ ended = "returned" =>
           /\ ShowsStatus /\ ShowsEvidence
           /\ ShowsReceipt <=> result.receipt # None
    /\ ended = "raised" /\ pc # "save" => \A f \in Files : record[f] = "absent"
    /\ record["receipt"] # "absent" => result.receipt # None
    /\ ShowsReceipt => ShowsStatus /\ record["evidence"] = "whole"
    /\ record["evidence"] = "whole" => ShowsStatus
=============================================================================
