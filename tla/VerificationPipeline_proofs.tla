---------------------- MODULE VerificationPipeline_proofs ----------------------
(***************************************************************************)
(* Proofs about VerificationPipeline, for any number of changes by others. *)
(* Each property is strengthened by what the pipeline has established when *)
(* it has come to a place; the three invariants are inductive by           *)
(* themselves.                                                             *)
(***************************************************************************)
EXTENDS VerificationPipeline, SequenceTheorems, TLAPS

\* Places at which the base has been copied.
BaseCopied ==
    {"run base", "candidate", "run candidate", "counterfactual", "run counterfactual", "judge"}

\* Three digests as a receipt must have them.
OneSource(d) ==
    /\ d["BASE"].cli = "defect"
    /\ d["CANDIDATE"] = Apply(d["BASE"], FALSE)
    /\ d["COUNTERFACTUAL"] = d["BASE"]

\* The digest of a world is of a copy without litter; the candidate's directory
\* is that copy still, or that copy littered.
WorldsInv ==
    /\ disk \in Tree
    /\ DOMAIN digest = Worlds /\ DOMAIN workspace = Worlds
    /\ outcome \in [Worlds -> Outcomes \cup {None}]
    /\ pc \in BaseCopied => digest["BASE"] \in Tree
    /\ pc \in {"run candidate", "counterfactual"} =>
           /\ digest["CANDIDATE"] \in Tree
           /\ workspace["CANDIDATE"] \in {digest["CANDIDATE"], Litter(digest["CANDIDATE"])}
    /\ pc \in {"run counterfactual", "judge"} => OneSource(digest)
    /\ WorldsOfOneSource

-----------------------------------------------------------------------------
\* A candidate from which the patch is taken and which then is the base again
\* was, when its digest was taken, the base with the patch: litter would show.
LEMMA LitterShows ==
    ASSUME NEW base \in Tree, NEW cand \in Tree, NEW left \in {cand, Litter(cand)},
           Applies(left, TRUE), Apply(left, TRUE) = base
    PROVE  base.cli = "defect" /\ cand = Apply(base, FALSE)
<1>1. left.cli = "fixed" BY DEF Applies
<1>2. left = cand
    <2>1. SUFFICES ASSUME left = Litter(cand) PROVE FALSE OBVIOUS
    <2>2. base.rest = "littered" BY <2>1 DEF Apply, Litter, Tree
    <2> QED BY <2>2 DEF Tree
<1> QED BY <1>1, <1>2 DEF Apply, Tree

\* Nothing but the judgement makes a receipt of a local execution.
LEMMA StopMakesNoReceipt ==
    ASSUME NEW status, Stop(status), WorldsInv
    PROVE  WorldsInv'
BY DEF Stop, Save, WorldsInv, WorldsOfOneSource, LocalReceipt, repository, worlds, BaseCopied, OneSource

\* The run of a witness takes no digest, and adds litter to its own directory
\* at most.
LEMMA RunKeepsDigests ==
    ASSUME NEW w \in Worlds, NEW here, NEW next, RunWitness(w, here, next), WorldsInv
    PROVE  /\ pc = here /\ pc' = next /\ digest' = digest /\ disk' = disk /\ result' = result
           /\ outcome' \in [Worlds -> Outcomes \cup {None}]
           /\ DOMAIN workspace' = Worlds
           /\ workspace'[w] \in {workspace[w], Litter(workspace[w])}
<1>1. /\ pc = here /\ pc' = next /\ digest' = digest /\ disk' = disk /\ result' = result
    BY DEF RunWitness, At, Goto, repository
<1>2. outcome' \in [Worlds -> Outcomes \cup {None}]
    <2>1. PICK o \in Outcomes : outcome' = [outcome EXCEPT ![w] = o] BY DEF RunWitness, Shown
    <2> QED BY <2>1 DEF WorldsInv
<1>3. DOMAIN workspace' = Worlds /\ workspace'[w] \in {workspace[w], Litter(workspace[w])}
    BY DEF RunWitness, WorldsInv
<1> QED BY <1>1, <1>2, <1>3

\* No step of the pipeline, and no change by others, breaks what is known of
\* the worlds.
LEMMA WorldsStep == WorldsInv /\ [Next]_vars => WorldsInv'
<1> SUFFICES ASSUME WorldsInv, [Next]_vars PROVE WorldsInv' OBVIOUS
<1> USE DEF repository, worlds, BaseCopied
<1>1. CASE RefuseRequest BY <1>1, StopMakesNoReceipt DEF RefuseRequest
<1>2. CASE RefuseTarget \/ RefuseFixture \/ GitFails
    BY <1>2, StopMakesNoReceipt DEF RefuseTarget, RefuseFixture, GitFails
<1>3. CASE Simulate
    <2>1. PICK class \in Classes, out \in [Worlds -> Outcomes] :
              \/ Raise
              \/ /\ Save(Prescribed(class, out), Receipt("FIXTURE", Prescribed(class, out), out))
                 /\ UNCHANGED <<source, worlds>>
        BY <1>3 DEF Simulate
    <2>2. CASE Raise BY <2>2 DEF Raise, WorldsInv, WorldsOfOneSource, LocalReceipt
    <2>3. CASE Save(Prescribed(class, out), Receipt("FIXTURE", Prescribed(class, out), out))
               /\ UNCHANGED <<source, worlds>>
        BY <2>3 DEF Save, Receipt, WorldsInv, WorldsOfOneSource, LocalReceipt
    <2> QED BY <2>1, <2>2, <2>3
<1>4. CASE ReadHead \/ ReadTree
    BY <1>4 DEF ReadHead, ReadTree, Goto, WorldsInv, WorldsOfOneSource, LocalReceipt
<1>5. CASE CheckClean
    BY <1>5, StopMakesNoReceipt
       DEF CheckClean, Goto, WorldsInv, WorldsOfOneSource, LocalReceipt
<1>6. CASE ResolveBase
    BY <1>6, StopMakesNoReceipt
       DEF ResolveBase, Goto, WorldsInv, WorldsOfOneSource, LocalReceipt
<1>7. CASE CheckPatch
    BY <1>7, StopMakesNoReceipt
       DEF CheckPatch, Goto, WorldsInv, WorldsOfOneSource, LocalReceipt
<1>8. CASE CopyBase
    BY <1>8 DEF CopyBase, Place, Goto, Worlds, WorldsInv, WorldsOfOneSource, LocalReceipt
<1>9. CASE RunBase
    <2>1. /\ pc = "run base" /\ pc' = "candidate" /\ digest' = digest /\ disk' = disk
          /\ result' = result /\ outcome' \in [Worlds -> Outcomes \cup {None}]
          /\ DOMAIN workspace' = Worlds
        BY <1>9, RunKeepsDigests DEF RunBase, Worlds
    <2> QED BY <2>1 DEF WorldsInv, WorldsOfOneSource, LocalReceipt
<1>10. CASE BuildCandidate
    <2>1. CASE Stop("CONTRADICTED") BY <2>1, StopMakesNoReceipt
    <2>2. CASE Place("CANDIDATE", Apply(disk, FALSE), "run candidate")
        <3>1. Apply(disk, FALSE) \in Tree BY DEF WorldsInv, Apply, Tree
        <3> QED
            BY <1>10, <2>2, <3>1 DEF BuildCandidate, At, Place, Goto, Worlds, WorldsInv,
               WorldsOfOneSource, LocalReceipt
    <2> QED BY <1>10, <2>1, <2>2 DEF BuildCandidate
<1>11. CASE RunCandidate
    <2>1. /\ pc = "run candidate" /\ pc' = "counterfactual" /\ digest' = digest /\ disk' = disk
          /\ result' = result /\ outcome' \in [Worlds -> Outcomes \cup {None}]
          /\ DOMAIN workspace' = Worlds
          /\ workspace'["CANDIDATE"] \in {workspace["CANDIDATE"], Litter(workspace["CANDIDATE"])}
        BY <1>11, RunKeepsDigests DEF RunCandidate, Worlds
    <2>2. workspace'["CANDIDATE"] \in {digest["CANDIDATE"], Litter(digest["CANDIDATE"])}
        <3>1. workspace["CANDIDATE"] \in {digest["CANDIDATE"], Litter(digest["CANDIDATE"])}
            BY <2>1 DEF WorldsInv
        <3>2. Litter(Litter(digest["CANDIDATE"])) = Litter(digest["CANDIDATE"]) BY DEF Litter
        <3> QED BY <2>1, <3>1, <3>2
    <2> QED BY <2>1, <2>2 DEF WorldsInv, WorldsOfOneSource, LocalReceipt
<1>12. CASE BuildCounterfactual
    <2>1. CASE Stop("CONTRADICTED") BY <2>1, StopMakesNoReceipt
    <2>2. CASE /\ Applies(workspace["CANDIDATE"], TRUE)
               /\ Apply(workspace["CANDIDATE"], TRUE) = digest["BASE"]
               /\ Place("COUNTERFACTUAL", Apply(workspace["CANDIDATE"], TRUE), "run counterfactual")
        <3>1. pc = "counterfactual" BY <1>12 DEF BuildCounterfactual, At
        <3>2. digest["BASE"].cli = "defect" /\ digest["CANDIDATE"] = Apply(digest["BASE"], FALSE)
            BY <2>2, <3>1, LitterShows DEF WorldsInv
        <3>3. /\ digest'["BASE"] = digest["BASE"] /\ digest'["CANDIDATE"] = digest["CANDIDATE"]
              /\ digest'["COUNTERFACTUAL"] = digest["BASE"]
            BY <2>2 DEF Place, WorldsInv, Worlds
        <3>4. OneSource(digest)' BY <3>2, <3>3 DEF OneSource
        <3> QED
            BY <2>2, <3>1, <3>3, <3>4 DEF Place, Goto, Worlds, WorldsInv, WorldsOfOneSource,
               LocalReceipt
    <2> QED BY <1>12, <2>1, <2>2 DEF BuildCounterfactual
<1>13. CASE RunCounterfactual
    <2>1. /\ pc = "run counterfactual" /\ pc' = "judge" /\ digest' = digest /\ disk' = disk
          /\ result' = result /\ outcome' \in [Worlds -> Outcomes \cup {None}]
          /\ DOMAIN workspace' = Worlds
        BY <1>13, RunKeepsDigests DEF RunCounterfactual, Worlds
    <2> QED BY <2>1 DEF WorldsInv, WorldsOfOneSource, LocalReceipt, OneSource
<1>14. CASE Judge
    <2>1. PICK class \in Classes :
              \/ Raise
              \/ /\ Save(Verdict, Receipt("LOCAL_EXECUTION", Verdict, outcome))
                 /\ UNCHANGED <<source, worlds>>
        BY <1>14 DEF Judge
    <2>2. CASE Raise BY <2>2 DEF Raise, WorldsInv, WorldsOfOneSource, LocalReceipt
    <2>3. CASE Save(Verdict, Receipt("LOCAL_EXECUTION", Verdict, outcome))
               /\ UNCHANGED <<source, worlds>>
        <3>1. OneSource(digest) BY <1>14 DEF Judge, At, WorldsInv
        <3>2. Verdict = "VERIFIED" <=>
                  \A w \in Worlds : outcome[w] = (IF w = "CANDIDATE" THEN "PASS" ELSE "FAIL")
            <4>1. outcome = [w \in Worlds |-> outcome[w]] BY DEF WorldsInv
            <4>2. Verdict = "VERIFIED" <=>
                      outcome = [w \in Worlds |-> IF w = "CANDIDATE" THEN "PASS" ELSE "FAIL"]
                BY DEF Verdict
            <4> QED BY <4>1, <4>2
        <3>3. /\ result'.receipt.trees = digest /\ result'.receipt.outcome = outcome
              /\ result'.receipt.verdict = Verdict
            BY <2>3 DEF Save, Receipt
        <3>4. WorldsOfOneSource' BY <3>1, <3>2, <3>3 DEF WorldsOfOneSource, OneSource
        <3> QED BY <2>3, <3>4 DEF Save, WorldsInv
    <2> QED BY <2>1, <2>2, <2>3
<1>15. CASE \E f \in Files : WriteFile(f)
    <2>1. UNCHANGED <<repository, pc, source, worlds, result>> BY <1>15 DEF WriteFile
    <2> QED BY <2>1 DEF WorldsInv, WorldsOfOneSource, LocalReceipt, OneSource
<1>16. CASE SaveFails \/ Answer \/ Die
    BY <1>16 DEF SaveFails, Raise, Answer, Die, WorldsInv, WorldsOfOneSource, LocalReceipt
<1>17. CASE Change
    BY <1>17 DEF Change, WorldsInv, WorldsOfOneSource, LocalReceipt
<1>18. CASE UNCHANGED vars
    BY <1>18 DEF vars, WorldsInv, WorldsOfOneSource, LocalReceipt, OneSource
<1> QED
    BY <1>1, <1>2, <1>3, <1>4, <1>5, <1>6, <1>7, <1>8, <1>9, <1>10, <1>11, <1>12, <1>13, <1>14,
       <1>15, <1>16, <1>17, <1>18 DEF Next, Pipeline

\* However the working copy is edited and whatever the witness leaves behind, a
\* receipt of a local execution is of one source (runner.py:494-886).
THEOREM PipelineWorlds == Spec => []WorldsOfOneSource
<1>1. Init => WorldsInv
    BY DEF Init, WorldsInv, BaseCopied, WorldsOfOneSource, LocalReceipt
<1>2. WorldsInv => WorldsOfOneSource BY DEF WorldsInv
<1> QED BY <1>1, <1>2, WorldsStep, PTL DEF Spec

-----------------------------------------------------------------------------
\* What git was asked for, at each place, as long as others kept still; the
\* commit is one of the history, which only grows.
UpTo(place) == pc = place /\ ~disturbed

SourceInv ==
    /\ disk \in Tree /\ history \in Seq(Tree) /\ Len(history) \in Nat \ {0}
    /\ disturbed \in BOOLEAN /\ DOMAIN digest = Worlds
    /\ pc \notin {"start", "save"} => source.commit \in 1..Len(history)
    /\ UpTo("tree") => source.commit = Len(history)
    /\ UpTo("status") => source.commit = Len(history) /\ source.tree = history[Len(history)]
    /\ UpTo("base") => history[source.commit] = source.tree /\ source.tree = disk
    /\ UpTo("patch") \/ UpTo("copy") => history[source.commit] = disk
    /\ pc \in BaseCopied /\ ~disturbed => history[source.commit] = digest["BASE"]
    /\ LocalReceipt => pc = "save"
    /\ SourceIsCommitted

\* An end without a receipt.
LEMMA StopNamesNoCommit ==
    ASSUME NEW status, Stop(status), SourceInv
    PROVE  SourceInv'
BY DEF Stop, Save, SourceInv, SourceIsCommitted, LocalReceipt, repository, worlds, BaseCopied, UpTo

\* A step after the base was copied that takes no digest of it.
LEMMA SameSource ==
    ASSUME SourceInv, pc \in BaseCopied, pc' \in BaseCopied,
           UNCHANGED <<repository, source, result>>, DOMAIN digest' = Worlds,
           digest'["BASE"] = digest["BASE"]
    PROVE  SourceInv'
BY DEF SourceInv, SourceIsCommitted, LocalReceipt, repository, BaseCopied, UpTo

\* A longer history holds what the shorter one did.
LEMMA HistoryGrows ==
    ASSUME NEW h \in Seq(Tree), NEW t \in Tree, NEW c \in 1..Len(h)
    PROVE  /\ Append(h, t) \in Seq(Tree) /\ Len(Append(h, t)) = Len(h) + 1
           /\ c \in 1..Len(Append(h, t)) /\ Append(h, t)[c] = h[c]
OBVIOUS

LEMMA SourceStep == SourceInv /\ [Next]_vars => SourceInv'
<1> SUFFICES ASSUME SourceInv, [Next]_vars PROVE SourceInv' OBVIOUS
<1> USE DEF repository, worlds
<1>1. CASE RefuseRequest BY <1>1, StopNamesNoCommit DEF RefuseRequest
<1>2. CASE RefuseTarget \/ RefuseFixture \/ GitFails
    BY <1>2, StopNamesNoCommit DEF RefuseTarget, RefuseFixture, GitFails
<1>3. CASE Simulate
    <2>1. PICK class \in Classes, out \in [Worlds -> Outcomes] :
              \/ Raise
              \/ /\ Save(Prescribed(class, out), Receipt("FIXTURE", Prescribed(class, out), out))
                 /\ UNCHANGED <<source, worlds>>
        BY <1>3 DEF Simulate
    <2>2. CASE Raise
        BY <2>2 DEF Raise, SourceInv, SourceIsCommitted, LocalReceipt, BaseCopied, UpTo
    <2>3. CASE Save(Prescribed(class, out), Receipt("FIXTURE", Prescribed(class, out), out))
               /\ UNCHANGED <<source, worlds>>
        BY <2>3 DEF Save, Receipt, SourceInv, SourceIsCommitted, LocalReceipt, BaseCopied, UpTo
    <2> QED BY <2>1, <2>2, <2>3
<1>4. CASE ReadHead
    BY <1>4 DEF ReadHead, At, HEAD, Goto, SourceInv, SourceIsCommitted, LocalReceipt, BaseCopied, UpTo
<1>5. CASE ReadTree
    BY <1>5 DEF ReadTree, At, HEAD, Goto, SourceInv, SourceIsCommitted, LocalReceipt, BaseCopied, UpTo
<1>6. CASE CheckClean
    <2>1. CASE disk = history[Len(history)]
        <3>1. At("status") /\ Goto("base") /\ UNCHANGED <<source, worlds>>
            BY <1>6, <2>1 DEF CheckClean, HEAD
        <3> QED
            BY <2>1, <3>1 DEF At, Goto, SourceInv, SourceIsCommitted, LocalReceipt, BaseCopied, UpTo
    <2>2. CASE disk # history[Len(history)]
        BY <1>6, <2>2, StopNamesNoCommit DEF CheckClean, HEAD
    <2> QED BY <2>1, <2>2
<1>7. CASE ResolveBase
    <2>1. CASE Goto("patch") /\ UNCHANGED <<source, worlds>>
        BY <1>7, <2>1 DEF ResolveBase, At, Goto, SourceInv, SourceIsCommitted, LocalReceipt,
           BaseCopied, UpTo
    <2>2. CASE \E status : Stop(status) BY <2>2, StopNamesNoCommit
    <2>3. ASSUME NEW c \in DOMAIN history, history[c] = source.tree,
                 source' = [commit |-> c, tree |-> source.tree],
                 Goto("patch"), UNCHANGED worlds
          PROVE  SourceInv'
        <3>1. c \in 1..Len(history) BY DEF SourceInv
        <3>2. source'.commit = c BY <2>3
        <3>3. pc = "base" BY <1>7 DEF ResolveBase, At
        <3> QED
            BY <2>3, <3>1, <3>2, <3>3 DEF Goto, SourceInv, SourceIsCommitted, LocalReceipt,
               BaseCopied, UpTo
    <2> QED BY <1>7, <2>1, <2>2, <2>3 DEF ResolveBase
<1>8. CASE CheckPatch
    <2>1. CASE Goto("copy") /\ UNCHANGED <<source, worlds>>
        BY <1>8, <2>1 DEF CheckPatch, At, Goto, SourceInv, SourceIsCommitted, LocalReceipt,
           BaseCopied, UpTo
    <2>2. CASE Stop("CONTRADICTED") BY <2>2, StopNamesNoCommit
    <2> QED BY <1>8, <2>1, <2>2 DEF CheckPatch
<1>9. CASE CopyBase
    <2>1. digest' = [digest EXCEPT !["BASE"] = disk] BY <1>9 DEF CopyBase, Place
    <2>2. DOMAIN digest' = Worlds /\ digest'["BASE"] = disk BY <2>1 DEF SourceInv, Worlds
    <2>3. pc = "copy" /\ pc' = "run base" /\ UNCHANGED <<repository, source, result>>
        BY <1>9 DEF CopyBase, Place, At, Goto
    <2> QED BY <2>2, <2>3 DEF SourceInv, SourceIsCommitted, LocalReceipt, BaseCopied, UpTo
<1>10. CASE RunBase
    BY <1>10, SameSource DEF RunBase, RunWitness, At, Goto, BaseCopied, SourceInv
<1>11. CASE BuildCandidate
    <2>1. CASE Stop("CONTRADICTED") BY <2>1, StopNamesNoCommit
    <2>2. CASE Place("CANDIDATE", Apply(disk, FALSE), "run candidate")
        BY <1>11, <2>2, SameSource DEF BuildCandidate, At, Place, Goto, BaseCopied, SourceInv, Worlds
    <2> QED BY <1>11, <2>1, <2>2 DEF BuildCandidate
<1>12. CASE RunCandidate
    BY <1>12, SameSource DEF RunCandidate, RunWitness, At, Goto, BaseCopied, SourceInv
<1>13. CASE BuildCounterfactual
    <2>1. CASE Stop("CONTRADICTED") BY <2>1, StopNamesNoCommit
    <2>2. CASE Place("COUNTERFACTUAL", Apply(workspace["CANDIDATE"], TRUE), "run counterfactual")
        BY <1>13, <2>2, SameSource
           DEF BuildCounterfactual, At, Place, Goto, BaseCopied, SourceInv, Worlds
    <2> QED BY <1>13, <2>1, <2>2 DEF BuildCounterfactual
<1>14. CASE RunCounterfactual
    BY <1>14, SameSource DEF RunCounterfactual, RunWitness, At, Goto, BaseCopied, SourceInv
<1>15. CASE Judge
    <2>1. PICK class \in Classes :
              \/ Raise
              \/ /\ Save(Verdict, Receipt("LOCAL_EXECUTION", Verdict, outcome))
                 /\ UNCHANGED <<source, worlds>>
        BY <1>15 DEF Judge
    <2>2. CASE Raise
        BY <2>2 DEF Raise, SourceInv, SourceIsCommitted, LocalReceipt, BaseCopied, UpTo
    <2>3. CASE Save(Verdict, Receipt("LOCAL_EXECUTION", Verdict, outcome))
               /\ UNCHANGED <<source, worlds>>
        <3>1. pc = "judge" /\ pc' = "save" /\ UNCHANGED <<repository, source, digest>>
            BY <1>15, <2>3 DEF Judge, At, Save
        <3>2. result'.receipt.commit = source.commit /\ result'.receipt.trees = digest
            BY <2>3 DEF Save, Receipt
        <3>3. SourceIsCommitted'
            BY <3>1, <3>2 DEF SourceInv, SourceIsCommitted, BaseCopied
        <3> QED BY <3>1, <3>3 DEF SourceInv, BaseCopied, UpTo
    <2> QED BY <2>1, <2>2, <2>3
<1>16. CASE (\E f \in Files : WriteFile(f)) \/ SaveFails \/ Answer \/ Die \/ UNCHANGED vars
    <2>1. UNCHANGED <<repository, pc, source, worlds, result>>
        BY <1>16 DEF WriteFile, SaveFails, Raise, Answer, Die, vars
    <2> QED BY <2>1 DEF SourceInv, SourceIsCommitted, LocalReceipt, UpTo
<1>17. CASE Change
    <2>1. /\ pc \notin {"start", "save"} /\ UNCHANGED <<pc, source, worlds, result>>
          /\ disturbed' = (disturbed \/ pc \in {"tree", "status", "base", "patch", "copy"})
        BY <1>17 DEF Change
    <2>2. /\ disk' \in Tree /\ history' \in Seq(Tree) /\ Len(history') \in Nat \ {0}
          /\ source.commit \in 1..Len(history')
          /\ history'[source.commit] = history[source.commit]
        <3>1. CASE disk' \in Tree /\ history' = history BY <2>1, <3>1 DEF SourceInv
        <3>2. CASE history' = Append(history, disk) /\ disk' = disk
            BY <2>1, <3>2, HistoryGrows DEF SourceInv
        <3> QED BY <1>17, <3>1, <3>2 DEF Change
    <2>3. ~LocalReceipt' BY <2>1 DEF SourceInv, LocalReceipt
    <2>4. ~disturbed' => ~disturbed /\ pc \notin {"tree", "status", "base", "patch", "copy"}
        BY <2>1
    <2>5. disturbed' \in BOOLEAN BY <2>1 DEF SourceInv
    <2> QED BY <2>1, <2>2, <2>3, <2>4, <2>5 DEF SourceInv, SourceIsCommitted, UpTo
<1> QED
    BY <1>1, <1>2, <1>3, <1>4, <1>5, <1>6, <1>7, <1>8, <1>9, <1>10, <1>11, <1>12, <1>13, <1>14,
       <1>15, <1>16, <1>17 DEF Next, Pipeline

\* If nobody changed the repository between the reading of HEAD and the copy of
\* the base, a receipt of a local execution names a commit that holds that base
\* (runner.py:232-422).
THEOREM PipelineSource == Spec => []SourceIsCommitted
<1>1. Init => SourceInv
    <2> SUFFICES ASSUME Init PROVE SourceInv OBVIOUS
    <2>1. history \in Seq(Tree) /\ Len(history) \in Nat \ {0}
        <3>1. PICK n \in {1, 2} : history \in [1..n -> Tree] BY DEF Init
        <3>2. history \in Seq(Tree) BY <3>1, SeqDef
        <3>3. n = Len(history) BY <3>1, <3>2, LenProperties
        <3> QED BY <3>2, <3>3
    <2> QED
        BY <2>1 DEF Init, SourceInv, BaseCopied, SourceIsCommitted, LocalReceipt, UpTo
<1>2. SourceInv => SourceIsCommitted BY DEF SourceInv
<1> QED BY <1>1, <1>2, SourceStep, PTL DEF Spec

-----------------------------------------------------------------------------
\* Files are written only at the end, each when those before it are whole, and
\* a receipt only where the result has one.
RecordInv ==
    /\ record \in [Files -> {"absent", "torn", "whole"}]
    /\ pc # "save" => \A f \in Files : record[f] = "absent"
    /\ record["evidence"] # "absent" => record["metadata"] = "whole"
    /\ record["receipt"] # "absent" =>
           /\ result.receipt # None
           /\ record["metadata"] = "whole" /\ record["evidence"] = "whole"
    /\ ended = "returned" => \A f \in Wanted : record[f] = "whole"

\* Everything before the files are written.
LEMMA NothingSavedYet ==
    ASSUME RecordInv, pc # "save", UNCHANGED record, ended' # "returned"
    PROVE  RecordInv'
BY DEF RecordInv, Files

\* Every step of the pipeline but the last ones is taken before there are files.
LEMMA RecordStep == RecordInv /\ [Next]_vars => RecordInv'
<1> SUFFICES ASSUME RecordInv, [Next]_vars PROVE RecordInv' OBVIOUS
<1> USE DEF repository, worlds
<1>1. CASE \E f \in Files : WriteFile(f)
    <2>1. PICK f \in Files : WriteFile(f) BY <1>1
    <2>2. /\ pc = "save" /\ pc' = "save" /\ ended = None /\ UNCHANGED <<result, ended>>
          /\ f \in Wanted /\ \A g \in Before(f) : record[g] = "whole"
          /\ record[f] # "whole"
        BY <2>1 DEF WriteFile, At
    <2>3. PICK s \in {"torn", "whole"} : record' = [record EXCEPT ![f] = s] BY <2>1 DEF WriteFile
    <2>4. /\ record' \in [Files -> {"absent", "torn", "whole"}]
          /\ record'[f] = s /\ \A g \in Files \ {f} : record'[g] = record[g]
        BY <2>3 DEF RecordInv
    <2>5. ended' # "raised" /\ ended' # "returned" => RecordInv'
        <3>1. CASE f = "metadata"
            BY <2>2, <2>4, <3>1 DEF RecordInv, Files
        <3>2. CASE f = "evidence"
            BY <2>2, <2>4, <3>2 DEF RecordInv, Files, Before
        <3>3. CASE f = "receipt"
            BY <2>2, <2>4, <3>3 DEF RecordInv, Files, Before, Wanted
        <3> QED BY <3>1, <3>2, <3>3 DEF Files
    <2>6. ended' # "raised" /\ ended' # "returned" BY <2>2, NoneAssumption
    <2> QED BY <2>5, <2>6
<1>2. CASE Answer
    BY <1>2 DEF Answer, At, RecordInv, Wanted, Files
<1>3. CASE Die \/ SaveFails
    BY <1>3 DEF Die, SaveFails, Raise, RecordInv, Wanted
<1>4. CASE Change
    BY <1>4, NothingSavedYet, NoneAssumption DEF Change
<1>5. CASE UNCHANGED vars
    BY <1>5 DEF vars, RecordInv, Wanted
<1>6. ASSUME pc # "save", ended = None, UNCHANGED record, ended' \in {None, "raised"}
      PROVE  RecordInv'
    BY <1>6, NothingSavedYet, NoneAssumption
<1>7. CASE RefuseRequest \/ RefuseTarget \/ RefuseFixture \/ GitFails
    BY <1>6, <1>7 DEF RefuseRequest, RefuseTarget, RefuseFixture, GitFails, At, Stop, Save
<1>8. CASE Simulate \/ Judge
    BY <1>6, <1>8 DEF Simulate, Judge, At, Save, Raise
<1>9. CASE ReadHead \/ ReadTree \/ CheckClean \/ ResolveBase \/ CheckPatch
    BY <1>6, <1>9 DEF ReadHead, ReadTree, CheckClean, ResolveBase, CheckPatch, At, Goto, Stop, Save
<1>10. CASE CopyBase \/ BuildCandidate \/ BuildCounterfactual
    BY <1>6, <1>10
       DEF CopyBase, BuildCandidate, BuildCounterfactual, Place, At, Goto, Stop, Save
<1>11. CASE RunBase \/ RunCandidate \/ RunCounterfactual
    BY <1>6, <1>11 DEF RunBase, RunCandidate, RunCounterfactual, RunWitness, At, Goto
<1> QED
    BY <1>1, <1>2, <1>3, <1>4, <1>5, <1>7, <1>8, <1>9, <1>10, <1>11 DEF Next, Pipeline

\* What is returned has been saved, what raised before the saving has left nothing,
\* and wherever the saving fails or the process dies no receipt is without its status
\* and evidence, or of a run that has none
\* (persistence.py:38-140, commands.py:126-248).
THEOREM PipelineRecord == Spec => []AnswersAreSaved
<1>1. Init => RecordInv BY NoneAssumption DEF Init, RecordInv, Files
<1>2. RecordInv => AnswersAreSaved
    BY DEF RecordInv, AnswersAreSaved, ShowsStatus, ShowsReceipt, ShowsEvidence, Wanted, Files
<1> QED BY <1>1, <1>2, RecordStep, PTL DEF Spec
=============================================================================
