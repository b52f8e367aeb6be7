---------------------------- MODULE CausalVerdict ----------------------------
(***************************************************************************)
(* From a sealed witness to a verdict (verifier/, causal/): one witness is *)
(* executed in a sandbox of its own against the base tree, the candidate   *)
(* tree and, in a triplet, a counterfactual tree; the outcomes are         *)
(* reconciled to a verdict on a receipt; and causal coverage accepts a     *)
(* receipt only on the authority of the vault, or of the pinned key.       *)
(*                                                                         *)
(* One run at a time; what is not the program's own is what the sandbox    *)
(* provider does and what the executed command reports.  The vault lives   *)
(* in memory: a restart empties it, and the receipts survive.              *)
(***************************************************************************)
EXTENDS Integers, Sequences, FiniteSets

CONSTANTS
    Requirements,   \* of one frozen contract, a witness each
    Trees, BaseTree,
    Runners,        \* who executes, a subset of AllRunners
    Reports,        \* what an execution may come to
    Builder,        \* the builder's sandbox, which the manager knows
    MaxRuns,        \* bound: runs started
    MaxFaults,      \* bound: what the provider and the process get wrong
    None

Workers == {"worker", "other worker"}
AllRunners == {"engine", "genuine engine"} \cup Workers

Worlds == {"BASE", "CANDIDATE", "COUNTERFACTUAL"}

NoExit == -1

\* A command that raised has no exit code, and for its output the text of the
\* exception.
Report == [status : {"COMPLETED", "TIMED_OUT", "CANCELLED", "FAILED_TO_START"},
           exit : NoExit..255, raised : BOOLEAN,
           text : SUBSET {"fail", "import", "syntax", "nothing", "skipped"}]

\* A timeout that is raised is told by its text.
Observable ==
    {r \in Report : r.raised => r.status \in {"COMPLETED", "TIMED_OUT"} /\ r.exit = NoExit}

Sandbox == ((1..MaxRuns) \X Worlds) \cup {Builder}

\* What a run keeps of a world it executed, and the run itself.
Executions == [report : Reports, sbx : Sandbox, tree : Trees]
InProgress ==
    [no : 1..MaxRuns, runner : Runners, kind : {"pair", "triplet"}, req : Requirements,
     tree : Trees, world : Worlds, stage : {"open", "execute", "teardown", "conclude"},
     sbx : Sandbox \cup {None}, got : Trees \cup {None}, out : [Worlds -> Executions \cup {None}]]

Verdicts == {"VERIFIED", "CONTRADICTED", "INCONCLUSIVE", "BLOCKED"}
Signers == {"vault", "pinned key", "other key", None}
Receipts ==
    [no : 1..MaxRuns, req : Requirements, kind : {"pair", "triplet"}, verdict : Verdicts,
     att : Signers, out : [Worlds -> Executions \cup {None}]]

ASSUME TreesAssumption == BaseTree \in Trees
ASSUME RunnersAssumption == Runners \subseteq AllRunners
ASSUME ReportsAssumption == Reports \subseteq Observable
ASSUME BoundsAssumption == {MaxRuns, MaxFaults} \subseteq Nat
ASSUME NoneAssumption ==
    /\ None \notin Trees \cup Reports \cup Nat \cup Requirements \cup Executions \cup InProgress
    /\ None # "vault"
    /\ Builder \notin (1..MaxRuns) \X Worlds

VARIABLES
    sealed,       \* the vault: whose witness it has sealed
    observed,     \* the vault: the run that last executed a witness in a world
    registered,   \* the vault: the run whose attestation is the last one
    run,          \* the run in progress, or None
    receipts,     \* those handed out
    live,         \* sandboxes that exist
    lost,         \* those of them whose teardown failed, or whose process died
    runs, faults

vault == <<sealed, observed, registered>>
vars == <<sealed, observed, registered, run, receipts, live, lost, runs, faults>>

-----------------------------------------------------------------------------
(* What one execution shows. *)

Exited(rep, codes) == rep.status = "COMPLETED" /\ rep.exit \in codes

NothingRan(rep) ==
    Exited(rep, {5}) \/ (Exited(rep, {0}) /\ "nothing" \in rep.text)

BehaviouralFailure(rep) ==
    \/ Exited(rep, {1}) /\ "syntax" \notin rep.text
    \/ Exited(rep, {NoExit} \cup 6..255) /\ "fail" \in rep.text

Outcome(rep) ==
    CASE rep.status = "TIMED_OUT" -> "TIMEOUT"
      [] NothingRan(rep) -> "INVALID_PRECONDITION"
      [] Exited(rep, {0}) -> "PASS"
      [] Exited(rep, {1}) /\ "import" \in rep.text -> "INVALID_PRECONDITION"
      [] BehaviouralFailure(rep) -> "FAIL"
      [] OTHER -> "ERROR"

\* The tests of the witness never ran.
Vacuous(rep) ==
    \/ rep.text \cap {"import", "nothing"} # {}
    \/ Outcome(rep) = "PASS" /\ "skipped" \in rep.text

-----------------------------------------------------------------------------
(* What the executions of a run come to.  `out' has one execution for each *)
(* world that got one: its report, its sandbox and its tree.               *)

Executed(out) == {w \in Worlds : out[w] # None}

Distinct(out, worlds) ==
    \A v, w \in worlds : v # w => out[v].sbx # out[w].sbx

\* The triplet of the trusted worker is not checked for the identities of its
\* sandboxes.
IntegrityFailure(r) ==
    \/ r.out["BASE"].tree = r.out["CANDIDATE"].tree
    \/ /\ ~(r.runner \in Workers /\ r.kind = "triplet")
       /\ ~Distinct(r.out, Executed(r.out))

\* A counterfactual was asked for and there is none, or it is the candidate.
InvalidCounterfactual(r) ==
    /\ r.kind = "triplet"
    /\ \/ r.out["COUNTERFACTUAL"] = None
       \/ r.out["COUNTERFACTUAL"].tree = r.out["CANDIDATE"].tree

Some(r, outcome) == \E w \in Executed(r.out) : Outcome(r.out[w].report) = outcome

\* What was taken away was not what mattered.
Ineffective(r) ==
    r.kind = "triplet" /\ Outcome(r.out["COUNTERFACTUAL"].report) = "PASS"

\* Of runs all of whose worlds passed or failed.
Behavioural(r) ==
    CASE Outcome(r.out["CANDIDATE"].report) = "FAIL" -> "CONTRADICTED"
      [] Outcome(r.out["BASE"].report) = "PASS" \/ Ineffective(r) -> "INCONCLUSIVE"
      [] OTHER -> "VERIFIED"

Reconcile(r) ==
    CASE IntegrityFailure(r) -> "CONTRADICTED"
      [] InvalidCounterfactual(r) -> "INCONCLUSIVE"
      [] \E w \in Executed(r.out) : Vacuous(r.out[w].report) -> "INCONCLUSIVE"
      [] Some(r, "INVALID_PRECONDITION") -> "BLOCKED"
      [] Some(r, "TIMEOUT") \/ Some(r, "ERROR") -> "INCONCLUSIVE"
      [] OTHER -> Behavioural(r)

\* Whatever an engine is asked for, it is a fixture unless its sandboxes are
\* genuine; a worker executes in no others.
Provenance(runner) == IF runner = "engine" THEN "fixture" ELSE "production"

\* The key a worker was given, the one that is pinned or another.
WorkerKey(runner) == IF runner = "worker" THEN "pinned key" ELSE "other key"

\* Who signs: the vault for a fixture, nobody for an engine of production
\* provenance, the worker's key for the worker.
Signature(r) ==
    CASE Provenance(r.runner) = "fixture" -> "vault"
      [] r.runner = "genuine engine" -> None
      [] r.runner \in Workers -> WorkerKey(r.runner)

-----------------------------------------------------------------------------
(* What coverage accepts, on the authority it is given. *)

\* Fault: the outcomes are compared, not the results they come from.
FaultCurrent(rc) == \A w \in Executed(rc.out) : observed[rc.req][w] # None

Current(rc) == \A w \in Executed(rc.out) : observed[rc.req][w] = rc.no

VaultAuthority(rc) ==
    /\ rc.att = "vault" /\ rc.verdict = "VERIFIED"
    /\ rc.req \in sealed
    /\ registered[rc.req] = rc.no /\ Current(rc)

\* Fault: the signature is taken for proof of isolation.
FaultProductionAuthority(rc) == rc.att = "pinned key" /\ rc.verdict = "VERIFIED"

ProductionAuthority(rc) ==
    /\ rc.att = "pinned key" /\ rc.verdict = "VERIFIED"
    /\ rc.out["BASE"].sbx # rc.out["CANDIDATE"].sbx

\* This process's vault, a root with the pinned key or with another (its own,
\* or its worker's), or no authority.
Authorities == {"vault", "canonical root", "other root", None}

\* Production evidence is judged by the pinned key, whether a vault or the
\* canonical root is given; another root judges nothing.
ProductionEvidence(rc, authority) ==
    authority \in {"vault", "canonical root"} /\ ProductionAuthority(rc)

Accepted(rc, authority) ==
    (authority = "vault" /\ VaultAuthority(rc)) \/ ProductionEvidence(rc, authority)

\* A result is a receipt, or somebody's claim that it is verified, or nothing.
\* (Claims of other verdicts count as receipts of these verdicts do.)
Claim == [verdict : {"VERIFIED"}]

\* A verdict other than VERIFIED needs no authority.
Counted(res, authority) ==
    CASE res.verdict # "VERIFIED" -> res.verdict
      [] res \in receipts /\ Accepted(res, authority) -> "VERIFIED"
      [] OTHER -> "INCONCLUSIVE"

CausalState(res, authority) == IF res = None THEN "NOT_RUN" ELSE Counted(res, authority)

\* Every change class is behavioural, and a frozen requirement says nothing to
\* the contrary: none can be taken out of the count.
ExclusionRefused(excluded) == excluded # {}

\* The computation is refused, whatever the other results are.
Refused(results, excluded) ==
    \/ ExclusionRefused(excluded)
    \/ \E q \in Requirements : results[q] \in receipts /\ results[q].req # q

Overall(results, authority, excluded) ==
    LET states == {CausalState(results[q], authority) : q \in Requirements}
    IN  CASE Refused(results, excluded) -> "REFUSED"
          [] "CONTRADICTED" \in states -> "CONTRADICTED"
          [] "BLOCKED" \in states -> "BLOCKED"
          [] states = {"VERIFIED"} -> "VERIFIED"
          [] "VERIFIED" \in states -> "PARTIALLY_VERIFIED"
          [] "INCONCLUSIVE" \in states -> "INCONCLUSIVE"
          [] OTHER -> "NOT_RUN"

-----------------------------------------------------------------------------
(* The actions. *)

NotExecuted == [w \in Worlds |-> None]

Init ==
    /\ sealed = {}
    /\ observed = [q \in Requirements |-> NotExecuted]
    /\ registered = [q \in Requirements |-> None]
    /\ run = None
    /\ receipts = {}
    /\ live = {Builder} /\ lost = {}
    /\ runs = 0 /\ faults = 0

Fault == faults < MaxFaults /\ faults' = faults + 1

\* The vault seals a witness once; a fresh vault knows none of the earlier.
SealWitness(q) ==
    /\ run = None /\ q \notin sealed
    /\ sealed' = sealed \cup {q}
    /\ UNCHANGED <<observed, registered, run, receipts, live, lost, runs, faults>>

\* What a run is about: the context its runner is given.
NewRun(runner, kind, q, tree) ==
    [no |-> runs + 1, runner |-> runner, kind |-> kind, req |-> q, tree |-> tree,
     world |-> "BASE", stage |-> "open", sbx |-> None, got |-> None, out |-> NotExecuted]

\* The vault knows the witness for one it has sealed, unchanged.
Intact(q) == q \in sealed

\* The integrity of the witness and the chain of its lock are checked first.
StartRun(runner, kind, q, tree) ==
    /\ run = None /\ Intact(q)
    /\ runs < MaxRuns /\ runs' = runs + 1
    /\ run' = NewRun(runner, kind, q, tree)
    /\ UNCHANGED <<vault, receipts, live, lost, faults>>

\* The world's tree: the base's, the candidate's, checked against the digest
\* of the context, and whatever the subtracted delta leaves.
TreesOf(world) ==
    CASE world = "BASE" -> {BaseTree}
      [] world = "CANDIDATE" -> {run.tree}
      [] world = "COUNTERFACTUAL" -> Trees

After(world) ==
    CASE world = "BASE" -> "CANDIDATE"
      [] world = "CANDIDATE" /\ run.kind = "triplet" -> "COUNTERFACTUAL"
      [] OTHER -> "done"

At(stage) == run # None /\ run.stage = stage

\* The provider answers with a sandbox, a new one unless it errs.
Answer(s) ==
    \/ s = <<run.no, run.world>> /\ UNCHANGED faults
    \/ s \in {run.out[w].sbx : w \in Executed(run.out)} /\ Fault

OpenWorld(s, tree) ==
    /\ At("open") /\ Answer(s) /\ tree \in TreesOf(run.world)
    /\ live' = live \cup {s}
    /\ run' = [run EXCEPT !.stage = "execute", !.sbx = s, !.got = tree]
    /\ UNCHANGED <<vault, receipts, lost, runs>>

\* Teardown is tried once, and its failure swallowed.
Teardown(s, f) ==
    \/ live' = live \ {s} /\ lost' = lost \ {s} /\ faults' = f
    \/ live' = live \cup {s} /\ lost' = lost \cup {s} /\ f < MaxFaults /\ faults' = f + 1

\* Creation fails, or answers with the builder's sandbox, which is then torn
\* down; either ends the run.
CreateFails ==
    /\ At("open") /\ faults < MaxFaults
    /\ run' = None
    /\ \/ faults' = faults + 1 /\ UNCHANGED <<live, lost>>
       \/ Teardown(Builder, faults + 1)
    /\ UNCHANGED <<vault, receipts, runs>>

\* Fault: teardown_on_failure is forgotten for a refused counterfactual.
FaultMaterialiseFails(refused) ==
    /\ At("open") /\ faults < MaxFaults /\ faults' = faults + 1
    /\ live' = live \cup {<<run.no, run.world>>}
    /\ run' = IF refused /\ run.world = "COUNTERFACTUAL"
              THEN [run EXCEPT !.stage = "conclude"] ELSE None
    /\ UNCHANGED <<vault, receipts, lost, runs>>

\* The sandbox is there and the tree cannot be had.  A counterfactual that
\* cannot be is a finding of the run, unless the error is of another kind.
MaterialiseFails(refused) ==
    /\ At("open") /\ faults < MaxFaults
    /\ Teardown(<<run.no, run.world>>, faults + 1)
    /\ run' = IF refused /\ run.world = "COUNTERFACTUAL"
              THEN [run EXCEPT !.stage = "conclude"] ELSE None
    /\ UNCHANGED <<vault, receipts, runs>>

DeployFails ==
    /\ At("execute") /\ faults < MaxFaults
    /\ Teardown(run.sbx, faults + 1)
    /\ run' = None
    /\ UNCHANGED <<vault, receipts, runs>>

Execution(report) == [report |-> report, sbx |-> run.sbx, tree |-> run.got]

\* The witness is deployed and executed, and for a fixture the vault notes
\* that it was.
ExecuteWitness(rep) ==
    /\ At("execute")
    /\ run' = [run EXCEPT !.stage = "teardown", !.out[run.world] = Execution(rep)]
    /\ observed' = IF Provenance(run.runner) = "fixture"
                   THEN [observed EXCEPT ![run.req][run.world] = run.no] ELSE observed
    /\ UNCHANGED <<sealed, registered, receipts, live, lost, runs, faults>>

CloseWorld ==
    /\ At("teardown")
    /\ Teardown(run.sbx, faults)
    /\ run' = IF After(run.world) = "done"
              THEN [run EXCEPT !.stage = "conclude", !.sbx = None, !.got = None]
              ELSE [run EXCEPT !.stage = "open", !.world = After(run.world),
                               !.sbx = None, !.got = None]
    /\ UNCHANGED <<vault, receipts, runs>>

\* What a receipt says of the executions is kept here only when it says that
\* they verify.
Receipt(r) ==
    LET verdict == Reconcile(r) IN
    [no |-> r.no, req |-> r.req, kind |-> r.kind, verdict |-> verdict, att |-> Signature(r),
     out |-> IF verdict = "VERIFIED" THEN r.out ELSE NotExecuted]

\* The vault attests executions it has itself observed, of a witness it has
\* sealed; of an engine's run it always has.
Attestable(r) ==
    Intact(r.req) /\ \A w \in Executed(r.out) : observed[r.req][w] = r.no

Attest(r) == Attestable(r) /\ registered' = [registered EXCEPT ![r.req] = r.no]

\* Reconciled, attested and handed out.
Conclude ==
    /\ At("conclude")
    /\ receipts' = receipts \cup {Receipt(run)}
    /\ IF Signature(run) = "vault" THEN Attest(run) ELSE UNCHANGED registered
    /\ run' = None
    /\ UNCHANGED <<sealed, observed, live, lost, runs, faults>>

\* The process dies: the vault is gone, and the sandbox it held stays.
Restart ==
    /\ Fault
    /\ sealed' = {}
    /\ observed' = [q \in Requirements |-> NotExecuted]
    /\ registered' = [q \in Requirements |-> None]
    /\ run' = None
    /\ lost' = lost \cup (IF run = None THEN {} ELSE {run.sbx} \cap live)
    /\ UNCHANGED <<receipts, live, runs>>

Next ==
    \/ \E q \in Requirements :
           \/ SealWitness(q)
           \/ \E runner \in Runners, kind \in {"pair", "triplet"}, tree \in Trees :
                  StartRun(runner, kind, q, tree)
    \/ \E s \in Sandbox, tree \in Trees : OpenWorld(s, tree)
    \/ CreateFails
    \/ \E refused \in BOOLEAN : MaterialiseFails(refused)
    \/ DeployFails
    \/ \E rep \in Reports : ExecuteWitness(rep)
    \/ CloseWorld
    \/ Conclude
    \/ Restart

Spec == Init /\ [][Next]_vars

-----------------------------------------------------------------------------
(* Properties. *)

\* What a verified requirement stands on: the witness counts as failed on the
\* base, as passed on another tree and, in a triplet, as failed again in a third
\* world of yet another tree than the candidate's, with nothing to say that its
\* tests did not run; each in a sandbox of its own, none of them the builder's.
\* (A command that raised counts by the text of its exception.)
Causal(rc) ==
    LET show(w, o) == /\ rc.out[w] # None /\ Outcome(rc.out[w].report) = o
                      /\ ~Vacuous(rc.out[w].report) /\ rc.out[w].sbx # Builder
    IN  /\ show("BASE", "FAIL") /\ show("CANDIDATE", "PASS")
        /\ rc.out["BASE"].tree = BaseTree /\ rc.out["CANDIDATE"].tree # BaseTree
        /\ Distinct(rc.out, {"BASE", "CANDIDATE"})
        /\ rc.kind = "triplet" =>
              /\ show("COUNTERFACTUAL", "FAIL")
              /\ rc.out["COUNTERFACTUAL"].tree # rc.out["CANDIDATE"].tree
              /\ rc.att = "vault" => Distinct(rc.out, Worlds)

\* Whatever results are put before coverage - earlier receipts, receipts of an
\* engine that signs nothing or of a worker with a key of its own, claims -
\* whatever authority it is to judge them by and whatever it is asked to leave
\* out, it says VERIFIED of the contract only when every requirement's result is a
\* receipt of its own, of an execution that shows the change to be the cause
\* (coverage.py:377-884, reconciliation.py, engine.py, trust_bridge.py).
VerifiedIsCausal ==
    \A excluded \in SUBSET Requirements, authority \in Authorities,
       results \in [Requirements -> {None} \cup receipts \cup Claim] :
        Overall(results, authority, excluded) = "VERIFIED"
        => \A q \in Requirements :
               results[q] \in receipts /\ results[q].req = q /\ Causal(results[q])

\* The vault speaks for one execution of a witness, the last: as soon as a
\* run executes it again, aborted or not, no earlier receipt of it is
\* accepted on the vault's word (witness_store.py:1466-1818).
LastExecutionHasAuthority ==
    \A rc \in receipts : VaultAuthority(rc) =>
        /\ \A other \in receipts :
              other.req = rc.req /\ other.att = "vault" => other.no <= rc.no
        /\ run # None /\ run.req = rc.req /\ run.runner = "engine"
              => Executed(run.out) = {}

\* Between runs no verifier sandbox is left but those whose teardown failed
\* or whose process died, and during one only its current world's
\* (sandbox.py:345-697, engine.py:459-462).
SandboxesTornDown ==
    live \ {Builder} \subseteq lost \cup (IF run = None THEN {} ELSE {run.sbx})

=============================================================================
