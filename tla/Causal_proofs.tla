--------------------------- MODULE Causal_proofs ---------------------------
(***************************************************************************)
(* Proofs about the causal engine.                                         *)
(*                                                                         *)
(* Part I, verdicts: for any requirements, trees, runners, reports and     *)
(* bounds, what is torn down, what the vault speaks for, and what stands   *)
(* behind VERIFIED.  Part II, slices: for any requests, outcomes and       *)
(* bounds, what a search for a minimal slice goes through, what its result *)
(* rests on, and that a cache gives the same answer again.                 *)
(***************************************************************************)
EXTENDS CausalVerdict, SliceSearch, SequenceTheorems, FiniteSetTheorems, TLAPS

-----------------------------------------------------------------------------
(* I.  Verdicts.                                                           *)

WitnessOutcomes == {"PASS", "FAIL", "TIMEOUT", "INVALID_PRECONDITION", "ERROR"}

TypeOK ==
    /\ sealed \subseteq Requirements
    /\ observed \in [Requirements -> [Worlds -> Nat \cup {None}]]
    /\ registered \in [Requirements -> Nat \cup {None}]
    /\ run \in InProgress \cup {None} /\ receipts \subseteq Receipts
    /\ runs \in Nat

\* The sandbox of the world in progress, once it has one.
Held == IF run # None /\ run.stage \in {"execute", "teardown"} THEN {run.sbx} ELSE {}

\* What is not torn down is held, or known to be lost.
Accounted == live \ {Builder} \subseteq lost \cup Held

\* The verifier's own sandboxes.
Own == (1..MaxRuns) \X Worlds

\* The worlds of a run are executed in their order, each in a sandbox of the verifier.
Ordered ==
    run # None =>
        /\ run.no = runs
        /\ run.out["BASE"] # None <=> run.world # "BASE" \/ run.stage \in {"teardown", "conclude"}
        /\ run.out["CANDIDATE"] # None <=>
               run.world = "COUNTERFACTUAL"
               \/ (run.world = "CANDIDATE" /\ run.stage \in {"teardown", "conclude"})
        /\ run.world = "COUNTERFACTUAL" => run.kind = "triplet"
        /\ run.out["COUNTERFACTUAL"] # None => run.world = "COUNTERFACTUAL"
        /\ run.stage = "conclude" => run.world # "BASE"
        /\ run.stage \in {"execute", "teardown"} =>
               run.sbx \in Own /\ run.got \in Trees /\ (run.world = "BASE" => run.got = BaseTree)
        /\ \A w \in Executed(run.out) : run.out[w].sbx \in Own
        /\ run.out["BASE"] # None => run.out["BASE"].tree = BaseTree

\* What the vault notes is of the run that has it noted, and of the last.
Noted ==
    /\ \A rc \in receipts :
           /\ rc.no <= runs /\ (run # None => rc.no < run.no)
           /\ rc.att = "vault" /\ registered[rc.req] # None => rc.no <= registered[rc.req]
    /\ run # None => run.req \in sealed
    /\ run # None /\ run.runner = "engine" =>
           \A w \in Executed(run.out) : observed[run.req][w] = run.no

\* What a receipt that verifies says of its executions, whoever signed it.
Shown(rc) ==
    LET show(w, o) == /\ rc.out[w] # None /\ Outcome(rc.out[w].report) = o
                      /\ ~Vacuous(rc.out[w].report) /\ rc.out[w].sbx # Builder
    IN  /\ show("BASE", "FAIL") /\ show("CANDIDATE", "PASS")
        /\ rc.out["BASE"].tree = BaseTree /\ rc.out["CANDIDATE"].tree # BaseTree
        /\ rc.att = "vault" => Distinct(rc.out, Executed(rc.out))
        /\ rc.kind = "triplet" =>
              /\ show("COUNTERFACTUAL", "FAIL")
              /\ rc.out["COUNTERFACTUAL"].tree # rc.out["CANDIDATE"].tree

Justified == \A rc \in receipts : rc.verdict = "VERIFIED" => Shown(rc)

VerdictInv == TypeOK /\ Accounted /\ Ordered /\ Noted /\ Justified

-----------------------------------------------------------------------------
LEMMA InitInv == Init => VerdictInv
<1> SUFFICES ASSUME Init PROVE VerdictInv
    OBVIOUS
<1>1. NotExecuted \in [Worlds -> Nat \cup {None}]
    BY DEF NotExecuted
<1>2. TypeOK
    BY <1>1 DEF Init, TypeOK
<1> QED BY <1>2 DEF Init, VerdictInv, Accounted, Ordered, Noted, Justified

\* A run is not None, and neither is an execution.
LEMMA NotNone ==
    /\ \A r \in InProgress : r # None
    /\ \A e \in Executions : e # None
    /\ \A n \in Nat : n # None
    /\ Builder \notin Own
BY NoneAssumption DEF Own

\* What the invariants say of a run that is over: a vault that was not touched
\* speaks for the same receipts.
LEMMA RunEnds ==
    ASSUME VerdictInv, run' = None, UNCHANGED <<vault, receipts, runs>>
    PROVE  TypeOK' /\ Ordered' /\ Noted' /\ Justified'
<1>1. TypeOK' /\ Ordered'
    BY DEF VerdictInv, TypeOK, Ordered, vault
<1>2. Noted'
    BY DEF VerdictInv, Noted, vault
<1>3. Justified'
    BY DEF VerdictInv, Justified
<1> QED BY <1>1, <1>2, <1>3

\* The same of one that goes on and executes nothing.
LEMMA RunGoesOn ==
    ASSUME VerdictInv, run \in InProgress, run' \in InProgress, UNCHANGED <<vault, receipts, runs>>,
           run'.no = run.no, run'.runner = run.runner, run'.req = run.req, run'.out = run.out
    PROVE  TypeOK' /\ Noted' /\ Justified'
<1>1. TypeOK'
    BY DEF VerdictInv, TypeOK, vault
<1>2. Noted'
    BY NotNone DEF VerdictInv, Noted, vault
<1>3. Justified'
    BY DEF VerdictInv, Justified
<1> QED BY <1>1, <1>2, <1>3

LEMMA SealStep ==
    ASSUME VerdictInv, NEW q \in Requirements, SealWitness(q)
    PROVE  VerdictInv'
<1>1. UNCHANGED <<observed, registered, run, receipts, live, lost, runs>> /\ sealed' = sealed \cup {q}
    BY DEF SealWitness
<1>2. TypeOK' /\ Accounted' /\ Ordered'
    BY <1>1 DEF VerdictInv, TypeOK, Accounted, Held, Ordered
<1>3. Noted' /\ Justified'
    BY <1>1 DEF VerdictInv, Noted, Justified
<1> QED BY <1>2, <1>3 DEF VerdictInv

LEMMA StartStep ==
    ASSUME VerdictInv, NEW q \in Requirements, NEW runner \in Runners, NEW kind \in {"pair", "triplet"},
           NEW tree \in Trees, StartRun(runner, kind, q, tree)
    PROVE  VerdictInv'
<1>1. /\ run = None /\ runs < MaxRuns /\ runs' = runs + 1 /\ runs \in Nat /\ q \in sealed
      /\ UNCHANGED <<sealed, observed, registered, receipts, live, lost>>
    BY DEF StartRun, Intact, vault, VerdictInv, TypeOK
<1>2. runs + 1 \in 1..MaxRuns /\ MaxRuns \in Nat
    BY <1>1, BoundsAssumption
<1>3. NotExecuted \in [Worlds -> Executions \cup {None}] /\ \A w \in Worlds : NotExecuted[w] = None
    BY DEF NotExecuted
<1>4. /\ run' \in InProgress /\ run'.no = runs + 1 /\ run'.world = "BASE" /\ run'.stage = "open"
      /\ run'.out = NotExecuted /\ run'.kind = kind /\ run'.req = q
    BY <1>2, <1>3 DEF StartRun, NewRun, InProgress, Worlds
<1>5. TypeOK'
    BY <1>1, <1>4 DEF VerdictInv, TypeOK
<1>6. Accounted'
    BY <1>1, <1>4 DEF VerdictInv, Accounted, Held
<1>7. Executed(NotExecuted) = {} /\ NotExecuted["BASE"] = None /\ NotExecuted["CANDIDATE"] = None
      /\ NotExecuted["COUNTERFACTUAL"] = None
    BY <1>3 DEF Executed, Worlds
<1>8. Ordered'
    BY <1>1, <1>4, <1>7 DEF Ordered
<1>9. \A rc \in receipts : rc.no \in Nat /\ rc.no <= runs
    BY <1>2 DEF VerdictInv, TypeOK, Receipts, Noted
<1>10. Noted'
    BY <1>1, <1>4, <1>7, <1>9 DEF VerdictInv, Noted
<1>11. Justified'
    BY <1>1 DEF VerdictInv, Justified
<1> QED BY <1>5, <1>6, <1>8, <1>10, <1>11 DEF VerdictInv

LEMMA OpenStep ==
    ASSUME VerdictInv, NEW s \in Sandbox, NEW tree \in Trees, OpenWorld(s, tree)
    PROVE  VerdictInv'
<1>1. /\ run # None /\ run \in InProgress /\ run.stage = "open" /\ Answer(s) /\ tree \in TreesOf(run.world)
      /\ live' = live \cup {s} /\ UNCHANGED <<vault, receipts, lost, runs>>
      /\ run' = [run EXCEPT !.stage = "execute", !.sbx = s, !.got = tree]
    BY DEF OpenWorld, At, VerdictInv, TypeOK
<1>2. /\ run' \in InProgress /\ run'.stage = "execute" /\ run'.sbx = s /\ run'.got = tree
      /\ run'.no = run.no /\ run'.runner = run.runner /\ run'.kind = run.kind /\ run'.req = run.req
      /\ run'.world = run.world /\ run'.out = run.out
    BY <1>1 DEF InProgress
<1>3. TypeOK' /\ Noted' /\ Justified'
    BY <1>1, <1>2, RunGoesOn
<1>4. s \in Own
    <2>1. run.no \in 1..MaxRuns /\ run.world \in Worlds
        BY <1>1 DEF InProgress
    <2>2. \A w \in Executed(run.out) : run.out[w].sbx \in Own
        BY <1>1 DEF VerdictInv, Ordered
    <2>3. s = <<run.no, run.world>> \/ s \in {run.out[w].sbx : w \in Executed(run.out)}
        BY <1>1 DEF Answer
    <2>4. <<run.no, run.world>> \in Own
        BY <2>1 DEF Own
    <2> QED BY <2>2, <2>3, <2>4
<1>5. run' # None
    BY <1>2, NotNone
<1>6. Accounted'
    BY <1>1, <1>2, <1>5 DEF VerdictInv, Accounted, Held
<1>7. run.world = "BASE" => tree = BaseTree
    BY <1>1 DEF TreesOf
<1>8. Ordered'
    BY <1>1, <1>2, <1>4, <1>7 DEF VerdictInv, Ordered
<1> QED BY <1>3, <1>6, <1>8 DEF VerdictInv

\* A teardown, whatever comes of it.
LEMMA TeardownAccounts ==
    ASSUME NEW s, NEW f, Teardown(s, f), live \ {Builder} \subseteq lost \cup {s}
    PROVE  live' \ {Builder} \subseteq lost'
BY DEF Teardown

LEMMA CreateFailsStep ==
    ASSUME VerdictInv, CreateFails
    PROVE  VerdictInv'
<1>1. /\ run # None /\ run.stage = "open" /\ run' = None /\ UNCHANGED <<vault, receipts, runs>>
      /\ UNCHANGED <<live, lost>> \/ Teardown(Builder, faults + 1)
    BY DEF CreateFails, At
<1>2. live \ {Builder} \subseteq lost
    BY <1>1 DEF VerdictInv, Accounted, Held
<1>3. live' \ {Builder} \subseteq lost'
    <2>1. CASE UNCHANGED <<live, lost>>
        BY <1>2, <2>1
    <2>2. CASE Teardown(Builder, faults + 1)
        BY <1>2, <2>2, TeardownAccounts
    <2> QED BY <1>1, <2>1, <2>2
<1>4. Accounted'
    BY <1>1, <1>3 DEF Accounted, Held
<1> QED BY <1>1, <1>4, RunEnds DEF VerdictInv

LEMMA MaterialiseFailsStep ==
    ASSUME VerdictInv, NEW refused \in BOOLEAN, MaterialiseFails(refused)
    PROVE  VerdictInv'
<1>1. /\ run # None /\ run \in InProgress /\ run.stage = "open" /\ UNCHANGED <<vault, receipts, runs>>
      /\ Teardown(<<run.no, run.world>>, faults + 1)
      /\ \/ run.world = "COUNTERFACTUAL" /\ run' = [run EXCEPT !.stage = "conclude"]
         \/ run' = None
    BY DEF MaterialiseFails, At, VerdictInv, TypeOK
<1>2. live \ {Builder} \subseteq lost
    BY <1>1 DEF VerdictInv, Accounted, Held
<1>3. live' \ {Builder} \subseteq lost'
    BY <1>1, <1>2, TeardownAccounts
<1>4. CASE run' = None
    <2>1. Accounted'
        BY <1>3, <1>4 DEF Accounted, Held
    <2> QED BY <1>1, <1>4, <2>1, RunEnds DEF VerdictInv
<1>5. CASE run.world = "COUNTERFACTUAL" /\ run' = [run EXCEPT !.stage = "conclude"]
    <2>1. /\ run' \in InProgress /\ run'.stage = "conclude"
          /\ run'.no = run.no /\ run'.runner = run.runner /\ run'.kind = run.kind /\ run'.req = run.req
          /\ run'.world = run.world /\ run'.out = run.out
        BY <1>1, <1>5 DEF InProgress
    <2>2. Accounted'
        BY <1>3, <2>1 DEF Accounted, Held
    <2>3. Ordered'
        BY <1>1, <1>5, <2>1 DEF VerdictInv, Ordered
    <2> QED BY <1>1, <2>1, <2>2, <2>3, RunGoesOn DEF VerdictInv
<1> QED BY <1>1, <1>4, <1>5

LEMMA DeployFailsStep ==
    ASSUME VerdictInv, DeployFails
    PROVE  VerdictInv'
<1>1. /\ run # None /\ run.stage = "execute" /\ run' = None /\ UNCHANGED <<vault, receipts, runs>>
      /\ Teardown(run.sbx, faults + 1)
    BY DEF DeployFails, At
<1>2. live \ {Builder} \subseteq lost \cup {run.sbx}
    BY <1>1 DEF VerdictInv, Accounted, Held
<1>3. live' \ {Builder} \subseteq lost'
    BY <1>1, <1>2, TeardownAccounts
<1>4. Accounted'
    BY <1>1, <1>3 DEF Accounted, Held
<1> QED BY <1>1, <1>4, RunEnds DEF VerdictInv

LEMMA ExecuteStep ==
    ASSUME VerdictInv, NEW rep \in Reports, ExecuteWitness(rep)
    PROVE  VerdictInv'
<1>1. /\ run # None /\ run \in InProgress /\ run.stage = "execute"
      /\ run' = [run EXCEPT !.stage = "teardown", !.out[run.world] = Execution(rep)]
      /\ observed' = IF run.runner = "engine"
                     THEN [observed EXCEPT ![run.req][run.world] = run.no] ELSE observed
      /\ UNCHANGED <<sealed, registered, receipts, live, lost, runs>>
    BY DEF ExecuteWitness, Provenance, At, VerdictInv, TypeOK
<1>2. PICK e : e = Execution(rep)
    OBVIOUS
<1>3. /\ run.sbx \in Own /\ run.got \in Trees /\ (run.world = "BASE" => run.got = BaseTree)
      /\ run.no \in Nat
    BY <1>1, BoundsAssumption DEF VerdictInv, Ordered, InProgress
<1>4. /\ e \in Executions /\ e # None /\ e.sbx = run.sbx /\ e.tree = run.got
    <2>1. e \in Executions /\ e.sbx = run.sbx /\ e.tree = run.got
        BY <1>2, <1>3 DEF Execution, Executions, Own, Sandbox
    <2> QED BY <2>1, NotNone
<1>5. PICK out : out = [run.out EXCEPT ![run.world] = e]
    OBVIOUS
<1>6. /\ run.world \in Worlds /\ run.out \in [Worlds -> Executions \cup {None}] /\ run.req \in Requirements
    BY <1>1 DEF InProgress
<1>7. /\ out \in [Worlds -> Executions \cup {None}] /\ out[run.world] = e
      /\ \A w \in Worlds : w # run.world => out[w] = run.out[w]
    BY <1>4, <1>5, <1>6
<1>8. run' = [run EXCEPT !.stage = "teardown", !.out = out]
    BY <1>1, <1>2, <1>5 DEF InProgress
<1>9. /\ run' \in InProgress /\ run'.stage = "teardown" /\ run'.out = out
      /\ run'.no = run.no /\ run'.runner = run.runner /\ run'.kind = run.kind /\ run'.req = run.req
      /\ run'.world = run.world /\ run'.sbx = run.sbx /\ run'.got = run.got
    BY <1>1, <1>7, <1>8 DEF InProgress
<1>10. observed' \in [Requirements -> [Worlds -> Nat \cup {None}]]
    BY <1>1, <1>3, <1>6 DEF VerdictInv, TypeOK
<1>11. TypeOK'
    BY <1>1, <1>9, <1>10 DEF VerdictInv, TypeOK
<1>12. run' # None
    BY <1>9, NotNone
<1>13. Accounted'
    BY <1>1, <1>9, <1>12 DEF VerdictInv, Accounted, Held
<1>14. \A w \in Executed(out) : w = run.world \/ w \in Executed(run.out)
    BY <1>7 DEF Executed
<1>15. Ordered'
    <2>1. /\ run.no = runs
          /\ run.out["BASE"] # None <=> run.world # "BASE"
          /\ run.out["CANDIDATE"] # None <=> run.world = "COUNTERFACTUAL"
          /\ run.world = "COUNTERFACTUAL" => run.kind = "triplet"
          /\ run.out["COUNTERFACTUAL"] # None => run.world = "COUNTERFACTUAL"
          /\ \A w \in Executed(run.out) : run.out[w].sbx \in Own
          /\ run.out["BASE"] # None => run.out["BASE"].tree = BaseTree
        BY <1>1 DEF VerdictInv, Ordered
    <2>2. /\ out["BASE"] # None
          /\ out["CANDIDATE"] # None <=> run.world \in {"CANDIDATE", "COUNTERFACTUAL"}
          /\ out["COUNTERFACTUAL"] # None => run.world = "COUNTERFACTUAL"
          /\ out["BASE"].tree = BaseTree
        BY <1>3, <1>4, <1>6, <1>7, <2>1 DEF Worlds
    <2>3. \A w \in Executed(out) : out[w].sbx \in Own
        BY <1>3, <1>4, <1>7, <1>14, <2>1 DEF Executed
    <2> QED BY <1>1, <1>3, <1>9, <2>1, <2>2, <2>3 DEF Ordered
<1>16. Noted'
    <2>1. /\ run.req \in sealed
          /\ \A rc \in receipts :
                /\ rc.no <= runs /\ rc.no < run.no
                /\ rc.att = "vault" /\ registered[rc.req] # None => rc.no <= registered[rc.req]
        BY <1>1 DEF VerdictInv, Noted
    <2>2. run.runner = "engine" => \A w \in Executed(out) : observed'[run.req][w] = run.no
        <3> SUFFICES ASSUME run.runner = "engine", NEW w \in Executed(out)
                     PROVE  observed'[run.req][w] = run.no
            OBVIOUS
        <3>1. w \in Worlds
            BY DEF Executed
        <3>2. w # run.world => observed[run.req][w] = run.no
            BY <1>1, <1>14 DEF VerdictInv, Noted
        <3>3. observed \in [Requirements -> [Worlds -> Nat \cup {None}]]
            BY DEF VerdictInv, TypeOK
        <3> QED BY <1>1, <1>6, <3>1, <3>2, <3>3
    <2> QED BY <1>1, <1>9, <2>1, <2>2 DEF Noted
<1>17. Justified'
    BY <1>1 DEF VerdictInv, Justified
<1> QED BY <1>11, <1>13, <1>15, <1>16, <1>17 DEF VerdictInv

LEMMA CloseStep ==
    ASSUME VerdictInv, CloseWorld
    PROVE  VerdictInv'
<1>1. /\ run # None /\ run \in InProgress /\ run.stage = "teardown" /\ Teardown(run.sbx, faults)
      /\ UNCHANGED <<vault, receipts, runs>>
    BY DEF CloseWorld, At, VerdictInv, TypeOK
<1>2. live \ {Builder} \subseteq lost \cup {run.sbx}
    BY <1>1 DEF VerdictInv, Accounted, Held
<1>3. live' \ {Builder} \subseteq lost'
    BY <1>1, <1>2, TeardownAccounts
<1>4. run.world \in Worlds /\ run.kind \in {"pair", "triplet"}
    BY <1>1 DEF InProgress
<1>5. CASE After(run.world) = "done"
    <2>1. run' = [run EXCEPT !.stage = "conclude", !.sbx = None, !.got = None]
        BY <1>5 DEF CloseWorld
    <2>2. /\ run' \in InProgress /\ run'.stage = "conclude"
          /\ run'.no = run.no /\ run'.runner = run.runner /\ run'.kind = run.kind /\ run'.req = run.req
          /\ run'.world = run.world /\ run'.out = run.out
        BY <1>1, <2>1 DEF InProgress
    <2>3. Accounted'
        BY <1>3, <2>2 DEF Accounted, Held
    <2>4. run.world # "BASE"
        BY <1>5 DEF After
    <2>5. Ordered'
        BY <1>1, <1>4, <2>2, <2>4 DEF VerdictInv, Ordered
    <2> QED BY <1>1, <2>2, <2>3, <2>5, RunGoesOn DEF VerdictInv
<1>6. CASE After(run.world) # "done"
    <2>1. PICK world : world = After(run.world)
        OBVIOUS
    <2>2. \/ run.world = "BASE" /\ world = "CANDIDATE"
          \/ run.world = "CANDIDATE" /\ run.kind = "triplet" /\ world = "COUNTERFACTUAL"
        BY <1>4, <1>6, <2>1 DEF After, Worlds
    <2>3. run' = [run EXCEPT !.stage = "open", !.world = world, !.sbx = None, !.got = None]
        BY <1>6, <2>1 DEF CloseWorld
    <2>4. /\ run' \in InProgress /\ run'.stage = "open" /\ run'.world = world
          /\ run'.no = run.no /\ run'.runner = run.runner /\ run'.kind = run.kind /\ run'.req = run.req
          /\ run'.out = run.out
        BY <1>1, <2>2, <2>3 DEF InProgress, Worlds
    <2>5. Accounted'
        BY <1>3, <2>4 DEF Accounted, Held
    <2>6. Ordered'
        BY <1>1, <2>2, <2>4 DEF VerdictInv, Ordered
    <2> QED BY <1>1, <2>4, <2>5, <2>6, RunGoesOn DEF VerdictInv
<1> QED BY <1>5, <1>6

LEMMA OutcomeRange == \A rep : Outcome(rep) \in WitnessOutcomes
BY DEF Outcome, WitnessOutcomes

\* A run that concludes has executed the base and the candidate, and verifies
\* only what they and the counterfactual show.
LEMMA VerifiedShows ==
    ASSUME VerdictInv, run # None, run.stage = "conclude", Reconcile(run) = "VERIFIED",
           NEW rc, rc = Receipt(run)
    PROVE  Shown(rc)
<1>1. /\ run \in InProgress
      /\ run.out["BASE"] # None /\ run.out["CANDIDATE"] # None
      /\ run.out["COUNTERFACTUAL"] # None => run.kind = "triplet"
      /\ \A w \in Executed(run.out) : run.out[w].sbx \in Own
      /\ run.out["BASE"].tree = BaseTree
    <2>1. run \in InProgress /\ run.world \in Worlds
        BY DEF VerdictInv, TypeOK, InProgress
    <2> QED BY <2>1 DEF VerdictInv, Ordered, Worlds
<1>2. rc.out = run.out /\ rc.kind = run.kind /\ rc.att = Signature(run)
    BY DEF Receipt
<1>3. /\ ~IntegrityFailure(run) /\ ~InvalidCounterfactual(run)
      /\ \A w \in Executed(run.out) : ~Vacuous(run.out[w].report)
      /\ ~Some(run, "INVALID_PRECONDITION") /\ ~Some(run, "TIMEOUT") /\ ~Some(run, "ERROR")
      /\ Behavioural(run) = "VERIFIED"
    BY DEF Reconcile
<1>4. \A w \in Executed(run.out) : Outcome(run.out[w].report) \in {"PASS", "FAIL"}
    BY <1>3, OutcomeRange DEF Some, WitnessOutcomes
<1>5. "BASE" \in Executed(run.out) /\ "CANDIDATE" \in Executed(run.out)
    BY <1>1 DEF Executed, Worlds
<1>6. /\ Outcome(run.out["BASE"].report) = "FAIL" /\ Outcome(run.out["CANDIDATE"].report) = "PASS"
      /\ run.kind = "triplet" => Outcome(run.out["COUNTERFACTUAL"].report) # "PASS"
    BY <1>3, <1>4, <1>5 DEF Behavioural, Ineffective
<1>7. run.kind = "triplet" =>
          /\ "COUNTERFACTUAL" \in Executed(run.out) /\ run.out["COUNTERFACTUAL"] # None
          /\ run.out["COUNTERFACTUAL"].tree # run.out["CANDIDATE"].tree
    BY <1>3 DEF InvalidCounterfactual, Executed, Worlds
<1>8. run.out["CANDIDATE"].tree # BaseTree
    BY <1>1, <1>3 DEF IntegrityFailure
<1>9. \A w \in Executed(run.out) : run.out[w].sbx # Builder
    BY <1>1, NotNone
<1>10. Signature(run) = "vault" => Distinct(run.out, Executed(run.out))
    <2>1. Signature(run) = "vault" => run.runner = "engine"
        <3>1. run.runner \in AllRunners
            BY <1>1, RunnersAssumption DEF InProgress
        <3> QED BY <3>1, NoneAssumption DEF Signature, Provenance, WorkerKey, AllRunners, Workers
    <2> QED BY <1>3, <2>1 DEF IntegrityFailure, Workers
<1> QED BY <1>1, <1>2, <1>3, <1>4, <1>5, <1>6, <1>7, <1>8, <1>9, <1>10 DEF Shown

LEMMA ConcludeStep ==
    ASSUME VerdictInv, Conclude
    PROVE  VerdictInv'
<1>1. /\ run # None /\ run \in InProgress /\ run.stage = "conclude" /\ run' = None
      /\ receipts' = receipts \cup {Receipt(run)}
      /\ registered' = IF Signature(run) = "vault"
                       THEN [registered EXCEPT ![run.req] = run.no] ELSE registered
      /\ UNCHANGED <<sealed, observed, live, lost, runs>>
    BY DEF Conclude, Attest, At, VerdictInv, TypeOK
<1>2. PICK rc : rc = Receipt(run)
    OBVIOUS
<1>3. /\ run.no \in 1..MaxRuns /\ run.no \in Nat /\ run.req \in Requirements
      /\ run.kind \in {"pair", "triplet"} /\ run.out \in [Worlds -> Executions \cup {None}]
      /\ run.runner \in AllRunners
    BY <1>1, BoundsAssumption, RunnersAssumption DEF InProgress
<1>4. Reconcile(run) \in Verdicts /\ Signature(run) \in Signers
    <2>1. Behavioural(run) \in Verdicts
        BY DEF Behavioural, Verdicts
    <2>2. Reconcile(run) \in Verdicts
        BY <2>1 DEF Reconcile, Verdicts
    <2>3. Signature(run) \in Signers
        BY <1>3 DEF Signature, Signers, Provenance, WorkerKey, AllRunners, Workers
    <2> QED BY <2>2, <2>3
<1>5. /\ rc \in Receipts /\ rc.no = run.no /\ rc.req = run.req /\ rc.att = Signature(run)
      /\ rc.verdict = Reconcile(run)
    <2>1. NotExecuted \in [Worlds -> Executions \cup {None}]
        BY DEF NotExecuted
    <2> QED BY <1>2, <1>3, <1>4, <2>1 DEF Receipt, Receipts
<1>6. registered' \in [Requirements -> Nat \cup {None}]
    BY <1>1, <1>3 DEF VerdictInv, TypeOK
<1>7. TypeOK'
    BY <1>1, <1>2, <1>5, <1>6 DEF VerdictInv, TypeOK
<1>8. Accounted' /\ Ordered'
    BY <1>1 DEF VerdictInv, Accounted, Held, Ordered
<1>9. Noted'
    <2>0. run.no = runs /\ runs \in Nat
        BY <1>1 DEF VerdictInv, Ordered, TypeOK
    <2>1. \A other \in receipts :
              /\ other.no <= runs /\ other.no < run.no /\ other.no \in Nat /\ other.req \in Requirements
              /\ other.att = "vault" /\ registered[other.req] # None => other.no <= registered[other.req]
        BY <1>1 DEF VerdictInv, Noted, TypeOK, Receipts
    <2>2. \A q \in Requirements :
              registered'[q] = IF Signature(run) = "vault" /\ q = run.req THEN run.no ELSE registered[q]
        BY <1>1, <1>3 DEF VerdictInv, TypeOK
    <2>3. \A other \in receipts :
              other.att = "vault" /\ registered'[other.req] # None => other.no <= registered'[other.req]
        BY <1>3, <2>1, <2>2
    <2>4. rc.att = "vault" => rc.no <= registered'[rc.req]
        BY <1>3, <1>5, <2>2
    <2> QED BY <1>1, <1>2, <1>5, <2>0, <2>1, <2>3, <2>4 DEF Noted
<1>10. Justified'
    BY <1>1, <1>2, <1>5, VerifiedShows DEF VerdictInv, Justified
<1> QED BY <1>7, <1>8, <1>9, <1>10 DEF VerdictInv

LEMMA RestartStep ==
    ASSUME VerdictInv, Restart
    PROVE  VerdictInv'
<1>1. /\ sealed' = {} /\ observed' = [q \in Requirements |-> NotExecuted]
      /\ registered' = [q \in Requirements |-> None] /\ run' = None
      /\ lost' = lost \cup (IF run = None THEN {} ELSE {run.sbx} \cap live)
      /\ UNCHANGED <<receipts, live, runs>>
    BY DEF Restart
<1>2. NotExecuted \in [Worlds -> Nat \cup {None}]
    BY DEF NotExecuted
<1>3. TypeOK' /\ Ordered'
    BY <1>1, <1>2 DEF VerdictInv, TypeOK, Ordered
<1>4. Accounted'
    BY <1>1 DEF VerdictInv, Accounted, Held
<1>5. Noted'
    BY <1>1 DEF VerdictInv, Noted, TypeOK, Receipts
<1>6. Justified'
    BY <1>1 DEF VerdictInv, Justified
<1> QED BY <1>3, <1>4, <1>5, <1>6 DEF VerdictInv

LEMMA VerdictStep == VerdictInv /\ [Next]_vars => VerdictInv'
<1> SUFFICES ASSUME VerdictInv, [Next]_vars PROVE VerdictInv'
    OBVIOUS
<1>1. CASE UNCHANGED vars
    BY <1>1 DEF vars, VerdictInv, TypeOK, Accounted, Held, Ordered, Noted, Justified
<1>2. ASSUME NEW q \in Requirements,
             SealWitness(q) \/ \E runner \in Runners, kind \in {"pair", "triplet"}, tree \in Trees :
                                   StartRun(runner, kind, q, tree)
      PROVE  VerdictInv'
    BY <1>2, SealStep, StartStep
<1>3. ASSUME NEW s \in Sandbox, NEW tree \in Trees, OpenWorld(s, tree) PROVE VerdictInv'
    BY <1>3, OpenStep
<1>4. ASSUME NEW refused \in BOOLEAN, MaterialiseFails(refused) PROVE VerdictInv'
    BY <1>4, MaterialiseFailsStep
<1>5. ASSUME NEW rep \in Reports, ExecuteWitness(rep) PROVE VerdictInv'
    BY <1>5, ExecuteStep
<1> QED BY <1>1, <1>2, <1>3, <1>4, <1>5, CreateFailsStep, DeployFailsStep, CloseStep, ConcludeStep,
           RestartStep DEF Next

\* What is held, seen and noted of a run agrees at every step, and a receipt shows what it
\* was concluded from (engine.py, trust_bridge.py, witness_store.py).
THEOREM VerdictInvariant == Spec => []VerdictInv
<1>1. Init => VerdictInv
    BY InitInv
<1> QED BY <1>1, VerdictStep, PTL DEF Spec

\* Whatever fails, and whenever the process dies: a verifier sandbox that is not the present
\* world's was torn down, or is known to be lost (sandbox.py:345-697, engine.py:459-462).
THEOREM TornDown == Spec => []SandboxesTornDown
<1>1. VerdictInv => SandboxesTornDown
    BY DEF VerdictInv, Accounted, Held, SandboxesTornDown
<1> QED BY <1>1, VerdictInvariant, PTL

\* The vault accepts no receipt but that of the last execution of its witness, and none
\* once another has begun to execute it (witness_store.py:1466-1818).
THEOREM LastHasAuthority == Spec => []LastExecutionHasAuthority
<1>1. VerdictInv => LastExecutionHasAuthority
    <2> SUFFICES ASSUME VerdictInv, NEW rc \in receipts, VaultAuthority(rc)
                 PROVE  /\ \A other \in receipts :
                              other.req = rc.req /\ other.att = "vault" => other.no <= rc.no
                        /\ run # None /\ run.req = rc.req /\ run.runner = "engine"
                              => Executed(run.out) = {}
        BY DEF LastExecutionHasAuthority
    <2>1. /\ rc.att = "vault" /\ rc.verdict = "VERIFIED" /\ registered[rc.req] = rc.no /\ Current(rc)
          /\ rc \in Receipts /\ rc.no \in Nat
        BY BoundsAssumption DEF VaultAuthority, VerdictInv, TypeOK, Receipts
    <2>2. rc.no # None
        BY <2>1, NotNone
    <2>3. \A other \in receipts : other.req = rc.req /\ other.att = "vault" => other.no <= rc.no
        BY <2>1, <2>2 DEF VerdictInv, Noted
    <2>4. ASSUME run # None, run.req = rc.req, run.runner = "engine", Executed(run.out) # {}
          PROVE  FALSE
        <3>1. "BASE" \in Executed(run.out)
            <4>1. PICK w \in Worlds : run.out[w] # None
                BY <2>4 DEF Executed
            <4>2. run.out["BASE"] # None
                BY <2>4, <4>1 DEF VerdictInv, Ordered, Worlds
            <4> QED BY <4>2 DEF Executed, Worlds
        <3>2. "BASE" \in Executed(rc.out)
            BY <2>1 DEF VerdictInv, Justified, Shown, Executed, Worlds
        <3>3. observed[rc.req]["BASE"] = run.no /\ observed[rc.req]["BASE"] = rc.no
            BY <2>1, <2>4, <3>1, <3>2 DEF VerdictInv, Noted, Current
        <3>4. rc.no < run.no
            BY <2>4 DEF VerdictInv, Noted
        <3> QED BY <2>1, <3>3, <3>4
    <2> QED BY <2>3, <2>4
<1> QED BY <1>1, VerdictInvariant, PTL

\* Whatever results are put before coverage, on whatever authority and with whatever left
\* out: it says VERIFIED only of requirements each of which has a receipt of its own, whose
\* executions show the change to be the cause
\* (coverage.py:377-884, reconciliation.py, engine.py, trust_bridge.py).
THEOREM VerifiedHasCause == Spec => []VerifiedIsCausal
<1>1. ASSUME VerdictInv, NEW rc \in receipts, NEW authority \in Authorities, Accepted(rc, authority)
      PROVE  Causal(rc)
    <2>1. /\ rc.verdict = "VERIFIED"
          /\ rc.att = "vault" \/ rc.out["BASE"].sbx # rc.out["CANDIDATE"].sbx
        BY <1>1 DEF Accepted, VaultAuthority, ProductionEvidence, ProductionAuthority
    <2>2. Shown(rc)
        BY <1>1, <2>1 DEF VerdictInv, Justified
    <2>3. /\ rc.out["BASE"] # None /\ rc.out["CANDIDATE"] # None
          /\ rc.kind = "triplet" => rc.out["COUNTERFACTUAL"] # None
          /\ rc.att = "vault" => Distinct(rc.out, Executed(rc.out))
        BY <2>2 DEF Shown
    <2>4. /\ {"BASE", "CANDIDATE"} \subseteq Executed(rc.out)
          /\ rc.kind = "triplet" => Executed(rc.out) = Worlds
        BY <2>3 DEF Executed, Worlds
    <2>5. Distinct(rc.out, {"BASE", "CANDIDATE"})
        BY <2>1, <2>3, <2>4 DEF Distinct
    <2>6. rc.kind = "triplet" /\ rc.att = "vault" => Distinct(rc.out, Worlds)
        BY <2>3, <2>4
    <2> QED BY <2>2, <2>5, <2>6 DEF Shown, Causal
<1>2. ASSUME NEW res, NEW authority \in Authorities, CausalState(res, authority) = "VERIFIED"
      PROVE  res \in receipts /\ Accepted(res, authority)
    BY <1>2 DEF CausalState, Counted
<1>3. ASSUME NEW given, NEW authority, NEW excluded,
             Overall(given, authority, excluded) = "VERIFIED", NEW q \in Requirements
      PROVE  /\ CausalState(given[q], authority) = "VERIFIED"
             /\ given[q] \in receipts => given[q].req = q
    <2>1. ~Refused(given, excluded)
        BY <1>3 DEF Overall
    <2>2. {CausalState(given[p], authority) : p \in Requirements} = {"VERIFIED"}
        BY <1>3 DEF Overall
    <2> QED BY <2>1, <2>2 DEF Refused
<1>4. VerdictInv => VerifiedIsCausal
    BY <1>1, <1>2, <1>3 DEF VerifiedIsCausal
<1> QED BY <1>4, VerdictInvariant, PTL

\* Of a run of an engine that has come to its end, the vault has always observed what it is
\* to attest, whatever runs and restarts went before: attestation never refuses it
\* (witness_store.py:1105-1254, engine.py:548-623).
THEOREM EngineIsAttested ==
    Spec => [](At("conclude") /\ Signature(run) = "vault" => Attestable(run))
<1>1. ASSUME VerdictInv, At("conclude"), Signature(run) = "vault"
      PROVE  Attestable(run)
    <2>1. run # None /\ run \in InProgress /\ run.runner \in AllRunners
        BY <1>1, RunnersAssumption DEF At, VerdictInv, TypeOK, InProgress
    <2>2. run.runner = "engine"
        BY <1>1, <2>1, NoneAssumption DEF Signature, Provenance, WorkerKey, AllRunners, Workers
    <2> QED BY <1>1, <2>1, <2>2 DEF VerdictInv, Noted, Attestable, Intact
<1> QED BY <1>1, VerdictInvariant, PTL

-----------------------------------------------------------------------------
(* II.  Slices.                                                            *)
(*                                                                         *)
(* Places.  The places of a finite set have ranks, each of which is taken; *)
(* the first of them is the least.                                         *)

Rank(places, i) == Cardinality({j \in places : j <= i})

LEMMA RankRises ==
    ASSUME NEW places \in SUBSET Nat, IsFiniteSet(places)
    PROVE  /\ Cardinality(places) \in Nat
           /\ \A i \in places : Rank(places, i) \in 1..Cardinality(places)
           /\ \A i, k \in places : i < k => Rank(places, i) < Rank(places, k)
<1> DEFINE Upto(i) == {j \in places : j <= i}
<1>1. Cardinality(places) \in Nat
    BY FS_CardinalityType
<1>2. ASSUME NEW i \in places
      PROVE  /\ IsFiniteSet(Upto(i)) /\ Cardinality(Upto(i)) \in Nat
             /\ Cardinality(Upto(i)) <= Cardinality(places) /\ Cardinality(Upto(i)) # 0
    <2>1. Upto(i) \in SUBSET places /\ i \in Upto(i)
        OBVIOUS
    <2> HIDE DEF Upto
    <2>2. IsFiniteSet(Upto(i)) /\ Cardinality(Upto(i)) <= Cardinality(places)
        BY <2>1, FS_Subset
    <2> QED BY <2>1, <2>2, FS_CardinalityType, FS_EmptySet
<1>3. ASSUME NEW i \in places, NEW k \in places, i < k
      PROVE  Cardinality(Upto(i)) < Cardinality(Upto(k))
    <2>0. i \in Nat /\ k \in Nat /\ \A j \in places : j \in Nat
        OBVIOUS
    <2>a. \A j \in places : j <= i => j <= k
        BY <1>3, <2>0
    <2>b. k <= k /\ ~(k <= i)
        BY <1>3, <2>0
    <2>1. Upto(i) \in SUBSET Upto(k) /\ k \in Upto(k) /\ k \notin Upto(i)
        BY <2>a, <2>b
    <2>2. Upto(i) # Upto(k)
        BY <2>1
    <2> HIDE DEF Upto
    <2>3. /\ Cardinality(Upto(i)) <= Cardinality(Upto(k))
          /\ Cardinality(Upto(k)) = Cardinality(Upto(i)) => Upto(k) = Upto(i)
        BY <2>1, <1>2, FS_Subset
    <2> QED BY <2>2, <2>3, <1>2
<1> QED BY <1>1, <1>2, <1>3 DEF Rank

LEMMA RanksTaken ==
    ASSUME NEW places \in SUBSET Nat, IsFiniteSet(places),
           NEW n \in 1..Cardinality(places)
    PROVE  \E i \in places : Rank(places, i) = n
<1> SUFFICES ASSUME \A i \in places : Rank(places, i) # n PROVE FALSE
    OBVIOUS
<1> DEFINE Others == (1..Cardinality(places)) \ {n}
           rank == [i \in places |-> Rank(places, i)]
<1>1. Cardinality(places) \in Nat
    BY FS_CardinalityType
<1>2. IsFiniteSet(1..Cardinality(places)) /\ Cardinality(1..Cardinality(places)) = Cardinality(places)
    BY <1>1, FS_Interval
<1>3. IsFiniteSet(Others) /\ Cardinality(Others) = Cardinality(places) - 1
    <2>1. PICK S : S = 1..Cardinality(places)
        OBVIOUS
    <2>2. IsFiniteSet(S) /\ Cardinality(S) = Cardinality(places) /\ n \in S
        BY <2>1, <1>2
    <2>3. IsFiniteSet(S \ {n}) /\ Cardinality(S \ {n}) = Cardinality(S) - 1
        BY <2>2, FS_RemoveElement
    <2> QED BY <2>1, <2>2, <2>3
<1>4. Cardinality(Others) < Cardinality(places)
    BY <1>1, <1>3
<1>5. rank \in [places -> Others]
    BY RankRises
<1>6. \E i, k \in places : i # k /\ rank[i] = rank[k]
    <2> HIDE DEF Others, rank
    <2> QED BY <1>3, <1>4, <1>5, FS_PigeonHole
<1>7. PICK i \in places, k \in places : i < k /\ Rank(places, i) = Rank(places, k)
    BY <1>6
<1>8. Rank(places, i) < Rank(places, k) /\ Rank(places, i) \in Nat
    BY <1>7, RankRises
<1> QED BY <1>7, <1>8

LEMMA LeastPlace ==
    ASSUME NEW places \in SUBSET Nat, IsFiniteSet(places), places # {}
    PROVE  \E i \in places : \A k \in places : i <= k
<1>1. 1 \in 1..Cardinality(places)
    <2>1. Cardinality(places) \in Nat /\ Cardinality(places) # 0
        BY FS_CardinalityType, FS_EmptySet
    <2> QED BY <2>1
<1>2. PICK i \in places : Rank(places, i) = 1
    BY <1>1, RanksTaken
<1>3. ASSUME NEW k \in places, k < i PROVE FALSE
    <2>1. Rank(places, k) < Rank(places, i) /\ Rank(places, k) \in 1..Cardinality(places)
        BY <1>3, RankRises
    <2> QED BY <2>1, <1>2, RankRises
<1> QED BY <1>3

\* What is kept are the elements at the places, and no others.
LEMMA KeptElements ==
    ASSUME NEW s, NEW places \in SUBSET Nat, IsFiniteSet(places), NEW T,
           \A i \in places : s[i] \in T
    PROVE  /\ Kept(s, places) \in Seq(T) /\ Len(Kept(s, places)) = Cardinality(places)
           /\ \A k \in 1..Cardinality(places) : \E i \in places : Kept(s, places)[k] = s[i]
           /\ \A i \in places : \E k \in 1..Cardinality(places) : Kept(s, places)[k] = s[i]
<1> DEFINE PlaceOf(k) == CHOOSE i \in places : Rank(places, i) = k
<1>1. Cardinality(places) \in Nat
    BY FS_CardinalityType
<1>2. Kept(s, places) = [k \in 1..Cardinality(places) |-> s[PlaceOf(k)]]
    BY DEF Kept, Rank
<1>3. \A k \in 1..Cardinality(places) : PlaceOf(k) \in places /\ Rank(places, PlaceOf(k)) = k
    BY RanksTaken
<1>4. ASSUME NEW i \in places
      PROVE  Rank(places, i) \in 1..Cardinality(places) /\ PlaceOf(Rank(places, i)) = i
    <2>1. Rank(places, i) \in 1..Cardinality(places)
        BY RankRises
    <2> HIDE DEF PlaceOf
    <2>2. PICK a \in places : a = PlaceOf(Rank(places, i)) /\ Rank(places, a) = Rank(places, i)
        BY <2>1, <1>3
    <2>3. ~(a < i) /\ ~(i < a)
        <3>1. \A k \in places : Rank(places, k) \in Nat
            BY <1>1, RankRises
        <3>2. (a < i => Rank(places, a) < Rank(places, i)) /\ (i < a => Rank(places, i) < Rank(places, a))
            BY <2>2, RankRises
        <3> QED BY <2>2, <3>1, <3>2
    <2>4. a \in Nat /\ i \in Nat
        OBVIOUS
    <2> QED BY <2>1, <2>2, <2>3, <2>4
<1> HIDE DEF PlaceOf
<1>5. Kept(s, places) \in [1..Cardinality(places) -> T]
    BY <1>2, <1>3
<1>6. Kept(s, places) \in Seq(T) /\ Len(Kept(s, places)) = Cardinality(places)
    BY <1>1, <1>5
<1>7. \A k \in 1..Cardinality(places) : \E i \in places : Kept(s, places)[k] = s[i]
    BY <1>2, <1>3
<1>8. \A i \in places : \E k \in 1..Cardinality(places) : Kept(s, places)[k] = s[i]
    BY <1>2, <1>4
<1> QED BY <1>6, <1>7, <1>8

-----------------------------------------------------------------------------
(* The plan.  It tries smaller subsets of the patch only, and among them   *)
(* each hunk alone and each left out.                                      *)

LEMMA PatchFacts ==
    ASSUME NEW q \in Requests
    PROVE  /\ Len(All(q)) \in Nat \ {0} /\ Len(All(q)) = q.scope.candidate.hunks
           /\ Hunks(q) = 1..Len(All(q)) /\ IsFiniteSet(Hunks(q))
           /\ Cardinality(Hunks(q)) = Len(All(q))
           /\ All(q) \in Seq(Hunks(q)) /\ Subset(All(q)) = Hunks(q)
<1>1. q.scope.candidate.hunks \in Nat \ {0}
    BY RequestsAssumption DEF IsRequest, IsScope
<1>2. All(q) \in [1..q.scope.candidate.hunks -> Hunks(q)]
    BY DEF All, Hunks
<1>3. All(q) \in Seq(Hunks(q)) /\ Len(All(q)) = q.scope.candidate.hunks
    BY <1>1, <1>2
<1>4. Subset(All(q)) = Hunks(q)
    BY DEF Subset, ToSet, All
<1>5. IsFiniteSet(Hunks(q)) /\ Cardinality(Hunks(q)) = q.scope.candidate.hunks
    <2>1. PICK n \in Nat \ {0} : n = q.scope.candidate.hunks
        BY <1>1
    <2>2. IsFiniteSet(1..n) /\ Cardinality(1..n) = n
        BY FS_Interval
    <2> QED BY <2>1, <2>2 DEF Hunks
<1> QED BY <1>1, <1>3, <1>4, <1>5 DEF Hunks

Tries(q) ==
    {t \in Seq(Hunks(q)) :
        /\ Subset(t) # {} /\ IsFiniteSet(Subset(t))
        /\ Cardinality(Subset(t)) < Len(All(q))}

\* A sequence names no more hunks than it is long.
LEMMA SubsetOfSeq ==
    ASSUME NEW S, NEW t \in Seq(S)
    PROVE  /\ Subset(t) \subseteq S /\ IsFiniteSet(Subset(t))
           /\ Cardinality(Subset(t)) <= Len(t)
           /\ Subset(t) = {} => Len(t) = 0
<1>1. Len(t) \in Nat /\ t \in [1..Len(t) -> S]
    OBVIOUS
<1>2. Subset(t) = {t[i] : i \in 1..Len(t)}
    BY <1>1 DEF Subset, ToSet
<1>3. t \in Surjection(1..Len(t), Subset(t))
    BY <1>1, <1>2 DEF Surjection
<1>4. IsFiniteSet(1..Len(t)) /\ Cardinality(1..Len(t)) = Len(t)
    BY <1>1, FS_Interval
<1>5. IsFiniteSet(Subset(t)) /\ Cardinality(Subset(t)) <= Cardinality(1..Len(t))
    BY <1>3, <1>4, FS_Surjection
<1>6. Subset(t) = {} => Len(t) = 0
    <2> SUFFICES ASSUME Subset(t) = {}, Len(t) # 0 PROVE FALSE
        OBVIOUS
    <2>1. 1 \in 1..Len(t)
        BY <1>1
    <2> QED BY <2>1, <1>2
<1> QED BY <1>1, <1>2, <1>4, <1>5, <1>6

LEMMA ProposedTried ==
    ASSUME NEW q \in Requests
    PROVE  Proposed(q) \in Seq(Tries(q))
<1> DEFINE known == {i \in DOMAIN q.proposal : q.proposal[i] \in Hunks(q)}
           kept == Kept(q.proposal, known)
<1>1. CASE q.proposal # Nothing /\ Cardinality(known) \in 1..(Len(All(q)) - 1)
    <2>1. q.proposal \in Seq(Nat)
        BY <1>1, RequestsAssumption DEF IsRequest
    <2>2. known \in SUBSET Nat /\ \A i \in known : q.proposal[i] \in Hunks(q)
        BY <2>1
    <2>3. IsFiniteSet(known)
        <3>1. Len(q.proposal) \in Nat /\ known \in SUBSET (1..Len(q.proposal))
            BY <2>1
        <3>2. IsFiniteSet(1..Len(q.proposal))
            BY <3>1, FS_Interval
        <3> QED BY <3>1, <3>2, FS_Subset
    <2> HIDE DEF known
    <2>4. kept \in Seq(Hunks(q)) /\ Len(kept) = Cardinality(known)
        BY <2>2, <2>3, KeptElements
    <2> HIDE DEF kept
    <2>5. Len(kept) # 0 /\ Len(kept) < Len(All(q)) /\ Len(All(q)) \in Nat /\ Len(kept) \in Nat
        <3>1. Len(All(q)) \in Nat
            BY PatchFacts
        <3>2. Cardinality(known) \in 1..(Len(All(q)) - 1)
            BY <1>1 DEF known
        <3> QED BY <3>1, <3>2, <2>4
    <2>6. /\ Subset(kept) # {} /\ IsFiniteSet(Subset(kept)) /\ Cardinality(Subset(kept)) \in Nat
          /\ Cardinality(Subset(kept)) <= Len(kept)
        BY <2>4, <2>5, SubsetOfSeq, FS_CardinalityType
    <2>7. kept \in Tries(q)
        BY <2>4, <2>5, <2>6 DEF Tries
    <2>8. Proposed(q) \in {<<kept>>, <<>>}
        BY DEF Proposed, known, kept
    <2>9. <<kept>> \in Seq(Tries(q)) /\ <<>> \in Seq(Tries(q))
        BY <2>7
    <2> QED BY <2>8, <2>9
<1>2. CASE ~(q.proposal # Nothing /\ Cardinality(known) \in 1..(Len(All(q)) - 1))
    BY <1>2 DEF Proposed
<1> QED BY <1>1, <1>2

LEMMA OmissionsTried ==
    ASSUME NEW q \in Requests, Len(All(q)) > 1
    PROVE  /\ Omissions(q) \in Seq(Tries(q)) /\ Len(Omissions(q)) = Len(All(q))
           /\ \A i \in Hunks(q) : Subset(Omissions(q)[i]) = Hunks(q) \ {i}
<1>1. PICK n \in Nat \ {0} : n = Len(All(q)) /\ n > 1
    BY PatchFacts
<1>2. Hunks(q) = 1..n /\ IsFiniteSet(Hunks(q)) /\ Cardinality(Hunks(q)) = n
    BY <1>1, PatchFacts
<1>3. ASSUME NEW i \in Hunks(q)
      PROVE  Omissions(q)[i] \in Tries(q) /\ Subset(Omissions(q)[i]) = Hunks(q) \ {i}
    <2>1. PICK t : t = [j \in 1..(n - 1) |-> IF j < i THEN j ELSE j + 1]
        OBVIOUS
    <2>2. Omissions(q)[i] = t
        BY <1>1, <2>1 DEF Omissions
    <2>3. t \in [1..(n - 1) -> 1..n] /\ n - 1 \in Nat
        BY <1>1, <1>2, <2>1
    <2>4. t \in Seq(Hunks(q)) /\ Len(t) = n - 1 /\ DOMAIN t = 1..(n - 1)
        BY <1>2, <2>3
    <2>5. \A h \in 1..n : h # i => \E j \in 1..(n - 1) : t[j] = h
        <3> SUFFICES ASSUME NEW h \in 1..n, h # i PROVE \E j \in 1..(n - 1) : t[j] = h
            OBVIOUS
        <3>1. CASE h < i
            <4>1. h \in 1..(n - 1) /\ t[h] = h
                BY <3>1, <1>2, <2>1
            <4> QED BY <4>1
        <3>2. CASE h > i
            <4>1. h - 1 \in 1..(n - 1) /\ t[h - 1] = h
                BY <3>2, <1>2, <2>1
            <4> QED BY <4>1
        <3> QED BY <1>2, <3>1, <3>2
    <2>6. \A j \in 1..(n - 1) : t[j] \in 1..n /\ t[j] # i
        BY <1>2, <2>1, <2>3
    <2>7. Subset(t) = Hunks(q) \ {i}
        BY <1>2, <2>4, <2>5, <2>6 DEF Subset, ToSet
    <2>8. IsFiniteSet(Subset(t)) /\ Cardinality(Subset(t)) = n - 1
        <3>1. /\ IsFiniteSet(Hunks(q) \ {i})
              /\ Cardinality(Hunks(q) \ {i}) = Cardinality(Hunks(q)) - 1
            BY <1>2, FS_RemoveElement
        <3> QED BY <3>1, <1>2, <2>7
    <2>9. Subset(t) # {}
        BY <1>1, <2>8, FS_EmptySet
    <2>10. Cardinality(Subset(t)) < Len(All(q))
        BY <1>1, <2>8
    <2>11. t \in Tries(q)
        BY <2>4, <2>8, <2>9, <2>10 DEF Tries
    <2> QED BY <2>2, <2>7, <2>11
<1>4. Omissions(q) \in [1..n -> Tries(q)]
    BY <1>2, <1>3 DEF Omissions
<1> QED BY <1>1, <1>3, <1>4

LEMMA SinglesTried ==
    ASSUME NEW q \in Requests, Len(All(q)) > 1
    PROVE  /\ Singles(q) \in Seq(Tries(q)) /\ Len(Singles(q)) = Len(All(q))
           /\ \A i \in Hunks(q) : Subset(Singles(q)[i]) = {i}
<1>1. Len(All(q)) \in Nat /\ Hunks(q) = 1..Len(All(q))
    BY PatchFacts
<1>2. ASSUME NEW i \in Hunks(q) PROVE <<i>> \in Tries(q) /\ Subset(<<i>>) = {i}
    <2>1. <<i>> \in Seq(Hunks(q)) /\ Subset(<<i>>) = {i}
        BY DEF Subset, ToSet
    <2>2. IsFiniteSet({i}) /\ Cardinality({i}) = 1
        BY FS_Singleton
    <2> QED BY <2>1, <2>2, <1>1 DEF Tries
<1>3. Singles(q) \in [1..Len(All(q)) -> Tries(q)]
    BY <1>1, <1>2 DEF Singles
<1>4. \A i \in Hunks(q) : Subset(Singles(q)[i]) = {i}
    BY <1>2 DEF Singles
<1> QED BY <1>1, <1>3, <1>4

LEMMA PairsTried ==
    ASSUME NEW q \in Requests, Len(All(q)) > 1
    PROVE  Pairs(q) \in Seq(Tries(q))
<1> DEFINE n == Len(All(q))
           square == [k \in 1..(n * n) |-> <<((k - 1) \div n) + 1, ((k - 1) % n) + 1>>]
           above == {k \in DOMAIN square : square[k][1] < square[k][2]}
<1>1. n \in Nat /\ n > 1 /\ Hunks(q) = 1..n
    BY PatchFacts
<1>2. CASE n < 3 \/ q.budget.depth < 2
    BY <1>2 DEF Pairs
<1>3. CASE ~(n < 3 \/ q.budget.depth < 2)
    <2>1. n * n \in Nat
        BY <1>1
    <2>2. above \in SUBSET Nat /\ above \in SUBSET (1..(n * n))
        OBVIOUS
    <2>3. IsFiniteSet(above)
        <3>1. IsFiniteSet(1..(n * n))
            BY <2>1, FS_Interval
        <3> HIDE DEF above
        <3> QED BY <3>1, <2>2, FS_Subset
    <2>4. ASSUME NEW k \in above PROVE square[k] \in Tries(q)
        <3>1. PICK a \in Int, b \in Int : a = ((k - 1) \div n) + 1 /\ b = ((k - 1) % n) + 1
            BY <1>1
        <3>2. square[k] = <<a, b>> /\ a < b /\ k \in 1..(n * n)
            BY <3>1
        <3>3. a >= 1 /\ b <= n
            BY <1>1, <3>1, <3>2
        <3>4. a \in 1..n /\ b \in 1..n
            BY <1>1, <3>2, <3>3
        <3> HIDE DEF square, above
        <3>5. <<a, b>> \in Seq(Hunks(q)) /\ Subset(<<a, b>>) = {a, b} /\ Len(<<a, b>>) = 2
            BY <1>1, <3>4 DEF Subset, ToSet
        <3>6. IsFiniteSet(Subset(<<a, b>>)) /\ Cardinality(Subset(<<a, b>>)) <= 2
              /\ Cardinality(Subset(<<a, b>>)) \in Nat
            BY <3>5, SubsetOfSeq, FS_CardinalityType
        <3>7. 2 < n
            BY <1>1, <1>3
        <3> HIDE DEF n
        <3>8. <<a, b>> \in Tries(q)
            BY <1>1, <3>5, <3>6, <3>7 DEF Tries, n
        <3> QED BY <3>2, <3>8
    <2> HIDE DEF square, above
    <2>5. Kept(square, above) \in Seq(Tries(q))
        BY <2>2, <2>3, <2>4, KeptElements
    <2> QED BY <1>3, <2>5 DEF Pairs, square, above
<1> QED BY <1>2, <1>3

LEMMA Joined ==
    ASSUME NEW T, NEW s \in Seq(T), NEW t \in Seq(T)
    PROVE  /\ s \o t \in Seq(T) /\ Len(s \o t) = Len(s) + Len(t)
           /\ \A i \in 1..Len(s) : (s \o t)[i] = s[i]
           /\ \A i \in 1..Len(t) : (s \o t)[Len(s) + i] = t[i]
<1>1. s \o t \in Seq(T) /\ Len(s \o t) = Len(s) + Len(t)
    OBVIOUS
<1>2. \A i \in 1..Len(s) : (s \o t)[i] = s[i]
    OBVIOUS
<1>3. \A i \in 1..Len(t) : (s \o t)[Len(s) + i] = t[i]
    OBVIOUS
<1> QED BY <1>1, <1>2, <1>3

LEMMA PlanTried ==
    ASSUME NEW q \in Requests, Len(All(q)) > 1
    PROVE  /\ Plan(q) \in Seq(Tries(q))
           /\ \A h \in Hunks(q) :
                 /\ \E k \in 1..Len(Plan(q)) : Subset(Plan(q)[k]) = {h}
                 /\ \E k \in 1..Len(Plan(q)) : Subset(Plan(q)[k]) = Hunks(q) \ {h}
<1> DEFINE all == Proposed(q) \o Omissions(q) \o Singles(q) \o Pairs(q)
           first == {i \in DOMAIN all : \A j \in 1..(i - 1) : all[j] # all[i]}
<1>1. /\ Proposed(q) \in Seq(Tries(q)) /\ Omissions(q) \in Seq(Tries(q))
      /\ Singles(q) \in Seq(Tries(q)) /\ Pairs(q) \in Seq(Tries(q))
      /\ Len(Omissions(q)) = Len(All(q)) /\ Len(Singles(q)) = Len(All(q))
      /\ Len(All(q)) \in Nat /\ Hunks(q) = 1..Len(All(q))
    BY ProposedTried, OmissionsTried, SinglesTried, PairsTried, PatchFacts
<1>2. PICK p \in Nat : p = Len(Proposed(q))
    BY <1>1
<1>3. /\ all \in Seq(Tries(q)) /\ Len(all) = p + Len(All(q)) + Len(All(q)) + Len(Pairs(q))
      /\ \A h \in Hunks(q) : /\ p + h \in DOMAIN all /\ all[p + h] = Omissions(q)[h]
                             /\ p + Len(All(q)) + h \in DOMAIN all
                             /\ all[p + Len(All(q)) + h] = Singles(q)[h]
    <2>1. PICK ab : ab = Proposed(q) \o Omissions(q)
        OBVIOUS
    <2>2. /\ ab \in Seq(Tries(q)) /\ Len(ab) = p + Len(All(q))
          /\ \A h \in Hunks(q) : ab[p + h] = Omissions(q)[h]
        <3>1. /\ ab \in Seq(Tries(q)) /\ Len(ab) = Len(Proposed(q)) + Len(Omissions(q))
              /\ \A i \in 1..Len(Omissions(q)) : ab[Len(Proposed(q)) + i] = Omissions(q)[i]
            <4>1. PICK T, s, t : T = Tries(q) /\ s = Proposed(q) /\ t = Omissions(q)
                OBVIOUS
            <4>2. s \in Seq(T) /\ t \in Seq(T)
                BY <1>1, <4>1
            <4>3. /\ s \o t \in Seq(T) /\ Len(s \o t) = Len(s) + Len(t)
                  /\ \A i \in 1..Len(t) : (s \o t)[Len(s) + i] = t[i]
                BY <4>2, Joined
            <4> QED BY <2>1, <4>1, <4>3
        <3> QED BY <1>1, <1>2, <3>1
    <2>3. PICK abc : abc = ab \o Singles(q)
        OBVIOUS
    <2>4. /\ abc \in Seq(Tries(q)) /\ Len(abc) = Len(ab) + Len(All(q))
          /\ \A i \in 1..Len(ab) : abc[i] = ab[i]
          /\ \A h \in Hunks(q) : abc[Len(ab) + h] = Singles(q)[h]
        <3>1. /\ ab \in Seq(Tries(q)) /\ Singles(q) \in Seq(Tries(q))
              /\ Hunks(q) = 1..Len(Singles(q))
            BY <1>1, <2>2
        <3>2. /\ abc \in Seq(Tries(q)) /\ Len(abc) = Len(ab) + Len(Singles(q))
              /\ \A i \in 1..Len(ab) : abc[i] = ab[i]
              /\ \A i \in 1..Len(Singles(q)) : abc[Len(ab) + i] = Singles(q)[i]
            BY <2>3, <3>1, Joined
        <3> QED BY <1>1, <3>1, <3>2
    <2>5. all = abc \o Pairs(q)
        BY <2>1, <2>3
    <2> HIDE DEF all
    <2>6. /\ all \in Seq(Tries(q)) /\ Len(all) = Len(abc) + Len(Pairs(q)) /\ Len(Pairs(q)) \in Nat
          /\ \A i \in 1..Len(abc) : all[i] = abc[i]
        <3>1. abc \in Seq(Tries(q)) /\ Pairs(q) \in Seq(Tries(q))
            BY <1>1, <2>4
        <3> QED BY <2>5, <3>1, Joined
    <2>7. \A h \in Hunks(q) : p + h \in 1..Len(ab) /\ p + Len(All(q)) + h \in 1..Len(abc)
        BY <1>1, <1>2, <2>2, <2>4
    <2>8. 1..Len(ab) \subseteq 1..Len(abc) /\ 1..Len(abc) \subseteq DOMAIN all
        BY <1>1, <1>2, <2>2, <2>4, <2>6
    <2> QED BY <2>2, <2>4, <2>6, <2>7, <2>8
<1> HIDE DEF all
<1>4. Len(all) \in Nat /\ DOMAIN all = 1..Len(all) /\ \A i \in DOMAIN all : all[i] \in Tries(q)
    BY <1>3
<1>5. first \in SUBSET Nat /\ first \in SUBSET (1..Len(all)) /\ \A i \in first : all[i] \in Tries(q)
    BY <1>4
<1>6. IsFiniteSet(first)
    <2>1. IsFiniteSet(1..Len(all))
        BY <1>4, FS_Interval
    <2> HIDE DEF first
    <2> QED BY <2>1, <1>5, FS_Subset
<1>7. Plan(q) = Kept(all, first)
    BY DEF Plan, all
<1>8. ASSUME NEW i \in DOMAIN all PROVE \E k \in first : all[k] = all[i]
    <2> DEFINE same == {j \in 1..Len(all) : all[j] = all[i]}
    <2>1. same \in SUBSET Nat /\ i \in same /\ same \in SUBSET (1..Len(all))
        BY <1>4
    <2>2. IsFiniteSet(same)
        <3>1. IsFiniteSet(1..Len(all))
            BY <1>4, FS_Interval
        <3> HIDE DEF same
        <3> QED BY <3>1, <2>1, FS_Subset
    <2>3. PICK k \in same : \A j \in same : k <= j
        <3> HIDE DEF same
        <3> QED BY <2>1, <2>2, LeastPlace
    <2>4. \A j \in 1..(k - 1) : j \in 1..Len(all) /\ ~(k <= j)
        BY <1>4, <2>3
    <2>5. \A j \in 1..(k - 1) : all[j] # all[k]
        BY <2>3, <2>4
    <2> QED BY <1>4, <2>3, <2>5
<1> HIDE DEF first
<1>9. /\ Plan(q) \in Seq(Tries(q)) /\ Len(Plan(q)) = Cardinality(first)
      /\ \A i \in first : \E k \in 1..Len(Plan(q)) : Plan(q)[k] = all[i]
    <2>1. /\ Kept(all, first) \in Seq(Tries(q)) /\ Len(Kept(all, first)) = Cardinality(first)
          /\ \A i \in first : \E k \in 1..Cardinality(first) : Kept(all, first)[k] = all[i]
        BY <1>5, <1>6, KeptElements
    <2> QED BY <2>1, <1>7
<1>10. \A i \in DOMAIN all : \E k \in 1..Len(Plan(q)) : Plan(q)[k] = all[i]
    BY <1>8, <1>9
<1>11. ASSUME NEW h \in Hunks(q)
       PROVE  /\ \E k \in 1..Len(Plan(q)) : Subset(Plan(q)[k]) = {h}
              /\ \E k \in 1..Len(Plan(q)) : Subset(Plan(q)[k]) = Hunks(q) \ {h}
    <2>1. \E k \in 1..Len(Plan(q)) : Plan(q)[k] = Omissions(q)[h]
        BY <1>3, <1>10
    <2>2. \E k \in 1..Len(Plan(q)) : Plan(q)[k] = Singles(q)[h]
        BY <1>3, <1>10
    <2> QED BY <2>1, <2>2, OmissionsTried, SinglesTried
<1> QED BY <1>9, <1>11

-----------------------------------------------------------------------------
(* What a search goes through, by what came of the full candidate.         *)

Reduces(q, done) == done # <<>> /\ Passed(done[1]) /\ Len(All(q)) > 1

Agenda(q, done) == IF Reduces(q, done) THEN <<All(q)>> \o Plan(q) ELSE <<All(q)>>

LEMMA AgendaFacts ==
    ASSUME NEW q \in Requests, NEW done
    PROVE  /\ Agenda(q, done) \in Seq(Seq(Hunks(q))) /\ Len(Agenda(q, done)) \in Nat \ {0}
           /\ Agenda(q, done)[1] = All(q)
           /\ \A i \in 1..Len(Agenda(q, done)) :
                  Subset(Agenda(q, done)[i]) # {} /\ Subset(Agenda(q, done)[i]) \subseteq Hunks(q)
           /\ ~Reduces(q, done) => Len(Agenda(q, done)) = 1
           /\ Reduces(q, done) =>
                 /\ Len(Agenda(q, done)) = Len(Plan(q)) + 1 /\ Len(Plan(q)) \in Nat \ {0}
                 /\ \A i \in 1..Len(Plan(q)) : Agenda(q, done)[i + 1] = Plan(q)[i]
                 /\ \A i \in 1..Len(Plan(q)) : Plan(q)[i] \in Tries(q)
<1>1. /\ All(q) \in Seq(Hunks(q)) /\ Subset(All(q)) = Hunks(q) /\ Subset(All(q)) # {}
      /\ Len(All(q)) \in Nat \ {0} /\ Hunks(q) = 1..Len(All(q))
    BY PatchFacts
<1>2. CASE ~Reduces(q, done)
    <2>1. PICK full : full = <<All(q)>>
        OBVIOUS
    <2>2. full \in Seq(Seq(Hunks(q))) /\ Len(full) = 1 /\ full[1] = All(q)
        BY <1>1, <2>1
    <2>3. Agenda(q, done) = full
        BY <1>2, <2>1 DEF Agenda
    <2>4. \A i \in 1..Len(full) : i = 1
        BY <2>2
    <2>5. \A i \in 1..Len(full) : Subset(full[i]) # {} /\ Subset(full[i]) \subseteq Hunks(q)
        BY <1>1, <2>2, <2>4
    <2>6. Len(full) \in Nat \ {0}
        BY <2>2
    <2> QED BY <1>2, <2>2, <2>3, <2>5, <2>6
<1>3. CASE Reduces(q, done)
    <2>1. PICK full : full = <<All(q)>>
        OBVIOUS
    <2>2. Agenda(q, done) = full \o Plan(q)
        BY <1>3, <2>1 DEF Agenda
    <2>3. Len(All(q)) > 1
        BY <1>3 DEF Reduces
    <2>4. /\ Plan(q) \in Seq(Tries(q)) /\ Len(Plan(q)) \in Nat
          /\ \A i \in 1..Len(Plan(q)) : Plan(q)[i] \in Tries(q)
        BY <2>3, PlanTried
    <2>5. Len(Plan(q)) # 0
        <3>1. 1 \in Hunks(q)
            BY <1>1
        <3>2. \E k \in 1..Len(Plan(q)) : Subset(Plan(q)[k]) = {1}
            BY <2>3, <3>1, PlanTried
        <3> QED BY <2>4, <3>2
    <2>6. Plan(q) \in Seq(Seq(Hunks(q)))
        BY <2>4 DEF Tries
    <2>7. full \in Seq(Seq(Hunks(q))) /\ Len(full) = 1 /\ full[1] = All(q)
        BY <1>1, <2>1
    <2>8. /\ Agenda(q, done) \in Seq(Seq(Hunks(q))) /\ Len(Agenda(q, done)) = 1 + Len(Plan(q))
          /\ Agenda(q, done)[1] = All(q)
          /\ \A i \in 1..Len(Plan(q)) : Agenda(q, done)[1 + i] = Plan(q)[i]
        <3>1. /\ full \o Plan(q) \in Seq(Seq(Hunks(q)))
              /\ Len(full \o Plan(q)) = Len(full) + Len(Plan(q))
              /\ \A i \in 1..Len(full) : (full \o Plan(q))[i] = full[i]
              /\ \A i \in 1..Len(Plan(q)) : (full \o Plan(q))[Len(full) + i] = Plan(q)[i]
            <4>1. PICK T : T = Seq(Hunks(q))
                OBVIOUS
            <4>2. full \in Seq(T) /\ Plan(q) \in Seq(T)
                BY <2>6, <2>7, <4>1
            <4>3. /\ full \o Plan(q) \in Seq(T)
                  /\ Len(full \o Plan(q)) = Len(full) + Len(Plan(q))
                  /\ \A i \in 1..Len(full) : (full \o Plan(q))[i] = full[i]
                  /\ \A i \in 1..Len(Plan(q)) : (full \o Plan(q))[Len(full) + i] = Plan(q)[i]
                BY <4>2, Joined
            <4> QED BY <4>1, <4>3
        <3>2. 1 \in 1..Len(full)
            BY <2>7
        <3> QED BY <2>2, <2>7, <3>1, <3>2
    <2>9. \A i \in 1..Len(Plan(q)) :
              Subset(Plan(q)[i]) # {} /\ Subset(Plan(q)[i]) \subseteq Hunks(q)
        BY <2>4, SubsetOfSeq DEF Tries
    <2>10. ASSUME NEW i \in 1..Len(Agenda(q, done))
           PROVE  /\ Subset(Agenda(q, done)[i]) # {}
                  /\ Subset(Agenda(q, done)[i]) \subseteq Hunks(q)
        <3>1. CASE i = 1
            BY <3>1, <1>1, <2>8
        <3>2. CASE i # 1
            <4>1. i - 1 \in 1..Len(Plan(q)) /\ 1 + (i - 1) = i
                BY <3>2, <2>4, <2>8
            <4>2. Agenda(q, done)[i] = Plan(q)[i - 1]
                BY <4>1, <2>8
            <4> QED BY <4>1, <4>2, <2>9
        <3> QED BY <3>1, <3>2
    <2> QED BY <1>3, <2>4, <2>5, <2>8, <2>10
<1> QED BY <1>2, <1>3

-----------------------------------------------------------------------------
(* The invariant. *)

Facts == [scope : {q.scope : q \in Requests}, outcome : AllOutcomes, subset : SUBSET Nat,
          command : Commands, asked : Commands]

\* What was tested so far are the first of the agenda, within the budget.
Tested(q, done) ==
    /\ done \in Seq(Facts) /\ Len(done) <= Len(Agenda(q, done))
    /\ \A i \in 1..Len(done) :
           /\ done[i].scope = q.scope /\ done[i].subset = Subset(Agenda(q, done)[i])
           /\ Honest(done[i]) => done[i].command = q.command
    /\ Len(done) > 1 => Len(done) <= q.budget.subsets /\ Len(done) <= q.budget.iterations

\* The facts that searches with the cache have seen since it was last empty.
Used(q, done) == IF q.caching THEN ToSet(done) ELSE {}

Known == cache \cup (IF search = Nothing THEN {} ELSE Used(search.q, search.done))
               \cup UNION {Used(r.q, r.done) : r \in {s \in results : s.epoch = restarts}}

\* Once an honest fact is known its key is never free again, so that no other honest
\* fact of that key comes to be.
Recalled ==
    /\ \A f \in Known : Honest(f) => \E g \in cache : KeyOf(g) = KeyOf(f)
    /\ \A f, g \in Known : Honest(f) /\ Honest(g) /\ KeyOf(f) = KeyOf(g) => f = g

Ahead(q, done, todo) ==
    /\ todo \in Seq(Seq(Hunks(q)))
    /\ Len(todo) = Len(Agenda(q, done)) - Len(done)
    /\ \A i \in 1..Len(todo) : todo[i] = Agenda(q, done)[Len(done) + i]

Searching ==
    search # Nothing =>
        /\ search = [q |-> search.q, todo |-> search.todo, done |-> search.done]
        /\ search.q \in Requests /\ search.q.base = "FAIL"
        /\ Tested(search.q, search.done) /\ Ahead(search.q, search.done, search.todo)

\* No two facts have one key.
Cached ==
    /\ cache \subseteq Facts
    /\ \A f, g \in cache : KeyOf(f) = KeyOf(g) => f = g

\* What is concluded depends on what was tested alone.
Verdict(q, done) ==
    IF done = <<>> THEN Conclusion("INVALID_SUBSET", "EXHAUSTIVE_BOUNDED", {}, {})
    ELSE IF Reduces(q, done) THEN Judge(done, Len(done) < Len(Agenda(q, done)))
    ELSE JudgeFull(done)

Complete(q, done) ==
    IF done = <<>> THEN q.base # "FAIL"
    ELSE /\ q.base = "FAIL" /\ Tested(q, done)
         /\ \/ Len(done) = Len(Agenda(q, done))
            \/ Len(done) >= q.budget.subsets \/ Len(done) >= q.budget.iterations

Concluded(r) ==
    /\ r = [q |-> r.q, done |-> r.done, epoch |-> r.epoch,
            status |-> Verdict(r.q, r.done).status,
            completeness |-> Verdict(r.q, r.done).completeness,
            chosen |-> Verdict(r.q, r.done).chosen,
            alternatives |-> Verdict(r.q, r.done).alternatives]
    /\ r.q \in Requests /\ Complete(r.q, r.done)

Resulted ==
    \A r \in results : Concluded(r) /\ r.epoch \in Nat /\ r.epoch <= restarts

SearchInv ==
    restarts \in Nat /\ Cached /\ Recalled /\ Searching /\ Resulted /\ SameSearchSameResult

-----------------------------------------------------------------------------
(* A search goes on. *)

LEMMA RecordStep ==
    ASSUME Searching, MayEvaluate, NEW f \in Facts, Record(f),
           f.scope = search.q.scope, f.subset = Subset(Head(search.todo)),
           Honest(f) => f.command = search.q.command
    PROVE  /\ search' = [q |-> search'.q, todo |-> search'.todo, done |-> search'.done]
           /\ search'.q = search.q /\ search'.done = Append(search.done, f)
           /\ Tested(search'.q, search'.done) /\ Ahead(search'.q, search'.done, search'.todo)
<1>1. PICK q, done, todo : search = [q |-> q, todo |-> todo, done |-> done]
    BY DEF Searching, MayEvaluate
<1>2. /\ q = search.q /\ done = search.done /\ todo = search.todo /\ q \in Requests
      /\ Tested(q, done) /\ Ahead(q, done, todo) /\ todo # <<>>
      /\ done = <<>> \/ ~Exhausted(search)
    BY <1>1 DEF Searching, MayEvaluate
<1>3. PICK new : new = Append(done, f)
    OBVIOUS
<1>4. PICK rest : rest = IF done = <<>> /\ Passed(f) /\ Len(All(q)) > 1 THEN Plan(q) ELSE Tail(todo)
    OBVIOUS
<1>5. search' = [q |-> q, todo |-> rest, done |-> new]
    BY <1>1, <1>3, <1>4 DEF Record
<1>6. /\ done \in Seq(Facts) /\ Len(done) \in Nat /\ new \in Seq(Facts) /\ Len(new) = Len(done) + 1
      /\ \A i \in 1..Len(done) : new[i] = done[i]
      /\ new[Len(done) + 1] = f /\ new # <<>>
    BY <1>2, <1>3 DEF Tested
<1>7. /\ todo \in Seq(Seq(Hunks(q))) /\ Len(todo) \in Nat \ {0} /\ Head(todo) = todo[1]
      /\ Len(todo) = Len(Agenda(q, done)) - Len(done)
      /\ todo[1] = Agenda(q, done)[Len(done) + 1]
      /\ Len(Agenda(q, done)) \in Nat \ {0}
    <2>1. /\ todo \in Seq(Seq(Hunks(q))) /\ todo # <<>>
          /\ Len(todo) = Len(Agenda(q, done)) - Len(done)
          /\ \A i \in 1..Len(todo) : todo[i] = Agenda(q, done)[Len(done) + i]
        BY <1>2 DEF Ahead
    <2>2. Len(todo) \in Nat \ {0} /\ Head(todo) = todo[1]
        BY <2>1
    <2>3. 1 \in 1..Len(todo)
        BY <2>2
    <2>4. Len(Agenda(q, done)) \in Nat \ {0}
        BY <1>2, AgendaFacts
    <2> QED BY <2>1, <2>2, <2>3, <2>4
<1>8. /\ f.scope = q.scope /\ f.subset = Subset(Agenda(q, done)[Len(done) + 1])
      /\ Honest(f) => f.command = q.command
      /\ q.budget.subsets \in Nat /\ q.budget.iterations \in Nat
    BY <1>2, <1>7, RequestsAssumption DEF IsRequest, IsBudget
<1>9. CASE done = <<>>
    <2>1. /\ Len(done) = 0 /\ Len(new) = 1 /\ new[1] = f /\ ~Reduces(q, done)
          /\ Len(Agenda(q, done)) = 1 /\ Agenda(q, done)[1] = All(q) /\ Len(todo) = 1
        BY <1>2, <1>6, <1>7, <1>9, AgendaFacts DEF Reduces
    <2>2. Reduces(q, new) <=> Passed(f) /\ Len(All(q)) > 1
        BY <1>6, <2>1 DEF Reduces
    <2>3. Agenda(q, new)[1] = All(q) /\ Len(Agenda(q, new)) \in Nat \ {0}
        BY <1>2, AgendaFacts
    <2>4. Tested(q, new)
        BY <1>6, <1>8, <2>1, <2>3 DEF Tested
    <2>5. CASE Reduces(q, new)
        <3>1. rest = Plan(q)
            BY <1>4, <1>9, <2>2, <2>5
        <3>2. Plan(q) \in Seq(Tries(q))
            BY <1>2, <2>2, <2>5, PlanTried
        <3>3. Plan(q) \in Seq(Seq(Hunks(q)))
            BY <3>2 DEF Tries
        <3>4. /\ Len(Agenda(q, new)) = Len(Plan(q)) + 1 /\ Len(Plan(q)) \in Nat
              /\ \A i \in 1..Len(Plan(q)) : Agenda(q, new)[i + 1] = Plan(q)[i]
            BY <1>2, <2>5, AgendaFacts
        <3>5. Ahead(q, new, rest)
            BY <2>1, <3>1, <3>3, <3>4 DEF Ahead
        <3> QED BY <1>2, <1>3, <1>5, <2>4, <3>5
    <2>6. CASE ~Reduces(q, new)
        <3>1. rest = Tail(todo) /\ Len(Agenda(q, new)) = 1
            BY <1>2, <1>4, <2>2, <2>6, AgendaFacts
        <3>2. rest \in Seq(Seq(Hunks(q))) /\ Len(rest) = 0
            BY <1>7, <2>1, <3>1
        <3>3. Ahead(q, new, rest)
            BY <2>1, <3>1, <3>2 DEF Ahead
        <3> QED BY <1>2, <1>3, <1>5, <2>4, <3>3
    <2> QED BY <2>5, <2>6
<1>10. CASE done # <<>>
    <2>1. Len(done) > 0 /\ new[1] = done[1]
        BY <1>6, <1>10
    <2>2. Reduces(q, new) <=> Reduces(q, done)
        BY <1>6, <1>10, <2>1 DEF Reduces
    <2>3. Agenda(q, new) = Agenda(q, done)
        BY <2>2 DEF Agenda
    <2>4. Len(done) < q.budget.subsets /\ Len(done) < q.budget.iterations
        BY <1>2, <1>6, <1>8, <1>10 DEF Exhausted
    <2>5. ASSUME NEW i \in 1..Len(new)
          PROVE  /\ new[i].scope = q.scope /\ new[i].subset = Subset(Agenda(q, new)[i])
                 /\ Honest(new[i]) => new[i].command = q.command
        <3>1. CASE i = Len(done) + 1
            BY <3>1, <1>6, <1>8, <2>3
        <3>2. CASE i # Len(done) + 1
            <4>1. i \in 1..Len(done)
                BY <3>2, <1>6
            <4> QED BY <4>1, <1>2, <1>6, <2>3 DEF Tested
        <3> QED BY <3>1, <3>2
    <2>6. Tested(q, new)
        <3>1. Len(new) <= Len(Agenda(q, new))
            BY <1>6, <1>7, <2>3
        <3>2. Len(new) <= q.budget.subsets /\ Len(new) <= q.budget.iterations
            BY <1>6, <1>8, <2>4
        <3> QED BY <1>6, <2>5, <3>1, <3>2 DEF Tested
    <2>7. /\ rest = Tail(todo) /\ rest \in Seq(Seq(Hunks(q))) /\ Len(rest) = Len(todo) - 1
          /\ \A i \in 1..Len(rest) : rest[i] = todo[i + 1]
        BY <1>4, <1>7, <1>10
    <2>8. \A i \in 1..Len(rest) : i + 1 \in 1..Len(todo) /\ Len(done) + (i + 1) = Len(new) + i
        BY <1>6, <1>7, <2>7
    <2>9. \A i \in 1..Len(rest) : rest[i] = Agenda(q, new)[Len(new) + i]
        BY <1>2, <2>3, <2>7, <2>8 DEF Ahead
    <2>10. Ahead(q, new, rest)
        <3>1. Len(rest) = Len(Agenda(q, new)) - Len(new)
            BY <1>6, <1>7, <2>3, <2>7
        <3> QED BY <2>7, <2>9, <3>1 DEF Ahead
    <2> QED BY <1>2, <1>3, <1>5, <2>6, <2>10
<1> QED BY <1>9, <1>10

LEMMA AppendedSet ==
    ASSUME NEW S, NEW s \in Seq(S), NEW f \in S
    PROVE  ToSet(Append(s, f)) = ToSet(s) \cup {f}
<1>1. PICK t : t = Append(s, f)
    OBVIOUS
<1>2. /\ Len(s) \in Nat /\ DOMAIN s = 1..Len(s) /\ DOMAIN t = 1..(Len(s) + 1)
      /\ \A i \in 1..Len(s) : t[i] = s[i]
      /\ t[Len(s) + 1] = f
    BY <1>1
<1>3. ToSet(t) = {t[i] : i \in 1..(Len(s) + 1)} /\ ToSet(s) = {s[i] : i \in 1..Len(s)}
    BY <1>2 DEF ToSet
<1>4. \A i \in 1..(Len(s) + 1) : i \in 1..Len(s) \/ i = Len(s) + 1
    BY <1>2
<1>5. Len(s) + 1 \in 1..(Len(s) + 1) /\ \A i \in 1..Len(s) : i \in 1..(Len(s) + 1)
    BY <1>2
<1> QED BY <1>1, <1>2, <1>3, <1>4, <1>5

LEMMA HeadIsFact ==
    ASSUME Searching, MayEvaluate, NEW o \in AllOutcomes, NEW c \in Commands
    PROVE  [scope |-> search.q.scope, outcome |-> o, command |-> c,
            subset |-> Subset(Head(search.todo)), asked |-> search.q.command] \in Facts
<1>1. /\ search.q \in Requests /\ search.todo \in Seq(Seq(Hunks(search.q)))
      /\ search.todo # <<>>
    BY DEF Searching, MayEvaluate, Ahead
<1>2. Head(search.todo) \in Seq(Hunks(search.q))
    BY <1>1
<1>3. Subset(Head(search.todo)) \subseteq Hunks(search.q)
    BY <1>2, SubsetOfSeq
<1>4. Hunks(search.q) \subseteq Nat
    BY <1>1, PatchFacts
<1>5. search.q.command \in Commands
    BY <1>1, RequestsAssumption DEF IsRequest
<1> QED BY <1>1, <1>3, <1>4, <1>5 DEF Facts

LEMMA ResultsStay ==
    ASSUME SearchInv, UNCHANGED <<results, restarts>>
    PROVE  restarts' \in Nat /\ Resulted' /\ SameSearchSameResult'
<1>1. Resulted'
    BY DEF SearchInv, Resulted, Concluded, Complete, Tested, Verdict
<1> QED BY <1>1 DEF SearchInv, SameSearchSameResult

\* What is known grows by hits of the cache alone, which were known.
LEMMA StillRecalled ==
    ASSUME Recalled, UNCHANGED cache, Known' \subseteq Known
    PROVE  Recalled'
BY DEF Recalled

\* The parts of what is known.
LEMMA KnownParts ==
    /\ cache \subseteq Known
    /\ search # Nothing => Used(search.q, search.done) \subseteq Known
    /\ \A r \in results : r.epoch = restarts => Used(r.q, r.done) \subseteq Known
BY DEF Known

LEMMA BeginStep ==
    ASSUME SearchInv, Begin
    PROVE  SearchInv'
<1>1. PICK q \in Requests :
          q.base = "FAIL" /\ search' = [q |-> q, todo |-> <<All(q)>>, done |-> <<>>]
    BY DEF Begin
<1>2. UNCHANGED <<cache, results, restarts>>
    BY DEF Begin
<1>3. restarts' \in Nat /\ Resulted' /\ SameSearchSameResult'
    BY <1>2, ResultsStay
<1>4. Cached'
    BY <1>2 DEF SearchInv, Cached
<1>5. /\ Len(Agenda(q, <<>>)) = 1 /\ Agenda(q, <<>>)[1] = All(q)
      /\ All(q) \in Seq(Hunks(q))
    BY AgendaFacts, PatchFacts DEF Reduces
<1>6. Tested(q, <<>>) /\ Ahead(q, <<>>, <<All(q)>>)
    BY <1>5 DEF Tested, Ahead
<1>7. Recalled'
    <2>1. Used(q, <<>>) = {}
        BY DEF Used, ToSet
    <2>2. Known' \subseteq Known
        BY <2>1, <1>1, <1>2 DEF Known
    <2> QED BY <2>2, <1>2, StillRecalled DEF SearchInv
<1>8. Searching'
    BY <1>1, <1>6 DEF Searching, Tested, Ahead
<1> QED BY <1>3, <1>4, <1>7, <1>8 DEF SearchInv

\* A search that went on: what it used, and that it is still one.
LEMMA RecordKeeps ==
    ASSUME SearchInv, MayEvaluate, NEW f \in Facts, Record(f),
           f.scope = search.q.scope, f.subset = Subset(Head(search.todo)),
           Honest(f) => f.command = search.q.command,
           UNCHANGED <<results, restarts>>
    PROVE  /\ Searching'
           /\ Known' \subseteq Known \cup cache' \cup (IF search.q.caching THEN {f} ELSE {})
<1>1. /\ search' = [q |-> search'.q, todo |-> search'.todo, done |-> search'.done]
      /\ search'.q = search.q /\ search'.done = Append(search.done, f)
      /\ Tested(search'.q, search'.done) /\ Ahead(search'.q, search'.done, search'.todo)
    BY RecordStep DEF SearchInv
<1>2. /\ search # Nothing /\ search.q \in Requests /\ search.q.base = "FAIL"
      /\ search.done \in Seq(Facts)
    BY DEF SearchInv, Searching, MayEvaluate, Tested
<1>3. ToSet(Append(search.done, f)) = ToSet(search.done) \cup {f}
    BY <1>2, AppendedSet
<1>4. Used(search.q, search'.done) \subseteq
          Used(search.q, search.done) \cup (IF search.q.caching THEN {f} ELSE {})
    BY <1>1, <1>3 DEF Used
<1>5. Known' \subseteq Known \cup cache' \cup (IF search.q.caching THEN {f} ELSE {})
    <2>1. Used(search.q, search.done) \subseteq Known
        BY <1>2, KnownParts
    <2>2. UNION {Used(r.q, r.done) : r \in {s \in results : s.epoch = restarts}} \subseteq Known
        BY DEF Known
    <2>3. Known' \subseteq
              cache' \cup Used(search'.q, search'.done)
                     \cup UNION {Used(r.q, r.done) : r \in {s \in results : s.epoch = restarts}}
        BY DEF Known
    <2> QED BY <2>1, <2>2, <2>3, <1>1, <1>4
<1> QED BY <1>1, <1>2, <1>5 DEF Searching, Tested, Ahead

LEMMA UseCacheStep ==
    ASSUME SearchInv, UseCache
    PROVE  SearchInv'
<1>1. PICK f \in Found :
          Bound(f, search.q.scope, Subset(Head(search.todo))) /\ Record(f)
    BY DEF UseCache
<1>2. MayEvaluate /\ UNCHANGED <<cache, results, restarts>>
    BY DEF UseCache
<1>3. f \in cache /\ f \in Facts /\ f.command = search.q.command
    BY <1>1 DEF Found, Lookup, SearchInv, Cached, KeyOf, Key
<1>4. /\ Searching'
      /\ Known' \subseteq Known \cup cache' \cup (IF search.q.caching THEN {f} ELSE {})
    BY <1>1, <1>2, <1>3, RecordKeeps DEF Bound
<1>5. Known' \subseteq Known
    BY <1>2, <1>3, <1>4, KnownParts
<1>6. Recalled'
    BY <1>2, <1>5, StillRecalled DEF SearchInv
<1>7. restarts' \in Nat /\ Resulted' /\ SameSearchSameResult'
    BY <1>2, ResultsStay
<1>8. Cached'
    BY <1>2 DEF SearchInv, Cached
<1> QED BY <1>4, <1>6, <1>7, <1>8 DEF SearchInv

\* Storing leaves every key that was taken taken; and nothing had been found under the
\* key of an honest fact.
LEMMA StoreRecalled ==
    ASSUME Cached, Recalled, NEW f \in Facts, Store(f), Known' \subseteq Known \cup {f},
           Honest(f) => \A g \in cache : KeyOf(g) # KeyOf(f)
    PROVE  Cached' /\ Recalled'
<1>1. cache' = {g \in cache : KeyOf(g) # KeyOf(f)} \cup {f}
    BY DEF Store
<1>2. Cached'
    BY <1>1 DEF Cached
<1>3. ASSUME NEW g \in cache PROVE \E h \in cache' : KeyOf(h) = KeyOf(g)
    <2>1. CASE KeyOf(g) = KeyOf(f)
        BY <2>1, <1>1
    <2>2. CASE KeyOf(g) # KeyOf(f)
        BY <2>2, <1>1
    <2> QED BY <2>1, <2>2
<1>4. ASSUME NEW g \in Known', Honest(g) PROVE \E h \in cache' : KeyOf(h) = KeyOf(g)
    <2>1. CASE g = f
        BY <2>1, <1>1
    <2>2. CASE g # f
        <3>1. PICK h \in cache : KeyOf(h) = KeyOf(g)
            BY <2>2, <1>4 DEF Recalled
        <3>2. PICK k \in cache' : KeyOf(k) = KeyOf(h)
            BY <1>3
        <3> QED BY <3>1, <3>2
    <2> QED BY <2>1, <2>2
<1>5. ASSUME NEW g \in Known, Honest(f), Honest(g) PROVE KeyOf(g) # KeyOf(f)
    <2>1. PICK h \in cache : KeyOf(h) = KeyOf(g)
        BY <1>5 DEF Recalled
    <2> QED BY <2>1, <1>5
<1>6. ASSUME NEW g \in Known', NEW h \in Known', Honest(g), Honest(h), KeyOf(g) = KeyOf(h)
      PROVE  g = h
    <2>1. CASE g \in Known /\ h \in Known
        BY <2>1, <1>6 DEF Recalled
    <2>2. CASE g = f \/ h = f
        BY <2>2, <1>5, <1>6
    <2> QED BY <2>1, <2>2
<1>7. Recalled'
    BY <1>4, <1>6 DEF Recalled, Honest, KeyOf, Key
<1> QED BY <1>2, <1>7

LEMMA TryStep ==
    ASSUME SearchInv, Execute
    PROVE  SearchInv'
<1>1. PICK o \in Outcomes, c \in Commands :
          LET fact == [scope |-> search.q.scope, outcome |-> o, command |-> c,
                       subset |-> Subset(Head(search.todo)), asked |-> search.q.command]
          IN  /\ Record(fact)
              /\ IF search.q.caching THEN Store(fact) ELSE UNCHANGED cache
    BY DEF Execute
<1>2. PICK f : f = [scope |-> search.q.scope, outcome |-> o, command |-> c,
                    subset |-> Subset(Head(search.todo)), asked |-> search.q.command]
    OBVIOUS
<1>3. /\ Record(f) /\ IF search.q.caching THEN Store(f) ELSE UNCHANGED cache
      /\ f.scope = search.q.scope /\ f.subset = Subset(Head(search.todo))
      /\ f.asked = search.q.command
    BY <1>1, <1>2
<1>4. MayEvaluate /\ Found = {} /\ UNCHANGED <<results, restarts>>
    BY DEF Execute
<1>5. f \in Facts
    <2>1. o \in AllOutcomes
        BY OutcomesAssumption
    <2> QED BY <2>1, <1>2, <1>4, HeadIsFact DEF SearchInv
<1>6. Honest(f) => f.command = search.q.command
    BY <1>3 DEF Honest
<1>7. /\ Searching'
      /\ Known' \subseteq Known \cup cache' \cup (IF search.q.caching THEN {f} ELSE {})
    BY <1>3, <1>4, <1>5, <1>6, RecordKeeps
<1>8. Cached' /\ Recalled'
    <2>1. CASE search.q.caching
        <3>1. Store(f)
            BY <2>1, <1>3
        <3>2. cache' \subseteq Known \cup {f}
            BY <3>1, KnownParts DEF Store
        <3>3. Known' \subseteq Known \cup {f}
            BY <2>1, <3>2, <1>7
        <3>4. ASSUME Honest(f), NEW g \in cache PROVE KeyOf(g) # KeyOf(f)
            <4>1. KeyOf(f) = Key(search.q.scope, Subset(Head(search.todo)), search.q.command)
                BY <1>3, <1>6, <3>4 DEF KeyOf
            <4> QED BY <4>1, <2>1, <1>4 DEF Found, Lookup
        <3> QED BY <3>1, <3>3, <3>4, <1>5, StoreRecalled DEF SearchInv
    <2>2. CASE ~search.q.caching
        <3>1. UNCHANGED cache
            BY <2>2, <1>3
        <3>2. Known' \subseteq Known
            BY <2>2, <3>1, <1>7, KnownParts
        <3> QED BY <3>1, <3>2, StillRecalled DEF SearchInv, Cached
    <2> QED BY <2>1, <2>2
<1>9. restarts' \in Nat /\ Resulted' /\ SameSearchSameResult'
    BY <1>4, ResultsStay
<1> QED BY <1>7, <1>8, <1>9 DEF SearchInv

LEMMA AbortStep ==
    ASSUME SearchInv, Abort
    PROVE  SearchInv'
<1>1. search' = Nothing /\ UNCHANGED <<cache, results, restarts>>
    BY DEF Abort
<1>2. restarts' \in Nat /\ Resulted' /\ SameSearchSameResult'
    BY <1>1, ResultsStay
<1>3. Known' \subseteq Known
    BY <1>1 DEF Known
<1>4. Recalled'
    BY <1>1, <1>3, StillRecalled DEF SearchInv
<1> QED BY <1>1, <1>2, <1>4 DEF SearchInv, Cached, Searching

\* Results of an earlier process need no cache.
LEMMA LoseCacheStep ==
    ASSUME SearchInv, LoseCache
    PROVE  SearchInv'
<1>1. /\ restarts' = restarts + 1 /\ restarts' \in Nat /\ cache' = {} /\ search' = Nothing
      /\ results' = results
    BY DEF LoseCache, SearchInv
<1>2. \A r \in results : Concluded(r) /\ r.epoch \in Nat /\ r.epoch <= restarts
    BY DEF SearchInv, Resulted
<1>3. \A r \in results : r.epoch <= restarts' /\ r.epoch # restarts'
    BY <1>1, <1>2 DEF SearchInv
<1>4. Resulted'
    BY <1>1, <1>2, <1>3 DEF Resulted, Concluded, Complete, Tested, Verdict
<1>5. Known' = {}
    BY <1>1, <1>3 DEF Known
<1>6. Recalled'
    BY <1>5 DEF Recalled
<1> QED BY <1>1, <1>4, <1>6 DEF SearchInv, Cached, Searching, SameSearchSameResult

-----------------------------------------------------------------------------
(* A search ends.  Two searches for the same thing that met honest facts   *)
(* went through the same facts, and concluded the same.                    *)

LEMMA SameFacts ==
    ASSUME NEW q \in Requests, Recalled,
           NEW d, NEW e, d # <<>>, e # <<>>, Complete(q, d), Complete(q, e),
           ToSet(d) \subseteq Known, ToSet(e) \subseteq Known,
           \A f \in ToSet(d) \cup ToSet(e) : Honest(f)
    PROVE  d = e
<1>1. /\ Tested(q, d) /\ Tested(q, e)
      /\ q.budget.subsets \in Nat \ {0} /\ q.budget.iterations \in Nat \ {0}
    BY RequestsAssumption DEF Complete, IsRequest, IsBudget
<1>2. d \in Seq(Facts) /\ e \in Seq(Facts) /\ Len(d) \in Nat \ {0} /\ Len(e) \in Nat \ {0}
    BY <1>1 DEF Tested
<1>3. /\ \A i \in 1..Len(d) : d[i] \in Known /\ Honest(d[i])
      /\ \A i \in 1..Len(e) : e[i] \in Known /\ Honest(e[i])
    BY <1>2 DEF ToSet
<1>4. /\ \A i \in 1..Len(d) : /\ d[i].scope = q.scope /\ d[i].command = q.command
                              /\ d[i].subset = Subset(Agenda(q, d)[i])
      /\ \A i \in 1..Len(e) : /\ e[i].scope = q.scope /\ e[i].command = q.command
                              /\ e[i].subset = Subset(Agenda(q, e)[i])
    BY <1>1, <1>3 DEF Tested
<1>5. ASSUME NEW i \in 1..Len(d), NEW j \in 1..Len(e), d[i].subset = e[j].subset
      PROVE  d[i] = e[j]
    <2>1. KeyOf(d[i]) = KeyOf(e[j])
        BY <1>4, <1>5 DEF KeyOf
    <2> QED BY <2>1, <1>3 DEF Recalled
<1>6. Agenda(q, d) = Agenda(q, e)
    <2>1. 1 \in 1..Len(d) /\ 1 \in 1..Len(e)
        BY <1>2
    <2>2. Agenda(q, d)[1] = All(q) /\ Agenda(q, e)[1] = All(q)
        BY AgendaFacts
    <2>3. d[1] = e[1]
        BY <2>1, <2>2, <1>4, <1>5
    <2> QED BY <2>3 DEF Agenda, Reduces
<1>7. ASSUME NEW i \in 1..Len(d), i \in 1..Len(e) PROVE d[i] = e[i]
    BY <1>4, <1>5, <1>6, <1>7
<1>8. Len(Agenda(q, d)) \in Nat /\ Len(Agenda(q, d)) = Len(Agenda(q, e))
    BY <1>6, AgendaFacts
<1>9. /\ Len(d) <= Len(Agenda(q, d)) /\ Len(e) <= Len(Agenda(q, e))
      /\ Len(d) > 1 => Len(d) <= q.budget.subsets /\ Len(d) <= q.budget.iterations
      /\ Len(e) > 1 => Len(e) <= q.budget.subsets /\ Len(e) <= q.budget.iterations
    BY <1>1 DEF Tested
<1>10. /\ \/ Len(d) = Len(Agenda(q, d))
          \/ Len(d) >= q.budget.subsets \/ Len(d) >= q.budget.iterations
       /\ \/ Len(e) = Len(Agenda(q, e))
          \/ Len(e) >= q.budget.subsets \/ Len(e) >= q.budget.iterations
    BY DEF Complete
<1>11. Len(d) = Len(e)
    BY <1>1, <1>2, <1>8, <1>9, <1>10
<1>12. \A i \in 1..Len(d) : d[i] = e[i]
    BY <1>7, <1>11
<1> QED BY <1>2, <1>11, <1>12

LEMMA SameSearch ==
    ASSUME Recalled, NEW r, NEW s, Concluded(r), Concluded(s),
           r.q = s.q, r.epoch = s.epoch,
           ToSet(r.done) \subseteq Known, ToSet(s.done) \subseteq Known,
           \A f \in ToSet(r.done) \cup ToSet(s.done) : Honest(f)
    PROVE  r = s
<1>1. r.q \in Requests /\ Complete(r.q, r.done) /\ Complete(r.q, s.done)
    BY DEF Concluded
<1>2. r.done = s.done
    <2>1. CASE r.q.base = "FAIL"
        <3>1. r.done # <<>> /\ s.done # <<>>
            BY <1>1, <2>1 DEF Complete
        <3> QED BY <3>1, <1>1, SameFacts
    <2>2. CASE r.q.base # "FAIL"
        BY <1>1, <2>2 DEF Complete
    <2> QED BY <2>1, <2>2
<1> QED BY <1>2 DEF Concluded

LEMMA ResultAdded ==
    ASSUME SearchInv, UNCHANGED <<cache, restarts>>,
           NEW r, results' = results \cup {r}, search' = Nothing,
           Concluded(r), r.epoch = restarts, Used(r.q, r.done) \subseteq Known
    PROVE  SearchInv'
<1>1. Recalled /\ restarts \in Nat /\ SameSearchSameResult
    BY DEF SearchInv
<1>2. \A s \in results \cup {r} : Concluded(s) /\ s.epoch \in Nat /\ s.epoch <= restarts
    BY DEF SearchInv, Resulted
<1>3. Resulted'
    BY <1>2 DEF Resulted, Concluded, Complete, Tested, Verdict
<1>4. ASSUME NEW s \in results, r.q = s.q, r.q.caching, r.epoch = s.epoch,
             \A f \in ToSet(r.done) \cup ToSet(s.done) : Honest(f)
      PROVE  r = s
    <2>1. ToSet(r.done) \subseteq Known
        BY <1>4 DEF Used
    <2>2. ToSet(s.done) \subseteq Known
        BY <1>4, KnownParts DEF Used
    <2> QED BY <2>1, <2>2, <1>1, <1>2, <1>4, SameSearch
<1>5. SameSearchSameResult'
    BY <1>1, <1>4 DEF SameSearchSameResult
<1>6. Known' \subseteq Known
    <2>1. Known' = cache \cup UNION {Used(s.q, s.done) :
                                         s \in {t \in results \cup {r} : t.epoch = restarts}}
        BY DEF Known
    <2> QED BY <2>1, KnownParts
<1>7. Recalled'
    BY <1>1, <1>6, StillRecalled
<1> QED BY <1>1, <1>3, <1>5, <1>7 DEF SearchInv, Cached, Searching

LEMMA RefuseBaseStep ==
    ASSUME SearchInv, RefuseBase
    PROVE  SearchInv'
<1>1. PICK q \in Requests :
          /\ q.base # "FAIL"
          /\ Return(q, <<>>, Conclusion("INVALID_SUBSET", "EXHAUSTIVE_BOUNDED", {}, {}))
    BY DEF RefuseBase
<1>2. PICK r : r = Result(q, <<>>, Conclusion("INVALID_SUBSET", "EXHAUSTIVE_BOUNDED", {}, {}))
    OBVIOUS
<1>3. UNCHANGED <<cache, restarts>> /\ results' = results \cup {r} /\ search' = Nothing
    BY <1>1, <1>2 DEF RefuseBase, Return
<1>4. r.q = q /\ r.done = <<>> /\ r.epoch = restarts
    BY <1>2 DEF Result
<1>5. Verdict(q, <<>>) = Conclusion("INVALID_SUBSET", "EXHAUSTIVE_BOUNDED", {}, {})
    BY DEF Verdict
<1>6. Complete(q, <<>>) /\ Used(q, <<>>) = {}
    BY <1>1 DEF Complete, Used, ToSet
<1>7. Concluded(r)
    BY <1>2, <1>4, <1>5, <1>6 DEF Concluded, Result
<1> QED BY <1>3, <1>4, <1>6, <1>7, ResultAdded

LEMMA SearchEnds ==
    ASSUME SearchInv, UNCHANGED <<cache, restarts>>, search # Nothing,
           Complete(search.q, search.done),
           Return(search.q, search.done, Verdict(search.q, search.done))
    PROVE  SearchInv'
<1>1. PICK r : r = Result(search.q, search.done, Verdict(search.q, search.done))
    OBVIOUS
<1>2. results' = results \cup {r} /\ search' = Nothing
    BY <1>1 DEF Return
<1>3. r.q = search.q /\ r.done = search.done /\ r.epoch = restarts
    BY <1>1 DEF Result
<1>4. search.q \in Requests /\ Used(search.q, search.done) \subseteq Known
    BY KnownParts DEF SearchInv, Searching
<1>5. Concluded(r)
    BY <1>1, <1>3, <1>4 DEF Concluded, Result
<1> QED BY <1>2, <1>3, <1>4, <1>5, ResultAdded

LEMMA ConcludeFullStep ==
    ASSUME SearchInv, ConcludeFull
    PROVE  SearchInv'
<1>1. PICK q, done, todo : q = search.q /\ done = search.done /\ todo = search.todo
    OBVIOUS
<1>2. /\ search # Nothing /\ Len(done) = 1 /\ todo = <<>> /\ UNCHANGED <<cache, restarts>>
      /\ Return(q, done, JudgeFull(done))
    BY <1>1 DEF ConcludeFull
<1>3. q \in Requests /\ q.base = "FAIL" /\ Tested(q, done) /\ Ahead(q, done, todo)
    BY <1>1, <1>2 DEF SearchInv, Searching
<1>4. Len(Agenda(q, done)) = 1 /\ done # <<>>
    <2>1. Len(todo) = 0 /\ Len(todo) = Len(Agenda(q, done)) - Len(done)
        BY <1>2, <1>3 DEF Ahead
    <2>2. Len(Agenda(q, done)) \in Nat
        BY <1>3, AgendaFacts
    <2> QED BY <2>1, <2>2, <1>2
<1>5. ~Reduces(q, done)
    <2>1. Reduces(q, done) => Len(Agenda(q, done)) = Len(Plan(q)) + 1 /\ Len(Plan(q)) \in Nat \ {0}
        BY <1>3, AgendaFacts
    <2> QED BY <2>1, <1>4
<1>6. Verdict(q, done) = JudgeFull(done) /\ Complete(q, done)
    BY <1>2, <1>3, <1>4, <1>5 DEF Verdict, Complete
<1> QED BY <1>1, <1>2, <1>6, SearchEnds

LEMMA ConcludeSearchStep ==
    ASSUME SearchInv, ConcludeSearch
    PROVE  SearchInv'
<1>1. PICK q, done, todo : q = search.q /\ done = search.done /\ todo = search.todo
    OBVIOUS
<1>2. /\ search # Nothing /\ done # <<>> /\ Len(All(q)) > 1 /\ Passed(done[1])
      /\ todo = <<>> \/ Len(done) >= q.budget.subsets \/ Len(done) >= q.budget.iterations
      /\ Return(q, done, Judge(done, todo # <<>>)) /\ UNCHANGED <<cache, restarts>>
    BY <1>1 DEF ConcludeSearch, Exhausted
<1>3. q \in Requests /\ q.base = "FAIL" /\ Tested(q, done) /\ Ahead(q, done, todo)
    BY <1>1, <1>2 DEF SearchInv, Searching
<1>4. /\ Len(todo) = Len(Agenda(q, done)) - Len(done) /\ Len(todo) \in Nat
      /\ todo # <<>> <=> Len(todo) > 0
    BY <1>3 DEF Ahead
<1>5. Len(Agenda(q, done)) \in Nat /\ Len(done) \in Nat
    BY <1>3, AgendaFacts DEF Tested
<1>6. (todo # <<>>) = (Len(done) < Len(Agenda(q, done)))
    BY <1>4, <1>5
<1>7. Verdict(q, done) = Judge(done, todo # <<>>)
    BY <1>2, <1>6 DEF Verdict, Reduces
<1>8. todo = <<>> => Len(done) = Len(Agenda(q, done))
    BY <1>4, <1>5
<1>9. Complete(q, done)
    BY <1>2, <1>3, <1>8 DEF Complete
<1> QED BY <1>1, <1>2, <1>7, <1>9, SearchEnds

\* Facts of the cache have keys of their own, what a search met honestly stays the only
\* honest fact of its key, and results are what their facts say.
THEOREM SearchInvariant == SearchSpec => []SearchInv
<1>1. SearchInit => SearchInv
    BY DEF SearchInit, SearchInv, Cached, Recalled, Known, Searching, Resulted,
           SameSearchSameResult
<1>2. SearchInv /\ [SearchNext]_searchVars => SearchInv'
    <2> SUFFICES ASSUME SearchInv, [SearchNext]_searchVars PROVE SearchInv'
        OBVIOUS
    <2>1. CASE RefuseBase
        BY <2>1, RefuseBaseStep
    <2>2. CASE Begin
        BY <2>2, BeginStep
    <2>3. CASE UseCache
        BY <2>3, UseCacheStep
    <2>4. CASE Execute
        BY <2>4, TryStep
    <2>5. CASE Abort
        BY <2>5, AbortStep
    <2>6. CASE ConcludeFull
        BY <2>6, ConcludeFullStep
    <2>7. CASE ConcludeSearch
        BY <2>7, ConcludeSearchStep
    <2>8. CASE LoseCache
        BY <2>8, LoseCacheStep
    <2>9. CASE UNCHANGED searchVars
        <3>1. UNCHANGED <<cache, search, results, restarts>>
            BY <2>9 DEF searchVars
        <3>2. restarts' \in Nat /\ Resulted' /\ SameSearchSameResult'
            BY <3>1, ResultsStay
        <3>3. Searching'
            BY <3>1 DEF SearchInv, Searching, Tested, Ahead
        <3>4. Known' \subseteq Known
            BY <3>1 DEF Known
        <3>5. Recalled'
            BY <3>1, <3>4, StillRecalled DEF SearchInv
        <3> QED BY <3>1, <3>2, <3>3, <3>5 DEF SearchInv, Cached
    <2> QED BY <2>1, <2>2, <2>3, <2>4, <2>5, <2>6, <2>7, <2>8, <2>9 DEF SearchNext
<1> QED BY <1>1, <1>2, PTL DEF SearchSpec

-----------------------------------------------------------------------------
(* What a conclusion rests on. *)

LEMMA LeastOf ==
    ASSUME NEW S \in SUBSET Nat, S # {}
    PROVE  \E n \in S : \A m \in S : n <= m
<1>1. PICK k \in S : TRUE
    OBVIOUS
<1>2. PICK low : low = {n \in S : n <= k}
    OBVIOUS
<1>3. low \in SUBSET Nat /\ k \in low /\ low \subseteq 0..k
    <2>1. k \in Nat /\ k <= k
        BY <1>1
    <2>2. \A n \in low : n \in Nat /\ n <= k
        BY <1>2
    <2>3. \A n \in low : n \in 0..k
        BY <2>1, <2>2
    <2>4. k \in low
        BY <2>1, <1>2
    <2> QED BY <2>2, <2>3, <2>4
<1>4. IsFiniteSet(low)
    <2>1. IsFiniteSet(0..k)
        BY <1>1, FS_Interval
    <2> QED BY <2>1, <1>3, FS_Subset
<1>5. PICK n \in low : \A m \in low : n <= m
    BY <1>3, <1>4, LeastPlace
<1>6. ASSUME NEW m \in S PROVE n <= m
    <2>1. CASE m <= k
        BY <2>1, <1>2, <1>5
    <2>2. CASE ~(m <= k)
        BY <2>2, <1>2, <1>3, <1>5
    <2> QED BY <2>1, <2>2
<1> QED BY <1>2, <1>6

\* What passed in an order of places; of what passed something is smallest.
LEMMA PassedPlaces ==
    ASSUME NEW done \in Seq(Facts), \A i \in 1..Len(done) : IsFiniteSet(done[i].subset)
    PROVE  /\ Passing(done) \subseteq 2..Len(done) /\ IsFiniteSet(Passing(done))
           /\ PassingSingles(done) \subseteq Passing(done) /\ IsFiniteSet(PassingSingles(done))
           /\ Smallest(done) \subseteq Passing(done) /\ IsFiniteSet(Smallest(done))
           /\ Passing(done) # {} => Smallest(done) # {}
           /\ \A i \in Passing(done) : Cardinality(done[i].subset) \in Nat
<1>1. Len(done) \in Nat
    OBVIOUS
<1>2. /\ Passing(done) \subseteq 2..Len(done) /\ PassingSingles(done) \subseteq Passing(done)
      /\ Smallest(done) \subseteq Passing(done)
    BY DEF Passing, PassingSingles, Smallest
<1>3. IsFiniteSet(2..Len(done))
    BY <1>1, FS_Interval
<1>4. IsFiniteSet(Passing(done))
    BY <1>2, <1>3, FS_Subset
<1>5. IsFiniteSet(PassingSingles(done)) /\ IsFiniteSet(Smallest(done))
    BY <1>2, <1>4, FS_Subset
<1>6. \A i \in Passing(done) : Cardinality(done[i].subset) \in Nat
    <2>1. \A i \in Passing(done) : i \in 1..Len(done)
        BY <1>1, <1>2
    <2> QED BY <2>1, FS_CardinalityType
<1>7. ASSUME Passing(done) # {} PROVE Smallest(done) # {}
    <2>1. PICK sizes : sizes = {Cardinality(done[i].subset) : i \in Passing(done)}
        OBVIOUS
    <2>2. sizes \in SUBSET Nat /\ sizes # {}
        BY <2>1, <1>6, <1>7
    <2>3. PICK n \in sizes : \A m \in sizes : n <= m
        BY <2>2, LeastOf
    <2>4. PICK i \in Passing(done) : n = Cardinality(done[i].subset)
        BY <2>1
    <2>5. i \in Smallest(done)
        BY <2>1, <2>3, <2>4 DEF Smallest
    <2> QED BY <2>5
<1> QED BY <1>2, <1>4, <1>5, <1>6, <1>7

LEMMA MinTaken ==
    ASSUME NEW S \in SUBSET Nat, IsFiniteSet(S), S # {}
    PROVE  Min(S) \in S
BY LeastPlace DEF Min

\* A subset is chosen only if it passed; and a necessary one of an exhaustive
\* search is the only smallest.
LEMMA JudgeChooses ==
    ASSUME NEW done \in Seq(Facts), done # <<>>, Passed(done[1]), NEW exhausted,
           \A i \in 1..Len(done) : IsFiniteSet(done[i].subset),
           NEW c, c = Judge(done, exhausted)
    PROVE  /\ c.chosen # {} =>
                 \E i \in 1..Len(done) : Passed(done[i]) /\ c.chosen = done[i].subset
           /\ c.status = "TESTED_NECESSARY_SUBSET" /\ c.completeness = "EXHAUSTIVE_BOUNDED" =>
                 /\ ~exhausted
                 /\ \E i \in 2..Len(done) : Smallest(done) = {i} /\ c.chosen = done[i].subset
<1>1. /\ Len(done) \in Nat \ {0}
      /\ Passing(done) \subseteq 2..Len(done) /\ IsFiniteSet(Passing(done))
      /\ PassingSingles(done) \subseteq Passing(done) /\ IsFiniteSet(PassingSingles(done))
      /\ Smallest(done) \subseteq Passing(done) /\ IsFiniteSet(Smallest(done))
      /\ Passing(done) # {} => Smallest(done) # {}
    BY PassedPlaces
<1>2. ASSUME NEW S, S \subseteq Passing(done), IsFiniteSet(S), S # {}
      PROVE  /\ Min(S) \in S /\ Min(S) \in 1..Len(done) /\ Min(S) \in 2..Len(done)
             /\ Passed(done[Min(S)])
    <2>1. S \in SUBSET Nat
        BY <1>1, <1>2
    <2>2. Min(S) \in S
        BY <2>1, <1>2, MinTaken
    <2>3. Min(S) \in Passing(done)
        BY <2>2, <1>2
    <2> QED BY <2>2, <2>3, <1>1 DEF Passing
<1>3. /\ Cardinality(PassingSingles(done)) \in Nat /\ Cardinality(Smallest(done)) \in Nat
      /\ Cardinality(PassingSingles(done)) = 0 <=> PassingSingles(done) = {}
      /\ Cardinality(Smallest(done)) = 0 <=> Smallest(done) = {}
    BY <1>1, FS_CardinalityType, FS_EmptySet
<1>4. CASE NonMonotonic(done)
    <2>1. Cardinality(PassingSingles(done)) > 1
        BY <1>3, <1>4 DEF NonMonotonic
    <2>2. Passing(done) # {} /\ ~(Cardinality(PassingSingles(done)) <= 1)
        BY <2>1, <1>1, <1>3
    <2> QED BY <2>2, <1>4 DEF Judge, Conclusion
<1>5. CASE ~NonMonotonic(done) /\ Cardinality(PassingSingles(done)) > 1
    <2>1. PassingSingles(done) # {}
        BY <1>3, <1>5
    <2>2. PICK m \in 1..Len(done) : m = Min(PassingSingles(done)) /\ Passed(done[m])
        BY <2>1, <1>1, <1>2
    <2>3. Passing(done) # {} /\ ~(Cardinality(PassingSingles(done)) <= 1)
        BY <2>1, <1>1, <1>3, <1>5
    <2>4. c.chosen = done[m].subset /\ c.status = "MULTIPLE_SUFFICIENT_SUBSETS"
        BY <2>2, <2>3, <1>5 DEF Judge, Conclusion
    <2> QED BY <2>2, <2>4
<1>6. CASE ~NonMonotonic(done) /\ ~(Cardinality(PassingSingles(done)) > 1) /\ Passing(done) = {}
    <2>1. c = NothingPassed(done, exhausted)
        <3>1. Cardinality(Smallest(done)) = 0
            BY <1>1, <1>3, <1>6
        <3>2. ~(Cardinality(Smallest(done)) > 1) /\ ~(Cardinality(Smallest(done)) = 1)
            BY <3>1
        <3> QED BY <3>2, <1>6 DEF Judge
    <2>2. 1 \in 1..Len(done)
        BY <1>1
    <2> QED BY <2>1, <2>2 DEF NothingPassed, Conclusion
<1>7. CASE /\ ~NonMonotonic(done) /\ ~(Cardinality(PassingSingles(done)) > 1)
           /\ Passing(done) # {} /\ Cardinality(Smallest(done)) > 1
    <2>1. PICK m \in 1..Len(done) : m = Min(Smallest(done)) /\ Passed(done[m])
        BY <1>7, <1>1, <1>2
    <2>2. Cardinality(PassingSingles(done)) <= 1
        BY <1>3, <1>7
    <2>3. c.chosen = done[m].subset /\ c.status = "MULTIPLE_SUFFICIENT_SUBSETS"
        BY <2>1, <2>2, <1>7 DEF Judge, Conclusion
    <2> QED BY <2>1, <2>3
<1>8. CASE /\ ~NonMonotonic(done) /\ ~(Cardinality(PassingSingles(done)) > 1)
           /\ Passing(done) # {} /\ ~(Cardinality(Smallest(done)) > 1)
    <2>1. PICK m \in 2..Len(done) :
              m \in Smallest(done) /\ m = Min(Smallest(done)) /\ Passed(done[m])
        BY <1>8, <1>1, <1>2
    <2>2. Cardinality(Smallest(done)) = 1
        BY <1>1, <1>3, <1>8
    <2>3. Smallest(done) = {m}
        BY <2>1, <2>2, <1>1, FS_Singleton
    <2>4. /\ c.chosen = done[m].subset
          /\ c.completeness = IF exhausted THEN "BOUNDED_GREEDY" ELSE "EXHAUSTIVE_BOUNDED"
        <3>1. Cardinality(PassingSingles(done)) <= 1
            BY <1>3, <1>8
        <3> QED BY <2>1, <2>2, <3>1, <1>8 DEF Judge, Conclusion
    <2>5. m \in 1..Len(done)
        BY <2>1, <1>1
    <2> QED BY <2>1, <2>3, <2>4, <2>5
<1> QED BY <1>4, <1>5, <1>6, <1>7, <1>8

LEMMA TestedFacts ==
    ASSUME NEW q \in Requests, NEW done, Tested(q, done), NEW i \in 1..Len(done)
    PROVE  /\ done[i] \in Facts /\ IsFact(done[i]) /\ done[i].scope = q.scope
           /\ IsFiniteSet(done[i].subset)
           /\ i = 1 => done[i].subset = Hunks(q)
<1>1. /\ done \in Seq(Facts) /\ Len(done) <= Len(Agenda(q, done))
      /\ done[i].scope = q.scope /\ done[i].subset = Subset(Agenda(q, done)[i])
    BY DEF Tested
<1>0. Len(done) \in Nat
    BY <1>1
<1>2. /\ Agenda(q, done)[1] = All(q) /\ Len(Agenda(q, done)) \in Nat /\ Len(done) \in Nat
      /\ \A k \in 1..Len(Agenda(q, done)) :
             Subset(Agenda(q, done)[k]) # {} /\ Subset(Agenda(q, done)[k]) \subseteq Hunks(q)
    BY <1>0, AgendaFacts
<1>3. done[i].subset # {} /\ done[i].subset \subseteq Hunks(q)
    BY <1>1, <1>2
<1>4. IsFiniteSet(done[i].subset)
    BY <1>3, PatchFacts, FS_Subset
<1>5. i = 1 => done[i].subset = Hunks(q)
    BY <1>1, <1>2, PatchFacts
<1>6. done[i] \in Facts /\ done[i].outcome \in AllOutcomes
    <2>1. done[i] \in Facts
        BY <1>1
    <2> QED BY <2>1 DEF Facts
<1>7. IsScope(q.scope)
    BY RequestsAssumption DEF IsRequest
<1> QED BY <1>1, <1>3, <1>4, <1>5, <1>6, <1>7 DEF IsFact, Hunks

\* A result that tested something tested the full candidate first.
LEMMA ResultFacts ==
    ASSUME SearchInv, NEW r \in results, r.done # <<>>
    PROVE  /\ r.q \in Requests /\ Tested(r.q, r.done) /\ Len(r.done) \in Nat \ {0}
           /\ r.done \in Seq(Facts) /\ DOMAIN r.done = 1..Len(r.done)
           /\ r.done[1].subset = Hunks(r.q)
           /\ \A i \in 1..Len(r.done) : IsFact(r.done[i]) /\ r.done[i].scope = r.q.scope
           /\ \A i \in 1..Len(r.done) : IsFiniteSet(r.done[i].subset)
<1>1. r.q \in Requests /\ Tested(r.q, r.done)
    BY DEF SearchInv, Resulted, Concluded, Complete
<1>2. r.done \in Seq(Facts) /\ DOMAIN r.done = 1..Len(r.done) /\ Len(r.done) \in Nat \ {0}
    BY <1>1 DEF Tested
<1>3. 1 \in 1..Len(r.done)
    BY <1>2
<1> QED BY <1>1, <1>2, <1>3, TestedFacts

LEMMA ResultsHaveReceipts ==
    ASSUME SearchInv
    PROVE  ReceiptOfEveryResult
<1> SUFFICES ASSUME NEW r \in results, r.done # <<>>
             PROVE  /\ ReceiptValid(SliceReceipt(r))
                    /\ r.chosen # {} =>
                          {r.chosen, Hunks(r.q)} \subseteq
                              {f.subset : f \in {g \in ToSet(r.done) : Passed(g)}}
    BY DEF ReceiptOfEveryResult
<1>1. PICK q, done : q = r.q /\ done = r.done
    OBVIOUS
<1>2. /\ q \in Requests /\ Tested(q, done) /\ Len(done) \in Nat \ {0} /\ done # <<>>
      /\ done \in Seq(Facts) /\ DOMAIN done = 1..Len(done) /\ done[1].subset = Hunks(q)
      /\ \A i \in 1..Len(done) : IsFact(done[i]) /\ done[i].scope = q.scope
      /\ \A i \in 1..Len(done) : IsFiniteSet(done[i].subset)
    BY <1>1, ResultFacts
<1>3. ToSet(done) = {done[i] : i \in 1..Len(done)}
    BY <1>2 DEF ToSet
<1>4. ReceiptValid(SliceReceipt(r))
    <2>1. IsScope(q.scope)
        BY <1>2, RequestsAssumption DEF IsRequest
    <2>2. SliceReceipt(r).scope = q.scope /\ SliceReceipt(r).facts = done
        BY <1>1 DEF SliceReceipt
    <2> QED BY <2>1, <2>2, <1>2, <1>3 DEF ReceiptValid
<1>5. r.chosen = Verdict(q, done).chosen
    BY <1>1 DEF SearchInv, Resulted, Concluded
<1>6. ASSUME r.chosen # {}
      PROVE  Passed(done[1]) /\ \E i \in 1..Len(done) : Passed(done[i]) /\ r.chosen = done[i].subset
    <2>0. 1 \in 1..Len(done)
        BY <1>2
    <2>1. CASE Reduces(q, done)
        <3>1. PICK b : b = (Len(done) < Len(Agenda(q, done)))
            OBVIOUS
        <3>2. r.chosen = Judge(done, b).chosen /\ Passed(done[1])
            BY <3>1, <2>1, <1>2, <1>5 DEF Verdict, Reduces
        <3> QED BY <3>2, <1>2, <1>6, JudgeChooses
    <2>2. CASE ~Reduces(q, done)
        <3>1. r.chosen = JudgeFull(done).chosen
            BY <2>2, <1>2, <1>5 DEF Verdict
        <3>2. done[1].outcome \in AllOutcomes
            BY <2>0, <1>2 DEF IsFact
        <3>3. Passed(done[1]) /\ r.chosen = done[1].subset
            BY <3>1, <3>2, <1>6 DEF JudgeFull, Conclusion, AllOutcomes, Passed
        <3> QED BY <3>3, <2>0
    <2> QED BY <2>1, <2>2
<1>7. ASSUME NEW i \in 1..Len(done), Passed(done[i])
      PROVE  done[i].subset \in {f.subset : f \in {g \in ToSet(done) : Passed(g)}}
    BY <1>3, <1>7
<1>8. ASSUME r.chosen # {}
      PROVE  {r.chosen, Hunks(q)} \subseteq {f.subset : f \in {g \in ToSet(done) : Passed(g)}}
    <2>1. 1 \in 1..Len(done)
        BY <1>2
    <2> QED BY <2>1, <1>2, <1>6, <1>7, <1>8
<1> QED BY <1>1, <1>4, <1>8

LEMMA Necessary ==
    ASSUME SearchInv
    PROVE  NecessaryIsSmallest
<1> SUFFICES ASSUME NEW r \in results, r.status = "TESTED_NECESSARY_SUBSET",
                    r.completeness = "EXHAUSTIVE_BOUNDED"
             PROVE  /\ \A f \in ToSet(r.done) : Passed(f) /\ f.subset # r.chosen =>
                           Cardinality(r.chosen) < Cardinality(f.subset)
                    /\ Len(All(r.q)) > 1 => \A h \in 1..Len(All(r.q)) :
                           /\ {h} \in {f.subset : f \in ToSet(r.done)}
                           /\ (1..Len(All(r.q))) \ {h} \in {f.subset : f \in ToSet(r.done)}
    BY DEF NecessaryIsSmallest
<1>1. PICK q, done : q = r.q /\ done = r.done
    OBVIOUS
<1>2. /\ Verdict(q, done).status = "TESTED_NECESSARY_SUBSET"
      /\ Verdict(q, done).completeness = "EXHAUSTIVE_BOUNDED"
      /\ Verdict(q, done).chosen = r.chosen
    BY <1>1 DEF SearchInv, Resulted, Concluded
<1>3. done # <<>>
    BY <1>2 DEF Verdict, Conclusion
<1>4. /\ q \in Requests /\ Tested(q, done) /\ Len(done) \in Nat \ {0}
      /\ done \in Seq(Facts) /\ DOMAIN done = 1..Len(done) /\ done[1].subset = Hunks(q)
      /\ \A i \in 1..Len(done) : IsFact(done[i]) /\ done[i].scope = q.scope
      /\ \A i \in 1..Len(done) : IsFiniteSet(done[i].subset)
    BY <1>1, <1>3, ResultFacts
<1>5. ToSet(done) = {done[i] : i \in 1..Len(done)}
    BY <1>4 DEF ToSet
<1>6. Len(All(q)) \in Nat \ {0} /\ Hunks(q) = 1..Len(All(q)) /\ Cardinality(Hunks(q)) = Len(All(q))
    BY <1>4, PatchFacts
<1>7. CASE ~Reduces(q, done)
    <2>1. Verdict(q, done) = JudgeFull(done) /\ Len(Agenda(q, done)) = 1
        BY <1>3, <1>4, <1>7, AgendaFacts DEF Verdict
    <2>2. 1 \in 1..Len(done) /\ done[1].outcome \in AllOutcomes
        BY <1>4 DEF IsFact
    <2>3. Passed(done[1]) /\ r.chosen = done[1].subset
        BY <2>1, <2>2, <1>2 DEF JudgeFull, Conclusion, AllOutcomes, Passed
    <2>4. ~(Len(All(q)) > 1)
        BY <2>3, <1>3, <1>7 DEF Reduces
    <2>5. \A i \in 1..Len(done) : i = 1
        BY <2>1, <1>4 DEF Tested
    <2> QED BY <2>3, <2>4, <2>5, <1>1, <1>5
<1>8. CASE Reduces(q, done)
    <2>1. PICK b : b = (Len(done) < Len(Agenda(q, done)))
        OBVIOUS
    <2>2. Verdict(q, done) = Judge(done, b) /\ Passed(done[1]) /\ Len(All(q)) > 1
        BY <2>1, <1>3, <1>8 DEF Verdict, Reduces
    <2>3. /\ ~b
          /\ \E i \in 2..Len(done) : Smallest(done) = {i} /\ r.chosen = done[i].subset
        BY <2>2, <1>2, <1>3, <1>4, JudgeChooses
    <2>4. PICK m \in 2..Len(done) : Smallest(done) = {m} /\ r.chosen = done[m].subset
        BY <2>3
    <2>5. /\ Len(Agenda(q, done)) = Len(Plan(q)) + 1 /\ Len(Plan(q)) \in Nat
          /\ \A k \in 1..Len(Plan(q)) : Agenda(q, done)[k + 1] = Plan(q)[k]
          /\ \A k \in 1..Len(Plan(q)) : Plan(q)[k] \in Tries(q)
        BY <1>4, <1>8, AgendaFacts
    <2>6. Len(done) = Len(Plan(q)) + 1
        <3>1. Len(done) <= Len(Agenda(q, done))
            BY <1>4 DEF Tested
        <3>2. ~(Len(done) < Len(Agenda(q, done)))
            BY <2>1, <2>3
        <3>3. Len(done) \in Nat /\ Len(Agenda(q, done)) \in Nat
            BY <2>5, <1>4
        <3> QED BY <3>1, <3>2, <3>3, <2>5
    <2>7. ASSUME NEW k \in 1..Len(Plan(q))
          PROVE  k + 1 \in 1..Len(done) /\ done[k + 1].subset = Subset(Plan(q)[k])
        <3>1. k + 1 \in 1..Len(done)
            BY <2>5, <2>6
        <3> QED BY <3>1, <2>5, <1>4 DEF Tested
    <2>8. ASSUME NEW i \in 1..Len(done), Passed(done[i]), done[i].subset # r.chosen
          PROVE  Cardinality(r.chosen) < Cardinality(done[i].subset)
        <3>1. CASE i = 1
            <4>1. m - 1 \in 1..Len(Plan(q)) /\ (m - 1) + 1 = m
                BY <2>5, <2>6
            <4>2. r.chosen = Subset(Plan(q)[m - 1])
                BY <4>1, <2>4, <2>7
            <4>3. Cardinality(r.chosen) < Len(All(q))
                BY <4>1, <4>2, <2>5 DEF Tries
            <4> QED BY <3>1, <4>3, <1>4, <1>6
        <3>2. CASE i # 1
            <4>1. i \in Passing(done)
                BY <3>2, <2>8, <1>4 DEF Passing
            <4>2. i # m
                BY <2>4, <2>8
            <4>3. PICK j \in Passing(done) :
                      ~(Cardinality(done[i].subset) <= Cardinality(done[j].subset))
                BY <4>1, <4>2, <2>4 DEF Smallest
            <4>4. m \in Passing(done) /\ Cardinality(done[m].subset) <= Cardinality(done[j].subset)
                BY <4>3, <2>4 DEF Smallest
            <4>5. /\ Cardinality(done[i].subset) \in Nat /\ Cardinality(done[j].subset) \in Nat
                  /\ Cardinality(done[m].subset) \in Nat
                BY <4>1, <4>4, <1>4, PassedPlaces
            <4> QED BY <4>3, <4>4, <4>5, <2>4
        <3> QED BY <3>1, <3>2
    <2>9. ASSUME NEW h \in Hunks(q)
          PROVE  /\ {h} \in {f.subset : f \in ToSet(done)}
                 /\ Hunks(q) \ {h} \in {f.subset : f \in ToSet(done)}
        <3>1. /\ \E k \in 1..Len(Plan(q)) : Subset(Plan(q)[k]) = {h}
              /\ \E k \in 1..Len(Plan(q)) : Subset(Plan(q)[k]) = Hunks(q) \ {h}
            BY <2>2, <1>4, PlanTried
        <3> QED BY <3>1, <2>7, <1>5
    <2>10. \A f \in ToSet(done) : Passed(f) /\ f.subset # r.chosen =>
               Cardinality(r.chosen) < Cardinality(f.subset)
        BY <2>8, <1>5
    <2> QED BY <2>9, <2>10, <1>1, <1>6
<1> QED BY <1>7, <1>8

\* Every result has a receipt that its own checks accept, and chose what passed.
THEOREM SearchReceipts == SearchSpec => []ReceiptOfEveryResult
BY SearchInvariant, ResultsHaveReceipts, PTL

\* What an exhaustive search calls necessary is the one smallest that passed.
THEOREM NecessaryIsLeast == SearchSpec => []NecessaryIsSmallest
BY SearchInvariant, Necessary, PTL

\* Asking again, while the cache is kept, gives the same answer to two searches whose
\* facts all were executed with the command asked for.
THEOREM SearchSameResult == SearchSpec => []SameSearchSameResult
<1>1. SearchInv => SameSearchSameResult
    BY DEF SearchInv
<1> QED BY <1>1, SearchInvariant, PTL

=============================================================================
