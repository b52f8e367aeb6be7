-------------------------- MODULE RepairLoop_proofs --------------------------
(***************************************************************************)
(* Proofs, for any names, inputs and budget, that the repair loop repairs  *)
(* on the evidence of the parent's failure, keeps its ceilings, leaves no  *)
(* sandbox, and implements RepairSeries.                                   *)
(***************************************************************************)
EXTENDS RepairLoop, TLAPS

Reproducing == phase \in {"creating", "materializing", "running"}

(* How far the three lists of evidence are at each call.                   *)
Progress ==
    /\ receipt = None <=> phase # "returned"
    /\ origin = facts
    /\ phase = "called" => round = 0 /\ origin = 0
    /\ phase \notin {"called", "returned"} => 1 <= round /\ origin = round - 1
    /\ phase = "called" => Len(feedbacks) = 0 /\ Len(lineages) = 0
    /\ phase = "round" => Len(feedbacks) = round - 1
    /\ phase = "building" \/ Reproducing => Len(feedbacks) = round
    /\ phase \in {"called", "round", "building"} => Len(lineages) = Len(reproductions)
    /\ phase \in {"round", "building"} => Len(lineages) = round - 1
    /\ Reproducing => Len(lineages) = round /\ Len(reproductions) = round - 1
    /\ phase = "returned" =>
         Len(reproductions) <= Len(lineages) /\ Len(lineages) <= Len(feedbacks)

(* What the lists hold, and what the loop has in hand for the next entry.  *)
Evidence ==
    /\ \A k \in 1..Len(feedbacks) : feedbacks[k].origin = k - 1 /\ feedbacks[k].round = k
    /\ \A k \in 1..Len(lineages) :
          /\ lineages[k].feedback = k
          /\ feedbacks[k].candidate = lineages[k].parent.id
    /\ \A k \in 2..Len(lineages) :
          /\ reproductions[k - 1].outcome = "FAIL"
          /\ lineages[k].parent = reproductions[k - 1].candidate
    /\ \A k \in 1..Len(reproductions) : reproductions[k].candidate = lineages[k].repaired
    /\ phase # "returned" => \A k \in 1..Len(reproductions) : reproductions[k].outcome = "FAIL"
    /\ phase \in {"round", "building"} /\ round > 1 =>
          current = reproductions[round - 1].candidate
    /\ phase = "building" => feedbacks[round].candidate = current.id
    /\ Reproducing => made \in Candidate /\ made = lineages[round].repaired

(* A patch or a sandbox in hand was not judged before.                     *)
Freshness ==
    /\ \A k \in 1..Len(reproductions) :
          reproductions[k].candidate.patch \in seen /\ reproductions[k].sandbox \in used
    /\ Reproducing => \A k \in 1..Len(reproductions) : reproductions[k].candidate.patch # made.patch
    /\ Reproducing => made.patch \in seen
    /\ phase \in {"materializing", "running"} => session \in Sandboxes
    /\ phase = "running" => session \notin used

Teardowns ==
    TeardownOnFailure =>
        open \subseteq (IF phase \in {"materializing", "running"} THEN {session} ELSE {})

Ceilings ==
    /\ counters.builder <= MaxBuilder /\ counters.verifier <= MaxVerifier
    /\ counters.sandbox <= MaxSandbox
    /\ Len(lineages) + (IF phase = "building" THEN 1 ELSE 0) <= counters.builder
    /\ Len(reproductions) + (IF Reproducing THEN 1 ELSE 0) <= counters.verifier
    /\ Len(reproductions) + (IF Reproducing THEN 1 ELSE 0) <= counters.sandbox

Invariants == TypeOK /\ Progress /\ Evidence /\ Freshness /\ Teardowns /\ Ceilings
                /\ AuditTrailMatchesRounds

-----------------------------------------------------------------------------
(* The steps by what they do to the evidence: most of those that end the   *)
(* loop leave it alone, others end it with one entry more.                 *)
RoundsReported ==
    \/ phase = "called" /\ receipt'.rounds = 0
    \/ phase = "round" /\ receipt'.rounds = round - 1
    \/ phase = "building" /\ receipt'.rounds \in {round - 1, round}
    \/ Reproducing /\ receipt'.rounds = round

Ends ==
    /\ phase # "returned" /\ phase' = "returned"
    /\ receipt' \in Receipt
    /\ UNCHANGED <<input, round, current, origin, facts>>

QuietEnd ==
    /\ Ends /\ RoundsReported
    /\ receipt'.status # "VERIFIED_AFTER_REPAIR"
    /\ made' \in Candidate \cup {None}
    /\ open' \subseteq open
    /\ TeardownOnFailure /\ phase \in {"materializing", "running"} => open' \subseteq open \ {session}
    /\ UNCHANGED <<seen, used, session, feedbacks, lineages, reproductions, counters>>

FeedbackEnd ==
    /\ Ends /\ DeriveFeedback
    /\ \/ receipt'.status = "raised"
       \/ receipt'.status = "REPAIR_BUDGET_EXHAUSTED" /\ receipt'.rounds = round - 1
    /\ UNCHANGED counters

LineageEnd(c) ==
    /\ Ends /\ RecordLineage(c)
    /\ seen' \in {seen, seen \cup {c.patch}}
    /\ receipt'.status \in Status \ {"VERIFIED_AFTER_REPAIR"}
    /\ receipt'.rounds = round
    /\ UNCHANGED counters

ReproductionEnd(outcome) ==
    /\ Ends /\ Reproduce(outcome)
    /\ receipt'.status = "VERIFIED_AFTER_REPAIR" => outcome = "PASS"
    /\ receipt'.rounds = round
    /\ UNCHANGED counters

(* Each action that returns is one of the ways of ending above.            *)
LEMMA EndingSteps ==
    ASSUME TypeOK, Progress
    PROVE  /\ RefuseFacts \/ ClockExpired \/ RefuseFeedback \/ BuilderFails \/ NoSandbox
                \/ MaterializationFails \/ RefusePriorSandbox \/ DeployFails => QuietEnd
           /\ \A c \in Candidate : RefuseCandidate(c) => QuietEnd
           /\ \A s \in Sandboxes : BuilderSandboxAnswered(s) => QuietEnd
           /\ ContextRaises \/ OutOfBuilderAttempts => FeedbackEnd
           /\ \A c \in Candidate : RefuseRepeatedPatch(c) \/ SnapshotRaises(c) \/ OutOfExecutions(c)
                  => LineageEnd(c)
           /\ PassVerified \/ PassRefuted => ReproductionEnd("PASS")
           /\ NoJudgement => \E o \in Outcomes \ {"PASS", "FAIL"} : ReproductionEnd(o)
           /\ FailedLast => ReproductionEnd("FAIL")
<1> USE BudgetAssumption DEF Ends, Return, Receipt, Status, Verdicts, inputs, place, trail, boxes
<1>0. round - 1 \in Int /\ (phase \notin {"called", "returned"} => round - 1 \in 0..MaxRounds)
  BY DEF TypeOK, Progress
<1>1. RefuseFacts => QuietEnd
  BY <1>0 DEF RefuseFacts, QuietEnd, RoundsReported, Reproducing, TypeOK
<1>2. ClockExpired => QuietEnd
  BY <1>0 DEF ClockExpired, QuietEnd, RoundsReported, Reproducing, TypeOK
<1>3. RefuseFeedback => QuietEnd
  BY <1>0 DEF RefuseFeedback, QuietEnd, RoundsReported, Reproducing, TypeOK
<1>4. BuilderFails => QuietEnd
  BY <1>0 DEF BuilderFails, QuietEnd, RoundsReported, Reproducing, TypeOK
<1>5. NoSandbox => QuietEnd
  BY <1>0 DEF NoSandbox, ReproductionFails, QuietEnd, RoundsReported, Reproducing, TypeOK
<1>6. MaterializationFails => QuietEnd
  BY <1>0 DEF MaterializationFails, ReproductionFails, QuietEnd, RoundsReported, Reproducing, TypeOK
<1>7. RefusePriorSandbox => QuietEnd
  BY <1>0 DEF RefusePriorSandbox, ReproductionFails, QuietEnd, RoundsReported, Reproducing, TypeOK
<1>8. DeployFails => QuietEnd
  BY <1>0 DEF DeployFails, ReproductionFails, QuietEnd, RoundsReported, Reproducing, TypeOK
<1>9. \A c \in Candidate : RefuseCandidate(c) => QuietEnd
  BY <1>0 DEF RefuseCandidate, QuietEnd, RoundsReported, Reproducing, TypeOK
<1>10. \A s \in Sandboxes : BuilderSandboxAnswered(s) => QuietEnd
  BY <1>0 DEF BuilderSandboxAnswered, ReproductionFails, QuietEnd, RoundsReported, Reproducing, TypeOK
<1>11. ContextRaises \/ OutOfBuilderAttempts => FeedbackEnd
  BY <1>0 DEF ContextRaises, OutOfBuilderAttempts, DeriveFeedback, Raise, FeedbackEnd, TypeOK
<1>12. \A c \in Candidate : RefuseRepeatedPatch(c) \/ SnapshotRaises(c) \/ OutOfExecutions(c)
          => LineageEnd(c)
  BY <1>0 DEF RefuseRepeatedPatch, SnapshotRaises, OutOfExecutions, RecordLineage, Raise,
     LineageEnd, TypeOK
<1>13. PassVerified \/ PassRefuted => ReproductionEnd("PASS")
  BY <1>0 DEF PassVerified, PassRefuted, Reproduce, ReproductionEnd, TypeOK
<1>14. NoJudgement => \E o \in Outcomes \ {"PASS", "FAIL"} : ReproductionEnd(o)
  <2>1. ASSUME NEW o \in Outcomes \ {"PASS", "FAIL"}, NoJudgement, Reproduce(o)
        PROVE  ReproductionEnd(o)
    BY <1>0, <2>1 DEF NoJudgement, Reproduce, ReproductionEnd, TypeOK
  <2>2. {"ERROR", "TIMEOUT", "INVALID_PRECONDITION"} \subseteq Outcomes \ {"PASS", "FAIL"}
    BY DEF Outcomes
  <2>3. NoJudgement => \E o \in {"ERROR", "TIMEOUT", "INVALID_PRECONDITION"} : Reproduce(o)
    BY DEF NoJudgement
  <2>4. QED BY <2>1, <2>2, <2>3
<1>15. FailedLast => ReproductionEnd("FAIL")
  BY <1>0 DEF FailedLast, Reproduce, ReproductionEnd, TypeOK
<1>16. QED
  BY <1>1, <1>2, <1>3, <1>4, <1>5, <1>6, <1>7, <1>8, <1>9, <1>10, <1>11, <1>12, <1>13, <1>14, <1>15

(* Every step ends the loop in one of four ways, or moves it on.           *)
LEMMA StepKinds ==
    ASSUME TypeOK, Progress, Next
    PROVE  \/ QuietEnd \/ FeedbackEnd
           \/ \E c \in Candidate : LineageEnd(c) \/ StartReproduction(c)
           \/ \E o \in Outcomes : ReproductionEnd(o)
           \/ StartLoop \/ CallBuilder \/ Materialized \/ FailedAgain
           \/ \E s \in Sandboxes : SandboxAnswered(s)
           \/ UNCHANGED vars
<1>1. {"PASS", "FAIL"} \subseteq Outcomes
  BY DEF Outcomes
<1>2. QED
  BY <1>1, EndingSteps DEF Next, Step, Returned

-----------------------------------------------------------------------------
(* What a step may start from, but for the invariants nothing else needs.  *)
Ready == TypeOK /\ Progress /\ Evidence /\ Freshness

(* What a step assigns has its type: entries of the lists most of all.     *)
LEMMA TypeStep == ASSUME Ready, Next PROVE TypeOK'
<1> USE DEF Ready
<1>1. CASE QuietEnd
  BY <1>1 DEF QuietEnd, Ends, TypeOK
<1>2. CASE FeedbackEnd
  <2>1. [candidate |-> current.id, origin |-> origin, round |-> round] \in Feedback
    BY <1>2 DEF FeedbackEnd, DeriveFeedback, TypeOK, Progress, Feedback, Candidate
  <2>2. QED BY <1>2, <2>1 DEF FeedbackEnd, DeriveFeedback, Ends, place, boxes, TypeOK
<1>3. CASE CallBuilder
  <2>1. [candidate |-> current.id, origin |-> origin, round |-> round] \in Feedback
    BY <1>3 DEF CallBuilder, DeriveFeedback, TypeOK, Progress, Feedback, Candidate
  <2>2. counters' \in Counters
    BY <1>3, SMTT(30) DEF CallBuilder, TypeOK, Counters
  <2>3. QED BY <1>3, <2>1, <2>2 DEF CallBuilder, DeriveFeedback, GoOn, place, boxes, TypeOK
<1>4. ASSUME NEW c \in Candidate, RecordLineage(c) PROVE LineageOf(c) \in Lineage /\ c.patch \in Patches
  BY <1>4 DEF RecordLineage, LineageOf, Lineage, TypeOK, Progress, Candidate
<1>5. ASSUME NEW c \in Candidate, LineageEnd(c) PROVE TypeOK'
  BY <1>4, <1>5 DEF LineageEnd, RecordLineage, Ends, place, boxes, TypeOK
<1>6. ASSUME NEW c \in Candidate, StartReproduction(c) PROVE TypeOK'
  <2>1. counters' \in Counters
    BY <1>6 DEF StartReproduction, TypeOK, Counters
  <2>2. QED BY <1>4, <1>6, <2>1 DEF StartReproduction, RecordLineage, GoOn, place, boxes, TypeOK
<1>7. ASSUME NEW o \in Outcomes, Reproduce(o)
      PROVE  /\ [candidate |-> made, sandbox |-> session, outcome |-> o] \in Reproduction
             /\ reproductions' \in Seq(Reproduction) /\ used' \subseteq Sandboxes
             /\ Len(reproductions') = Len(reproductions) + 1 /\ made \in Candidate
  BY <1>7 DEF Reproduce, Reproduction, Reproducing, TypeOK, Evidence, Freshness
<1>8. ASSUME NEW o \in Outcomes, ReproductionEnd(o) PROVE TypeOK'
  BY <1>7, <1>8 DEF ReproductionEnd, Reproduce, Ends, inputs, place, TypeOK
<1>9. CASE FailedAgain
  <2>1. "FAIL" \in Outcomes
    BY DEF Outcomes
  <2>2. Len(reproductions') = round /\ round' \in 0..MaxRounds
    BY <1>7, <1>9, <2>1, BudgetAssumption DEF FailedAgain, Reproduce, Reproducing, TypeOK, Progress
  <2>3. QED BY <1>7, <1>9, <2>1, <2>2 DEF FailedAgain, Reproduce, GoOn, inputs, TypeOK
<1>10. CASE StartLoop
  BY <1>10, BudgetAssumption DEF StartLoop, GoOn, inputs, boxes, trail, TypeOK
<1>11. CASE Materialized
  BY <1>11 DEF Materialized, GoOn, inputs, place, boxes, trail, TypeOK
<1>12. ASSUME NEW s \in Sandboxes, SandboxAnswered(s) PROVE TypeOK'
  BY <1>12 DEF SandboxAnswered, GoOn, inputs, place, trail, TypeOK
<1>13. CASE UNCHANGED vars
  BY <1>13 DEF vars, TypeOK
<1>14. QED
  BY StepKinds, <1>1, <1>2, <1>3, <1>5, <1>6, <1>8, <1>9, <1>10, <1>11, <1>12, <1>13

(* A step moves the lists on as far as the next call expects them.         *)
LEMMA ProgressStep == ASSUME Ready, Next PROVE Progress'
<1> USE DEF Ready, Reproducing
<1>0. None \notin Receipt
  BY NoneAssumption
<1>1. CASE QuietEnd
  BY <1>0, <1>1 DEF QuietEnd, Ends, TypeOK, Progress
<1>2. CASE FeedbackEnd
  BY <1>0, <1>2 DEF FeedbackEnd, DeriveFeedback, Ends, place, TypeOK, Progress
<1>3. CASE CallBuilder
  BY <1>0, <1>3 DEF CallBuilder, DeriveFeedback, GoOn, place, TypeOK, Progress
<1>4. ASSUME NEW c \in Candidate, LineageEnd(c) PROVE Progress'
  BY <1>0, <1>4 DEF LineageEnd, RecordLineage, Ends, place, TypeOK, Progress
<1>5. ASSUME NEW c \in Candidate, StartReproduction(c) PROVE Progress'
  BY <1>0, <1>5 DEF StartReproduction, RecordLineage, GoOn, place, TypeOK, Progress
<1>6. ASSUME NEW o \in Outcomes, ReproductionEnd(o) PROVE Progress'
  BY <1>0, <1>6 DEF ReproductionEnd, Reproduce, Ends, TypeOK, Progress
<1>7. CASE FailedAgain
  BY <1>0, <1>7 DEF FailedAgain, Reproduce, GoOn, TypeOK, Progress
<1>8. CASE StartLoop
  BY <1>8 DEF StartLoop, GoOn, trail, TypeOK, Progress
<1>9. CASE Materialized
  BY <1>9 DEF Materialized, GoOn, place, trail, TypeOK, Progress
<1>10. ASSUME NEW s \in Sandboxes, SandboxAnswered(s) PROVE Progress'
  BY <1>10 DEF SandboxAnswered, GoOn, place, trail, TypeOK, Progress
<1>11. CASE UNCHANGED vars
  BY <1>11 DEF vars, Progress
<1>12. QED
  BY StepKinds, <1>1, <1>2, <1>3, <1>4, <1>5, <1>6, <1>7, <1>8, <1>9, <1>10, <1>11

(* What appending an element to a sequence gives.                          *)
LEMMA Appended ==
    ASSUME NEW S, NEW q \in Seq(S), NEW e \in S
    PROVE  /\ Append(q, e) \in Seq(S) /\ Len(Append(q, e)) = Len(q) + 1 /\ Len(q) \in Nat
           /\ \A k \in 1..Len(q) : Append(q, e)[k] = q[k]
           /\ Append(q, e)[Len(q) + 1] = e
  OBVIOUS

(* A step adds to a list only what the loop has in hand, which is right.   *)
LEMMA EvidenceStep == ASSUME Ready, Next PROVE Evidence'
<1> USE DEF Ready, Reproducing
<1>1. CASE QuietEnd
  BY <1>1 DEF QuietEnd, Ends, Evidence
<1>2. ASSUME DeriveFeedback
      PROVE  LET e == [candidate |-> current.id, origin |-> origin, round |-> round] IN
             /\ e \in Feedback /\ feedbacks' = Append(feedbacks, e)
             /\ Len(feedbacks') = Len(feedbacks) + 1 /\ Len(feedbacks) = round - 1
             /\ Len(lineages) = round - 1 /\ origin = round - 1
             /\ \A k \in 1..Len(feedbacks) : feedbacks'[k] = feedbacks[k]
             /\ feedbacks'[round] = e
  <2>1. [candidate |-> current.id, origin |-> origin, round |-> round] \in Feedback
    BY <1>2 DEF DeriveFeedback, TypeOK, Progress, Feedback, Candidate
  <2>2. QED BY <1>2, <2>1, Appended DEF DeriveFeedback, TypeOK, Progress
<1>3. ASSUME NEW c \in Candidate, RecordLineage(c)
      PROVE  /\ Len(lineages') = Len(lineages) + 1 /\ Len(lineages) = round - 1
             /\ Len(reproductions) = round - 1 /\ Len(feedbacks) = round
             /\ \A k \in 1..Len(lineages) : lineages'[k] = lineages[k]
             /\ lineages'[round] = [parent |-> current, repaired |-> c, feedback |-> round]
  <2>1. LineageOf(c) \in Lineage
    BY <1>3 DEF RecordLineage, LineageOf, Lineage, TypeOK, Progress, Candidate
  <2>2. QED BY <1>3, <2>1, Appended DEF RecordLineage, LineageOf, TypeOK, Progress
<1>4. ASSUME NEW o \in Outcomes, Reproduce(o)
      PROVE  /\ Len(reproductions') = round /\ Len(reproductions) = round - 1
             /\ Len(lineages) = round /\ Len(feedbacks) = round
             /\ \A k \in 1..Len(reproductions) : reproductions'[k] = reproductions[k]
             /\ reproductions'[round] = [candidate |-> made, sandbox |-> session, outcome |-> o]
             /\ made = lineages[round].repaired
  <2>1. [candidate |-> made, sandbox |-> session, outcome |-> o] \in Reproduction
    BY <1>4 DEF Reproduce, Reproduction, TypeOK, Evidence, Freshness
  <2>2. QED BY <1>4, <2>1, Appended DEF Reproduce, TypeOK, Progress, Evidence
<1>5. CASE FeedbackEnd
  BY <1>2, <1>5 DEF FeedbackEnd, DeriveFeedback, Ends, TypeOK, Progress, Evidence
<1>6. CASE CallBuilder
  BY <1>2, <1>6 DEF CallBuilder, DeriveFeedback, GoOn, place, TypeOK, Progress, Evidence
<1>7. ASSUME NEW c \in Candidate, RecordLineage(c)
      PROVE  /\ \A k \in 1..Len(lineages') :
                   /\ lineages'[k].feedback = k
                   /\ feedbacks[k].candidate = lineages'[k].parent.id
             /\ \A k \in 2..Len(lineages') :
                   /\ reproductions[k - 1].outcome = "FAIL"
                   /\ lineages'[k].parent = reproductions[k - 1].candidate
             /\ \A k \in 1..Len(reproductions) : reproductions[k].candidate = lineages'[k].repaired
             /\ lineages'[round].repaired = c
  <2>1. round \in Nat /\ phase = "building" /\ feedbacks[round].candidate = current.id
    BY <1>7 DEF RecordLineage, TypeOK, Evidence
  <2>2. round > 1 => round - 1 \in 1..Len(reproductions)
    <3>1. Len(reproductions) = round - 1
      BY <2>1 DEF Progress
    <3>2. QED BY <2>1, <3>1
  <2>3. round > 1 => /\ current = reproductions[round - 1].candidate
                     /\ reproductions[round - 1].outcome = "FAIL"
    <3>1. \A k \in 1..Len(reproductions) : reproductions[k].outcome = "FAIL"
      BY <2>1 DEF Evidence
    <3>2. round > 1 => current = reproductions[round - 1].candidate
      BY <2>1 DEF Evidence
    <3>3. QED BY <2>2, <3>1, <3>2
  <2>4. /\ Len(lineages') = round /\ Len(lineages) = round - 1 /\ Len(reproductions) = round - 1
        /\ \A k \in 1..(round - 1) : lineages'[k] = lineages[k]
        /\ lineages'[round] = [parent |-> current, repaired |-> c, feedback |-> round]
    BY <1>3, <1>7, <2>1
  <2>5. ASSUME NEW k \in 1..round
        PROVE  lineages'[k].feedback = k /\ feedbacks[k].candidate = lineages'[k].parent.id
    <3>1. CASE k = round
      BY <2>1, <2>4, <3>1
    <3>2. CASE k \in 1..(round - 1)
      BY <2>4, <3>2 DEF Evidence
    <3>3. QED BY <2>1, <3>1, <3>2
  <2>6. ASSUME NEW k \in 2..round
        PROVE  /\ reproductions[k - 1].outcome = "FAIL"
               /\ lineages'[k].parent = reproductions[k - 1].candidate
    <3>1. CASE k = round
      BY <2>1, <2>3, <2>4, <3>1
    <3>2. CASE k \in 2..(round - 1)
      BY <2>1, <2>4, <3>2 DEF Evidence
    <3>3. QED BY <2>1, <3>1, <3>2
  <2>7. \A k \in 1..(round - 1) : reproductions[k].candidate = lineages'[k].repaired
    BY <2>4 DEF Evidence
  <2>8. QED BY <2>4, <2>5, <2>6, <2>7
<1>8. ASSUME NEW c \in Candidate, LineageEnd(c) \/ StartReproduction(c) PROVE Evidence'
  <2>1. RecordLineage(c) /\ UNCHANGED <<feedbacks, reproductions, current, round>> /\ made' = c
    BY <1>8 DEF LineageEnd, StartReproduction, RecordLineage, place
  <2>2. phase = "building" /\ phase' \in {"returned", "creating"}
    BY <1>8 DEF LineageEnd, StartReproduction, RecordLineage, Ends, GoOn
  <2>3. QED BY <1>7, <2>1, <2>2 DEF Evidence
<1>9. ASSUME NEW o \in Outcomes, ReproductionEnd(o) PROVE Evidence'
  BY <1>4, <1>9 DEF ReproductionEnd, Reproduce, Ends, TypeOK, Progress, Evidence
<1>10. CASE FailedAgain
  <2>1. "FAIL" \in Outcomes
    BY DEF Outcomes
  <2>2. QED BY <1>4, <1>10, <2>1 DEF FailedAgain, Reproduce, GoOn, TypeOK, Progress, Evidence
<1>11. CASE StartLoop
  BY <1>11 DEF StartLoop, GoOn, trail, TypeOK, Progress, Evidence
<1>12. CASE Materialized
  BY <1>12 DEF Materialized, GoOn, place, trail, TypeOK, Evidence
<1>13. ASSUME NEW s \in Sandboxes, SandboxAnswered(s) PROVE Evidence'
  BY <1>13 DEF SandboxAnswered, GoOn, place, trail, TypeOK, Evidence
<1>14. CASE UNCHANGED vars
  BY <1>14 DEF vars, Evidence
<1>15. QED
  BY StepKinds, <1>1, <1>5, <1>6, <1>8, <1>9, <1>10, <1>11, <1>12, <1>13, <1>14

(* A step judges no patch and no sandbox that an earlier one judged.       *)
LEMMA FreshnessStep == ASSUME Ready, Next PROVE Freshness'
<1> USE DEF Ready, Reproducing
<1>1. CASE QuietEnd
  BY <1>1 DEF QuietEnd, Ends, Freshness
<1>2. CASE FeedbackEnd
  BY <1>2 DEF FeedbackEnd, DeriveFeedback, Ends, boxes, Freshness
<1>3. CASE CallBuilder
  BY <1>3 DEF CallBuilder, DeriveFeedback, GoOn, boxes, Freshness
<1>4. ASSUME NEW c \in Candidate, LineageEnd(c) PROVE Freshness'
  BY <1>4 DEF LineageEnd, RecordLineage, Ends, boxes, Freshness
<1>5. ASSUME NEW c \in Candidate, StartReproduction(c) PROVE Freshness'
  BY <1>5 DEF StartReproduction, RecordLineage, GoOn, boxes, Freshness
<1>6. ASSUME NEW o \in Outcomes, Reproduce(o), phase' \in {"round", "returned"} PROVE Freshness'
  <2>1. [candidate |-> made, sandbox |-> session, outcome |-> o] \in Reproduction
    BY <1>6 DEF Reproduce, Reproduction, TypeOK, Evidence, Freshness
  <2>2. /\ Len(reproductions') = Len(reproductions) + 1
        /\ \A k \in 1..Len(reproductions) : reproductions'[k] = reproductions[k]
        /\ reproductions'[Len(reproductions) + 1].candidate = made
        /\ reproductions'[Len(reproductions) + 1].sandbox = session
    BY <1>6, <2>1, Appended DEF Reproduce, TypeOK
  <2>3. made.patch \in seen /\ seen' = seen /\ used' = used \cup {session} /\ Len(reproductions) \in Nat
    BY <1>6 DEF Reproduce, TypeOK, Freshness
  <2>4. ASSUME NEW k \in 1..(Len(reproductions) + 1)
        PROVE  reproductions'[k].candidate.patch \in seen' /\ reproductions'[k].sandbox \in used'
    <3>1. CASE k = Len(reproductions) + 1
      BY <2>2, <2>3, <3>1
    <3>2. CASE k \in 1..Len(reproductions)
      BY <2>2, <2>3, <3>2 DEF Freshness
    <3>3. QED BY <2>3, <3>1, <3>2
  <2>5. QED BY <1>6, <2>2, <2>4 DEF Freshness
<1>7. ASSUME NEW o \in Outcomes, ReproductionEnd(o) PROVE Freshness'
  BY <1>6, <1>7 DEF ReproductionEnd, Ends
<1>8. CASE FailedAgain
  BY <1>6, <1>8 DEF FailedAgain, GoOn, Outcomes
<1>9. CASE StartLoop
  BY <1>9 DEF StartLoop, GoOn, boxes, trail, Freshness
<1>10. CASE Materialized
  BY <1>10 DEF Materialized, GoOn, boxes, trail, Freshness
<1>11. ASSUME NEW s \in Sandboxes, SandboxAnswered(s) PROVE Freshness'
  BY <1>11 DEF SandboxAnswered, GoOn, trail, Freshness
<1>12. CASE UNCHANGED vars
  BY <1>12 DEF vars, Freshness
<1>13. QED
  BY StepKinds, <1>1, <1>2, <1>3, <1>4, <1>5, <1>7, <1>8, <1>9, <1>10, <1>11, <1>12

(* A step leaves at most the sandbox of the reproduction under way open.   *)
LEMMA TeardownsStep == ASSUME Ready, Teardowns, Next PROVE Teardowns'
<1> USE DEF Ready, Reproducing
<1>1. CASE QuietEnd
  BY <1>1 DEF QuietEnd, Ends, Teardowns
<1>2. CASE FeedbackEnd
  BY <1>2 DEF FeedbackEnd, DeriveFeedback, Ends, boxes, Teardowns
<1>3. CASE CallBuilder
  BY <1>3 DEF CallBuilder, DeriveFeedback, GoOn, boxes, Teardowns
<1>4. ASSUME NEW c \in Candidate, LineageEnd(c) \/ StartReproduction(c) PROVE Teardowns'
  BY <1>4 DEF LineageEnd, StartReproduction, RecordLineage, Ends, GoOn, boxes, Teardowns
<1>5. ASSUME NEW o \in Outcomes, ReproductionEnd(o) PROVE Teardowns'
  BY <1>5 DEF ReproductionEnd, Reproduce, Ends, Teardowns
<1>6. CASE FailedAgain
  BY <1>6 DEF FailedAgain, Reproduce, GoOn, Teardowns
<1>7. CASE StartLoop
  BY <1>7 DEF StartLoop, GoOn, boxes, Teardowns
<1>8. CASE Materialized
  BY <1>8 DEF Materialized, GoOn, boxes, Teardowns
<1>9. ASSUME NEW s \in Sandboxes, SandboxAnswered(s) PROVE Teardowns'
  BY <1>9 DEF SandboxAnswered, GoOn, Teardowns
<1>10. CASE UNCHANGED vars
  BY <1>10 DEF vars, Teardowns
<1>11. QED
  BY StepKinds, <1>1, <1>2, <1>3, <1>4, <1>5, <1>6, <1>7, <1>8, <1>9, <1>10

(* A step that makes a call has counted it, below its ceiling.             *)
LEMMA CeilingsStep == ASSUME Ready, Ceilings, Next PROVE Ceilings'
<1> USE BudgetAssumption DEF Ready, Reproducing
<1>0. counters.builder \in Nat /\ counters.verifier \in Nat /\ counters.sandbox \in Nat
  BY DEF TypeOK, Counters
<1>1. CASE QuietEnd
  BY <1>0, <1>1, SMTT(30) DEF QuietEnd, Ends, TypeOK, Ceilings
<1>2. CASE FeedbackEnd
  BY <1>0, <1>2 DEF FeedbackEnd, DeriveFeedback, Ends, TypeOK, Ceilings
<1>3. CASE CallBuilder
  <2>1. /\ counters'.builder = counters.builder + 1
        /\ counters'.verifier = counters.verifier /\ counters'.sandbox = counters.sandbox
    BY <1>3 DEF CallBuilder, TypeOK, Counters
  <2>2. QED BY <1>0, <1>3, <2>1 DEF CallBuilder, DeriveFeedback, GoOn, TypeOK, Ceilings
<1>4. ASSUME NEW c \in Candidate, RecordLineage(c) PROVE Len(lineages') = Len(lineages) + 1
  BY <1>4 DEF RecordLineage, TypeOK
<1>5. ASSUME NEW c \in Candidate, LineageEnd(c) PROVE Ceilings'
  BY <1>0, <1>4, <1>5 DEF LineageEnd, RecordLineage, Ends, TypeOK, Ceilings
<1>6. ASSUME NEW c \in Candidate, StartReproduction(c) PROVE Ceilings'
  <2>1. /\ counters'.builder = counters.builder
        /\ counters'.verifier = counters.verifier + 1 /\ counters'.sandbox = counters.sandbox + 1
        /\ counters.verifier < MaxVerifier /\ counters.sandbox < MaxSandbox
    BY <1>6 DEF StartReproduction, HasExecutions
  <2>2. /\ Len(lineages') = Len(lineages) + 1 /\ reproductions' = reproductions
        /\ phase = "building" /\ phase' = "creating"
    BY <1>4, <1>6 DEF StartReproduction, RecordLineage, GoOn
  <2>3. Len(lineages) \in Nat /\ Len(reproductions) \in Nat
    BY DEF TypeOK
  <2>4. QED BY <1>0, <2>1, <2>2, <2>3, SMTT(30) DEF Ceilings
<1>7. ASSUME NEW o \in Outcomes, Reproduce(o) PROVE Len(reproductions') = Len(reproductions) + 1
  BY <1>7 DEF Reproduce, TypeOK
<1>8. ASSUME NEW o \in Outcomes, ReproductionEnd(o) PROVE Ceilings'
  BY <1>0, <1>7, <1>8 DEF ReproductionEnd, Reproduce, Ends, TypeOK, Ceilings
<1>9. CASE FailedAgain
  <2>1. "FAIL" \in Outcomes
    BY DEF Outcomes
  <2>2. QED BY <1>0, <1>7, <1>9, <2>1 DEF FailedAgain, Reproduce, inputs, GoOn, TypeOK, Ceilings
<1>10. CASE StartLoop
  BY <1>0, <1>10 DEF StartLoop, GoOn, inputs, trail, TypeOK, Ceilings
<1>11. CASE Materialized
  BY <1>0, <1>11 DEF Materialized, GoOn, inputs, trail, TypeOK, Ceilings
<1>12. ASSUME NEW s \in Sandboxes, SandboxAnswered(s) PROVE Ceilings'
  BY <1>0, <1>12 DEF SandboxAnswered, GoOn, inputs, trail, TypeOK, Ceilings
<1>13. CASE UNCHANGED vars
  BY <1>13 DEF vars, Ceilings
<1>14. QED
  BY StepKinds, <1>1, <1>2, <1>3, <1>5, <1>6, <1>8, <1>9, <1>10, <1>11, <1>12, <1>13

(* A step that returns reports the rounds that its lists show.             *)
LEMMA TrailStep == ASSUME Ready, AuditTrailMatchesRounds, Next PROVE AuditTrailMatchesRounds'
<1> USE DEF Ready, Reproducing
<1>1. CASE QuietEnd
  <2>1. Len(lineages) \in Nat /\ Len(reproductions) \in Nat /\ Len(feedbacks) \in Nat
    BY DEF TypeOK
  <2>2. QED
    BY <1>1, <2>1 DEF QuietEnd, RoundsReported, Ends, TypeOK, Progress, AuditTrailMatchesRounds
<1>2. CASE FeedbackEnd
  <2>1. Len(feedbacks') = Len(feedbacks) + 1
    BY <1>2 DEF FeedbackEnd, DeriveFeedback, TypeOK
  <2>2. QED
    BY <1>2, <2>1 DEF FeedbackEnd, DeriveFeedback, Ends, TypeOK, Progress, AuditTrailMatchesRounds
<1>3. ASSUME NEW c \in Candidate, LineageEnd(c) PROVE AuditTrailMatchesRounds'
  <2>1. Len(lineages') = Len(lineages) + 1
    BY <1>3 DEF LineageEnd, RecordLineage, TypeOK
  <2>2. QED
    BY <1>3, <2>1 DEF LineageEnd, RecordLineage, Ends, TypeOK, Progress, AuditTrailMatchesRounds
<1>4. ASSUME NEW o \in Outcomes, ReproductionEnd(o) PROVE AuditTrailMatchesRounds'
  <2>1. [candidate |-> made, sandbox |-> session, outcome |-> o] \in Reproduction
    BY <1>4 DEF ReproductionEnd, Reproduce, Reproduction, TypeOK, Evidence, Freshness
  <2>2. /\ Len(reproductions') = round /\ Len(reproductions) = round - 1
        /\ \A k \in 1..Len(reproductions) : reproductions'[k] = reproductions[k]
        /\ reproductions'[round].candidate = made /\ reproductions'[round].outcome = o
    BY <1>4, <2>1, Appended DEF ReproductionEnd, Reproduce, TypeOK, Progress
  <2>3. \A k \in 1..Len(reproductions) : reproductions[k].outcome = "FAIL"
    BY <1>4 DEF ReproductionEnd, Ends, Evidence
  <2>4. /\ receipt'.rounds = round /\ Len(feedbacks') = round /\ Len(lineages') = round
        /\ made' = made /\ round \in 1..MaxRounds
        /\ receipt'.status = "VERIFIED_AFTER_REPAIR" => o = "PASS"
    BY <1>4 DEF ReproductionEnd, Reproduce, TypeOK, Progress
  <2>5. receipt'.status = "VERIFIED_AFTER_REPAIR" =>
            \A k \in 1..round : reproductions'[k].outcome = "PASS" <=> k = round
    BY <2>2, <2>3, <2>4
  <2>6. QED BY <2>2, <2>4, <2>5 DEF AuditTrailMatchesRounds
<1>5. CASE StartLoop \/ CallBuilder \/ Materialized \/ FailedAgain
  BY <1>5 DEF StartLoop, CallBuilder, DeriveFeedback, Materialized, FailedAgain, Reproduce, GoOn,
     Progress, AuditTrailMatchesRounds
<1>6. ASSUME NEW s \in Sandboxes, SandboxAnswered(s) PROVE AuditTrailMatchesRounds'
  BY <1>6 DEF SandboxAnswered, GoOn, Progress, AuditTrailMatchesRounds
<1>7. ASSUME NEW c \in Candidate, StartReproduction(c) PROVE AuditTrailMatchesRounds'
  BY <1>7 DEF StartReproduction, RecordLineage, GoOn, Progress, AuditTrailMatchesRounds
<1>8. CASE UNCHANGED vars
  BY <1>8 DEF vars, AuditTrailMatchesRounds
<1>9. QED
  BY StepKinds, <1>1, <1>2, <1>3, <1>4, <1>5, <1>6, <1>7, <1>8

-----------------------------------------------------------------------------
(* The invariants hold before the loop starts.                             *)
LEMMA Initially == Init => Invariants
<1> SUFFICES ASSUME Init PROVE Invariants
  OBVIOUS
<1>1. None \notin Receipt
  BY NoneAssumption
<1>2. TypeOK
  <2>1. current \in Candidate /\ current.patch \in Patches
    BY InitialsAssumption DEF Init, Candidate
  <2>2. counters \in Counters
    BY SpentAssumption DEF Init, Counters
  <2>3. used \subseteq Sandboxes
    BY SandboxesAssumption DEF Init
  <2>4. QED BY <2>1, <2>2, <2>3, BudgetAssumption DEF Init, TypeOK
<1>3. Progress
  BY DEF Init, Progress, Reproducing
<1>4. Evidence
  BY DEF Init, Evidence, Reproducing
<1>5. Freshness
  BY DEF Init, Freshness, Reproducing
<1>6. Teardowns
  BY DEF Init, Teardowns
<1>7. Ceilings
  <2>1. counters.builder \in Spent /\ counters.verifier \in Spent /\ counters.sandbox \in Spent
    BY DEF Init
  <2>2. counters.builder \in Nat /\ counters.verifier \in Nat /\ counters.sandbox \in Nat
    BY <2>1, SpentAssumption
  <2>3. /\ counters.builder <= MaxBuilder /\ counters.verifier <= MaxVerifier
        /\ counters.sandbox <= MaxSandbox
    BY <2>1, SpentAssumption
  <2>4. QED BY <2>2, <2>3 DEF Init, Ceilings, Reproducing
<1>8. AuditTrailMatchesRounds
  BY DEF Init, AuditTrailMatchesRounds
<1>9. QED BY <1>2, <1>3, <1>4, <1>5, <1>6, <1>7, <1>8 DEF Invariants

(* The inductive invariant: the lists are as long as the round says, hold   *)
(* what the loop had in hand, and everything it has in hand is new.        *)
THEOREM RepairInvariant == Spec => []Invariants
<1>1. Init => Invariants
  BY Initially
<1>2. Invariants /\ [Next]_vars => Invariants'
  <2> SUFFICES ASSUME Invariants, [Next]_vars PROVE Invariants'
    OBVIOUS
  <2>1. CASE Next
    BY <2>1, TypeStep, ProgressStep, EvidenceStep, FreshnessStep, TeardownsStep, CeilingsStep,
       TrailStep DEF Invariants, Ready
  <2>2. CASE UNCHANGED vars
    BY <2>2, SMTT(30) DEF vars, Invariants, TypeOK, Progress, Evidence, Freshness, Teardowns, Ceilings,
       AuditTrailMatchesRounds, Reproducing
  <2>3. QED BY <2>1, <2>2
<1>3. QED BY <1>1, <1>2, PTL DEF Spec

(* Whatever the callees answer, every variable keeps its type.             *)
THEOREM TypesHold == Spec => []TypeOK
<1>1. Invariants => TypeOK
  BY DEF Invariants
<1>2. QED BY <1>1, RepairInvariant, PTL

(* A candidate is repaired on the evidence of its own failed execution.    *)
THEOREM RepairsOnParentEvidence == Spec => []FeedbackOfParentFailure
<1>1. Invariants => FeedbackOfParentFailure
  <2> SUFFICES ASSUME Invariants PROVE FeedbackOfParentFailure
    OBVIOUS
  <2>1. /\ DOMAIN feedbacks = 1..Len(feedbacks) /\ DOMAIN lineages = 1..Len(lineages)
        /\ Len(feedbacks) \in Nat /\ Len(lineages) \in Nat /\ Len(reproductions) \in Nat
    BY DEF Invariants, TypeOK
  <2>2. Len(lineages) <= Len(reproductions) + 1
    <3>1. CASE phase = "returned"
      BY <3>1 DEF Invariants, Progress, AuditTrailMatchesRounds
    <3>2. CASE phase \in {"called", "round", "building"}
      BY <2>1, <3>2 DEF Invariants, Progress
    <3>3. CASE Reproducing
      BY <2>1, <3>3 DEF Invariants, TypeOK, Progress
    <3>4. QED BY <3>1, <3>2, <3>3 DEF Invariants, TypeOK, Reproducing
  <2>3. ASSUME NEW k \in 1..Len(lineages), k > 1
        PROVE  /\ reproductions[k - 1].outcome = "FAIL"
               /\ lineages[k].parent = reproductions[k - 1].candidate
               /\ lineages[k - 1].repaired = lineages[k].parent
    <3>1. k \in 2..Len(lineages) /\ k - 1 \in 1..Len(reproductions)
      BY <2>1, <2>2, <2>3
    <3>2. QED BY <3>1 DEF Invariants, Evidence
  <2>4. QED BY <2>1, <2>3 DEF Invariants, Evidence, FeedbackOfParentFailure
<1>2. QED BY <1>1, RepairInvariant, PTL

(* A receipt reports the rounds its evidence shows, and a verified one     *)
(* ends with the only reproduction that passed, of the candidate it names. *)
THEOREM ReceiptsMatchTheirTrail == Spec => []AuditTrailMatchesRounds
<1>1. Invariants => AuditTrailMatchesRounds
  BY DEF Invariants
<1>2. QED BY <1>1, RepairInvariant, PTL

(* No failure of a callee leaves a sandbox behind.                         *)
THEOREM SandboxesAreTornDown == Spec => []NoSandboxLeft
<1>1. Invariants => NoSandboxLeft
  BY DEF Invariants, Teardowns, NoSandboxLeft
<1>2. QED BY <1>1, RepairInvariant, PTL

(* No ceiling of the budget is exceeded, whatever was used before.         *)
THEOREM BudgetIsKept == Spec => []CeilingsHold
<1>1. Invariants => CeilingsHold
  <2> SUFFICES ASSUME Invariants PROVE CeilingsHold
    OBVIOUS
  <2>1. /\ Len(lineages) \in Nat /\ Len(reproductions) \in Nat
        /\ counters.builder \in Nat /\ counters.verifier \in Nat /\ counters.sandbox \in Nat
    BY DEF Invariants, TypeOK, Counters
  <2>2. QED BY <2>1 DEF Invariants, Ceilings, CeilingsHold
<1>2. QED BY <1>1, RepairInvariant, PTL

-----------------------------------------------------------------------------
(* The refinement.  What RepairSeries sees of the loop:                    *)
Entry(r) == [patch |-> r.candidate.patch, sandbox |-> r.sandbox, outcome |-> r.outcome]
Judged(q) == [k \in DOMAIN q |-> Entry(q[k])]
Verdict == IF receipt = None THEN "open"
           ELSE IF receipt.status = "VERIFIED_AFTER_REPAIR" THEN "verified" ELSE "unverified"

(* One reproduction more is one judgement more.                            *)
LEMMA JudgedAppended ==
    ASSUME NEW q \in Seq(Reproduction), NEW e \in Reproduction
    PROVE  /\ Judged(Append(q, e)) = Append(Judged(q), Entry(e))
           /\ Len(Judged(q)) = Len(q) /\ DOMAIN Judged(q) = 1..Len(q)
           /\ Entry(e) \in Series!Judgement
<1> DEFINE J == [patch : Patches, sandbox : Sandboxes, outcome : Outcomes]
<1>1. \A r \in Reproduction : Entry(r) \in J
  BY DEF Entry, Reproduction, Candidate
<1>2. DOMAIN q = 1..Len(q) /\ Len(q) \in Nat /\ \A k \in 1..Len(q) : q[k] \in Reproduction
  OBVIOUS
<1>3. Judged(q) \in Seq(J) /\ Len(Judged(q)) = Len(q) /\ DOMAIN Judged(q) = 1..Len(q)
  <2>1. Judged(q) = [k \in 1..Len(q) |-> Entry(q[k])]
    BY <1>2 DEF Judged
  <2>2. \A k \in 1..Len(q) : Entry(q[k]) \in J
    BY <1>1, <1>2
  <2> HIDE DEF J
  <2>3. QED BY <1>2, <2>1, <2>2
<1>4. /\ Append(q, e) \in Seq(Reproduction) /\ Len(Append(q, e)) = Len(q) + 1
      /\ DOMAIN Append(q, e) = 1..(Len(q) + 1)
      /\ \A k \in 1..Len(q) : Append(q, e)[k] = q[k]
      /\ Append(q, e)[Len(q) + 1] = e
  BY <1>2
<1>5. Entry(e) \in J
  BY <1>1
<1>6. /\ DOMAIN Append(Judged(q), Entry(e)) = 1..(Len(q) + 1)
      /\ \A k \in 1..Len(q) : Append(Judged(q), Entry(e))[k] = Entry(q[k])
      /\ Append(Judged(q), Entry(e))[Len(q) + 1] = Entry(e)
      /\ Append(Judged(q), Entry(e)) \in Seq(J)
  <2> HIDE DEF J
  <2>1. /\ Append(Judged(q), Entry(e)) \in Seq(J)
        /\ Len(Append(Judged(q), Entry(e))) = Len(q) + 1
        /\ \A k \in 1..Len(q) : Append(Judged(q), Entry(e))[k] = Judged(q)[k]
        /\ Append(Judged(q), Entry(e))[Len(q) + 1] = Entry(e)
    BY <1>3, <1>5, Appended
  <2>2. \A k \in 1..Len(q) : Judged(q)[k] = Entry(q[k])
    BY <1>2 DEF Judged
  <2>3. QED BY <1>3, <2>1, <2>2
<1>7. Judged(Append(q, e)) = Append(Judged(q), Entry(e))
  <2>1. Judged(Append(q, e)) = [k \in 1..(Len(q) + 1) |-> Entry(Append(q, e)[k])]
    BY <1>4 DEF Judged
  <2>2. \A k \in 1..(Len(q) + 1) : Entry(Append(q, e)[k]) = Append(Judged(q), Entry(e))[k]
    <3> TAKE k \in 1..(Len(q) + 1)
    <3>1. CASE k = Len(q) + 1
      BY <1>4, <1>6, <3>1
    <3>2. CASE k \in 1..Len(q)
      BY <1>4, <1>6, <3>2
    <3>3. k = Len(q) + 1 \/ k \in 1..Len(q)
      BY <1>2
    <3>4. QED BY <3>1, <3>2, <3>3
  <2>3. Append(Judged(q), Entry(e)) =
            [k \in 1..(Len(q) + 1) |-> Append(Judged(q), Entry(e))[k]]
    <3> DEFINE s == Append(Judged(q), Entry(e))
    <3>1. s \in Seq(J) /\ DOMAIN s = 1..(Len(q) + 1)
      BY <1>6
    <3> HIDE DEF s, J
    <3>2. s = [k \in DOMAIN s |-> s[k]]
      BY <3>1
    <3>3. QED BY <3>1, <3>2 DEF s
  <2>4. QED BY <2>1, <2>2, <2>3
<1>8. QED BY <1>3, <1>5, <1>7 DEF Series!Judgement

(* A reproduction that was recorded is a judgement the series allows.      *)
LEMMA ReproductionIsJudgement ==
    ASSUME Invariants, NEW o \in Outcomes, Reproduce(o), Verdict' \in Series!VerdictsAfter(o)
    PROVE  Series!Next
<1> DEFINE e == [candidate |-> made, sandbox |-> session, outcome |-> o]
<1>1. e \in Reproduction /\ phase = "running" /\ receipt = None
  BY DEF Reproduce, Reproduction, Invariants, TypeOK, Progress, Evidence, Freshness, Reproducing
<1>2. reproductions \in Seq(Reproduction) /\ reproductions' = Append(reproductions, e)
  BY DEF Invariants, TypeOK, Reproduce
<1>3. /\ Judged(reproductions)' = Append(Judged(reproductions), Entry(e))
      /\ Len(Judged(reproductions)) = Len(reproductions)
      /\ DOMAIN Judged(reproductions) = 1..Len(reproductions)
      /\ Entry(e) \in Series!Judgement
  BY <1>1, <1>2, JudgedAppended DEF Judged
<1>4. Len(reproductions) < MaxRounds
  BY <1>1, BudgetAssumption DEF Invariants, TypeOK, Progress, Reproducing
<1>5. \A k \in 1..Len(reproductions) :
          /\ Judged(reproductions)[k].patch # Entry(e).patch
          /\ Judged(reproductions)[k].sandbox # Entry(e).sandbox
  <2> TAKE k \in 1..Len(reproductions)
  <2>1. Judged(reproductions)[k] = Entry(reproductions[k])
    BY <1>2 DEF Judged
  <2>2. /\ reproductions[k].candidate.patch # made.patch
        /\ reproductions[k].sandbox \in used /\ session \notin used
    BY <1>1 DEF Invariants, Freshness, Reproducing
  <2>3. QED BY <2>1, <2>2 DEF Entry
<1>6. Verdict = "open"
  BY <1>1 DEF Verdict
<1>7. Entry(e).outcome = o
  BY DEF Entry
<1>8. Series!Judge(Entry(e))
  BY <1>3, <1>4, <1>5, <1>6, <1>7 DEF Series!Judge, Series!Fresh, Judged, Entry, Verdict
<1>9. QED BY <1>3, <1>8 DEF Series!Next, Series!Judge

(* The loop implements the series: candidates are judged on patches and in *)
(* sandboxes of their own, and only the judgement that passed and was the  *)
(* last gives a positive verdict.                                          *)
THEOREM LoopImplementsSeries == Spec => ImplementsSeries
<1>1. Init => Series!Init
  BY DEF Init, Series!Init
<1>2. Invariants /\ [Next]_vars => [Series!Next]_(Series!seriesVars)
  <2> SUFFICES ASSUME Invariants, [Next]_vars, ~UNCHANGED Series!seriesVars PROVE Series!Next
    OBVIOUS
  <2>0. None \notin Receipt
    BY NoneAssumption
  <2>1. ASSUME UNCHANGED <<reproductions, receipt>> PROVE FALSE
    BY <2>1 DEF Series!seriesVars
  <2>2. CASE Ends /\ UNCHANGED reproductions /\ receipt'.status # "VERIFIED_AFTER_REPAIR"
    <3>1. receipt = None /\ receipt' # None
      BY <2>0, <2>2 DEF Ends, Invariants, Progress
    <3>2. QED BY <2>2, <3>1 DEF Series!Next, Series!GiveUp
  <2>3. CASE QuietEnd
    BY <2>2, <2>3 DEF QuietEnd
  <2>4. CASE FeedbackEnd
    BY <2>2, <2>4 DEF FeedbackEnd, DeriveFeedback
  <2>5. ASSUME NEW c \in Candidate, LineageEnd(c) PROVE Series!Next
    BY <2>2, <2>5 DEF LineageEnd, RecordLineage
  <2>6. ASSUME NEW o \in Outcomes, ReproductionEnd(o) PROVE Series!Next
    <3>1. receipt' # None /\ (receipt'.status = "VERIFIED_AFTER_REPAIR" => o = "PASS")
      BY <2>0, <2>6 DEF ReproductionEnd, Ends
    <3>2. Verdict' \in Series!VerdictsAfter(o)
      BY <3>1 DEF Verdict, Series!VerdictsAfter
    <3>3. QED BY <2>6, <3>2, ReproductionIsJudgement DEF ReproductionEnd
  <2>7. CASE FailedAgain
    <3>1. "FAIL" \in Outcomes
      BY DEF Outcomes
    <3>2. Reproduce("FAIL") /\ receipt' = receipt /\ receipt = None
      BY <2>7 DEF FailedAgain, Reproduce, GoOn, Invariants, Progress
    <3>3. Verdict' \in Series!VerdictsAfter("FAIL")
      BY <3>2 DEF Verdict, Series!VerdictsAfter
    <3>4. QED BY <3>1, <3>2, <3>3, ReproductionIsJudgement
  <2>8. CASE StartLoop \/ CallBuilder \/ Materialized
    BY <2>1, <2>8 DEF StartLoop, CallBuilder, DeriveFeedback, Materialized, GoOn, trail
  <2>9. ASSUME NEW c \in Candidate, StartReproduction(c) PROVE Series!Next
    BY <2>1, <2>9 DEF StartReproduction, RecordLineage, GoOn
  <2>10. ASSUME NEW s \in Sandboxes, SandboxAnswered(s) PROVE Series!Next
    BY <2>1, <2>10 DEF SandboxAnswered, GoOn, trail
  <2>11. CASE UNCHANGED vars
    BY <2>1, <2>11 DEF vars
  <2>12. CASE Next
    BY <2>3, <2>4, <2>5, <2>6, <2>7, <2>8, <2>9, <2>10, <2>11, <2>12, StepKinds DEF Invariants
  <2>13. QED BY <2>11, <2>12
<1>3. QED BY <1>1, <1>2, RepairInvariant, PTL DEF Spec, ImplementsSeries, Series!Spec

=============================================================================
