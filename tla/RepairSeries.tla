---------------------------- MODULE RepairSeries ----------------------------
(***************************************************************************)
(* What the sealed repair loop promises: candidates are judged one after   *)
(* the other, each judgement on a patch and in a sandbox that none before  *)
(* it used; the series goes on only after a failure; and its verdict is    *)
(* positive only by the judgement that passed, which is the last.          *)
(***************************************************************************)
EXTENDS Naturals, Sequences

CONSTANTS Patches, Sandboxes, Outcomes, MaxJudgements

VARIABLES judged, verdict

seriesVars == <<judged, verdict>>

Judgement == [patch : Patches, sandbox : Sandboxes, outcome : Outcomes]

\* A run may be told of sandboxes and of a patch that it must not use again.
Fresh(j) == \A i \in DOMAIN judged : judged[i].patch # j.patch /\ judged[i].sandbox # j.sandbox

VerdictsAfter(outcome) ==
    CASE outcome = "PASS" -> {"verified", "unverified"}
      [] outcome = "FAIL" -> {"open", "unverified"}
      [] OTHER            -> {"unverified"}

Init == judged = <<>> /\ verdict = "open"

Judge(j) ==
    /\ verdict = "open"
    /\ Len(judged) < MaxJudgements
    /\ Fresh(j)
    /\ judged' = Append(judged, j)
    /\ verdict' \in VerdictsAfter(j.outcome)

GiveUp ==
    /\ verdict = "open"
    /\ verdict' = "unverified"
    /\ UNCHANGED judged

Next == (\E j \in Judgement : Judge(j)) \/ GiveUp

Spec == Init /\ [][Next]_seriesVars

=============================================================================
