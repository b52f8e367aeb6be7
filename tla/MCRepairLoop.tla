---------------------------- MODULE MCRepairLoop ----------------------------
EXTENDS RepairLoop

CONSTANTS a, p0, t0

\* One candidate to repair, usable or not; the loop only compares names.
MCInitials == [id : {a}, patch : {p0}, tree : {t0}, kind : {"plain", "unusable"}]

\* A bug fix without a counterfactual, with one that fails and with one that
\* passes; any other change, which a passing counterfactual does not refute.
MCChanges == [bugFix : {TRUE}, counterfactual : {None, "FAIL", "PASS"}]
                \cup [bugFix : {FALSE}, counterfactual : {"PASS"}]

=============================================================================
