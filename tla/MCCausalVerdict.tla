--------------------------- MODULE MCCausalVerdict ---------------------------
EXTENDS CausalVerdict, TLC

CONSTANTS q1, q2, base, patched, builder

MCRequirements == {q1, q2}
MCTrees == {base, patched}

Ended(exit, text) ==
    [status |-> "COMPLETED", exit |-> exit, raised |-> FALSE, text |-> text]

Raised(status, text) ==
    [status |-> status, exit |-> NoExit, raised |-> TRUE, text |-> text]

MCReports ==
    {Ended(0, {}), Ended(0, {"skipped"}), Ended(1, {"fail"}), Raised("TIMED_OUT", {})}

MCSymmetry == Permutations(MCRequirements)
=============================================================================
