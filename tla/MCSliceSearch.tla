--------------------------- MODULE MCSliceSearch ---------------------------
EXTENDS SliceSearch

CONSTANTS c1, c2, c3, t1, t2, w1, w2, pytest, tox, runtime

\* Two candidates with one tree of two hunks, one with a tree of three, and one
\* of a single hunk.
Twin(c) == [id |-> c, tree |-> t1, hunks |-> 2]
Wide == [id |-> c3, tree |-> t2, hunks |-> 3]
Narrow == [id |-> c3, tree |-> c3, hunks |-> 1]

Ask(candidate, witness, prov, max, proposal, caching) ==
    [scope |-> [candidate |-> candidate, witness |-> witness, prov |-> prov,
                runtime |-> IF prov = "LIVE_NEBIUS" THEN runtime ELSE "local"],
     command |-> pytest, base |-> "FAIL", proposal |-> proposal, caching |-> caching,
     budget |-> [iterations |-> max, subsets |-> 9, depth |-> 2, ordering |-> TRUE]]

MCRequests ==
    {Ask(Twin(c1), w1, "LOCAL_EXECUTION", 7, Nothing, TRUE),
     Ask(Twin(c2), w1, "LOCAL_EXECUTION", 2, Nothing, TRUE),
     Ask(Narrow, w2, "LIVE_NEBIUS", 2, <<1>>, FALSE),
     Ask(Wide, w1, "LOCAL_EXECUTION", 8, <<1, 3>>, FALSE),
     [Ask(Twin(c1), w1, "LOCAL_EXECUTION", 2, <<3, 2>>, TRUE) EXCEPT !.command = tox],
     [Ask(Narrow, w1, "LOCAL_EXECUTION", 7, Nothing, FALSE) EXCEPT !.base = "PASS"]}

=============================================================================
