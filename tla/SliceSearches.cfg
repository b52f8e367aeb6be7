SPECIFICATION SearchSpec
CONSTANTS
    c1 = c1
    c2 = c2
    c3 = c3
    t1 = t1
    t2 = t2
    w1 = w1
    w2 = w2
    pytest = pytest
    tox = tox
    runtime = runtime
    Nothing = Nothing
    Requests <- MCRequests
    Commands = {pytest, tox}
    Outcomes = {"PASS", "FAIL", "ERROR"}
    MaxSearches = 3
    MaxExecutions = 7
    MaxStrays = 1
    MaxRestarts = 1
INVARIANTS
    ReceiptOfEveryResult
    NecessaryIsSmallest
    SameSearchSameResult
CHECK_DEADLOCK FALSE
