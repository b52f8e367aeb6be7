---------------------------- MODULE SliceSearch ----------------------------
(***************************************************************************)
(* The search for a minimal causal slice (causal/minimizer.py, cache.py,   *)
(* slice.py): a candidate's patch is cut into hunks, and subsets of them   *)
(* are executed under the sealed witness, in a fixed order and within a    *)
(* budget, to find one that is still sufficient.                           *)
(*                                                                         *)
(* Searches follow one another and may share a cache of executed facts.    *)
(* An execution may come out differently each time: witnesses are commands *)
(* in a sandbox, not functions.  A hunk is its place in the patch; a       *)
(* subset of the patch is the set of its hunks.                            *)
(***************************************************************************)
EXTENDS Integers, Sequences, FiniteSets, SequencesExt

CONSTANTS
    Requests,      \* the searches callers ask for
    Outcomes,      \* what an execution may come to, a subset of AllOutcomes
    Commands,      \* the witness commands a fact may say it was executed with
    MaxSearches,   \* bound: searches begun
    MaxExecutions, \* bound: executions, of all searches
    MaxStrays,     \* bound: executions of a command nobody asked for
    MaxRestarts,   \* bound: restarts of the process
    Nothing

AllOutcomes == {"PASS", "FAIL", "ERROR", "TIMEOUT", "INVALID_PRECONDITION"}

Provenances == {"LOCAL_EXECUTION", "LIVE_NEBIUS", "RECORDED_LIVE", "FIXTURE"}

\* The runtime configuration `local' stands for no runtime at all.
IsScope(sc) ==
    /\ sc.candidate.hunks \in Nat
    /\ sc.prov \in Provenances
    /\ sc.prov = "LIVE_NEBIUS" => sc.runtime # "local"

IsBudget(b) ==
    /\ {b.iterations, b.subsets, b.depth} \subseteq Nat \ {0}
    /\ b.ordering \in BOOLEAN

\* A candidate has an identity, a tree and a number of hunks; the model may
\* have proposed some hunks, in any order and more than once.
IsRequest(q) ==
    /\ IsScope(q.scope) /\ IsBudget(q.budget) /\ q.command \in Commands
    /\ q.base \in AllOutcomes /\ q.caching \in BOOLEAN
    /\ q.proposal = Nothing \/ q.proposal \in Seq(Nat)

ASSUME OutcomesAssumption == Outcomes \subseteq AllOutcomes
ASSUME RequestsAssumption ==
    /\ \A q \in Requests : IsRequest(q) /\ q.scope.candidate.hunks > 0
    /\ \A p, q \in Requests : p.scope.candidate.tree = q.scope.candidate.tree =>
           p.scope.candidate.hunks = q.scope.candidate.hunks
ASSUME SearchBounds == {MaxSearches, MaxExecutions, MaxStrays, MaxRestarts} \subseteq Nat

VARIABLES
    cache,       \* facts kept for later searches, no two with one key
    search,      \* the search in progress, or Nothing
    results,     \* what searches returned
    searches, executions, strays, restarts

searchVars == <<cache, search, results, searches, executions, strays, restarts>>

-----------------------------------------------------------------------------
(* The subsets of a patch that a search tries, as sequences of hunks. *)

Hunks(q) == 1..q.scope.candidate.hunks

\* The elements of a sequence at some of its places, in their order.
Kept(s, places) ==
    [k \in 1..Cardinality(places) |->
        s[CHOOSE i \in places : Cardinality({j \in places : j <= i}) = k]]

All(q) == [i \in Hunks(q) |-> i]

Omissions(q) ==
    [i \in Hunks(q) |-> [j \in 1..(Len(All(q)) - 1) |-> IF j < i THEN j ELSE j + 1]]

Singles(q) == [i \in Hunks(q) |-> <<i>>]

\* Row by row of the square of all pairs, those above its diagonal.
Pairs(q) ==
    LET n == Len(All(q))
        square == [k \in 1..(n * n) |-> <<((k - 1) \div n) + 1, ((k - 1) % n) + 1>>]
    IN  IF n < 3 \/ q.budget.depth < 2 THEN <<>>
        ELSE Kept(square, {k \in DOMAIN square : square[k][1] < square[k][2]})

\* The hunks the model proposed to retain, as it wrote them.
Proposed(q) ==
    LET known == {i \in DOMAIN q.proposal : q.proposal[i] \in Hunks(q)}
    IN  IF /\ q.proposal # Nothing /\ q.budget.ordering
           /\ Cardinality(known) \in 1..(Len(All(q)) - 1)
        THEN <<Kept(q.proposal, known)>> ELSE <<>>

\* A sequence of hunks is left out only when the very same one is there already.
Plan(q) ==
    LET all == Proposed(q) \o Omissions(q) \o Singles(q) \o Pairs(q)
    IN  Kept(all, {i \in DOMAIN all : \A j \in 1..(i - 1) : all[j] # all[i]})

\* Reconstruction sorts the hunks and forgets how often they were named.
Subset(s) == ToSet(s)

-----------------------------------------------------------------------------
(* Facts, and the cache.  A fact is of the scope it was executed for, and  *)
(* says which command executed it; its key has the candidate's tree, not   *)
(* the candidate's identity.  Field `asked' is the command of the search   *)
(* that had it executed: history, which the code does not keep.            *)

IsFact(f) ==
    /\ IsScope(f.scope) /\ f.outcome \in AllOutcomes
    /\ f.subset # {} /\ f.subset \subseteq 1..f.scope.candidate.hunks

Key(scope, subset, command) ==
    [tree |-> scope.candidate.tree, witness |-> scope.witness, prov |-> scope.prov,
     runtime |-> scope.runtime, subset |-> subset, command |-> command]

\* A fact is kept under the command it names.
KeyOf(fact) == Key(fact.scope, fact.subset, fact.command)

\* A search looks under the command it was given.
Lookup(q, subset) == {f \in cache : KeyOf(f) = Key(q.scope, subset, q.command)}

\* Fault: only what passed is worth keeping.
FaultStore(fact) ==
    cache' = IF fact.outcome = "PASS" THEN cache \cup {fact} ELSE cache


Store(fact) ==
    cache' = {f \in cache : KeyOf(f) # KeyOf(fact)} \cup {fact}

\* Fault: a hit is trusted to be of the scope.
FaultBound(fact, scope, subset) == fact.subset = subset


\* What an execution returns, or a hit gives back, is of this subset and scope;
\* of the command it names nothing is asked.
Bound(fact, scope, subset) == fact.subset = subset /\ fact.scope = scope

-----------------------------------------------------------------------------
(* What a search concludes from the facts it went through, the first of    *)
(* which is of the full candidate.                                         *)

Passed(f) == f.outcome = "PASS"

\* The places of the smaller subsets that passed.
Passing(done) == {i \in 2..Len(done) : Passed(done[i])}

PassingSingles(done) == {i \in Passing(done) : Cardinality(done[i].subset) = 1}

\* Every one of the passing hunks suffices alone, and all of them together do not.
NonMonotonic(done) ==
    LET union == UNION {done[i].subset : i \in PassingSingles(done)}
    IN  /\ Cardinality(PassingSingles(done)) >= 2
        /\ \E f \in ToSet(done) : f.subset = union /\ f.outcome = "FAIL"

\* Fault: the first that passed.
FaultSmallest(done) == {i \in Passing(done) : \A j \in Passing(done) : i <= j}


Smallest(done) ==
    LET size(i) == Cardinality(done[i].subset)
    IN  {i \in Passing(done) : \A j \in Passing(done) : size(i) <= size(j)}

Conclusion(status, completeness, alternatives, chosen) ==
    [status |-> status, completeness |-> completeness,
     alternatives |-> alternatives, chosen |-> chosen]

\* The full candidate did not pass, or is a single hunk.
JudgeFull(done) ==
    LET full == done[1] IN
    CASE full.outcome \in {"ERROR", "TIMEOUT"} ->
             Conclusion("INVALID_SUBSET", "BOUNDED_GREEDY", {}, {})
      [] full.outcome \in {"FAIL", "INVALID_PRECONDITION"} ->
             Conclusion("INCONCLUSIVE_INTERACTION", "BOUNDED_GREEDY", {}, {})
      [] Passed(full) ->
             Conclusion("TESTED_NECESSARY_SUBSET", "EXHAUSTIVE_BOUNDED", {}, full.subset)

NothingPassed(done, exhausted) ==
    CASE exhausted -> Conclusion("INCONCLUSIVE_INCOMPLETE", "PARTIAL_ABORTED", {}, {})
      [] ~exhausted /\ \E f \in ToSet(done) : f.outcome \in {"ERROR", "TIMEOUT"} ->
             Conclusion("AMBIGUOUS_SLICE", "PARTIAL_ABORTED", {}, {})
      [] OTHER ->
             Conclusion("NO_REDUCTION_FOUND", "EXHAUSTIVE_BOUNDED", {}, done[1].subset)

\* Alternatives are the places of subsets in the order of the search.
Judge(done, exhausted) ==
    LET traversal == IF exhausted THEN "PARTIAL_ABORTED" ELSE "EXHAUSTIVE_BOUNDED"
        several(places) == Conclusion("MULTIPLE_SUFFICIENT_SUBSETS", traversal,
                                      places, done[Min(places)].subset)
        least == done[Min(Smallest(done))].subset
    IN  CASE NonMonotonic(done) ->
                 Conclusion("INCONCLUSIVE_INTERACTION", traversal, {}, {})
          [] ~NonMonotonic(done) /\ Cardinality(PassingSingles(done)) > 1 ->
                 several(PassingSingles(done))
          [] Passing(done) = {} -> NothingPassed(done, exhausted)
          [] Cardinality(PassingSingles(done)) <= 1 /\ Cardinality(Smallest(done)) > 1 ->
                 several(Smallest(done))
          [] Cardinality(PassingSingles(done)) <= 1 /\ Cardinality(Smallest(done)) = 1 ->
                 Conclusion("TESTED_NECESSARY_SUBSET",
                            IF exhausted THEN "BOUNDED_GREEDY" ELSE "EXHAUSTIVE_BOUNDED",
                            {}, least)

-----------------------------------------------------------------------------
(* The receipt of a result: of its chosen subset, or of the first tested.  *)

SliceReceipt(r) ==
    [scope |-> r.q.scope, status |-> r.status, completeness |-> r.completeness,
     slice |-> IF r.chosen # {} THEN r.chosen ELSE r.done[1].subset,
     facts |-> r.done]

\* What the receipt checks of the facts it binds.
ReceiptValid(rc) ==
    /\ IsScope(rc.scope)
    /\ \A f \in ToSet(rc.facts) : IsFact(f) /\ f.scope = rc.scope

-----------------------------------------------------------------------------
(* The steps of a search. *)

SearchInit ==
    /\ cache = {} /\ search = Nothing /\ results = {}
    /\ searches = 0 /\ executions = 0 /\ strays = 0 /\ restarts = 0

Result(q, done, conclusion) ==
    [q |-> q, done |-> done, epoch |-> restarts, status |-> conclusion.status,
     completeness |-> conclusion.completeness, chosen |-> conclusion.chosen,
     alternatives |-> conclusion.alternatives]

Return(q, done, conclusion) ==
    /\ results' = results \cup {Result(q, done, conclusion)}
    /\ search' = Nothing

MayBegin == search = Nothing /\ searches < MaxSearches /\ searches' = searches + 1

\* Without a base that fails there is nothing to explain.
RefuseBase ==
    /\ MayBegin
    /\ \E q \in Requests :
           /\ q.base # "FAIL"
           /\ Return(q, <<>>, Conclusion("INVALID_SUBSET", "EXHAUSTIVE_BOUNDED", {}, {}))
    /\ UNCHANGED <<cache, executions, strays, restarts>>

Begin ==
    /\ MayBegin
    /\ \E q \in Requests :
           q.base = "FAIL" /\ search' = [q |-> q, todo |-> <<All(q)>>, done |-> <<>>]
    /\ UNCHANGED <<cache, results, executions, strays, restarts>>

Exhausted(s) ==
    Len(s.done) >= s.q.budget.subsets \/ Len(s.done) >= s.q.budget.iterations

\* The full candidate is tried whatever the budget.
MayEvaluate ==
    /\ search # Nothing /\ search.todo # <<>>
    /\ search.done = <<>> \/ ~Exhausted(search)

Found == IF search.q.caching THEN Lookup(search.q, Subset(Head(search.todo))) ELSE {}

\* A full candidate of several hunks that passed is followed by the plan.
Record(fact) ==
    LET q == search.q
        follows == search.done = <<>> /\ Passed(fact) /\ Len(All(q)) > 1
    IN  search' = [search EXCEPT !.done = Append(@, fact),
                                 !.todo = IF follows THEN Plan(q) ELSE Tail(@)]

UseCache ==
    /\ MayEvaluate
    /\ \E f \in Found :
           /\ Bound(f, search.q.scope, Subset(Head(search.todo)))
           /\ Record(f)
    /\ UNCHANGED <<cache, results, searches, executions, strays, restarts>>

\* The caller's callback executes the subset, with the command it was given or
\* with another: nobody compares.
Execute ==
    /\ MayEvaluate /\ Found = {}
    /\ executions < MaxExecutions /\ executions' = executions + 1
    /\ \E o \in Outcomes, c \in Commands :
           LET fact == [scope |-> search.q.scope, outcome |-> o, command |-> c,
                        subset |-> Subset(Head(search.todo)), asked |-> search.q.command]
           IN  /\ Record(fact)
               /\ strays' = strays + (IF c = search.q.command THEN 0 ELSE 1)
               /\ strays' <= MaxStrays
               /\ IF search.q.caching THEN Store(fact) ELSE UNCHANGED cache
    /\ UNCHANGED <<results, searches, restarts>>

\* The hit is of another candidate with the same tree, or the callback raised or
\* answered with a fact that is not of this subset: the search raises.
Abort ==
    /\ MayEvaluate
    /\ \A f \in Found : ~Bound(f, search.q.scope, Subset(Head(search.todo)))
    /\ search' = Nothing
    /\ UNCHANGED <<cache, results, searches, executions, strays, restarts>>

ConcludeFull ==
    /\ search # Nothing /\ Len(search.done) = 1 /\ search.todo = <<>>
    /\ Return(search.q, search.done, JudgeFull(search.done))
    /\ UNCHANGED <<cache, searches, executions, strays, restarts>>

ConcludeSearch ==
    /\ search # Nothing /\ search.done # <<>>
    /\ Len(All(search.q)) > 1 /\ Passed(search.done[1])
    /\ search.todo = <<>> \/ Exhausted(search)
    /\ Return(search.q, search.done, Judge(search.done, search.todo # <<>>))
    /\ UNCHANGED <<cache, searches, executions, strays, restarts>>

\* The cache lives in memory.
LoseCache ==
    /\ restarts < MaxRestarts /\ restarts' = restarts + 1
    /\ cache' = {} /\ search' = Nothing
    /\ UNCHANGED <<results, searches, executions, strays>>

SearchNext ==
    \/ RefuseBase \/ Begin \/ UseCache \/ Execute \/ Abort
    \/ ConcludeFull \/ ConcludeSearch \/ LoseCache

SearchSpec == SearchInit /\ [][SearchNext]_searchVars

-----------------------------------------------------------------------------
(* Properties. *)

\* Every result that tested something has a receipt that its own checks accept,
\* also when the facts came from the cache; and the subset it names, if it names
\* one, passed in that very search, as did the full candidate.
ReceiptOfEveryResult ==
    \A r \in results : r.done # <<>> =>
        /\ ReceiptValid(SliceReceipt(r))
        /\ r.chosen # {} =>
               {r.chosen, Hunks(r.q)} \subseteq {f.subset : f \in {g \in ToSet(r.done) : Passed(g)}}

\* A necessary subset found by an exhaustive search is smaller than every other
\* one that passed, and each hunk was tried alone and left out.
NecessaryIsSmallest ==
    \A r \in results :
        LET tested == {f.subset : f \in ToSet(r.done)}
            n == Len(All(r.q))
        IN  r.status = "TESTED_NECESSARY_SUBSET" /\ r.completeness = "EXHAUSTIVE_BOUNDED" =>
                /\ \A f \in ToSet(r.done) : Passed(f) /\ f.subset # r.chosen =>
                       Cardinality(r.chosen) < Cardinality(f.subset)
                /\ n > 1 => \A h \in 1..n : {h} \in tested /\ (1..n) \ {h} \in tested

\* With a cache, asking again gives the same answer, however the witness
\* flickers, as long as the callback executed what both searches went through
\* with the command it was asked for.  A fact that names another command is kept
\* where the search that had it executed does not look, and may replace a fact
\* of that other command's searches: no more is said of those that met one.
Honest(f) == f.command = f.asked

SameSearchSameResult ==
    \A r, s \in results :
        /\ r.q = s.q /\ r.q.caching /\ r.epoch = s.epoch
        /\ \A f \in ToSet(r.done) \cup ToSet(s.done) : Honest(f)
        => r = s

=============================================================================
