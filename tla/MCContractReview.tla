-------------------------- MODULE MCContractReview --------------------------
EXTENDS ContractReview, TLC

CONSTANTS r1, r2, good, other, weak, never, x, y, why, because, canon, lax, bug, refactor

\* "weak" is forbidden by the canonical manifest only; "other" contradicts
\* "good" and collides with it if cited at y; "never" is against the class.
MCTextAt == <<x, y>>
Number == [s \in {good, other, weak, never} |->
    CASE s = good -> 4 [] s = other -> 3 [] s = weak -> 2 [] s = never -> 1]
MCIdOf == [e \in Statements \X Citations \X Spans |->
    IF e = <<other, y, 2>> THEN 16 + 0 + 1
    ELSE 4 * Number[e[1]] + (IF e[2] = x THEN 0 ELSE 2) + e[3]]
MCForbids == [m \in {canon, lax} |-> IF m = canon THEN {weak} ELSE {}]
MCContradictory == {{good, other}}
MCAgainstClass == [c \in {bug, refactor} |-> IF c = bug THEN {never} ELSE {}]
MCOutOfScope == {<<never, x>>}
Scores(b, f) == [c \in {bug, refactor} |-> IF c = bug THEN b ELSE f]
MCSignals == {Scores(0, 0), Scores(5, 0), Scores(5, 3)}

Req(s, c, p, w) == [statement |-> s, citation |-> c, span |-> p, rationale |-> w]
MCEntered ==
    {Req(good, x, 1, why), Req(good, y, 2, because), Req(weak, y, 2, why), Req(never, y, 2, why)}
MCAnswers == {[k \in 1..3 |-> [statement |-> IF k = 3 THEN other ELSE good,
                               citation |-> IF k = 2 THEN y ELSE x, rationale |-> why]]}
\* The second file says a thing twice: its reviewers remove one or the other.
MCRaw == {<<Req(other, x, 1, why), Req(weak, y, 2, why)>>,
          <<Req(good, x, 1, why), Req(good, y, 2, why), Req(good, x, 1, why)>>}

ReviewersAlike == Permutations({r1, r2})

=============================================================================
