--------------------------- MODULE MCCandidateRun ---------------------------
EXTENDS CandidateRun

CONSTANTS f, n, p, i, d, c0, c1

\* An ordinary file and a protected one, both in a directory, a file to be
\* made and one that git ignores.
MCBase == [x \in Files |-> IF x \in {f, p} THEN c0 ELSE Absent]
MCWithin == [x \in {d} |-> {f, p}]

Act(kind, path, content) == [kind |-> kind, path |-> path, content |-> content]
MCProposals ==
    {[actions |-> as, commands |-> "allowed"] : as \in {<<>>, <<Act("MODIFY", f, c1)>>}}
    \cup {[actions |-> <<>>, commands |-> "forbidden"]} \cup
    {[actions |-> as, commands |-> "none"] : as \in
        {<<Act("CREATE", n, c1), Act("DELETE", f, c0)>>, <<Act("CREATE", i, c1)>>,
         <<Act("DELETE", d, c0)>>, <<Act("MODIFY", p, c1)>>, <<Act("CREATE", f, c1)>>,
         <<Act("MODIFY", f, c1), Act("DELETE", f, c0)>>}}

MCModes == Mode

\* What the commands make the capture read: only that HEAD is the source's; no patch;
\* no patch and no changed file; that there is no change at all; or a change of
\* the ordinary file, with the patch for it.
NoPatch == [x \in {} |-> Absent]
NoFile == [added |-> {}, deleted |-> {}, modified |-> {}]
MCReports ==
    {[Silent EXCEPT !.head = TRUE], [Silent EXCEPT !.patch = NoPatch],
     [Silent EXCEPT !.changed = NoFile, !.patch = NoPatch],
     [head |-> TRUE, tree |-> Base, changed |-> NoFile, patch |-> NoPatch],
     [head |-> TRUE, tree |-> [Base EXCEPT ![f] = c1],
      changed |-> [NoFile EXCEPT !.modified = {f}], patch |-> [x \in {f} |-> c1]]}

=============================================================================
