--------------------------- MODULE ContractReview ---------------------------
(***************************************************************************)
(* From a task to a frozen contract (compiler/).  The task's text is       *)
(* classified, a model or a file proposes requirements, people review them *)
(* in sessions, and an approved review is frozen under a digest that the   *)
(* builder and the verifier are bound to.                                  *)
(*                                                                         *)
(* A bundle is a file and so is the result of a review: commands of the    *)
(* review CLI read a whole file and replace it atomically, without a lock, *)
(* so that reviewers interleave between reading and writing.               *)
(*                                                                         *)
(* Statements and citations are opaque.  What the validator's patterns     *)
(* find in a statement is given by constants.                              *)
(***************************************************************************)
EXTENDS Integers, Sequences, FiniteSets, SequencesExt

CONSTANTS
    Reviewers,
    Statements, Citations, Rationales,
    Spans,             \* places in the task's text, in the order of the text
    TextAt,            \* what the text says there
    IdOf,              \* the identifier derived from a requirement's content: a short hash
    Classes,
    Forbids,           \* the statements that ask for what a manifest forbids
    Manifests, Canonical,
    OutOfScope,        \* <<statement, citation>>: names an endpoint or path that is not cited
    Contradictory,     \* sets of two statements
    AgainstClass,      \* the statements that contradict the law of a class
    Signals,           \* what the text may score for each class
    Answers,           \* what the model may answer
    Raw,               \* drafts that a requirements file may hold
    Entered,           \* requirements that a reviewer may write
    MaxRequirements,   \* MAX_REQUIREMENTS_COUNT
    MaxEdits,          \* bound: edits, over all sessions, and bundles written over
    MaxFrozen,         \* bound: contracts frozen
    None

Requirement == [statement : Statements, citation : Citations, span : Spans, rationale : Rationales]
Draft == Seq(Requirement)

Content(q) == <<q.statement, q.citation, q.span>>

ASSUME TextAssumption == Spans \subseteq Nat /\ TextAt \in [Spans -> Citations]
ASSUME IdAssumption == IdOf \in [Statements \X Citations \X Spans -> Nat]
ASSUME PatternAssumption ==
    /\ Canonical \in Manifests /\ Forbids \in [Manifests -> SUBSET Statements]
    /\ OutOfScope \subseteq Statements \X Citations
    /\ Contradictory \subseteq SUBSET Statements
    /\ AgainstClass \in [Classes -> SUBSET Statements]
ASSUME SignalAssumption == Signals \subseteq [Classes -> Nat]
ASSUME AnswersAssumption ==
    Answers \subseteq Seq([statement : Statements, citation : Citations, rationale : Rationales])
ASSUME EnteredAssumption == Entered \subseteq Requirement /\ Raw \subseteq Draft
ASSUME BoundAssumption == MaxRequirements \in Nat \ {0} /\ {MaxEdits, MaxFrozen} \subseteq Nat
ASSUME NoneAssumption == None \notin Draft

VARIABLES
    signals,    \* scores of the task's text
    bundle,     \* the bundle file's requirements
    saved,      \* the result file
    session,    \* the draft each reviewer has open
    result,     \* the review result each reviewer's process holds
    frozen,     \* the contracts frozen
    edits

vars == <<signals, bundle, saved, session, result, frozen, edits>>

(***************************************************************************)
(* Classification: the facts of the text alone decide.                     *)
(***************************************************************************)
Top == CHOOSE c \in Classes : \A x \in Classes : signals[x] <= signals[c]

\* A class that scores at least 0.6 of the best competes with it.
Certainty ==
    IF signals[Top] = 0 THEN "UNKNOWN"
    ELSE IF \E x \in Classes \ {Top} : signals[x] > 0 /\ 10 * signals[x] >= 6 * signals[Top]
         THEN "AMBIGUOUS" ELSE "CONFIDENT"

(***************************************************************************)
(* Validation.                                                             *)
(***************************************************************************)
Id(q) == IdOf[Content(q)]

InScope(q) == TextAt[q.span] = q.citation /\ <<q.statement, q.citation>> \notin OutOfScope
Permitted(q, manifest) == q.statement \notin Forbids[manifest]
Supported(q, manifest) == Permitted(q, manifest) /\ InScope(q)

\* Two requirements with one identifier are the same or a collision: refused.
Distinct(draft) == \A j, k \in DOMAIN draft : Id(draft[j]) = Id(draft[k]) => j = k

Lawful(draft) == \A k \in DOMAIN draft : draft[k].statement \notin AgainstClass[Top]
Compatible(draft) ==
    /\ \A j, k \in DOMAIN draft : {draft[j].statement, draft[k].statement} \notin Contradictory
    /\ Lawful(draft)

Valid(draft, manifest) ==
    /\ Certainty = "CONFIDENT"
    /\ Len(draft) \in 1..MaxRequirements
    /\ \A k \in DOMAIN draft : Supported(draft[k], manifest)
    /\ Distinct(draft)
    /\ Compatible(draft)

\* The order of the identifiers; of two that agree the earlier comes first.
Precedes(draft, j, k) ==
    Id(draft[j]) < Id(draft[k]) \/ (Id(draft[j]) = Id(draft[k]) /\ j <= k)
Place(draft, k) == Cardinality({j \in DOMAIN draft : Precedes(draft, j, k)})

\* Fault: in the order of the draft.
FaultDraftOrder(requirements) == requirements

InOrder(requirements) ==
    [n \in 1..Len(requirements) |->
        requirements[CHOOSE k \in DOMAIN requirements : Place(requirements, k) = n]]

Contract(draft) == [class |-> Top, requirements |-> InOrder(draft)]

ReadyForFreeze(review) == review # None /\ review.decision = "APPROVED"

(***************************************************************************)
(* Sessions.                                                               *)
(***************************************************************************)
Init ==
    /\ signals \in Signals
    /\ bundle = None /\ saved = None
    /\ session = [r \in Reviewers |-> None]
    /\ result = [r \in Reviewers |-> None]
    /\ frozen = {} /\ edits = 0

\* The command that creates a bundle writes it over the one there is.
WriteBundle(draft) ==
    /\ bundle' = draft
    /\ edits' = edits + (IF bundle = None THEN 0 ELSE 1) /\ edits' <= MaxEdits
    /\ UNCHANGED <<signals, saved, session, result, frozen>>

\* What the model answers is bound to the first place of the text that says
\* it; of two requirements with one statement the first is kept.
Located(answer) ==
    LET places == {p \in Spans : TextAt[p] = answer.citation} IN
    [statement |-> answer.statement, citation |-> answer.citation, rationale |-> answer.rationale,
     span |-> CHOOSE p \in places : \A x \in places : p <= x]
Bindable(answers) == \A k \in DOMAIN answers : \E p \in Spans : TextAt[p] = answers[k].citation
FirstWins(draft) ==
    LET Kept(k) == \A j \in 1..(k - 1) : draft[j].statement # draft[k].statement IN
    LET kept == {k \in DOMAIN draft : Kept(k)} IN
    [n \in 1..Cardinality(kept) |->
        draft[CHOOSE k \in kept : Cardinality({j \in kept : j <= k}) = n]]

ProposeRequirements(answers) ==
    /\ Bindable(answers) /\ answers # <<>>
    /\ WriteBundle(FirstWins([k \in DOMAIN answers |-> Located(answers[k])]))

\* From a requirements file, unvalidated.
CreateBundle(draft) == WriteBundle(draft)

\* From a contract that was approved before, if it still validates to itself.
CreateBundleFromContract ==
    /\ ReadyForFreeze(saved)
    /\ LET seed == saved.contract.requirements IN
       Valid(seed, Canonical) /\ Contract(seed) = saved.contract /\ WriteBundle(seed)

OpenSession(r) ==
    /\ bundle # None /\ session[r] = None
    /\ session' = [session EXCEPT ![r] = bundle]
    /\ UNCHANGED <<signals, bundle, saved, result, frozen, edits>>

Edit(r, draft) ==
    /\ edits < MaxEdits /\ edits' = edits + 1
    /\ session' = [session EXCEPT ![r] = draft]
    /\ UNCHANGED <<signals, bundle, saved, result, frozen>>

EditStatement(r) ==
    session[r] # None /\ \E k \in DOMAIN session[r], s \in {q.statement : q \in Entered} :
        Edit(r, [session[r] EXCEPT ![k].statement = s])

EditRationale(r) ==
    session[r] # None /\ \E k \in DOMAIN session[r], n \in Rationales :
        Edit(r, [session[r] EXCEPT ![k].rationale = n])

\* Citation and span only together.
EditCitation(r) ==
    session[r] # None /\ \E k \in DOMAIN session[r], c \in Citations, p \in Spans :
        Edit(r, [session[r] EXCEPT ![k].citation = c, ![k].span = p])

EditRequirement(r) ==
    session[r] # None /\ \E k \in DOMAIN session[r], q \in Entered :
        Edit(r, [session[r] EXCEPT ![k] = q])

AddRequirement(r) ==
    session[r] # None /\ \E q \in Entered :
        Edit(r, Append(session[r], q))

RemoveRequirement(r) ==
    session[r] # None /\ \E k \in DOMAIN session[r] : Edit(r, RemoveAt(session[r], k))

Close(r) == session' = [session EXCEPT ![r] = None]

\* A command of the CLI writes the draft it read and edited if it validates,
\* over whatever another command has written since.
SaveBundle(r) ==
    /\ session[r] # None
    /\ bundle' = IF Valid(session[r], Canonical) THEN session[r] ELSE bundle
    /\ Close(r)
    /\ UNCHANGED <<signals, saved, result, frozen, edits>>

\* Fault: the result trusts the session's own validation.
FaultTrustSession(draft, manifest) == Valid(draft, manifest)

\* The session validates under the manifest of its caller; the result that is
\* constructed validates the draft again, under the canonical one.
Approvable(draft, manifest) == Valid(draft, manifest) /\ Valid(draft, Canonical)

Approve(r, manifest) ==
    /\ session[r] # None /\ Approvable(session[r], manifest)
    /\ result' = [result EXCEPT ![r] = [decision |-> "APPROVED", contract |-> Contract(session[r])]]
    /\ UNCHANGED <<signals, bundle, saved, session, frozen, edits>>

Reject(r) ==
    /\ session[r] # None
    /\ result' = [result EXCEPT ![r] = [decision |-> "REJECTED", contract |-> None]]
    /\ UNCHANGED <<signals, bundle, saved, session, frozen, edits>>

SaveResult(r) ==
    /\ result[r] # None
    /\ saved' = result[r]
    /\ result' = [result EXCEPT ![r] = None]
    /\ Close(r)
    /\ UNCHANGED <<signals, bundle, frozen, edits>>

\* Fault: the contract of the file is taken as it is.
FaultLoadUnchecked(r) ==
    /\ saved # None
    /\ result' = [result EXCEPT ![r] = saved]
    /\ UNCHANGED <<signals, bundle, saved, session, frozen, edits>>

\* A result is loaded with a bundle, from which the contract is recomputed.
LoadResult(r) ==
    /\ saved # None
    /\ saved.decision = "APPROVED" =>
          Valid(bundle, Canonical) /\ saved.contract = Contract(bundle)
    /\ result' = [result EXCEPT ![r] = saved]
    /\ UNCHANGED <<signals, bundle, saved, session, frozen, edits>>

(***************************************************************************)
(* Freezing.  The digest is taken to be the payload it is computed from.   *)
(***************************************************************************)
Payload(contract) ==
    [class |-> contract.class, certainty |-> Certainty,
     requirements |-> InOrder(contract.requirements)]

Freeze(r) ==
    /\ ReadyForFreeze(result[r]) /\ Cardinality(frozen) < MaxFrozen
    /\ frozen' = frozen \cup
          {[digest |-> Payload(result[r].contract), requirements |-> result[r].contract.requirements]}
    /\ UNCHANGED <<signals, bundle, saved, session, result, edits>>

Next ==
    \/ \E answers \in Answers : ProposeRequirements(answers)
    \/ \E draft \in Raw : CreateBundle(draft)
    \/ CreateBundleFromContract
    \/ \E r \in Reviewers :
          \/ OpenSession(r)
          \/ EditStatement(r) \/ EditRationale(r) \/ EditCitation(r) \/ EditRequirement(r)
          \/ AddRequirement(r) \/ RemoveRequirement(r)
          \/ SaveBundle(r) \/ Reject(r) \/ SaveResult(r) \/ LoadResult(r) \/ Freeze(r)
          \/ \E m \in Manifests : Approve(r, m)

Spec == Init /\ [][Next]_vars

(***************************************************************************)
(* Properties.                                                             *)
(***************************************************************************)

\* Whatever manifest an approval was asked for under, and whichever way its
\* result came to be frozen, what is frozen would pass the canonical
\* validation as it stands: a decided class, distinct identifiers, citations
\* that are in the text, nothing forbidden, out of scope or contradictory.
FrozenContractValid == \A c \in frozen : Valid(c.requirements, Canonical)

\* A digest names the requirements and not the way they were arrived at: two
\* frozen contracts have one digest exactly if they have the same requirements,
\* whatever edits and orders of the draft they come from.
DigestNamesRequirements ==
    \A c, e \in frozen : c.digest = e.digest <=> ToSet(c.requirements) = ToSet(e.requirements)

\* An approved result that a process gets hold of is of a draft that is there:
\* its own session's or, loaded from the file, the bundle's.  An approval is
\* lost, not carried over, if somebody has saved another draft since.
ApprovalOfPresentDraft ==
    [][\A r \in Reviewers :
        result'[r] # result[r] /\ ReadyForFreeze(result'[r]) =>
            \E draft \in {bundle, session[r]} \ {None} :
                result'[r].contract = Contract(draft)]_vars

=============================================================================
