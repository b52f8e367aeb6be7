----------------------- MODULE ContractReview_proofs -----------------------
(***************************************************************************)
(* Proofs about the compiler's reviews, for any text, patterns, reviewers  *)
(* and edits: what is frozen is valid, its digest names the requirements   *)
(* and nothing else, and an approval is of a draft that is there.          *)
(***************************************************************************)
EXTENDS ContractReview, SequenceTheorems, FiniteSetTheorems, TLAPS

-----------------------------------------------------------------------------
(* Ranks of a finite set: if no two elements have the same, each is taken. *)

LEMMA EveryRankTaken ==
    ASSUME NEW S, IsFiniteSet(S), NEW rank \in [S -> 1..Cardinality(S)],
           \A a, b \in S : rank[a] = rank[b] => a = b
    PROVE  \A n \in 1..Cardinality(S) : \E k \in S : rank[k] = n
<1> SUFFICES ASSUME NEW n \in 1..Cardinality(S), \A k \in S : rank[k] # n PROVE FALSE
    OBVIOUS
<1> DEFINE Others == (1..Cardinality(S)) \ {n}
<1>1. Cardinality(S) \in Nat
    BY FS_CardinalityType
<1>2. IsFiniteSet(1..Cardinality(S)) /\ Cardinality(1..Cardinality(S)) = Cardinality(S)
    BY <1>1, FS_Interval
<1>3. IsFiniteSet(Others) /\ Cardinality(Others) = Cardinality(S) - 1
    BY <1>2, FS_RemoveElement
<1>4. rank \in [S -> Others]
    OBVIOUS
<1>5. Cardinality(Others) < Cardinality(S)
    BY <1>1, <1>3
<1>6. \E a, b \in S : a # b /\ rank[a] = rank[b]
    <2> HIDE DEF Others
    <2> QED BY <1>3, <1>4, <1>5, FS_PigeonHole
<1> QED BY <1>6

\* Upto gives each element those that do not come after it.
Ranked(S, Upto) ==
    /\ IsFiniteSet(S) /\ Upto \in [S -> SUBSET S]
    /\ \A a \in S : a \in Upto[a]
    /\ \A a, b \in S : a # b => \/ Upto[a] \subseteq Upto[b] /\ b \notin Upto[a]
                                \/ Upto[b] \subseteq Upto[a] /\ a \notin Upto[b]

\* How many they are is such a rank.
LEMMA CountIsRank ==
    ASSUME NEW S, NEW Upto, Ranked(S, Upto)
    PROVE  /\ \A a, b \in S : Cardinality(Upto[a]) = Cardinality(Upto[b]) => a = b
           /\ \A n \in 1..Cardinality(S) : \E k \in S : Cardinality(Upto[k]) = n
           /\ \A k \in S : Cardinality(Upto[k]) \in 1..Cardinality(S)
<1> USE DEF Ranked
<1> DEFINE rank == [k \in S |-> Cardinality(Upto[k])]
<1>1. Cardinality(S) \in Nat
    BY FS_CardinalityType
<1>2. ASSUME NEW k \in S
      PROVE  /\ IsFiniteSet(Upto[k]) /\ Cardinality(Upto[k]) \in Nat
             /\ Cardinality(Upto[k]) <= Cardinality(S)
    <2>1. Upto[k] \in SUBSET S
        OBVIOUS
    <2>2. IsFiniteSet(Upto[k]) /\ Cardinality(Upto[k]) <= Cardinality(S)
        BY <2>1, FS_Subset
    <2> QED BY <2>2, FS_CardinalityType
<1>3. ASSUME NEW k \in S PROVE Cardinality(Upto[k]) # 0
    BY <1>2, <1>3, FS_EmptySet
<1>4. ASSUME NEW a \in S, NEW b \in S, Upto[a] \subseteq Upto[b], b \notin Upto[a]
      PROVE  Cardinality(Upto[a]) # Cardinality(Upto[b])
    BY <1>2, <1>4, FS_Subset
<1>5. \A a, b \in S : Cardinality(Upto[a]) = Cardinality(Upto[b]) => a = b
    BY <1>4
<1>6. \A k \in S : Cardinality(Upto[k]) \in 1..Cardinality(S)
    BY <1>1, <1>2, <1>3
<1>7. rank \in [S -> 1..Cardinality(S)] /\ \A a, b \in S : rank[a] = rank[b] => a = b
    BY <1>5, <1>6
<1>8. \A n \in 1..Cardinality(S) : \E k \in S : rank[k] = n
    <2> HIDE DEF rank
    <2> QED BY <1>7, EveryRankTaken
<1> QED BY <1>5, <1>6, <1>8

-----------------------------------------------------------------------------
(* The order of the requirements.                                          *)

LEMMA DraftProperties ==
    ASSUME NEW draft \in Draft
    PROVE  /\ Len(draft) \in Nat /\ DOMAIN draft = 1..Len(draft)
           /\ IsFiniteSet(DOMAIN draft) /\ Cardinality(DOMAIN draft) = Len(draft)
           /\ \A k \in DOMAIN draft : draft[k] \in Requirement /\ Id(draft[k]) \in Nat
<1>1. Len(draft) \in Nat /\ DOMAIN draft = 1..Len(draft)
      /\ \A k \in DOMAIN draft : draft[k] \in Requirement
    BY LenProperties, ElementOfSeq DEF Draft
<1>2. IsFiniteSet(DOMAIN draft) /\ Cardinality(DOMAIN draft) = Len(draft)
    BY <1>1, FS_Interval
<1>3. ASSUME NEW k \in DOMAIN draft PROVE Id(draft[k]) \in Nat
    <2>1. draft[k] \in Requirement
        BY <1>1
    <2>2. Content(draft[k]) \in Statements \X Citations \X Spans
        BY <2>1 DEF Requirement, Content
    <2> QED BY <2>2, IdAssumption DEF Id
<1> QED BY <1>1, <1>2, <1>3

LEMMA PlacesTaken ==
    ASSUME NEW draft \in Draft
    PROVE  /\ \A j, k \in DOMAIN draft : Place(draft, j) = Place(draft, k) => j = k
           /\ \A n \in 1..Len(draft) : \E k \in DOMAIN draft : Place(draft, k) = n
           /\ \A k \in DOMAIN draft : Place(draft, k) \in 1..Len(draft)
<1> DEFINE S == DOMAIN draft
           Upto == [k \in S |-> {j \in S : Precedes(draft, j, k)}]
<1>1. /\ S \subseteq Nat /\ IsFiniteSet(S) /\ Cardinality(S) = Len(draft)
      /\ \A k \in S : Id(draft[k]) \in Nat
    BY DraftProperties
<1>2. \A a \in S : a \in Upto[a]
    BY <1>1 DEF Precedes
<1>3. \A a, b \in S : a # b => \/ Upto[a] \subseteq Upto[b] /\ b \notin Upto[a]
                               \/ Upto[b] \subseteq Upto[a] /\ a \notin Upto[b]
    BY <1>1 DEF Precedes
<1>4. Upto \in [S -> SUBSET S] /\ \A k \in S : Place(draft, k) = Cardinality(Upto[k])
    BY DEF Place
<1>5. /\ \A a, b \in S : Cardinality(Upto[a]) = Cardinality(Upto[b]) => a = b
      /\ \A n \in 1..Cardinality(S) : \E k \in S : Cardinality(Upto[k]) = n
      /\ \A k \in S : Cardinality(Upto[k]) \in 1..Cardinality(S)
    <2> HIDE DEF S, Upto
    <2>1. Ranked(S, Upto)
        BY <1>1, <1>2, <1>3, <1>4 DEF Ranked
    <2> QED BY <2>1, CountIsRank
<1> HIDE DEF Upto
<1> QED BY <1>1, <1>4, <1>5

LEMMA InOrderArranges ==
    ASSUME NEW draft \in Draft
    PROVE  /\ InOrder(draft) \in Draft /\ Len(InOrder(draft)) = Len(draft)
           /\ \A k \in DOMAIN draft : InOrder(draft)[Place(draft, k)] = draft[k]
           /\ \A n \in DOMAIN InOrder(draft) : \E k \in DOMAIN draft :
                  Place(draft, k) = n /\ InOrder(draft)[n] = draft[k]
           /\ ToSet(InOrder(draft)) = ToSet(draft)
<1> DEFINE At(n) == CHOOSE k \in DOMAIN draft : Place(draft, k) = n
<1>1. Len(draft) \in Nat /\ DOMAIN draft = 1..Len(draft)
      /\ \A k \in DOMAIN draft : draft[k] \in Requirement
    BY DraftProperties
<1>2. \A n \in 1..Len(draft) : At(n) \in DOMAIN draft /\ Place(draft, At(n)) = n
    BY PlacesTaken
<1>3. \A k \in DOMAIN draft : Place(draft, k) \in 1..Len(draft) /\ At(Place(draft, k)) = k
    BY PlacesTaken
<1>4. InOrder(draft) = [n \in 1..Len(draft) |-> draft[At(n)]]
    BY DEF InOrder
<1> HIDE DEF At
<1>5. InOrder(draft) \in [1..Len(draft) -> Requirement]
    BY <1>1, <1>2, <1>4
<1>6. InOrder(draft) \in Draft /\ Len(InOrder(draft)) = Len(draft)
    BY <1>1, <1>5 DEF Draft
<1>7. \A k \in DOMAIN draft : InOrder(draft)[Place(draft, k)] = draft[k]
    BY <1>3, <1>4
<1>8. \A n \in DOMAIN InOrder(draft) : \E k \in DOMAIN draft :
          Place(draft, k) = n /\ InOrder(draft)[n] = draft[k]
    BY <1>2, <1>4
<1>9. \A k \in DOMAIN draft : Place(draft, k) \in DOMAIN InOrder(draft)
    BY <1>3, <1>4
<1> QED BY <1>6, <1>7, <1>8, <1>9 DEF ToSet

\* Two drafts of the same requirements, no two of them under one identifier, have
\* one order.
LEMMA SameRequirementsSamePlaces ==
    ASSUME NEW d \in Draft, NEW e \in Draft, Distinct(d), Distinct(e), ToSet(d) = ToSet(e),
           NEW k \in DOMAIN d, NEW m \in DOMAIN e, d[k] = e[m]
    PROVE  Place(d, k) = Place(e, m)
<1> DEFINE In(s, n) == {j \in DOMAIN s : Precedes(s, j, n)}
           match == [j \in In(d, k) |-> CHOOSE i \in DOMAIN e : e[i] = d[j]]
<1>1. /\ \A j \in DOMAIN d : Id(d[j]) \in Nat /\ j \in Nat
      /\ \A j \in DOMAIN e : Id(e[j]) \in Nat /\ j \in Nat
      /\ IsFiniteSet(DOMAIN d)
    BY DraftProperties
<1>2. \A j \in In(d, k) : match[j] \in DOMAIN e /\ e[match[j]] = d[j]
    BY DEF ToSet
<1>3. \A j \in DOMAIN d : Precedes(d, j, k) <=> Id(d[j]) <= Id(d[k])
    BY <1>1 DEF Distinct, Precedes
<1>4. \A i \in DOMAIN e : Precedes(e, i, m) <=> Id(e[i]) <= Id(e[m])
    BY <1>1 DEF Distinct, Precedes
<1>5. \A j \in In(d, k) : match[j] \in In(e, m)
    BY <1>2, <1>3, <1>4
<1>6. \A j, i \in In(d, k) : match[j] = match[i] => j = i
    BY <1>2 DEF Distinct
<1>7. \A i \in In(e, m) : \E j \in In(d, k) : match[j] = i
    <2> SUFFICES ASSUME NEW i \in In(e, m) PROVE \E j \in In(d, k) : match[j] = i
        OBVIOUS
    <2>1. PICK j \in DOMAIN d : d[j] = e[i]
        BY DEF ToSet
    <2>2. j \in In(d, k)
        BY <2>1, <1>3, <1>4
    <2>3. Id(e[match[j]]) = Id(e[i]) /\ match[j] \in DOMAIN e
        BY <2>1, <2>2, <1>2
    <2> QED BY <2>2, <2>3 DEF Distinct
<1>8. match \in Bijection(In(d, k), In(e, m))
    <2>1. match \in [In(d, k) -> In(e, m)]
        BY <1>5
    <2> HIDE DEF match, In
    <2> QED BY <2>1, <1>6, <1>7 DEF Bijection, Injection, Surjection, IsInjective
<1>9. IsFiniteSet(In(d, k))
    BY <1>1, FS_Subset
<1>10. Cardinality(In(e, m)) = Cardinality(In(d, k))
    <2> HIDE DEF match, In
    <2> QED BY <1>8, <1>9, FS_Bijection DEF ExistsBijection
<1> QED BY <1>10 DEF Place

LEMMA SameRequirementsSameOrder ==
    ASSUME NEW d \in Draft, NEW e \in Draft, Distinct(d), Distinct(e), ToSet(d) = ToSet(e)
    PROVE  InOrder(d) = InOrder(e)
<1>1. /\ DOMAIN d = 1..Len(d) /\ Len(d) \in Nat /\ DOMAIN e = 1..Len(e) /\ Len(e) \in Nat
      /\ IsFiniteSet(DOMAIN d) /\ Cardinality(DOMAIN d) = Len(d)
      /\ IsFiniteSet(DOMAIN e) /\ Cardinality(DOMAIN e) = Len(e)
    BY DraftProperties
<1> DEFINE match == [j \in DOMAIN d |-> CHOOSE i \in DOMAIN e : e[i] = d[j]]
<1>2. \A j \in DOMAIN d : match[j] \in DOMAIN e /\ e[match[j]] = d[j]
    BY DEF ToSet
<1>3. \A j, i \in DOMAIN d : match[j] = match[i] => j = i
    BY <1>2 DEF Distinct
<1>4. \A i \in DOMAIN e : \E j \in DOMAIN d : match[j] = i
    <2> SUFFICES ASSUME NEW i \in DOMAIN e PROVE \E j \in DOMAIN d : match[j] = i
        OBVIOUS
    <2>1. PICK j \in DOMAIN d : d[j] = e[i]
        BY DEF ToSet
    <2>2. Id(e[match[j]]) = Id(e[i]) /\ match[j] \in DOMAIN e
        BY <2>1, <1>2
    <2> QED BY <2>2 DEF Distinct
<1>5. match \in Bijection(DOMAIN d, DOMAIN e)
    <2>1. match \in [DOMAIN d -> DOMAIN e]
        BY <1>2
    <2> HIDE DEF match
    <2> QED BY <2>1, <1>3, <1>4 DEF Bijection, Injection, Surjection, IsInjective
<1>6. Len(d) = Len(e)
    <2> HIDE DEF match
    <2> QED BY <1>1, <1>5, FS_Bijection DEF ExistsBijection
<1>7. ASSUME NEW n \in 1..Len(d) PROVE InOrder(d)[n] = InOrder(e)[n]
    <2>1. PICK k \in DOMAIN d : Place(d, k) = n
        BY PlacesTaken
    <2>2. Place(e, match[k]) = n
        BY <2>1, <1>2, SameRequirementsSamePlaces
    <2>3. InOrder(d)[n] = d[k] /\ InOrder(e)[n] = e[match[k]]
        <3>1. match[k] \in DOMAIN e
            BY <1>2
        <3>2. InOrder(d)[Place(d, k)] = d[k]
            BY InOrderArranges
        <3>3. InOrder(e)[Place(e, match[k])] = e[match[k]]
            BY <3>1, InOrderArranges
        <3> QED BY <3>2, <3>3, <2>1, <2>2
    <2> QED BY <2>3, <1>2
<1>8. InOrder(d) \in Draft /\ InOrder(e) \in Draft /\ Len(InOrder(d)) = Len(d)
      /\ Len(InOrder(e)) = Len(e)
    BY InOrderArranges
<1> QED BY <1>6, <1>7, <1>8, SeqEqual DEF Draft

\* To put a valid draft in order leaves it valid.
LEMMA InOrderStaysValid ==
    ASSUME NEW draft \in Draft, NEW manifest, Valid(draft, manifest)
    PROVE  Valid(InOrder(draft), manifest)
<1> DEFINE ordered == InOrder(draft)
<1>1. /\ Len(ordered) = Len(draft)
      /\ \A n \in DOMAIN ordered : \E k \in DOMAIN draft :
             Place(draft, k) = n /\ ordered[n] = draft[k]
    BY InOrderArranges
<1> HIDE DEF ordered
<1>2. \A n \in DOMAIN ordered : Supported(ordered[n], manifest)
    BY <1>1 DEF Valid
<1>3. Distinct(ordered)
    <2> SUFFICES ASSUME NEW n \in DOMAIN ordered, NEW m \in DOMAIN ordered,
                        Id(ordered[n]) = Id(ordered[m])
                 PROVE  n = m
        BY DEF Distinct
    <2>1. PICK j \in DOMAIN draft : Place(draft, j) = n /\ ordered[n] = draft[j]
        BY <1>1
    <2>2. PICK k \in DOMAIN draft : Place(draft, k) = m /\ ordered[m] = draft[k]
        BY <1>1
    <2> QED BY <2>1, <2>2 DEF Valid, Distinct
<1>4. Compatible(ordered)
    BY <1>1 DEF Valid, Compatible, Lawful
<1> QED BY <1>1, <1>2, <1>3, <1>4 DEF Valid, ordered

-----------------------------------------------------------------------------
(* What is proposed and edited are drafts.                                 *)

LEMMA NumbersRanked ==
    ASSUME NEW S \in SUBSET Nat, IsFiniteSet(S)
    PROVE  \A n \in 1..Cardinality(S) : \E k \in S : Cardinality({j \in S : j <= k}) = n
<1> DEFINE Ahead(k) == {j \in S : j <= k}
           Upto == [k \in S |-> Ahead(k)]
<1>1. \A k \in S : Ahead(k) \in SUBSET S
    OBVIOUS
<1>2. \A k \in S : \A j \in S : j \in Ahead(k) <=> j <= k
    OBVIOUS
<1> HIDE DEF Ahead
<1>3. \A a \in S : a \in Upto[a]
    BY <1>2
<1>4. ASSUME NEW a \in S, NEW b \in S, a < b
      PROVE  Upto[a] \subseteq Upto[b] /\ b \notin Upto[a]
    <2>1. \A j \in S : j <= a => j <= b
        BY <1>4
    <2>2. ~(b <= a)
        BY <1>4
    <2> QED BY <2>1, <2>2, <1>1, <1>2
<1>5. \A a, b \in S : a # b => a < b \/ b < a
    OBVIOUS
<1>6. Upto \in [S -> SUBSET S]
    BY <1>1
<1>7. \A n \in 1..Cardinality(S) : \E k \in S : Cardinality(Upto[k]) = n
    <2> HIDE DEF Upto
    <2>1. \A a, b \in S : a # b => \/ Upto[a] \subseteq Upto[b] /\ b \notin Upto[a]
                                   \/ Upto[b] \subseteq Upto[a] /\ a \notin Upto[b]
        BY <1>4, <1>5
    <2>2. Ranked(S, Upto)
        BY <2>1, <1>3, <1>6 DEF Ranked
    <2> QED BY <2>2, CountIsRank
<1> QED BY <1>7 DEF Ahead

LEMMA FirstPlace ==
    ASSUME NEW places \in SUBSET Nat, NEW some \in places
    PROVE  \E p \in places : \A x \in places : p <= x
<1> DEFINE S == {p \in places : p <= some}
<1>1. IsFiniteSet(S)
    BY FS_BoundedSetOfNaturals
<1>2. S \subseteq Nat /\ some \in S
    <2>1. places \subseteq Nat /\ some \in Nat
        OBVIOUS
    <2>2. some <= some
        BY <2>1
    <2> QED BY <2>1, <2>2
<1>3. \A x \in places : x \notin S => some < x
    OBVIOUS
<1> HIDE DEF S
<1>4. Cardinality(S) \in Nat \ {0}
    BY <1>1, <1>2, FS_CardinalityType, FS_EmptySet
<1>5. PICK first \in S : Cardinality({j \in S : j <= first}) = 1
    <2>1. 1 \in 1..Cardinality(S)
        BY <1>4
    <2> QED BY <2>1, <1>1, <1>2, NumbersRanked
<1> DEFINE Ahead == {j \in S : j <= first}
<1>6. Ahead \subseteq S /\ first \in Ahead /\ \A j \in S : j <= first => j \in Ahead
    BY <1>2
<1>7. PICK only : Ahead = {only}
    <2>1. IsFiniteSet(Ahead)
        BY <1>1, <1>6, FS_Subset
    <2> QED BY <2>1, <1>5, FS_Singleton
<1> HIDE DEF Ahead
<1>8. \A j \in S : j <= first => j = first
    BY <1>6, <1>7
<1>9. \A x \in S : first <= x
    BY <1>2, <1>8
<1> QED BY <1>2, <1>3, <1>9 DEF S

LEMMA LocatedIsRequirement ==
    ASSUME NEW answers \in Answers, Bindable(answers), NEW k \in DOMAIN answers
    PROVE  Located(answers[k]) \in Requirement
<1> DEFINE places == {p \in Spans : TextAt[p] = answers[k].citation}
<1>1. answers[k] \in [statement : Statements, citation : Citations, rationale : Rationales]
    BY AnswersAssumption, ElementOfSeq, LenProperties
<1>2. places \in SUBSET Nat /\ \E p : p \in places
    BY TextAssumption DEF Bindable
<1>3. (CHOOSE p \in places : \A x \in places : p <= x) \in Spans
    <2>1. \E p \in places : \A x \in places : p <= x
        BY <1>2, FirstPlace
    <2> QED BY <2>1
<1> QED BY <1>1, <1>3 DEF Located, Requirement

LEMMA FirstWinsIsDraft ==
    ASSUME NEW draft \in Draft
    PROVE  FirstWins(draft) \in Draft
<1> DEFINE Kept(k) == \A j \in 1..(k - 1) : draft[j].statement # draft[k].statement
           kept == {k \in DOMAIN draft : Kept(k)}
           At(n) == CHOOSE k \in kept : Cardinality({j \in kept : j <= k}) = n
<1>1. /\ DOMAIN draft \subseteq Nat /\ IsFiniteSet(DOMAIN draft)
      /\ \A k \in DOMAIN draft : draft[k] \in Requirement
    BY DraftProperties
<1>2. kept \in SUBSET DOMAIN draft
    OBVIOUS
<1> HIDE DEF kept, Kept
<1>3. IsFiniteSet(kept) /\ Cardinality(kept) \in Nat
    BY <1>1, <1>2, FS_Subset, FS_CardinalityType
<1>4. kept \in SUBSET Nat
    BY <1>1, <1>2
<1>5. \A n \in 1..Cardinality(kept) : \E k \in kept : Cardinality({j \in kept : j <= k}) = n
    BY <1>3, <1>4, NumbersRanked
<1>6. \A n \in 1..Cardinality(kept) : At(n) \in kept
    BY <1>5
<1>7. FirstWins(draft) = [n \in 1..Cardinality(kept) |-> draft[At(n)]]
    BY DEF FirstWins, kept, Kept
<1> HIDE DEF At
<1>8. FirstWins(draft) \in [1..Cardinality(kept) -> Requirement]
    BY <1>1, <1>2, <1>6, <1>7
<1> QED BY <1>3, <1>8 DEF Draft

-----------------------------------------------------------------------------
(* The invariant.  An approval, wherever it is kept, is of valid           *)
(* requirements of the task's class; nothing is reviewed before there is a *)
(* bundle; a digest is that of the requirements in their order.            *)

ValidContracts ==
    {c \in [class : {Top}, requirements : Draft] : Valid(c.requirements, Canonical)}
Reviewed == [decision : {"APPROVED"}, contract : ValidContracts]
            \cup [decision : {"REJECTED"}, contract : {None}]

Drafts == bundle \in Draft \cup {None} /\ session \in [Reviewers -> Draft \cup {None}]
Reviews == saved \in Reviewed \cup {None} /\ result \in [Reviewers -> Reviewed \cup {None}]
Opened ==
    /\ \A r \in Reviewers : session[r] # None \/ result[r] # None => bundle # None
    /\ saved # None => bundle # None
Named(c) ==
    /\ c.requirements \in Draft /\ Valid(c.requirements, Canonical)
    /\ c.digest = [class |-> Top, certainty |-> Certainty,
                   requirements |-> InOrder(c.requirements)]

ReviewInv == Drafts /\ Reviews /\ Opened /\ \A c \in frozen : Named(c)

\* What the text says of itself does not change: neither does what is valid.
LEMMA SameText ==
    ASSUME UNCHANGED signals
    PROVE  Reviewed' = Reviewed /\ \A c : Named(c)' <=> Named(c)
<1>1. Top' = Top
    BY DEF Top
<1>2. Certainty' = Certainty
    BY <1>1 DEF Certainty
<1>3. \A draft : Valid(draft, Canonical)' <=> Valid(draft, Canonical)
    BY <1>1, <1>2 DEF Valid, Compatible, Lawful, Distinct, Supported, Permitted, InScope
<1>4. ValidContracts' = ValidContracts
    BY <1>1, <1>3 DEF ValidContracts
<1>5. Reviewed' = Reviewed
    BY <1>4 DEF Reviewed
<1>6. \A c : Named(c)' <=> Named(c)
    BY <1>1, <1>2, <1>3 DEF Named
<1> QED BY <1>5, <1>6

LEMMA ContractIsValid ==
    ASSUME NEW draft \in Draft, Valid(draft, Canonical)
    PROVE  Contract(draft) \in ValidContracts
<1>1. InOrder(draft) \in Draft
    BY InOrderArranges
<1>2. Valid(InOrder(draft), Canonical)
    BY InOrderStaysValid
<1> QED BY <1>1, <1>2 DEF Contract, ValidContracts

\* All edits of a session do one thing: put another draft in it.
Edits(r) == EditStatement(r) \/ EditRationale(r) \/ EditCitation(r) \/ EditRequirement(r)
            \/ AddRequirement(r) \/ RemoveRequirement(r)

LEMMA EditsGiveDrafts ==
    ASSUME ReviewInv, NEW r \in Reviewers, Edits(r)
    PROVE  /\ session[r] # None
           /\ \E draft \in Draft : session' = [session EXCEPT ![r] = draft]
           /\ UNCHANGED <<signals, bundle, saved, result, frozen>>
<1>1. session[r] # None /\ session[r] \in Draft
    BY DEF Edits, EditStatement, EditRationale, EditCitation, EditRequirement, AddRequirement,
       RemoveRequirement, ReviewInv, Drafts
<1> DEFINE d == session[r]
<1>2. /\ Len(d) \in Nat /\ DOMAIN d = 1..Len(d)
      /\ \A k \in DOMAIN d : d[k] \in Requirement
    BY <1>1, DraftProperties
<1>3. \A k \in DOMAIN d, q \in Requirement : [d EXCEPT ![k] = q] \in Draft
    BY <1>1, <1>2, ExceptSeq DEF Draft
<1>4. ASSUME EditStatement(r) PROVE \E draft \in Draft : Edit(r, draft)
    <2>1. PICK k \in DOMAIN d, s \in {q.statement : q \in Entered} :
              Edit(r, [d EXCEPT ![k].statement = s])
        BY <1>4 DEF EditStatement
    <2>2. s \in Statements
        BY EnteredAssumption DEF Requirement
    <2>3. PICK q : q = [d[k] EXCEPT !.statement = s]
        OBVIOUS
    <2>4. q \in Requirement
        BY <1>2, <2>2, <2>3 DEF Requirement
    <2>5. [d EXCEPT ![k].statement = s] = [d EXCEPT ![k] = q]
        BY <2>3
    <2> QED BY <2>1, <2>4, <2>5, <1>3
<1>5. ASSUME EditRationale(r) PROVE \E draft \in Draft : Edit(r, draft)
    <2>1. PICK k \in DOMAIN d, n \in Rationales : Edit(r, [d EXCEPT ![k].rationale = n])
        BY <1>5 DEF EditRationale
    <2>2. PICK q : q = [d[k] EXCEPT !.rationale = n]
        OBVIOUS
    <2>3. q \in Requirement
        BY <1>2, <2>2 DEF Requirement
    <2>4. [d EXCEPT ![k].rationale = n] = [d EXCEPT ![k] = q]
        BY <2>2
    <2> QED BY <2>1, <2>3, <2>4, <1>3
<1>6. ASSUME EditCitation(r) PROVE \E draft \in Draft : Edit(r, draft)
    <2>1. PICK k \in DOMAIN d, c \in Citations, p \in Spans :
              Edit(r, [d EXCEPT ![k].citation = c, ![k].span = p])
        BY <1>6 DEF EditCitation
    <2>2. PICK q : q = [d[k] EXCEPT !.citation = c]
        OBVIOUS
    <2>3. PICK t : t = [q EXCEPT !.span = p]
        OBVIOUS
    <2>4. q \in Requirement /\ t \in Requirement
        BY <1>2, <2>2, <2>3 DEF Requirement
    <2>5. [d EXCEPT ![k].citation = c, ![k].span = p] = [d EXCEPT ![k] = t]
        BY <2>2, <2>3
    <2> QED BY <2>1, <2>4, <2>5, <1>3
<1>7. ASSUME EditRequirement(r) PROVE \E draft \in Draft : Edit(r, draft)
    BY <1>7, <1>3, EnteredAssumption DEF EditRequirement
<1>8. ASSUME AddRequirement(r) PROVE \E draft \in Draft : Edit(r, draft)
    <2>1. \A q \in Requirement : Append(d, q) \in Draft
        BY <1>1 DEF Draft
    <2> QED BY <2>1, <1>8, EnteredAssumption DEF AddRequirement
<1>9. ASSUME RemoveRequirement(r) PROVE \E draft \in Draft : Edit(r, draft)
    <2>1. PICK k \in DOMAIN d : Edit(r, RemoveAt(d, k))
        BY <1>9 DEF RemoveRequirement
    <2>2. SubSeq(d, 1, k - 1) \in Draft /\ SubSeq(d, k + 1, Len(d)) \in Draft
        BY <1>2, SubSeqProperties DEF Draft
    <2>3. RemoveAt(d, k) \in Draft
        BY <2>2, ConcatProperties DEF RemoveAt, Draft
    <2> QED BY <2>1, <2>3
<1>10. \E draft \in Draft : Edit(r, draft)
    BY <1>4, <1>5, <1>6, <1>7, <1>8, <1>9 DEF Edits
<1> QED BY <1>1, <1>10 DEF Edit

-----------------------------------------------------------------------------
LEMMA WriteBundleStep ==
    ASSUME ReviewInv, NEW draft \in Draft, WriteBundle(draft)
    PROVE  ReviewInv'
<1>1. bundle' \in Draft /\ bundle' # None /\ UNCHANGED <<signals, saved, session, result, frozen>>
    BY NoneAssumption DEF WriteBundle
<1> QED BY <1>1, SameText DEF ReviewInv, Drafts, Reviews, Opened

LEMMA ProposeStep ==
    ASSUME ReviewInv, NEW answers \in Answers, ProposeRequirements(answers)
    PROVE  ReviewInv'
<1> DEFINE located == [k \in DOMAIN answers |-> Located(answers[k])]
<1>1. DOMAIN answers = 1..Len(answers) /\ Len(answers) \in Nat
    BY AnswersAssumption, LenProperties
<1>2. \A k \in DOMAIN answers : Located(answers[k]) \in Requirement
    BY LocatedIsRequirement DEF ProposeRequirements
<1>3. located \in [1..Len(answers) -> Requirement]
    BY <1>1, <1>2
<1>4. located \in Draft
    BY <1>1, <1>3 DEF Draft
<1>5. WriteBundle(FirstWins(located))
    BY DEF ProposeRequirements
<1> HIDE DEF located
<1> QED BY <1>4, <1>5, FirstWinsIsDraft, WriteBundleStep

LEMMA CreateBundleStep ==
    ASSUME ReviewInv, CreateBundleFromContract \/ \E draft \in Raw : CreateBundle(draft)
    PROVE  ReviewInv'
<1>1. CASE \E draft \in Raw : CreateBundle(draft)
    BY <1>1, EnteredAssumption, WriteBundleStep DEF CreateBundle
<1>2. CASE CreateBundleFromContract
    <2>1. saved.contract \in ValidContracts
        BY <1>2 DEF CreateBundleFromContract, ReadyForFreeze, ReviewInv, Reviews, Reviewed
    <2>2. saved.contract.requirements \in Draft
        BY <2>1 DEF ValidContracts
    <2>3. WriteBundle(saved.contract.requirements)
        BY <1>2 DEF CreateBundleFromContract
    <2> QED BY <2>2, <2>3, WriteBundleStep
<1> QED BY <1>1, <1>2

LEMMA SessionStep ==
    ASSUME ReviewInv, NEW r \in Reviewers, OpenSession(r) \/ Edits(r) \/ SaveBundle(r)
    PROVE  ReviewInv'
<1>1. /\ UNCHANGED <<signals, saved, result, frozen>> /\ bundle # None
      /\ bundle' \in Draft /\ bundle' # None
      /\ \E draft \in Draft \cup {None} : session' = [session EXCEPT ![r] = draft]
    <2>1. CASE OpenSession(r)
        BY <2>1 DEF OpenSession, ReviewInv, Drafts
    <2>2. CASE Edits(r)
        BY <2>2, EditsGiveDrafts DEF ReviewInv, Drafts, Opened
    <2>3. CASE SaveBundle(r)
        <3>1. bundle # None /\ session[r] \in Draft /\ bundle \in Draft
            BY <2>3 DEF SaveBundle, ReviewInv, Drafts, Opened
        <3>2. bundle' \in {bundle, session[r]}
            BY <2>3 DEF SaveBundle
        <3> QED BY <3>1, <3>2, <2>3, NoneAssumption DEF SaveBundle, Close
    <2> QED BY <2>1, <2>2, <2>3
<1>2. PICK draft \in Draft \cup {None} : session' = [session EXCEPT ![r] = draft]
    BY <1>1
<1>3. session' \in [Reviewers -> Draft \cup {None}]
    BY <1>2 DEF ReviewInv, Drafts
<1> QED BY <1>1, <1>3, SameText DEF ReviewInv, Drafts, Reviews, Opened

LEMMA ResultStep ==
    ASSUME ReviewInv, NEW r \in Reviewers,
           Reject(r) \/ LoadResult(r) \/ \E m \in Manifests : Approve(r, m)
    PROVE  ReviewInv'
<1>1. UNCHANGED <<signals, bundle, saved, session, frozen>> /\ bundle # None
    BY DEF Reject, LoadResult, Approve, ReviewInv, Opened
<1>2. PICK x : x \in Reviewed /\ result' = [result EXCEPT ![r] = x]
    <2>1. CASE Reject(r)
        BY <2>1 DEF Reject, Reviewed
    <2>2. CASE LoadResult(r)
        BY <2>2 DEF LoadResult, ReviewInv, Reviews
    <2>3. CASE \E m \in Manifests : Approve(r, m)
        <3>1. PICK m \in Manifests : Approve(r, m)
            BY <2>3
        <3>2. session[r] \in Draft /\ Valid(session[r], Canonical)
            BY <3>1 DEF Approve, Approvable, ReviewInv, Drafts
        <3>3. PICK c : c = Contract(session[r])
            OBVIOUS
        <3>4. c \in ValidContracts
            BY <3>2, <3>3, ContractIsValid
        <3>5. result' = [result EXCEPT ![r] = [decision |-> "APPROVED", contract |-> c]]
            BY <3>1, <3>3 DEF Approve
        <3> QED BY <3>4, <3>5 DEF Reviewed
    <2> QED BY <2>1, <2>2, <2>3
<1>3. result' \in [Reviewers -> Reviewed \cup {None}]
    BY <1>2 DEF ReviewInv, Reviews
<1> QED BY <1>1, <1>3, SameText DEF ReviewInv, Drafts, Reviews, Opened

LEMMA SaveResultStep ==
    ASSUME ReviewInv, NEW r \in Reviewers, SaveResult(r)
    PROVE  ReviewInv'
<1>1. /\ UNCHANGED <<signals, bundle, frozen>> /\ bundle # None /\ saved' \in Reviewed
      /\ result' = [result EXCEPT ![r] = None] /\ session' = [session EXCEPT ![r] = None]
    BY DEF SaveResult, Close, ReviewInv, Reviews, Opened
<1>2. /\ result' \in [Reviewers -> Reviewed \cup {None}]
      /\ session' \in [Reviewers -> Draft \cup {None}]
    BY <1>1 DEF ReviewInv, Reviews, Drafts
<1> QED BY <1>1, <1>2, SameText DEF ReviewInv, Drafts, Reviews, Opened

LEMMA FreezeStep ==
    ASSUME ReviewInv, NEW r \in Reviewers, Freeze(r)
    PROVE  ReviewInv'
<1>1. PICK c : c = result[r].contract
    OBVIOUS
<1>2. c \in ValidContracts
    BY <1>1 DEF Freeze, ReadyForFreeze, ReviewInv, Reviews, Reviewed
<1>3. PICK f : f = [digest |-> Payload(c), requirements |-> c.requirements]
    OBVIOUS
<1>4. Named(f)
    <2>1. f.requirements = c.requirements /\ f.digest = Payload(c)
        BY <1>3
    <2>2. c.requirements \in Draft /\ Valid(c.requirements, Canonical) /\ c.class = Top
        BY <1>2 DEF ValidContracts
    <2>3. Payload(c) = [class |-> Top, certainty |-> Certainty,
                        requirements |-> InOrder(c.requirements)]
        BY <2>2 DEF Payload
    <2> QED BY <2>1, <2>2, <2>3 DEF Named
<1>5. frozen' = frozen \cup {f} /\ UNCHANGED <<signals, bundle, saved, session, result>>
    BY <1>1, <1>3 DEF Freeze
<1>6. \A e \in frozen' : Named(e)
    BY <1>4, <1>5 DEF ReviewInv
<1> QED BY <1>5, <1>6, SameText DEF ReviewInv, Drafts, Reviews, Opened

LEMMA ReviewStep == ReviewInv /\ [Next]_vars => ReviewInv'
<1> SUFFICES ASSUME ReviewInv, [Next]_vars PROVE ReviewInv'
    OBVIOUS
<1>1. CASE \E answers \in Answers : ProposeRequirements(answers)
    BY <1>1, ProposeStep
<1>2. CASE CreateBundleFromContract \/ \E draft \in Raw : CreateBundle(draft)
    BY <1>2, CreateBundleStep
<1>3. CASE UNCHANGED vars
    BY <1>3, SameText DEF vars, ReviewInv, Drafts, Reviews, Opened
<1>4. ASSUME NEW r \in Reviewers, OpenSession(r) \/ Edits(r) \/ SaveBundle(r) PROVE ReviewInv'
    BY <1>4, SessionStep
<1>5. ASSUME NEW r \in Reviewers,
             Reject(r) \/ LoadResult(r) \/ \E m \in Manifests : Approve(r, m)
      PROVE  ReviewInv'
    BY <1>5, ResultStep
<1> QED BY <1>1, <1>2, <1>3, <1>4, <1>5, SaveResultStep, FreezeStep DEF Next, Edits

\* Approvals are of valid requirements wherever they are kept, and a digest is
\* that of the requirements in their order (review.py, freeze.py).
THEOREM ReviewInvariant == Spec => []ReviewInv
<1>1. Init => ReviewInv
    BY DEF Init, ReviewInv, Drafts, Reviews, Opened
<1> QED BY <1>1, ReviewStep, PTL DEF Spec

\* Under whatever manifest an approval was asked for, and through whichever file
\* it came, what is frozen passes the canonical validation as it stands
\* (review.py:302-445, freeze.py:720-785).
THEOREM FrozenIsValid == Spec => []FrozenContractValid
<1>1. ReviewInv => FrozenContractValid
    BY DEF ReviewInv, Named, FrozenContractValid
<1> QED BY <1>1, ReviewInvariant, PTL

\* Two frozen contracts have one digest exactly if they have the same
\* requirements, whatever their drafts' order and number (freeze.py:107-160).
THEOREM DigestsNameRequirements == Spec => []DigestNamesRequirements
<1>1. ASSUME NEW c, NEW e, Named(c), Named(e)
      PROVE  c.digest = e.digest <=> ToSet(c.requirements) = ToSet(e.requirements)
    <2>1. c.digest = e.digest <=> InOrder(c.requirements) = InOrder(e.requirements)
        BY <1>1 DEF Named
    <2>2. ToSet(InOrder(c.requirements)) = ToSet(c.requirements)
          /\ ToSet(InOrder(e.requirements)) = ToSet(e.requirements)
        BY <1>1, InOrderArranges DEF Named
    <2>3. Distinct(c.requirements) /\ Distinct(e.requirements)
        BY <1>1 DEF Named, Valid
    <2>4. ToSet(c.requirements) = ToSet(e.requirements) =>
              InOrder(c.requirements) = InOrder(e.requirements)
        BY <1>1, <2>3, SameRequirementsSameOrder DEF Named
    <2> QED BY <2>1, <2>2, <2>4
<1>2. ReviewInv => DigestNamesRequirements
    BY <1>1 DEF ReviewInv, DigestNamesRequirements
<1> QED BY <1>2, ReviewInvariant, PTL

\* An approval that a process gets hold of is of its session's draft or of the
\* bundle beside the file it was loaded from (review.py:470-598).
THEOREM ApprovalsArePresent == Spec => ApprovalOfPresentDraft
<1> DEFINE Present ==
        \A r \in Reviewers :
            result'[r] # result[r] /\ ReadyForFreeze(result'[r]) =>
                \E draft \in {bundle, session[r]} \ {None} :
                    result'[r].contract = Contract(draft)
<1>1. ReviewInv /\ [Next]_vars => [Present]_vars
    <2> SUFFICES ASSUME ReviewInv, Next, NEW r \in Reviewers, result'[r] # result[r],
                        ReadyForFreeze(result'[r])
                 PROVE  \E draft \in {bundle, session[r]} \ {None} :
                            result'[r].contract = Contract(draft)
        OBVIOUS
    <2>1. PICK q \in Reviewers : \/ Reject(q) \/ SaveResult(q) \/ LoadResult(q)
                                 \/ \E m \in Manifests : Approve(q, m)
        BY DEF Next, ProposeRequirements, CreateBundle, CreateBundleFromContract, WriteBundle,
           OpenSession, EditStatement, EditRationale, EditCitation, EditRequirement, AddRequirement,
           RemoveRequirement, Edit, SaveBundle, Freeze
    <2>2. result \in [Reviewers -> Reviewed \cup {None}]
        BY DEF ReviewInv, Reviews
    <2>3. CASE Reject(q) \/ SaveResult(q)
        BY <2>2, <2>3 DEF Reject, SaveResult, ReadyForFreeze
    <2>4. CASE LoadResult(q)
        BY <2>2, <2>4 DEF LoadResult, ReadyForFreeze, ReviewInv, Opened
    <2>5. CASE \E m \in Manifests : Approve(q, m)
        BY <2>2, <2>5 DEF Approve
    <2> QED BY <2>1, <2>3, <2>4, <2>5
<1> QED BY <1>1, ReviewInvariant, PTL DEF Spec, ApprovalOfPresentDraft

=============================================================================
