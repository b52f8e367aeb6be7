------------------------ MODULE LiveExecution_proofs ------------------------
(***************************************************************************)
(* Proofs, for any numbers of runs, grants, keys and deliveries, in four   *)
(* parts.  I, about the ledger by itself: one run in flight, one run per   *)
(* grant and per key, a reservation that is neither leaked nor released    *)
(* twice, receipts for completed runs only, exceptions spent by their own  *)
(* grant.  II, the ledger's money: what it holds falls by what a release   *)
(* gives back and by nothing else.  III, about a live run end to end: it   *)
(* keeps the ledger's safety, the bridge's store keeps its promise, and a  *)
(* receipt is always that of a stored execution.  IV: an execution that    *)
(* was waited for is paid for.                                             *)
(***************************************************************************)
EXTENDS LiveExecution, FiniteSetTheorems, TLAPS

-----------------------------------------------------------------------------
(* I. The ledger.                                                          *)

IndInv ==
  /\ TypeOK
  /\ OneActiveRun
  /\ ReservationOfActiveRun
  /\ GrantFundsOneRun
  /\ KeyNamesOneRun
  /\ ExceptionFollowsItsGrant
  /\ TotalIsObservedPlusUnknown
  /\ ReceiptIffCompleted
  /\ HandlerOwnsRun

-----------------------------------------------------------------------------
(* The cost recovery moves, when there is no orphan and when there is one: *)
(* the invariant leaves no other case.                                     *)

LEMMA OrphanedCostOfNone ==
  ASSUME Orphans = {} PROVE OrphanedCost = 0
<1> DEFINE iter[s \in SUBSET Orphans] ==
             IF s = {} THEN 0
             ELSE LET x == CHOOSE y \in s : TRUE
                  IN  runs[x].reserved + iter[s \ {x}]
           F == [s \in SUBSET Orphans |-> 0]
<1>1. OrphanedCost = iter[Orphans]
  BY DEF OrphanedCost, MapThenSumSet, MapThenFoldSet
<1>2. F = [s \in SUBSET Orphans |->
             IF s = {} THEN 0
             ELSE LET x == CHOOSE y \in s : TRUE
                  IN  runs[x].reserved + F[s \ {x}]]
  OBVIOUS
<1>3. iter = [s \in SUBSET Orphans |->
                IF s = {} THEN 0
                ELSE LET x == CHOOSE y \in s : TRUE
                     IN  runs[x].reserved + iter[s \ {x}]]
  BY <1>2
<1>4. QED BY <1>1, <1>3

LEMMA OrphanedCostOfOne ==
  ASSUME NEW r \in Runs, Orphans = {r}, runs[r].reserved \in Nat
  PROVE  OrphanedCost = runs[r].reserved
<1> DEFINE iter[s \in SUBSET Orphans] ==
             IF s = {} THEN 0
             ELSE LET x == CHOOSE y \in s : TRUE
                  IN  runs[x].reserved + iter[s \ {x}]
           F == [s \in SUBSET Orphans |-> IF s = {} THEN 0 ELSE runs[r].reserved]
<1>1. OrphanedCost = iter[Orphans]
  BY DEF OrphanedCost, MapThenSumSet, MapThenFoldSet
<1>2. F = [s \in SUBSET Orphans |->
             IF s = {} THEN 0
             ELSE LET x == CHOOSE y \in s : TRUE
                  IN  runs[x].reserved + F[s \ {x}]]
  <2> DEFINE G == [s \in SUBSET Orphans |->
             IF s = {} THEN 0
             ELSE LET x == CHOOSE y \in s : TRUE
                  IN  runs[x].reserved + F[s \ {x}]]
  <2>1. SUFFICES ASSUME NEW s \in SUBSET Orphans PROVE F[s] = G[s]
    OBVIOUS
  <2>2. CASE s = {}
    BY <2>2
  <2>3. CASE s # {}
    <3>1. s = {r} /\ (CHOOSE y \in s : TRUE) = r
      BY <2>3
    <3>2. s \ {r} = {} /\ {} \in SUBSET Orphans
      BY <3>1
    <3>3. F[{}] = 0
      BY <3>2
    <3>4. G[s] = runs[r].reserved + F[{}]
      BY <3>1, <3>2, <2>3
    <3>5. QED BY <3>1, <3>3, <3>4
  <2>4. QED BY <2>2, <2>3
<1>3. iter = [s \in SUBSET Orphans |->
                IF s = {} THEN 0
                ELSE LET x == CHOOSE y \in s : TRUE
                     IN  runs[x].reserved + iter[s \ {x}]]
  <2>1. \E f : f = [s \in SUBSET Orphans |->
             IF s = {} THEN 0
             ELSE LET x == CHOOSE y \in s : TRUE
                  IN  runs[x].reserved + f[s \ {x}]]
    BY <1>2
  <2>2. QED BY <2>1
<1> HIDE DEF iter
<1>4. iter[{}] = 0
  BY <1>3
<1>5. {r} # {} /\ (CHOOSE y \in {r} : TRUE) = r /\ {r} \ {r} = {}
  OBVIOUS
<1>6. iter[{r}] = runs[r].reserved + iter[{}]
  BY <1>3, <1>5
<1>7. QED BY <1>1, <1>4, <1>6

(* What recovery leaves behind satisfies the reservation invariant again.  *)
LEMMA RecoveryKeepsReservation ==
  ASSUME IndInv
  PROVE  /\ OrphanedCost \in Nat
         /\ RunsAfterRecovery \in [Runs -> Run]
         /\ CostsAfterRecovery \in Costs
         /\ CostsAfterRecovery.total = CostsAfterRecovery.observed + CostsAfterRecovery.unknown
         /\ \A r \in Runs :
              IF RunsAfterRecovery[r].status \in ActiveStatus
              THEN CostsAfterRecovery.reserved = RunsAfterRecovery[r].reserved
              ELSE RunsAfterRecovery[r].reserved = 0
         /\ ~Busy => CostsAfterRecovery.reserved = 0
<1> USE DEF IndInv, TypeOK, Costs, ActiveStatus
<1>a. /\ costs.reserved \in Nat /\ costs.observed \in Nat /\ costs.unknown \in Nat
      /\ costs.total \in Nat
      /\ \A r \in Runs : runs[r] \in Run /\ runs[r].reserved \in Nat
  BY DEF Run
<1>b. /\ CostsAfterRecovery.reserved = ClampedMinus(costs.reserved, OrphanedCost)
      /\ CostsAfterRecovery.observed = costs.observed
      /\ CostsAfterRecovery.unknown = costs.unknown + OrphanedCost
      /\ CostsAfterRecovery.total =
           (IF Orphans = {} THEN costs.total ELSE costs.observed + costs.unknown + OrphanedCost)
  BY DEF CostsAfterRecovery
<1>r. RunsAfterRecovery \in [Runs -> Run]
  BY <1>a, ZenonT(60) DEF RunsAfterRecovery, Run, RunStatus
<1>1. CASE Orphans = {}
  <2>1. OrphanedCost = 0
    BY <1>1, OrphanedCostOfNone
  <2>2. RunsAfterRecovery = runs
    BY <1>1 DEF RunsAfterRecovery
  <2>3. CostsAfterRecovery.reserved = costs.reserved
    BY <2>1, <1>a, <1>b DEF ClampedMinus
  <2>4. CostsAfterRecovery \in Costs
    BY <2>1, <2>3, <1>a, <1>b DEF CostsAfterRecovery
  <2>5. CostsAfterRecovery.total = CostsAfterRecovery.observed + CostsAfterRecovery.unknown
    BY <2>1, <1>1, <1>a, <1>b DEF TotalIsObservedPlusUnknown
  <2>6. QED BY <1>r, <2>1, <2>2, <2>3, <2>4, <2>5 DEF ReservationOfActiveRun, Active, Busy
<1>2. CASE Orphans # {}
  <2>1. PICK o \in Runs : o \in Orphans
    BY <1>2 DEF Orphans
  <2>2. Orphans = {o} /\ Active(o) /\ \A r \in Runs \ {o} : ~Active(r)
    BY <2>1 DEF Orphans, OneActiveRun
  <2>3. OrphanedCost = runs[o].reserved
    BY <2>2, <1>a, OrphanedCostOfOne
  <2>4. costs.reserved = runs[o].reserved
    BY <2>2 DEF ReservationOfActiveRun
  <2>5. CostsAfterRecovery.reserved = 0
    BY <2>3, <2>4, <1>a, <1>b DEF ClampedMinus
  <2>6. CostsAfterRecovery \in Costs
    BY <2>3, <2>5, <1>2, <1>a, <1>b DEF CostsAfterRecovery
  <2>7. CostsAfterRecovery.total = CostsAfterRecovery.observed + CostsAfterRecovery.unknown
    BY <2>3, <1>2, <1>a, <1>b
  <2>8. \A r \in Runs : RunsAfterRecovery[r].status \notin ActiveStatus
                        /\ RunsAfterRecovery[r].reserved = 0
    BY <2>2, <1>a DEF RunsAfterRecovery, Active, ReservationOfActiveRun, Run
  <2>9. QED BY <1>r, <1>a, <2>3, <2>5, <2>6, <2>7, <2>8
<1>3. QED BY <1>1, <1>2

-----------------------------------------------------------------------------
(* The three ways tables grants and exceptions are rewritten outside of a  *)
(* reservation keep what the invariant says about them.                    *)

(* Recovery's rewriting of the two tables only relabels rows.              *)
LEMMA ExpiryOnlyRelabels ==
  ASSUME TypeOK
  PROVE  /\ GrantsAfterExpiry \in [Tokens -> Grant]
         /\ ExceptionsAfterExpiry \in [Tokens -> Exception]
         /\ \A t \in Tokens :
              /\ GrantsAfterExpiry[t].uses = grants[t].uses
              /\ GrantsAfterExpiry[t].ttl = grants[t].ttl
              /\ \/ GrantsAfterExpiry[t].status = grants[t].status
                 \/ grants[t].status = "ISSUED" /\ GrantsAfterExpiry[t].status = "EXPIRED"
              /\ ExceptionsAfterExpiry[t].run = exceptions[t].run
              /\ \/ ExceptionsAfterExpiry[t].status = exceptions[t].status
                 \/ /\ exceptions[t].status = "AUTHORIZED"
                    /\ ExceptionsAfterExpiry[t].status = "EXPIRED"
  BY DEF TypeOK, GrantsAfterExpiry, ExceptionsAfterExpiry, Stale, Grant, Exception,
         GrantStatus, ExceptionStatus

(* What recovery does to a row: it leaves every field that names the run,  *)
(* and an active row at most becomes TIMED_OUT.                            *)
LEMMA RecoveryOnlyTimesOut ==
  ASSUME TypeOK
  PROVE  \A r \in Runs :
           /\ RunsAfterRecovery[r].key = runs[r].key
           /\ RunsAfterRecovery[r].token = runs[r].token
           /\ \/ RunsAfterRecovery[r] = runs[r]
              \/ Active(r) /\ RunsAfterRecovery[r].status = "TIMED_OUT"
  BY DEF TypeOK, RunsAfterRecovery, Orphans, Run

-----------------------------------------------------------------------------
(* One lemma per group of actions.                                         *)

LEMMA InitInv == Init => IndInv
<1> SUFFICES ASSUME Init PROVE IndInv
  OBVIOUS
<1>1. TypeOK
  <2>1. config \in [kill : BOOLEAN, gate : BOOLEAN, commit : Commits, cap : LifetimeCaps]
    BY DEF Init
  <2>2. grants \in [Tokens -> Grant] /\ exceptions \in [Tokens -> Exception]
    BY DEF Init, Grant, GrantStatus, NoGrant, Exception, ExceptionStatus, NoException
  <2>3. runs \in [Runs -> Run] /\ costs \in Costs
    BY DEF Init, Run, RunStatus, NoRun, Costs
  <2>4. QED BY <2>1, <2>2, <2>3 DEF Init, TypeOK, HandlerState
<1>2. \A r \in Runs : ~Admitted(r) /\ ~Active(r) /\ runs[r].reserved = 0
  BY DEF Init, NoRun, Admitted, Active, ActiveStatus
<1>3. OneActiveRun /\ ReservationOfActiveRun /\ GrantFundsOneRun /\ KeyNamesOneRun
  BY <1>2 DEF Init, OneActiveRun, ReservationOfActiveRun, GrantFundsOneRun, KeyNamesOneRun
<1>4. ExceptionFollowsItsGrant
  BY DEF Init, ExceptionFollowsItsGrant, NoException
<1>5. TotalIsObservedPlusUnknown /\ ReceiptIffCompleted
  BY DEF Init, TotalIsObservedPlusUnknown, ReceiptIffCompleted, NoRun
<1>6. HandlerOwnsRun
  BY <1>2 DEF Init, HandlerOwnsRun
<1>7. QED BY <1>1, <1>3, <1>4, <1>5, <1>6 DEF IndInv

LEMMA StutterInv == ASSUME IndInv, UNCHANGED vars PROVE IndInv'
  BY DEF IndInv, vars, TypeOK, OneActiveRun, ReservationOfActiveRun, GrantFundsOneRun,
     KeyNamesOneRun, ExceptionFollowsItsGrant, TotalIsObservedPlusUnknown, ReceiptIffCompleted,
     HandlerOwnsRun, Active, Admitted

LEMMA ConfigureInv == ASSUME IndInv, Configure PROVE IndInv'
<1>1. /\ UNCHANGED <<grants, runs, costs, released, exceptions, receipts, handler>>
      /\ TypeOK'
  BY DEF Configure, SetKillSwitch, ConfigureLiveGate, ConfigureInvocationCap,
     ConfigureSourceCommit, IndInv, TypeOK
<1>2. QED
  BY <1>1 DEF IndInv, OneActiveRun, ReservationOfActiveRun, GrantFundsOneRun, KeyNamesOneRun,
     ExceptionFollowsItsGrant, TotalIsObservedPlusUnknown, ReceiptIffCompleted, HandlerOwnsRun,
     Active, Admitted

(* A step that leaves runs, receipts and handlers alone and treats grants  *)
(* and exceptions well.                                                    *)
LEMMA TablesInv ==
  ASSUME IndInv, TypeOK', UNCHANGED <<runs, receipts, handler>>,
         costs'.reserved = costs.reserved, TotalIsObservedPlusUnknown',
         \A t \in Tokens :
            grants[t].status \in {"CONSUMED", "EXPIRED"} /\ grants[t].uses = 1 =>
              grants'[t].status \in {"CONSUMED", "EXPIRED"} /\ grants'[t].uses = 1,
         ExceptionFollowsItsGrant'
  PROVE  IndInv'
<1>1. \A r \in Runs : (Active(r)' <=> Active(r)) /\ (Admitted(r)' <=> Admitted(r))
  BY DEF Active, Admitted
<1>2. OneActiveRun' /\ ReservationOfActiveRun' /\ KeyNamesOneRun' /\ ReceiptIffCompleted'
      /\ HandlerOwnsRun'
  BY <1>1 DEF IndInv, OneActiveRun, ReservationOfActiveRun, KeyNamesOneRun, ReceiptIffCompleted,
     HandlerOwnsRun
<1>3. GrantFundsOneRun'
  BY <1>1 DEF IndInv, GrantFundsOneRun, HandlerOwnsRun
<1>4. QED BY <1>2, <1>3 DEF IndInv

LEMMA IssueGrantInv ==
  ASSUME IndInv, NEW t \in Tokens, NEW ttl \in TTLs, NEW cap \in Caps, NEW balance \in Balances,
         IssueGrant(t, ttl, cap, balance)
  PROVE  IndInv'
<1>1. ttl \in Int /\ cap \in Nat /\ balance \in Nat
  BY CostAssumption, ClockAssumption
<1>2. TypeOK'
  BY <1>1 DEF IndInv, TypeOK, IssueGrant, Grant, GrantStatus
<1>3. \A u \in Tokens :
        /\ grants[u].status \in {"CONSUMED", "EXPIRED"} => grants'[u] = grants[u]
        /\ exceptions[u].status = "AUTHORIZED" => grants'[u].uses = 0
  BY DEF IndInv, TypeOK, IssueGrant, ExceptionFollowsItsGrant
<1>4. ExceptionFollowsItsGrant'
  BY <1>3 DEF IndInv, IssueGrant, ExceptionFollowsItsGrant, Admitted
<1>5. TotalIsObservedPlusUnknown'
  BY DEF IndInv, IssueGrant, TotalIsObservedPlusUnknown
<1>6. QED BY <1>2, <1>3, <1>4, <1>5, TablesInv DEF IssueGrant

(* Expiry alone, and expiry followed by the grant of an exception.         *)
LEMMA ExpiryExceptionInv ==
  ASSUME IndInv, runs' = RunsAfterRecovery \/ runs' = runs,
         exceptions' = ExceptionsAfterExpiry,
         \A t \in Tokens : grants'[t].uses = grants[t].uses
  PROVE  ExceptionFollowsItsGrant'
<1>1. \A r \in Runs : Admitted(r) => Admitted(r)' /\ runs'[r].token = runs[r].token
  BY RecoveryOnlyTimesOut DEF IndInv, Admitted
<1>2. \A t \in Tokens :
        /\ exceptions'[t].run = exceptions[t].run
        /\ exceptions'[t].status = "CONSUMED" => exceptions[t].status = "CONSUMED"
        /\ exceptions'[t].status = "AUTHORIZED" => exceptions[t].status = "AUTHORIZED"
  BY ExpiryOnlyRelabels DEF IndInv
<1>3. QED BY <1>1, <1>2 DEF IndInv, ExceptionFollowsItsGrant

LEMMA ExpireExceptionsInv == ASSUME IndInv, ExpireStaleCostHoldExceptions PROVE IndInv'
<1>1. TypeOK'
  BY ExpiryOnlyRelabels DEF IndInv, TypeOK, ExpireStaleCostHoldExceptions
<1>2. ExceptionFollowsItsGrant'
  BY ExpiryExceptionInv, ExpiryOnlyRelabels DEF IndInv, ExpireStaleCostHoldExceptions
<1>3. QED
  BY <1>1, <1>2, TablesInv, ExpiryOnlyRelabels
  DEF IndInv, ExpireStaleCostHoldExceptions, TotalIsObservedPlusUnknown

LEMMA AuthorizeInv ==
  ASSUME IndInv, NEW t \in Tokens, AuthorizeCostHoldException(t)
  PROVE  IndInv'
<1>1. /\ grants' = GrantsAfterExpiry
      /\ GrantsAfterExpiry[t].uses < 1
      /\ \A u \in Tokens : ExceptionsAfterExpiry[u].status # "AUTHORIZED"
      /\ exceptions' = [ExceptionsAfterExpiry EXCEPT
                          ![t] = [status |-> "AUTHORIZED", unknown |-> costs.unknown,
                                  cap |-> grants[t].cap,
                                  balance |-> grants[t].balance, run |-> Null]]
      /\ UNCHANGED <<runs, costs, released, receipts, config, handler>>
  BY DEF AuthorizeCostHoldException, MayAuthorize
<1>2. TypeOK'
  BY <1>1, ExpiryOnlyRelabels
  DEF IndInv, TypeOK, Exception, ExceptionStatus, Grant, Costs
<1>3. /\ exceptions'[t].status = "AUTHORIZED"
      /\ \A u \in Tokens \ {t} : exceptions'[u] = ExceptionsAfterExpiry[u]
  BY <1>1, ExpiryOnlyRelabels DEF IndInv
<1>4. \A u \in Tokens : exceptions'[u].status = "CONSUMED" =>
        exceptions[u].status = "CONSUMED" /\ exceptions'[u].run = exceptions[u].run
  BY <1>3, ExpiryOnlyRelabels DEF IndInv
<1>5. grants'[t].uses = 0
  BY <1>1, ExpiryOnlyRelabels DEF IndInv, Grant
<1>6. ExceptionFollowsItsGrant'
  BY <1>1, <1>3, <1>4, <1>5 DEF IndInv, ExceptionFollowsItsGrant, Admitted
<1>7. QED
  BY <1>1, <1>2, <1>6, TablesInv, ExpiryOnlyRelabels DEF IndInv, TotalIsObservedPlusUnknown

(* A step that changes run rows without touching what the other tables are *)
(* compared with: identity of the row, grants and exceptions.              *)
LEMMA RowsInv ==
  ASSUME IndInv, TypeOK', UNCHANGED <<exceptions>>,
         \A t \in Tokens : grants'[t].uses = grants[t].uses /\ grants'[t].status = grants[t].status,
         \A r \in Runs : /\ runs'[r].key = runs[r].key
                         /\ runs'[r].token = runs[r].token
                         /\ Admitted(r)' <=> Admitted(r)
  PROVE  GrantFundsOneRun' /\ KeyNamesOneRun' /\ ExceptionFollowsItsGrant'
<1>1. GrantFundsOneRun'
  BY DEF IndInv, GrantFundsOneRun, HandlerOwnsRun
<1>2. KeyNamesOneRun'
  BY DEF IndInv, KeyNamesOneRun
<1>3. ExceptionFollowsItsGrant'
  BY DEF IndInv, ExceptionFollowsItsGrant
<1>4. QED BY <1>1, <1>2, <1>3

LEMMA ReconcileInv ==
  ASSUME IndInv, NEW r \in Runs, NEW amount \in 1 .. runs[r].unknown,
         ReconcileUnknownCost(r, amount)
  PROVE  IndInv'
<1>1. runs \in [Runs -> Run] /\ costs \in Costs /\ amount \in Nat
      /\ runs[r].unknown \in Nat /\ runs[r].unknown - amount \in Nat
  BY DEF IndInv, TypeOK, Run
<1>2. ClampedMinus(costs.unknown, amount) \in Nat
  BY <1>1 DEF Costs, ClampedMinus
<1>3. /\ runs' = [runs EXCEPT ![r].unknown = @ - amount]
      /\ costs' = [costs EXCEPT !.unknown = ClampedMinus(costs.unknown, amount),
                                !.total = costs.observed + ClampedMinus(costs.unknown, amount)]
      /\ released' = [released EXCEPT ![r] = @ + amount]
      /\ UNCHANGED <<grants, exceptions, receipts, config, handler>>
  BY DEF ReconcileUnknownCost
<1>4. /\ costs' \in Costs /\ costs'.total = costs'.observed + costs'.unknown
      /\ costs'.reserved = costs.reserved
  <2> DEFINE left == ClampedMinus(costs.unknown, amount)
  <2>1. costs' = [costs EXCEPT !.unknown = left, !.total = costs.observed + left]
    BY <1>3
  <2>2. left \in Nat
    BY <1>2
  <2> HIDE DEF left
  <2>3. costs' = [reserved |-> costs.reserved, observed |-> costs.observed,
                  unknown |-> left, total |-> costs.observed + left]
    BY <1>1, <2>1 DEF Costs
  <2>4. costs.reserved \in Nat /\ costs.observed \in Nat /\ costs.observed + left \in Nat
    BY <1>1, <2>2 DEF Costs
  <2>5. QED BY <2>2, <2>3, <2>4 DEF Costs
<1>5. runs' \in [Runs -> Run]
  BY <1>1, <1>3 DEF Run
<1>6. TypeOK'
  BY <1>1, <1>3, <1>4, <1>5 DEF IndInv, TypeOK
<1>7. \A q \in Runs : /\ runs'[q].key = runs[q].key /\ runs'[q].token = runs[q].token
                      /\ runs'[q].status = runs[q].status
                      /\ runs'[q].reserved = runs[q].reserved
  BY <1>1, <1>3 DEF Run
<1>8. \A q \in Runs : (Admitted(q)' <=> Admitted(q)) /\ (Active(q)' <=> Active(q))
  BY <1>7 DEF Admitted, Active
<1>9. GrantFundsOneRun' /\ KeyNamesOneRun' /\ ExceptionFollowsItsGrant'
  BY <1>3, <1>6, <1>7, <1>8, RowsInv
<1>10. OneActiveRun' /\ ReservationOfActiveRun'
  BY <1>4, <1>7, <1>8 DEF IndInv, OneActiveRun, ReservationOfActiveRun
<1>11. ReceiptIffCompleted' /\ HandlerOwnsRun'
  BY <1>3, <1>7, <1>8 DEF IndInv, ReceiptIffCompleted, HandlerOwnsRun
<1>12. QED BY <1>4, <1>6, <1>9, <1>10, <1>11 DEF IndInv, TotalIsObservedPlusUnknown

(* Recovery as a step of its own, with the relabelling of grants that a    *)
(* refused or replayed admission makes.                                    *)
LEMMA RecoveryInv ==
  ASSUME IndInv, RecoverDurableState,
         grants' \in [Tokens -> Grant],
         \A t \in Tokens :
           /\ grants'[t].uses = grants[t].uses
           /\ grants[t].status \in {"CONSUMED", "EXPIRED"} =>
                grants'[t].status \in {"CONSUMED", "EXPIRED"},
         UNCHANGED <<released, receipts, config, handler>>
  PROVE  IndInv'
<1>1. runs' = RunsAfterRecovery /\ costs' = CostsAfterRecovery
      /\ exceptions' = ExceptionsAfterExpiry
  BY DEF RecoverDurableState
<1>2. TypeOK'
  BY <1>1, RecoveryKeepsReservation, ExpiryOnlyRelabels DEF IndInv, TypeOK
<1>3. \A r \in Runs : /\ runs'[r].key = runs[r].key /\ runs'[r].token = runs[r].token
                      /\ runs'[r] = runs[r] \/ (Active(r) /\ runs'[r].status = "TIMED_OUT")
  BY <1>1, RecoveryOnlyTimesOut DEF IndInv
<1>4. \A r \in Runs : /\ Admitted(r)' <=> Admitted(r)
                      /\ Active(r)' => Active(r)
                      /\ runs'[r].status = "COMPLETED" <=> runs[r].status = "COMPLETED"
  BY <1>3 DEF Admitted, Active, ActiveStatus
<1>5. OneActiveRun' /\ KeyNamesOneRun'
  BY <1>3, <1>4 DEF IndInv, OneActiveRun, KeyNamesOneRun
<1>6. ReservationOfActiveRun'
  BY <1>1, RecoveryKeepsReservation DEF ReservationOfActiveRun, Active, Busy
<1>7. GrantFundsOneRun'
  BY <1>3, <1>4 DEF IndInv, GrantFundsOneRun, HandlerOwnsRun
<1>8. ExceptionFollowsItsGrant'
  BY <1>1, ExpiryExceptionInv
<1>9. TotalIsObservedPlusUnknown'
  BY <1>1, RecoveryKeepsReservation DEF TotalIsObservedPlusUnknown
<1>10. ReceiptIffCompleted'
  BY <1>4 DEF IndInv, ReceiptIffCompleted
<1>11. HandlerOwnsRun'
  BY <1>3, <1>4 DEF IndInv, HandlerOwnsRun, ActiveStatus
<1>12. QED BY <1>2, <1>5, <1>6, <1>7, <1>8, <1>9, <1>10, <1>11 DEF IndInv

LEMMA AnswerInv ==
  ASSUME IndInv, NEW t \in Tokens, NEW k, NEW c, NEW live, AnswerWithoutReserving(t, k, c, live)
  PROVE  IndInv'
  BY RecoveryInv, ExpiryOnlyRelabels DEF IndInv, AnswerWithoutReserving

LEMMA RefuseInv ==
  ASSUME IndInv, NEW t \in Tokens, NEW k, NEW c, NEW live, RefuseExpiredGrant(t, k, c, live)
  PROVE  IndInv'
<1>1. /\ RecoverDurableState
      /\ grants' = [GrantsAfterExpiry EXCEPT ![t].status = "EXPIRED"]
      /\ UNCHANGED <<released, receipts, config, handler>>
  BY DEF RefuseExpiredGrant
<1>2. GrantsAfterExpiry \in [Tokens -> Grant]
  BY ExpiryOnlyRelabels DEF IndInv
<1>3. /\ grants' \in [Tokens -> Grant]
      /\ \A u \in Tokens : /\ grants'[u].uses = GrantsAfterExpiry[u].uses
                           /\ \/ grants'[u].status = GrantsAfterExpiry[u].status
                              \/ grants'[u].status = "EXPIRED"
  BY <1>1, <1>2 DEF Grant, GrantStatus
<1>4. QED BY <1>1, <1>3, RecoveryInv, ExpiryOnlyRelabels DEF IndInv

(* The reserving transaction.  No row is active once recovery is done, so  *)
(* the new row is the only one and its cost the whole reservation.         *)
LEMMA ReserveInv ==
  ASSUME IndInv, NEW t \in Tokens, NEW k \in Keys \cup {Null}, NEW c \in Commits, NEW live,
         NEW cost \in Estimates, NEW r \in Runs,
         Reserve(t, k, c, live, cost, r)
  PROVE  IndInv'
<1> DEFINE row == [status |-> "RESERVED", key |-> k, token |-> t, age |-> 0,
                   reserved |-> cost, observed |-> 0, unknown |-> 0]
<1>1. /\ grants[t].status # "NONE" /\ ~Bound(k) /\ ~Expired(t) /\ ~Spent(t) /\ ~Busy
      /\ ~Admitted(r)
      /\ grants' = [GrantsAfterExpiry EXCEPT ![t].status = "CONSUMED", ![t].uses = @ + 1]
      /\ exceptions' = ExceptionsSpent(t, r)
      /\ runs' = [RunsAfterRecovery EXCEPT ![r] = row]
      /\ costs' = [CostsAfterRecovery EXCEPT !.reserved = @ + cost]
      /\ handler' = [handler EXCEPT ![r] = "admitted"]
      /\ UNCHANGED <<released, receipts, config>>
  BY DEF Reserve
<1>2. cost \in Nat /\ row \in Run
  BY CostAssumption DEF Run, RunStatus, ActiveStatus
<1>3. /\ RunsAfterRecovery \in [Runs -> Run] /\ CostsAfterRecovery \in Costs
      /\ CostsAfterRecovery.total = CostsAfterRecovery.observed + CostsAfterRecovery.unknown
      /\ CostsAfterRecovery.reserved = 0
  BY <1>1, RecoveryKeepsReservation
<1>4. /\ GrantsAfterExpiry \in [Tokens -> Grant]
      /\ ExceptionsAfterExpiry \in [Tokens -> Exception]
      /\ handler \in [Runs -> HandlerState]
  BY ExpiryOnlyRelabels DEF IndInv, TypeOK
<1>5. runs' \in [Runs -> Run] /\ runs'[r] = row
      /\ \A q \in Runs \ {r} : runs'[q] = RunsAfterRecovery[q]
  <2> HIDE DEF row
  <2>1. QED BY <1>1, <1>2, <1>3
<1>6. /\ costs' \in Costs /\ costs'.reserved = cost
      /\ costs'.total = costs'.observed + costs'.unknown
  <2>1. costs' = [reserved |-> CostsAfterRecovery.reserved + cost,
                  observed |-> CostsAfterRecovery.observed,
                  unknown |-> CostsAfterRecovery.unknown, total |-> CostsAfterRecovery.total]
    BY <1>1, <1>3 DEF Costs
  <2>2. QED BY <2>1, <1>2, <1>3 DEF Costs
<1>7. /\ grants' \in [Tokens -> Grant]
      /\ grants'[t].status = "CONSUMED" /\ grants'[t].uses = GrantsAfterExpiry[t].uses + 1
      /\ \A u \in Tokens \ {t} : grants'[u] = GrantsAfterExpiry[u]
  BY <1>1, <1>4 DEF Grant, GrantStatus
<1>8. GrantsAfterExpiry[t].uses = 0 /\ grants[t].uses = 0
  BY <1>1, <1>4, ExpiryOnlyRelabels DEF Spent, Grant, IndInv
<1>9. /\ exceptions' \in [Tokens -> Exception]
      /\ exceptions'[t].status # "AUTHORIZED"
      /\ exceptions'[t].status = "CONSUMED" =>
           exceptions'[t].run = r \/ (exceptions[t].status = "CONSUMED"
                                      /\ exceptions'[t].run = exceptions[t].run)
      /\ \A u \in Tokens \ {t} : exceptions'[u] = ExceptionsAfterExpiry[u]
  <2> DEFINE e == ExceptionsAfterExpiry[t]
             spent == [e EXCEPT !.status = "CONSUMED", !.run = r]
  <2>1. CASE e.status = "AUTHORIZED"
    <3>1. exceptions' = [ExceptionsAfterExpiry EXCEPT ![t] = spent]
      BY <1>1, <2>1 DEF ExceptionsSpent
    <3>2. spent \in Exception /\ spent.status = "CONSUMED" /\ spent.run = r
      BY <1>4 DEF Exception, ExceptionStatus
    <3> HIDE DEF spent
    <3>3. /\ exceptions' \in [Tokens -> Exception] /\ exceptions'[t] = spent
          /\ \A u \in Tokens \ {t} : exceptions'[u] = ExceptionsAfterExpiry[u]
      BY <1>4, <3>1, <3>2
    <3>4. QED BY <3>2, <3>3
  <2>2. CASE e.status # "AUTHORIZED"
    <3>1. exceptions' = ExceptionsAfterExpiry
      BY <1>1, <2>2 DEF ExceptionsSpent
    <3>2. QED BY <1>4, <2>2, <3>1, ExpiryOnlyRelabels DEF IndInv
  <2>3. QED BY <2>1, <2>2
<1>10. TypeOK'
  BY <1>1, <1>4, <1>5, <1>6, <1>7, <1>9 DEF IndInv, TypeOK, HandlerState
<1>11. /\ Active(r)' /\ Admitted(r)'
       /\ \A q \in Runs \ {r} : ~Active(q)'
  BY <1>1, <1>5 DEF Active, Admitted, ActiveStatus, Busy
<1>12. \A q \in Runs \ {r} :
         /\ runs'[q].key = runs[q].key /\ runs'[q].token = runs[q].token
         /\ Admitted(q)' <=> Admitted(q)
         /\ runs'[q] = runs[q] \/ (runs'[q].status = "TIMED_OUT" /\ Active(q))
         /\ runs'[q].reserved = 0
  <2> SUFFICES ASSUME NEW q \in Runs \ {r}
               PROVE  /\ runs'[q].key = runs[q].key /\ runs'[q].token = runs[q].token
                      /\ Admitted(q)' <=> Admitted(q)
                      /\ runs'[q] = runs[q] \/ (runs'[q].status = "TIMED_OUT" /\ Active(q))
                      /\ runs'[q].reserved = 0
    OBVIOUS
  <2>1. runs'[q] = RunsAfterRecovery[q]
    BY <1>5
  <2>2. /\ RunsAfterRecovery[q].key = runs[q].key /\ RunsAfterRecovery[q].token = runs[q].token
        /\ \/ RunsAfterRecovery[q] = runs[q]
           \/ Active(q) /\ RunsAfterRecovery[q].status = "TIMED_OUT"
    BY RecoveryOnlyTimesOut DEF IndInv
  <2>3. RunsAfterRecovery[q].reserved = 0
    BY <1>1, RecoveryKeepsReservation DEF Busy
  <2>4. Admitted(q)' <=> Admitted(q)
    BY <2>1, <2>2 DEF Admitted, Active, ActiveStatus
  <2>5. QED BY <2>1, <2>2, <2>3, <2>4
<1>13. OneActiveRun' /\ ReservationOfActiveRun'
  BY <1>5, <1>6, <1>11, <1>12 DEF OneActiveRun, ReservationOfActiveRun
<1>14. GrantFundsOneRun'
  <2>1. \A q \in Runs : Admitted(q) => /\ runs[q].token # t /\ q # r
                                       /\ runs[q].token \in Tokens
    BY <1>1, <1>8 DEF IndInv, GrantFundsOneRun, HandlerOwnsRun
  <2>2. \A q \in Runs : Admitted(q) =>
          grants'[runs[q].token].uses = 1 /\ grants'[runs[q].token].status \in {"CONSUMED", "EXPIRED"}
    BY <2>1, <1>7, ExpiryOnlyRelabels DEF IndInv, GrantFundsOneRun
  <2>3. QED
    BY <2>1, <2>2, <1>5, <1>7, <1>8, <1>12 DEF IndInv, GrantFundsOneRun
<1>15. KeyNamesOneRun'
  BY <1>1, <1>5, <1>12 DEF IndInv, KeyNamesOneRun, Bound
<1>16. ExceptionFollowsItsGrant'
  <2>1. \A q \in Runs : Admitted(q) => Admitted(q)' /\ runs'[q].token = runs[q].token
    BY <1>1, <1>12
  <2>2. \A u \in Tokens : exceptions'[u].status = "CONSUMED" =>
          \E q \in Runs : exceptions'[u].run = q /\ runs'[q].token = u /\ Admitted(q)'
    BY <1>5, <1>9, <1>11, <2>1, ExpiryOnlyRelabels DEF IndInv, ExceptionFollowsItsGrant
  <2>3. \A u \in Tokens : exceptions'[u].status = "AUTHORIZED" =>
          u # t /\ exceptions[u].status = "AUTHORIZED" /\ grants'[u].uses = 0
    BY <1>7, <1>9, ExpiryOnlyRelabels DEF IndInv, ExceptionFollowsItsGrant
  <2>4. QED BY <2>2, <2>3 DEF IndInv, ExceptionFollowsItsGrant
<1>17. ReceiptIffCompleted'
  BY <1>1, <1>5, <1>12 DEF IndInv, ReceiptIffCompleted, Admitted, Active, ActiveStatus
<1>18. HandlerOwnsRun'
  BY <1>1, <1>4, <1>5, <1>11, <1>12 DEF IndInv, HandlerOwnsRun, Active, ActiveStatus
<1>19. QED
  BY <1>6, <1>10, <1>13, <1>14, <1>15, <1>16, <1>17, <1>18 DEF IndInv, TotalIsObservedPlusUnknown

LEMMA MarkInFlightInv == ASSUME IndInv, NEW r \in Runs, MarkInFlight(r) PROVE IndInv'
<1>1. /\ handler[r] = "admitted"
      /\ runs' = IF runs[r].status = "RESERVED"
                 THEN [runs EXCEPT ![r].status = "IN_FLIGHT"] ELSE runs
      /\ handler' = [handler EXCEPT ![r] = "dispatching"]
      /\ UNCHANGED <<grants, costs, released, exceptions, receipts, config>>
  BY DEF MarkInFlight
<1>2. runs' \in [Runs -> Run] /\ handler' \in [Runs -> HandlerState]
  BY <1>1 DEF IndInv, TypeOK, Run, RunStatus, ActiveStatus, HandlerState
<1>3. \A q \in Runs :
        /\ runs'[q].key = runs[q].key /\ runs'[q].token = runs[q].token
        /\ runs'[q].reserved = runs[q].reserved
        /\ \/ runs'[q].status = runs[q].status
           \/ (runs[q].status = "RESERVED" /\ runs'[q].status = "IN_FLIGHT")
  <2>1. CASE runs[r].status = "RESERVED"
    <3> SUFFICES ASSUME NEW q \in Runs
                 PROVE  /\ runs'[q].key = runs[q].key /\ runs'[q].token = runs[q].token
                        /\ runs'[q].reserved = runs[q].reserved
                        /\ \/ runs'[q].status = runs[q].status
                           \/ (runs[q].status = "RESERVED" /\ runs'[q].status = "IN_FLIGHT")
      OBVIOUS
    <3> DEFINE row == [runs[r] EXCEPT !.status = "IN_FLIGHT"]
    <3>a. /\ row.key = runs[r].key /\ row.token = runs[r].token
          /\ row.reserved = runs[r].reserved /\ row.status = "IN_FLIGHT"
      BY DEF IndInv, TypeOK, Run
    <3>b. runs' = [runs EXCEPT ![r] = row]
      BY <1>1, <2>1
    <3> HIDE DEF row
    <3>1. CASE q = r
      BY <2>1, <3>1, <3>a, <3>b DEF IndInv, TypeOK
    <3>2. CASE q # r
      BY <3>2, <3>b DEF IndInv, TypeOK
    <3>3. QED BY <3>1, <3>2
  <2>2. CASE runs[r].status # "RESERVED"
    BY <1>1, <2>2
  <2>3. QED BY <2>1, <2>2
<1>4. \A q \in Runs : (Admitted(q)' <=> Admitted(q)) /\ (Active(q)' <=> Active(q))
  BY <1>3 DEF Admitted, Active, ActiveStatus
<1>5. TypeOK'
  BY <1>1, <1>2 DEF IndInv, TypeOK
<1>6. GrantFundsOneRun' /\ KeyNamesOneRun' /\ ExceptionFollowsItsGrant'
  BY <1>1, <1>3, <1>4, <1>5, RowsInv
<1>7. OneActiveRun' /\ ReservationOfActiveRun'
  BY <1>1, <1>3, <1>4 DEF IndInv, OneActiveRun, ReservationOfActiveRun
<1>8. ReceiptIffCompleted' /\ TotalIsObservedPlusUnknown'
  BY <1>1, <1>3 DEF IndInv, ReceiptIffCompleted, TotalIsObservedPlusUnknown
<1>9. HandlerOwnsRun'
  BY <1>1, <1>3, <1>4 DEF IndInv, TypeOK, HandlerOwnsRun, ActiveStatus
<1>10. QED BY <1>5, <1>6, <1>7, <1>8, <1>9 DEF IndInv

(* What both record methods do: the row of a dispatching handler, active   *)
(* or already timed out, is settled, and its reservation leaves table      *)
(* costs exactly once (a timed out row has none left).                     *)
LEMMA SettleInv ==
  ASSUME IndInv, NEW r \in Runs, NEW status \in SettledStatus,
         NEW observed \in Nat, NEW unknown \in Nat,
         handler[r] = "dispatching",
         SettleRun(r, status, observed, unknown),
         SettleCosts(r, observed, unknown),
         receipts' = IF status = "COMPLETED" THEN receipts \cup {r} ELSE receipts,
         handler' = [handler EXCEPT ![r] = "done"],
         UNCHANGED <<grants, released, exceptions, config>>
  PROVE  IndInv'
<1>1. /\ runs[r].status \in ActiveStatus \cup {"TIMED_OUT"} /\ Admitted(r)
      /\ runs \in [Runs -> Run] /\ costs \in Costs /\ handler \in [Runs -> HandlerState]
  BY DEF IndInv, TypeOK, HandlerOwnsRun
<1>2. /\ runs' \in [Runs -> Run]
      /\ runs'[r].status = status /\ runs'[r].reserved = 0
      /\ runs'[r].key = runs[r].key /\ runs'[r].token = runs[r].token
      /\ \A q \in Runs \ {r} : runs'[q] = runs[q]
  <2> DEFINE row == [runs[r] EXCEPT !.status = status, !.reserved = 0,
                                    !.observed = observed, !.unknown = unknown]
  <2>1. row \in Run
    BY <1>1 DEF Run, RunStatus
  <2>2. runs' = [runs EXCEPT ![r] = row]
    BY DEF SettleRun
  <2>3. /\ row.status = status /\ row.reserved = 0
        /\ row.key = runs[r].key /\ row.token = runs[r].token
    BY <1>1 DEF Run
  <2> HIDE DEF row
  <2>4. runs'[r] = row /\ runs' \in [Runs -> Run] /\ \A q \in Runs \ {r} : runs'[q] = runs[q]
    BY <1>1, <2>1, <2>2
  <2>5. QED BY <2>3, <2>4
<1>3. status \notin ActiveStatus \cup {"NONE", "TIMED_OUT"}
  BY DEF SettledStatus, ActiveStatus
<1>4. \A q \in Runs : (Admitted(q)' <=> Admitted(q)) /\ (Active(q)' <=> Active(q) /\ q # r)
  BY <1>1, <1>2, <1>3 DEF Admitted, Active
<1>5. /\ runs[r].reserved \in Nat /\ costs.reserved \in Nat
      /\ costs.observed \in Nat /\ costs.unknown \in Nat
  BY <1>1 DEF Run, Costs
<1>6. /\ costs'.reserved = ClampedMinus(costs.reserved, runs[r].reserved)
      /\ costs'.reserved \in Nat
      /\ costs' \in Costs
      /\ costs'.total = costs'.observed + costs'.unknown
  BY <1>5 DEF SettleCosts, Costs, ClampedMinus
<1>7. TypeOK'
  BY <1>1, <1>2, <1>6 DEF IndInv, TypeOK, HandlerState
<1>8. GrantFundsOneRun' /\ KeyNamesOneRun' /\ ExceptionFollowsItsGrant'
  BY <1>2, <1>4, <1>7, RowsInv
<1>9. OneActiveRun'
  BY <1>4 DEF IndInv, OneActiveRun
<1>10. ReservationOfActiveRun'
  <2>1. CASE Active(r)
    <3>1. costs'.reserved = 0 /\ \A q \in Runs : ~Active(q)'
      BY <2>1, <1>4, <1>5, <1>6 DEF IndInv, OneActiveRun, ReservationOfActiveRun, ClampedMinus
    <3>2. \A q \in Runs : runs'[q].reserved = 0
      BY <2>1, <1>2 DEF IndInv, OneActiveRun, ReservationOfActiveRun
    <3>3. QED BY <3>1, <3>2 DEF ReservationOfActiveRun
  <2>2. CASE ~Active(r)
    <3>1. costs'.reserved = costs.reserved
      BY <2>2, <1>5, <1>6 DEF IndInv, ReservationOfActiveRun, ClampedMinus
    <3>2. \A q \in Runs : /\ Active(q)' <=> Active(q)
                          /\ runs'[q].reserved = runs[q].reserved
      BY <2>2, <1>2, <1>4 DEF IndInv, ReservationOfActiveRun
    <3>3. QED BY <3>1, <3>2 DEF IndInv, ReservationOfActiveRun
  <2>3. QED BY <2>1, <2>2
<1>11. ReceiptIffCompleted'
  BY <1>1, <1>2, <1>3 DEF IndInv, ReceiptIffCompleted, ActiveStatus
<1>12. HandlerOwnsRun'
  BY <1>1, <1>2, <1>4 DEF IndInv, HandlerOwnsRun
<1>13. QED
  BY <1>6, <1>7, <1>8, <1>9, <1>10, <1>11, <1>12 DEF IndInv, TotalIsObservedPlusUnknown

LEMMA ChargeIsCost == ASSUME NEW charge \in Charges \cup {Null} PROVE ChargeOf(charge) \in Nat
  BY CostAssumption DEF ChargeOf, Measured

LEMMA RecordSuccessInv ==
  ASSUME IndInv, NEW r \in Runs, NEW charge \in Charges \cup {Null},
         RecordExecutionSuccess(r, charge)
  PROVE  IndInv'
<1> DEFINE held == IF Measured(charge) THEN 0 ELSE runs[r].reserved
<1>1. held \in Nat /\ ChargeOf(charge) \in Nat
  BY ChargeIsCost DEF IndInv, TypeOK, Run
<1>2. /\ handler[r] = "dispatching"
      /\ SettleRun(r, "COMPLETED", ChargeOf(charge), held)
      /\ SettleCosts(r, ChargeOf(charge), held)
      /\ receipts' = receipts \cup {r}
      /\ handler' = [handler EXCEPT ![r] = "done"]
      /\ UNCHANGED <<grants, released, exceptions, config>>
  BY DEF RecordExecutionSuccess
<1> HIDE DEF held
<1>3. "COMPLETED" \in SettledStatus
  BY DEF SettledStatus
<1>4. QED BY <1>1, <1>2, <1>3, SettleInv

LEMMA RecordFailureInv ==
  ASSUME IndInv, NEW r \in Runs, NEW charge \in Charges \cup {Null},
         NEW ambiguous \in BOOLEAN, NEW dispatched \in BOOLEAN,
         RecordExecutionFailure(r, ambiguous, dispatched, charge)
  PROVE  IndInv'
<1> DEFINE retain == ~Measured(charge) /\ (ambiguous \/ dispatched)
           held == IF retain THEN runs[r].reserved ELSE 0
           status == IF ambiguous THEN "UNKNOWN_OUTCOME"
                     ELSE IF retain THEN "FAILED_UNRECONCILED_COST" ELSE "FAILED"
<1>1. held \in Nat /\ ChargeOf(charge) \in Nat
  BY ChargeIsCost DEF IndInv, TypeOK, Run
<1>2. /\ handler[r] = "dispatching"
      /\ SettleRun(r, status, ChargeOf(charge), held)
      /\ SettleCosts(r, ChargeOf(charge), held)
      /\ handler' = [handler EXCEPT ![r] = "done"]
      /\ UNCHANGED <<grants, released, exceptions, receipts, config>>
  BY DEF RecordExecutionFailure
<1>3. status \in SettledStatus /\ status # "COMPLETED"
  BY DEF SettledStatus
<1> HIDE DEF held, status
<1>4. QED BY <1>1, <1>2, <1>3, SettleInv

LEMMA HandlerDiesInv == ASSUME IndInv, NEW r \in Runs, HandlerDies(r) PROVE IndInv'
<1>1. /\ UNCHANGED ledger
      /\ handler[r] \in {"admitted", "dispatching"}
      /\ handler' = [handler EXCEPT ![r] = "done"]
  BY DEF HandlerDies
<1>2. \A q \in Runs : (Admitted(q)' <=> Admitted(q)) /\ (Active(q)' <=> Active(q))
  BY <1>1 DEF ledger, Admitted, Active
<1>3. TypeOK'
  BY <1>1 DEF ledger, IndInv, TypeOK, HandlerState
<1>4. /\ OneActiveRun' /\ ReservationOfActiveRun' /\ GrantFundsOneRun' /\ KeyNamesOneRun'
      /\ ExceptionFollowsItsGrant' /\ TotalIsObservedPlusUnknown' /\ ReceiptIffCompleted'
  BY <1>1, <1>2 DEF ledger, IndInv, OneActiveRun, ReservationOfActiveRun, GrantFundsOneRun,
     KeyNamesOneRun, ExceptionFollowsItsGrant, TotalIsObservedPlusUnknown, ReceiptIffCompleted
<1>5. HandlerOwnsRun'
  BY <1>1, <1>2 DEF ledger, IndInv, TypeOK, HandlerOwnsRun
<1>6. QED BY <1>3, <1>4, <1>5 DEF IndInv

LEMMA TickInv == ASSUME IndInv, Tick PROVE IndInv'
<1>1. /\ runs' = [r \in Runs |-> IF Active(r) /\ runs[r].age <= Deadline
                                 THEN [runs[r] EXCEPT !.age = @ + 1] ELSE runs[r]]
      /\ grants' = [t \in Tokens |-> IF grants[t].status # "NONE" /\ grants[t].ttl >= 0
                                     THEN [grants[t] EXCEPT !.ttl = @ - 1] ELSE grants[t]]
      /\ UNCHANGED <<costs, released, exceptions, receipts, config, handler>>
  BY DEF Tick
<1>2. /\ runs' \in [Runs -> Run]
      /\ \A r \in Runs : /\ runs'[r].status = runs[r].status
                         /\ runs'[r].key = runs[r].key /\ runs'[r].token = runs[r].token
                         /\ runs'[r].reserved = runs[r].reserved
  <2> DEFINE older(r) == [runs[r] EXCEPT !.age = @ + 1]
  <2>1. runs \in [Runs -> Run]
    BY DEF IndInv, TypeOK
  <2>2. ASSUME NEW r \in Runs
        PROVE  /\ older(r) \in Run /\ older(r).status = runs[r].status
               /\ older(r).key = runs[r].key /\ older(r).token = runs[r].token
               /\ older(r).reserved = runs[r].reserved
    <3>1. runs[r] \in Run
      BY <2>1
    <3>2. QED BY <3>1 DEF Run
  <2>3. runs' = [r \in Runs |-> IF Active(r) /\ runs[r].age <= Deadline THEN older(r) ELSE runs[r]]
    BY <1>1
  <2> HIDE DEF older
  <2>4. QED BY <2>1, <2>2, <2>3
<1>3. /\ grants' \in [Tokens -> Grant]
      /\ \A t \in Tokens : /\ grants'[t].status = grants[t].status
                           /\ grants'[t].uses = grants[t].uses
  <2> DEFINE shorter(t) == [grants[t] EXCEPT !.ttl = @ - 1]
  <2>1. grants \in [Tokens -> Grant]
    BY DEF IndInv, TypeOK
  <2>2. ASSUME NEW t \in Tokens
        PROVE  /\ shorter(t) \in Grant /\ shorter(t).status = grants[t].status
               /\ shorter(t).uses = grants[t].uses
    <3>1. grants[t] \in Grant
      BY <2>1
    <3>2. QED BY <3>1 DEF Grant
  <2>3. grants' = [t \in Tokens |-> IF grants[t].status # "NONE" /\ grants[t].ttl >= 0
                                   THEN shorter(t) ELSE grants[t]]
    BY <1>1
  <2> HIDE DEF shorter
  <2>4. QED BY <2>1, <2>2, <2>3
<1>4. \A r \in Runs : (Admitted(r)' <=> Admitted(r)) /\ (Active(r)' <=> Active(r))
  BY <1>2 DEF Admitted, Active
<1>5. TypeOK'
  BY <1>1, <1>2, <1>3 DEF IndInv, TypeOK
<1>6. OneActiveRun' /\ ReservationOfActiveRun' /\ TotalIsObservedPlusUnknown'
      /\ ReceiptIffCompleted'
  BY <1>1, <1>2, <1>4 DEF IndInv, OneActiveRun, ReservationOfActiveRun,
     TotalIsObservedPlusUnknown, ReceiptIffCompleted
<1>7. GrantFundsOneRun'
  BY <1>2, <1>3, <1>4 DEF IndInv, GrantFundsOneRun, HandlerOwnsRun
<1>8. KeyNamesOneRun'
  BY <1>2, <1>4 DEF IndInv, KeyNamesOneRun
<1>9. ExceptionFollowsItsGrant'
  BY <1>1, <1>2, <1>3, <1>4 DEF IndInv, ExceptionFollowsItsGrant
<1>10. HandlerOwnsRun'
  BY <1>1, <1>2, <1>4 DEF IndInv, HandlerOwnsRun
<1>11. QED BY <1>5, <1>6, <1>7, <1>8, <1>9, <1>10 DEF IndInv

LEMMA NextInv == ASSUME IndInv, [Next]_vars PROVE IndInv'
<1>1. CASE UNCHANGED vars
  BY <1>1, StutterInv
<1>2. CASE Configure
  BY <1>2, ConfigureInv
<1>3. CASE Operate
  BY <1>3, IssueGrantInv, ExpireExceptionsInv, AuthorizeInv, ReconcileInv DEF Operate
<1>4. CASE ReserveAdmission
  BY <1>4, AnswerInv, RefuseInv, ReserveInv DEF ReserveAdmission
<1>5. ASSUME NEW r \in Runs, Handler(r) PROVE IndInv'
  BY <1>5, MarkInFlightInv, RecordSuccessInv, RecordFailureInv, HandlerDiesInv DEF Handler
<1>6. CASE Tick
  BY <1>6, TickInv
<1>7. QED BY <1>1, <1>2, <1>3, <1>4, <1>5, <1>6 DEF Next

-----------------------------------------------------------------------------
(* A step that does not settle r leaves its row settled if it was, and     *)
(* timed out if it was: recovery, reservation and the clock are such.      *)
LEMMA SettledStep ==
  ASSUME IndInv, [Next]_vars
  PROVE  \A r \in Runs :
           /\ runs[r].status \in SettledStatus => runs'[r].status = runs[r].status
           /\ runs[r].status = "TIMED_OUT" /\ runs'[r].status # "TIMED_OUT" =>
                handler[r] = "dispatching" /\ handler'[r] = "done"
<1> DEFINE Same == \A r \in Runs : runs[r].status \in SettledStatus \cup {"TIMED_OUT"} =>
                                   runs'[r].status = runs[r].status
           Goal == \A r \in Runs :
                     /\ runs[r].status \in SettledStatus => runs'[r].status = runs[r].status
                     /\ runs[r].status = "TIMED_OUT" /\ runs'[r].status # "TIMED_OUT" =>
                          handler[r] = "dispatching" /\ handler'[r] = "done"
<1>1. Same => Goal
  OBVIOUS
<1>2. CASE UNCHANGED runs
  BY <1>1, <1>2
<1>3. ASSUME NEW r \in Runs, NEW amount \in 1 .. runs[r].unknown, ReconcileUnknownCost(r, amount)
      PROVE Same
  BY <1>3 DEF ReconcileUnknownCost, IndInv, TypeOK, Run
<1>4. CASE runs' = RunsAfterRecovery
  BY <1>1, <1>4, RecoveryOnlyTimesOut DEF IndInv, Active, ActiveStatus, SettledStatus
<1>5. ASSUME NEW t \in Tokens, NEW k \in Keys \cup {Null}, NEW c \in Commits, NEW live,
             NEW cost \in Estimates, NEW r \in Runs, Reserve(t, k, c, live, cost, r)
      PROVE Same
  <2>1. ~Admitted(r) /\ \A q \in Runs \ {r} : runs'[q] = RunsAfterRecovery[q]
    BY <1>5 DEF Reserve, RunsAfterRecovery
  <2>2. QED
    BY <2>1, RecoveryOnlyTimesOut DEF IndInv, Active, ActiveStatus, SettledStatus, Admitted
<1>6. ASSUME NEW r \in Runs, MarkInFlight(r) PROVE Same
  BY <1>6 DEF MarkInFlight, IndInv, TypeOK, Run, SettledStatus
<1>7. ASSUME NEW r \in Runs, handler[r] = "dispatching", handler' = [handler EXCEPT ![r] = "done"],
             NEW row, runs' = [runs EXCEPT ![r] = row]
      PROVE Goal
  <2>1. runs[r].status \notin SettledStatus /\ handler'[r] = "done"
    BY <1>7 DEF IndInv, TypeOK, HandlerOwnsRun, ActiveStatus, SettledStatus
  <2>2. \A q \in Runs \ {r} : runs'[q] = runs[q]
    BY <1>7 DEF IndInv, TypeOK
  <2>3. QED BY <1>7, <2>1, <2>2
<1>8. ASSUME NEW r \in Runs, NEW charge \in Charges \cup {Null},
             RecordExecutionSuccess(r, charge)
      PROVE Goal
  BY <1>7, <1>8 DEF RecordExecutionSuccess, SettleRun
<1>9. ASSUME NEW r \in Runs, NEW charge \in Charges \cup {Null},
             NEW ambiguous \in BOOLEAN, NEW dispatched \in BOOLEAN,
             RecordExecutionFailure(r, ambiguous, dispatched, charge)
      PROVE Goal
  <2>1. /\ handler[r] = "dispatching" /\ handler' = [handler EXCEPT ![r] = "done"]
        /\ \E row : runs' = [runs EXCEPT ![r] = row]
    BY <1>9 DEF RecordExecutionFailure, SettleRun
  <2>2. QED BY <1>7, <2>1
<1>10. CASE Tick
  BY <1>1, <1>10 DEF Tick, IndInv, TypeOK, Run
<1>11. CASE Configure
  BY <1>2, <1>11
  DEF Configure, SetKillSwitch, ConfigureLiveGate, ConfigureInvocationCap, ConfigureSourceCommit
<1>12. CASE Operate
  BY <1>1, <1>2, <1>3, <1>12
  DEF Operate, IssueGrant, ExpireStaleCostHoldExceptions, AuthorizeCostHoldException
<1>13. CASE ReserveAdmission
  BY <1>1, <1>4, <1>5, <1>13
  DEF ReserveAdmission, AnswerWithoutReserving, RefuseExpiredGrant, RecoverDurableState
<1>14. ASSUME NEW r \in Runs, Handler(r) PROVE Goal
  BY <1>1, <1>2, <1>6, <1>8, <1>9, <1>14 DEF Handler, HandlerDies, ledger
<1>15. QED BY <1>2, <1>10, <1>11, <1>12, <1>13, <1>14 DEF Next, vars

-----------------------------------------------------------------------------
(* The theorems.                                                           *)

(* The inductive invariant of the ledger: its own facts and where the      *)
(* handlers stand, for any number of runs, grants, keys and amounts.       *)
THEOREM LedgerInvariant == Spec => []IndInv
<1>1. Init => IndInv
  BY InitInv
<1>2. IndInv /\ [Next]_vars => IndInv'
  BY NextInv
<1>3. QED BY <1>1, <1>2, PTL DEF Spec

(* Every table keeps its type: no counter of table costs goes negative and *)
(* no row gets a status the code does not know.                            *)
THEOREM LedgerTypeOK == Spec => []TypeOK
<1>1. IndInv => TypeOK
  BY DEF IndInv
<1>2. QED BY <1>1, LedgerInvariant, PTL

(* The in-flight check admits one run at a time, across recoveries and     *)
(* records that come too late.                                             *)
THEOREM LedgerOneActiveRun == Spec => []OneActiveRun
<1>1. IndInv => OneActiveRun
  BY DEF IndInv
<1>2. QED BY <1>1, LedgerInvariant, PTL

(* The reservation of table costs is that of the active run and is         *)
(* released exactly once, by its record or by recovery, never by both.     *)
THEOREM LedgerReservation == Spec => []ReservationOfActiveRun
<1>1. IndInv => ReservationOfActiveRun
  BY DEF IndInv
<1>2. QED BY <1>1, LedgerInvariant, PTL

(* A grant funds at most one run and an idempotency key names at most one. *)
THEOREM LedgerSingleUse == Spec => [](GrantFundsOneRun /\ KeyNamesOneRun)
<1>1. IndInv => GrantFundsOneRun /\ KeyNamesOneRun
  BY DEF IndInv
<1>2. QED BY <1>1, LedgerInvariant, PTL

(* A consumed cost-hold exception belongs to the run of its own grant, and *)
(* at most one exception is active, with an unspent grant.                 *)
THEOREM LedgerExceptions == Spec => []ExceptionFollowsItsGrant
<1>1. IndInv => ExceptionFollowsItsGrant
  BY DEF IndInv
<1>2. QED BY <1>1, LedgerInvariant, PTL

(* Receipts and totals agree with the rows they summarise.                 *)
THEOREM LedgerBooks == Spec => [](ReceiptIffCompleted /\ TotalIsObservedPlusUnknown)
<1>1. IndInv => ReceiptIffCompleted /\ TotalIsObservedPlusUnknown
  BY DEF IndInv
<1>2. QED BY <1>1, LedgerInvariant, PTL

(* The record methods overwrite a row whatever its status, yet a settled   *)
(* run is never settled again: only its own handler could, and it is done. *)
THEOREM LedgerSettledRunsStay == Spec => SettledRunsStay
<1> DEFINE A == \A r \in Runs :
                 /\ runs[r].status \in SettledStatus => runs'[r].status = runs[r].status
                 /\ runs[r].status = "TIMED_OUT" /\ runs'[r].status # "TIMED_OUT" =>
                      handler[r] = "dispatching" /\ handler'[r] = "done"
<1>1. IndInv /\ [Next]_vars => [A]_vars
  BY SettledStep
<1>2. [][A]_vars => SettledRunsStay
  BY DEF SettledRunsStay
<1> HIDE DEF A
<1>3. QED BY <1>1, <1>2, LedgerInvariant, PTL DEF Spec

-----------------------------------------------------------------------------
(* II. The ledger's money.                                                  *)

(* Sums over the runs.  A sum of natural numbers is a number of units, a   *)
(* unit being a run and a number up to its own: what is known of finite    *)
(* sets then says how a sum changes, without induction.                    *)

Sum(f) == MapThenSumSet(LAMBDA r : f[r], Runs)
Units(f, s) == {p \in s \X Nat : p[2] \in 1..f[p[1]]}

LEMMA UnitsOfOne ==
  ASSUME NEW f \in [Runs -> Nat], NEW r \in Runs
  PROVE  IsFiniteSet(Units(f, {r})) /\ Cardinality(Units(f, {r})) = f[r]
<1>1. Units(f, {r}) = {r} \X (1..f[r])
  BY DEF Units
<1>2. IsFiniteSet({r}) /\ Cardinality({r}) = 1
  BY FS_Singleton
<1>3. f[r] \in Nat
  OBVIOUS
<1>4. IsFiniteSet(1..f[r]) /\ Cardinality(1..f[r]) = f[r]
  BY <1>3, FS_Interval
<1>5. IsFiniteSet({r} \X (1..f[r])) /\ Cardinality({r} \X (1..f[r])) = 1 * f[r]
  BY <1>2, <1>4, FS_Product
<1>6. QED BY <1>1, <1>3, <1>5

LEMMA UnitsFinite ==
  ASSUME NEW f \in [Runs -> Nat], NEW s \in SUBSET Runs
  PROVE  IsFiniteSet(Units(f, s)) /\ Cardinality(Units(f, s)) \in Nat
<1> DEFINE Blocks == {Units(f, {r}) : r \in s}
           block == [r \in s |-> Units(f, {r})]
<1>1. IsFiniteSet(s)
  BY NameAssumption, FS_Subset
<1>2. block \in Surjection(s, Blocks)
  BY DEF Surjection
<1>3. IsFiniteSet(Blocks)
  <2> HIDE DEF Blocks, block
  <2>1. QED BY <1>1, <1>2, FS_Surjection
<1>4. \A T \in Blocks : IsFiniteSet(T)
  BY UnitsOfOne
<1>5. IsFiniteSet(UNION Blocks)
  <2> HIDE DEF Blocks
  <2>1. QED BY <1>3, <1>4, FS_UNION
<1>6. UNION Blocks = Units(f, s)
  BY DEF Units
<1>7. QED BY <1>5, <1>6, FS_CardinalityType

LEMMA UnitsWithout ==
  ASSUME NEW f \in [Runs -> Nat], NEW s \in SUBSET Runs, NEW r \in s
  PROVE  Cardinality(Units(f, s)) = f[r] + Cardinality(Units(f, s \ {r}))
<1>1. Units(f, s) = Units(f, {r}) \cup Units(f, s \ {r})
  BY DEF Units
<1>2. Units(f, {r}) \cap Units(f, s \ {r}) = {}
  BY DEF Units
<1>3. /\ IsFiniteSet(Units(f, {r})) /\ Cardinality(Units(f, {r})) = f[r]
      /\ IsFiniteSet(Units(f, s \ {r})) /\ Cardinality(Units(f, s \ {r})) \in Nat
      /\ f[r] \in Nat
  BY UnitsOfOne, UnitsFinite
<1>4. Cardinality(Units(f, {r}) \cap Units(f, s \ {r})) = 0
  BY <1>2, FS_EmptySet
<1>5. Cardinality(Units(f, {r}) \cup Units(f, s \ {r})) =
        Cardinality(Units(f, {r})) + Cardinality(Units(f, s \ {r}))
          - Cardinality(Units(f, {r}) \cap Units(f, s \ {r}))
  BY <1>3, FS_Union
<1>6. QED BY <1>1, <1>3, <1>4, <1>5

(* The least of some natural numbers.                                      *)
LEMMA LeastOf ==
  ASSUME NEW T \in SUBSET Nat, NEW some \in T
  PROVE  \E n \in T : \A m \in T : n <= m
<1> SUFFICES ASSUME \A n \in T : \E m \in T : m < n PROVE FALSE
  OBVIOUS
<1> DEFINE Below == {n \in Nat : \A m \in T : n < m}
           next == [n \in Below |-> n + 1]
<1>1. IsFiniteSet(Below)
  <2>1. Below \in SUBSET Nat /\ \A n \in Below : n <= some
    OBVIOUS
  <2> HIDE DEF Below
  <2>2. QED BY <2>1, FS_BoundedSetOfNaturals
<1>2. 0 \in Below
  OBVIOUS
<1>3. \A n \in Below : n + 1 \in Below \ {0}
  <2> SUFFICES ASSUME NEW n \in Below, NEW m \in T PROVE n + 1 < m
    OBVIOUS
  <2>1. PICK k \in T : k < m
    OBVIOUS
  <2>2. QED BY <2>1
<1>4. next \in [Below -> Below \ {0}] /\ \A x, y \in Below : next[x] = next[y] => x = y
  BY <1>3
<1> HIDE DEF Below, next
<1>5. /\ IsFiniteSet(Below \ {0}) /\ Cardinality(Below) \in Nat
      /\ Cardinality(Below \ {0}) = Cardinality(Below) - 1
  BY <1>1, <1>2, FS_RemoveElement, FS_CardinalityType
<1>6. Cardinality(Below \ {0}) < Cardinality(Below)
  BY <1>5
<1>7. QED BY <1>1, <1>4, <1>5, <1>6, FS_PigeonHole

LEMMA SumIsUnits ==
  ASSUME NEW f \in [Runs -> Nat]
  PROVE  Sum(f) = Cardinality(Units(f, Runs))
<1> DEFINE iter[s \in SUBSET Runs] ==
             IF s = {} THEN 0 ELSE LET x == CHOOSE y \in s : TRUE IN f[x] + iter[s \ {x}]
           size == [s \in SUBSET Runs |-> Cardinality(Units(f, s))]
           Pick(s) == CHOOSE y \in s : TRUE
<1>1. Sum(f) = iter[Runs]
  BY DEF Sum, MapThenSumSet, MapThenFoldSet
<1>2. size[{}] = 0
  BY FS_EmptySet DEF Units
<1>3. \A s \in SUBSET Runs : s # {} => Pick(s) \in s /\ size[s] = f[Pick(s)] + size[s \ {Pick(s)}]
  <2>1. ASSUME NEW s \in SUBSET Runs, NEW x \in s PROVE size[s] = f[x] + size[s \ {x}]
    <3>1. s \ {x} \in SUBSET Runs
      OBVIOUS
    <3>2. QED BY <3>1, UnitsWithout
  <2>2. \A s \in SUBSET Runs : s # {} => Pick(s) \in s
    OBVIOUS
  <2> HIDE DEF size, Pick
  <2>3. QED BY <2>1, <2>2
<1>4. size = [s \in SUBSET Runs |->
                IF s = {} THEN 0 ELSE LET x == CHOOSE y \in s : TRUE IN f[x] + size[s \ {x}]]
  <2>1. size = [s \in SUBSET Runs |-> size[s]]
    OBVIOUS
  <2> HIDE DEF size
  <2>2. QED BY <2>1, <1>2, <1>3
<1>5. iter = [s \in SUBSET Runs |->
                IF s = {} THEN 0 ELSE LET x == CHOOSE y \in s : TRUE IN f[x] + iter[s \ {x}]]
  <2>1. \E g : g = [s \in SUBSET Runs |->
                IF s = {} THEN 0 ELSE LET x == CHOOSE y \in s : TRUE IN f[x] + g[s \ {x}]]
    BY <1>4
  <2>2. QED BY <2>1
<1> HIDE DEF iter, size
<1>6. \A s \in SUBSET Runs : iter[s] = size[s]
  <2> DEFINE Differ == {s \in SUBSET Runs : iter[s] # size[s]}
             Sizes == {n \in Nat : \E s \in Differ : Cardinality(s) = n}
  <2> SUFFICES ASSUME NEW bad \in Differ PROVE FALSE
    OBVIOUS
  <2>1. \A s \in SUBSET Runs : IsFiniteSet(s) /\ Cardinality(s) \in Nat
    BY NameAssumption, FS_Subset, FS_CardinalityType
  <2>2. PICK n \in Sizes : \A m \in Sizes : n <= m
    <3>1. Cardinality(bad) \in Sizes /\ Sizes \in SUBSET Nat
      BY <2>1
    <3> HIDE DEF Sizes
    <3>2. QED BY <3>1, LeastOf
  <2>3. PICK s \in Differ : Cardinality(s) = n
    OBVIOUS
  <2>4. s # {}
    BY <2>3, <1>2, <1>5
  <2> DEFINE rest == s \ {Pick(s)}
  <2>5. Pick(s) \in s /\ rest \in SUBSET Runs
    BY <2>4
  <2>6. Cardinality(rest) < n /\ Cardinality(rest) \in Nat
    <3>1. IsFiniteSet(s) /\ Cardinality(s) = n /\ n \in Nat /\ Pick(s) \in s
      BY <2>1, <2>3, <2>5
    <3> HIDE DEF Pick, Differ, Sizes
    <3>2. Cardinality(s \ {Pick(s)}) = n - 1 /\ IsFiniteSet(s \ {Pick(s)})
      BY <3>1, FS_RemoveElement
    <3>3. QED BY <3>1, <3>2, FS_CardinalityType
  <2>7. rest \notin Differ
    <3>1. Cardinality(rest) \notin Sizes
      BY <2>2, <2>6
    <3>2. QED BY <3>1, <2>6
  <2>8. iter[rest] = size[rest]
    BY <2>5, <2>7
  <2>9. iter[s] = f[Pick(s)] + iter[rest] /\ size[s] = f[Pick(s)] + size[rest]
    BY <2>4, <1>3, <1>5
  <2>10. QED BY <2>3, <2>8, <2>9
<1>7. QED BY <1>1, <1>6 DEF size

LEMMA SumType == ASSUME NEW f \in [Runs -> Nat] PROVE Sum(f) \in Nat
  BY SumIsUnits, UnitsFinite

(* When one run's number changes, the sum changes by as much.              *)
LEMMA SumAt ==
  ASSUME NEW f \in [Runs -> Nat], NEW g \in [Runs -> Nat], NEW r \in Runs,
         \A q \in Runs \ {r} : g[q] = f[q]
  PROVE  f[r] <= Sum(f) /\ Sum(g) = Sum(f) - f[r] + g[r]
<1>1. Units(g, Runs \ {r}) = Units(f, Runs \ {r})
  BY DEF Units
<1>2. Sum(f) = f[r] + Cardinality(Units(f, Runs \ {r}))
  BY SumIsUnits, UnitsWithout
<1>3. Sum(g) = g[r] + Cardinality(Units(g, Runs \ {r}))
  BY SumIsUnits, UnitsWithout
<1>4. Cardinality(Units(f, Runs \ {r})) \in Nat
  BY UnitsFinite
<1>5. f[r] \in Nat /\ g[r] \in Nat
  OBVIOUS
<1>6. QED BY <1>1, <1>2, <1>3, <1>4, <1>5

LEMMA SumOfNothing == Sum([r \in Runs |-> 0]) = 0
<1> DEFINE f == [r \in Runs |-> 0]
<1>1. f \in [Runs -> Nat] /\ Units(f, Runs) = {}
  BY DEF Units
<1> HIDE DEF f
<1>2. Sum(f) = 0
  BY <1>1, SumIsUnits, FS_EmptySet
<1>3. QED BY <1>2 DEF f

(* What is at least e for each of some runs is at least e times as many.   *)
LEMMA SumCovers ==
  ASSUME NEW f \in [Runs -> Nat], NEW s \in SUBSET Runs, NEW e \in Nat,
         \A r \in s : e <= f[r]
  PROVE  e * Cardinality(s) <= Sum(f)
<1>1. s \X (1..e) \in SUBSET Units(f, Runs)
  BY DEF Units
<1>2. IsFiniteSet(s) /\ Cardinality(s) \in Nat
  BY NameAssumption, FS_Subset, FS_CardinalityType
<1>3. IsFiniteSet(1..e) /\ Cardinality(1..e) = e
  BY FS_Interval
<1>4. Cardinality(s \X (1..e)) = Cardinality(s) * e
  BY <1>2, <1>3, FS_Product
<1>5. Cardinality(s \X (1..e)) <= Sum(f)
  BY <1>1, SumIsUnits, UnitsFinite, FS_Subset
<1>6. Cardinality(s) * e = e * Cardinality(s)
  BY <1>2
<1>7. QED BY <1>4, <1>5, <1>6

-----------------------------------------------------------------------------
(* What is held of each run: at least the unknown cost of its row, and in  *)
(* all the unknown cost of the aggregate.  A row overwritten after it was  *)
(* timed out keeps its share, though it no longer shows it.                *)
Holds(h) ==
  /\ h \in [Runs -> Nat] /\ Sum(h) = costs.unknown
  /\ \A r \in Runs : runs[r].unknown <= h[r]
Held == \E h : Holds(h)

(* What was reserved for each run and has not been settled as observed or  *)
(* as nothing: it is reserved, held or was released.                       *)
Owes(owed) ==
  /\ owed \in [Runs -> Nat]
  /\ Sum(owed) = costs.reserved + costs.unknown + Sum(released)
  /\ \A r \in Runs : runs[r].reserved <= owed[r]

(* Recovery moves the reservation of an orphan to its unknown cost.        *)
LEMMA RecoveryMoves ==
  ASSUME IndInv
  PROVE  /\ CostsAfterRecovery.reserved \in Nat /\ CostsAfterRecovery.unknown \in Nat
         /\ CostsAfterRecovery.reserved + CostsAfterRecovery.unknown = costs.reserved + costs.unknown
         /\ \A r \in Runs : /\ RunsAfterRecovery[r] \in Run
                            /\ RunsAfterRecovery[r].reserved <= runs[r].reserved
         /\ \/ /\ RunsAfterRecovery = runs
               /\ CostsAfterRecovery.unknown = costs.unknown
            \/ \E o \in Runs :
                 /\ Active(o) /\ RunsAfterRecovery[o].unknown = runs[o].reserved
                 /\ CostsAfterRecovery.unknown = costs.unknown + runs[o].reserved
                 /\ \A q \in Runs \ {o} : RunsAfterRecovery[q] = runs[q]
<1>1. /\ CostsAfterRecovery.reserved \in Nat /\ CostsAfterRecovery.unknown \in Nat
      /\ OrphanedCost \in Nat /\ RunsAfterRecovery \in [Runs -> Run]
  BY RecoveryKeepsReservation DEF Costs
<1>2. /\ costs.reserved \in Nat /\ costs.unknown \in Nat
      /\ \A r \in Runs : runs[r] \in Run /\ runs[r].reserved \in Nat
  BY DEF IndInv, TypeOK, Costs, Run
<1>3. /\ CostsAfterRecovery.reserved = ClampedMinus(costs.reserved, OrphanedCost)
      /\ CostsAfterRecovery.unknown = costs.unknown + OrphanedCost
  BY DEF CostsAfterRecovery
<1>4. \A r \in Runs : RunsAfterRecovery[r].reserved <= runs[r].reserved
  BY <1>2 DEF RunsAfterRecovery, Run
<1>5. CASE Orphans = {}
  <2>1. OrphanedCost = 0
    BY <1>5, OrphanedCostOfNone
  <2>2. RunsAfterRecovery = runs
    BY <1>5 DEF RunsAfterRecovery, IndInv, TypeOK
  <2>3. QED BY <1>1, <1>2, <1>3, <1>4, <2>1, <2>2 DEF ClampedMinus
<1>6. CASE Orphans # {}
  <2>1. PICK o \in Runs : o \in Orphans
    BY <1>6 DEF Orphans
  <2>2. Orphans = {o} /\ Active(o)
    BY <2>1 DEF Orphans, IndInv, OneActiveRun
  <2>3. OrphanedCost = runs[o].reserved
    BY <2>2, <1>2, OrphanedCostOfOne
  <2>4. costs.reserved = runs[o].reserved
    BY <2>2 DEF IndInv, ReservationOfActiveRun
  <2>5. /\ RunsAfterRecovery[o].unknown = runs[o].reserved
        /\ \A q \in Runs \ {o} : RunsAfterRecovery[q] = runs[q]
    BY <2>2, <1>2 DEF RunsAfterRecovery, Run
  <2>6. CostsAfterRecovery.reserved = 0 /\ CostsAfterRecovery.unknown = costs.unknown + runs[o].reserved
    BY <2>3, <2>4, <1>2, <1>3 DEF ClampedMinus
  <2>7. QED BY <1>1, <1>2, <1>4, <2>2, <2>4, <2>5, <2>6
<1>7. QED BY <1>5, <1>6

(* The steps that leave the money alone.                                   *)
NoMoney ==
  /\ \A r \in Runs : runs'[r].reserved = runs[r].reserved /\ runs'[r].unknown = runs[r].unknown
  /\ costs'.reserved = costs.reserved /\ costs'.unknown = costs.unknown
  /\ released' = released
  /\ \A r \in Runs : handler'[r] = "admitted" => handler[r] = "admitted"

LEMMA QuietMoney ==
  ASSUME IndInv,
         \/ Configure
         \/ \E t \in Tokens, ttl \in TTLs, cap \in Caps, balance \in Balances :
              IssueGrant(t, ttl, cap, balance)
         \/ ExpireStaleCostHoldExceptions
         \/ \E t \in Tokens : AuthorizeCostHoldException(t)
         \/ \E r \in Runs : MarkInFlight(r) \/ HandlerDies(r)
         \/ Tick
         \/ UNCHANGED vars
  PROVE  NoMoney
<1> USE DEF NoMoney
<1>a. runs \in [Runs -> Run] /\ handler \in [Runs -> HandlerState]
  BY DEF IndInv, TypeOK
<1>1. CASE UNCHANGED <<runs, costs, released, handler>>
  BY <1>1
<1>2. CASE Configure
  BY <1>1, <1>2 DEF Configure, SetKillSwitch, ConfigureLiveGate, ConfigureInvocationCap,
     ConfigureSourceCommit
<1>3. ASSUME NEW r \in Runs, MarkInFlight(r) PROVE NoMoney
  BY <1>a, <1>3 DEF MarkInFlight, Run
<1>4. ASSUME NEW r \in Runs, HandlerDies(r) PROVE NoMoney
  BY <1>a, <1>4 DEF HandlerDies, ledger
<1>5. CASE Tick
  BY <1>a, <1>5 DEF Tick, Run
<1>6. QED
  BY <1>1, <1>2, <1>3, <1>4, <1>5
  DEF IssueGrant, ExpireStaleCostHoldExceptions, AuthorizeCostHoldException, vars

(* What a record method does to the money of its run.                      *)
LEMMA SettleMoney ==
  ASSUME IndInv, NEW r \in Runs, NEW charge \in Charges \cup {Null},
         \/ RecordExecutionSuccess(r, charge)
         \/ \E ambiguous, dispatched \in BOOLEAN :
              RecordExecutionFailure(r, ambiguous, dispatched, charge)
  PROVE  \E held \in {0, runs[r].reserved} :
           /\ runs'[r].reserved = 0 /\ runs'[r].unknown = held
           /\ \A q \in Runs \ {r} : runs'[q] = runs[q]
           /\ costs'.reserved = ClampedMinus(costs.reserved, runs[r].reserved)
           /\ costs'.unknown = costs.unknown + held
           /\ released' = released
           /\ handler[r] = "dispatching" /\ handler' = [handler EXCEPT ![r] = "done"]
<1>1. PICK status, held :
        /\ held \in {0, runs[r].reserved}
        /\ SettleRun(r, status, ChargeOf(charge), held)
        /\ SettleCosts(r, ChargeOf(charge), held)
        /\ released' = released
        /\ handler[r] = "dispatching" /\ handler' = [handler EXCEPT ![r] = "done"]
  <2>1. CASE RecordExecutionSuccess(r, charge)
    <3>1. PICK held : held = IF Measured(charge) THEN 0 ELSE runs[r].reserved
      OBVIOUS
    <3>2. /\ SettleRun(r, "COMPLETED", ChargeOf(charge), held)
          /\ SettleCosts(r, ChargeOf(charge), held)
          /\ released' = released
          /\ handler[r] = "dispatching" /\ handler' = [handler EXCEPT ![r] = "done"]
      BY <2>1, <3>1 DEF RecordExecutionSuccess
    <3>3. held \in {0, runs[r].reserved}
      BY <3>1
    <3>4. QED BY <3>2, <3>3
  <2>2. ASSUME NEW ambiguous \in BOOLEAN, NEW dispatched \in BOOLEAN,
               RecordExecutionFailure(r, ambiguous, dispatched, charge)
        PROVE  \E status, held :
                 /\ held \in {0, runs[r].reserved}
                 /\ SettleRun(r, status, ChargeOf(charge), held)
                 /\ SettleCosts(r, ChargeOf(charge), held)
                 /\ released' = released
                 /\ handler[r] = "dispatching" /\ handler' = [handler EXCEPT ![r] = "done"]
    <3>1. PICK held, status :
            /\ held = IF ~Measured(charge) /\ (ambiguous \/ dispatched)
                      THEN runs[r].reserved ELSE 0
            /\ status = IF ambiguous THEN "UNKNOWN_OUTCOME"
                        ELSE IF ~Measured(charge) /\ (ambiguous \/ dispatched)
                             THEN "FAILED_UNRECONCILED_COST" ELSE "FAILED"
      OBVIOUS
    <3>2. /\ SettleRun(r, status, ChargeOf(charge), held)
          /\ SettleCosts(r, ChargeOf(charge), held)
          /\ released' = released
          /\ handler[r] = "dispatching" /\ handler' = [handler EXCEPT ![r] = "done"]
      BY <2>2, <3>1 DEF RecordExecutionFailure
    <3>3. held \in {0, runs[r].reserved}
      BY <3>1
    <3>4. QED BY <3>2, <3>3
  <2>3. QED BY <2>1, <2>2
<1>2. runs \in [Runs -> Run]
  BY DEF IndInv, TypeOK
<1>3. PICK row : row = [runs[r] EXCEPT !.status = status, !.reserved = 0,
                                       !.observed = ChargeOf(charge), !.unknown = held]
  OBVIOUS
<1>4. row.reserved = 0 /\ row.unknown = held
  BY <1>2, <1>3 DEF Run
<1>5. runs' = [runs EXCEPT ![r] = row]
  BY <1>1, <1>3 DEF SettleRun
<1>6. runs'[r] = row /\ \A q \in Runs \ {r} : runs'[q] = runs[q]
  BY <1>2, <1>5
<1>7. QED BY <1>1, <1>4, <1>6 DEF SettleCosts

-----------------------------------------------------------------------------
LEMMA HeldStep ==
  ASSUME IndInv, Held, [Next]_vars
  PROVE  Held' /\ (costs'.unknown < costs.unknown =>
                     \E r \in Runs :
                       /\ released'[r] - released[r] = costs.unknown - costs'.unknown
                       /\ released'[r] - released[r] = runs[r].unknown - runs'[r].unknown)
<1> DEFINE Fall == costs'.unknown < costs.unknown =>
                     \E r \in Runs :
                       /\ released'[r] - released[r] = costs.unknown - costs'.unknown
                       /\ released'[r] - released[r] = runs[r].unknown - runs'[r].unknown
           Goal == Held' /\ Fall
<1>1. PICK h : Holds(h)
  BY DEF Held
<1>2. /\ costs.unknown \in Nat /\ released \in [Runs -> Nat] /\ runs \in [Runs -> Run]
      /\ \A r \in Runs : runs[r].unknown \in Nat /\ runs[r].reserved \in Nat
  BY DEF IndInv, TypeOK, Costs, Run
<1>3. ASSUME NEW r \in Runs, NEW d \in Int, h[r] + d \in Nat,
             costs'.unknown = costs.unknown + d, runs'[r].unknown <= h[r] + d,
             \A q \in Runs \ {r} : runs'[q].unknown <= h[q]
      PROVE  Held'
  <2> DEFINE g == [h EXCEPT ![r] = h[r] + d]
  <2>1. g \in [Runs -> Nat] /\ g[r] = h[r] + d /\ \A q \in Runs \ {r} : g[q] = h[q]
    BY <1>1, <1>3 DEF Holds
  <2> HIDE DEF g
  <2>2. Sum(g) = Sum(h) - h[r] + g[r] /\ h \in [Runs -> Nat]
    BY <1>1, <2>1, SumAt DEF Holds
  <2>3. Sum(g) = costs'.unknown
    BY <1>1, <1>2, <1>3, <2>1, <2>2 DEF Holds
  <2>4. \A q \in Runs : runs'[q].unknown <= g[q]
    BY <1>3, <2>1
  <2>5. Holds(g)'
    BY <2>1, <2>3, <2>4 DEF Holds
  <2>6. QED BY <2>5 DEF Held
<1>4. ASSUME costs'.unknown = costs.unknown, \A q \in Runs : runs'[q].unknown <= h[q]
      PROVE  Held'
  <2>1. Holds(h)'
    BY <1>1, <1>4 DEF Holds
  <2>2. QED BY <2>1 DEF Held
<1>5. CASE NoMoney
  BY <1>1, <1>2, <1>4, <1>5 DEF NoMoney, Holds
<1>6. ASSUME NEW r \in Runs, NEW amount \in 1 .. runs[r].unknown, ReconcileUnknownCost(r, amount)
      PROVE  Goal
  <2>1. amount \in Nat /\ amount <= h[r] /\ h[r] <= costs.unknown /\ h[r] \in Nat
    <3>1. h \in [Runs -> Nat] /\ h[r] <= Sum(h)
      BY <1>1, SumAt DEF Holds
    <3>2. QED BY <1>1, <1>2, <3>1 DEF Holds
  <2>2. costs'.unknown = costs.unknown - amount
    BY <1>2, <1>6, <2>1 DEF ReconcileUnknownCost, ClampedMinus
  <2>3. /\ runs'[r].unknown = runs[r].unknown - amount
        /\ \A q \in Runs \ {r} : runs'[q] = runs[q]
        /\ released'[r] = released[r] + amount
    BY <1>2, <1>6 DEF ReconcileUnknownCost, Run
  <2>4. Fall
    BY <1>2, <2>1, <2>2, <2>3
  <2>5. \A q \in Runs : runs[q].unknown <= h[q]
    BY <1>1 DEF Holds
  <2>6. /\ -amount \in Int /\ h[r] + (-amount) \in Nat /\ runs'[r].unknown <= h[r] + (-amount)
        /\ costs'.unknown = costs.unknown + (-amount)
        /\ \A q \in Runs \ {r} : runs'[q].unknown <= h[q]
    BY <1>2, <2>1, <2>2, <2>3, <2>5
  <2>7. Held'
    BY <1>3, <2>6
  <2>8. QED BY <2>4, <2>7
<1>7. ASSUME NEW s \in SUBSET Runs, costs'.unknown = CostsAfterRecovery.unknown,
             \A q \in Runs : runs'[q].unknown = (IF q \in s THEN 0 ELSE RunsAfterRecovery[q].unknown),
             \A q \in s : ~Active(q)
      PROVE  Goal
  <2>1. CASE RunsAfterRecovery = runs /\ CostsAfterRecovery.unknown = costs.unknown
    <3>1. \A q \in Runs : runs'[q].unknown <= h[q] /\ h[q] \in Nat
      BY <1>1, <1>2, <1>7, <2>1 DEF Holds
    <3>2. QED BY <1>2, <1>4, <1>7, <2>1, <3>1
  <2>2. ASSUME NEW o \in Runs, Active(o), RunsAfterRecovery[o].unknown = runs[o].reserved,
               CostsAfterRecovery.unknown = costs.unknown + runs[o].reserved,
               \A q \in Runs \ {o} : RunsAfterRecovery[q] = runs[q]
        PROVE  Goal
    <3>1. \A q \in Runs : h[q] \in Nat /\ runs[q].unknown <= h[q]
      BY <1>1 DEF Holds
    <3>2. runs'[o].unknown <= h[o] + runs[o].reserved /\ h[o] + runs[o].reserved \in Nat
      BY <1>2, <1>7, <2>2, <3>1
    <3>3. \A q \in Runs \ {o} : runs'[q].unknown <= h[q]
      BY <1>2, <1>7, <2>2, <3>1
    <3>4. Held'
      BY <1>2, <1>3, <1>7, <2>2, <3>2, <3>3
    <3>5. Fall
      BY <1>2, <1>7, <2>2
    <3>6. QED BY <3>4, <3>5
  <2>3. QED BY <2>1, <2>2, RecoveryMoves
<1>8. CASE ReserveAdmission
  <2>1. ASSUME NEW t \in Tokens, NEW k \in Keys \cup {Null}, NEW c \in Commits,
                NEW live \in BOOLEAN,
               AnswerWithoutReserving(t, k, c, live) \/ RefuseExpiredGrant(t, k, c, live)
        PROVE  Goal
    <3>1. runs' = RunsAfterRecovery /\ costs' = CostsAfterRecovery
      BY <2>1 DEF AnswerWithoutReserving, RefuseExpiredGrant, RecoverDurableState
    <3>2. /\ {} \in SUBSET Runs /\ costs'.unknown = CostsAfterRecovery.unknown
          /\ \A q \in Runs :
               runs'[q].unknown = (IF q \in {} THEN 0 ELSE RunsAfterRecovery[q].unknown)
      BY <3>1
    <3>3. QED BY <1>7, <3>2
  <2>2. ASSUME NEW t \in Tokens, NEW k \in Keys \cup {Null}, NEW c \in Commits,
                NEW live \in BOOLEAN,
               NEW cost \in Estimates, NEW r \in Runs, Reserve(t, k, c, live, cost, r)
        PROVE  Goal
    <3>1. /\ ~Admitted(r)
          /\ runs' = [RunsAfterRecovery EXCEPT
                ![r] = [status |-> "RESERVED", key |-> k, token |-> t, age |-> 0,
                        reserved |-> cost, observed |-> 0, unknown |-> 0]]
          /\ costs' = [CostsAfterRecovery EXCEPT !.reserved = @ + cost]
      BY <2>2 DEF Reserve
    <3>2. RunsAfterRecovery \in [Runs -> Run] /\ CostsAfterRecovery \in Costs
      BY RecoveryKeepsReservation
    <3>3. costs'.unknown = CostsAfterRecovery.unknown
      BY <3>1, <3>2 DEF Costs
    <3>4. \A q \in Runs : runs'[q].unknown = (IF q \in {r} THEN 0 ELSE RunsAfterRecovery[q].unknown)
      BY <3>1, <3>2
    <3>5. ~Active(r)
      BY <3>1 DEF Admitted, Active, ActiveStatus
    <3>6. {r} \in SUBSET Runs
      OBVIOUS
    <3>7. QED BY <1>7, <3>3, <3>4, <3>5, <3>6
  <2>3. QED BY <1>8, <2>1, <2>2 DEF ReserveAdmission
<1>9. ASSUME NEW r \in Runs, NEW charge \in Charges \cup {Null},
             \/ RecordExecutionSuccess(r, charge)
             \/ \E ambiguous, dispatched \in BOOLEAN :
                  RecordExecutionFailure(r, ambiguous, dispatched, charge)
      PROVE  Goal
  <2>1. PICK held \in {0, runs[r].reserved} :
           /\ runs'[r].unknown = held
           /\ \A q \in Runs \ {r} : runs'[q] = runs[q]
           /\ costs'.unknown = costs.unknown + held
    BY <1>9, SettleMoney
  <2>2. \A q \in Runs : h[q] \in Nat /\ runs[q].unknown <= h[q]
    BY <1>1 DEF Holds
  <2>3. held \in Nat
    BY <1>2
  <2>4. /\ h[r] + held \in Nat /\ runs'[r].unknown <= h[r] + held
        /\ \A q \in Runs \ {r} : runs'[q].unknown <= h[q]
    BY <2>1, <2>2, <2>3
  <2>5. Held'
    BY <1>3, <2>1, <2>3, <2>4
  <2>6. Fall
    BY <1>2, <2>1, <2>3
  <2>7. QED BY <2>5, <2>6
<1> HIDE DEF Goal
<1>10. QED
  BY <1>5, <1>6, <1>8, <1>9, QuietMoney
  DEF Next, Operate, Handler, Goal

LEMMA HeldInit == Init => Held
<1> SUFFICES ASSUME Init PROVE Held
  OBVIOUS
<1>1. Holds([r \in Runs |-> 0])
  BY SumOfNothing DEF Init, Holds, NoRun
<1>2. QED BY <1>1 DEF Held

(* The aggregate holds at least what each row shows as unknown, so that no *)
(* release is cut at zero and no row's exposure is missing from it.        *)
THEOREM LedgerHolds == Spec => []Held
<1>1. Init => IndInv /\ Held
  BY InitInv, HeldInit
<1>2. IndInv /\ Held /\ [Next]_vars => (IndInv /\ Held)'
  BY NextInv, HeldStep
<1>3. QED BY <1>1, <1>2, PTL DEF Spec

(* Exposure to unknown cost never falls but by what an operator released,  *)
(* to the cent, whatever recovers, dies or is recorded late.               *)
THEOREM LedgerExposure == Spec => ExposureFallsOnlyByRelease
<1> DEFINE A == costs'.unknown < costs.unknown =>
                  \E r \in Runs :
                    /\ released'[r] - released[r] = costs.unknown - costs'.unknown
                    /\ released'[r] - released[r] = runs[r].unknown - runs'[r].unknown
<1>1. IndInv /\ Held /\ [Next]_vars => [A]_vars
  BY HeldStep
<1>2. [][A]_vars => ExposureFallsOnlyByRelease
  BY DEF ExposureFallsOnlyByRelease
<1> HIDE DEF A
<1>3. QED BY <1>1, <1>2, LedgerInvariant, LedgerHolds, PTL DEF Spec

-----------------------------------------------------------------------------
(* What is owed follows the reservation of a run wherever it is moved.  It *)
(* falls only when the run's own handler settles it for less, and then the *)
(* sum of what is reserved and held falls.                                 *)
LEMMA OwesStep ==
  ASSUME IndInv, Held, NEW owed, Owes(owed), [Next]_vars
  PROVE  \E then :
           /\ Owes(then)'
           /\ \A r \in Runs :
                /\ \/ then[r] >= owed[r]
                   \/ /\ handler[r] = "dispatching" /\ handler'[r] = "done"
                      /\ costs'.reserved + costs'.unknown < costs.reserved + costs.unknown
                      /\ released' = released
                /\ handler'[r] = "admitted" =>
                     handler[r] = "admitted" \/ \E cost \in Estimates : cost <= then[r]
<1> DEFINE Good(then) ==
             \A r \in Runs :
                /\ \/ then[r] >= owed[r]
                   \/ /\ handler[r] = "dispatching" /\ handler'[r] = "done"
                      /\ costs'.reserved + costs'.unknown < costs.reserved + costs.unknown
                      /\ released' = released
                /\ handler'[r] = "admitted" =>
                     handler[r] = "admitted" \/ \E cost \in Estimates : cost <= then[r]
           Goal == \E then : Owes(then)' /\ Good(then)
<1>1. /\ costs.unknown \in Nat /\ costs.reserved \in Nat
      /\ released \in [Runs -> Nat] /\ runs \in [Runs -> Run]
      /\ \A r \in Runs : runs[r].unknown \in Nat /\ runs[r].reserved \in Nat
      /\ handler \in [Runs -> HandlerState]
  BY DEF IndInv, TypeOK, Costs, Run
<1>2. /\ owed \in [Runs -> Nat] /\ Sum(owed) = costs.reserved + costs.unknown + Sum(released)
      /\ \A r \in Runs : runs[r].reserved <= owed[r] /\ owed[r] \in Nat
      /\ Sum(released) \in Nat
  BY <1>1, SumType DEF Owes
<1>3. ASSUME costs'.reserved + costs'.unknown + Sum(released') =
               costs.reserved + costs.unknown + Sum(released),
             \A r \in Runs : runs'[r].reserved <= owed[r],
             \A r \in Runs : handler'[r] = "admitted" => handler[r] = "admitted"
      PROVE  Goal
  <2>1. Owes(owed)'
    BY <1>2, <1>3 DEF Owes
  <2>2. Good(owed)
    BY <1>2, <1>3
  <2> HIDE DEF Good
  <2>3. QED BY <2>1, <2>2
<1>4. ASSUME NEW r \in Runs, NEW d \in Int, owed[r] + d \in Nat, released' = released,
             costs'.reserved + costs'.unknown = costs.reserved + costs.unknown + d,
             runs'[r].reserved <= owed[r] + d,
             \A q \in Runs \ {r} : runs'[q].reserved <= owed[q],
             \/ d >= 0
             \/ handler[r] = "dispatching" /\ handler'[r] = "done",
             \A q \in Runs : handler'[q] = "admitted" =>
                handler[q] = "admitted" \/ (q = r /\ d \in Estimates)
      PROVE  Goal
  <2> DEFINE then == [owed EXCEPT ![r] = owed[r] + d]
  <2>1. then \in [Runs -> Nat] /\ then[r] = owed[r] + d /\ \A q \in Runs \ {r} : then[q] = owed[q]
    BY <1>2, <1>4
  <2> HIDE DEF then
  <2>2. Sum(then) = Sum(owed) - owed[r] + then[r]
    BY <1>2, <2>1, SumAt
  <2>3. Sum(then) = costs'.reserved + costs'.unknown + Sum(released')
    BY <1>1, <1>2, <1>4, <2>1, <2>2
  <2>4. Owes(then)'
    BY <1>4, <2>1, <2>3 DEF Owes
  <2>5. Good(then)
    <3>1. ASSUME NEW q \in Runs
          PROVE  \/ then[q] >= owed[q]
                 \/ /\ handler[q] = "dispatching" /\ handler'[q] = "done"
                    /\ costs'.reserved + costs'.unknown < costs.reserved + costs.unknown
                    /\ released' = released
      BY <1>1, <1>2, <1>4, <2>1
    <3>2. ASSUME NEW q \in Runs, handler'[q] = "admitted", handler[q] # "admitted"
          PROVE  \E cost \in Estimates : cost <= then[q]
      BY <1>2, <1>4, <2>1, <3>2
    <3>3. QED BY <3>1, <3>2
  <2> HIDE DEF Good
  <2>6. QED BY <2>4, <2>5
<1>5. ASSUME NoMoney PROVE Goal
  BY <1>2, <1>3, <1>5 DEF NoMoney
<1>6. ASSUME NEW r \in Runs, NEW amount \in 1 .. runs[r].unknown, ReconcileUnknownCost(r, amount)
      PROVE  Goal
  <2>1. amount \in Nat /\ amount <= costs.unknown
    <3>1. PICK h : Holds(h)
      BY DEF Held
    <3>2. h \in [Runs -> Nat] /\ h[r] <= Sum(h)
      BY <3>1, SumAt DEF Holds
    <3>3. QED BY <1>1, <3>1, <3>2 DEF Holds
  <2>2. costs'.unknown = costs.unknown - amount /\ costs'.reserved = costs.reserved
    <3>1. costs'.unknown = ClampedMinus(costs.unknown, amount)
      BY <1>6 DEF ReconcileUnknownCost, IndInv, TypeOK, Costs
    <3>2. costs'.reserved = costs.reserved
      BY <1>6 DEF ReconcileUnknownCost, IndInv, TypeOK, Costs
    <3>3. QED BY <1>1, <2>1, <3>1, <3>2 DEF ClampedMinus
  <2>3. /\ released' \in [Runs -> Nat] /\ released'[r] = released[r] + amount
        /\ \A q \in Runs \ {r} : released'[q] = released[q]
    BY <1>1, <1>6, <2>1 DEF ReconcileUnknownCost
  <2>4. Sum(released') = Sum(released) + amount
    BY <1>1, <1>2, <2>1, <2>3, SumAt
  <2>5. \A q \in Runs : runs'[q].reserved = runs[q].reserved
    BY <1>1, <1>6 DEF ReconcileUnknownCost, Run
  <2>6. handler' = handler
    BY <1>6 DEF ReconcileUnknownCost
  <2>7. costs'.reserved + costs'.unknown + Sum(released') =
          costs.reserved + costs.unknown + Sum(released)
    BY <1>1, <1>2, <2>1, <2>2, <2>4
  <2>8. QED BY <1>2, <1>3, <2>5, <2>6, <2>7
<1>7. ASSUME ReserveAdmission PROVE Goal
  <2>1. /\ CostsAfterRecovery.reserved \in Nat /\ CostsAfterRecovery.unknown \in Nat
        /\ CostsAfterRecovery.reserved + CostsAfterRecovery.unknown
             = costs.reserved + costs.unknown
        /\ \A q \in Runs : RunsAfterRecovery[q].reserved <= owed[q]
    <3>1. \A q \in Runs : /\ RunsAfterRecovery[q].reserved \in Nat
                           /\ RunsAfterRecovery[q].reserved <= runs[q].reserved
      BY RecoveryMoves DEF Run
    <3>2. QED BY <1>1, <1>2, <3>1, RecoveryMoves
  <2>2. ASSUME NEW t \in Tokens, NEW k \in Keys \cup {Null}, NEW c \in Commits,
                NEW live \in BOOLEAN,
               AnswerWithoutReserving(t, k, c, live) \/ RefuseExpiredGrant(t, k, c, live)
        PROVE  Goal
    <3>1. /\ runs' = RunsAfterRecovery /\ costs' = CostsAfterRecovery
          /\ released' = released /\ handler' = handler
      BY <2>2 DEF AnswerWithoutReserving, RefuseExpiredGrant, RecoverDurableState
    <3>2. QED BY <1>3, <2>1, <3>1
  <2>3. ASSUME NEW t \in Tokens, NEW k \in Keys \cup {Null}, NEW c \in Commits,
                NEW live \in BOOLEAN,
               NEW cost \in Estimates, NEW r \in Runs, Reserve(t, k, c, live, cost, r)
        PROVE  Goal
    <3>1. /\ runs' = [RunsAfterRecovery EXCEPT
                ![r] = [status |-> "RESERVED", key |-> k, token |-> t, age |-> 0,
                        reserved |-> cost, observed |-> 0, unknown |-> 0]]
          /\ costs' = [CostsAfterRecovery EXCEPT !.reserved = @ + cost]
          /\ handler' = [handler EXCEPT ![r] = "admitted"]
          /\ released' = released
      BY <2>3 DEF Reserve
    <3>2. RunsAfterRecovery \in [Runs -> Run] /\ CostsAfterRecovery \in Costs /\ cost \in Nat
      BY RecoveryKeepsReservation, CostAssumption
    <3>3. /\ costs'.unknown = CostsAfterRecovery.unknown
          /\ costs'.reserved = CostsAfterRecovery.reserved + cost
      BY <3>1, <3>2 DEF Costs
    <3>4. /\ runs'[r].reserved = cost
          /\ \A q \in Runs \ {r} : runs'[q].reserved <= owed[q]
      BY <2>1, <3>1, <3>2
    <3>5. /\ cost \in Int /\ cost >= 0 /\ owed[r] + cost \in Nat /\ runs'[r].reserved <= owed[r] + cost
          /\ costs'.reserved + costs'.unknown = costs.reserved + costs.unknown + cost
      BY <1>1, <1>2, <2>1, <3>2, <3>3, <3>4
    <3>6. \A q \in Runs : handler'[q] = "admitted" =>
             handler[q] = "admitted" \/ (q = r /\ cost \in Estimates)
      BY <1>1, <3>1
    <3>7. QED BY <1>4, <3>1, <3>4, <3>5, <3>6
  <2>4. QED BY <1>7, <2>2, <2>3 DEF ReserveAdmission
<1>8. ASSUME NEW r \in Runs, NEW charge \in Charges \cup {Null},
             \/ RecordExecutionSuccess(r, charge)
             \/ \E ambiguous, dispatched \in BOOLEAN :
                  RecordExecutionFailure(r, ambiguous, dispatched, charge)
      PROVE  Goal
  <2>1. PICK held \in {0, runs[r].reserved} :
           /\ runs'[r].reserved = 0
           /\ \A q \in Runs \ {r} : runs'[q] = runs[q]
           /\ costs'.reserved = ClampedMinus(costs.reserved, runs[r].reserved)
           /\ costs'.unknown = costs.unknown + held
           /\ released' = released
           /\ handler[r] = "dispatching" /\ handler' = [handler EXCEPT ![r] = "done"]
    BY <1>8, SettleMoney
  <2>2. runs[r].reserved <= costs.reserved
    BY <1>1 DEF IndInv, ReservationOfActiveRun
  <2>3. PICK d : d = held - runs[r].reserved
    OBVIOUS
  <2>4. /\ d \in Int /\ owed[r] + d \in Nat /\ runs'[r].reserved <= owed[r] + d
        /\ costs'.reserved + costs'.unknown = costs.reserved + costs.unknown + d
    BY <1>1, <1>2, <2>1, <2>2, <2>3 DEF ClampedMinus
  <2>5. /\ handler'[r] = "done"
        /\ \A q \in Runs : handler'[q] = "admitted" => handler[q] = "admitted"
    BY <1>1, <2>1
  <2>6. /\ \A q \in Runs \ {r} : runs'[q].reserved <= owed[q]
        /\ released' = released /\ handler[r] = "dispatching"
    BY <1>2, <2>1
  <2>7. /\ \/ d >= 0
           \/ handler[r] = "dispatching" /\ handler'[r] = "done"
        /\ \A q \in Runs : handler'[q] = "admitted" =>
             handler[q] = "admitted" \/ (q = r /\ d \in Estimates)
    BY <2>5, <2>6
  <2> HIDE DEF Goal
  <2>8. QED BY <1>4, <2>4, <2>6, <2>7
<1> HIDE DEF Goal
<1>9. Goal
  <2>1. ASSUME Configure \/ Tick \/ UNCHANGED vars PROVE Goal
    BY <1>5, <2>1, QuietMoney
  <2>2. ASSUME Operate PROVE Goal
    BY <1>5, <1>6, <2>2, QuietMoney DEF Operate
  <2>3. ASSUME NEW r \in Runs, Handler(r) PROVE Goal
    BY <1>5, <1>8, <2>3, QuietMoney DEF Handler
  <2>4. QED BY <1>7, <2>1, <2>2, <2>3 DEF Next
<1>10. QED BY <1>9 DEF Goal

-----------------------------------------------------------------------------
(* III. The live run.                                                      *)

BridgeTypeOK ==
  /\ request \in [Runs -> [Copies -> RequestState]]
  /\ claim \in [Runs -> ClaimState]
  /\ cached \in [Runs -> Final \cup {"none"}]
  /\ executed \subseteq Runs
  /\ reply \in [Runs -> Reply \cup {"none"}]

(* The claim is the lock of the one attempt, and what is cached or replied *)
(* comes from an execution.                                                *)
ClaimIsLock ==
  \A r \in Runs :
    /\ \A i \in Copies : request[r][i] = "executing" => claim[r] = "IN_PROGRESS" /\ r \in executed
    /\ \A i, j \in Copies : request[r][i] = "executing" /\ request[r][j] = "executing" => i = j
    /\ claim[r] = "COMPLETED" <=> cached[r] # "none"
    /\ r \in executed => claim[r] # "NONE"

ReplyOfExecution ==
  \A r \in Runs :
    /\ cached[r] # "none" => r \in executed
    /\ reply[r] = "completed" => cached[r] = "completed"

BridgeInv == BridgeTypeOK /\ ClaimIsLock /\ ReplyOfExecution /\ ReceiptOfExecution

-----------------------------------------------------------------------------
(* Whatever happens end to end is a step of the ledger or none.            *)
LEMMA LedgerStep == [LiveNext]_allVars => [Next]_vars
<1>1. CASE Ledger
  BY <1>1 DEF Ledger, Next, Handler
<1>2. ASSUME NEW r \in Runs, Dispatcher(r) PROVE [Next]_vars
  <2>1. Null \in Charges \cup {Null}
    OBVIOUS
  <2>2. ASSUME NEW ambiguous \in BOOLEAN, NEW dispatched \in BOOLEAN,
               RecordExecutionFailure(r, ambiguous, dispatched, Null)
        PROVE  Next
    BY <2>1, <2>2 DEF Next, Handler
  <2>3. CASE RecordExecutionSuccess(r, Null)
    BY <2>1, <2>3 DEF Next, Handler
  <2>4. CASE SendRequest(r)
    BY <2>4 DEF SendRequest
  <2>5. CASE RefuseToDispatch(r)
    BY <2>2, <2>5 DEF RefuseToDispatch
  <2>6. CASE TransportFails(r)
    BY <2>2, <2>6 DEF TransportFails
  <2>7. CASE RecordReply(r)
    <3>1. (reply[r] = "unknown") \in BOOLEAN /\ (reply[r] # "rejected") \in BOOLEAN
      OBVIOUS
    <3>2. QED BY <3>1, <2>2, <2>3, <2>7 DEF RecordReply
  <2>8. QED BY <1>2, <2>4, <2>5, <2>6, <2>7 DEF Dispatcher
<1>3. ASSUME NEW r \in Runs, NEW i \in Copies, Bridge(r, i) PROVE UNCHANGED vars
  BY <1>3 DEF Bridge, Duplicate, Reject, ClaimNotPersisted, Execute, AnswerFromClaim, Finish,
     FinishUnpersisted, ExecutionDies
<1>4. CASE UNCHANGED allVars
  BY <1>4 DEF allVars
<1>5. QED BY <1>1, <1>2, <1>3, <1>4 DEF LiveNext

(* Only a completed reply adds a receipt; the bridge's own steps add none, *)
(* the ledger's and the dispatcher's other steps leave the bridge alone or *)
(* send the request.                                                       *)
LEMMA ReceiptStep ==
  ASSUME [LiveNext]_allVars
  PROVE  \/ receipts' = receipts
         \/ \E r \in Runs : reply[r] = "completed" /\ receipts' = receipts \cup {r}
                            /\ UNCHANGED bridge
<1>1. CASE Ledger
  <2>1. CASE Configure
    BY <2>1 DEF Configure, SetKillSwitch, ConfigureLiveGate, ConfigureInvocationCap,
       ConfigureSourceCommit
  <2>2. CASE Operate
    BY <2>2 DEF Operate, IssueGrant, ExpireStaleCostHoldExceptions, AuthorizeCostHoldException,
       ReconcileUnknownCost
  <2>3. CASE ReserveAdmission
    <3>1. ASSUME NEW t, NEW k, NEW c, NEW live,
                 AnswerWithoutReserving(t, k, c, live) \/ RefuseExpiredGrant(t, k, c, live)
          PROVE  receipts' = receipts
      BY <3>1 DEF AnswerWithoutReserving, RefuseExpiredGrant
    <3>2. ASSUME NEW t, NEW k, NEW c, NEW live, NEW cost, NEW r, Reserve(t, k, c, live, cost, r)
          PROVE  receipts' = receipts
      BY <3>2 DEF Reserve
    <3>3. QED BY <2>3, <3>1, <3>2 DEF ReserveAdmission
  <2>4. ASSUME NEW r \in Runs, MarkInFlight(r) \/ HandlerDies(r) PROVE receipts' = receipts
    BY <2>4 DEF MarkInFlight, HandlerDies, ledger
  <2>5. CASE Tick
    BY <2>5 DEF Tick
  <2>6. QED BY <1>1, <2>1, <2>2, <2>3, <2>4, <2>5 DEF Ledger
<1>2. ASSUME NEW r \in Runs, Dispatcher(r)
      PROVE  receipts' = receipts
             \/ (reply[r] = "completed" /\ receipts' = receipts \cup {r} /\ UNCHANGED bridge)
  BY <1>2 DEF Dispatcher, RefuseToDispatch, SendRequest, TransportFails, RecordReply,
     RecordExecutionSuccess, RecordExecutionFailure, vars
<1>3. ASSUME NEW r \in Runs, NEW i \in Copies, Bridge(r, i) PROVE receipts' = receipts
  BY <1>3 DEF Bridge, Duplicate, Reject, ClaimNotPersisted, Execute, AnswerFromClaim, Finish,
     FinishUnpersisted, ExecutionDies, vars
<1>4. CASE UNCHANGED allVars
  BY <1>4 DEF allVars, vars
<1>5. QED BY <1>1, <1>2, <1>3, <1>4 DEF LiveNext

(* The bridge's state and how one of its steps can change it.              *)
LEMMA BridgeStepInv ==
  ASSUME BridgeInv, NEW r \in Runs, NEW i \in Copies, Bridge(r, i) \/ SendRequest(r)
  PROVE  BridgeTypeOK' /\ ClaimIsLock' /\ ReplyOfExecution' /\ ReceiptOfExecution'
<1> USE CopyAssumption DEF BridgeInv, RequestState
<1>s. receipts' = receipts
  BY DEF Bridge, Duplicate, Reject, ClaimNotPersisted, Execute, AnswerFromClaim, Finish,
     FinishUnpersisted, ExecutionDies, SendRequest, vars
<1>1. ASSUME NEW j \in Copies, NEW s \in RequestState \ {"executing"},
             request' = [request EXCEPT ![r][j] = s],
             UNCHANGED <<claim, cached, executed>>,
             reply' = reply \/ \E x \in Reply : /\ reply' = [reply EXCEPT ![r] = x]
                                                /\ x = "completed" => cached[r] = "completed"
      PROVE  BridgeTypeOK' /\ ClaimIsLock' /\ ReplyOfExecution' /\ ReceiptOfExecution'
  <2>1. /\ request' \in [Runs -> [Copies -> RequestState]]
        /\ \A q \in Runs, k \in Copies :
             request'[q][k] = IF q = r /\ k = j THEN s ELSE request[q][k]
    BY <1>1 DEF BridgeTypeOK
  <2>2. /\ reply' \in [Runs -> Reply \cup {"none"}]
        /\ \A q \in Runs : reply'[q] = "completed" => cached[q] = "completed"
    BY <1>1 DEF BridgeTypeOK, ReplyOfExecution
  <2>3. BridgeTypeOK'
    BY <1>1, <2>1, <2>2 DEF BridgeTypeOK
  <2>4. ClaimIsLock'
    BY <1>1, <2>1 DEF ClaimIsLock
  <2>5. ReplyOfExecution' /\ ReceiptOfExecution'
    BY <1>1, <1>s, <2>2 DEF ReplyOfExecution, ReceiptOfExecution
  <2>6. QED BY <2>3, <2>4, <2>5
<1>2. CASE SendRequest(r) \/ Duplicate(r, i)
  BY <1>1, <1>2 DEF SendRequest, Duplicate
<1>3. CASE Reject(r, i) \/ FinishUnpersisted(r, i) \/ ExecutionDies(r, i)
  BY <1>1, <1>3 DEF Reject, FinishUnpersisted, ExecutionDies, Answer, Reply, Final
<1>4. CASE AnswerFromClaim(r, i)
  <2> DEFINE x == IF claim[r] = "COMPLETED" THEN cached[r] ELSE "unknown"
  <2>1. x \in Reply /\ (x = "completed" => cached[r] = "completed")
    BY DEF BridgeTypeOK, ClaimIsLock, Reply
  <2>2. /\ request' = [request EXCEPT ![r][i] = "answered"]
        /\ reply' = reply \/ reply' = [reply EXCEPT ![r] = x]
        /\ UNCHANGED <<claim, cached, executed>>
    BY <1>4 DEF AnswerFromClaim, Answer
  <2> HIDE DEF x
  <2>3. QED BY <1>1, <2>1, <2>2
<1>5. CASE ClaimNotPersisted(r, i)
  <2>1. /\ claim[r] = "NONE" /\ claim' = [claim EXCEPT ![r] = "IN_PROGRESS"]
        /\ request' = [request EXCEPT ![r][i] = "answered"]
        /\ reply' = reply \/ reply' = [reply EXCEPT ![r] = "rejected"]
        /\ UNCHANGED <<cached, executed>>
    BY <1>5 DEF ClaimNotPersisted, Answer
  <2>2. /\ request' \in [Runs -> [Copies -> RequestState]]
        /\ \A q \in Runs, k \in Copies :
             request'[q][k] = IF q = r /\ k = i THEN "answered" ELSE request[q][k]
    BY <2>1 DEF BridgeTypeOK
  <2>3. /\ claim' \in [Runs -> ClaimState] /\ claim'[r] = "IN_PROGRESS"
        /\ \A q \in Runs \ {r} : claim'[q] = claim[q]
    BY <2>1 DEF BridgeTypeOK, ClaimState
  <2>4. /\ reply' \in [Runs -> Reply \cup {"none"}]
        /\ \A q \in Runs : reply'[q] = "completed" => reply[q] = "completed"
    BY <2>1 DEF BridgeTypeOK, Reply
  <2>5. BridgeTypeOK'
    BY <2>1, <2>2, <2>3, <2>4 DEF BridgeTypeOK
  <2>6. ClaimIsLock'
    BY <2>1, <2>2, <2>3 DEF ClaimIsLock
  <2>7. ReplyOfExecution' /\ ReceiptOfExecution'
    BY <1>s, <2>1, <2>3, <2>4 DEF ReplyOfExecution, ReceiptOfExecution, ClaimIsLock
  <2>8. QED BY <2>5, <2>6, <2>7
<1>6. CASE Execute(r, i)
  <2>1. /\ claim[r] = "NONE" /\ claim' = [claim EXCEPT ![r] = "IN_PROGRESS"]
        /\ request' = [request EXCEPT ![r][i] = "executing"]
        /\ executed' = executed \cup {r}
        /\ UNCHANGED <<cached, reply>>
    BY <1>6 DEF Execute
  <2>2. /\ request' \in [Runs -> [Copies -> RequestState]]
        /\ \A q \in Runs, k \in Copies :
             request'[q][k] = IF q = r /\ k = i THEN "executing" ELSE request[q][k]
    BY <2>1 DEF BridgeTypeOK
  <2>3. /\ claim' \in [Runs -> ClaimState] /\ claim'[r] = "IN_PROGRESS"
        /\ \A q \in Runs \ {r} : claim'[q] = claim[q]
    BY <2>1 DEF BridgeTypeOK, ClaimState
  <2>4. BridgeTypeOK'
    BY <2>1, <2>2, <2>3 DEF BridgeTypeOK
  <2>5. \A k \in Copies : request[r][k] # "executing"
    BY <2>1 DEF ClaimIsLock
  <2>6. ClaimIsLock'
    BY <2>1, <2>2, <2>3, <2>5 DEF ClaimIsLock
  <2>7. ReplyOfExecution' /\ ReceiptOfExecution'
    BY <1>s, <2>1, <2>3 DEF ReplyOfExecution, ReceiptOfExecution
  <2>8. QED BY <2>4, <2>6, <2>7
<1>7. ASSUME NEW x \in Final \cup {"unknown"}, Finish(r, i, x)
      PROVE  BridgeTypeOK' /\ ClaimIsLock' /\ ReplyOfExecution' /\ ReceiptOfExecution'
  <2>1. /\ request[r][i] = "executing"
        /\ claim' = [claim EXCEPT ![r] = IF x = "unknown" THEN "AMBIGUOUS" ELSE "COMPLETED"]
        /\ cached' = IF x = "unknown" THEN cached ELSE [cached EXCEPT ![r] = x]
        /\ request' = [request EXCEPT ![r][i] = "answered"]
        /\ reply' = reply \/ reply' = [reply EXCEPT ![r] = x]
        /\ executed' = executed
    BY <1>7 DEF Finish, Answer
  <2>2. /\ request' \in [Runs -> [Copies -> RequestState]]
        /\ \A q \in Runs, k \in Copies :
             request'[q][k] = IF q = r /\ k = i THEN "answered" ELSE request[q][k]
    BY <2>1 DEF BridgeTypeOK
  <2>3. /\ claim[r] = "IN_PROGRESS" /\ cached[r] = "none" /\ r \in executed
        /\ \A k \in Copies : request'[r][k] # "executing"
    BY <2>1, <2>2 DEF ClaimIsLock
  <2>4. /\ claim' \in [Runs -> ClaimState]
        /\ claim'[r] = IF x = "unknown" THEN "AMBIGUOUS" ELSE "COMPLETED"
        /\ \A q \in Runs \ {r} : claim'[q] = claim[q]
    BY <2>1 DEF BridgeTypeOK, ClaimState
  <2>5. /\ cached' \in [Runs -> Final \cup {"none"}]
        /\ cached'[r] = IF x = "unknown" THEN "none" ELSE x
        /\ \A q \in Runs \ {r} : cached'[q] = cached[q]
    BY <2>1, <2>3 DEF BridgeTypeOK
  <2>6. /\ reply' \in [Runs -> Reply \cup {"none"}]
        /\ \A q \in Runs : reply'[q] = reply[q] \/ (q = r /\ reply'[q] = x)
    BY <2>1 DEF BridgeTypeOK, Reply
  <2>7. BridgeTypeOK'
    BY <2>1, <2>2, <2>4, <2>5, <2>6 DEF BridgeTypeOK
  <2>8. ClaimIsLock'
    BY <2>1, <2>2, <2>3, <2>4, <2>5 DEF ClaimIsLock, Final
  <2>9. ReplyOfExecution'
    BY <2>1, <2>3, <2>5, <2>6 DEF ReplyOfExecution
  <2>10. ReceiptOfExecution'
    BY <1>s, <2>1, <2>3, <2>4, <2>5 DEF ReceiptOfExecution
  <2>11. QED BY <2>7, <2>8, <2>9, <2>10
<1>8. QED BY <1>2, <1>3, <1>4, <1>5, <1>6, <1>7 DEF Bridge

LEMMA BridgeInvStep == ASSUME BridgeInv, [LiveNext]_allVars PROVE BridgeInv'
<1>1. CASE UNCHANGED bridge
  <2>1. BridgeTypeOK' /\ ClaimIsLock' /\ ReplyOfExecution'
    BY <1>1 DEF bridge, BridgeInv, BridgeTypeOK, ClaimIsLock, ReplyOfExecution
  <2>2. ReceiptOfExecution'
    BY <1>1, ReceiptStep
    DEF bridge, BridgeInv, ClaimIsLock, ReplyOfExecution, ReceiptOfExecution
  <2>3. QED BY <2>1, <2>2 DEF BridgeInv
<1>2. ASSUME NEW r \in Runs, SendRequest(r) PROVE BridgeInv'
  BY <1>2, BridgeStepInv, CopyAssumption DEF BridgeInv
<1>3. ASSUME NEW r \in Runs, NEW i \in Copies, Bridge(r, i) PROVE BridgeInv'
  BY <1>3, BridgeStepInv DEF BridgeInv
<1>4. QED
  BY <1>1, <1>2, <1>3
  DEF LiveNext, Ledger, Dispatcher, RefuseToDispatch, TransportFails, RecordReply, allVars

LEMMA BridgeInvInit == LiveInit => BridgeInv
  BY DEF LiveInit, Init, BridgeInv, BridgeTypeOK, ClaimIsLock, ReplyOfExecution,
     ReceiptOfExecution, RequestState, ClaimState

-----------------------------------------------------------------------------
(* The theorems.                                                           *)

(* A live run end to end is an execution of the ledger: whatever the       *)
(* network and the bridge do, the ledger's theorems hold of it.            *)
THEOREM LiveImplementsLedger == LiveSpec => Spec
<1>1. LiveInit => Init
  BY DEF LiveInit
<1>2. [LiveNext]_allVars => [Next]_vars
  BY LedgerStep
<1>3. QED BY <1>1, <1>2, PTL DEF LiveSpec, Spec

(* In particular one run is active at a time, its reservation is released  *)
(* once, and a receipt means a completed run.                              *)
THEOREM LiveLedgerSafe ==
  LiveSpec => [](OneActiveRun /\ ReservationOfActiveRun /\ ReceiptIffCompleted)
<1>1. IndInv => OneActiveRun /\ ReservationOfActiveRun /\ ReceiptIffCompleted
  BY DEF IndInv
<1>2. QED BY <1>1, LiveImplementsLedger, LedgerInvariant, PTL

(* A public receipt is that of an execution whose outcome is stored.       *)
THEOREM LiveBridgeInvariant == LiveSpec => []BridgeInv
<1>1. LiveInit => BridgeInv
  BY BridgeInvInit
<1>2. BridgeInv /\ [LiveNext]_allVars => BridgeInv'
  BY BridgeInvStep
<1>3. QED BY <1>1, <1>2, PTL DEF LiveSpec

(* No late, replayed or lost reply makes a receipt out of nothing.         *)
THEOREM LiveReceiptOfExecution == LiveSpec => []ReceiptOfExecution
<1>1. BridgeInv => ReceiptOfExecution
  BY DEF BridgeInv
<1>2. QED BY <1>1, LiveBridgeInvariant, PTL

-----------------------------------------------------------------------------
(* The store implements its promise.                                       *)

LEMMA AtMostOnceInit == LiveInit => AtMostOnce!Init
  BY DEF LiveInit, AtMostOnce!Init, Executing

(* A step that leaves the files and the executing deliveries alone.        *)
LEMMA AtMostOnceStutter ==
  ASSUME UNCHANGED <<claim, cached>>, \A r \in Runs : Executing(r)' = Executing(r)
  PROVE  UNCHANGED AtMostOnce!vars
  BY DEF AtMostOnce!vars

LEMMA AtMostOnceStep ==
  ASSUME BridgeInv, [LiveNext]_allVars
  PROVE  [AtMostOnce!Next]_AtMostOnce!vars
<1> USE DEF BridgeInv
<1> DEFINE Goal == [AtMostOnce!Next]_AtMostOnce!vars
<1>1. CASE UNCHANGED bridge
  BY <1>1, AtMostOnceStutter DEF bridge, Executing
<1>2. ASSUME NEW r \in Runs, NEW i \in Copies, NEW s \in RequestState \ {"executing"},
             request[r][i] # "executing",
             request' = [request EXCEPT ![r][i] = s], UNCHANGED <<claim, cached>>
      PROVE  Goal
  <2>1. \A q \in Runs, k \in Copies :
          request'[q][k] = IF q = r /\ k = i THEN s ELSE request[q][k]
    BY <1>2 DEF BridgeTypeOK
  <2>2. \A q \in Runs : Executing(q)' = Executing(q)
    BY <1>2, <2>1 DEF Executing
  <2>3. QED BY <1>2, <2>2, AtMostOnceStutter
<1>3. ASSUME NEW r \in Runs, SendRequest(r) PROVE Goal
  BY <1>2, <1>3, CopyAssumption DEF SendRequest, RequestState
<1>4. ASSUME NEW r \in Runs, NEW i \in Copies,
             Duplicate(r, i) \/ Reject(r, i) \/ AnswerFromClaim(r, i)
      PROVE  Goal
  BY <1>2, <1>4 DEF Duplicate, Reject, AnswerFromClaim, Answer, RequestState
<1>5. ASSUME NEW r \in Runs, NEW i \in Copies, ClaimNotPersisted(r, i) PROVE Goal
  <2>1. /\ claim[r] = "NONE" /\ request[r][i] = "sent"
        /\ claim' = [claim EXCEPT ![r] = "IN_PROGRESS"]
        /\ request' = [request EXCEPT ![r][i] = "answered"]
        /\ UNCHANGED cached
    BY <1>5 DEF ClaimNotPersisted, Answer
  <2>2. \A q \in Runs : Executing(q)' = Executing(q)
    <3>1. \A q \in Runs, k \in Copies :
            request'[q][k] = IF q = r /\ k = i THEN "answered" ELSE request[q][k]
      BY <2>1 DEF BridgeTypeOK
    <3>2. QED BY <2>1, <3>1 DEF Executing
  <2>3. {q \in Runs : claim'[q] # "NONE"} = {q \in Runs : claim[q] # "NONE"} \cup {r}
    BY <2>1 DEF BridgeTypeOK
  <2>4. AtMostOnce!Waste(r)
    BY <2>1, <2>2, <2>3 DEF AtMostOnce!Waste
  <2>5. QED BY <2>4 DEF AtMostOnce!Next
<1>6. ASSUME NEW r \in Runs, NEW i \in Copies, Execute(r, i) PROVE Goal
  <2>1. /\ claim[r] = "NONE"
        /\ claim' = [claim EXCEPT ![r] = "IN_PROGRESS"]
        /\ request' = [request EXCEPT ![r][i] = "executing"]
        /\ UNCHANGED cached
    BY <1>6 DEF Execute
  <2>2. \A q \in Runs, k \in Copies :
          request'[q][k] = IF q = r /\ k = i THEN "executing" ELSE request[q][k]
    BY <2>1 DEF BridgeTypeOK
  <2>3. Executing(r)' = {i} /\ \A q \in Runs \ {r} : Executing(q)' = Executing(q)
    BY <2>1, <2>2 DEF Executing, ClaimIsLock
  <2>4. {q \in Runs : claim'[q] # "NONE"} = {q \in Runs : claim[q] # "NONE"} \cup {r}
    BY <2>1 DEF BridgeTypeOK
  <2>5. [q \in Runs |-> Executing(q)'] = [[q \in Runs |-> Executing(q)] EXCEPT ![r] = {i}]
    BY <2>3
  <2>6. AtMostOnce!Start(r, i)
    BY <2>1, <2>4, <2>5 DEF AtMostOnce!Start
  <2>7. QED BY <2>6 DEF AtMostOnce!Next
<1>7. ASSUME NEW r \in Runs, NEW i \in Copies, NEW x \in Final \cup {"none"},
             request[r][i] = "executing", cached' = [cached EXCEPT ![r] = x],
             request' = [request EXCEPT ![r][i] = "answered"],
             \A q \in Runs : claim'[q] = "NONE" <=> claim[q] = "NONE"
      PROVE  Goal
  <2>1. \A q \in Runs, k \in Copies :
          request'[q][k] = IF q = r /\ k = i THEN "answered" ELSE request[q][k]
    BY <1>7 DEF BridgeTypeOK
  <2>2. Executing(r)' = {} /\ \A q \in Runs \ {r} : Executing(q)' = Executing(q)
    BY <1>7, <2>1 DEF Executing, ClaimIsLock
  <2>3. [q \in Runs |-> Executing(q)'] = [[q \in Runs |-> Executing(q)] EXCEPT ![r] = {}]
    BY <2>2
  <2>4. Executing(r) # {} /\ cached[r] = "none"
    BY <1>7 DEF Executing, ClaimIsLock
  <2>5. AtMostOnce!End(r, x)
    BY <1>7, <2>3, <2>4 DEF AtMostOnce!End
  <2>6. QED BY <2>5 DEF AtMostOnce!Next
<1>8. ASSUME NEW r \in Runs, NEW i \in Copies, FinishUnpersisted(r, i) \/ ExecutionDies(r, i)
      PROVE  Goal
  <2>1. /\ request[r][i] = "executing"
        /\ request' = [request EXCEPT ![r][i] = "answered"]
        /\ UNCHANGED <<claim, cached>>
    BY <1>8 DEF FinishUnpersisted, ExecutionDies, Answer
  <2>2. cached[r] = "none"
    BY <2>1 DEF ClaimIsLock
  <2>3. cached' = [cached EXCEPT ![r] = "none"]
    BY <2>1, <2>2 DEF BridgeTypeOK
  <2>4. QED BY <1>7, <2>1, <2>3
<1>9. ASSUME NEW r \in Runs, NEW i \in Copies, NEW x \in Final \cup {"unknown"}, Finish(r, i, x)
      PROVE  Goal
  <2>1. /\ request[r][i] = "executing"
        /\ claim' = [claim EXCEPT ![r] = IF x = "unknown" THEN "AMBIGUOUS" ELSE "COMPLETED"]
        /\ cached' = IF x = "unknown" THEN cached ELSE [cached EXCEPT ![r] = x]
        /\ request' = [request EXCEPT ![r][i] = "answered"]
    BY <1>9 DEF Finish, Answer
  <2>2. claim[r] = "IN_PROGRESS" /\ cached[r] = "none"
    BY <2>1 DEF ClaimIsLock
  <2>3. \A q \in Runs : claim'[q] = "NONE" <=> claim[q] = "NONE"
    BY <2>1, <2>2 DEF BridgeTypeOK
  <2>4. \E y \in Final \cup {"none"} : cached' = [cached EXCEPT ![r] = y]
    <3>1. CASE x = "unknown"
      <4>1. cached' = [cached EXCEPT ![r] = "none"]
        BY <2>1, <2>2, <3>1 DEF BridgeTypeOK
      <4>2. QED BY <4>1
    <3>2. CASE x # "unknown"
      BY <2>1, <3>2
    <3>3. QED BY <3>1, <3>2
  <2>5. QED BY <1>7, <2>1, <2>3, <2>4
<1>10. QED
  BY <1>1, <1>3, <1>4, <1>5, <1>6, <1>8, <1>9
  DEF LiveNext, Ledger, Dispatcher, RefuseToDispatch, TransportFails, RecordReply, Bridge, allVars

(* However many deliveries of a request arrive, whatever dies and whatever *)
(* cannot be written, a run is executed by at most one of them, once, and  *)
(* the outcome it stores never changes.                                    *)
THEOREM LiveAtMostOnce == LiveSpec => ImplementsAtMostOnce
<1>1. LiveInit => AtMostOnce!Init
  BY AtMostOnceInit
<1>2. BridgeInv /\ [LiveNext]_allVars => [AtMostOnce!Next]_AtMostOnce!vars
  BY AtMostOnceStep
<1>3. AtMostOnce!Init /\ [][AtMostOnce!Next]_AtMostOnce!vars => ImplementsAtMostOnce
  BY DEF ImplementsAtMostOnce, AtMostOnce!Spec
<1>4. QED BY <1>1, <1>2, <1>3, LiveBridgeInvariant, PTL DEF LiveSpec

-----------------------------------------------------------------------------
(* IV. What an execution costs.                                            *)

(* The awaited delivery is the only one.                                   *)
Lone == \A r \in Runs, i \in Copies \ {Original} : request[r][i] = "unsent"

(* A run of which provider work may have been asked, or may yet be.        *)
Owing(r) ==
  \/ handler[r] \in {"admitted", "dispatching"}
  \/ request[r][Original] # "unsent" /\ reply[r] # "rejected"

(* A reply is given once, and not to refuse what was executed.             *)
Awaited ==
  /\ \A r \in Runs : reply[r] # "none" => request[r][Original] = "answered"
  /\ Lone => \A r \in executed :
               request[r][Original] \in {"executing", "answered"} /\ reply[r] # "rejected"

(* Something of each such run is reserved, held or was released, that is   *)
(* at least the least estimate.                                            *)
Least(e) == \A d \in Estimates : e <= d
Covered ==
  Lone => \E owed : /\ Owes(owed)
                    /\ \A r \in Runs, e \in Estimates : Owing(r) /\ Least(e) => e <= owed[r]

LEMMA LoneBefore == ASSUME BridgeTypeOK, [LiveNext]_allVars, Lone' PROVE Lone
<1>1. CASE UNCHANGED bridge
  BY <1>1 DEF bridge, Lone
<1>2. ASSUME NEW r \in Runs, SendRequest(r) PROVE Lone
  BY <1>2 DEF SendRequest, Lone, BridgeTypeOK
<1>3. ASSUME NEW r \in Runs, NEW i \in Copies, Bridge(r, i) PROVE Lone
  <2>1. \E s \in RequestState \ {"unsent"} : request' = [request EXCEPT ![r][i] = s]
    BY <1>3 DEF Bridge, Duplicate, Reject, ClaimNotPersisted, Execute, AnswerFromClaim, Finish,
       FinishUnpersisted, ExecutionDies, Answer, RequestState
  <2>2. QED BY <2>1 DEF Lone, BridgeTypeOK
<1>4. QED
  BY <1>1, <1>2, <1>3
  DEF LiveNext, Ledger, Dispatcher, RefuseToDispatch, TransportFails, RecordReply, allVars

(* What the bridge does to the awaited delivery of a run.                  *)
LEMMA AwaitedDelivery ==
  ASSUME BridgeTypeOK, NEW r \in Runs, NEW i \in Copies, Bridge(r, i)
  PROVE  /\ \A q \in Runs \ {r}, k \in Copies : request'[q][k] = request[q][k]
         /\ \A q \in Runs \ {r} : reply'[q] = reply[q]
         /\ executed' = executed \/ executed' = executed \cup {r}
         /\ i # Original =>
              /\ request'[r][Original] = request[r][Original] /\ reply'[r] = reply[r]
              /\ request'[r][i] # "unsent"
         /\ i = Original =>
              \/ /\ request[r][i] = "sent" /\ request'[r][i] = "answered"
                 /\ executed' = executed
              \/ /\ request[r][i] = "sent" /\ request'[r][i] = "executing"
                 /\ reply'[r] = reply[r]
              \/ /\ request[r][i] = "executing" /\ request'[r][i] = "answered"
                 /\ reply'[r] = reply[r] \/ reply'[r] \in Final \cup {"unknown"}
                 /\ executed' = executed
<1> USE CopyAssumption DEF BridgeTypeOK
<1>1. ASSUME NEW s, request' = [request EXCEPT ![r][i] = s]
      PROVE  /\ \A q \in Runs, k \in Copies :
                  request'[q][k] = IF q = r /\ k = i THEN s ELSE request[q][k]
  BY <1>1
<1>2. ASSUME NEW x, Answer(r, i, x)
      PROVE  /\ \A q \in Runs, k \in Copies :
                  request'[q][k] = IF q = r /\ k = i THEN "answered" ELSE request[q][k]
             /\ \A q \in Runs : reply'[q] = IF q = r /\ i = Original THEN x ELSE reply[q]
  <2>1. request' = [request EXCEPT ![r][i] = "answered"]
    BY <1>2 DEF Answer
  <2>2. \A q \in Runs : reply'[q] = IF q = r /\ i = Original THEN x ELSE reply[q]
    BY <1>2 DEF Answer
  <2>3. QED BY <1>1, <2>1, <2>2
<1>3. CASE Duplicate(r, i)
  BY <1>1, <1>3 DEF Duplicate
<1>4. CASE Reject(r, i)
  BY <1>2, <1>4 DEF Reject
<1>5. CASE ClaimNotPersisted(r, i)
  BY <1>2, <1>5 DEF ClaimNotPersisted
<1>6. CASE Execute(r, i)
  BY <1>1, <1>6 DEF Execute
<1>7. CASE AnswerFromClaim(r, i)
  BY <1>2, <1>7 DEF AnswerFromClaim
<1>8. ASSUME NEW x \in Final \cup {"unknown"}, Finish(r, i, x)
      PROVE  Answer(r, i, x) /\ request[r][i] = "executing" /\ executed' = executed
  BY <1>8 DEF Finish
<1>9. CASE \E x \in Final \cup {"unknown"} : Finish(r, i, x)
  BY <1>2, <1>8, <1>9
<1>10. CASE FinishUnpersisted(r, i)
  BY <1>2, <1>10 DEF FinishUnpersisted
<1>11. CASE ExecutionDies(r, i)
  BY <1>1, <1>11 DEF ExecutionDies
<1>12. QED BY <1>3, <1>4, <1>5, <1>6, <1>7, <1>9, <1>10, <1>11 DEF Bridge

LEMMA AwaitedStep == ASSUME BridgeTypeOK, Awaited, [LiveNext]_allVars PROVE Awaited'
<1>1. CASE UNCHANGED bridge
  BY <1>1 DEF bridge, Awaited, Lone
<1>2. ASSUME NEW r \in Runs, SendRequest(r) PROVE Awaited'
  <2>1. /\ \A q \in Runs, k \in Copies :
             request'[q][k] = IF q = r /\ k = Original THEN "sent" ELSE request[q][k]
        /\ request[r][Original] = "unsent" /\ UNCHANGED <<reply, executed>>
    BY <1>2, CopyAssumption DEF SendRequest, BridgeTypeOK
  <2>2. Lone' => Lone /\ r \notin executed
    BY <2>1, CopyAssumption DEF Lone, Awaited
  <2>3. QED BY <2>1, <2>2, CopyAssumption DEF Awaited, BridgeTypeOK
<1>3. ASSUME NEW r \in Runs, NEW i \in Copies, Bridge(r, i) PROVE Awaited'
  <2>1. Lone' => Lone
    BY <1>3, LoneBefore DEF LiveNext
  <2>2. Lone' => i = Original
    BY <1>3, AwaitedDelivery DEF Lone
  <2>3. \A q \in Runs : reply'[q] # "none" => request'[q][Original] = "answered"
    BY <1>3, AwaitedDelivery, CopyAssumption DEF Awaited
  <2>4. ASSUME Lone', NEW q \in executed'
        PROVE  request'[q][Original] \in {"executing", "answered"} /\ reply'[q] # "rejected"
    <3>1. CASE q # r
      <4>1. q \in executed /\ q \in Runs
        BY <1>3, <2>4, <3>1, AwaitedDelivery DEF BridgeTypeOK
      <4>2. QED BY <1>3, <2>1, <2>4, <3>1, <4>1, AwaitedDelivery, CopyAssumption DEF Awaited
    <3>2. CASE q = r
      BY <1>3, <2>1, <2>2, <2>4, <3>2, AwaitedDelivery DEF Awaited, Final
    <3>3. QED BY <3>1, <3>2
  <2>5. QED BY <2>3, <2>4 DEF Awaited
<1>4. QED
  BY <1>1, <1>2, <1>3
  DEF LiveNext, Ledger, Dispatcher, RefuseToDispatch, TransportFails, RecordReply, allVars

-----------------------------------------------------------------------------
(* A record that does not say that nothing was started keeps the estimate. *)
LEMMA NothingForFree ==
  ASSUME IndInv, NEW r \in Runs,
         \/ RecordExecutionSuccess(r, Null)
         \/ \E ambiguous \in BOOLEAN : RecordExecutionFailure(r, ambiguous, TRUE, Null)
  PROVE  costs'.reserved + costs'.unknown >= costs.reserved + costs.unknown
<1>1. SettleCosts(r, ChargeOf(Null), runs[r].reserved)
  BY DEF RecordExecutionSuccess, RecordExecutionFailure, Measured
<1>2. costs.reserved \in Nat /\ costs.unknown \in Nat /\ runs[r].reserved \in Nat
  BY DEF IndInv, TypeOK, Costs, Run
<1>3. /\ costs'.reserved = ClampedMinus(costs.reserved, runs[r].reserved)
      /\ costs'.unknown = costs.unknown + runs[r].reserved
  BY <1>1 DEF SettleCosts
<1>4. QED BY <1>2, <1>3 DEF ClampedMinus

(* A handler only gets to the dispatcher from an admission.                *)
LEMMA HandlerMoves ==
  ASSUME IndInv, [Next]_vars, NEW r \in Runs, handler'[r] = "dispatching"
  PROVE  handler[r] \in {"admitted", "dispatching"}
<1>1. handler \in [Runs -> HandlerState]
  BY DEF IndInv, TypeOK
<1>2. CASE handler' = handler
  BY <1>2
<1>3. ASSUME NEW q \in Runs,
             \/ handler' = [handler EXCEPT ![q] = "done"]
             \/ handler' = [handler EXCEPT ![q] = "admitted"]
      PROVE  handler[r] \in {"admitted", "dispatching"}
  BY <1>1, <1>3
<1>4. CASE Configure
  BY <1>2, <1>4 DEF Configure, SetKillSwitch, ConfigureLiveGate, ConfigureInvocationCap,
     ConfigureSourceCommit
<1>5. CASE Operate
  BY <1>2, <1>5 DEF Operate, IssueGrant, ExpireStaleCostHoldExceptions, AuthorizeCostHoldException,
     ReconcileUnknownCost
<1>6. CASE ReserveAdmission
  <2>1. ASSUME NEW t, NEW k, NEW c, NEW live,
               AnswerWithoutReserving(t, k, c, live) \/ RefuseExpiredGrant(t, k, c, live)
        PROVE  handler' = handler
    BY <2>1 DEF AnswerWithoutReserving, RefuseExpiredGrant
  <2>2. ASSUME NEW t, NEW k, NEW c, NEW live, NEW cost, NEW q \in Runs, Reserve(t, k, c, live, cost, q)
        PROVE  handler' = [handler EXCEPT ![q] = "admitted"]
    BY <2>2 DEF Reserve
  <2>3. QED BY <1>2, <1>3, <1>6, <2>1, <2>2 DEF ReserveAdmission
<1>7. ASSUME NEW q \in Runs, MarkInFlight(q) PROVE handler[r] \in {"admitted", "dispatching"}
  BY <1>1, <1>7 DEF MarkInFlight
<1>8. ASSUME NEW q \in Runs, Handler(q), ~MarkInFlight(q)
      PROVE  handler' = [handler EXCEPT ![q] = "done"]
  BY <1>8 DEF Handler, RecordExecutionSuccess, RecordExecutionFailure, HandlerDies
<1>9. CASE Tick \/ UNCHANGED vars
  BY <1>2, <1>9 DEF Tick, vars
<1>10. QED BY <1>3, <1>4, <1>5, <1>6, <1>7, <1>8, <1>9 DEF Next

LEMMA OwingBefore ==
  ASSUME IndInv, BridgeTypeOK, Awaited, [LiveNext]_allVars, NEW r \in Runs, Owing(r)'
  PROVE  Owing(r) \/ handler'[r] = "admitted"
<1>1. CASE handler'[r] \in {"admitted", "dispatching"}
  BY <1>1, LedgerStep, HandlerMoves DEF Owing
<1>2. CASE request'[r][Original] # "unsent" /\ reply'[r] # "rejected"
  <2>1. CASE UNCHANGED bridge
    BY <1>2, <2>1 DEF bridge, Owing
  <2>2. ASSUME NEW q \in Runs, SendRequest(q) PROVE Owing(r)
    BY <1>2, <2>2, CopyAssumption DEF SendRequest, Owing, BridgeTypeOK
  <2>3. ASSUME NEW q \in Runs, NEW i \in Copies, Bridge(q, i) PROVE Owing(r)
    <3>1. CASE q # r
      BY <1>2, <2>3, <3>1, AwaitedDelivery, CopyAssumption DEF Owing
    <3>2. CASE q = r /\ i # Original
      BY <1>2, <2>3, <3>2, AwaitedDelivery DEF Owing
    <3>3. CASE q = r /\ i = Original
      <4>1. request[r][Original] \in {"sent", "executing"}
        BY <2>3, <3>3, AwaitedDelivery
      <4>2. reply[r] = "none"
        BY <4>1 DEF Awaited
      <4>3. QED BY <4>1, <4>2 DEF Owing
    <3>4. QED BY <3>1, <3>2, <3>3
  <2>4. QED
    BY <2>1, <2>2, <2>3
    DEF LiveNext, Ledger, Dispatcher, RefuseToDispatch, TransportFails, RecordReply, allVars
<1>3. QED BY <1>1, <1>2 DEF Owing

(* A handler that settles a run that may have cost something keeps it.     *)
LEMMA OwingKept ==
  ASSUME IndInv, [LiveNext]_allVars, NEW r \in Runs,
         handler[r] = "dispatching", handler'[r] = "done", Owing(r)'
  PROVE  costs'.reserved + costs'.unknown >= costs.reserved + costs.unknown
<1>1. costs.reserved \in Nat /\ costs.unknown \in Nat /\ handler \in [Runs -> HandlerState]
  BY DEF IndInv, TypeOK, Costs
<1>2. CASE UNCHANGED costs
  BY <1>1, <1>2
<1>3. ASSUME Ledger PROVE UNCHANGED costs
  <2>1. ASSUME handler' = handler PROVE FALSE
    BY <2>1
  <2>2. ASSUME NEW t, NEW k, NEW c, NEW live,
               AnswerWithoutReserving(t, k, c, live) \/ RefuseExpiredGrant(t, k, c, live)
        PROVE  FALSE
    BY <2>1, <2>2 DEF AnswerWithoutReserving, RefuseExpiredGrant
  <2>3. ASSUME NEW t, NEW k, NEW c, NEW live, NEW cost, NEW q \in Runs, Reserve(t, k, c, live, cost, q)
        PROVE  FALSE
    BY <1>1, <2>3 DEF Reserve
  <2>4. ASSUME NEW q \in Runs, MarkInFlight(q) \/ HandlerDies(q) PROVE UNCHANGED costs
    BY <2>4 DEF MarkInFlight, HandlerDies, ledger
  <2>5. ASSUME Configure \/ Operate \/ Tick PROVE FALSE
    BY <2>1, <2>5 DEF Configure, SetKillSwitch, ConfigureLiveGate, ConfigureInvocationCap,
       ConfigureSourceCommit, Operate, IssueGrant, ExpireStaleCostHoldExceptions,
       AuthorizeCostHoldException, ReconcileUnknownCost, Tick
  <2>6. QED BY <1>3, <2>2, <2>3, <2>4, <2>5 DEF Ledger, ReserveAdmission
<1>4. ASSUME NEW q \in Runs, Dispatcher(q)
      PROVE  costs'.reserved + costs'.unknown >= costs.reserved + costs.unknown
  <2>1. CASE SendRequest(q)
    BY <2>1 DEF SendRequest, vars
  <2>2. handler' = [handler EXCEPT ![q] = "done"] \/ SendRequest(q)
    BY <1>4 DEF Dispatcher, RefuseToDispatch, TransportFails, RecordReply,
       RecordExecutionSuccess, RecordExecutionFailure
  <2>3. q = r \/ SendRequest(q)
    BY <1>1, <2>2
  <2>4. CASE q = r /\ RefuseToDispatch(r)
    BY <2>4 DEF RefuseToDispatch, bridge, Owing
  <2>5. CASE q = r /\ TransportFails(r)
    BY <2>5, NothingForFree DEF TransportFails
  <2>6. CASE q = r /\ RecordReply(r)
    <3>1. reply[r] # "rejected"
      BY <2>6 DEF RecordReply, bridge, Owing
    <3>2. CASE RecordExecutionSuccess(r, Null)
      BY <3>2, NothingForFree
    <3>3. CASE RecordExecutionFailure(r, reply[r] = "unknown", reply[r] # "rejected", Null)
      <4>1. PICK ambiguous \in BOOLEAN, dispatched \in BOOLEAN :
              ambiguous = (reply[r] = "unknown") /\ dispatched = (reply[r] # "rejected")
        OBVIOUS
      <4>2. dispatched = TRUE
        BY <3>1, <4>1
      <4>3. RecordExecutionFailure(r, ambiguous, TRUE, Null)
        BY <3>3, <4>1, <4>2
      <4>4. QED BY <4>3, NothingForFree
    <3>4. QED BY <2>6, <3>2, <3>3 DEF RecordReply
  <2>7. QED BY <1>4, <2>1, <2>3, <2>4, <2>5, <2>6 DEF Dispatcher
<1>5. ASSUME NEW q \in Runs, NEW i \in Copies, Bridge(q, i) PROVE UNCHANGED costs
  BY <1>5 DEF Bridge, Duplicate, Reject, ClaimNotPersisted, Execute, AnswerFromClaim, Finish,
     FinishUnpersisted, ExecutionDies, vars
<1>6. ASSUME UNCHANGED allVars PROVE UNCHANGED costs
  BY <1>6 DEF allVars, vars
<1>7. QED BY <1>2, <1>3, <1>4, <1>5, <1>6 DEF LiveNext

LEMMA CoveredStep ==
  ASSUME IndInv, Held, BridgeTypeOK, Awaited, Covered, [LiveNext]_allVars
  PROVE  Covered'
<1> SUFFICES ASSUME Lone'
             PROVE  \E owed : /\ Owes(owed)'
                              /\ \A r \in Runs, e \in Estimates :
                                   Owing(r)' /\ Least(e) => e <= owed[r]
  BY DEF Covered, Least
<1>1. PICK owed : /\ Owes(owed)
                  /\ \A r \in Runs, e \in Estimates : Owing(r) /\ Least(e) => e <= owed[r]
  BY LoneBefore DEF Covered
<1>2. [Next]_vars
  BY LedgerStep
<1>3. PICK then :
        /\ Owes(then)'
        /\ \A r \in Runs :
             /\ \/ then[r] >= owed[r]
                \/ /\ handler[r] = "dispatching" /\ handler'[r] = "done"
                   /\ costs'.reserved + costs'.unknown < costs.reserved + costs.unknown
                   /\ released' = released
             /\ handler'[r] = "admitted" =>
                  handler[r] = "admitted" \/ \E cost \in Estimates : cost <= then[r]
  BY <1>1, <1>2, OwesStep
<1>4. ASSUME NEW r \in Runs, NEW e \in Estimates, Owing(r)', Least(e) PROVE e <= then[r]
  <2>1. then[r] \in Nat /\ owed[r] \in Nat /\ \A d \in Estimates : d \in Nat
    BY <1>1, <1>3, CostAssumption DEF Owes
  <2>2. CASE Owing(r)
    <3>1. e <= owed[r]
      BY <1>1, <1>4, <2>2
    <3>2. then[r] >= owed[r]
      <4>1. SUFFICES ASSUME handler[r] = "dispatching", handler'[r] = "done",
                            costs'.reserved + costs'.unknown < costs.reserved + costs.unknown
                     PROVE  FALSE
        BY <1>3
      <4>2. costs'.reserved + costs'.unknown >= costs.reserved + costs.unknown
        BY <1>4, <4>1, OwingKept
      <4>3. /\ costs.reserved \in Nat /\ costs.unknown \in Nat
            /\ costs'.reserved \in Nat /\ costs'.unknown \in Nat
        BY <1>2, NextInv DEF IndInv, TypeOK, Costs
      <4>4. QED BY <4>1, <4>2, <4>3
    <3>3. QED BY <2>1, <3>1, <3>2
  <2>3. CASE ~Owing(r)
    <3>1. handler'[r] = "admitted" /\ handler[r] # "admitted"
      BY <1>4, <2>3, OwingBefore DEF Owing
    <3>2. PICK cost \in Estimates : cost <= then[r]
      BY <1>3, <3>1
    <3>3. QED BY <1>4, <2>1, <3>2 DEF Least
  <2>4. QED BY <2>2, <2>3
<1>5. QED BY <1>3, <1>4

LEMMA CoveredInit == LiveInit => Awaited /\ Covered
<1> SUFFICES ASSUME LiveInit PROVE Awaited /\ Covered
  OBVIOUS
<1>1. Awaited
  BY CopyAssumption DEF LiveInit, Awaited
<1>2. Owes([r \in Runs |-> 0])
  <2>1. released = [r \in Runs |-> 0] /\ costs.reserved = 0 /\ costs.unknown = 0
        /\ \A r \in Runs : runs[r].reserved = 0
    BY DEF LiveInit, Init, NoRun
  <2>2. QED BY <2>1, SumOfNothing DEF Owes
<1>3. \A r \in Runs : ~Owing(r)
  BY CopyAssumption DEF LiveInit, Init, Owing
<1>4. QED BY <1>1, <1>2, <1>3 DEF Covered

LEMMA CoveredCovers == ASSUME BridgeTypeOK, Awaited, Covered PROVE AwaitedExecutionCovered
<1> SUFFICES ASSUME Lone, NEW e \in Estimates, Least(e)
             PROVE  e * Cardinality(executed) <= costs.reserved + costs.unknown + Sum(released)
  BY DEF AwaitedExecutionCovered, ExecutionCovered, Lone, Least, Sum
<1>1. PICK owed : /\ Owes(owed)
                  /\ \A r \in Runs, d \in Estimates : Owing(r) /\ Least(d) => d <= owed[r]
  BY DEF Covered
<1>2. \A r \in executed : r \in Runs /\ Owing(r)
  BY DEF Awaited, Owing, BridgeTypeOK
<1>3. /\ owed \in [Runs -> Nat] /\ executed \in SUBSET Runs /\ e \in Nat
      /\ \A r \in executed : e <= owed[r]
  BY <1>1, <1>2, CostAssumption DEF Owes, BridgeTypeOK
<1>4. e * Cardinality(executed) <= Sum(owed)
  BY <1>3, SumCovers
<1>5. QED BY <1>1, <1>4 DEF Owes

(* As long as the network duplicates nothing, no lost reply, dead handler, *)
(* recovery or late record makes provider work look free.                  *)
THEOREM LiveExecutionCovered == LiveSpec => []AwaitedExecutionCovered
<1>1. LiveInit => Awaited /\ Covered
  BY CoveredInit
<1>2. IndInv /\ Held /\ BridgeInv /\ Awaited /\ Covered /\ [LiveNext]_allVars
        => Awaited' /\ Covered'
  BY AwaitedStep, CoveredStep DEF BridgeInv
<1>3. BridgeInv /\ Awaited /\ Covered => AwaitedExecutionCovered
  BY CoveredCovers DEF BridgeInv
<1>4. QED
  BY <1>1, <1>2, <1>3, LiveImplementsLedger, LedgerInvariant, LedgerHolds, LiveBridgeInvariant, PTL
  DEF LiveSpec

=============================================================================
