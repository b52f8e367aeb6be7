-------------------------- MODULE AdmissionLedger --------------------------
(***************************************************************************)
(* The SQLite-backed admission ledger of the Cloudflare worker             *)
(* (cloudflare/src/ledger.js) together with the request handler of         *)
(* POST /v1/runs (cloudflare/src/index.js) that drives it.                 *)
(*                                                                         *)
(* A method of the Durable Object is synchronous, hence one atomic step.   *)
(* The handler awaits between its calls, so other requests, operators and  *)
(* the clock interleave there, and the worker may die there.  A handler    *)
(* that was admitted owns exactly one run, so it is named by its run.      *)
(*                                                                         *)
(* Times are relative: a row keeps its age and a grant what is left of its *)
(* life, both saturating where no comparison of the code can tell more.    *)
(***************************************************************************)
EXTENDS Integers, FiniteSets, FiniteSetsExt

CONSTANTS
  Tokens,       \* grant tokens
  Runs,         \* run ids (fresh UUIDs: one is used at most once)
  Keys,         \* client idempotency keys
  Null,         \* SQL's NULL, and the null of an optional argument
  Commits,      \* source commits a deployment can declare
  LifetimeCaps, \* values of GLOBAL_INVOCATION_CAP
  Estimates,    \* worst-case costs the deployment can reserve for a run
  Charges,      \* costs a provider can report as measured
  Caps,         \* estimated_cost_cap of a grant, 0 when it carries none
  Balances,     \* verified_balance of a grant, 0 when it carries none
  Floor,        \* TOKEN_FACTORY_PROMO_STOP_THRESHOLD
  TTLs,         \* lifetimes a grant can be issued with
  Deadline      \* recoverDurableState's deadlineSeconds, in clock ticks

ASSUME CostAssumption ==
  /\ Estimates \subseteq Nat \ {0}
  /\ Charges \subseteq Nat
  /\ Caps \subseteq Nat
  /\ Balances \subseteq Nat
  /\ Floor \in Nat \ {0}

ASSUME ClockAssumption ==
  /\ Deadline \in Nat
  /\ TTLs \subseteq Nat

ASSUME NameAssumption ==
  /\ Null \notin Keys \cup Tokens \cup Commits \cup Nat
  /\ IsFiniteSet(Runs)

VARIABLES
  grants,       \* table grants, by token
  runs,         \* table runs, by run id
  costs,        \* the single row of table costs
  released,     \* table reconciliations: total released_amount_usd of a run
  exceptions,   \* table cost_hold_exceptions, by grant token
  receipts,     \* table receipts: the runs that have one
  config,       \* table config: kill switch, live gate, source commit, invocation cap
  handler       \* where the handler that owns a run stands

ledger == <<grants, runs, costs, released, exceptions, receipts, config>>
vars == <<grants, runs, costs, released, exceptions, receipts, config, handler>>

----------------------------------------------------------------------------
(* Rows, without the columns that no later decision reads.                 *)

GrantStatus == {"NONE", "ISSUED", "CONSUMED", "EXPIRED"}
Grant == [status : GrantStatus, uses : Nat, ttl : Int, cap : Nat, balance : Nat]
NoGrant == [status |-> "NONE", uses |-> 0, ttl |-> 0, cap |-> 0, balance |-> 0]

ActiveStatus == {"RESERVED", "IN_FLIGHT"}
SettledStatus == {"COMPLETED", "FAILED", "FAILED_UNRECONCILED_COST", "UNKNOWN_OUTCOME"}
RunStatus == {"NONE", "TIMED_OUT"} \cup ActiveStatus \cup SettledStatus
Run == [status : RunStatus, key : Keys \cup {Null}, token : Tokens \cup {Null},
        age : Nat, reserved : Nat, observed : Nat, unknown : Nat]
NoRun == [status |-> "NONE", key |-> Null, token |-> Null, age |-> 0,
          reserved |-> 0, observed |-> 0, unknown |-> 0]

Costs == [reserved : Nat, observed : Nat, unknown : Nat, total : Nat]

ExceptionStatus == {"NONE", "AUTHORIZED", "CONSUMED", "EXPIRED"}
Exception == [status : ExceptionStatus, unknown : Nat, cap : Nat, balance : Nat,
              run : Runs \cup {Null}]
NoException == [status |-> "NONE", unknown |-> 0, cap |-> 0, balance |-> 0, run |-> Null]

HandlerState == {"idle", "admitted", "dispatching", "done"}

Admitted(r) == runs[r].status # "NONE"
Active(r) == runs[r].status \in ActiveStatus

(* MAX(0.0, a - b) of the UPDATE statements on table costs.                *)
ClampedMinus(a, b) == IF a >= b THEN a - b ELSE 0

Measured(charge) == charge # Null
ChargeOf(charge) == IF Measured(charge) THEN charge ELSE 0

(* A definition named Fault... is the one that follows it with a plausible *)
(* mistake.  No action uses it: the runs are repeated with it in place of  *)
(* the real one, to see that the properties would notice.                  *)

----------------------------------------------------------------------------
(* Steps shared by several methods.                                        *)

(* An authorised exception whose grant can no longer be spent.             *)
Stale(t) ==
  /\ exceptions[t].status = "AUTHORIZED"
  /\ \/ grants[t].status # "ISSUED"
     \/ grants[t].ttl < 0
     \/ grants[t].uses >= 1

(* expireStaleCostHoldExceptions: what it makes of both tables.            *)
ExceptionsAfterExpiry ==
  [t \in Tokens |-> IF Stale(t) THEN [exceptions[t] EXCEPT !.status = "EXPIRED"]
                                ELSE exceptions[t]]
GrantsAfterExpiry ==
  [t \in Tokens |-> IF Stale(t) /\ grants[t].status = "ISSUED" /\ grants[t].ttl < 0
                    THEN [grants[t] EXCEPT !.status = "EXPIRED"]
                    ELSE grants[t]]

(* recoverDurableState: what it makes of tables runs and costs.            *)
FaultOrphansInFlightOnly ==
  {r \in Runs : runs[r].status = "IN_FLIGHT" /\ runs[r].age > Deadline}
Orphans == {r \in Runs : Active(r) /\ runs[r].age > Deadline}
OrphanedCost == MapThenSumSet(LAMBDA r : runs[r].reserved, Orphans)
FaultRunsKeepReservation ==
  [r \in Runs |-> IF r \in Orphans
                  THEN [runs[r] EXCEPT !.status = "TIMED_OUT", !.unknown = runs[r].reserved]
                  ELSE runs[r]]
RunsAfterRecovery ==
  [r \in Runs |-> IF r \in Orphans
                  THEN [runs[r] EXCEPT !.status = "TIMED_OUT",
                                       !.reserved = 0, !.unknown = runs[r].reserved]
                  ELSE runs[r]]
CostsAfterRecovery ==
  [reserved |-> ClampedMinus(costs.reserved, OrphanedCost),
   observed |-> costs.observed,
   unknown  |-> costs.unknown + OrphanedCost,
   total    |-> IF Orphans = {} THEN costs.total
                                ELSE costs.observed + costs.unknown + OrphanedCost]

RecoverDurableState ==
  /\ exceptions' = ExceptionsAfterExpiry
  /\ runs' = RunsAfterRecovery
  /\ costs' = CostsAfterRecovery

----------------------------------------------------------------------------
(* Operator methods (the /admin routes).                                   *)

IssueGrant(t, ttl, cap, balance) ==
  /\ grants[t].status = "NONE"
  /\ grants' = [grants EXCEPT ![t] = [status |-> "ISSUED", uses |-> 0, ttl |-> ttl,
                                      cap |-> cap, balance |-> balance]]
  /\ UNCHANGED <<runs, costs, released, exceptions, receipts, config, handler>>

SetKillSwitch(engaged) ==
  /\ config' = [config EXCEPT !.kill = engaged]
  /\ UNCHANGED <<grants, runs, costs, released, exceptions, receipts, handler>>

ConfigureLiveGate(enabled) ==
  /\ config' = [config EXCEPT !.gate = enabled]
  /\ UNCHANGED <<grants, runs, costs, released, exceptions, receipts, handler>>

ConfigureInvocationCap(cap) ==
  /\ config' = [config EXCEPT !.cap = cap]
  /\ UNCHANGED <<grants, runs, costs, released, exceptions, receipts, handler>>

ConfigureSourceCommit(c) ==
  /\ config' = [config EXCEPT !.commit = c]
  /\ UNCHANGED <<grants, runs, costs, released, exceptions, receipts, handler>>

(* getAccounting and getAuthorizedCostHoldException write only this.       *)
ExpireStaleCostHoldExceptions ==
  /\ exceptions' = ExceptionsAfterExpiry
  /\ grants' = GrantsAfterExpiry
  /\ UNCHANGED <<runs, costs, released, receipts, config, handler>>

(* The authority must cover the exposure that is held and the new run's.   *)
MayAuthorize(t) ==
  LET grant == GrantsAfterExpiry[t]
  IN /\ costs.unknown > 0
     /\ grant.status = "ISSUED" /\ grant.ttl >= 0 /\ grant.uses < 1
     /\ grant.cap > 0
     /\ grant.balance - (costs.unknown + grant.cap) >= Floor
     /\ \A u \in Tokens : ExceptionsAfterExpiry[u].status # "AUTHORIZED"
     /\ exceptions[t].status = "NONE"

(* A refusal leaves ExpireStaleCostHoldExceptions only: its writes precede *)
(* the transaction that throws, and the UPDATE that marks the grant        *)
(* EXPIRED is rolled back by the throw that follows it.                    *)
AuthorizeCostHoldException(t) ==
  /\ MayAuthorize(t)
  /\ exceptions' = [ExceptionsAfterExpiry EXCEPT
                      ![t] = [status |-> "AUTHORIZED", unknown |-> costs.unknown,
                              cap |-> grants[t].cap, balance |-> grants[t].balance,
                              run |-> Null]]
  /\ grants' = GrantsAfterExpiry
  /\ UNCHANGED <<runs, costs, released, receipts, config, handler>>

(* Releases held unknown exposure of a run; observed cost is not touched.  *)
ReconcileUnknownCost(r, amount) ==
  /\ amount \in 1 .. runs[r].unknown
  /\ runs' = [runs EXCEPT ![r].unknown = @ - amount]
  /\ LET left == ClampedMinus(costs.unknown, amount)
     IN costs' = [costs EXCEPT !.unknown = left, !.total = costs.observed + left]
  /\ released' = [released EXCEPT ![r] = @ + amount]
  /\ UNCHANGED <<grants, exceptions, receipts, config, handler>>

----------------------------------------------------------------------------
(* reserveAdmission.  Every call first recovers orphans and stale          *)
(* exceptions; the checks that follow read the recovered tables.           *)

Blocked(c, live) == config.kill \/ ~config.gate \/ ~live \/ c # config.commit

Bound(k) == k # Null /\ \E q \in Runs : Admitted(q) /\ runs[q].key = k

FaultSpentOneLate(t) == GrantsAfterExpiry[t].uses > 1
Spent(t) == GrantsAfterExpiry[t].status = "CONSUMED" \/ GrantsAfterExpiry[t].uses >= 1

Expired(t) == GrantsAfterExpiry[t].status = "EXPIRED" \/ grants[t].ttl < 0

FaultBusyInFlightOnly == \E q \in Runs : RunsAfterRecovery[q].status = "IN_FLIGHT"
Busy == \E q \in Runs : RunsAfterRecovery[q].status \in ActiveStatus

(* Refused before the grant's expiry is looked at, or answered with the    *)
(* existing run of the key (a replay, a context mismatch or a payload      *)
(* conflict): nothing but the recovery is written.                         *)
AnswerWithoutReserving(t, k, c, live) ==
  /\ \/ Blocked(c, live)
     \/ grants[t].status = "NONE"
     \/ Bound(k)
     \/ ~Expired(t) /\ (Spent(t) \/ Busy)
  /\ RecoverDurableState
  /\ grants' = GrantsAfterExpiry
  /\ UNCHANGED <<released, receipts, config, handler>>

RefuseExpiredGrant(t, k, c, live) ==
  /\ ~Blocked(c, live) /\ grants[t].status # "NONE" /\ ~Bound(k)
  /\ Expired(t)
  /\ RecoverDurableState
  /\ grants' = [GrantsAfterExpiry EXCEPT ![t].status = "EXPIRED"]
  /\ UNCHANGED <<released, receipts, config, handler>>

(* The exception bound to the grant, if any, is spent by the run.          *)
FaultExceptionNotSpent(t, r) == ExceptionsAfterExpiry
ExceptionsSpent(t, r) ==
  IF ExceptionsAfterExpiry[t].status = "AUTHORIZED"
  THEN [ExceptionsAfterExpiry EXCEPT ![t] = [@ EXCEPT !.status = "CONSUMED", !.run = r]]
  ELSE ExceptionsAfterExpiry

(* The reserving transaction: consume the grant and its exception, insert  *)
(* the run, reserve its cost.  The unknown-cost hold, the balance and the  *)
(* invocation cap are computed by the code but refuse nothing.             *)
Reserve(t, k, c, live, cost, r) ==
  /\ ~Blocked(c, live) /\ grants[t].status # "NONE" /\ ~Bound(k)
  /\ ~Expired(t) /\ ~Spent(t) /\ ~Busy
  /\ ~Admitted(r)
  /\ grants' = [GrantsAfterExpiry EXCEPT ![t].status = "CONSUMED", ![t].uses = @ + 1]
  /\ exceptions' = ExceptionsSpent(t, r)
  /\ runs' = [RunsAfterRecovery EXCEPT
                ![r] = [status |-> "RESERVED", key |-> k, token |-> t, age |-> 0,
                        reserved |-> cost, observed |-> 0, unknown |-> 0]]
  /\ costs' = [CostsAfterRecovery EXCEPT !.reserved = @ + cost]
  /\ handler' = [handler EXCEPT ![r] = "admitted"]
  /\ UNCHANGED <<released, receipts, config>>

ReserveAdmission ==
  \E t \in Tokens, k \in Keys \cup {Null}, c \in Commits, live \in BOOLEAN :
    \/ AnswerWithoutReserving(t, k, c, live)
    \/ RefuseExpiredGrant(t, k, c, live)
    \/ \E cost \in Estimates, r \in Runs : Reserve(t, k, c, live, cost, r)

----------------------------------------------------------------------------
(* The handler of an admitted run.                                         *)

(* Its answer is not looked at: the handler dispatches in any case.        *)
MarkInFlight(r) ==
  /\ handler[r] = "admitted"
  /\ runs' = IF runs[r].status = "RESERVED"
             THEN [runs EXCEPT ![r].status = "IN_FLIGHT"]
             ELSE runs
  /\ handler' = [handler EXCEPT ![r] = "dispatching"]
  /\ UNCHANGED <<grants, costs, released, exceptions, receipts, config>>

FaultSettleReplacesHold(r, observed, unknown) ==
  costs' = [reserved |-> ClampedMinus(costs.reserved, runs[r].reserved),
            observed |-> costs.observed + observed,
            unknown  |-> costs.unknown + unknown - runs[r].unknown,
            total    |-> costs.observed + observed + costs.unknown + unknown - runs[r].unknown]

(* The UPDATE of table costs both record methods make: the reservation of  *)
(* the run becomes observed cost, unknown cost, or nothing.                *)
SettleCosts(r, observed, unknown) ==
  costs' = [reserved |-> ClampedMinus(costs.reserved, runs[r].reserved),
            observed |-> costs.observed + observed,
            unknown  |-> costs.unknown + unknown,
            total    |-> costs.observed + observed + costs.unknown + unknown]

(* Neither record method looks at the status of the row it overwrites.     *)
SettleRun(r, status, observed, unknown) ==
  runs' = [runs EXCEPT ![r] = [@ EXCEPT !.status = status, !.reserved = 0,
                                        !.observed = observed, !.unknown = unknown]]

RecordExecutionSuccess(r, charge) ==
  LET held == IF Measured(charge) THEN 0 ELSE runs[r].reserved
  IN /\ handler[r] = "dispatching"
     /\ SettleRun(r, "COMPLETED", ChargeOf(charge), held)
     /\ SettleCosts(r, ChargeOf(charge), held)
     /\ receipts' = receipts \cup {r}
     /\ handler' = [handler EXCEPT ![r] = "done"]
     /\ UNCHANGED <<grants, released, exceptions, config>>

FaultFailureRecordedAgain(r, ambiguous, dispatched, charge) ==
  /\ handler[r] \in {"dispatching", "done"}
  /\ SettleRun(r, "FAILED", ChargeOf(charge), 0)
  /\ SettleCosts(r, ChargeOf(charge), 0)
  /\ handler' = [handler EXCEPT ![r] = "done"]
  /\ UNCHANGED <<grants, released, exceptions, receipts, config>>

RecordExecutionFailure(r, ambiguous, dispatched, charge) ==
  LET retain == ~Measured(charge) /\ (ambiguous \/ dispatched)
      held == IF retain THEN runs[r].reserved ELSE 0
      status == IF ambiguous THEN "UNKNOWN_OUTCOME"
                ELSE IF retain THEN "FAILED_UNRECONCILED_COST" ELSE "FAILED"
  IN /\ handler[r] = "dispatching"
     /\ SettleRun(r, status, ChargeOf(charge), held)
     /\ SettleCosts(r, ChargeOf(charge), held)
     /\ handler' = [handler EXCEPT ![r] = "done"]
     /\ UNCHANGED <<grants, released, exceptions, receipts, config>>

(* The worker is evicted, or recordExecutionSuccess throws on a receipt it *)
(* cannot verify: the handler ends without recording anything.             *)
HandlerDies(r) ==
  /\ handler[r] \in {"admitted", "dispatching"}
  /\ handler' = [handler EXCEPT ![r] = "done"]
  /\ UNCHANGED ledger

----------------------------------------------------------------------------
(* Date.now() advances.                                                    *)
Tick ==
  /\ runs' = [r \in Runs |-> IF Active(r) /\ runs[r].age <= Deadline
                             THEN [runs[r] EXCEPT !.age = @ + 1] ELSE runs[r]]
  /\ grants' = [t \in Tokens |-> IF grants[t].status # "NONE" /\ grants[t].ttl >= 0
                                 THEN [grants[t] EXCEPT !.ttl = @ - 1] ELSE grants[t]]
  /\ UNCHANGED <<costs, released, exceptions, receipts, config, handler>>

Init ==
  /\ grants = [t \in Tokens |-> NoGrant]
  /\ runs = [r \in Runs |-> NoRun]
  /\ costs = [reserved |-> 0, observed |-> 0, unknown |-> 0, total |-> 0]
  /\ released = [r \in Runs |-> 0]
  /\ exceptions = [t \in Tokens |-> NoException]
  /\ receipts = {}
  /\ \E c \in Commits, cap \in LifetimeCaps :
       config = [kill |-> FALSE, gate |-> FALSE, commit |-> c, cap |-> cap]
  /\ handler = [r \in Runs |-> "idle"]

Configure ==
  \/ \E engaged \in BOOLEAN : SetKillSwitch(engaged)
  \/ \E enabled \in BOOLEAN : ConfigureLiveGate(enabled)
  \/ \E cap \in LifetimeCaps : ConfigureInvocationCap(cap)
  \/ \E c \in Commits : ConfigureSourceCommit(c)

Operate ==
  \/ \E t \in Tokens, ttl \in TTLs, cap \in Caps, balance \in Balances :
       IssueGrant(t, ttl, cap, balance)
  \/ ExpireStaleCostHoldExceptions
  \/ \E t \in Tokens : AuthorizeCostHoldException(t)
  \/ \E r \in Runs : \E amount \in 1 .. runs[r].unknown : ReconcileUnknownCost(r, amount)

Handler(r) ==
  \/ MarkInFlight(r)
  \/ \E charge \in Charges \cup {Null} :
       \/ RecordExecutionSuccess(r, charge)
       \/ \E ambiguous, dispatched \in BOOLEAN :
            RecordExecutionFailure(r, ambiguous, dispatched, charge)
  \/ HandlerDies(r)

Next ==
  \/ Configure
  \/ Operate
  \/ ReserveAdmission
  \/ \E r \in Runs : Handler(r)
  \/ Tick

Spec == Init /\ [][Next]_vars

(* Time passes and admission requests keep arriving.  Recovery has no      *)
(* alarm of its own: it runs only inside reserveAdmission.                 *)
Fairness == WF_vars(Tick) /\ WF_vars(ReserveAdmission)

----------------------------------------------------------------------------
(* Properties.                                                             *)

TypeOK ==
  /\ grants \in [Tokens -> Grant]
  /\ runs \in [Runs -> Run]
  /\ costs \in Costs
  /\ released \in [Runs -> Nat]
  /\ exceptions \in [Tokens -> Exception]
  /\ receipts \subseteq Runs
  /\ config \in [kill : BOOLEAN, gate : BOOLEAN, commit : Commits, cap : LifetimeCaps]
  /\ handler \in [Runs -> HandlerState]

(* At most one row is RESERVED or IN_FLIGHT, whatever requests, recoveries *)
(* and late records interleave (the in-flight check of reserveAdmission).  *)
OneActiveRun == \A q, r \in Runs : Active(q) /\ Active(r) => q = r

(* The aggregate reservation is that of the active row, and nothing stays  *)
(* reserved once no row is active: no path leaks or double-releases it.    *)
ReservationOfActiveRun ==
  /\ \A r \in Runs : IF Active(r) THEN costs.reserved = runs[r].reserved
                                  ELSE runs[r].reserved = 0
  /\ (\A r \in Runs : ~Active(r)) => costs.reserved = 0

(* A single-use grant funds one run for ever: also after its expiry relabels *)
(* it EXPIRED, after recovery freed the slot, and after its run settled.     *)
GrantFundsOneRun ==
  \A r \in Runs : Admitted(r) =>
    /\ grants[runs[r].token].uses = 1
    /\ grants[runs[r].token].status \in {"CONSUMED", "EXPIRED"}
    /\ \A q \in Runs \ {r} : Admitted(q) => runs[q].token # runs[r].token

(* An idempotency key names at most one run, so a replay can only find the *)
(* run its first use created.                                              *)
KeyNamesOneRun ==
  \A q, r \in Runs :
    Admitted(q) /\ Admitted(r) /\ runs[q].key = runs[r].key /\ runs[q].key # Null => q = r

(* A cost-hold exception is spent by the one run its own grant funded; at  *)
(* most one is active, and an active one still has an unspent grant.       *)
ExceptionFollowsItsGrant ==
  /\ \A t \in Tokens :
       /\ exceptions[t].status = "CONSUMED" =>
            \E r \in Runs : exceptions[t].run = r /\ runs[r].token = t /\ Admitted(r)
       /\ exceptions[t].status = "AUTHORIZED" => grants[t].uses = 0
  /\ \A t, u \in Tokens :
       exceptions[t].status = "AUTHORIZED" /\ exceptions[u].status = "AUTHORIZED" => t = u

(* The aggregate never understates the unknown exposure of the rows.       *)

(* total_metered_cost, recomputed by four different UPDATEs, is the sum it *)
(* is documented to be.                                                    *)
TotalIsObservedPlusUnknown == costs.total = costs.observed + costs.unknown

(* A public receipt exists for the completed runs and for no other: a late *)
(* failure or recovery never overtakes a stored receipt.                   *)
ReceiptIffCompleted == receipts = {r \in Runs : runs[r].status = "COMPLETED"}

(* A handler under way finds its row active or timed out, never settled:   *)
(* what lets record methods that do not look at a row's status overwrite   *)
(* nothing that is final.  It strengthens the facts above to an inductive  *)
(* invariant.                                                              *)
HandlerOwnsRun ==
  \A r \in Runs :
    /\ handler[r] = "idle" <=> ~Admitted(r)
    /\ handler[r] \in {"admitted", "dispatching"} =>
         runs[r].status \in ActiveStatus \cup {"TIMED_OUT"}
    /\ Admitted(r) => runs[r].token \in Tokens

(* Held unknown exposure falls only by what an operator released, to the   *)
(* cent: no recovery, late record or clamp at zero makes it disappear.     *)
ExposureFallsOnlyByRelease ==
  [][costs'.unknown < costs.unknown =>
       \E r \in Runs :
         /\ released'[r] - released[r] = costs.unknown - costs'.unknown
         /\ released'[r] - released[r] = runs[r].unknown - runs'[r].unknown]_vars

(* A settled row keeps its status; only the handler that owns a TIMED_OUT  *)
(* row may still overwrite it.                                             *)
SettledRunsStay ==
  [][\A r \in Runs :
       /\ runs[r].status \in SettledStatus => runs'[r].status = runs[r].status
       /\ runs[r].status = "TIMED_OUT" /\ runs'[r].status # "TIMED_OUT" =>
            handler[r] = "dispatching" /\ handler'[r] = "done"]_vars

(* A handler that died cannot wedge the ledger: while admission requests   *)
(* keep coming, every active row leaves the in-flight slot.                *)
SlotFreed == \A r \in Runs : Active(r) ~> ~Active(r)

(* "Retaining conservative accounting pending operator reconciliation":    *)
(* while exposure is held, some row can still be reconciled.               *)
HeldExposureReconcilable == costs.unknown > 0 => \E r \in Runs : runs[r].unknown > 0

============================================================================
