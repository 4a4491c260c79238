---------------------------- MODULE Subscription ----------------------------
(***************************************************************************)
(* The subscription of one tenant, from its trial to the free plan: paid   *)
(* upgrades by webhook, self-serve downgrade and cancellation              *)
(* (apps/api/src/billing-service.ts), the expiry job                       *)
(* (apps/jobs/src/subscriptions.ts), and the plan catalog they resolve     *)
(* plans from.  Each action is one database statement with the code up to  *)
(* the next await; statements of different handlers interleave.            *)
(***************************************************************************)
EXTENDS PlanCatalog

CONSTANTS
  TrialPlan,   \* env.trial.plan
  Delivery,    \* webhook requests a provider sends
  Payment,     \* provider references
  PaymentOf,   \* the reference each delivery carries
  PaysFor,     \* the plan in the notes of each payment
  MaxFaults    \* bound: webhook requests that fail half-way

ASSUME SubscriptionAssumption ==
  /\ TrialPlan \in Keys /\ "free" \in Keys
  /\ PaymentOf \in [Delivery -> Payment] /\ IsFiniteSet(Delivery)
  /\ PaysFor \in [Payment -> Keys \ {"free"}]
  /\ MaxFaults \in Nat

VARIABLES
  plan, pin, status,   \* tenants.plan, planVersionId, subscriptionStatus
  trial,               \* trialEndsAt, relative to now
  period,              \* currentPeriodEnd; "trial" is the instant of trialEndsAt
  hook,                \* each webhook request
  invoices,            \* invoices rows for each reference
  applied,             \* references whose plan was written to the tenant
  downgrade,           \* the downgrade request between its checks and its update
  faults

tenantVars == <<plan, pin, status, trial, period>>
vars == <<catalogVars, tenantVars, hook, invoices, applied, downgrade, faults>>

NoPin == <<"free", 0>>
Versions == Keys \X (0 .. MaxVersion)
Rank(key) == CHOOSE i \in 1 .. Len(Plan) : Plan[i] = key
NoDowngrade == [at |-> "idle", current |-> "free", target |-> "free", version |-> NoPin]

TypeOK ==
  /\ CatalogTypeOK
  /\ plan \in Keys /\ pin \in Versions
  /\ status \in {"none", "trialing", "active", "canceled"}
  /\ trial \in {"none", "running", "over"}
  /\ period \in {"none", "trial", "running", "over"}
  /\ hook \in [Delivery -> [at : {"new", "checked", "resolved", "applied", "failed", "done"}, version : Versions]]
  /\ invoices \in [Payment -> 0 .. Cardinality(Delivery)]
  /\ applied \subseteq Payment
  /\ downgrade \in [at : {"idle", "checked", "resolved"}, current : Keys, target : Keys, version : Versions]
  /\ faults \in 0 .. MaxFaults

\* POST /auth/register
Init ==
  /\ CatalogInit
  /\ plan = TrialPlan /\ pin = NoPin /\ status = "trialing"
  /\ trial = "running" /\ period = "trial"
  /\ hook = [d \in Delivery |-> [at |-> "new", version |-> NoPin]]
  /\ invoices = [r \in Payment |-> 0]
  /\ applied = {}
  /\ downgrade = NoDowngrade
  /\ faults = 0

----------------------------------------------------------------------------
(* Time, and the expiry job's two UPDATEs *)

\* A paid period begins during or after the trial and outlasts it.
TrialEnds ==
  /\ trial = "running"
  /\ trial' = "over"
  /\ period' = IF period = "trial" THEN "over" ELSE period
  /\ UNCHANGED <<catalogVars, plan, pin, status, hook, invoices, applied, downgrade, faults>>

PeriodEnds ==
  /\ period = "running" /\ trial # "running"
  /\ period' = "over"
  /\ UNCHANGED <<catalogVars, plan, pin, status, trial, hook, invoices, applied, downgrade, faults>>

\* TO_FREE leaves planVersionId alone.
ToFree ==
  /\ plan' = "free" /\ status' = "none" /\ period' = "none"
  /\ UNCHANGED <<catalogVars, pin, hook, invoices, applied, downgrade, faults>>

\* Mutant: every trial whose end has passed, whatever became of the tenant.
ExpireAnyTrial ==
  /\ trial = "over"
  /\ trial' = "none"
  /\ ToFree

ExpireTrial ==
  /\ status = "trialing" /\ trial = "over"
  /\ trial' = "none"
  /\ ToFree

\* Mutant: takes a tenant that still has a trialEndsAt for one on trial.
ExpireCanceledAfterTrial ==
  /\ status = "canceled" /\ period = "over" /\ trial = "none"
  /\ UNCHANGED trial
  /\ ToFree

ExpireCanceled ==
  /\ status = "canceled" /\ period = "over"
  /\ UNCHANGED trial
  /\ ToFree

----------------------------------------------------------------------------
(* applyUpgrade, called by a webhook *)

\* The request arrives, for the first time or again after a failure.  An invoice
\* for the reference ends it; otherwise the plan is resolved.
UpgradeChecks(d) ==
  /\ hook[d].at \in {"new", "failed"}
  /\ hook' = [hook EXCEPT ![d].at = IF invoices[PaymentOf[d]] > 0 THEN "done" ELSE "checked"]
  /\ UNCHANGED <<catalogVars, tenantVars, invoices, applied, downgrade, faults>>

UpgradeResolves(d, p) ==
  /\ hook[d].at = "checked"
  /\ Warm(p)
  /\ hook' = [hook EXCEPT ![d] = [at |-> "resolved",
                                 version |-> resolvePlanByKey(p, PaysFor[PaymentOf[d]])]]
  /\ UNCHANGED <<catalogVars, tenantVars, invoices, applied, downgrade, faults>>

\* Mutant: the invoice is written first ...
UpgradeInvoicesFirst(d) ==
  /\ hook[d].at = "resolved"
  /\ invoices' = [invoices EXCEPT ![PaymentOf[d]] = @ + 1]
  /\ hook' = [hook EXCEPT ![d] = [at |-> "applied", version |-> NoPin]]
  /\ UNCHANGED <<catalogVars, tenantVars, applied, downgrade, faults>>

\* Mutant: ... or the version is left as it was.
UpgradeWritesKeepPin(d) ==
  /\ hook[d].at = "resolved"
  /\ plan' = PaysFor[PaymentOf[d]]
  /\ status' = "active"
  /\ period' = "running"
  /\ applied' = applied \cup {PaymentOf[d]}
  /\ hook' = [hook EXCEPT ![d] = [at |-> "applied", version |-> NoPin]]
  /\ UNCHANGED <<catalogVars, pin, trial, invoices, downgrade, faults>>

UpgradeWrites(d) ==
  /\ hook[d].at = "resolved"
  /\ plan' = PaysFor[PaymentOf[d]]
  /\ pin' = hook[d].version
  /\ status' = "active"
  /\ period' = "running"
  /\ applied' = applied \cup {PaymentOf[d]}
  /\ hook' = [hook EXCEPT ![d] = [at |-> "applied", version |-> NoPin]]
  /\ UNCHANGED <<catalogVars, trial, invoices, downgrade, faults>>

\* Mutant: the request is not over with its invoice.
UpgradeInvoicesAgain(d) ==
  /\ hook[d].at = "applied"
  /\ invoices' = [invoices EXCEPT ![PaymentOf[d]] = @ + 1]
  /\ UNCHANGED <<catalogVars, tenantVars, hook, applied, downgrade, faults>>

UpgradeInvoices(d) ==
  /\ hook[d].at = "applied"
  /\ invoices' = [invoices EXCEPT ![PaymentOf[d]] = @ + 1]
  /\ hook' = [hook EXCEPT ![d] = [at |-> "done", version |-> NoPin]]
  /\ UNCHANGED <<catalogVars, tenantVars, applied, downgrade, faults>>

\* Mutant: a failed request is answered with success, so it is not sent again.
UpgradeFailsQuietly(d) ==
  /\ hook[d].at \in {"checked", "resolved", "applied"}
  /\ faults < MaxFaults
  /\ faults' = faults + 1
  /\ hook' = [hook EXCEPT ![d] = [at |-> "done", version |-> NoPin]]
  /\ UNCHANGED <<catalogVars, tenantVars, invoices, applied, downgrade>>

\* The process dies or a statement fails before the request is answered.
UpgradeFails(d) ==
  /\ hook[d].at \in {"checked", "resolved", "applied"}
  /\ faults < MaxFaults
  /\ faults' = faults + 1
  /\ hook' = [hook EXCEPT ![d] = [at |-> "failed", version |-> NoPin]]
  /\ UNCHANGED <<catalogVars, tenantVars, invoices, applied, downgrade>>

UpgradeStep(d) ==
  \/ UpgradeChecks(d)
  \/ \E p \in Proc : UpgradeResolves(d, p)
  \/ UpgradeWrites(d) \/ UpgradeInvoices(d) \/ UpgradeFails(d)

----------------------------------------------------------------------------
(* What the tenant does *)

\* changePlan refuses a target that is not lower than the plan it reads ...
DowngradeChecks(target) ==
  /\ downgrade.at = "idle"
  /\ Rank(target) < Rank(plan)
  /\ downgrade' = [at |-> "checked", current |-> plan, target |-> target, version |-> NoPin]
  /\ UNCHANGED <<catalogVars, tenantVars, hook, invoices, applied, faults>>

\* ... counts the usage, which may not fit, and looks the target's version up.
DowngradeResolves(p) ==
  /\ downgrade.at = "checked"
  /\ Warm(p)
  /\ \/ downgrade' = [downgrade EXCEPT !.at = "resolved",
                                       !.version = resolvePlanByKey(p, downgrade.target)]
     \/ downgrade' = NoDowngrade
  /\ UNCHANGED <<catalogVars, tenantVars, hook, invoices, applied, faults>>

DowngradeWrites ==
  LET free == downgrade.target = "free"
  IN  /\ downgrade.at = "resolved"
      /\ plan' = downgrade.target
      /\ pin' = downgrade.version
      /\ status' = IF free THEN "none" ELSE "active"
      /\ period' = IF free THEN "none" ELSE period
      /\ downgrade' = NoDowngrade
      /\ UNCHANGED <<catalogVars, trial, hook, invoices, applied, faults>>

cancelSubscription ==
  /\ status' = "canceled"
  /\ UNCHANGED <<catalogVars, plan, pin, trial, period, hook, invoices, applied, downgrade, faults>>

----------------------------------------------------------------------------
Next ==
  \/ CatalogStep /\ UNCHANGED <<tenantVars, hook, invoices, applied, downgrade, faults>>
  \/ TrialEnds \/ PeriodEnds \/ ExpireTrial \/ ExpireCanceled
  \/ \E d \in Delivery : UpgradeStep(d)
  \/ \E target \in Keys : DowngradeChecks(target)
  \/ \E p \in Proc : DowngradeResolves(p)
  \/ DowngradeWrites \/ cancelSubscription

\* Time passes, the scheduler runs the job every hour, a process loads the
\* catalog when it needs it, a provider sends a request again until it is
\* answered, and a handler that has begun runs on.  No payment need ever be made.
Fairness ==
  /\ WF_vars(TrialEnds) /\ WF_vars(PeriodEnds)
  /\ WF_vars(ExpireTrial) /\ WF_vars(ExpireCanceled)
  /\ \A p \in Proc :
       WF_vars((LoadReads(p) \/ LoadReturns(p))
               /\ UNCHANGED <<tenantVars, hook, invoices, applied, downgrade, faults>>)
  /\ \A d \in Delivery : WF_vars(hook[d].at # "new" /\ UpgradeStep(d))

Spec == Init /\ [][Next]_vars /\ Fairness

----------------------------------------------------------------------------
(* Properties *)

\* Whichever process resolves an active tenant's plan, with however old a catalog
\* and in the middle of whichever price edit, finds a version of the plan the
\* tenant subscribed to: the plan key and the pinned version never part.
ActivePlanResolves ==
  status = "active" =>
    \A p \in Proc : Warm(p) => resolveTenantPlan(p, plan, pin)[1] = plan

\* A failure between the statements of applyUpgrade never costs a customer the
\* plan: the invoice that stops a redelivery is only there once the plan is.
PaidIsApplied == \A r \in Payment : invoices[r] > 0 => r \in applied

\* A customer keeps what was paid for: while a paid period runs, and for an
\* active subscription always, the plan changes only to what a payment pays for, or
\* to less than the plan that the tenant's own downgrade had read.  By then that need
\* not be the tenant's plan: an upgrade written since is overwritten.
PaidPeriodKept ==
  [][plan' # plan /\ (status = "active" \/ period = "running") =>
       \/ \E d \in Delivery : hook[d].at = "resolved" /\ hook'[d].at = "applied" /\ plan' = PaysFor[PaymentOf[d]]
       \/ downgrade.at = "resolved" /\ plan' = downgrade.target /\ Rank(plan') < Rank(downgrade.current)]_vars

\* Every webhook request that was begun leaves an invoice in the end, through
\* crashes and redeliveries.
PaymentIsInvoiced ==
  \A d \in Delivery : hook[d].at # "new" ~> invoices[PaymentOf[d]] > 0

\* A cancellation is not forgotten: at the end of the period the job reverts the
\* tenant, unless it has subscribed again; and no trial lasts for ever.
CanceledEnds ==
  /\ status = "canceled" /\ period # "none" ~> status # "canceled"
  /\ status = "trialing" ~> status # "trialing"

\* subscriptions.ts line 17: the job "reverts expired trials and post-period
\* cancellations to free".  So a tenant without a subscription is on the free
\* plan for whoever resolves its plan.
RevertedTenantIsFree ==
  status = "none" /\ plan = "free" =>
    \A p \in Proc : Warm(p) => resolveTenantPlan(p, plan, pin)[1] = "free"

\* billing-service.ts line 199: "Self-serve downgrade to a lower plan (no charge)".  So
\* what changePlan writes is a lower plan than the tenant has.
DowngradeLowers == [][DowngradeWrites => Rank(plan') < Rank(plan)]_vars

\* docs/PROJECT_PLAN.md line 320: "billing upgrades are already idempotent via
\* the invoice (provider, providerRef) dedup".
UpgradeAppliedOnce == \A r \in Payment : invoices[r] <= 1
=============================================================================
