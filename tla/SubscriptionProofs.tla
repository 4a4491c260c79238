------------------------- MODULE SubscriptionProofs -------------------------
(***************************************************************************)
(* Proofs about Subscription for any plans, payments, webhook requests,    *)
(* API processes and price edits: an active tenant resolves to the plan it *)
(* subscribed to, an invoice is only there once the plan is, and what was  *)
(* paid for gives way to another payment or a downgrade only.              *)
(***************************************************************************)
EXTENDS Subscription, FiniteSetTheorems, TLAPS

-----------------------------------------------------------------------------
(* The catalog. *)

\* What load() reads (plan-service.ts lines 31-74) is a snapshot.
LEMMA ReadType ==
  ASSUME CatalogTypeOK
  PROVE  Read \in Snapshot
<1>1. versions \in [Keys -> 0 .. MaxVersion]
  BY CatalogAssumption DEF CatalogTypeOK
<1>2. [k \in Keys |-> IF k \in active THEN versions[k] ELSE 0] \in [Keys -> 0 .. MaxVersion]
  BY <1>1, CatalogAssumption
<1> QED
  BY <1>1, <1>2 DEF Read, Snapshot

\* A process with a catalog answers a version of the plan that was asked for, and
\* for a tenant with a pinned version that one or a version of its plan.
LEMMA ResolvesToKey ==
  ASSUME CatalogTypeOK, NEW p \in Proc, Warm(p), NEW key \in Keys
  PROVE  resolvePlanByKey(p, key) \in Versions /\ resolvePlanByKey(p, key)[1] = key
<1>1. cache[p] \in Snapshot
  BY DEF CatalogTypeOK, Warm
<1>2. cache[p].current[key] \in 0 .. MaxVersion
  BY <1>1 DEF Snapshot
<1> QED
  BY <1>2 DEF resolvePlanByKey, Versions

\* Price edits and loads (admin.ts lines 88-104, plan-service.ts lines 76-79) keep
\* the catalog's types.
LEMMA CatalogTypes ==
  ASSUME CatalogTypeOK, CatalogStep
  PROVE  CatalogTypeOK'
<1>1. ASSUME NEW e \in Edit, NEW k \in Edited, EditReads(e, k)
      PROVE  CatalogTypeOK'
  <2>1. k \in Keys /\ versions[k] + 1 \in 0 .. MaxVersion
    BY <1>1, CatalogAssumption DEF EditReads, CatalogTypeOK
  <2> QED
    BY <1>1, <2>1 DEF EditReads, CatalogTypeOK
<1>2. ASSUME NEW e \in Edit, EditArchives(e) \/ EditFails(e)
      PROVE  CatalogTypeOK'
  <2>1. NoEdit.key \in Keys /\ 0 \in 0 .. MaxVersion
    BY CatalogAssumption DEF NoEdit, Keys
  <2> QED
    BY <1>2, <2>1 DEF EditArchives, EditFails, NoEdit, CatalogTypeOK
<1>3. ASSUME NEW e \in Edit, NEW p \in Proc, EditInserts(e, p)
      PROVE  CatalogTypeOK'
  <2>1. /\ editing[e].key \in Keys /\ editing[e].next \in 0 .. MaxVersion
        /\ versions[editing[e].key] \in 1 .. MaxVersion /\ editing[e].next > versions[editing[e].key]
        /\ NoEdit.key \in Keys /\ 0 \in 0 .. MaxVersion
    BY <1>3, CatalogAssumption DEF EditInserts, CatalogTypeOK, NoEdit, Keys
  <2>2. editing[e].next \in 1 .. MaxVersion
    BY <2>1
  <2> QED
    BY <1>3, <2>1, <2>2 DEF EditInserts, NoEdit, CatalogTypeOK
<1>4. ASSUME NEW p \in Proc, LoadReads(p)
      PROVE  CatalogTypeOK'
  BY <1>4, ReadType DEF LoadReads, CatalogTypeOK
<1>5. ASSUME NEW p \in Proc, LoadReturns(p)
      PROVE  CatalogTypeOK'
  <2>1. PICK s \in loading[p] : /\ loading' \in {loading, [loading EXCEPT ![p] = @ \ {s}]}
                                /\ cache' = [cache EXCEPT ![p] = s]
                                /\ UNCHANGED <<versions, active, editing>>
    BY <1>5 DEF LoadReturns
  <2>2. s \in Snapshot
    BY <2>1 DEF CatalogTypeOK
  <2>3. loading' \in [Proc -> SUBSET Snapshot] /\ cache' \in [Proc -> Snapshot \cup {NoCache}]
    BY <2>1, <2>2 DEF CatalogTypeOK
  <2> QED
    BY <2>1, <2>3 DEF CatalogTypeOK
<1> QED
  BY <1>1, <1>2, <1>3, <1>4, <1>5 DEF CatalogStep

-----------------------------------------------------------------------------
(* Types. *)

\* Everything TypeOK says but the number of invoices.
Typed ==
  /\ CatalogTypeOK
  /\ plan \in Keys /\ pin \in Versions
  /\ status \in {"none", "trialing", "active", "canceled"}
  /\ trial \in {"none", "running", "over"}
  /\ period \in {"none", "trial", "running", "over"}
  /\ hook \in [Delivery -> [at : {"new", "checked", "resolved", "applied", "failed", "done"}, version : Versions]]
  /\ invoices \in [Payment -> Nat]
  /\ applied \subseteq Payment
  /\ downgrade \in [at : {"idle", "checked", "resolved"}, current : Keys, target : Keys, version : Versions]
  /\ faults \in 0 .. MaxFaults

\* No version is one, and belongs to the free plan.
LEMMA NoPinType == NoPin \in Versions /\ NoDowngrade \in [at : {"idle", "checked", "resolved"}, current : Keys, target : Keys, version : Versions]
BY SubscriptionAssumption, CatalogAssumption DEF NoPin, NoDowngrade, Versions

\* Each statement of applyUpgrade (billing-service.ts lines 230-304).
LEMMA UpgradeTypes ==
  ASSUME Typed, NEW d \in Delivery, UpgradeStep(d)
  PROVE  Typed'
<1>1. /\ PaymentOf[d] \in Payment /\ PaysFor[PaymentOf[d]] \in Keys
      /\ hook[d] \in [at : {"new", "checked", "resolved", "applied", "failed", "done"}, version : Versions]
      /\ NoPin \in Versions
  BY SubscriptionAssumption, NoPinType DEF Typed
<1>2. CASE UpgradeChecks(d)
  BY <1>1, <1>2 DEF UpgradeChecks, Typed, CatalogTypeOK, catalogVars, tenantVars
<1>3. ASSUME NEW p \in Proc, UpgradeResolves(d, p)
      PROVE  Typed'
  <2>1. resolvePlanByKey(p, PaysFor[PaymentOf[d]]) \in Versions
    BY <1>1, <1>3, ResolvesToKey DEF UpgradeResolves, Typed
  <2> QED
    BY <1>3, <2>1 DEF UpgradeResolves, Typed, CatalogTypeOK, catalogVars, tenantVars
<1>4. CASE UpgradeWrites(d)
  BY <1>1, <1>4 DEF UpgradeWrites, Typed, CatalogTypeOK, catalogVars
<1>5. CASE UpgradeInvoices(d)
  BY <1>1, <1>5 DEF UpgradeInvoices, Typed, CatalogTypeOK, catalogVars, tenantVars
<1>6. CASE UpgradeFails(d)
  <2>1. faults' \in 0 .. MaxFaults
    BY <1>6, SubscriptionAssumption DEF UpgradeFails, Typed
  <2> QED
    BY <1>1, <1>6, <2>1 DEF UpgradeFails, Typed, CatalogTypeOK, catalogVars, tenantVars
<1> QED
  BY <1>2, <1>3, <1>4, <1>5, <1>6 DEF UpgradeStep

\* Every step keeps the types.
LEMMA TypedStep ==
  ASSUME Typed, [Next]_vars
  PROVE  Typed'
<1>1. CASE CatalogStep /\ UNCHANGED <<tenantVars, hook, invoices, applied, downgrade, faults>>
  BY <1>1, CatalogTypes DEF Typed, tenantVars
<1>2. CASE TrialEnds \/ PeriodEnds
  BY <1>2 DEF TrialEnds, PeriodEnds, Typed, CatalogTypeOK, catalogVars
<1>3. CASE ExpireTrial \/ ExpireCanceled
  BY <1>3, SubscriptionAssumption DEF ExpireTrial, ExpireCanceled, ToFree, Typed, CatalogTypeOK, catalogVars
<1>4. ASSUME NEW target \in Keys, DowngradeChecks(target)
      PROVE  Typed'
  BY <1>4, NoPinType DEF DowngradeChecks, Typed, CatalogTypeOK, catalogVars, tenantVars
<1>5. ASSUME NEW p \in Proc, DowngradeResolves(p)
      PROVE  Typed'
  <2>1. /\ Warm(p) /\ UNCHANGED <<catalogVars, tenantVars, hook, invoices, applied, faults>>
        /\ downgrade' \in {[downgrade EXCEPT !.at = "resolved", !.version = resolvePlanByKey(p, downgrade.target)],
                           NoDowngrade}
    BY <1>5 DEF DowngradeResolves
  <2>2. resolvePlanByKey(p, downgrade.target) \in Versions
    BY <2>1, ResolvesToKey DEF Typed
  <2>3. downgrade' \in [at : {"idle", "checked", "resolved"}, current : Keys, target : Keys, version : Versions]
    BY <2>1, <2>2, NoPinType DEF Typed
  <2> QED
    BY <2>1, <2>3 DEF Typed, CatalogTypeOK, catalogVars, tenantVars
<1>6. CASE DowngradeWrites
  BY <1>6, NoPinType DEF DowngradeWrites, Typed, CatalogTypeOK, catalogVars
<1>7. CASE cancelSubscription
  BY <1>7 DEF cancelSubscription, Typed, CatalogTypeOK, catalogVars
<1>8. CASE UNCHANGED vars
  BY <1>8 DEF vars, Typed, CatalogTypeOK, catalogVars, tenantVars
<1> QED
  BY <1>1, <1>2, <1>3, <1>4, <1>5, <1>6, <1>7, <1>8, UpgradeTypes DEF Next

-----------------------------------------------------------------------------
(* Invoices. *)

\* The requests for a payment that are answered.
Answered(r) == {d \in Delivery : PaymentOf[d] = r /\ hook[d].at = "done"}

\* A request writes one invoice at most, and is answered with it.
InvoicesCounted == \A r \in Payment : invoices[r] <= Cardinality(Answered(r))

\* Requests are finitely many, and so are those for one payment.
LEMMA AnsweredFinite ==
  ASSUME NEW S \in SUBSET Delivery
  PROVE  IsFiniteSet(S) /\ Cardinality(S) \in Nat /\ Cardinality(S) <= Cardinality(Delivery)
         /\ Cardinality(Delivery) \in Nat
BY SubscriptionAssumption, FS_Subset, FS_CardinalityType

\* The insert of the invoice (billing-service.ts lines 263-304) ends its request.
LEMMA InvoiceStep ==
  ASSUME Typed, InvoicesCounted, [Next]_vars
  PROVE  InvoicesCounted'
<1>1. ASSUME UNCHANGED invoices,
             \A d \in Delivery : hook[d].at = "done" => hook'[d].at = "done"
      PROVE  InvoicesCounted'
  <2>1. ASSUME NEW r \in Payment
        PROVE  invoices'[r] <= Cardinality(Answered(r)')
    <3>1. Answered(r) \subseteq Answered(r)' /\ Answered(r)' \in SUBSET Delivery /\ Answered(r) \in SUBSET Delivery
      BY <1>1 DEF Answered
    <3>2. Cardinality(Answered(r)) <= Cardinality(Answered(r)')
      BY <3>1, AnsweredFinite, FS_Subset
    <3>3. invoices[r] <= Cardinality(Answered(r)) /\ invoices[r] \in Nat
      BY DEF InvoicesCounted, Typed
    <3>4. Cardinality(Answered(r)) \in Nat /\ Cardinality(Answered(r)') \in Nat
      BY <3>1, AnsweredFinite
    <3> QED
      BY <1>1, <3>2, <3>3, <3>4
  <2> QED
    BY <2>1 DEF InvoicesCounted
<1>2. ASSUME NEW d \in Delivery, UpgradeInvoices(d)
      PROVE  InvoicesCounted'
  <2> DEFINE ref == PaymentOf[d]
  <2>1. /\ hook[d].at = "applied" /\ ref \in Payment
        /\ invoices' = [invoices EXCEPT ![ref] = @ + 1]
        /\ hook' = [hook EXCEPT ![d] = [at |-> "done", version |-> NoPin]]
    BY <1>2, SubscriptionAssumption DEF UpgradeInvoices
  <2>2. ASSUME NEW r \in Payment
        PROVE  invoices'[r] <= Cardinality(Answered(r)')
    <3>1. Answered(r) \in SUBSET Delivery /\ d \notin Answered(r)
      BY <2>1 DEF Answered
    <3>2. Answered(r)' = IF r = ref THEN Answered(r) \cup {d} ELSE Answered(r)
      BY <2>1 DEF Answered, Typed
    <3>3. invoices'[r] = IF r = ref THEN invoices[r] + 1 ELSE invoices[r]
      BY <2>1 DEF Typed
    <3>4. invoices[r] <= Cardinality(Answered(r)) /\ invoices[r] \in Nat
      BY DEF InvoicesCounted, Typed
    <3>5. Cardinality(Answered(r) \cup {d}) = Cardinality(Answered(r)) + 1 /\ Cardinality(Answered(r)) \in Nat
      BY <3>1, AnsweredFinite, FS_AddElement
    <3> QED
      BY <3>2, <3>3, <3>4, <3>5
  <2> QED
    BY <2>2 DEF InvoicesCounted
<1>3. ASSUME NEW d \in Delivery, UpgradeStep(d), ~UpgradeInvoices(d)
      PROVE  UNCHANGED invoices /\ \A e \in Delivery : hook[e].at = "done" => hook'[e].at = "done"
  BY <1>3 DEF UpgradeStep, UpgradeChecks, UpgradeResolves, UpgradeWrites, UpgradeFails, Typed
<1>4. ASSUME \A d \in Delivery : ~UpgradeStep(d)
      PROVE  UNCHANGED <<invoices, hook>>
  BY <1>4 DEF Next, TrialEnds, PeriodEnds, ExpireTrial, ExpireCanceled, ToFree, DowngradeChecks,
              DowngradeResolves, DowngradeWrites, cancelSubscription, vars
<1> QED
  BY <1>1, <1>2, <1>3, <1>4

-----------------------------------------------------------------------------
(* Plan, version and period. *)

\* What was resolved for a plan is a version of that plan, until it is written
\* with it; and what is written is applied before the invoice.
Paired ==
  /\ status = "active" => pin[1] = plan
  /\ \A d \in Delivery : hook[d].at = "resolved" => hook[d].version[1] = PaysFor[PaymentOf[d]]
  /\ downgrade.at = "resolved" => downgrade.version[1] = downgrade.target
  /\ downgrade.at # "idle" => Rank(downgrade.target) < Rank(downgrade.current)
  /\ \A d \in Delivery : hook[d].at = "applied" => PaymentOf[d] \in applied

\* A tenant on trial has not paid: its period is that of the trial.
OnTrial == status = "trialing" => period \in {"trial", "over"}

\* Every write of the tenant's row writes plan and version together.
LEMMA PairedStep ==
  ASSUME Typed, Paired, OnTrial, PaidIsApplied, [Next]_vars
  PROVE  Paired' /\ OnTrial' /\ PaidIsApplied'
<1>1. ASSUME NEW d \in Delivery, UpgradeStep(d)
      PROVE  Paired' /\ OnTrial' /\ PaidIsApplied'
  <2>1. PaymentOf[d] \in Payment /\ PaysFor[PaymentOf[d]] \in Keys
    BY SubscriptionAssumption
  <2>2. CASE UpgradeChecks(d)
    BY <2>2 DEF UpgradeChecks, Paired, OnTrial, PaidIsApplied, tenantVars, Typed
  <2>3. ASSUME NEW p \in Proc, UpgradeResolves(d, p)
        PROVE  Paired' /\ OnTrial' /\ PaidIsApplied'
    <3>1. resolvePlanByKey(p, PaysFor[PaymentOf[d]])[1] = PaysFor[PaymentOf[d]]
      BY <2>1, <2>3, ResolvesToKey DEF UpgradeResolves, Typed
    <3> QED
      BY <2>3, <3>1 DEF UpgradeResolves, Paired, OnTrial, PaidIsApplied, tenantVars, Typed
  <2>4. CASE UpgradeWrites(d)
    <3>1. /\ hook[d].at = "resolved" /\ plan' = PaysFor[PaymentOf[d]] /\ pin' = hook[d].version
          /\ status' = "active" /\ applied' = applied \cup {PaymentOf[d]}
          /\ hook' = [hook EXCEPT ![d] = [at |-> "applied", version |-> NoPin]]
          /\ UNCHANGED <<invoices, downgrade>>
      BY <2>4 DEF UpgradeWrites
    <3> QED
      BY <3>1 DEF Paired, OnTrial, PaidIsApplied, Typed
  <2>5. CASE UpgradeInvoices(d)
    <3>1. /\ hook[d].at = "applied" /\ invoices' = [invoices EXCEPT ![PaymentOf[d]] = @ + 1]
          /\ hook' = [hook EXCEPT ![d] = [at |-> "done", version |-> NoPin]]
          /\ UNCHANGED <<plan, pin, status, period, applied, downgrade>>
      BY <2>5 DEF UpgradeInvoices, tenantVars
    <3> QED
      BY <3>1 DEF Paired, OnTrial, PaidIsApplied, Typed
  <2>6. CASE UpgradeFails(d)
    <3>1. /\ hook' = [hook EXCEPT ![d] = [at |-> "failed", version |-> NoPin]]
          /\ UNCHANGED <<plan, pin, status, period, invoices, applied, downgrade>>
      BY <2>6 DEF UpgradeFails, tenantVars
    <3> QED
      BY <3>1 DEF Paired, OnTrial, PaidIsApplied, Typed
  <2> QED
    BY <1>1, <2>2, <2>3, <2>4, <2>5, <2>6 DEF UpgradeStep
<1>2. CASE TrialEnds \/ PeriodEnds
  BY <1>2 DEF TrialEnds, PeriodEnds, Paired, OnTrial, PaidIsApplied
<1>3. CASE ExpireTrial \/ ExpireCanceled
  BY <1>3 DEF ExpireTrial, ExpireCanceled, ToFree, Paired, OnTrial, PaidIsApplied
<1>4. ASSUME NEW target \in Keys, DowngradeChecks(target)
      PROVE  Paired' /\ OnTrial' /\ PaidIsApplied'
  BY <1>4 DEF DowngradeChecks, tenantVars, Paired, OnTrial, PaidIsApplied
<1>5. ASSUME NEW p \in Proc, DowngradeResolves(p)
      PROVE  Paired' /\ OnTrial' /\ PaidIsApplied'
  <2>1. resolvePlanByKey(p, downgrade.target)[1] = downgrade.target
    BY <1>5, ResolvesToKey DEF DowngradeResolves, Typed
  <2>2. downgrade'.at = "resolved" => downgrade'.version[1] = downgrade'.target
    <3>1. CASE downgrade' = [downgrade EXCEPT !.at = "resolved",
                                              !.version = resolvePlanByKey(p, downgrade.target)]
      <4>1. downgrade' = [downgrade EXCEPT !.at = "resolved", !.version = downgrade'.version]
            /\ downgrade'.version = resolvePlanByKey(p, downgrade.target)
        BY <3>1 DEF Typed
      <4> QED
        BY <2>1, <4>1 DEF Typed
    <3>2. CASE downgrade' = NoDowngrade
      BY <3>2 DEF NoDowngrade
    <3> QED
      BY <1>5, <3>1, <3>2 DEF DowngradeResolves
  <2>3. UNCHANGED <<plan, pin, status, period, hook, invoices, applied>>
    BY <1>5 DEF DowngradeResolves, tenantVars
  <2>4. \/ downgrade'.at = "idle"
        \/ downgrade'.target = downgrade.target /\ downgrade'.current = downgrade.current
    <3>1. CASE downgrade' = NoDowngrade
      BY <3>1 DEF NoDowngrade
    <3> DEFINE version == resolvePlanByKey(p, downgrade.target)
    <3> HIDE DEF version
    <3>2. CASE downgrade' = [downgrade EXCEPT !.at = "resolved", !.version = version]
      BY <3>2 DEF Typed
    <3> QED
      BY <1>5, <3>1, <3>2 DEF DowngradeResolves, version
  <2>5. downgrade.at # "idle"
    BY <1>5 DEF DowngradeResolves
  <2> QED
    BY <2>2, <2>3, <2>4, <2>5 DEF Paired, OnTrial, PaidIsApplied
<1>6. CASE DowngradeWrites
  BY <1>6 DEF DowngradeWrites, NoDowngrade, Paired, OnTrial, PaidIsApplied
<1>7. CASE cancelSubscription
  BY <1>7 DEF cancelSubscription, Paired, OnTrial, PaidIsApplied
<1>8. CASE UNCHANGED <<tenantVars, hook, invoices, applied, downgrade>>
  BY <1>8 DEF tenantVars, Paired, OnTrial, PaidIsApplied
<1> QED
  BY <1>1, <1>2, <1>3, <1>4, <1>5, <1>6, <1>7, <1>8 DEF Next, vars

-----------------------------------------------------------------------------
(* What a customer may rely on. *)

\* The inductive invariant of the subscription.
SubscriptionInv == Typed /\ InvoicesCounted /\ Paired /\ OnTrial /\ PaidIsApplied

\* It holds from the registration on.
LEMMA SubscriptionInvHolds == Init /\ [][Next]_vars => []SubscriptionInv
<1>1. Init => SubscriptionInv
  <2> SUFFICES ASSUME Init PROVE SubscriptionInv
    OBVIOUS
  <2>1. CatalogTypeOK
    <3>1. 1 \in 1 .. MaxVersion /\ 0 \in 0 .. MaxVersion /\ Plan[1] \in Keys
      BY CatalogAssumption DEF Keys
    <3> QED
      BY <3>1 DEF Init, CatalogInit, NoEdit, CatalogTypeOK
  <2>2. Typed
    BY <2>1, NoPinType, SubscriptionAssumption DEF Init, Typed
  <2>3. InvoicesCounted
    <3>1. ASSUME NEW r \in Payment PROVE invoices[r] <= Cardinality(Answered(r))
      <4>1. Answered(r) \in SUBSET Delivery /\ invoices[r] = 0
        BY DEF Answered, Init
      <4> QED
        BY <4>1, AnsweredFinite
    <3> QED
      BY <3>1 DEF InvoicesCounted
  <2>4. Paired /\ OnTrial /\ PaidIsApplied
    BY DEF Init, NoDowngrade, Paired, OnTrial, PaidIsApplied
  <2> QED
    BY <2>2, <2>3, <2>4 DEF SubscriptionInv
<1>2. SubscriptionInv /\ [Next]_vars => SubscriptionInv'
  BY TypedStep, InvoiceStep, PairedStep DEF SubscriptionInv
<1> QED
  BY <1>1, <1>2, PTL

\* The subscription keeps its types, and a payment has no more invoices than
\* requests announced it.
THEOREM SubscriptionTyped == Spec => []TypeOK
<1>1. SubscriptionInv => TypeOK
  <2> SUFFICES ASSUME SubscriptionInv PROVE TypeOK
    OBVIOUS
  <2>1. ASSUME NEW r \in Payment PROVE invoices[r] \in 0 .. Cardinality(Delivery)
    <3>1. Answered(r) \in SUBSET Delivery
      BY DEF Answered
    <3>2. invoices[r] \in Nat /\ invoices[r] <= Cardinality(Answered(r))
      BY DEF SubscriptionInv, Typed, InvoicesCounted
    <3> QED
      BY <3>1, <3>2, AnsweredFinite
  <2> QED
    BY <2>1 DEF SubscriptionInv, Typed, TypeOK
<1> QED
  BY SubscriptionInvHolds, <1>1, PTL DEF Spec

\* Whichever process resolves an active tenant's plan finds a version of the plan
\* it subscribed to (plan-service.ts lines 98-111), however old its catalog.
THEOREM ActivePlanAlwaysResolves == Spec => []ActivePlanResolves
<1>1. SubscriptionInv => ActivePlanResolves
  <2> SUFFICES ASSUME SubscriptionInv, status = "active", NEW p \in Proc, Warm(p)
               PROVE  resolveTenantPlan(p, plan, pin)[1] = plan
    BY DEF ActivePlanResolves
  <2>1. resolvePlanByKey(p, plan)[1] = plan /\ pin[1] = plan
    BY ResolvesToKey DEF SubscriptionInv, Typed, Paired
  <2> QED
    BY <2>1 DEF resolveTenantPlan
<1> QED
  BY SubscriptionInvHolds, <1>1, PTL DEF Spec

\* The invoice that stops a redelivery is only there once the plan is
\* (billing-service.ts lines 258-304), wherever a request fails.
THEOREM InvoicedIsApplied == Spec => []PaidIsApplied
<1>1. SubscriptionInv => PaidIsApplied
  BY DEF SubscriptionInv
<1> QED
  BY SubscriptionInvHolds, <1>1, PTL DEF Spec

\* While a paid period runs, or a subscription is active, neither the expiry job
\* (subscriptions.ts lines 17-30) nor anything else changes the plan, but for a payment,
\* to its plan, and the tenant's downgrade, to less than the plan it had read
\* (billing-service.ts lines 200-217): not always the plan it then replaces.
THEOREM PaidPeriodIsKept == Spec => PaidPeriodKept
<1> DEFINE Kept == plan' # plan /\ (status = "active" \/ period = "running") =>
                     \/ \E d \in Delivery : hook[d].at = "resolved" /\ hook'[d].at = "applied"
                                            /\ plan' = PaysFor[PaymentOf[d]]
                     \/ downgrade.at = "resolved" /\ plan' = downgrade.target
                        /\ Rank(plan') < Rank(downgrade.current)
<1>1. SubscriptionInv /\ [Next]_vars => [Kept]_vars
  <2> SUFFICES ASSUME SubscriptionInv, Next PROVE Kept
    OBVIOUS
  <2>1. ASSUME NEW d \in Delivery, UpgradeWrites(d) PROVE Kept
    <3>1. hook[d].at = "resolved" /\ plan' = PaysFor[PaymentOf[d]]
      BY <2>1 DEF UpgradeWrites
    <3>2. hook'[d].at = "applied"
      BY <2>1 DEF UpgradeWrites, SubscriptionInv, Typed
    <3> QED
      BY <3>1, <3>2
  <2>2. ASSUME ExpireTrial \/ ExpireCanceled PROVE Kept
    BY <2>2 DEF ExpireTrial, ExpireCanceled, SubscriptionInv, OnTrial
  <2>3. ASSUME DowngradeWrites PROVE Kept
    BY <2>3 DEF DowngradeWrites, SubscriptionInv, Paired
  <2>4. ASSUME plan' = plan PROVE Kept
    BY <2>4
  <2>5. ASSUME NEW d \in Delivery, UpgradeStep(d) PROVE Kept
    BY <2>1, <2>4, <2>5 DEF UpgradeStep, UpgradeChecks, UpgradeResolves, UpgradeInvoices, UpgradeFails, tenantVars
  <2> QED
    BY <2>2, <2>3, <2>4, <2>5 DEF Next, TrialEnds, PeriodEnds, DowngradeChecks, DowngradeResolves,
                                  cancelSubscription, tenantVars
<1> QED
  BY SubscriptionInvHolds, <1>1, PTL DEF Spec, PaidPeriodKept

=============================================================================
