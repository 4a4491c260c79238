SPECIFICATION Spec
CONSTANTS
  Plan <- MCPlan
  Edited = {"professional"}
  Edit = {"put1"}
  Proc = {"api1"}
  MaxLoads = 1
  MaxVersion = 2
  NoCache = NoCache
  TrialPlan = "starter"
  Delivery = {"captured", "orderPaid"}
  Payment = {"pay1"}
  PaymentOf <- MCPaymentOf
  PaysFor <- MCPaysFor
  MaxFaults = 1
INVARIANT UpgradeAppliedOnce
CHECK_DEADLOCK FALSE
