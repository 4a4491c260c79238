SPECIFICATION Spec
CONSTANTS
  Plan <- MCPlan
  Edited = {"professional"}
  Edit = {"put1"}
  Proc = {"api1"}
  MaxLoads = 1
  MaxVersion = 2
  NoCache = NoCache
  TrialPlan = "starter"
  Delivery = {"captured"}
  Payment = {"pay1"}
  PaymentOf <- MCPaymentOf
  PaysFor <- MCPaysFor
  MaxFaults = 0
INVARIANT RevertedTenantIsFree
CHECK_DEADLOCK FALSE
