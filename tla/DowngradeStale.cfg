SPECIFICATION Spec
CONSTANTS
  Plan <- MCPlan
  Edited = {"professional"}
  Edit = {"put1"}
  Proc = {"api1"}
  MaxLoads = 1
  MaxVersion = 2
  NoCache = NoCache
  TrialPlan = "professional"
  Delivery = {"captured"}
  Payment = {"pay1"}
  PaymentOf <- MCPaymentOf
  PaysFor <- MCPaysFor
  MaxFaults = 0
PROPERTY DowngradeLowers
CHECK_DEADLOCK FALSE
