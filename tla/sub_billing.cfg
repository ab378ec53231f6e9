SPECIFICATION Spec
CONSTANTS
  Free = Free
  Basic = Basic
  Pro = Pro
  Plans <- MCPlans
  FreePlan = Free
  NoPlan = NoPlan
  NoExpiry = NoExpiry
  Tier <- MCTier
  Period <- MCPeriod
  MaxCheckouts = 1
  Handlers = {h1, h2}
  Requests = {"checkout", "cancel", "status", "self_subscribe", "admin_set"}
  MaxLate = 1
  MaxRefunds = 2
  GatewayFaults = TRUE
SYMMETRY HandlerSymmetry
CHECK_DEADLOCK FALSE
INVARIANTS PendingPaymentHasRequest OnlyFreeIsUnlimited
PROPERTIES PaidTimeKept
