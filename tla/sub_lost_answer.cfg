SPECIFICATION Spec
CONSTANTS
  Free = Free
  Basic = Basic
  Pro = Pro
  Plans <- MCPlans
  FreePlan = Free
  NoPlan = NoPlan
  NoExpiry = NoExpiry
  Tier <- MCTier
  Period <- MCPeriod
  MaxCheckouts = 1
  Handlers = {h1}
  Requests = {"checkout", "cancel"}
  MaxLate = 1
  MaxRefunds = 2
  GatewayFaults = TRUE
CHECK_DEADLOCK FALSE
INVARIANTS RefundedAtMostOnce
