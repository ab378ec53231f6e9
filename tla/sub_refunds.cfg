SPECIFICATION Spec
CONSTANTS
  Free = Free
  Basic = Basic
  Pro = Pro
  Plans <- MCPlans
  FreePlan = Free
  NoPlan = NoPlan
  NoExpiry = NoExpiry
  Tier <- MCTier
  Period <- MCPeriod
  MaxCheckouts = 2
  Handlers = {h1, h2}
  Requests = {"checkout", "cancel"}
  MaxLate = 0
  MaxRefunds = 2
  GatewayFaults = FALSE
SYMMETRY HandlerSymmetry
CHECK_DEADLOCK FALSE
INVARIANTS IInv RefundedChangeNeverQueued RefundedAtMostOnce
PROPERTIES ChargesFollowTheLedger CompletedOnce
