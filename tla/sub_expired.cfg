SPECIFICATION FairSpec
CONSTANTS
  Free = Free
  Basic = Basic
  Pro = Pro
  Plans <- MCPlans
  FreePlan = Free
  NoPlan = NoPlan
  NoExpiry = NoExpiry
  Tier <- MCTier
  Period <- MCPeriod
  MaxCheckouts = 1
  Handlers = {h1}
  Requests = {"checkout", "status"}
  MaxLate = 1
  MaxRefunds = 1
  GatewayFaults = FALSE
CHECK_DEADLOCK FALSE
PROPERTIES ExpiredIsResolved
