SPECIFICATION Spec
CONSTANTS
  c1 = c1
  c2 = c2
  e1 = e1
  e2 = e2
  Claims = {c1, c2}
  Employees = {e1, e2}
  claimant <- Apart
  Requests = {h1, h2}
  NoRecord = NoRecord
  MaxRecords = 3
SYMMETRY PayrollSymmetry
INVARIANTS IInv PaidOnce ReimbursementKept
PROPERTIES DecisionStands
CHECK_DEADLOCK FALSE
