SPECIFICATION Spec
CONSTANTS
  Requests = {h1, h2}
  Rows = {r1, r2}
  Things = {t1, t2}
  Assets = {asset1}
  Employees = {employee1}
  Nobody = Nobody
  Exits = {r1, r2}
  Tasks = {task1}
  Users = {user1, user2}
  Chain <- MCChain
  Approvals = {r1, r2}
  NoUser = NoUser
  Candidates = {candidate1}
  Slots = {1}
  Terms = {terms1, terms2}
  NoTerms = NoTerms
  MaxSeats = 2
  Submissions = {r1, r2}
  Orgs = {org1}
  NoOrg = NoOrg
  People = {t1, t2}
  Files = {file1}
  PlanQuotas = {1, 2}
  MaxCreated = 4
  MaxTries = 1
  MaxCodes = 2
  Tokens = {r1, r2}
  Accounts = {r1, r2}
  Staff = {staff1}
  Links = {t1, t2}
  NoAccount = NoAccount
  MaxLetters = 2
  QrTokens = {r1, r2}
  Bodies = {body1, body2}
  NoBody = NoBody
  Leaves = {r1, r2}
  Lengths = {1, 2}
  Grants = {0, 2}
  NoDays = NoDays
  Wishes = {r1, r2}
  MaxCheckouts = 3
  MaxHours = 2
  Tickets = {ticket1}
  MaxReplies = 2
  Types = {r1, r2}
  BootAttempts = 3
  MaxPushes = 2
  MaxDay = 3
  MaxPeriods = 3
  Shift = 1
  NoEnd = NoEnd
SYMMETRY DeskSymmetry
CHECK_DEADLOCK FALSE
INVARIANTS
  DesksTypeOK CustodyShown OneOpenExit ClosedExitIsSettled ChainIsSound OneEmployeePerCandidate
  SentIsWhatWasMailed QuotaKept NothingFallsBetween CodeHasLimits LinksMeanWhatTheySay
  OnlyApprovedCounts OnePendingCheckout OneActiveSalary
PROPERTIES
  ResolvedIsFinal RepeatOfSamePerson HumanDecisionStands AcceptedAccountStays
