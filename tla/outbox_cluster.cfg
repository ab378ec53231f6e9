SPECIFICATION Spec
CONSTANTS
  Mails = {m1, m2}
  NoMail = NoMail
  Processes = {p1, p2}
  MaxAttempts = 2
  BatchSize = 2
  Lease = 1
  MaxDelay = 1
  SlowSends = FALSE
  MaxFaults = 2
SYMMETRY OutboxSymmetry
INVARIANTS IInv OneSender DuplicateNeedsLoss
PROPERTIES MailIsDelivered
