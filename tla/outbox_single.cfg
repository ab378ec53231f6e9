SPECIFICATION FairSpec
CONSTANTS
  Mails = {m1, m2}
  NoMail = NoMail
  Processes = {p1}
  MaxAttempts = 2
  BatchSize = 1
  Lease = 1
  MaxDelay = 2
  SlowSends = TRUE
  MaxFaults = 2
INVARIANTS TriesBounded GivenUpLate
PROPERTIES EveryMailEnds
