SPECIFICATION FairSpec
CONSTANTS
  None = None
  m1 = m1
  m2 = m2
  Migrators = {m1, m2}
  Newest = 4
  IndexCount <- MCIndexCount
  Deployed = 1
  MaxAttempts = 3
INVARIANTS TypeOK HistorySound ReadyMeansMigrated
PROPERTY LockComesBack
CHECK_DEADLOCK FALSE
