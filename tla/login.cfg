SPECIFICATION FairSpec
CONSTANTS
  Requests = {r1, r2}
  MaxTries = 2
  MaxFailures = 2
  LockTime = 1
  FailureCommits = TRUE
  Synced = TRUE
  MaxTime = 2
  MaxLogins = 3
  None = None
INVARIANTS TypeOK LockExpires CountBacked LoginInv SessionBeforeTokens LockoutEngages
PROPERTIES OnlySyncSetsActive RunningLockStands LoginsEnd
