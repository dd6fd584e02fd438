SPECIFICATION Spec
CONSTANTS
  Requests = {r1}
  MaxTries = 3
  MaxFailures = 2
  LockTime = 1
  FailureCommits = FALSE
  Synced = FALSE
  MaxTime = 1
  MaxLogins = 3
  None = None
INVARIANTS LockoutEngages
