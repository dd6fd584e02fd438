SPECIFICATION FairSpec
CONSTANTS
  Requests = {r1, r2}
  Passwords = {p1, p2}
  ResetIds = {x1}
  TokenIds = {1, 2}
  None = None
INVARIANTS TypeOK SessionsAreCurrent NoWaitCycle IInv
PROPERTIES ReuseOverlaps ImplementsAccount RequestsEnd
