SPECIFICATION FairSpec
CONSTANTS
  Requests = {r1, r2, r3}
  Statuses = {"active", "suspended", "frozen"}
  None = None
INVARIANTS TypeOK LastAnswerHolds SyncInv
PROPERTIES BarredLoginsFail ImplementsFlag RequestsEnd
