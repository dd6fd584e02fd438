SPECIFICATION FairSpec
CONSTANTS
  Users = {alice}
  Contexts = {personal}
  TokenIds = {1, 2}
  Requests = {r1, r2}
  Ttl = 1
  MaxTime = 0
  AnswerFirst = TRUE
  None = None
PROPERTIES RequestsTerminate
