SPECIFICATION Spec
CONSTANTS
  Users = {alice}
  Contexts = {personal}
  TokenIds = {1, 2, 3}
  Requests = {r1, r2}
  Ttl = 1
  MaxTime = 0
  AnswerFirst = FALSE
  None = None
SYMMETRY Symmetry
PROPERTIES RevokeAllComplete
