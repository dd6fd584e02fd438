SPECIFICATION Spec
CONSTANTS
  Users = {alice}
  Contexts = {personal}
  TokenIds = {1, 2, 3}
  Requests = {r1, r2}
  Ttl = 1
  MaxTime = 1
  AnswerFirst = FALSE
  None = None
SYMMETRY Symmetry
INVARIANTS TypeOK RotationChain AuditComplete KnownStored
PROPERTIES RevocationIsFinal
