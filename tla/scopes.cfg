SPECIFICATION Spec
CONSTANTS
  Users = {alice, bob}
  Contexts = {personal, org}
  TokenIds = {1, 2}
  Requests = {r1, r2}
  Ttl = 1
  MaxTime = 1
  AnswerFirst = TRUE
  None = None
SYMMETRY Symmetry
INVARIANTS ReplacedAreDead NoWaitCycle IInv
PROPERTIES RevokeAllEffective ImplementsStore
