SPECIFICATION FairSpec
CONSTANTS
  k1 = k1
  k2 = k2
  ada = ada
  bob = bob
  p1 = p1
  p2 = p2
  Requests = {r1, r2}
  Keys = {k1, k2}
  Identities = {ada, bob}
  Passwords = {p1, p2}
  Bodies <- SomeBodies
  MaxTries = 2
  None = None
INVARIANTS TypeOK CredentialHasUser NoSelfConflict RegistrationInv
PROPERTIES FirstPasswordWins ImplementsEnrolment RegistrationsEnd
