-------------------------- MODULE RegistrationProofs --------------------------
(* Proofs about Registration.                                              *)
EXTENDS Registration, TLAPS

\* A step of 019 binds a key at most once, so that what it has bound, and the
\* users it has, stay (create_user: idempotency keys, unique identities).
LEMMA ReceivedKeeps ==
  ASSUME TypeOK, NEW k \in Keys, NEW i \in Identities, bound' = Received(k, i)
  PROVE  /\ bound' \in [Keys -> Identities \cup {None}]
         /\ \A j \in Keys : bound[j] # None => bound'[j] = bound[j]
         /\ \A j \in Identities : IsUser(j) => IsUser(j)'
BY RegistrationAssumption DEF TypeOK, Received, IsUser

\* What a finished request keeps.
Finished(q, a) ==
  /\ Answered(q, a) \in Request
  /\ Answered(q, a).pc = "idle" /\ Answered(q, a).inserted = FALSE
  /\ Answered(q, a).answer = a /\ Answered(q, a).id = q.id
  /\ Answered(q, a).key = q.key /\ Answered(q, a).password = q.password

LEMMA AnsweredIsRequest == \A q \in Request, a \in Answers : Finished(q, a)
BY DEF Request, Answered, Finished

\* tenacity counts up to its limit and no further.
LEMMA RetriedIsRequest ==
  ASSUME NEW q \in Request
  PROVE  Retried(q) \in Request
<1>1. CASE q.tries + 1 = MaxTries
  <2>1. Finished(q, "unavailable")
    BY AnsweredIsRequest DEF Answers
  <2> QED BY <1>1, <2>1 DEF Retried, Finished
<1>2. CASE q.tries + 1 # MaxTries
  <2>1. q.tries + 1 \in 0 .. MaxTries - 1
    BY <1>2, RegistrationAssumption DEF Request
  <2> QED BY <1>2, <2>1 DEF Retried, Request
<1> QED BY <1>1, <1>2

\* One request's step keeps the invariant when its own new state does and it
\* commits nothing.
LEMMA OneRequestStep ==
  ASSUME TypeOK, RegistrationInv, NEW r \in Requests, NEW q \in Request,
         req' = [req EXCEPT ![r] = q],
         UNCHANGED bound \/ \E k \in Keys, i \in Identities : bound' = Received(k, i),
         UNCHANGED <<creds, granted>>,
         Asked(q), Established(q)', Exclusive(q), Deserved(q)',
         q.inserted => ~ \E s \in Requests \ {r} : req[s].inserted /\ req[s].id = q.id
  PROVE  RegistrationInv'
<1> USE DEF RegistrationInv
<1>0. \A s \in Requests : req'[s] = IF s = r THEN q ELSE req[s]
  BY DEF TypeOK
<1>1. \A j \in Keys : bound[j] # None => bound'[j] = bound[j]
  BY ReceivedKeeps
<1>2. \A j \in Identities : IsUser(j) => IsUser(j)'
  BY ReceivedKeeps DEF IsUser
<1>3. \A s \in Requests : Asked(req[s])'
  BY <1>0 DEF Asked
<1>4. \A s \in Requests : Established(req[s])'
  BY <1>0, <1>1, RegistrationAssumption DEF Established, Asked
<1>5. \A s \in Requests : Exclusive(req[s])'
  BY <1>0 DEF Exclusive
<1>6. OneInsert'
  BY <1>0 DEF OneInsert
<1>7. CredentialHasUser' /\ GrantedHasCredential'
  BY <1>2 DEF CredentialHasUser, GrantedHasCredential
<1>8. NoSelfConflict'
  <2> SUFFICES ASSUME NEW s \in Requests, s # r PROVE Deserved(req[s])'
    BY <1>0 DEF NoSelfConflict, Deserved
  <2>1. Deserved(req[s]) /\ Asked(req[s])
    BY DEF NoSelfConflict
  <2>2. req'[s] = req[s]
    BY <1>0
  <2>3. ASSUME req[s].answer = "exists"
        PROVE  \E k \in Keys \ {req[s].key} : bound'[k] = req[s].id
    BY <1>1, <2>1, <2>3, RegistrationAssumption DEF Deserved, Asked
  <2>4. ASSUME req[s].answer = "conflict" PROVE bound'[req[s].key] \notin {None, req[s].id}
    BY <1>1, <2>1, <2>4 DEF Deserved, Asked
  <2> QED BY <2>2, <2>3, <2>4 DEF Deserved
<1> QED BY <1>3, <1>4, <1>5, <1>6, <1>7, <1>8

\* Types and invariant together: every step of register and create_user.
LEMMA InvStep == TypeOK /\ RegistrationInv /\ [Next]_vars => (TypeOK /\ RegistrationInv)'
<1> SUFFICES ASSUME TypeOK, RegistrationInv, [Next]_vars PROVE (TypeOK /\ RegistrationInv)'
  OBVIOUS
<1>0. \A r \in Requests :
        /\ req[r] \in Request
        /\ Asked(req[r]) /\ Established(req[r]) /\ Exclusive(req[r]) /\ Deserved(req[r])
  BY DEF TypeOK, RegistrationInv, NoSelfConflict
<1>1. ASSUME NEW r \in Requests, Begin(r) PROVE (TypeOK /\ RegistrationInv)'
  <2>1. PICK k \in Keys, i \in Identities, p \in Passwords :
          req' = [req EXCEPT ![r] =
            [Idle EXCEPT !.pc = "create", !.key = k, !.id = i, !.password = p]]
    <3>1. PICK body \in Bodies :
            req' = [req EXCEPT ![r] =
              [Idle EXCEPT !.pc = "create", !.key = body[1], !.id = body[2],
                           !.password = body[3]]]
      BY <1>1 DEF Begin
    <3>2. body[1] \in Keys /\ body[2] \in Identities /\ body[3] \in Passwords
      BY RegistrationAssumption
    <3> QED
      BY <3>1, <3>2
  <2> DEFINE q == [Idle EXCEPT !.pc = "create", !.key = k, !.id = i, !.password = p]
  <2>2. Idle \in Request /\ Idle.inserted = FALSE /\ Idle.answer = "none"
    BY RegistrationAssumption DEF Idle, Request, Answers
  <2>3. q \in Request /\ q.pc = "create" /\ q.key = k /\ q.id = i /\ q.password = p
          /\ q.inserted = FALSE /\ q.answer = "none"
    BY <2>2 DEF Request
  <2>4. Asked(q) /\ Established(q)' /\ Exclusive(q) /\ Deserved(q)' /\ ~q.inserted
    BY <2>3 DEF Asked, Established, Exclusive, Deserved
  <2>5. UNCHANGED <<bound, flight, creds, granted>> /\ req' = [req EXCEPT ![r] = q]
    BY <1>1, <2>1 DEF Begin
  <2> HIDE DEF q
  <2>6. RegistrationInv'
    BY <2>3, <2>4, <2>5, OneRequestStep
  <2> QED BY <2>3, <2>5, <2>6 DEF TypeOK
<1>2. ASSUME NEW r \in Requests, Post(r) PROVE (TypeOK /\ RegistrationInv)'
  <2> DEFINE k == req[r].key
             i == req[r].id
             a == Reply(k, i)
  <2>1. k \in Keys /\ i \in Identities /\ req[r].password \in Passwords /\ i # None
    BY <1>0, <1>2, RegistrationAssumption DEF Post, Asked
  <2>2. bound' = Received(k, i) /\ UNCHANGED <<flight, creds, granted>>
    BY <1>2 DEF Post, KeyOf
  <2>3. PICK q : q = IF a = "created" THEN [req[r] EXCEPT !.pc = "lookup"] ELSE Answered(req[r], a)
    OBVIOUS
  <2>4. req' = [req EXCEPT ![r] = q]
    BY <1>2, <2>3 DEF Post, KeyOf
  <2>5. bound' \in [Keys -> Identities \cup {None}]
    BY <2>1, <2>2, ReceivedKeeps
  <2>6. a \in Answers
    BY DEF Reply, Answers
  <2>7. q \in Request
    <3>1. Finished(req[r], a)
      BY <1>0, <2>6, AnsweredIsRequest
    <3> QED BY <1>0, <2>3, <3>1 DEF Request, Finished
  <2>8. Asked(q)
    BY <1>0, <2>1, <2>3 DEF Asked, Answered, Request
  <2>9. ~q.inserted /\ Exclusive(q)
    BY <1>0, <1>2, <2>3 DEF Post, Exclusive, Answered, Request
  <2>10. Established(q)'
    <3>1. CASE a = "created"
      <4>1. bound'[k] = i
        BY <3>1, <2>1, <2>2 DEF Reply, Received, TypeOK
      <4> QED BY <1>0, <4>1, <3>1, <2>1, <2>3 DEF Established, Request
    <3>2. CASE a # "created"
      BY <1>0, <3>2, <2>3 DEF Established, Answered, Request
    <3> QED BY <3>1, <3>2
  <2>11. Deserved(q)'
    <3>1. CASE a = "created"
      <4>1. q.answer = req[r].answer /\ q.key = k /\ q.id = i
        BY <1>0, <3>1, <2>3 DEF Request
      <4>2. Deserved(req[r])
        BY <1>0
      <4> QED BY <4>1, <4>2, <2>1, <2>2, ReceivedKeeps, RegistrationAssumption DEF Deserved
    <3>2. CASE a # "created"
      <4>1. q.answer = a /\ q.key = k /\ q.id = i
        BY <1>0, <3>2, <2>3 DEF Answered, Request
      <4>2. bound' = bound
        BY <3>2, <2>1, <2>2 DEF Reply, Received, TypeOK
      <4>3. ASSUME a = "exists" PROVE \E j \in Keys \ {k} : bound[j] = i
        BY <4>3, <2>1 DEF Reply, IsUser
      <4>4. ASSUME a = "conflict" PROVE bound[k] \notin {None, i}
        BY <4>4 DEF Reply
      <4> QED BY <4>1, <4>2, <4>3, <4>4 DEF Deserved
    <3> QED BY <3>1, <3>2
  <2> HIDE DEF k, i, a
  <2>12. RegistrationInv'
    BY <2>1, <2>2, <2>4, <2>7, <2>8, <2>9, <2>10, <2>11, OneRequestStep
  <2> QED BY <2>2, <2>4, <2>5, <2>7, <2>12 DEF TypeOK
<1>3. ASSUME NEW r \in Requests, NoAnswer(r) PROVE (TypeOK /\ RegistrationInv)'
  <2>1. req[r].key \in Keys /\ req[r].id \in Identities
    BY <1>0, <1>3 DEF NoAnswer, Asked
  <2>2. PICK q : q = Retried(req[r])
    OBVIOUS
  <2>3. q \in Request
    BY <1>0, <2>2, RetriedIsRequest
  <2>4. req' = [req EXCEPT ![r] = q] /\ UNCHANGED <<bound, creds, granted>>
    BY <1>3, <2>2 DEF NoAnswer
  <2>5. Asked(q) /\ Established(q) /\ Exclusive(q) /\ Deserved(q) /\ ~q.inserted
    BY <1>0, <1>3, <2>2
       DEF NoAnswer, Retried, Answered, Request, Asked, Established, Exclusive, Deserved
  <2>6. Established(q)' /\ Deserved(q)'
    BY <2>4, <2>5 DEF Established, Deserved
  <2>7. RegistrationInv'
    BY <2>3, <2>4, <2>5, <2>6, OneRequestStep
  <2>8. flight' \subseteq Keys \X Identities
    BY <1>3, <2>1 DEF NoAnswer, KeyOf, TypeOK
  <2> QED BY <2>3, <2>4, <2>7, <2>8 DEF TypeOK
<1>4. ASSUME NEW r \in Requests, Lookup(r) \/ Insert(r) \/ Abort(r)
      PROVE  (TypeOK /\ RegistrationInv)'
  <2>1. PICK q :
          /\ req' = [req EXCEPT ![r] = q]
          /\ \/ Lookup(r) /\ q = [req[r] EXCEPT !.pc = IF HasCredential(r) THEN "commit" ELSE "insert"]
             \/ Insert(r) /\ Duplicate(r) /\ q = Answered(req[r], "error")
             \/ Insert(r) /\ ~Duplicate(r) /\ q = [req[r] EXCEPT !.pc = "commit", !.inserted = TRUE]
             \/ Abort(r) /\ q = Answered(req[r], "none")
    BY <1>4 DEF Lookup, Insert, Abort
  <2>1a. Finished(req[r], "error") /\ Finished(req[r], "none")
    BY <1>0, AnsweredIsRequest DEF Answers
  <2>2. \A a \in {"error", "none"} : q = Answered(req[r], a) =>
          q \in Request /\ q.pc = "idle" /\ q.inserted = FALSE /\ q.answer = a
    BY <2>1a DEF Finished
  <2>3. UNCHANGED <<bound, flight, creds, granted>>
    BY <1>4 DEF Lookup, Insert, Abort
  <2>4. /\ q \in Request
        /\ q.id = req[r].id /\ q.key = req[r].key /\ q.password = req[r].password
        /\ q.pc = "idle" \/ q.answer = req[r].answer
        /\ q.pc = "idle" => q.answer \in {"error", "none"}
    <3>1. CASE Lookup(r) /\ q = [req[r] EXCEPT !.pc = IF HasCredential(r) THEN "commit" ELSE "insert"]
      BY <1>0, <3>1 DEF Request
    <3>2. CASE Insert(r) /\ ~Duplicate(r) /\ q = [req[r] EXCEPT !.pc = "commit", !.inserted = TRUE]
      BY <1>0, <3>2 DEF Request
    <3>3. ASSUME NEW a \in {"error", "none"}, q = Answered(req[r], a)
          PROVE  q.id = req[r].id /\ q.key = req[r].key /\ q.password = req[r].password
      BY <2>1a, <3>3 DEF Finished
    <3> QED BY <2>1, <2>2, <3>1, <3>2, <3>3
  <2>4a. Asked(q) /\ Established(q) /\ Deserved(q)
    <3>1. req[r].pc # "idle" /\ (q.pc # "idle" => req[r].pc \in {"lookup", "insert"})
      BY <2>1, <2>2 DEF Lookup, Insert, Abort
    <3> QED BY <1>0, <2>4, <3>1 DEF Asked, Established, Deserved
  <2>5. Exclusive(q)
    BY <1>0, <2>1, <2>2
       DEF Lookup, Insert, Abort, HasCredential, Duplicate, Answered, Request, Exclusive
  <2>6. q.inserted => ~ \E s \in Requests \ {r} : req[s].inserted /\ req[s].id = q.id
    BY <1>0, <2>1 DEF Lookup, Insert, Abort, Pending, Answered, Request, Exclusive
  <2>7. Established(q)' /\ Deserved(q)'
    BY <2>3, <2>4a DEF Established, Deserved
  <2>8. RegistrationInv'
    BY <2>1, <2>3, <2>4, <2>4a, <2>5, <2>6, <2>7, OneRequestStep
  <2> QED BY <2>1, <2>3, <2>4, <2>8 DEF TypeOK
<1>5. ASSUME NEW r \in Requests, Commit(r) PROVE (TypeOK /\ RegistrationInv)'
  <2> DEFINE i == req[r].id
  <2>0. PICK q : q = Answered(req[r], "created")
    OBVIOUS
  <2>1. i \in Identities /\ req[r].password \in Passwords /\ req[r].password # None /\ IsUser(i)
    BY <1>0, <1>5, RegistrationAssumption DEF Commit, Asked, Established, IsUser
  <2>2. q \in Request /\ ~q.inserted /\ q.pc = "idle" /\ q.answer = "created"
          /\ q.id = i /\ q.key = req[r].key /\ q.password = req[r].password
    <3>1. Finished(req[r], "created")
      BY <1>0, AnsweredIsRequest DEF Answers
    <3> QED BY <2>0, <3>1 DEF Finished
  <2>3. \A s \in Requests : req'[s] = IF s = r THEN q ELSE req[s]
    BY <1>5, <2>0 DEF Commit, TypeOK
  <2>4. \A j \in Identities : creds'[j] = IF req[r].inserted /\ j = i THEN req[r].password ELSE creds[j]
    BY <1>5 DEF Commit, TypeOK
  <2>5. UNCHANGED <<bound, flight>> /\ granted' = granted \cup {i}
    BY <1>5 DEF Commit
  <2>6. TypeOK'
    <3>1. req' \in [Requests -> Request]
      BY <1>5, <2>0, <2>2 DEF Commit, TypeOK
    <3>2. creds' \in [Identities -> Passwords \cup {None}]
      BY <1>5, <2>1 DEF Commit, TypeOK
    <3> QED BY <3>1, <3>2, <2>1, <2>5 DEF TypeOK
  <2>7. \A s \in Requests : Asked(req[s])' /\ Established(req[s])' /\ Deserved(req[s])'
    <3>1. Asked(q) /\ Established(q)' /\ Deserved(q)'
      <4>1. req[r].key \in Keys
        BY <1>0, <1>5 DEF Commit, Asked
      <4> QED BY <2>1, <2>2, <4>1 DEF Asked, Established, Deserved
    <3>2. ASSUME NEW s \in Requests, s # r
          PROVE  Asked(req[s])' /\ Established(req[s])' /\ Deserved(req[s])'
      BY <1>0, <3>2, <2>3, <2>5 DEF Asked, Established, Deserved
    <3> QED BY <3>1, <3>2, <2>3 DEF Asked, Established, Deserved
  <2>8. \A s \in Requests : Exclusive(req[s])'
    <3> SUFFICES ASSUME NEW s \in Requests, s # r PROVE Exclusive(req[s])'
      BY <2>2, <2>3 DEF Exclusive
    <3>1. req'[s] = req[s] /\ Exclusive(req[s])
      BY <1>0, <2>3
    <3>2. req[s].inserted \/ req[s].pc = "commit" => req[s].id \in Identities
      BY <1>0 DEF Asked, Exclusive
    <3>3. req[s].inserted /\ req[r].inserted => req[s].id # i
      BY DEF RegistrationInv, OneInsert
    <3> QED BY <3>1, <3>2, <3>3, <2>1, <2>4 DEF Exclusive
  <2>9. OneInsert'
    BY <2>2, <2>3 DEF RegistrationInv, OneInsert
  <2>10. CredentialHasUser'
    BY <2>1, <2>4, <2>5 DEF RegistrationInv, CredentialHasUser, IsUser
  <2>11. GrantedHasCredential'
    <3>1. creds'[i] # None
      BY <1>0, <1>5, <2>1, <2>4 DEF Commit, Exclusive
    <3> QED BY <3>1, <2>1, <2>4, <2>5 DEF RegistrationInv, GrantedHasCredential, TypeOK
  <2> QED BY <2>6, <2>7, <2>8, <2>9, <2>10, <2>11 DEF RegistrationInv, NoSelfConflict
<1>6. ASSUME LateArrival PROVE (TypeOK /\ RegistrationInv)'
  <2>1. PICK post \in flight : flight' = flight \ {post} /\ bound' = Received(post[1], post[2])
    BY <1>6 DEF LateArrival
  <2>2. post[1] \in Keys /\ post[2] \in Identities
    BY DEF TypeOK
  <2>3. bound' \in [Keys -> Identities \cup {None}]
    BY <2>1, <2>2, ReceivedKeeps
  <2>4. UNCHANGED <<creds, granted, req>>
    BY <1>6 DEF LateArrival
  <2>5. TypeOK'
    BY <2>1, <2>3, <2>4 DEF TypeOK
  <2>6. \A j \in Keys : bound[j] # None => bound'[j] = bound[j]
    BY <2>1, <2>2, ReceivedKeeps
  <2>7. \A j \in Identities : IsUser(j) => IsUser(j)'
    BY <2>1, <2>2, ReceivedKeeps
  <2>8. \A s \in Requests : Asked(req[s])' /\ Established(req[s])' /\ Exclusive(req[s])'
    BY <1>0, <2>4, <2>6, RegistrationAssumption DEF Asked, Established, Exclusive
  <2>9. \A s \in Requests : Deserved(req[s])'
    BY <1>0, <2>4, <2>6, RegistrationAssumption DEF Asked, Deserved
  <2>10. OneInsert' /\ CredentialHasUser' /\ GrantedHasCredential'
    BY <2>4, <2>7 DEF RegistrationInv, OneInsert, CredentialHasUser, GrantedHasCredential
  <2> QED BY <2>5, <2>8, <2>9, <2>10 DEF RegistrationInv, NoSelfConflict
<1>7. ASSUME UNCHANGED vars PROVE (TypeOK /\ RegistrationInv)'
  BY <1>7 DEF vars, TypeOK, RegistrationInv, Asked, Established, Exclusive, OneInsert,
              CredentialHasUser, GrantedHasCredential, NoSelfConflict, Deserved, IsUser
<1>8. ASSUME NEW r \in Requests, Refuse(r) PROVE (TypeOK /\ RegistrationInv)'
  <2>1. req[r].key \in Keys /\ req[r].id \in Identities
    BY <1>0, <1>8 DEF Refuse, Asked
  <2>2. PICK a \in {"refused", "unavailable"} :
          /\ req' = [req EXCEPT ![r] = Answered(req[r], a)]
          /\ UNCHANGED <<flight, creds, granted>>
    BY <1>8 DEF Refuse
  <2>3. Finished(req[r], a)
    BY <1>0, AnsweredIsRequest DEF Answers, TypeOK
  <2>4. PICK q : q = Answered(req[r], a)
    OBVIOUS
  <2>5. q \in Request /\ q.pc = "idle" /\ q.inserted = FALSE /\ q.answer = a
          /\ q.key = req[r].key /\ q.id = req[r].id /\ q.password = req[r].password
    BY <2>3, <2>4 DEF Finished
  <2>6. req' = [req EXCEPT ![r] = q] /\ UNCHANGED <<flight, creds, granted>>
    BY <2>2, <2>4
  <2>7. UNCHANGED bound \/ \E k \in Keys, i \in Identities : bound' = Received(k, i)
    BY <1>8, <2>1 DEF Refuse, KeyOf
  <2>8. Asked(q) /\ Established(q)' /\ Exclusive(q) /\ Deserved(q)'
    BY <1>0, <1>8, <2>5 DEF Refuse, Asked, Established, Exclusive, Deserved
  <2>9. RegistrationInv'
    BY <2>5, <2>6, <2>7, <2>8, OneRequestStep
  <2>10. bound' \in [Keys -> Identities \cup {None}]
    BY <2>7, ReceivedKeeps DEF TypeOK
  <2> QED BY <2>5, <2>6, <2>9, <2>10 DEF TypeOK
<1> QED BY <1>1, <1>2, <1>3, <1>4, <1>5, <1>6, <1>7, <1>8 DEF Next, Serve

LEMMA InvInit == Init => TypeOK /\ RegistrationInv
<1> SUFFICES ASSUME Init PROVE TypeOK /\ RegistrationInv
  OBVIOUS
<1>1. Idle \in Request
  BY RegistrationAssumption DEF Idle, Request, Answers
<1>2. TypeOK
  BY <1>1 DEF Init, TypeOK
<1>3. \A r \in Requests : req[r].pc = "idle" /\ ~req[r].inserted /\ req[r].answer = "none"
  BY DEF Init, Idle
<1>4. RegistrationInv
  BY <1>3 DEF Init, RegistrationInv, Asked, Established, Exclusive, OneInsert,
              CredentialHasUser, GrantedHasCredential, NoSelfConflict, Deserved
<1> QED BY <1>2, <1>4

-----------------------------------------------------------------------------
\* Every reachable state is well typed (tenacity stops after MaxTries, among
\* others).
THEOREM TypeCorrect == Spec => []TypeOK
<1>1. Spec => [](TypeOK /\ RegistrationInv)
  BY InvInit, InvStep, PTL DEF Spec
<1> QED BY <1>1, PTL

\* The agreement of requests, 019 and the auth database survives every retry,
\* late POST, overlap and crash.
THEOREM InductiveInvariant == Spec => []RegistrationInv
<1>1. Spec => [](TypeOK /\ RegistrationInv)
  BY InvInit, InvStep, PTL DEF Spec
<1> QED BY <1>1, PTL

\* For any number of workers, keys and users a password belongs to a user of
\* 019 (RegistrationService.register).
THEOREM CredentialHasUserCorrect == Spec => []CredentialHasUser
<1>1. RegistrationInv => CredentialHasUser
  BY DEF RegistrationInv
<1> QED BY <1>1, InductiveInvariant, PTL

\* Tokens from a registration imply a committed credential.
THEOREM GrantedHasCredentialCorrect == Spec => []GrantedHasCredential
<1>1. RegistrationInv => GrantedHasCredential
  BY DEF RegistrationInv
<1> QED BY <1>1, InductiveInvariant, PTL

\* No client is refused because of its own retries (UserService.create_user).
THEOREM NoSelfConflictCorrect == Spec => []NoSelfConflict
<1>1. RegistrationInv => NoSelfConflict
  BY DEF RegistrationInv
<1> QED BY <1>1, InductiveInvariant, PTL

\* No overlap of registrations replaces a committed password (the unique index
\* on auth_credentials.user_id).
THEOREM FirstPasswordWinsCorrect == Spec => FirstPasswordWins
<1> DEFINE Kept == \A i \in Identities : creds[i] # None => creds'[i] = creds[i]
<1>1. TypeOK /\ RegistrationInv /\ [Next]_vars => [Kept]_vars
  <2> SUFFICES ASSUME TypeOK, RegistrationInv, [Next]_vars PROVE Kept
    OBVIOUS
  <2>1. ASSUME NEW r \in Requests, Commit(r) PROVE Kept
    <3>1. Exclusive(req[r])
      BY DEF RegistrationInv
    <3> QED BY <2>1, <3>1 DEF Commit, Exclusive, TypeOK
  <2>2. ASSUME UNCHANGED creds PROVE Kept
    BY <2>2
  <2> QED BY <2>1, <2>2
     DEF Next, Serve, Begin, Post, NoAnswer, Refuse, Lookup, Insert, Abort, LateArrival, vars
<1>2. Spec => [](TypeOK /\ RegistrationInv)
  BY InvInit, InvStep, PTL DEF Spec
<1> QED BY <1>1, <1>2, PTL DEF Spec, FirstPasswordWins

-----------------------------------------------------------------------------
(* The refinement of Enrolment.                                            *)

\* Only r's call changes, and what r was about to send.
LEMMA OthersSeen ==
  ASSUME TypeOK, NEW r \in Requests, NEW q, req' = [req EXCEPT ![r] = q]
  PROVE  Calls' = [Calls EXCEPT ![r] = Seen(q)]
<1>1. \A s \in Requests : req'[s] = IF s = r THEN q ELSE req[s]
  BY DEF TypeOK
<1>2. \A s \in Requests : Calls'[s] = IF s = r THEN Seen(q) ELSE Calls[s]
  BY <1>1 DEF Calls, Seen
<1> QED
  BY <1>2 DEF Calls

LEMMA AnswerSeen ==
  ASSUME TypeOK, NEW r \in Requests, req[r].pc # "idle", NEW a,
         req' = [req EXCEPT ![r] = Answered(req[r], a)]
  PROVE  Promise!Answer(r, a)
<1>1. Calls' = [Calls EXCEPT ![r] = Seen(Answered(req[r], a))]
  BY OthersSeen
<1>2. Calls[r] = Seen(req[r]) /\ Calls[r].answer = "running"
  BY DEF Calls, Seen
<1>3. Seen(Answered(req[r], a)) = [Seen(req[r]) EXCEPT !.answer = a]
  BY DEF Seen, Answered, TypeOK, Request
<1> QED
  BY <1>1, <1>2, <1>3 DEF Promise!Answer

\* A POST that is sent, given up or answered is at most forgotten.
LEMMA PendsStep ==
  ASSUME TypeOK, NEW r \in Requests, NEW q, req' = [req EXCEPT ![r] = q],
         q.key = req[r].key, q.id = req[r].id,
         flight \subseteq flight',
         flight' # flight => req[r].pc = "create",
         flight' \subseteq flight \cup {<<req[r].key, req[r].id>>},
         q.pc = "create" => req[r].pc = "create"
  PROVE  /\ Pends' \in {Pends, Pends \ {<<req[r].key, req[r].id>>}}
         /\ q.pc = "create" \/ req[r].pc # "create" => Pends' = Pends
<1> DEFINE post == <<req[r].key, req[r].id>>
<1>1. \A s \in Requests : req'[s] = IF s = r THEN q ELSE req[s]
  BY DEF TypeOK
<1>2. \A x : x \in Pends <=>
        x \in flight \/ \E s \in Requests : req[s].pc = "create" /\ x = <<req[s].key, req[s].id>>
  BY DEF Pends
<1>3. \A x : x \in Pends' <=>
        x \in flight' \/ \E s \in Requests : req'[s].pc = "create" /\ x = <<req'[s].key, req'[s].id>>
  BY DEF Pends
<1>4. \A x \in Pends' : x \in Pends
  BY <1>1, <1>2, <1>3
<1>5. \A x \in Pends : x # post => x \in Pends'
  BY <1>1, <1>2, <1>3
<1>6. ASSUME q.pc = "create" \/ req[r].pc # "create"
      PROVE  \A x \in Pends : x \in Pends'
  BY <1>1, <1>2, <1>3, <1>6
<1> QED
  BY <1>4, <1>5, <1>6

\* What a client sees of the first steps, those of create_user.
LEMMA CreateSeen ==
  ASSUME TypeOK, RegistrationInv, NEW r \in Requests, Post(r) \/ NoAnswer(r) \/ Refuse(r)
  PROVE  Promise!Next \/ UNCHANGED Promise!vars
<1> DEFINE k == req[r].key
           i == req[r].id
<1>1. req[r].pc = "create" /\ req[r] \in Request
  BY DEF Post, NoAnswer, Refuse, TypeOK
<1>2. k \in Keys /\ i \in Identities
  BY <1>1 DEF RegistrationInv, Asked
<1>3. <<k, i>> \in Pends
  BY <1>1 DEF Pends
<1>4. Calls[r] = Seen(req[r]) /\ Calls[r].key = k /\ Calls[r].id = i
  BY DEF Calls, Seen
<1>5. creds' = creds /\ granted' = granted
  BY DEF Post, NoAnswer, Refuse
<1>6. bound' = Received(k, i) => Promise!TakesEffect(k, i)
  BY <1>3 DEF Promise!TakesEffect, Promise!Free, Promise!Owned, Received, IsUser
<1>7. ASSUME NEW a \in Answers, req' = [req EXCEPT ![r] = Answered(req[r], a)],
             flight' \in {flight, flight \cup {<<k, i>>}}
      PROVE  Promise!Answer(r, a) /\ Promise!MayForget(k, i)
  <2>1. Finished(req[r], a)
    BY <1>1, AnsweredIsRequest
  <2>2. PICK q : q = Answered(req[r], a)
    OBVIOUS
  <2>3. Pends' \in {Pends, Pends \ {<<k, i>>}}
    BY <1>1, <1>7, <2>1, <2>2, PendsStep DEF Finished
  <2> QED
    BY <1>1, <1>7, <2>3, AnswerSeen DEF Promise!MayForget
<1>8. CASE Post(r)
  <2>1. bound' = Received(k, i) /\ flight' = flight
    BY <1>8 DEF Post, KeyOf
  <2>2. CASE Reply(k, i) = "created"
    <3>1. PICK q : q = [req[r] EXCEPT !.pc = "lookup"]
      OBVIOUS
    <3>2. /\ req' = [req EXCEPT ![r] = q]
          /\ q.key = k /\ q.id = i /\ q.pc = "lookup" /\ Seen(q) = Seen(req[r])
      BY <1>1, <1>8, <2>2, <3>1 DEF Post, KeyOf, Request, Seen
    <3>3. Pends' \in {Pends, Pends \ {<<k, i>>}}
      BY <1>1, <2>1, <3>2, PendsStep
    <3>4. Calls' = Calls
      BY <1>4, <3>2, OthersSeen DEF Calls
    <3>5. Promise!Create(k, i)
      BY <1>5, <1>6, <2>1, <3>3, <3>4 DEF Promise!Create, Promise!MayForget
    <3> QED
      BY <1>2, <3>5 DEF Promise!Next
  <2>3. CASE Reply(k, i) # "created"
    <3>1. bound' = bound
      BY <1>2, <2>1, <2>3 DEF Reply, Received, TypeOK
    <3>2. PICK a \in Answers : a = Reply(k, i)
      BY DEF Reply, Answers
    <3>3. req' = [req EXCEPT ![r] = Answered(req[r], a)]
      BY <1>8, <2>3, <3>2 DEF Post, KeyOf
    <3>4. Promise!Answer(r, a) /\ Promise!MayForget(k, i)
      BY <1>7, <2>1, <3>3
    <3>5. \/ a = "exists" /\ bound[k] = None /\ Promise!Owned(i)
          \/ a = "conflict" /\ bound[k] \notin {None, i}
      BY <2>3, <3>2 DEF Reply, IsUser, Promise!Owned
    <3>6. Promise!Reject(r)
      BY <1>4, <1>5, <3>1, <3>4, <3>5 DEF Promise!Reject
    <3> QED
      BY <3>6 DEF Promise!Next
  <2> QED
    BY <2>2, <2>3
<1>9. ASSUME NEW a \in {"unavailable", "refused"},
             req' = [req EXCEPT ![r] = Answered(req[r], a)],
             bound' = bound \/ bound' = Received(k, i),
             flight' \in {flight, flight \cup {<<k, i>>}}
      PROVE  Promise!Next
  <2>1. Promise!Answer(r, a) /\ Promise!MayForget(k, i)
    BY <1>7, <1>9 DEF Answers
  <2>2. Promise!Fail(r)
    BY <1>4, <1>5, <1>6, <1>9, <2>1 DEF Promise!Fail
  <2> QED
    BY <2>2 DEF Promise!Next
<1>10. CASE NoAnswer(r)
  <2>1. bound' = bound /\ flight' \in {flight, flight \cup {<<k, i>>}}
    BY <1>10 DEF NoAnswer, KeyOf
  <2>2. CASE req[r].tries + 1 = MaxTries
    BY <1>9, <1>10, <2>1, <2>2 DEF NoAnswer, Retried
  <2>3. CASE req[r].tries + 1 # MaxTries
    <3>1. PICK q : q = [req[r] EXCEPT !.tries = @ + 1]
      OBVIOUS
    <3>2. /\ req' = [req EXCEPT ![r] = q]
          /\ q.key = k /\ q.id = i /\ q.pc = "create" /\ Seen(q) = Seen(req[r])
      BY <1>1, <1>10, <2>3, <3>1 DEF NoAnswer, Retried, Request, Seen
    <3>3. Pends' = Pends
      BY <1>1, <2>1, <3>2, PendsStep
    <3>4. Calls' = Calls
      BY <1>4, <3>2, OthersSeen DEF Calls
    <3> QED
      BY <1>5, <2>1, <3>3, <3>4 DEF Promise!vars
  <2> QED
    BY <2>2, <2>3
<1>11. CASE Refuse(r)
  BY <1>9, <1>11 DEF Refuse, KeyOf
<1> QED
  BY <1>8, <1>10, <1>11

\* What a client sees of the steps on the auth database.
LEMMA StoreSeen ==
  ASSUME TypeOK, RegistrationInv, NEW r \in Requests,
         Lookup(r) \/ Insert(r) \/ Commit(r) \/ Abort(r)
  PROVE  Promise!Next \/ UNCHANGED Promise!vars
<1> DEFINE k == req[r].key
           i == req[r].id
<1>1. req[r].pc # "idle" /\ req[r] \in Request
  BY DEF Lookup, Insert, Commit, Abort, TypeOK
<1>2. /\ k \in Keys /\ i \in Identities
      /\ Established(req[r]) /\ Exclusive(req[r])
  BY <1>1 DEF RegistrationInv, Asked
<1>3. /\ Calls[r] = Seen(req[r]) /\ Calls[r].key = k /\ Calls[r].id = i
      /\ Calls[r].password = req[r].password
  BY DEF Calls, Seen
<1>4. bound' = bound /\ flight' = flight
  BY DEF Lookup, Insert, Commit, Abort
<1>5. ASSUME NEW a \in Answers, req' = [req EXCEPT ![r] = Answered(req[r], a)]
      PROVE  /\ Promise!Answer(r, a) /\ Promise!MayForget(k, i)
             /\ req[r].pc # "create" => Pends' = Pends
  <2>1. Finished(req[r], a)
    BY <1>1, AnsweredIsRequest
  <2>2. PICK q : q = Answered(req[r], a)
    OBVIOUS
  <2>3. /\ Pends' \in {Pends, Pends \ {<<k, i>>}}
        /\ req[r].pc # "create" => Pends' = Pends
    BY <1>1, <1>4, <1>5, <2>1, <2>2, PendsStep DEF Finished
  <2> QED
    BY <1>1, <1>5, <2>3, AnswerSeen DEF Promise!MayForget
<1>6. ASSUME NEW a \in {"error", "none"}, req' = [req EXCEPT ![r] = Answered(req[r], a)],
             creds' = creds, granted' = granted
      PROVE  Promise!Next
  <2>1. Promise!Answer(r, a) /\ Promise!MayForget(k, i)
    BY <1>5, <1>6 DEF Answers
  <2>2. Promise!Fail(r)
    BY <1>3, <1>4, <1>6, <2>1 DEF Promise!Fail
  <2> QED
    BY <2>2 DEF Promise!Next
<1>7. CASE Lookup(r) \/ (Insert(r) /\ ~Duplicate(r))
  <2>1. PICK q \in {[req[r] EXCEPT !.pc = IF HasCredential(r) THEN "commit" ELSE "insert"],
                    [req[r] EXCEPT !.pc = "commit", !.inserted = TRUE]} :
          req' = [req EXCEPT ![r] = q]
    BY <1>7 DEF Lookup, Insert
  <2>2. /\ q.key = k /\ q.id = i /\ q.pc \in {"insert", "commit"}
        /\ Seen(q) = Seen(req[r])
    BY <1>1, <2>1 DEF Request, Seen
  <2>3. Pends' = Pends
    BY <1>4, <1>7, <2>1, <2>2, PendsStep DEF Lookup, Insert
  <2>4. Calls' = Calls
    BY <1>3, <2>1, <2>2, OthersSeen DEF Calls
  <2> QED
    BY <1>4, <1>7, <2>3, <2>4 DEF Promise!vars, Lookup, Insert
<1>8. CASE Insert(r) /\ Duplicate(r)
  BY <1>6, <1>8 DEF Insert
<1>9. CASE Abort(r)
  BY <1>6, <1>9 DEF Abort
<1>10. CASE Commit(r)
  <2>1. bound[k] = i /\ (req[r].inserted <=> creds[i] = None)
    BY <1>2, <1>10 DEF Commit, Established, Exclusive
  <2>2. Promise!Answer(r, "created") /\ Pends' = Pends
    BY <1>5, <1>10 DEF Commit, Answers
  <2>3. Promise!Enrol(r)
    BY <1>3, <1>4, <1>10, <2>1, <2>2 DEF Promise!Enrol, Commit
  <2> QED
    BY <2>3 DEF Promise!Next
<1> QED
  BY <1>7, <1>8, <1>9, <1>10

LEMMA BeginSeen ==
  ASSUME TypeOK, RegistrationInv, NEW r \in Requests, Begin(r)
  PROVE  Promise!Next
<1>1. PICK k \in Keys, i \in Identities, p \in Passwords :
        req' = [req EXCEPT ![r] =
          [Idle EXCEPT !.pc = "create", !.key = k, !.id = i, !.password = p]]
  <2>1. PICK body \in Bodies :
          req' = [req EXCEPT ![r] =
            [Idle EXCEPT !.pc = "create", !.key = body[1], !.id = body[2],
                         !.password = body[3]]]
    BY DEF Begin
  <2>2. body[1] \in Keys /\ body[2] \in Identities /\ body[3] \in Passwords
    BY RegistrationAssumption
  <2> QED
    BY <2>1, <2>2
<1>2. PICK q : q = [Idle EXCEPT !.pc = "create", !.key = k, !.id = i, !.password = p]
  OBVIOUS
<1>3. q.pc = "create" /\ q.key = k /\ q.id = i /\ Seen(q) = Promise!Call(k, i, p, "running")
  BY <1>2 DEF Idle, Seen, Promise!Call
<1>4. Calls' = [Calls EXCEPT ![r] = Promise!Call(k, i, p, "running")]
  BY <1>1, <1>2, <1>3, OthersSeen
<1>5. Calls[r].answer # "running"
  <2>1. req[r] \in Request /\ req[r].pc = "idle"
    BY DEF Begin, TypeOK
  <2>2. req[r].answer # "running"
    BY <2>1 DEF Request, Answers
  <2> QED
    BY <2>1, <2>2 DEF Calls, Seen
<1>6. Pends' = Pends \cup {<<k, i>>}
  <2>1. \A s \in Requests : req'[s] = IF s = r THEN q ELSE req[s]
    BY <1>1, <1>2 DEF TypeOK
  <2>2. req[r].pc = "idle" /\ flight' = flight
    BY DEF Begin
  <2>3. \A x : x \in Pends' <=> x \in Pends \/ x = <<k, i>>
    BY <1>3, <2>1, <2>2 DEF Pends
  <2> QED
    BY <2>3
<1>7. Promise!Ask(r, k, i, p)
  BY <1>4, <1>5, <1>6 DEF Begin, Promise!Ask
<1> QED
  BY <1>7 DEF Promise!Next

LEMMA LateSeen ==
  ASSUME TypeOK, LateArrival
  PROVE  Promise!Next
<1>1. PICK post \in flight : flight' = flight \ {post} /\ bound' = Received(post[1], post[2])
  BY DEF LateArrival
<1>2. PICK k \in Keys, i \in Identities : post = <<k, i>>
  BY DEF TypeOK
<1>3. UNCHANGED <<creds, granted, req>> /\ UNCHANGED Calls
  BY DEF LateArrival, Calls
<1>4. Pends' \in {Pends, Pends \ {post}} /\ post \in Pends
  <2>1. \A x : x \in Pends <=>
          x \in flight \/ \E s \in Requests : req[s].pc = "create" /\ x = <<req[s].key, req[s].id>>
    BY DEF Pends
  <2>2. \A x : x \in Pends' <=>
          x \in flight' \/ \E s \in Requests : req[s].pc = "create" /\ x = <<req[s].key, req[s].id>>
    BY <1>3 DEF Pends
  <2> QED
    BY <1>1, <2>1, <2>2
<1>5. Promise!TakesEffect(k, i)
  BY <1>1, <1>2, <1>4
     DEF Promise!TakesEffect, Promise!Free, Promise!Owned, Received, IsUser
<1>6. Promise!Create(k, i)
  BY <1>2, <1>3, <1>4, <1>5 DEF Promise!Create, Promise!MayForget
<1> QED
  BY <1>6 DEF Promise!Next

\* For any number of clients, keys, users and attempts, registration over two
\* services is what Enrolment promises (register, create_user).
THEOREM Refinement == Spec => ImplementsEnrolment
<1>1. Init => Promise!Init
  <2> SUFFICES ASSUME Init PROVE Promise!Init
    OBVIOUS
  <2>1. Pends = {}
    BY DEF Init, Idle, Pends
  <2>2. Calls = [c \in Requests |-> Promise!Call(None, None, None, "none")]
    BY DEF Init, Idle, Calls, Seen, Promise!Call
  <2> QED
    BY <2>1, <2>2 DEF Init, Promise!Init
<1>2. TypeOK /\ RegistrationInv /\ [Next]_vars => [Promise!Next]_(Promise!vars)
  <2> SUFFICES ASSUME TypeOK, RegistrationInv, [Next]_vars
               PROVE  Promise!Next \/ UNCHANGED Promise!vars
    OBVIOUS
  <2>1. CASE UNCHANGED vars
    BY <2>1 DEF vars, Promise!vars, Pends, Calls
  <2> QED
    BY <2>1, BeginSeen, CreateSeen, StoreSeen, LateSeen DEF Next, Serve
<1>3. Spec => [](TypeOK /\ RegistrationInv)
  BY InvInit, InvStep, PTL DEF Spec
<1> QED
  BY <1>1, <1>2, <1>3, PTL DEF Spec, ImplementsEnrolment, Promise!Spec
=============================================================================
