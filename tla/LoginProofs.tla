------------------------------ MODULE LoginProofs ------------------------------
(* Proofs about Login.                                                     *)
EXTENDS Login, FiniteSetTheorems, TLAPS

\* A row under the update of a wrong password stays a sound row.
LEMMA FailedIsSound ==
  ASSUME NEW c \in Credential, NEW q \in Request, NEW n \in Nat,
         q.snap \in Credential, Sound(c, n), Sound(q.snap, n)
  PROVE  /\ Failed(c, q) \in Credential
         /\ Failed(c, q).active = c.active
         /\ Sound(Failed(c, q), n + 1)
<1>1. q.snap.failed + 1 \in Nat /\ q.at + LockTime \in Nat /\ q.at + LockTime # None
  BY LoginAssumption DEF Request, Credential
<1>2. Failed(c, q) \in Credential /\ Failed(c, q).active = c.active
  BY <1>1 DEF Failed, Credential
<1>3. Failed(c, q).failed <= n + 1
  BY <1>1 DEF Failed, Credential, Sound
<1>4. Failed(c, q).locked <=> Failed(c, q).until # None
  BY <1>1 DEF Failed, Credential, Sound
<1> QED BY <1>2, <1>3, <1>4 DEF Sound

\* The count it leaves, and the lock that follows from it.
LEMMA FailedCounts ==
  ASSUME NEW c \in Credential, NEW q \in Request, q.snap \in Credential
  PROVE  /\ Failed(c, q) \in Credential
         /\ Failed(c, q).failed = q.snap.failed + 1
         /\ c.locked => Failed(c, q).locked
         /\ Failed(c, q).failed >= MaxFailures => Failed(c, q).locked
<1>1. q.snap.failed + 1 \in Nat /\ q.at + LockTime \in Nat
  BY LoginAssumption DEF Request, Credential
<1>2. Failed(c, q) \in Credential
  BY <1>1 DEF Failed, Credential
<1>3. Failed(c, q).failed = q.snap.failed + 1
  BY <1>1 DEF Failed, Credential
<1>4. Failed(c, q).locked <=> c.locked \/ q.snap.failed + 1 >= MaxFailures
  BY <1>1 DEF Failed, Credential
<1> QED BY <1>2, <1>3, <1>4

\* A row under the update of a success stays a sound row, although only the
\* columns that were read set are cleared.
LEMMA SucceededIsSound ==
  ASSUME NEW c \in Credential, NEW q \in Request, NEW n \in Nat,
         q.snap \in Credential, Sound(c, n), Sound(q.snap, n)
  PROVE  /\ Succeeded(c, q) \in Credential
         /\ Succeeded(c, q).active = c.active
         /\ Sound(Succeeded(c, q), n)
<1>1. Succeeded(c, q) \in Credential /\ Succeeded(c, q).active = c.active
  BY DEF Succeeded, Credential
<1>2. Succeeded(c, q).failed <= n
  BY DEF Succeeded, Credential, Sound
<1>3. Succeeded(c, q).locked <=> Succeeded(c, q).until # None
  BY DEF Succeeded, Credential, Sound
<1> QED BY <1>1, <1>2, <1>3 DEF Sound

\* What was backed by the recorded wrong passwords stays so as more are.
LEMMA SoundGrows ==
  ASSUME NEW c \in Credential, NEW m \in Nat, NEW n \in Nat, m <= n, Sound(c, m)
  PROVE  Sound(c, n)
BY DEF Sound, Credential

\* The first attempt of a call.
LEMMA FirstTry == 0 \in 0 .. MaxTries - 1
BY LoginAssumption

\* One request's step keeps the invariant when its own new state does, if it
\* commits nothing.
LEMMA OneLoginStep ==
  ASSUME TypeOK, RowsInv, NEW r \in Requests, NEW q \in Request,
         req' = [req EXCEPT ![r] = q], UNCHANGED <<cred, log>>,
         Remembers(q), Writes(q)
  PROVE  RowsInv'
<1>1. \A s \in Requests : req'[s] = IF s = r THEN q ELSE req[s]
  BY DEF TypeOK
<1> QED BY <1>1 DEF RowsInv, Remembers, Writes

\* A request that has ended remembers and writes nothing.
LEMMA IdleIsQuiet == Idle \in Request /\ Idle.snap = None /\ Idle.image = None /\ Idle.pc = "idle"
BY LoginAssumption DEF Idle, Request

\* Committing a sound row that keeps is_active disturbs no other request.
LEMMA PublishStep ==
  ASSUME TypeOK, RowsInv, NEW r \in Requests, cred # None,
         NEW c \in Credential, cred' = c, c.active = cred.active,
         req' = [req EXCEPT ![r] = Idle],
         log'.wrong \in Nat, log.wrong <= log'.wrong, Sound(c, log'.wrong)
  PROVE  RowsInv'
<1>1. \A s \in Requests : req'[s] = IF s = r THEN Idle ELSE req[s]
  BY DEF TypeOK
<1>2. ASSUME NEW s \in Requests, s # r PROVE Remembers(req[s])' /\ Writes(req[s])'
  <2>1. req[s] \in Request /\ Remembers(req[s]) /\ Writes(req[s]) /\ req'[s] = req[s]
    BY <1>1, <1>2 DEF TypeOK, RowsInv
  <2>2. log.wrong \in Nat /\ log.wrong + 1 \in Nat /\ log'.wrong + 1 \in Nat
          /\ log.wrong + 1 <= log'.wrong + 1
    BY DEF TypeOK, Attempts
  <2>3. req[s].snap # None => req[s].snap \in Credential
    BY <2>1 DEF Request
  <2>4. req[s].image # None => req[s].image \in Credential
    BY <2>1 DEF Request
  <2>6. c # None
    BY CredentialAssumption
  <2>5. Remembers(req[s])'
    BY <2>1, <2>2, <2>3, <2>6, SoundGrows DEF Remembers
  <2>7. Writes(req[s])'
    BY <2>1, <2>2, <2>4, <2>6, SoundGrows DEF Writes
  <2> QED BY <2>5, <2>7
<1>3. Remembers(req[r])' /\ Writes(req[r])'
  BY <1>1, IdleIsQuiet DEF Remembers, Writes
<1> QED BY <1>2, <1>3 DEF RowsInv

\* Types and invariant together: every step of every login and of the user's
\* surroundings.
LEMMA InvStep == TypeOK /\ RowsInv /\ [Next]_vars => (TypeOK /\ RowsInv)'
<1> SUFFICES ASSUME TypeOK, RowsInv, [Next]_vars PROVE (TypeOK /\ RowsInv)'
  OBVIOUS
<1>0. \A r \in Requests : req[r] \in Request /\ Remembers(req[r]) /\ Writes(req[r])
  BY DEF TypeOK, RowsInv
<1>0a. log \in Attempts /\ log.wrong \in Nat
  BY DEF TypeOK, Attempts
<1>1. ASSUME NEW r \in Requests, NEW q \in Request,
             req' = [req EXCEPT ![r] = q], UNCHANGED <<cred, log, status, logins, clock>>,
             streak' \in {streak, 0}, sessions' \in {sessions, sessions + 1}, begun' \in {begun, begun + 1},
             Remembers(q), Writes(q)
      PROVE  (TypeOK /\ RowsInv)'
  <2>1. RowsInv'
    BY <1>1, OneLoginStep
  <2> QED BY <1>1, <2>1 DEF TypeOK
<1>2. ASSUME NEW r \in Requests, Begin(r) PROVE (TypeOK /\ RowsInv)'
  <2>1. PICK right \in BOOLEAN :
          req' = [req EXCEPT ![r] = [Idle EXCEPT !.pc = "resolve", !.right = right]]
    BY <1>2 DEF Begin
  <2>2. PICK q : q = [Idle EXCEPT !.pc = "resolve", !.right = right]
    OBVIOUS
  <2>3. q \in Request /\ q.pc = "resolve" /\ q.snap = None /\ q.image = None
    BY <2>2, IdleIsQuiet DEF Request
  <2>4. Remembers(q) /\ Writes(q)
    BY <2>3 DEF Remembers, Writes
  <2> QED BY <1>1, <1>2, <2>1, <2>2, <2>3, <2>4 DEF Begin
<1>3. ASSUME NEW r \in Requests, req' = [req EXCEPT ![r] = Idle],
             UNCHANGED <<cred, log, status, logins, streak, begun, clock>>,
             sessions' \in {sessions, sessions + 1}
      PROVE  (TypeOK /\ RowsInv)'
  <2>1. Remembers(Idle) /\ Writes(Idle)
    BY IdleIsQuiet DEF Remembers, Writes
  <2> QED BY <1>1, <1>3, <2>1, IdleIsQuiet
<1>4. ASSUME NEW r \in Requests, Resolve(r) \/ NoAnswer(r) \/ CheckStatus(r) \/ Read(r)
      PROVE  (TypeOK /\ RowsInv)'
  <2>1. UNCHANGED <<cred, status, log, sessions, logins, streak, begun, clock>>
    BY <1>4 DEF Resolve, NoAnswer, CheckStatus, Read
  <2>2. PICK q :
          /\ req' = [req EXCEPT ![r] = q]
          /\ \/ q = Idle
             \/ Resolve(r) /\ q = [req[r] EXCEPT !.pc = "status", !.tries = 0]
             \/ /\ NoAnswer(r) /\ req[r].tries + 1 < MaxTries
                /\ q = [req[r] EXCEPT !.tries = req[r].tries + 1]
             \/ CheckStatus(r) /\ q = [req[r] EXCEPT !.pc = "read", !.at = clock]
             \/ Read(r) /\ q = [req[r] EXCEPT !.pc = "denied"]
             \/ /\ Read(r) /\ ~Refused(req[r].at)
                /\ q = [req[r] EXCEPT !.pc = "verify", !.snap = cred]
    BY <1>4 DEF Resolve, NoAnswer, Retried, CheckStatus, Read
  <2>3. CASE q = Idle
    BY <1>3, <2>1, <2>2, <2>3
  <2>8. CASE /\ NoAnswer(r) /\ req[r].tries + 1 < MaxTries
             /\ q = [req[r] EXCEPT !.tries = req[r].tries + 1]
    <3>0. req[r].tries + 1 \in 0 .. MaxTries - 1
      BY <1>0, <2>8, LoginAssumption DEF Request
    <3>1. q \in Request /\ Remembers(q) /\ Writes(q)
      BY <1>0, <2>8, <3>0 DEF NoAnswer, Request, Remembers, Writes
    <3> QED BY <1>1, <2>1, <2>2, <3>1
  <2>4. CASE Resolve(r) /\ q = [req[r] EXCEPT !.pc = "status", !.tries = 0]
    <3>1. q \in Request /\ Remembers(q) /\ Writes(q)
      BY <1>0, <2>4, FirstTry DEF Resolve, Request, Remembers, Writes
    <3> QED BY <1>1, <2>1, <2>2, <3>1
  <2>5. CASE CheckStatus(r) /\ q = [req[r] EXCEPT !.pc = "read", !.at = clock]
    <3>1. q \in Request /\ Remembers(q) /\ Writes(q)
      BY <1>0, <2>5 DEF CheckStatus, Request, Remembers, Writes, TypeOK
    <3> QED BY <1>1, <2>1, <2>2, <3>1
  <2>6. CASE Read(r) /\ q = [req[r] EXCEPT !.pc = "denied"]
    <3>1. q \in Request /\ Remembers(q) /\ Writes(q)
      BY <1>0, <2>6 DEF Read, Request, Remembers, Writes
    <3> QED BY <1>1, <2>1, <2>2, <3>1
  <2>7. CASE /\ Read(r) /\ ~Refused(req[r].at)
             /\ q = [req[r] EXCEPT !.pc = "verify", !.snap = cred]
    <3>1. q \in Request
      BY <1>0, <2>7 DEF Request, TypeOK
    <3>2. cred # None /\ Sound(cred, log.wrong)
      BY <2>7 DEF Refused, RowsInv
    <3>3. Remembers(q) /\ Writes(q)
      BY <1>0, <2>7, <3>2 DEF Read, Request, Remembers, Writes
    <3> QED BY <1>1, <2>1, <2>2, <3>1, <3>3
  <2> QED BY <2>2, <2>3, <2>4, <2>5, <2>6, <2>7, <2>8
<1>5. ASSUME NEW r \in Requests, RecordFailure(r) \/ RecordSuccess(r)
      PROVE  (TypeOK /\ RowsInv)'
  <2>1. UNCHANGED <<cred, status, log, sessions, logins, streak, begun, clock>>
    BY <1>5 DEF RecordFailure, RecordSuccess
  <2>2. req[r].snap # None /\ req[r].snap \in Credential /\ Sound(req[r].snap, log.wrong)
          /\ cred # None
    BY <1>0, <1>5 DEF RecordFailure, RecordSuccess, Remembers, Request
  <2>3. cred \in Credential /\ Sound(cred, log.wrong)
    BY <2>2 DEF TypeOK, RowsInv
  <2>4. CASE RecordFailure(r)
    <3>1. PICK c : c = Failed(cred, req[r])
      OBVIOUS
    <3>2. c \in Credential /\ c.active = cred.active /\ Sound(c, log.wrong + 1) /\ c # None
      BY <1>0, <1>0a, <2>2, <2>3, <3>1, FailedIsSound, CredentialAssumption
    <3>3. PICK q : q = [req[r] EXCEPT !.pc = "denied", !.image = c]
      OBVIOUS
    <3>4. q \in Request /\ q.pc = "denied" /\ q.image = c /\ q.snap = req[r].snap
      BY <1>0, <3>2, <3>3 DEF Request
    <3>5. Remembers(q) /\ Writes(q)
      BY <2>2, <3>2, <3>4 DEF Remembers, Writes
    <3>6. req' = [req EXCEPT ![r] = q]
      BY <2>4, <3>1, <3>3 DEF RecordFailure
    <3> QED BY <1>1, <2>1, <3>4, <3>5, <3>6
  <2>5. CASE RecordSuccess(r)
    <3>1. PICK c : c = Succeeded(cred, req[r])
      OBVIOUS
    <3>2. c \in Credential /\ c.active = cred.active /\ Sound(c, log.wrong) /\ c # None
      BY <1>0, <1>0a, <2>2, <2>3, <3>1, SucceededIsSound, CredentialAssumption
    <3>3. PICK q : q = [req[r] EXCEPT !.pc = "session", !.image = c]
      OBVIOUS
    <3>4. q \in Request /\ q.pc = "session" /\ q.image = c /\ q.snap = req[r].snap
      BY <1>0, <3>2, <3>3 DEF Request
    <3>5. Remembers(q) /\ Writes(q)
      BY <2>2, <3>2, <3>4 DEF Remembers, Writes
    <3>6. req' = [req EXCEPT ![r] = q]
      BY <2>5, <3>1, <3>3 DEF RecordSuccess
    <3> QED BY <1>1, <2>1, <3>4, <3>5, <3>6
  <2> QED BY <1>5, <2>4, <2>5
<1>6. ASSUME NEW r \in Requests, CreateSession(r) PROVE (TypeOK /\ RowsInv)'
  <2>1. CASE req' = [req EXCEPT ![r] = Idle]
    BY <1>3, <1>6, <2>1 DEF CreateSession
  <2>2. CASE req' = [req EXCEPT ![r].pc = "commit"]
    <3>1. PICK q : q = [req[r] EXCEPT !.pc = "commit"]
      OBVIOUS
    <3>2. q \in Request /\ Remembers(q) /\ Writes(q)
      BY <1>0, <1>6, <3>1 DEF CreateSession, Request, Remembers, Writes
    <3>3. req' = [req EXCEPT ![r] = q]
      BY <2>2, <3>1
    <3> QED BY <1>1, <1>6, <3>2, <3>3 DEF CreateSession
  <2> QED BY <1>6, <2>1, <2>2 DEF CreateSession, Ended
<1>7. ASSUME NEW r \in Requests, Commit(r) PROVE (TypeOK /\ RowsInv)'
  <2>1. PICK c : c = req[r].image
    OBVIOUS
  <2>2. c \in Credential /\ cred # None /\ c.active = cred.active /\ Sound(c, log.wrong)
    BY <1>0, <1>7, <2>1 DEF Commit, Writes, Request
  <2>3. cred' = c /\ req' = [req EXCEPT ![r] = Idle]
    BY <1>7, <2>1 DEF Commit, Ended
  <2>4. log' \in Attempts /\ log'.wrong = log.wrong
    BY <1>0a, <1>7 DEF Commit, Attempts
  <2>5. log.wrong <= log'.wrong /\ log'.wrong \in Nat /\ Sound(c, log'.wrong)
    BY <1>0a, <2>2, <2>4
  <2>6. RowsInv'
    BY <2>2, <2>3, <2>5, PublishStep
  <2>7. req' \in [Requests -> Request]
    BY <2>3, IdleIsQuiet DEF TypeOK
  <2> QED BY <1>7, <2>2, <2>3, <2>4, <2>6, <2>7 DEF Commit, TypeOK
<1>8. ASSUME NEW r \in Requests, Deny(r) PROVE (TypeOK /\ RowsInv)'
  <2>1. req' = [req EXCEPT ![r] = Idle] /\ UNCHANGED <<status, sessions, logins, begun, clock>>
    BY <1>8 DEF Deny, Ended
  <2>2. req' \in [Requests -> Request]
    BY <2>1, IdleIsQuiet DEF TypeOK
  <2>3. streak' \in Nat
    BY <1>8 DEF Deny, TypeOK
  <2>4. CASE FailureCommits /\ WrongPassword(req[r])
    <3>1. PICK c : c = req[r].image
      OBVIOUS
    <3>2. c \in Credential /\ cred # None /\ c.active = cred.active /\ Sound(c, log.wrong + 1)
      BY <1>0, <1>8, <2>4, <3>1 DEF Deny, Writes, Request, WrongPassword
    <3>3. cred' = c
      BY <1>8, <2>4, <3>1 DEF Deny
    <3>4. log' \in Attempts /\ log'.wrong = log.wrong + 1
      BY <1>0a, <1>8, <2>4 DEF Deny, Attempted, Attempts
    <3>5. log.wrong <= log'.wrong /\ log'.wrong \in Nat /\ Sound(c, log'.wrong)
      BY <1>0a, <3>2, <3>4
    <3>6. RowsInv'
      BY <2>1, <3>2, <3>3, <3>5, PublishStep
    <3> QED BY <2>1, <2>2, <2>3, <3>2, <3>3, <3>4, <3>6 DEF TypeOK
  <2>5. CASE ~(FailureCommits /\ WrongPassword(req[r]))
    <3>1. cred' = cred
      BY <1>8, <2>5 DEF Deny
    <3>2. log' \in Attempts /\ log'.wrong = log.wrong
      BY <1>0a, <1>8, <2>5 DEF Deny, Attempted, Attempts
    <3>3. \A s \in Requests : req'[s] = IF s = r THEN Idle ELSE req[s]
      BY <2>1 DEF TypeOK
    <3>4. RowsInv'
      BY <1>0, <3>1, <3>2, <3>3, IdleIsQuiet DEF RowsInv, Remembers, Writes
    <3> QED BY <2>1, <2>2, <2>3, <3>1, <3>2, <3>4 DEF TypeOK
  <2> QED BY <2>4, <2>5
<1>9. ASSUME NEW r \in Requests, Abort(r) PROVE (TypeOK /\ RowsInv)'
  BY <1>3, <1>9 DEF Abort, Ended
<1>10. ASSUME Register PROVE (TypeOK /\ RowsInv)'
  <2>1. NewCredential \in Credential /\ Sound(NewCredential, log.wrong)
    BY <1>0a DEF NewCredential, Credential, Sound
  <2>2. \A r \in Requests : req[r].snap = None /\ req[r].image = None
    BY <1>0, <1>10 DEF Register, Remembers, Writes
  <2>3. cred' = NewCredential /\ UNCHANGED <<status, log, sessions, logins, streak, begun, req, clock>>
    BY <1>10 DEF Register
  <2>4. RowsInv'
    BY <1>0, <2>1, <2>2, <2>3 DEF RowsInv, Remembers, Writes
  <2> QED BY <2>1, <2>3, <2>4 DEF TypeOK
<1>11. ASSUME SyncActive PROVE (TypeOK /\ RowsInv)'
  <2>0. PICK b \in BOOLEAN : cred' = [cred EXCEPT !.active = b]
    BY <1>11 DEF SyncActive
  <2>1. PICK c : c = [cred EXCEPT !.active = b]
    OBVIOUS
  <2>2. cred \in Credential /\ cred # None /\ Sound(cred, log.wrong)
    BY <1>11 DEF SyncActive, TypeOK, RowsInv
  <2>3. c \in Credential
    BY <2>1, <2>2 DEF Credential
  <2>4. Sound(c, log.wrong) /\ c # None
    BY <2>1, <2>2, <2>3, CredentialAssumption DEF Credential, Sound
  <2>5. cred' = c /\ UNCHANGED <<status, log, sessions, logins, streak, begun, req, clock>>
    BY <1>11, <2>0, <2>1 DEF SyncActive
  <2>6. \A r \in Requests : req[r].image = None
    BY <1>11 DEF SyncActive, RowFree
  <2>7. RowsInv'
    BY <1>0, <2>4, <2>5, <2>6 DEF RowsInv, Remembers, Writes
  <2> QED BY <2>3, <2>5, <2>7 DEF TypeOK
<1>12. ASSUME ChangeStatus \/ Tick \/ UNCHANGED vars PROVE (TypeOK /\ RowsInv)'
  <2>1. UNCHANGED <<cred, log, sessions, logins, streak, begun, req>>
    BY <1>12 DEF ChangeStatus, Tick, vars
  <2>2. RowsInv'
    BY <1>0, <2>1 DEF RowsInv, Remembers, Writes
  <2>3. status' \in {"allowed", "barred"} /\ clock' \in Nat
    BY <1>12 DEF ChangeStatus, Tick, vars, TypeOK
  <2> QED BY <2>1, <2>2, <2>3 DEF TypeOK
<1> QED BY <1>2, <1>4, <1>5, <1>6, <1>7, <1>8, <1>9, <1>10, <1>11, <1>12 DEF Next, Serve

LEMMA InvInit == Init => TypeOK /\ RowsInv
BY IdleIsQuiet DEF Init, TypeOK, RowsInv, Attempts, Remembers, Writes

-----------------------------------------------------------------------------
(* The row's lock.                                                         *)

\* A step of r that commits nothing, and updates only a row that is free.
LEMMA LocalRowStep ==
  ASSUME TypeOK, RowLockInv, NEW r \in Requests, NEW q \in Request,
         req' = [req EXCEPT ![r] = q], cred' = cred, Updates(q),
         q.image \in {None, req[r].image} \/ RowFree
  PROVE  RowLockInv'
<1>1. \A s \in Requests : req'[s] = IF s = r THEN q ELSE req[s]
  BY DEF TypeOK
<1>2. \A s \in Requests : Updates(req[s])'
  BY <1>1 DEF RowLockInv, Updates, IsLocked
<1>3. ASSUME NEW s \in Requests, NEW t \in Requests, s # t
      PROVE  req'[s].image = None \/ req'[t].image = None
  BY <1>1, <1>3 DEF RowLockInv, RowFree
<1> QED
  BY <1>2, <1>3 DEF RowLockInv

\* While r has updated the row no other request has: when r commits none has
\* made anything of the row it replaces.
LEMMA CommitRowStep ==
  ASSUME TypeOK, RowsInv, RowLockInv, NEW r \in Requests, req[r].image # None,
         req' = [req EXCEPT ![r] = Idle]
  PROVE  RowLockInv'
<1>1. \A s \in Requests : req'[s] = IF s = r THEN Idle ELSE req[s]
  BY DEF TypeOK
<1>2. \A s \in Requests : req'[s].image = None
  BY <1>1, IdleIsQuiet DEF RowLockInv
<1>3. ASSUME NEW s \in Requests PROVE Updates(req[s])'
  <2>1. CASE s = r
    BY <1>1, <2>1, IdleIsQuiet DEF Updates
  <2>2. CASE s # r
    <3>1. Updates(req[s]) /\ Writes(req[s]) /\ req'[s] = req[s] /\ req[s].image = None
      BY <1>1, <1>2, <2>2 DEF RowLockInv, RowsInv
    <3> QED
      BY <3>1 DEF Updates, Writes, IsLocked
  <2> QED
    BY <2>1, <2>2
<1> QED
  BY <1>2, <1>3 DEF RowLockInv

\* A success keeps a lock that it had not read, a wrong password any.
LEMMA UpdatesKeepLock ==
  ASSUME NEW c \in Credential, NEW q \in Request, q.snap \in Credential
  PROVE  /\ c.locked /\ ~q.snap.locked => Succeeded(c, q).locked
         /\ c.locked => Failed(c, q).locked
BY FailedCounts DEF Succeeded, Credential

LEMMA RowLockStep ==
  ASSUME TypeOK, RowsInv, RowLockInv, [Next]_vars
  PROVE  RowLockInv'
<1>0. \A r \in Requests :
        /\ req[r] \in Request
        /\ Remembers(req[r]) /\ Writes(req[r]) /\ Updates(req[r])
  BY DEF TypeOK, RowsInv, RowLockInv
<1>1. ASSUME NEW r \in Requests, req' = [req EXCEPT ![r] = Idle], cred' = cred
      PROVE  RowLockInv'
  <2>1. Updates(Idle)
    BY IdleIsQuiet DEF Updates
  <2> QED
    BY <1>1, <2>1, IdleIsQuiet, LocalRowStep
<1>2. ASSUME NEW r \in Requests, NEW q \in Request, req' = [req EXCEPT ![r] = q],
             cred' = cred, q.snap = None, q.image = None, q.pc \notin {"session", "commit"}
      PROVE  RowLockInv'
  <2>1. Updates(q)
    BY <1>2 DEF Updates
  <2> QED
    BY <1>2, <2>1, LocalRowStep
<1>3. ASSUME NEW r \in Requests, Begin(r) PROVE RowLockInv'
  <2>1. PICK right \in BOOLEAN :
          req' = [req EXCEPT ![r] = [Idle EXCEPT !.pc = "resolve", !.right = right]]
    BY <1>3 DEF Begin
  <2>2. PICK q : q = [Idle EXCEPT !.pc = "resolve", !.right = right]
    OBVIOUS
  <2>3. q \in Request /\ q.pc = "resolve" /\ q.snap = None /\ q.image = None
    BY <2>2, IdleIsQuiet DEF Request
  <2> QED
    BY <1>2, <1>3, <2>1, <2>2, <2>3 DEF Begin
<1>4. ASSUME NEW r \in Requests, Resolve(r) \/ NoAnswer(r) \/ CheckStatus(r)
      PROVE  RowLockInv'
  <2>1. cred' = cred /\ req[r].image = None /\ req[r].pc \in {"resolve", "status"}
    BY <1>0, <1>4 DEF Resolve, NoAnswer, CheckStatus, Writes
  <2>2. PICK q :
          /\ req' = [req EXCEPT ![r] = q]
          /\ \/ q = Idle
             \/ q = [req[r] EXCEPT !.pc = "status", !.tries = 0]
             \/ req[r].tries + 1 < MaxTries /\ q = [req[r] EXCEPT !.tries = @ + 1]
             \/ q = [req[r] EXCEPT !.pc = "read", !.at = clock]
    BY <1>4 DEF Resolve, NoAnswer, Retried, CheckStatus
  <2>3. req[r].tries + 1 < MaxTries => req[r].tries + 1 \in 0 .. MaxTries - 1
    BY <1>0, LoginAssumption DEF Request
  <2>4. /\ q \in Request /\ q.image = None /\ q.pc \notin {"denied", "session", "commit"}
        /\ q.snap = None \/ (q.snap = req[r].snap /\ q.snap # None)
    BY <1>0, <2>1, <2>2, <2>3, FirstTry, IdleIsQuiet DEF Request, TypeOK
  <2>5. req[r].snap = None
    BY <1>0, <2>1 DEF Updates
  <2> QED
    BY <1>2, <2>1, <2>2, <2>4, <2>5
<1>5. ASSUME NEW r \in Requests, Read(r) PROVE RowLockInv'
  <2>1. cred' = cred /\ req[r].pc = "read" /\ req[r].image = None
    BY <1>0, <1>5 DEF Read, Writes
  <2>2. CASE Refused(req[r].at)
    <3>1. PICK q : q = [req[r] EXCEPT !.pc = "denied"]
      OBVIOUS
    <3>2. q \in Request /\ q.pc = "denied" /\ q.image = None /\ q.snap = req[r].snap /\ q.at = req[r].at
      BY <1>0, <2>1, <3>1 DEF Request
    <3>3. Updates(q)
      BY <1>0, <3>2 DEF Updates
    <3>4. req' = [req EXCEPT ![r] = q]
      BY <1>5, <2>2, <3>1 DEF Read
    <3> QED
      BY <2>1, <3>2, <3>3, <3>4, LocalRowStep
  <2>3. CASE ~Refused(req[r].at)
    <3>1. PICK q : q = [req[r] EXCEPT !.pc = "verify", !.snap = cred]
      OBVIOUS
    <3>2. q \in Request /\ q.pc = "verify" /\ q.image = None /\ q.snap = cred /\ q.at = req[r].at
      BY <1>0, <2>1, <3>1 DEF Request, TypeOK
    <3>3. Updates(q)
      BY <2>3, <3>2 DEF Updates, Refused
    <3>4. req' = [req EXCEPT ![r] = q]
      BY <1>5, <2>3, <3>1 DEF Read
    <3> QED
      BY <2>1, <3>2, <3>3, <3>4, LocalRowStep
  <2> QED
    BY <2>2, <2>3
<1>6. ASSUME NEW r \in Requests, RecordFailure(r) \/ RecordSuccess(r) PROVE RowLockInv'
  <2>1. /\ req[r].snap # None /\ req[r].snap \in Credential /\ cred \in Credential
        /\ RowFree /\ cred' = cred
    BY <1>0, <1>6 DEF RecordFailure, RecordSuccess, Remembers, Request, TypeOK
  <2>2. PICK c \in Credential, pc \in {"denied", "session"} :
          /\ req' = [req EXCEPT ![r] = [@ EXCEPT !.pc = pc, !.image = c]]
          /\ pc = "denied" => (cred.locked => c.locked)
          /\ pc = "session" => (cred.locked /\ ~req[r].snap.locked => c.locked)
    <3>1. Failed(cred, req[r]) \in Credential /\ Succeeded(cred, req[r]) \in Credential
      BY <1>0, <2>1, FailedCounts DEF Succeeded, Credential
    <3> QED
      BY <1>0, <1>6, <2>1, <3>1, UpdatesKeepLock DEF RecordFailure, RecordSuccess
  <2>3. PICK q : q = [req[r] EXCEPT !.pc = pc, !.image = c]
    OBVIOUS
  <2>4. /\ q \in Request /\ q.pc = pc /\ q.image = c
        /\ q.snap = req[r].snap /\ q.at = req[r].at
    BY <1>0, <2>2, <2>3 DEF Request
  <2>5. Updates(q)
    BY <1>0, <2>1, <2>2, <2>4 DEF Updates
  <2> QED
    BY <2>1, <2>2, <2>3, <2>4, <2>5, LocalRowStep
<1>7. ASSUME NEW r \in Requests, CreateSession(r) PROVE RowLockInv'
  <2>1. CASE req' = [req EXCEPT ![r] = Idle]
    BY <1>1, <1>7, <2>1 DEF CreateSession
  <2>2. CASE req' = [req EXCEPT ![r].pc = "commit"]
    <3>1. PICK q : q = [req[r] EXCEPT !.pc = "commit"]
      OBVIOUS
    <3>2. /\ q \in Request /\ q.pc = "commit" /\ q.image = req[r].image
          /\ q.snap = req[r].snap /\ q.at = req[r].at
      BY <1>0, <3>1 DEF Request
    <3>3. Updates(q)
      BY <1>0, <1>7, <3>2 DEF CreateSession, Updates
    <3>4. req' = [req EXCEPT ![r] = q] /\ cred' = cred
      BY <1>7, <2>2, <3>1 DEF CreateSession
    <3> QED
      BY <3>2, <3>3, <3>4, LocalRowStep
  <2> QED
    BY <1>7, <2>1, <2>2 DEF CreateSession, Ended
<1>8. ASSUME NEW r \in Requests, Commit(r) PROVE RowLockInv'
  BY <1>0, <1>8, CommitRowStep DEF Commit, Ended, Writes
<1>9. ASSUME NEW r \in Requests, Deny(r) PROVE RowLockInv'
  <2>1. CASE WrongPassword(req[r])
    BY <1>9, <2>1, CommitRowStep DEF Deny, Ended, WrongPassword
  <2>2. CASE ~WrongPassword(req[r])
    BY <1>1, <1>9, <2>2 DEF Deny, Ended
  <2> QED
    BY <2>1, <2>2
<1>10. ASSUME NEW r \in Requests, Abort(r) PROVE RowLockInv'
  BY <1>1, <1>10 DEF Abort, Ended
<1>11. CASE Register
  <2>1. \A r \in Requests : req[r].snap = None /\ req[r].image = None
    BY <1>0, <1>11 DEF Register, Remembers, Writes
  <2>2. req' = req
    BY <1>11 DEF Register
  <2> QED
    BY <1>0, <2>1, <2>2 DEF RowLockInv, Updates
<1>12. CASE SyncActive
  <2>1. \A r \in Requests : req[r].image = None
    BY <1>12 DEF SyncActive, RowFree
  <2>2. req' = req
    BY <1>12 DEF SyncActive
  <2> QED
    BY <1>0, <2>1, <2>2 DEF RowLockInv, Updates, Writes, IsLocked
<1>13. CASE UNCHANGED <<cred, req>>
  BY <1>13 DEF RowLockInv, Updates, IsLocked
<1> QED
  BY <1>3, <1>4, <1>5, <1>6, <1>7, <1>8, <1>9, <1>10, <1>11, <1>12, <1>13
     DEF Next, Serve, ChangeStatus, Tick, vars

LEMMA RowLockInit == Init => RowLockInv
BY IdleIsQuiet DEF Init, RowLockInv, Updates

-----------------------------------------------------------------------------
(* The lockout.                                                            *)

\* A step of r that commits nothing and does not lengthen the streak.
LEMMA LocalLockoutStep ==
  ASSUME TypeOK, RowsInv, LockoutInv, NEW r \in Requests, NEW q \in Request,
         req' = [req EXCEPT ![r] = q], cred' = cred, streak' \in {streak, 0},
         Counts(q), Remembers(q)
  PROVE  LockoutInv'
<1>1. \A s \in Requests : req'[s] = IF s = r THEN q ELSE req[s]
  BY DEF TypeOK
<1>2. streak \in Nat /\ streak' \in Nat /\ streak' <= streak
  BY DEF TypeOK
<1>3. cred # None => cred \in Credential /\ cred.failed \in Nat
  BY DEF TypeOK, Credential
<1>4. ASSUME NEW s \in Requests PROVE Counts(req[s])'
  <2>1. PICK o \in Request : o = req'[s]
    BY <1>1 DEF TypeOK
  <2>2. Counts(o)
    BY <1>1, <2>1 DEF LockoutInv
  <2>3. /\ o.snap # None => o.snap.failed \in Nat
        /\ o.image # None => o.image.failed \in Nat
    BY DEF Request, Credential
  <2>4. o.pc = "verify" => o.snap # None
    BY <1>1, <2>1 DEF RowsInv, Remembers
  <2> QED
    BY <1>2, <2>1, <2>2, <2>3, <2>4 DEF Counts
<1>5. LockoutEngages'
  BY <1>2, LoginAssumption DEF LockoutInv, LockoutEngages
<1> QED
  BY <1>2, <1>3, <1>4, <1>5 DEF LockoutInv

\* A wrong password that ends a login alone lengthens the streak, and the count
\* it commits with it; any other commit starts a new one.
LEMMA AnswerLockoutStep ==
  ASSUME TypeOK, RowsInv, LockoutInv, NEW r \in Requests, FailureCommits,
         Commit(r) \/ (Deny(r) /\ WrongPassword(req[r]))
  PROVE  LockoutInv'
<1>1. \A s \in Requests : req'[s] = IF s = r THEN Idle ELSE req[s]
  BY DEF TypeOK, Commit, Deny, Ended
<1>2. PICK c : c = req[r].image
  OBVIOUS
<1>3. c \in Credential /\ c # None /\ c.failed \in Nat /\ cred' = c
  <2>1. req[r] \in Request /\ c # None
    BY <1>2 DEF TypeOK, RowsInv, Writes, Commit, WrongPassword
  <2> QED
    BY <1>2, <2>1 DEF Commit, Deny, Request, Credential
<1>4. streak \in Nat /\ MaxFailures \in Nat \ {0}
  BY LoginAssumption DEF TypeOK
<1>5. CASE streak' = 0
  <2>1. ASSUME NEW s \in Requests PROVE Counts(req[s])'
    <3>1. CASE s = r
      BY <1>1, <3>1, IdleIsQuiet DEF Counts
    <3>2. CASE s # r
      <4>1. PICK o \in Request : o = req[s]
        BY DEF TypeOK
      <4>2. Counts(o) /\ req'[s] = o
        BY <1>1, <3>2, <4>1 DEF LockoutInv
      <4>3. /\ o.pc = "verify" => o.snap # None /\ o.snap.failed \in Nat
            /\ o.image # None => o.image.failed \in Nat
        BY <4>1 DEF RowsInv, Remembers, Request, Credential
      <4> QED
        BY <1>3, <1>4, <1>5, <4>2, <4>3 DEF Counts
    <3> QED
      BY <3>1, <3>2
  <2> QED
    BY <1>3, <1>4, <1>5, <2>1 DEF LockoutInv, LockoutEngages
<1>6. CASE streak' # 0
  <2>1. Deny(r) /\ Alone(r) /\ streak' = streak + 1 /\ req[r].pc = "denied"
    BY <1>6 DEF Commit, Deny
  <2>2. Counts(req[r])
    BY DEF LockoutInv
  <2>3. streak + 1 <= c.failed \/ c.locked
    BY <1>2, <1>3, <2>1, <2>2 DEF Counts
  <2>4. c.failed >= MaxFailures => c.locked
    BY <1>2, <1>3, <2>1, <2>2 DEF Counts
  <2>5. ASSUME NEW s \in Requests PROVE Counts(req[s])'
    <3>1. req'[s].pc = "idle"
      BY <1>1, <2>1, IdleIsQuiet DEF Alone
    <3> QED
      BY <3>1 DEF Counts
  <2>6. LockoutEngages'
    BY <1>3, <1>4, <2>1, <2>3, <2>4 DEF LockoutEngages
  <2> QED
    BY <1>3, <2>1, <2>3, <2>5, <2>6 DEF LockoutInv
<1> QED
  BY <1>5, <1>6

LEMMA LockoutStep ==
  ASSUME TypeOK, RowsInv, LockoutInv, FailureCommits, [Next]_vars
  PROVE  LockoutInv'
<1>0. \A r \in Requests : req[r] \in Request /\ Remembers(req[r]) /\ Counts(req[r])
  BY DEF TypeOK, RowsInv, LockoutInv
<1>1. Counts(Idle) /\ Remembers(Idle)
  BY IdleIsQuiet DEF Counts, Remembers
<1>2. ASSUME NEW r \in Requests, req' = [req EXCEPT ![r] = Idle], cred' = cred,
             streak' = streak
      PROVE  LockoutInv'
  BY <1>1, <1>2, IdleIsQuiet, LocalLockoutStep
<1>3. ASSUME NEW r \in Requests, Begin(r) PROVE LockoutInv'
  <2>1. PICK right \in BOOLEAN :
          req' = [req EXCEPT ![r] = [Idle EXCEPT !.pc = "resolve", !.right = right]]
    BY <1>3 DEF Begin
  <2>2. PICK q : q = [Idle EXCEPT !.pc = "resolve", !.right = right]
    OBVIOUS
  <2>3. q \in Request /\ q.pc = "resolve" /\ q.snap = None
    BY <2>2, IdleIsQuiet DEF Request
  <2>4. Counts(q) /\ Remembers(q)
    BY <2>3 DEF Counts, Remembers
  <2>5. cred' = cred /\ streak' \in {streak, 0}
    BY <1>3 DEF Begin
  <2> QED
    BY <2>1, <2>2, <2>3, <2>4, <2>5, LocalLockoutStep
<1>4. ASSUME NEW r \in Requests, NEW q \in Request, req' = [req EXCEPT ![r] = q],
             cred' = cred, streak' = streak, q.snap = req[r].snap,
             q.pc \notin {"verify", "denied"}
      PROVE  LockoutInv'
  <2>1. Counts(q) /\ Remembers(q)
    BY <1>0, <1>4 DEF Counts, Remembers
  <2> QED
    BY <1>4, <2>1, LocalLockoutStep
<1>5. ASSUME NEW r \in Requests, Resolve(r) PROVE LockoutInv'
  <2>1. CASE req' = [req EXCEPT ![r] = Idle]
    BY <1>2, <1>5, <2>1 DEF Resolve
  <2>2. CASE req' # [req EXCEPT ![r] = Idle]
    <3>1. PICK q : q = [req[r] EXCEPT !.pc = "status", !.tries = 0]
      OBVIOUS
    <3>2. q \in Request /\ q.pc = "status" /\ q.snap = req[r].snap
      BY <1>0, <3>1, FirstTry DEF Request
    <3>3. req' = [req EXCEPT ![r] = q]
      BY <1>5, <2>2, <3>1 DEF Resolve
    <3> QED
      BY <1>4, <1>5, <3>2, <3>3 DEF Resolve
  <2> QED
    BY <2>1, <2>2
<1>6. ASSUME NEW r \in Requests, NoAnswer(r) PROVE LockoutInv'
  <2>1. CASE req[r].tries + 1 < MaxTries
    <3>1. PICK q : q = [req[r] EXCEPT !.tries = req[r].tries + 1]
      OBVIOUS
    <3>2. req[r].tries + 1 \in 0 .. MaxTries - 1
      BY <1>0, <2>1, LoginAssumption DEF Request
    <3>3. q \in Request /\ q.pc = req[r].pc /\ q.snap = req[r].snap
      BY <1>0, <3>1, <3>2 DEF Request
    <3>4. req' = [req EXCEPT ![r] = q]
      BY <1>6, <2>1, <3>1 DEF NoAnswer, Retried
    <3> QED
      BY <1>4, <1>6, <3>3, <3>4 DEF NoAnswer
  <2>2. CASE ~(req[r].tries + 1 < MaxTries)
    BY <1>2, <1>6, <2>2 DEF NoAnswer, Retried
  <2> QED
    BY <2>1, <2>2
<1>7. ASSUME NEW r \in Requests, CheckStatus(r) PROVE LockoutInv'
  <2>1. CASE MayLogIn
    <3>1. PICK q : q = [req[r] EXCEPT !.pc = "read", !.at = clock]
      OBVIOUS
    <3>2. q \in Request /\ q.pc = "read" /\ q.snap = req[r].snap
      BY <1>0, <3>1 DEF Request, TypeOK
    <3>3. req' = [req EXCEPT ![r] = q]
      BY <1>7, <2>1, <3>1 DEF CheckStatus, MayLogIn
    <3> QED
      BY <1>4, <1>7, <3>2, <3>3 DEF CheckStatus, MayLogIn
  <2>2. CASE ~MayLogIn
    BY <1>2, <1>7, <2>2 DEF CheckStatus, MayLogIn
  <2> QED
    BY <2>1, <2>2
<1>8. ASSUME NEW r \in Requests, Read(r) PROVE LockoutInv'
  <2>0. cred' = cred /\ streak' = streak /\ req[r].pc = "read" /\ Writes(req[r])
    BY <1>8 DEF Read, RowsInv
  <2>1. CASE Refused(req[r].at)
    <3>1. PICK q : q = [req[r] EXCEPT !.pc = "denied"]
      OBVIOUS
    <3>2. q \in Request /\ q.pc = "denied" /\ q.snap = req[r].snap /\ q.image = None
      BY <1>0, <2>0, <3>1 DEF Request, Writes
    <3>3. Counts(q) /\ Remembers(q)
      BY <1>0, <3>2 DEF Counts, Remembers
    <3>4. req' = [req EXCEPT ![r] = q]
      BY <1>8, <2>1, <3>1 DEF Read
    <3> QED
      BY <2>0, <3>2, <3>3, <3>4, LocalLockoutStep
  <2>2. CASE ~Refused(req[r].at)
    <3>1. PICK q : q = [req[r] EXCEPT !.pc = "verify", !.snap = cred]
      OBVIOUS
    <3>2. q \in Request /\ q.pc = "verify" /\ q.snap = cred /\ cred # None
      BY <1>0, <2>2, <3>1 DEF Request, TypeOK, Refused
    <3>3. Counts(q) /\ Remembers(q)
      BY <3>2 DEF Counts, Remembers, LockoutInv, RowsInv
    <3>4. req' = [req EXCEPT ![r] = q]
      BY <1>8, <2>2, <3>1 DEF Read
    <3> QED
      BY <2>0, <3>2, <3>3, <3>4, LocalLockoutStep
  <2> QED
    BY <2>1, <2>2
<1>9. ASSUME NEW r \in Requests, RecordFailure(r) PROVE LockoutInv'
  <2>1. PICK c : c = Failed(cred, req[r])
    OBVIOUS
  <2>2. PICK q : q = [req[r] EXCEPT !.pc = "denied", !.image = c]
    OBVIOUS
  <2>3. /\ cred \in Credential /\ req[r].snap \in Credential /\ req[r].snap # None
        /\ streak <= req[r].snap.failed \/ cred.locked
    BY <1>0, <1>9 DEF RecordFailure, Counts, Remembers, Request, TypeOK
  <2>4. /\ req[r].snap.failed \in Nat /\ req[r].at \in Nat
        /\ req[r].at + LockTime \in Nat
    BY <1>0, <2>3, LoginAssumption DEF Request, Credential
  <2>5. /\ c \in Credential /\ c.failed = req[r].snap.failed + 1
        /\ cred.locked => c.locked
        /\ c.failed >= MaxFailures => c.locked
    BY <1>0, <2>1, <2>3, FailedCounts
  <2>6. q \in Request /\ q.pc = "denied" /\ q.image = c /\ q.snap = req[r].snap
    BY <1>0, <2>2, <2>5 DEF Request
  <2>7. Counts(q) /\ Remembers(q)
    BY <1>0, <2>3, <2>4, <2>5, <2>6 DEF Counts, Remembers, TypeOK
  <2>8. req' = [req EXCEPT ![r] = q] /\ cred' = cred /\ streak' = streak
    BY <1>9, <2>1, <2>2 DEF RecordFailure
  <2> QED
    BY <2>6, <2>7, <2>8, LocalLockoutStep
<1>10. ASSUME NEW r \in Requests, RecordSuccess(r) PROVE LockoutInv'
  <2>1. PICK c : c = Succeeded(cred, req[r])
    OBVIOUS
  <2>2. PICK q : q = [req[r] EXCEPT !.pc = "session", !.image = c]
    OBVIOUS
  <2>3. cred \in Credential
    BY <1>0, <1>10 DEF RecordSuccess, Counts, TypeOK
  <2>4. c \in Credential
    BY <2>1, <2>3 DEF Succeeded, Credential
  <2>5. q \in Request /\ q.pc = "session" /\ q.snap = req[r].snap
    BY <1>0, <2>2, <2>4 DEF Request
  <2>6. req' = [req EXCEPT ![r] = q] /\ cred' = cred /\ streak' = streak
    BY <1>10, <2>1, <2>2 DEF RecordSuccess
  <2> QED
    BY <1>4, <2>5, <2>6
<1>11. ASSUME NEW r \in Requests, CreateSession(r) PROVE LockoutInv'
  <2>1. CASE req' = [req EXCEPT ![r] = Idle]
    BY <1>2, <1>11, <2>1 DEF CreateSession
  <2>2. CASE req' = [req EXCEPT ![r].pc = "commit"]
    <3>1. PICK q : q = [req[r] EXCEPT !.pc = "commit"]
      OBVIOUS
    <3>2. q \in Request /\ q.pc = "commit" /\ q.snap = req[r].snap
      BY <1>0, <3>1 DEF Request
    <3>3. req' = [req EXCEPT ![r] = q]
      BY <2>2, <3>1
    <3> QED
      BY <1>4, <1>11, <3>2, <3>3 DEF CreateSession
  <2> QED
    BY <1>11, <2>1, <2>2 DEF CreateSession, Ended
<1>12. ASSUME NEW r \in Requests, Deny(r), ~WrongPassword(req[r]) PROVE LockoutInv'
  BY <1>2, <1>12 DEF Deny, Ended
<1>13. ASSUME NEW r \in Requests, Abort(r) PROVE LockoutInv'
  BY <1>2, <1>13 DEF Abort, Ended
<1>14. CASE UNCHANGED <<cred, streak, req>>
  BY <1>14 DEF LockoutInv, LockoutEngages, Counts
<1>15. CASE Register
  <2>1. \A r \in Requests : req[r].pc # "verify" /\ req[r].image = None
    BY <1>0, <1>15 DEF Register, Counts, RowsInv, Writes
  <2>2. streak = 0 /\ UNCHANGED <<streak, req>> /\ cred' = NewCredential
    BY <1>15 DEF Register, LockoutInv
  <2>3. NewCredential.failed = 0 /\ NewCredential \in Credential
    BY DEF NewCredential, Credential
  <2> QED
    BY <2>1, <2>2, <2>3, LoginAssumption, CredentialAssumption
       DEF LockoutInv, LockoutEngages, Counts
<1>16. CASE SyncActive
  <2>1. cred \in Credential /\ cred # None
    BY <1>16 DEF SyncActive, TypeOK
  <2>2. /\ cred' # None /\ cred'.failed = cred.failed /\ cred'.locked = cred.locked
        /\ UNCHANGED <<streak, req>>
    <3>1. PICK b \in BOOLEAN : cred' = [cred EXCEPT !.active = b]
      BY <1>16 DEF SyncActive
    <3>2. cred' = [cred EXCEPT !.active = b] /\ UNCHANGED <<streak, req>>
      BY <1>16, <3>1 DEF SyncActive
    <3>3. cred' \in Credential
      BY <2>1, <3>2 DEF Credential
    <3> QED
      BY <2>1, <3>2, <3>3, CredentialAssumption DEF Credential
  <2> QED
    BY <2>1, <2>2 DEF LockoutInv, LockoutEngages, Counts
<1>17. ASSUME NEW r \in Requests, Serve(r) PROVE LockoutInv'
  BY <1>5, <1>6, <1>7, <1>8, <1>9, <1>10, <1>11, <1>12, <1>17, AnswerLockoutStep DEF Serve
<1> QED
  BY <1>3, <1>13, <1>14, <1>15, <1>16, <1>17 DEF Next, ChangeStatus, Tick, vars

LEMMA LockoutInit == Init => LockoutInv
  BY LoginAssumption, IdleIsQuiet DEF Init, LockoutInv, LockoutEngages, Counts

-----------------------------------------------------------------------------
(* Sessions and tokens.                                                    *)

\* Steps that let no further login come to its commit.
LEMMA FewerToCommit ==
  ASSUME SessionsInv, AboutToCommit' \subseteq AboutToCommit,
         logins \in Nat, sessions \in Nat, logins' = logins,
         sessions' \in {sessions, sessions + 1}
  PROVE  SessionsInv'
<1>1. IsFiniteSet(AboutToCommit)
  BY LoginAssumption, FS_Subset DEF AboutToCommit
<1>2. /\ Cardinality(AboutToCommit') <= Cardinality(AboutToCommit)
      /\ Cardinality(AboutToCommit') \in Nat /\ Cardinality(AboutToCommit) \in Nat
  BY <1>1, FS_Subset, FS_CardinalityType
<1> QED
  BY <1>2 DEF SessionsInv

LEMMA SessionsStep ==
  ASSUME TypeOK, SessionsInv, [Next]_vars
  PROVE  SessionsInv'
<1>0. logins \in Nat /\ sessions \in Nat /\ \A r \in Requests : req[r] \in Request
  BY DEF TypeOK
<1>1. IsFiniteSet(AboutToCommit) /\ Cardinality(AboutToCommit) \in Nat
  BY LoginAssumption, FS_Subset, FS_CardinalityType DEF AboutToCommit
<1>2. ASSUME NEW r \in Requests, req' = [req EXCEPT ![r] = Idle], logins' = logins,
             sessions' \in {sessions, sessions + 1}
      PROVE  SessionsInv'
  <2>1. AboutToCommit' \subseteq AboutToCommit
    BY <1>2, IdleIsQuiet DEF AboutToCommit, TypeOK
  <2> QED
    BY <1>0, <1>2, <2>1, FewerToCommit
<1>3. ASSUME NEW r \in Requests, NEW q \in Request, q.pc # "commit",
             req' = [req EXCEPT ![r] = q], logins' = logins, sessions' = sessions
      PROVE  SessionsInv'
  <2>1. AboutToCommit' \subseteq AboutToCommit
    BY <1>3 DEF AboutToCommit, TypeOK
  <2> QED
    BY <1>0, <1>3, <2>1, FewerToCommit
<1>4. ASSUME NEW r \in Requests, CreateSession(r) PROVE SessionsInv'
  <2>1. CASE req' = [req EXCEPT ![r] = Idle]
    BY <1>2, <1>4, <2>1 DEF CreateSession
  <2>2. CASE sessions' = sessions + 1 /\ req' = [req EXCEPT ![r].pc = "commit"]
    <3>1. r \notin AboutToCommit
      BY <1>4 DEF CreateSession, AboutToCommit
    <3>2. AboutToCommit' = AboutToCommit \cup {r}
      <4>1. \A s \in Requests : req'[s].pc = IF s = r THEN "commit" ELSE req[s].pc
        BY <1>0, <2>2 DEF TypeOK, Request
      <4> QED
        BY <4>1 DEF AboutToCommit
    <3>3. Cardinality(AboutToCommit') = Cardinality(AboutToCommit) + 1
      BY <1>1, <3>1, <3>2, FS_AddElement
    <3>4. logins' = logins
      BY <1>4 DEF CreateSession
    <3> QED
      BY <1>0, <1>1, <2>2, <3>3, <3>4 DEF SessionsInv
  <2> QED
    BY <1>4, <2>1, <2>2 DEF CreateSession, Ended
<1>5. ASSUME NEW r \in Requests, Commit(r) PROVE SessionsInv'
  <2>1. r \in AboutToCommit
    BY <1>5 DEF Commit, AboutToCommit
  <2>2. AboutToCommit' = AboutToCommit \ {r}
    BY <1>5, IdleIsQuiet DEF Commit, Ended, AboutToCommit, TypeOK
  <2>3. Cardinality(AboutToCommit') = Cardinality(AboutToCommit) - 1
    BY <1>1, <2>1, <2>2, FS_RemoveElement
  <2>4. logins' = logins + 1 /\ sessions' = sessions
    BY <1>5 DEF Commit
  <2> QED
    BY <1>0, <1>1, <2>3, <2>4 DEF SessionsInv
<1>6. ASSUME NEW r \in Requests, Begin(r) \/ Resolve(r) \/ NoAnswer(r) \/ CheckStatus(r)
                                 \/ Read(r) \/ RecordFailure(r) \/ RecordSuccess(r)
      PROVE  SessionsInv'
  <2>1. AboutToCommit' \subseteq AboutToCommit
    <3> SUFFICES ASSUME NEW s \in Requests, req'[s].pc = "commit" PROVE req[s].pc = "commit"
      BY DEF AboutToCommit
    <3>1. s # r => req'[s] = req[s]
      BY <1>6 DEF Begin, Resolve, NoAnswer, CheckStatus, Read, RecordFailure, RecordSuccess,
                  TypeOK
    <3>2. req'[r].pc # "commit"
      <4>1. CASE Begin(r)
        BY <4>1, IdleIsQuiet DEF Begin, TypeOK, Idle
      <4>2. CASE Resolve(r)
        BY <1>0, <4>2, IdleIsQuiet DEF Resolve, TypeOK, Request
      <4>3. CASE NoAnswer(r)
        BY <1>0, <4>3, IdleIsQuiet DEF NoAnswer, Retried, TypeOK, Request
      <4>4. CASE CheckStatus(r)
        BY <1>0, <4>4, IdleIsQuiet DEF CheckStatus, TypeOK, Request
      <4>5. CASE Read(r)
        BY <1>0, <4>5 DEF Read, TypeOK, Request
      <4>6. CASE RecordFailure(r)
        BY <1>0, <4>6 DEF RecordFailure, TypeOK, Request
      <4>7. CASE RecordSuccess(r)
        BY <1>0, <4>7 DEF RecordSuccess, TypeOK, Request
      <4> QED
        BY <1>6, <4>1, <4>2, <4>3, <4>4, <4>5, <4>6, <4>7
    <3> QED
      BY <3>1, <3>2
  <2>2. logins' = logins /\ sessions' = sessions
    BY <1>6 DEF Begin, Resolve, NoAnswer, CheckStatus, Read, RecordFailure, RecordSuccess
  <2> QED
    BY <1>0, <2>1, <2>2, FewerToCommit
<1>7. ASSUME NEW r \in Requests, Deny(r) \/ Abort(r) PROVE SessionsInv'
  BY <1>2, <1>7 DEF Deny, Abort, Ended
<1>8. CASE UNCHANGED <<sessions, logins, req>>
  BY <1>0, <1>8, FewerToCommit DEF AboutToCommit
<1> QED
  BY <1>4, <1>5, <1>6, <1>7, <1>8
     DEF Next, Serve, Register, ChangeStatus, SyncActive, Tick, vars

LEMMA SessionsInit == Init => SessionsInv
<1>1. ASSUME Init PROVE AboutToCommit = {}
  BY <1>1, IdleIsQuiet DEF Init, AboutToCommit
<1> QED
  BY <1>1, FS_EmptySet DEF Init, SessionsInv

LEMMA Invariant == Spec => [](TypeOK /\ LoginInv)
<1>1. Init => TypeOK /\ LoginInv
  BY InvInit, RowLockInit, LockoutInit, SessionsInit DEF LoginInv
<1>2. TypeOK /\ LoginInv /\ [Next]_vars => TypeOK' /\ LoginInv'
  BY InvStep, RowLockStep, LockoutStep, SessionsStep DEF LoginInv
<1> QED
  BY <1>1, <1>2, PTL DEF Spec

-----------------------------------------------------------------------------
\* Every reachable state is well typed; the failure count and the counts of the
\* audit log stay natural numbers.
THEOREM TypeCorrect == Spec => []TypeOK
<1> QED BY Invariant, PTL

\* Rows, remembered rows and rows about to be committed stay sound, the streak
\* is covered and every token pair has its session, for any number of
\* overlapping logins, in the endpoint and in a committing caller.
THEOREM InductiveInvariant == Spec => []LoginInv
<1> QED BY Invariant, PTL

\* No lock is ever permanent (record_successful_login and lock write their
\* columns independently).
THEOREM LockExpiresCorrect == Spec => []LockExpires
<1>1. LoginInv => LockExpires
  BY DEF LoginInv, RowsInv, LockExpires, Sound
<1> QED BY <1>1, Invariant, PTL

\* The failure count is backed by recorded wrong passwords.
THEOREM CountBackedCorrect == Spec => []CountBacked
<1>1. LoginInv => CountBacked
  BY DEF LoginInv, RowsInv, CountBacked, Sound
<1> QED BY <1>1, Invariant, PTL

\* The lockout engages for every maximum, wherever failures are committed, also
\* after overlaps have left a count lower than the wrong passwords answered.
THEOREM LockoutEngagesCorrect == ASSUME FailureCommits PROVE Spec => []LockoutEngages
<1>1. LoginInv => LockoutEngages
  BY DEF LoginInv, LockoutInv
<1> QED BY <1>1, Invariant, PTL

\* No token pair of a login is committed without a session in 022 (login,
\* SessionService.create_session).
THEOREM SessionBeforeTokensCorrect == Spec => []SessionBeforeTokens
<1>1. TypeOK /\ LoginInv => SessionBeforeTokens
  <2>1. IsFiniteSet(AboutToCommit)
    BY LoginAssumption, FS_Subset DEF AboutToCommit
  <2>2. Cardinality(AboutToCommit) \in Nat
    BY <2>1, FS_CardinalityType
  <2> QED BY <2>2 DEF TypeOK, LoginInv, SessionsInv, SessionBeforeTokens
<1> QED BY <1>1, Invariant, PTL

\* No login changes is_active, whatever it read before the sync wrote.
THEOREM OnlySyncSetsActiveCorrect == Spec => OnlySyncSetsActive
<1> DEFINE Kept == cred # None /\ cred' # None /\ cred'.active # cred.active => SyncActive
<1>1. TypeOK /\ RowsInv /\ [Next]_vars => [Kept]_vars
  <2> SUFFICES ASSUME TypeOK, RowsInv, [Next]_vars PROVE Kept
    OBVIOUS
  <2>1. ASSUME NEW r \in Requests, Commit(r) \/ Deny(r) PROVE Kept
    <3>1. Writes(req[r])
      BY DEF RowsInv
    <3> QED BY <2>1, <3>1 DEF Commit, Deny, Writes, WrongPassword
  <2>2. ASSUME UNCHANGED cred PROVE Kept
    BY <2>2
  <2>3. ASSUME Register PROVE Kept
    BY <2>3 DEF Register
  <2> QED BY <2>1, <2>2, <2>3
     DEF Next, Serve, Begin, Resolve, NoAnswer, CheckStatus, Read, RecordFailure, RecordSuccess,
         CreateSession, Abort, ChangeStatus, Tick, vars
<1>2. LoginInv => RowsInv
  BY DEF LoginInv
<1> QED BY <1>1, <1>2, Invariant, PTL DEF Spec, OnlySyncSetsActive
\* Only a login that read a lock which had run out lifts one that runs, for any
\* lock time and any overlap (record_successful_login writes what changed).
THEOREM RunningLockStandsCorrect == Spec => RunningLockStands
<1> DEFINE Stands ==
      cred # None /\ IsLocked(cred, clock) /\ ~cred'.locked =>
        \E r \in Requests :
          Commit(r) /\ req[r].snap.locked /\ req[r].snap.until <= req[r].at
<1>1. TypeOK /\ LoginInv /\ [Next]_vars => [Stands]_vars
  <2> SUFFICES ASSUME TypeOK, LoginInv, [Next]_vars,
                      cred # None, cred.locked, ~cred'.locked
               PROVE  \E r \in Requests :
                        Commit(r) /\ req[r].snap.locked /\ req[r].snap.until <= req[r].at
    BY DEF IsLocked
  <2>1. ASSUME NEW r \in Requests, Commit(r)
        PROVE  req[r].snap.locked /\ req[r].snap.until <= req[r].at
    <3>1. req[r] \in Request /\ Updates(req[r]) /\ Remembers(req[r])
      BY DEF TypeOK, LoginInv, RowLockInv, RowsInv
    <3>2. req[r].snap # None /\ req[r].snap.locked /\ ~IsLocked(req[r].snap, req[r].at)
      BY <2>1, <3>1 DEF Commit, Updates
    <3>3. req[r].snap.until \in Nat /\ req[r].at \in Nat
      BY <3>1, <3>2 DEF Request, Credential, Remembers, Sound
    <3> QED
      BY <3>2, <3>3 DEF IsLocked
  <2>2. ASSUME NEW r \in Requests PROVE ~Deny(r)
    <3>1. Updates(req[r])
      BY DEF LoginInv, RowLockInv
    <3> QED
      BY <3>1 DEF Deny, Updates, WrongPassword
  <2>3. ~SyncActive
    <3>1. ASSUME NEW b, cred' = [cred EXCEPT !.active = b] PROVE FALSE
      BY <3>1 DEF TypeOK, Credential
    <3> QED
      BY <3>1 DEF SyncActive
  <2>4. cred' # cred
    OBVIOUS
  <2> QED
    BY <2>1, <2>2, <2>3, <2>4
       DEF Next, Serve, Begin, Resolve, NoAnswer, CheckStatus, Read, RecordFailure, RecordSuccess,
           CreateSession, Abort, Register, ChangeStatus, Tick, vars
<1> QED
  BY <1>1, Invariant, PTL DEF Spec, RunningLockStands
-----------------------------------------------------------------------------
(* The deployed endpoint.                                                  *)

\* Rolled back with every refusal: the count, the lock and the attempt itself.
NeverLocks ==
  /\ cred # None => cred.failed = 0 /\ ~cred.locked
  /\ log.wrong = 0 /\ log.refused = 0

NothingToCommit ==
  \A r \in Requests : req[r].pc \in {"session", "commit"} => ~req[r].image.locked

LEMMA DeployedStep ==
  ASSUME TypeOK, RowsInv, NeverLocks, NothingToCommit, ~FailureCommits, [Next]_vars
  PROVE  NeverLocks' /\ NothingToCommit'
<1>0. \A r \in Requests : req[r] \in Request /\ Remembers(req[r]) /\ Writes(req[r])
  BY DEF TypeOK, RowsInv
<1>0a. log.wrong \in Nat /\ log \in Attempts
  BY DEF TypeOK, Attempts
<1>1. ASSUME NEW r \in Requests, NEW q, req' = [req EXCEPT ![r] = q],
             cred' = cred, log' = log,
             q.pc \in {"session", "commit"} => ~q.image.locked
      PROVE  NeverLocks' /\ NothingToCommit'
  <2>1. \A s \in Requests : req'[s] = IF s = r THEN q ELSE req[s]
    BY <1>1 DEF TypeOK
  <2> QED
    BY <1>1, <2>1 DEF NeverLocks, NothingToCommit
<1>2. ASSUME NEW r \in Requests, RecordSuccess(r) PROVE NeverLocks' /\ NothingToCommit'
  <2>1. cred \in Credential /\ ~cred.locked
    BY <1>0, <1>2 DEF RecordSuccess, Remembers, NeverLocks, TypeOK
  <2>2. ~Succeeded(cred, req[r]).locked
    BY <2>1 DEF Succeeded, Credential
  <2>3. PICK q : q = [req[r] EXCEPT !.pc = "session", !.image = Succeeded(cred, req[r])]
    OBVIOUS
  <2>4. q.image = Succeeded(cred, req[r])
    BY <1>0, <2>3 DEF Request
  <2> QED
    BY <1>1, <1>2, <2>2, <2>3, <2>4 DEF RecordSuccess
<1>3. ASSUME NEW r \in Requests, RecordFailure(r) PROVE NeverLocks' /\ NothingToCommit'
  <2>1. PICK q : q = [req[r] EXCEPT !.pc = "denied", !.image = Failed(cred, req[r])]
    OBVIOUS
  <2>2. q.pc = "denied"
    BY <1>0, <2>1 DEF Request
  <2> QED
    BY <1>1, <1>3, <2>1, <2>2 DEF RecordFailure
<1>4. ASSUME NEW r \in Requests, CreateSession(r) PROVE NeverLocks' /\ NothingToCommit'
  <2>1. CASE req' = [req EXCEPT ![r] = Idle]
    BY <1>1, <1>4, <2>1, IdleIsQuiet DEF CreateSession
  <2>2. CASE req' = [req EXCEPT ![r].pc = "commit"]
    <3>1. PICK q : q = [req[r] EXCEPT !.pc = "commit"]
      OBVIOUS
    <3>2. q.image = req[r].image /\ ~req[r].image.locked
      BY <1>0, <1>4, <3>1 DEF CreateSession, Request, NothingToCommit
    <3>3. req' = [req EXCEPT ![r] = q] /\ cred' = cred /\ log' = log
      BY <1>4, <2>2, <3>1 DEF CreateSession
    <3> QED
      BY <1>1, <3>2, <3>3
  <2> QED
    BY <1>4, <2>1, <2>2 DEF CreateSession, Ended
<1>5. ASSUME NEW r \in Requests, Commit(r) PROVE NeverLocks' /\ NothingToCommit'
  <2>1. req[r].image \in Credential /\ req[r].image.failed <= log.wrong /\ ~req[r].image.locked
    BY <1>0, <1>5 DEF Commit, Writes, Sound, NothingToCommit, Request
  <2>2. req[r].image.failed = 0
    BY <2>1 DEF NeverLocks, Credential
  <2>3. log'.wrong = 0 /\ log'.refused = 0
    BY <1>0a, <1>5 DEF Commit, NeverLocks, Attempts
  <2>4. \A s \in Requests : req'[s] = IF s = r THEN Idle ELSE req[s]
    BY <1>5 DEF Commit, Ended, TypeOK
  <2> QED
    BY <1>5, <2>1, <2>2, <2>3, <2>4, IdleIsQuiet DEF Commit, NeverLocks, NothingToCommit
<1>6. ASSUME NEW r \in Requests, Deny(r) \/ Abort(r) PROVE NeverLocks' /\ NothingToCommit'
  <2>1. req' = [req EXCEPT ![r] = Idle] /\ cred' = cred /\ log' = log
    BY <1>6 DEF Deny, Abort, Ended
  <2> QED
    BY <1>1, <2>1, IdleIsQuiet
<1>7. ASSUME NEW r \in Requests,
             Begin(r) \/ Resolve(r) \/ NoAnswer(r) \/ CheckStatus(r) \/ Read(r)
      PROVE  NeverLocks' /\ NothingToCommit'
  <2>1. cred' = cred /\ log' = log
    BY <1>7 DEF Begin, Resolve, NoAnswer, CheckStatus, Read
  <2>2. PICK q : req' = [req EXCEPT ![r] = q] /\ q.pc \notin {"session", "commit"}
    <3>1. CASE Begin(r)
      <4>1. PICK b \in BOOLEAN :
              req' = [req EXCEPT ![r] = [Idle EXCEPT !.pc = "resolve", !.right = b]]
        BY <3>1 DEF Begin
      <4>2. [Idle EXCEPT !.pc = "resolve", !.right = b].pc = "resolve"
        BY DEF Idle
      <4> QED
        BY <4>1, <4>2
    <3>2. CASE req' = [req EXCEPT ![r] = Idle]
      BY <3>2, IdleIsQuiet
    <3>3. CASE Resolve(r)
      <4>1. [req[r] EXCEPT !.pc = "status", !.tries = 0].pc = "status"
        BY <1>0 DEF Request
      <4> QED
        BY <3>2, <3>3, <4>1 DEF Resolve
    <3>4. CASE NoAnswer(r)
      <4>1. [req[r] EXCEPT !.tries = @ + 1].pc = req[r].pc
        BY <1>0 DEF Request
      <4> QED
        BY <3>2, <3>4, <4>1 DEF NoAnswer, Retried
    <3>5. CASE CheckStatus(r)
      <4>1. [req[r] EXCEPT !.pc = "read", !.at = clock].pc = "read"
        BY <1>0 DEF Request
      <4> QED
        BY <3>2, <3>5, <4>1 DEF CheckStatus
    <3>6. CASE Read(r)
      <4>1. /\ [req[r] EXCEPT !.pc = "denied"].pc = "denied"
            /\ [req[r] EXCEPT !.pc = "verify", !.snap = cred].pc = "verify"
        BY <1>0 DEF Request
      <4> QED
        BY <3>6, <4>1 DEF Read
    <3> QED
      BY <1>7, <3>1, <3>3, <3>4, <3>5, <3>6
  <2> QED
    BY <1>1, <2>1, <2>2
<1>8. CASE Register
  BY <1>8 DEF Register, NewCredential, NeverLocks, NothingToCommit
<1>9. CASE SyncActive
  <2>1. cred # None /\ cred \in Credential /\ req' = req /\ log' = log
    BY <1>9 DEF SyncActive, TypeOK
  <2>2. PICK b \in BOOLEAN : cred' = [cred EXCEPT !.active = b]
    BY <1>9 DEF SyncActive
  <2> QED
    BY <2>1, <2>2 DEF NeverLocks, NothingToCommit, Credential
<1>10. CASE UNCHANGED <<cred, log, req>>
  BY <1>10 DEF NeverLocks, NothingToCommit
<1> QED
  BY <1>2, <1>3, <1>4, <1>5, <1>6, <1>7, <1>8, <1>9, <1>10
     DEF Next, Serve, ChangeStatus, Tick, vars

\* With get_db's rollback on the HTTPException of a refused login, no account is
\* ever locked, no failure counted and none logged, whatever the number of wrong
\* passwords: what the run lockout_rolled_back shows is no accident of its bounds.
THEOREM DeployedNeverLocks == ASSUME ~FailureCommits PROVE Spec => []NeverLocks
<1>1. Init => NeverLocks /\ NothingToCommit
  BY IdleIsQuiet DEF Init, NeverLocks, NothingToCommit
<1>2. LoginInv => RowsInv
  BY DEF LoginInv
<1>3. TypeOK /\ RowsInv /\ NeverLocks /\ NothingToCommit /\ [Next]_vars
        => (NeverLocks /\ NothingToCommit)'
  BY DeployedStep
<1> QED
  BY <1>1, <1>2, <1>3, Invariant, PTL DEF Spec
=============================================================================
