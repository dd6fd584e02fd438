--------------------------------- MODULE Login ---------------------------------
(***************************************************************************)
(* Logging in: LoginService over the User Service (019), then              *)
(* AuthenticationService over one user's auth_credentials row, then the    *)
(* Session Service (022), all inside the transaction of one request.       *)
(*                                                                         *)
(* A request reads the row without locking it, decides on what it read,    *)
(* and writes with an UPDATE that waits for the row's lock and holds it to *)
(* the end of the transaction, the call to 022 included.  SQLAlchemy puts  *)
(* into an UPDATE only the columns whose value differs from what the       *)
(* request read.                                                           *)
(***************************************************************************)
EXTENDS Naturals, FiniteSets

CONSTANTS
  Requests,        \* worker threads, each serving one login at a time
  MaxTries,        \* stop_after_attempt, for each call to 019
  MaxFailures,     \* max_failed_login_attempts
  LockTime,        \* login_lockout_minutes, in clock units
  FailureCommits,  \* FALSE: the deployed endpoint, which answers a refused login
                   \* with an HTTPException; TRUE: a caller of
                   \* AuthenticationService that returns its result
  Synced,          \* TRUE: 019 reaches the credential sync endpoint
  MaxTime,         \* bound on the clock
  MaxLogins,       \* bound on the logins begun
  None             \* Python's None

ASSUME LoginAssumption ==
  /\ IsFiniteSet(Requests)
  /\ MaxTries \in Nat \ {0}
  /\ MaxFailures \in Nat \ {0} /\ LockTime \in Nat \ {0}
  /\ MaxTime \in Nat /\ MaxLogins \in Nat
  /\ None \notin Nat
  /\ FailureCommits \in BOOLEAN /\ Synced \in BOOLEAN

VARIABLES
  cred,      \* the user's committed auth_credentials row, None before registration
  status,    \* the user's status in 019: may log in or not
  log,       \* committed login_attempts: wrong password, refused, successful
  sessions,  \* sessions 022 holds for the user
  logins,    \* token pairs committed by logins
  streak,    \* history: wrong passwords answered one after the other, since the
             \* last success or overlap
  begun,     \* logins begun
  req,       \* what each worker thread is doing
  clock      \* wall-clock time

vars == <<cred, status, log, sessions, logins, streak, begun, req, clock>>

Credential == [active : BOOLEAN, locked : BOOLEAN,
               until : Nat \cup {None}, failed : Nat]

ASSUME CredentialAssumption == None \notin Credential

NewCredential == [active |-> TRUE, locked |-> FALSE, until |-> None, failed |-> 0]

\* "denied" has a refusal to return, "session" is about to call 022.
Request ==
  [pc : {"idle", "resolve", "status", "read", "verify", "denied", "session", "commit"},
   tries : 0 .. MaxTries - 1,        \* attempts of this call that went wrong
   right : BOOLEAN,                  \* whether the password is the right one
   at : Nat,                         \* current_time, read before the SELECT
   snap : Credential \cup {None},    \* the row as it was read
   image : Credential \cup {None}]   \* the row as updated; not None: locked

Idle == [pc |-> "idle", tries |-> 0, right |-> FALSE, at |-> 0, snap |-> None,
         image |-> None]

Attempts == [wrong : Nat, refused : Nat, ok : Nat]

TypeOK ==
  /\ cred \in Credential \cup {None}
  /\ status \in {"allowed", "barred"}
  /\ log \in Attempts
  /\ sessions \in Nat /\ logins \in Nat /\ streak \in Nat /\ begun \in Nat
  /\ req \in [Requests -> Request]
  /\ clock \in Nat

Init ==
  /\ cred = None
  /\ status = "allowed"
  /\ log = [wrong |-> 0, refused |-> 0, ok |-> 0]
  /\ sessions = 0 /\ logins = 0 /\ streak = 0 /\ begun = 0
  /\ req = [r \in Requests |-> Idle]
  /\ clock = 0

-----------------------------------------------------------------------------
(* LoginService: identity and status come from 019.                        *)

Alone(r) == \A s \in Requests \ {r} : req[s].pc = "idle"

Begin(r) ==
  /\ req[r].pc = "idle" /\ begun < MaxLogins
  /\ \E right \in BOOLEAN :
       req' = [req EXCEPT ![r] = [Idle EXCEPT !.pc = "resolve", !.right = right]]
  /\ begun' = begun + 1
  /\ streak' = IF Alone(r) THEN streak ELSE 0
  /\ UNCHANGED <<cred, status, log, sessions, logins, clock>>

\* resolve_identifier.  An identifier 019 does not know, or no longer, is a 401.
Resolve(r) ==
  /\ req[r].pc = "resolve"
  /\ req' \in {[req EXCEPT ![r] = [@ EXCEPT !.pc = "status", !.tries = 0]],
               [req EXCEPT ![r] = Idle]}
  /\ UNCHANGED <<cred, status, log, sessions, logins, streak, begun, clock>>

\* Mutant of Retried: the count of attempts wraps around.
RetriedForever(q) == [q EXCEPT !.tries = (@ + 1) % MaxTries]

\* tenacity: another attempt, or _raise_integration_error after the last.
Retried(q) ==
  IF q.tries + 1 < MaxTries THEN [q EXCEPT !.tries = @ + 1] ELSE Idle

\* A transport error, a 429 or a 5xx.
NoAnswer(r) ==
  /\ req[r].pc \in {"resolve", "status"}
  /\ req' = [req EXCEPT ![r] = Retried(@)]
  /\ UNCHANGED <<cred, status, log, sessions, logins, streak, begun, clock>>

\* ALLOWED_LOGIN_STATUSES.  With any other status login raises.
MayLogIn == status = "allowed"

\* get_user_status, where 019 answers with a status.
CheckStatus(r) ==
  /\ req[r].pc = "status"
  /\ req' = [req EXCEPT ![r] =
       IF MayLogIn THEN [@ EXCEPT !.pc = "read", !.at = clock] ELSE Idle]
  /\ UNCHANGED <<cred, status, log, sessions, logins, streak, begun, clock>>

-----------------------------------------------------------------------------
(* AuthenticationService.                                                  *)

\* is_credential_locked: a lock without an end is permanent.
IsLocked(c, now) == c.locked /\ (c.until = None \/ c.until > now)

Refused(now) == cred = None \/ ~cred.active \/ IsLocked(cred, now)

Read(r) ==
  /\ req[r].pc = "read"
  /\ req' = [req EXCEPT ![r] =
       IF Refused(req[r].at) THEN [@ EXCEPT !.pc = "denied"]
       ELSE [@ EXCEPT !.pc = "verify", !.snap = cred]]
  /\ UNCHANGED <<cred, status, log, sessions, logins, streak, begun, clock>>

RowFree == \A r \in Requests : req[r].image = None

\* Mutant of Failed: the lock is written without its end.
FailedLockedForever(c, q) ==
  [c EXCEPT !.failed = q.snap.failed + 1,
            !.locked = @ \/ q.snap.failed + 1 >= MaxFailures]

\* Mutant of Failed: the lock starts one wrong password too late.
FailedTooLate(c, q) ==
  LET count == q.snap.failed + 1 IN
  [c EXCEPT !.failed = count,
            !.locked = @ \/ count > MaxFailures,
            !.until = IF count > MaxFailures THEN q.at + LockTime ELSE @]

\* Mutant of Failed: a wrong password counts twice.
FailedTwice(c, q) ==
  LET count == q.snap.failed + 2 IN
  [c EXCEPT !.failed = count,
            !.locked = @ \/ count >= MaxFailures,
            !.until = IF count >= MaxFailures THEN q.at + LockTime ELSE @]

\* record_failed_login counts from the row as it was read; lock follows when
\* the new count has reached the maximum.
Failed(c, q) ==
  LET count == q.snap.failed + 1 IN
  [c EXCEPT !.failed = count,
            !.locked = @ \/ count >= MaxFailures,
            !.until = IF count >= MaxFailures THEN q.at + LockTime ELSE @]

RecordFailure(r) ==
  /\ req[r].pc = "verify" /\ ~req[r].right /\ RowFree
  /\ req' = [req EXCEPT ![r] =
       [@ EXCEPT !.pc = "denied", !.image = Failed(cred, req[r])]]
  /\ UNCHANGED <<cred, status, log, sessions, logins, streak, begun, clock>>

\* Mutant of Succeeded: the whole row is written from what was read.
SucceededWholeRow(c, q) ==
  [q.snap EXCEPT !.failed = 0, !.locked = FALSE, !.until = None]

\* Mutant of Succeeded: a success takes one failure back.
SucceededDecay(c, q) ==
  [c EXCEPT !.failed = IF q.snap.failed = 0 THEN @ ELSE @ - 1,
            !.locked = @ /\ ~q.snap.locked,
            !.until = IF q.snap.until = None THEN @ ELSE None]

\* record_successful_login: a column that was read clear is not written.
Succeeded(c, q) ==
  [c EXCEPT !.failed = IF q.snap.failed = 0 THEN @ ELSE 0,
            !.locked = @ /\ ~q.snap.locked,
            !.until = IF q.snap.until = None THEN @ ELSE None]

RecordSuccess(r) ==
  /\ req[r].pc = "verify" /\ req[r].right /\ RowFree
  /\ req' = [req EXCEPT ![r] =
       [@ EXCEPT !.pc = "session", !.image = Succeeded(cred, req[r])]]
  /\ UNCHANGED <<cred, status, log, sessions, logins, streak, begun, clock>>

-----------------------------------------------------------------------------
(* The endpoint and its transaction.                                       *)

\* Mutant of Ended: the connection goes back to the pool with its transaction.
EndedOpen(q) == [Idle EXCEPT !.image = q.image]

\* The session is closed: what is not committed is rolled back, the row is free.
Ended(q) == Idle

\* Mutant of CreateSession: a session that was not created fails no login.
CreateSessionBestEffort(r) ==
  /\ req[r].pc = "session"
  /\ sessions' \in {sessions, sessions + 1}
  /\ req' = [req EXCEPT ![r].pc = "commit"]
  /\ UNCHANGED <<cred, status, log, logins, streak, begun, clock>>

\* issue_tokens adds its row to the transaction, then 022 is asked once: the
\* session is made and acknowledged, made but the answer lost, or not made.
\* Without an acknowledgement a 503 rolls the login back.
CreateSession(r) ==
  /\ req[r].pc = "session"
  /\ \/ /\ sessions' = sessions + 1
        /\ req' = [req EXCEPT ![r].pc = "commit"]
     \/ /\ sessions' \in {sessions, sessions + 1}
        /\ req' = [req EXCEPT ![r] = Ended(@)]
  /\ UNCHANGED <<cred, status, log, logins, streak, begun, clock>>

Commit(r) ==
  /\ req[r].pc = "commit"
  /\ cred' = req[r].image
  /\ log' = [log EXCEPT !.ok = @ + 1]
  /\ logins' = logins + 1
  /\ streak' = 0
  /\ req' = [req EXCEPT ![r] = Ended(@)]
  /\ UNCHANGED <<status, sessions, begun, clock>>

WrongPassword(q) == q.image # None

Attempted(q) ==
  IF WrongPassword(q) THEN [log EXCEPT !.wrong = @ + 1]
  ELSE [log EXCEPT !.refused = @ + 1]

\* LoginService raises InvalidCredentialsError and the endpoint an
\* HTTPException, on which get_db rolls back.
Deny(r) ==
  /\ req[r].pc = "denied"
  /\ cred' = IF FailureCommits /\ WrongPassword(req[r]) THEN req[r].image ELSE cred
  /\ log' = IF FailureCommits THEN Attempted(req[r]) ELSE log
  /\ streak' = IF ~WrongPassword(req[r]) THEN streak
               ELSE IF Alone(r) THEN streak + 1 ELSE 0
  /\ req' = [req EXCEPT ![r] = Ended(@)]
  /\ UNCHANGED <<status, sessions, logins, begun, clock>>

\* A reply of 019 that is no status, a lost connection, a failing commit or a
\* crash.
Abort(r) ==
  /\ req[r].pc # "idle"
  /\ req' = [req EXCEPT ![r] = Ended(@)]
  /\ UNCHANGED <<cred, status, log, sessions, logins, streak, begun, clock>>

-----------------------------------------------------------------------------
(* The user's surroundings.                                                *)

Register ==
  /\ cred = None
  /\ cred' = NewCredential
  /\ UNCHANGED <<status, log, sessions, logins, streak, begun, req, clock>>

ChangeStatus ==
  /\ status' = IF status = "allowed" THEN "barred" ELSE "allowed"
  /\ UNCHANGED <<cred, log, sessions, logins, streak, begun, req, clock>>

\* CredentialSyncService: an UPDATE of is_active to what some status maps to; a
\* push may be late or lost (module StatusSync).
SyncActive ==
  /\ Synced /\ cred # None /\ RowFree
  /\ \E active \in BOOLEAN : cred' = [cred EXCEPT !.active = active]
  /\ UNCHANGED <<status, log, sessions, logins, streak, begun, req, clock>>

Tick ==
  /\ clock < MaxTime
  /\ clock' = clock + 1
  /\ UNCHANGED <<cred, status, log, sessions, logins, streak, begun, req>>

Serve(r) ==
  \/ Resolve(r) \/ NoAnswer(r) \/ CheckStatus(r) \/ Read(r)
  \/ RecordFailure(r) \/ RecordSuccess(r) \/ CreateSession(r) \/ Commit(r) \/ Deny(r)

Next ==
  \/ \E r \in Requests : Begin(r) \/ Serve(r) \/ Abort(r)
  \/ Register \/ ChangeStatus \/ SyncActive \/ Tick

Spec == Init /\ [][Next]_vars

\* A worker thread keeps running and its HTTP calls time out; PostgreSQL
\* queues the waiters of a row lock.
FairSpec ==
  /\ Spec
  /\ \A r \in Requests :
       WF_vars(Serve(r)) /\ SF_vars(RecordFailure(r) \/ RecordSuccess(r))

-----------------------------------------------------------------------------
(* Properties.                                                             *)

\* No overlap of failures and successes, each writing its own columns of the
\* row, leaves a lock without an end (which is_credential_locked takes to be
\* permanent) or an end without a lock.
LockExpires == cred # None => (cred.locked <=> cred.until # None)

\* The failure count never exceeds the wrong passwords that were recorded,
\* whatever stale count a request started from (record_failed_login).
CountBacked == cred # None => cred.failed <= log.wrong

\* A login never undoes or anticipates a deactivation: only the credential
\* sync changes is_active, although a login writes a row it read before it.
OnlySyncSetsActive ==
  [][cred # None /\ cred' # None /\ cred'.active # cred.active => SyncActive]_vars

\* A user holds no token pair from a login without a session in 022 (login
\* calls create_session before its tokens are committed).
SessionBeforeTokens == logins <= sessions

\* A client who has been answered MaxFailures wrong passwords in a row, by
\* logins that overlap no other, faces a locked account, whatever overlapped
\* before (AuthenticationService._handle_failed_password).
LockoutEngages == streak >= MaxFailures => cred.locked

\* A lock that still runs is lifted only by a login that had read an earlier one,
\* and read it run out: a success that read no lock leaves the lock that was set
\* while it verified the password (record_successful_login, lock).
RunningLockStands ==
  [][cred # None /\ IsLocked(cred, clock) /\ ~cred'.locked =>
       \E r \in Requests :
         Commit(r) /\ req[r].snap.locked /\ req[r].snap.until <= req[r].at]_vars

\* Every login ends, though it holds the row's lock across the call to 022.
LoginsEnd == \A r \in Requests : req[r].pc # "idle" ~> req[r].pc = "idle"

-----------------------------------------------------------------------------
(* The inductive invariant behind the safety properties.                   *)

\* What holds of the row, of what is remembered of it and of what is about to
\* replace it: the lock has an end, and the count is backed by wrong passwords.
Sound(c, wrong) == (c.locked <=> c.until # None) /\ c.failed <= wrong

Remembers(q) ==
  /\ q.pc = "verify" => q.snap # None
  /\ q.snap # None => cred # None /\ Sound(q.snap, log.wrong)

\* An updated row is locked: its is_active cannot change before the commit.
Writes(q) ==
  /\ q.pc \in {"session", "commit"} => q.image # None
  /\ q.image # None =>
       /\ q.pc \in {"denied", "session", "commit"}
       /\ cred # None /\ q.image.active = cred.active
       /\ Sound(q.image, IF q.pc = "denied" THEN log.wrong + 1 ELSE log.wrong)

\* Whatever stale rows the others have read, the row and those about to replace
\* it stay sound.
RowsInv ==
  /\ cred # None => Sound(cred, log.wrong)
  /\ \A r \in Requests : Remembers(req[r]) /\ Writes(req[r])

\* The row's lock admits one update at a time, and what it has made of cred stays
\* true of cred; no request goes on from a row that it has read locked.
Updates(q) ==
  /\ q.pc \in {"resolve", "status", "read"} => q.snap = None
  /\ q.snap # None => ~IsLocked(q.snap, q.at)
  /\ q.pc \in {"session", "commit"} =>
       q.snap # None /\ (cred.locked /\ ~q.snap.locked => q.image.locked)
  /\ q.pc = "denied" /\ q.image # None => (cred.locked => q.image.locked)

RowLockInv ==
  /\ \A r \in Requests : Updates(req[r])
  /\ \A r, s \in Requests : r # s => req[r].image = None \/ req[s].image = None

\* A stale count that replaces a newer one is still no smaller than the streak,
\* which an overlap has cut.
Counts(q) ==
  /\ q.pc = "verify" => cred # None /\ (streak <= q.snap.failed \/ cred.locked)
  /\ q.pc = "denied" /\ q.image # None =>
       /\ streak + 1 <= q.image.failed \/ q.image.locked
       /\ q.image.failed >= MaxFailures => q.image.locked

LockoutInv ==
  /\ IF cred = None THEN streak = 0 ELSE streak <= cred.failed \/ cred.locked
  /\ LockoutEngages
  /\ \A r \in Requests : Counts(req[r])

\* A login about to commit has a session of its own.
AboutToCommit == {r \in Requests : req[r].pc = "commit"}

SessionsInv == logins + Cardinality(AboutToCommit) <= sessions

\* What every step of every login preserves (AuthenticationService over
\* CredentialRepository and SessionService).
LoginInv == RowsInv /\ RowLockInv /\ (FailureCommits => LockoutInv) /\ SessionsInv
=============================================================================
