# A verification project for the BuildOS Auth Service

TLA+ models of the authentication service (018), the TLC runs that check them
on small instances, and TLAPS proofs of their main safety properties for
instances of any size.

## 1. The system

### Components, their state and their operations

| Component | State | Operations | Module |
|---|---|---|---|
| Token life cycle: `TokenService`, `TokenRepository`, `LogoutService` | `refresh_tokens` rows, `auth_events` | `issue_tokens`, `refresh`, `revoke`, `revoke_all` | `TokenLifecycle` |
| Request transaction: `get_db` | one SQLAlchemy session per request | commit after the handler, rollback on any exception | part of every module |
| Login: `LoginService`, `AuthenticationService`, the login endpoint | one `auth_credentials` row, `login_attempts` | resolve, check status, authenticate, lock, create session | `Login` |
| Session Service client (022) | sessions, elsewhere | `create_session` | `Login` |
| Registration: `RegistrationService` | `auth_credentials` | `register` | `Registration` |
| User Service client (019) | users and idempotency keys, elsewhere | `create_user`, `resolve_identifier`, `get_user_status`, each retried | `Registration`, `Login` |
| Credential sync: `CredentialSyncService`, internal router | `auth_credentials.is_active` | `sync_status` | `StatusSync`; one step of `Login` |
| Passwords: `PasswordService` | `auth_credentials`, `password_resets`, `refresh_tokens` | `change_password`, `request_reset`, `confirm_reset` | `PasswordLifecycle`; the bulk revocation also in `TokenLifecycle` |
| Audit: `EventRepository`, `LoginAttemptRepository` | append-only rows | `create_*` | counted where a property needs them |
| Access tokens, current user | none | validate, decode | not modelled: stateless |
| Rate limits (slowapi), hashing, health, schemas, stubs | - | - | not modelled |

Components meet in four ways: calls inside one request; rows of one PostgreSQL
database, read and written by overlapping transactions; HTTP calls to 019 and
022, which are in no transaction; and tokens in clients' hands.

### What is hard here

Endpoints are plain `def` functions, so that requests run in parallel in a
thread pool, each in one transaction at READ COMMITTED.  No statement of the
service says `SELECT ... FOR UPDATE`.  So every handler reads rows without
locking them, decides on what it read, and writes with UPDATEs that wait for
row locks and keep them to the end of the transaction; SQLAlchemy writes only
the columns that changed since the read.  The properties ask what survives:

- *tokens*: replacement chains, finality of revocation, what a bulk revocation
  reaches, freedom from deadlock when one flush locks many rows, events that
  agree with rows, expiry read from two clocks;
- *passwords*: a login that read the old password and commits after a change,
  a reset token confirmed twice, rows of three tables locked by one request;
- *statuses*: pushes without a version that overlap, an early return decided on
  a stale read, two tables that must agree on what a status means;
- *credentials*: failure counts and locks written from stale reads, a success
  among failures, an `is_active` written by another handler;
- *services*: a user created in 019 and a crash before the credential, a lost
  or late POST, a session created in 022 whose login is rolled back;
- *transactions*: what is rolled back when a refusal is raised as an
  exception, and what a client holds if the commit follows the response.

## 2. Modules

| Module | What it is |
|---|---|
| `TokenStore` | abstract: a refresh token is live, dead and has a parent; issue, rotate, revoke are atomic |
| `TokenLifecycle` | the token operations as transactions of many workers; implements `TokenStore` |
| `Login` | logins of one user: 019, the credential row, 022, the endpoint's commit or rollback |
| `Account` | abstract: a new password ends, in the same instant, every session there is, however often it was refreshed |
| `PasswordLifecycle` | changes and resets of one user's password, with logins, refreshes, revocations and registrations; implements `Account` |
| `StatusFlag` | abstract: a flag set by calls, each at one instant between arrival and answer |
| `StatusSync` | pushes of a user's status and the logins that read it; implements `StatusFlag` |
| `Enrolment` | abstract: a registration is a call that takes effect in 019 at most once and here at the instant of its answer |
| `Registration` | registrations: 019 with keys, retries and late POSTs, then the local transaction; implements `Enrolment` |
| `MC...` | TLC instances: symmetry sets; constants are in the cfgs |
| `...Proofs` | theorems about the module of that name, checked by `tlapm` |
| `FiniteOrders` | a lemma two of them need: among finitely many natural numbers one is greatest |

### From code to model

**TokenLifecycle.**  `tokens` is the committed table, a function from primary
keys to rows.  `req[r]` is what a worker thread is doing: `pc` names the next
statement, `todo`/`held` the rows the flush has still to update and those it
has updated, hence locked.  `LookupRefresh`, `LookupRevoke` and `Select` are
the SELECTs; `UpdateRow` is one UPDATE of the flush, in primary-key order as
SQLAlchemy's unit of work emits them; `Commit` publishes the inserted row, the
updated columns and the event in one step; `Abort` is `get_db`'s except branch,
a lost connection or a crash.  `AnswerFirst` chooses between the two orders of
commit and response: `pyproject.toml` allows FastAPI 0.116-0.117, which end the
dependency before the response is sent, and later releases, which end it
afterwards.  A refresh JWT and its row are one token; `PyJwtReadings` are
the times at which PyJWT may have compared its expiry, between the service's own
reading of the clock and the SELECT.  `from` and `seen` are
history fields.

**Login.**  `cred` is the user's row.  A request snapshots it in `Read`,
computes the new row in `RecordFailure`/`RecordSuccess` when the row's lock is
free, and holds the lock (`image # None`) until `Commit`, `Deny` or `Abort`.
`Succeeded` writes only what was read set.  `FailureCommits` is FALSE for the
deployed endpoint, where `Deny` rolls back; TRUE is `AuthenticationService` on
its own contract, as its unit tests use it: it returns a result, and its caller
commits.  Only in that mode can its lock logic be examined at all.  `Synced`
switches the credential sync on: its router exists but `main.py` does not mount
it.  `SyncActive` sets the flag to either value, since a push may be late.
`tries` counts the attempts of the current call to 019: `NoAnswer` is one that
is retried or, at the last, ends the login with a 503.  `streak` is a history
variable: the wrong passwords answered one after the other by logins that
overlap no other; an overlap or a success sets it back.

**PasswordLifecycle.**  `password` is the user's committed hash, `issued` and
`used` the rows of `password_resets`, `tokens` the user's PERSONAL refresh
tokens (login and registration mint no others, and a change revokes only
those).  `req[r]` holds what one worker has locked: `cred` the credential's row,
`marked` the reset's row, `held` the tokens it has updated.  `Following` is the
order of the statements of every operation: `auth_credentials`, then
`password_resets`, then `refresh_tokens` by primary key.  `LockCredential` is
the UPDATE of `update_password`, `record_successful_login` or
`record_failed_login`; each changes a column, so each waits.  `Commit` publishes
the password, the mark and the tokens together.  `raced`, `spent` and
`confirmed` are history: a token carries the password its chain of refreshes
began with, and whether the login or any refresh of the chain overlapped a
change or reset.  `Replacing` is that overlap seen from a minting request: a
change that has selected its tokens and has not committed.  The request-reset endpoint drops the token it is given
(`api/v1/password.py:78`), so nothing delivers it today; `confirm_reset` is
modelled for callers who hold one.  Expiry of a reset, a locked account and a
service that is down end a request early and are part of `Abort`.

**StatusSync.**  `active` is `is_active`; a push reads the row, returns at once
when nothing has to change, and otherwise waits for the row.  `Allowed` and
`StatusToActive` are the two tables of the code, in `login_service.py` and
`credential_sync_service.py`; a status that neither knows is among the inputs.
`agreed` is history: what the last answered push wanted, while no push of the
opposite has arrived since or overlapped it.  The commit precedes the answer.
`main.py` does not mount the router: this is the code as it runs once mounted.

**Registration.**  `bound` is 019: the user each idempotency key has created; a
user is named by its identity.  `flight` holds POSTs that timed out here and
may still arrive.  `Post` is an attempt that is answered, `NoAnswer` one that
ends in a transport error, a 429 or a 5xx, `Refuse` one that ends in another
4xx or an unreadable reply.  Of these a 422 is handed on and a 404 becomes a
500, since `register` catches no `UserNotFoundError`; both are the answer
"refused".  `Insert` waits while another transaction holds the
unique index entry; when that one commits, the failed flush deactivates the
session and the request ends as an internal error.  Towards `Enrolment` a call
runs while its request does, and what may still take effect in 019 is what
`flight` holds and what a running request is about to send (`Pends`).

Model fields that stand for data: contexts are one value per membership,
passwords are model values or right/wrong, hashes and payloads are left out.

## 3. Runs

`ConstantsAssumption`, `LoginAssumption`, `CredentialAssumption`,
`RegistrationAssumption`, `PasswordAssumption` and `SyncAssumption` are
evaluated by every run of their module.

| Run | Checks | Bounds and why |
|---|---|---|
| `rotation` | `TypeOK RotationChain AuditComplete KnownStored RevocationIsFinal` | 2 workers, 3 ids: a token, its replacement and a rival; the clock passes one expiry |
| `scopes` | `ReplacedAreDead NoWaitCycle IInv RevokeAllEffective ImplementsStore` | 2 users and 2 contexts, answers before the commit: bulk revocation with and without filter, two flushes over two rows (a cycle needs no more), and the refinement |
| `progress` | `RequestsTerminate` | fair; no symmetry |
| `double_refresh` | `ReplacedOnce`, **violated** | finding 1 |
| `refresh_past_revoke_all` | `RevokeAllComplete`, **violated** | finding 2 |
| `login` | `TypeOK LockExpires CountBacked LoginInv SessionBeforeTokens LockoutEngages OnlySyncSetsActive RunningLockStands LoginsEnd` | fair; 2 overlapping logins, 3 in all, threshold 2, 2 attempts per call of 019, 2 clock ticks, refusals committed, sync on: locks, expiry and relocking with stale reads, a lock set while a success is under way |
| `lockout_rolled_back` | `LockoutEngages`, **violated** | the deployed endpoint, one login at a time; finding 3 |
| `registration` | `TypeOK CredentialHasUser NoSelfConflict RegistrationInv FirstPasswordWins ImplementsEnrolment RegistrationsEnd` | fair; 2 workers, 2 keys, 2 identities, 2 passwords, 2 attempts: replays with another password, another identity and another key, and the refinement |
| `duplicate_registration` | `NoInternalError`, **violated** | finding 4 |
| `passwords` | `TypeOK SessionsAreCurrent NoWaitCycle IInv ReuseOverlaps ImplementsAccount RequestsEnd` | fair; 2 workers, 2 passwords, 1 reset, 2 tokens: a change against a login, a refresh or a replayed registration, two confirmations of one reset, locks over three tables, the refinement |
| `reset_used_twice` | `ResetSingleUse`, **violated** | finding 5 |
| `status_sync` | `TypeOK LastAnswerHolds SyncInv BarredLoginsFail ImplementsFlag RequestsEnd` | fair; 3 workers: two opposed pushes and a login, or a push that overlaps both ends of another; one status that activates, one that does not, one unknown |

Bounds: `TokenIds` bounds the tokens minted; in `TokenLifecycle` `Room` admits a
minting request only while an id is left for it and for every refresh under
way, in `PasswordLifecycle` the id is drawn on entry, so that no request is
stuck for want of one.  `ResetIds` bounds the resets requested, `MaxTime` the
clock, `MaxLogins` the logins begun.  `MaxTries` is a limit of the code; there it
is 3, and the runs use 2, which has a first attempt and a last one: an attempt
in between does what the first does.  `StatusSync` and `Registration` need no
further bound.  Two workers suffice for every race found so far; the safety
properties that are proved hold for any number.

Overlapping failures lose updates of the count (`credential_repository.py:82`),
so that more wrong passwords than the threshold can be answered before the lock.
No text of the repository promises otherwise.  `LockoutEngages` therefore speaks
of the wrong passwords answered in a row without an overlap, after any history
of overlaps, and `CountBacked` of what holds in any case.

`SessionsAreCurrent` says what a new password does for sessions, refreshed ones
included, and `raced` names its limit.  A login that read the old password may
be waiting for the row when the change commits; a refresh may have read its
token, and a replayed registration, which waits for no row a change holds, may
mint one, between the SELECT and the commit of the bulk revocation (finding 2).
Those sessions outlive the change, and so do their refreshes.  `Account` leaves
them out, and only them.  `BarredLoginsFail` has the same limit for a
deactivation; `Login` shows that such a login still cannot undo the deactivation
itself (`OnlySyncSetsActive`).

`RunningLockStands` has a limit of the same kind, which it states: a login that
read a lock which had run out clears it when it succeeds, also if another wrong
password has set it anew in between.  Three logins and a threshold of two are
too few for that in the run `login`, where no running lock is lifted at all;
four are enough, and the theorem covers them.

`Enrolment` leaves open what a client cannot know: after any failure, 019 may
have the user or may still get it.  It does say that "created" is answered only
for the user whom the client's own key has created, that a replay, a retry or an
overlap changes neither password nor user, and that a 409 names a conflict that
exists when it is answered.

### Fairness

`FairSpec` gives weak fairness to the service of a request that has begun: a
worker thread runs until its handler returns, its HTTP calls have timeouts
(`user_service_timeout`, `session_service_timeout`), and its retries are
counted.  A step that waits for a row lock or an index entry gets strong
fairness, because PostgreSQL queues waiters and grants the lock when it is
released.  Nothing forces requests to arrive, time to pass, 019 to answer or a
transaction to fail.  Liveness therefore says that a request which has begun
ends, under every order of waits; it is not true of a model in which locks are
taken in another order or kept after an error, as the mutants show.

### Findings

1. `token_service.py:152`: two concurrent refreshes of one token both succeed
   and leave two live replacements.  `report.txt:173` says the second "finds
   is_revoked=True".
2. `token_repository.py:153`: a token minted by a refresh that commits between
   the SELECT and the commit of a bulk revocation stays active, against
   `token_service.py:295`.
3. `login_service.py:130`: refused logins roll their own record back, so that
   the lockout never engages, against `authentication_service.py:203` and
   `docs/api/AUTH_API_CONTRACT.md:527`.
4. `registration_service.py:124`: the loser of an insert race reads on a
   deactivated session and ends in a 500, against the comment at :119.

5. `password_service.py:216`: two overlapping confirmations of one reset token
   both find it unused and both set a password, against :213 ("a valid
   single-use token") and `report.txt:191`.  `ReuseOverlaps` shows that this takes
   an overlap.

Met on the way and not stated as properties: `request_reset` returns the reset
token to an endpoint that drops it (`api/v1/password.py:78`), so that nothing
delivers it; the internal status router is not mounted by `main.py`.

## 4. Proofs

Five modules of theorems, each from an inductive invariant: `Init` implies it,
every action keeps it (one step of the proof per action), and it implies the
properties.

- `TokenLifecycleProofs`: `IInv`.  A property such as `RotationChain` is not
  inductive alone: a refresh between its SELECT and its commit relies on what
  it read.  `Replaces` says what of the presented row cannot have changed in a
  way that matters (owner, context, expiry), `MintsDistinct` that no other
  request mints its id, `LocksExclusive` and `Ascending` how rows are locked,
  `Covers` that a bulk revocation still holds, has yet to take, or finds
  revoked every row it saw.  Proved: `TypeOK`, `IInv`, `RotationChain`,
  `ReplacedAreDead`, `NoWaitCycle`, `RevocationIsFinal`, `RevokeAllEffective`,
  the refinement `ImplementsStore`, and, from invariants of their own,
  `KnownStored` (a token that is known is stored or about to be) and
  `AuditComplete` (events against rows, by the cardinality of finite sets).
- `LoginProofs`: `LoginInv`.  The committed row, every remembered row and every
  row about to be committed has a lock exactly when it has an end and a count
  that is backed by recorded wrong passwords; a pending row agrees with the
  committed one on `is_active`; at most one request has updated the row, and
  while it holds it what the update made of the lock stays true of the committed
  one (`RowLockInv`); a count that a stale read brings back is still no smaller
  than the streak, which the overlap has cut; a login about to commit has a
  session of its own.  Proved: `TypeOK`, `LoginInv`, `LockExpires`,
  `CountBacked`, `OnlySyncSetsActive`, `RunningLockStands`,
  `SessionBeforeTokens`, and `LockoutEngages` assuming `FailureCommits`.  The
  run `lockout_rolled_back` shows that this assumption is needed, and
  `DeployedNeverLocks` how much: without it no account is ever locked, no
  failure counted and no refusal logged, whatever the parameters.
- `RegistrationProofs`: `RegistrationInv`.  Past 019 the key has created the
  user, for good; a credential under way is the only one of its user; a conflict
  that was answered stays deserved.  Proved: `TypeOK`, `RegistrationInv`,
  `CredentialHasUser`, `GrantedHasCredential`, `NoSelfConflict`,
  `FirstPasswordWins` and the refinement `ImplementsEnrolment`, in which an
  attempt that 019 answers, or a late one, is a `Create`, a commit an `Enrol`,
  and retries, the lookup and the INSERT are no steps at all.
- `PasswordLifecycleProofs`: `IInv`.  A change reads the tokens after it has the
  credential's row, and a login inserts its token while it holds that row:
  `HoldsCredential` and `Exclusive` say so, and from them `Covers` that a change
  which is about to commit leaves only tokens behind that have overlapped it.
  `Verified` says that a login past its read presents the current password, and
  a refresh a token of it, unless they were overtaken; `HoldsRows` that rows are
  locked in ascending order, `Presents` and `Mints` what a request was given.
  Proved: `TypeOK`, `IInv`, `SessionsAreCurrent`, `NoWaitCycle`,
  `ReuseOverlaps` and the refinement `ImplementsAccount`.
- `StatusSyncProofs`: `SyncInv`.  An agreed status is the only one any push under
  way wants, pushes that want opposite things know of it, an uncontested push
  finds at its answer what it stored (also when it returned early on what it had
  read), and a barred login gets no further than its read.  Proved: `TypeOK`,
  `SyncInv`, `LastAnswerHolds`, `BarredLoginsFail` and the refinement
  `ImplementsFlag`.

`NoWaitCycle` is freedom from deadlock for any number of requests: of any of
them, one waits for none of the others.  The invariant gives `WaitsAscend`: a
request that waits for one which waits too stands below it in the order of
tables and keys.  In a set of which each waits for a member, the member that
wants the highest row would wait for one that wants a higher.  That there is
such a member is `GreatestExists` (`FiniteOrders`), which takes the finitely many
workers; it follows from the library's well-foundedness of the strict subset
order on finite sets, without induction.

The assumptions are those named in the modules: sets of numbers and Booleans
for the parameters, that `None` is none of the other values, and that there are
finitely many workers (the thread pool) where a proof counts or compares them.

Only model-checked: liveness (`RequestsTerminate`, `LoginsEnd`,
`RegistrationsEnd`, the two `RequestsEnd`), because fairness and ENABLED are
beyond the prover.  Every other property of a passing run is the subject of a theorem.

## 5. Plan

Done: the token life cycle, logins, registrations, passwords and statuses, each
with its theorems, and an abstract specification that each but `Login`
implements.  Left, in order:

1. An abstract lockout (threshold, lock, expiry) which `Login` implements as long
   as logins do not overlap.
2. `UserClient`: one abstract call (answered, refused, unanswered) which the
   retries of `Registration` and `Login` implement.
3. Composition of registration and login: a login by the identity of a user
   whose registration is still under way, over the 019 of `Registration`.

Not modelled, and why: access tokens and the current user (stateless: a token is
good until it expires, whatever becomes of the refresh token); rate limits
(slowapi, per process and client address); password hashing (pure); health,
schemas, settings, logging and error types (no state; settings are constants
here and errors are guards); `unlock` and `get_attempt_window_start` (called by
nothing); `check_health` of 019 (decides nothing); the migrations beyond the
tables and the unique index they create.

## 6. Running it

    tlc -config rotation.cfg MCTokenLifecycle.tla
    tlapm TokenLifecycleProofs.tla

`PROJECT.json` lists every run, the lines each definition models, a mutant of the
code for every checked property that the property catches, hazards and theorems.
