----------------------------- MODULE Registration -----------------------------
(***************************************************************************)
(* Registration: RegistrationService creates the user in the User Service  *)
(* (019) over HTTP, retrying with the same idempotency key, and then, in   *)
(* its own database transaction, a credential and the first tokens.  No    *)
(* transaction spans the two services.                                     *)
(*                                                                         *)
(* 019 is modelled as user_service.py uses it: a key is bound for good to  *)
(* the identity of its first accepted POST, a repeated POST is replayed,   *)
(* and identities are unique.  A user is named by its identity.            *)
(***************************************************************************)
EXTENDS Naturals

CONSTANTS
  Requests,    \* worker threads, each serving one registration at a time
  Keys,        \* Idempotency-Key headers
  Identities,  \* emails, phones, usernames; each names one user of 019
  Passwords,
  Bodies,      \* what clients may send: a key, an identity and a password
  MaxTries,    \* stop_after_attempt
  None         \* Python's None

ASSUME RegistrationAssumption ==
  /\ MaxTries \in Nat \ {0}
  /\ Bodies \subseteq Keys \X Identities \X Passwords
  /\ None \notin Identities \cup Passwords

VARIABLES
  bound,    \* 019: the user each idempotency key created, or None
  flight,   \* POSTs that timed out here and may yet reach 019
  creds,    \* committed auth_credentials: each user's password, or None
  granted,  \* users with committed registration tokens
  req       \* what each worker thread is doing

vars == <<bound, flight, creds, granted, req>>

Answers == {"created", "exists", "conflict", "unavailable", "refused", "error", "none"}

Request ==
  [pc : {"idle", "create", "lookup", "insert", "commit"},
   key : Keys \cup {None}, id : Identities \cup {None},
   password : Passwords \cup {None},
   tries : 0 .. MaxTries - 1, \* POSTs without an answer
   inserted : BOOLEAN,       \* has a credential row to commit
   answer : Answers]         \* what the finished request was answered

Idle == [pc |-> "idle", key |-> None, id |-> None, password |-> None,
         tries |-> 0, inserted |-> FALSE, answer |-> "none"]

TypeOK ==
  /\ bound \in [Keys -> Identities \cup {None}]
  /\ flight \subseteq Keys \X Identities
  /\ creds \in [Identities -> Passwords \cup {None}]
  /\ granted \subseteq Identities
  /\ req \in [Requests -> Request]

Init ==
  /\ bound = [k \in Keys |-> None]
  /\ flight = {}
  /\ creds = [i \in Identities |-> None]
  /\ granted = {}
  /\ req = [r \in Requests |-> Idle]

\* What remains of a request that has ended, its session closed.
Answered(q, answer) ==
  [q EXCEPT !.pc = "idle", !.inserted = FALSE, !.answer = answer]

Begin(r) ==
  /\ req[r].pc = "idle"
  /\ \E body \in Bodies :
       req' = [req EXCEPT ![r] =
         [Idle EXCEPT !.pc = "create", !.key = body[1], !.id = body[2],
                      !.password = body[3]]]
  /\ UNCHANGED <<bound, flight, creds, granted>>

-----------------------------------------------------------------------------
(* UserService.create_user and 019.                                        *)

IsUser(i) == \E k \in Keys : bound[k] = i

\* Mutant of KeyOf: a fresh key for every attempt.
KeyOfAttempt(q) ==
  CHOOSE k \in Keys : (k = q.key) = (q.tries = 0)

\* Every attempt sends the client's own key.
KeyOf(q) == q.key

\* 019's side of a POST.
Received(k, i) ==
  IF bound[k] = None /\ ~IsUser(i) THEN [bound EXCEPT ![k] = i] ELSE bound

\* IDENTITY_ALREADY_EXISTS, IDEMPOTENCY_CONFLICT, or the created user.
Reply(k, i) ==
  IF bound[k] = None /\ IsUser(i) THEN "exists"
  ELSE IF bound[k] \notin {None, i} THEN "conflict"
  ELSE "created"

\* Mutant of Post: a user that exists is registered again.
PostAdopting(r) ==
  LET k == KeyOf(req[r])
      i == req[r].id IN
  /\ req[r].pc = "create"
  /\ bound' = Received(k, i)
  /\ req' = [req EXCEPT ![r] =
       IF Reply(k, i) # "conflict" THEN [@ EXCEPT !.pc = "lookup"]
       ELSE Answered(@, Reply(k, i))]
  /\ UNCHANGED <<flight, creds, granted>>

Post(r) ==
  LET k == KeyOf(req[r])
      i == req[r].id IN
  /\ req[r].pc = "create"
  /\ bound' = Received(k, i)
  /\ req' = [req EXCEPT ![r] =
       IF Reply(k, i) = "created" THEN [@ EXCEPT !.pc = "lookup"]
       ELSE Answered(@, Reply(k, i))]
  /\ UNCHANGED <<flight, creds, granted>>

\* Mutant of Retried: attempts are not counted.
RetriedForever(q) == q

\* Mutant of Retried: the last failure is taken for a success.
RetriedOptimistic(q) ==
  IF q.tries + 1 = MaxTries THEN [q EXCEPT !.pc = "lookup"]
  ELSE [q EXCEPT !.tries = @ + 1]

\* Mutant of Retried: the limit is compared too late.
RetriedTooOften(q) ==
  IF q.tries > MaxTries THEN Answered(q, "unavailable")
  ELSE [q EXCEPT !.tries = @ + 1]

\* tenacity: another attempt, or _raise_integration_error after the last.
Retried(q) ==
  IF q.tries + 1 = MaxTries THEN Answered(q, "unavailable")
  ELSE [q EXCEPT !.tries = @ + 1]

\* A transport error, a 429 or a 5xx: 019 may have done the work, may have
\* refused it, or has yet to see the POST.
NoAnswer(r) ==
  /\ req[r].pc = "create"
  /\ flight' \in {flight, flight \cup {<<KeyOf(req[r]), req[r].id>>}}
  /\ req' = [req EXCEPT ![r] = Retried(@)]
  /\ UNCHANGED <<bound, creds, granted>>

\* No attempt follows another 4xx or a reply that cannot be read.  A 422 is
\* handed on, a 404 is a UserNotFoundError, which register does not catch:
\* "refused" is that 422 or 500.  The rest are 503s; behind an unreadable reply
\* the user may have been created.
Refuse(r) ==
  /\ req[r].pc = "create"
  /\ \/ /\ UNCHANGED bound
        /\ req' = [req EXCEPT ![r] = Answered(@, "refused")]
     \/ /\ bound' \in {bound, Received(KeyOf(req[r]), req[r].id)}
        /\ req' = [req EXCEPT ![r] = Answered(@, "unavailable")]
  /\ UNCHANGED <<flight, creds, granted>>

LateArrival ==
  /\ \E post \in flight :
       /\ flight' = flight \ {post}
       /\ bound' = Received(post[1], post[2])
  /\ UNCHANGED <<creds, granted, req>>

-----------------------------------------------------------------------------
(* RegistrationService, on the Auth Service's own database.                *)

\* Another transaction's uncommitted row for the same user: the unique index
\* on user_id makes a second INSERT wait for it.
Pending(r) ==
  \E s \in Requests \ {r} : req[s].inserted /\ req[s].id = req[r].id

HasCredential(r) == creds[req[r].id] # None

\* An existing credential is kept; the password of this request is ignored.
Lookup(r) ==
  /\ req[r].pc = "lookup"
  /\ req' = [req EXCEPT ![r].pc = IF HasCredential(r) THEN "commit" ELSE "insert"]
  /\ UNCHANGED <<bound, flight, creds, granted>>

\* Mutant of Duplicate: no unique index on user_id.
DuplicateAllowed(r) == FALSE

Duplicate(r) == creds[req[r].id] # None

\* A duplicate raises IntegrityError; the failed flush has deactivated the
\* session, so the get_by_user_id of the handler's except branch raises
\* PendingRollbackError, which nothing catches: a 500.
Insert(r) ==
  /\ req[r].pc = "insert"
  /\ ~Pending(r)
  /\ req' = [req EXCEPT ![r] =
       IF Duplicate(r) THEN Answered(@, "error")
       ELSE [@ EXCEPT !.pc = "commit", !.inserted = TRUE]]
  /\ UNCHANGED <<bound, flight, creds, granted>>

\* REGISTRATION_COMPLETED, issue_tokens, and get_db's commit.
Commit(r) ==
  /\ req[r].pc = "commit"
  /\ creds' = IF req[r].inserted
              THEN [creds EXCEPT ![req[r].id] = req[r].password] ELSE creds
  /\ granted' = granted \cup {req[r].id}
  /\ req' = [req EXCEPT ![r] = Answered(@, "created")]
  /\ UNCHANGED <<bound, flight>>

\* A lost connection, a failing commit or a crash: rolled back, but not in 019.
Abort(r) ==
  /\ req[r].pc # "idle"
  /\ req' = [req EXCEPT ![r] = Answered(@, "none")]
  /\ UNCHANGED <<bound, flight, creds, granted>>

Serve(r) ==
  \/ Post(r) \/ NoAnswer(r) \/ Refuse(r) \/ Lookup(r)
  \/ Insert(r) \/ Commit(r)

Next ==
  \/ \E r \in Requests : Begin(r) \/ Serve(r) \/ Abort(r)
  \/ LateArrival

Spec == Init /\ [][Next]_vars

\* A worker thread keeps running and its HTTP calls time out; PostgreSQL
\* queues the waiters of an index entry.  019 owes no answer.
FairSpec ==
  /\ Spec
  /\ \A r \in Requests : WF_vars(Serve(r)) /\ SF_vars(Insert(r))

-----------------------------------------------------------------------------
(* Properties.                                                             *)

\* A password is only ever stored for a user 019 has (register creates the
\* user first, and gives up when 019 does not answer).
CredentialHasUser ==
  \A i \in Identities : creds[i] # None => IsUser(i)

\* Registration tokens go only to users whose credential is committed, be it
\* by this request or by the one it overlapped (register).
GrantedHasCredential == \A i \in granted : creds[i] # None

\* The first committed password stays: replays, retries and overlapping
\* registrations of the same user never replace it (register, the unique
\* index on auth_credentials.user_id).
FirstPasswordWins ==
  [][\A i \in Identities : creds[i] # None => creds'[i] = creds[i]]_vars

Deserved(q) ==
  /\ q.answer = "exists" => \E k \in Keys \ {q.key} : bound[k] = q.id
  /\ q.answer = "conflict" => bound[q.key] \notin {None, q.id}

\* A client is told 409 only for what another key or another body did, never
\* because of its own retried or late POSTs (create_user).
NoSelfConflict == \A r \in Requests : Deserved(req[r])

\* Every registration ends: retries are counted and waits for another's
\* credential are finite.
RegistrationsEnd == \A r \in Requests : req[r].pc # "idle" ~> req[r].pc = "idle"

\* To its clients every registration is one of Enrolment: the POSTs and their
\* retries, late arrivals, the lookup and the INSERT that meets a duplicate, the
\* commit and the crashes amount to steps that take effect at one instant each
\* (register, create_user).
Pends == flight \cup {<<req[r].key, req[r].id>> : r \in {s \in Requests : req[s].pc = "create"}}

Seen(q) == [key |-> q.key, id |-> q.id, password |-> q.password,
            answer |-> IF q.pc = "idle" THEN q.answer ELSE "running"]

Calls == [r \in Requests |-> Seen(req[r])]

Promise == INSTANCE Enrolment
  WITH Clients <- Requests, owner <- bound, pending <- Pends, call <- Calls

ImplementsEnrolment == Promise!Spec

\* RegistrationService.register: "Another request beat us - fetch the
\* now-existing credential": losing that race is no internal error.
NoInternalError == \A r \in Requests : req[r].answer # "error"

-----------------------------------------------------------------------------
(* The inductive invariant behind the safety properties.                   *)

\* A request keeps what it was asked; past 019 its key has created its user; a
\* credential waiting to be committed is the only one of its user; without one of its own
\* a request commits on another's.
Asked(q) ==
  q.pc # "idle" \/ q.answer # "none" =>
    q.key \in Keys /\ q.id \in Identities /\ q.password \in Passwords

Established(q) ==
  q.pc \in {"lookup", "insert", "commit"} => bound[q.key] = q.id

Exclusive(q) ==
  /\ q.inserted => q.pc = "commit" /\ creds[q.id] = None
  /\ q.pc = "commit" /\ ~q.inserted => creds[q.id] # None

OneInsert ==
  \A r, s \in Requests :
    r # s /\ req[r].inserted /\ req[s].inserted => req[r].id # req[s].id

\* What every step preserves, retries and late arrivals included
\* (RegistrationService.register over UserService.create_user).
RegistrationInv ==
  /\ \A r \in Requests : Asked(req[r]) /\ Established(req[r]) /\ Exclusive(req[r])
  /\ OneInsert
  /\ CredentialHasUser
  /\ GrantedHasCredential
  /\ NoSelfConflict
=============================================================================
