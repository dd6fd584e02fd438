---------------------------- MODULE TokenLifecycle ----------------------------
(***************************************************************************)
(* The refresh-token life cycle: TokenService over TokenRepository, run by *)
(* concurrent requests, each in the one database transaction that get_db   *)
(* opens, commits or rolls back.                                           *)
(*                                                                         *)
(* PostgreSQL's READ COMMITTED is modelled by what it does to these        *)
(* statements: a SELECT reads the committed table (plus the transaction's  *)
(* own rows), an UPDATE waits for the row's lock and keeps it until the    *)
(* end of the transaction, a COMMIT publishes the inserted row and the     *)
(* updated columns in one step.  No statement of the code locks a row it   *)
(* only reads.                                                             *)
(*                                                                         *)
(* A refresh JWT and its row are one token here: issue_tokens writes       *)
(* subject, context and expiry into both from the same arguments, and the  *)
(* row is found by the JWT's hash.                                         *)
(***************************************************************************)
EXTENDS Naturals, FiniteSets

CONSTANTS
  Users,        \* canonical user ids (owned by the User Service)
  Contexts,     \* token contexts: PERSONAL, one ORGANIZATION per membership
  TokenIds,     \* primary keys of refresh_tokens; bounds how many are minted
  Requests,     \* worker threads, each serving one request at a time
  Ttl,          \* refresh_token_expire_days, in clock units
  MaxTime,      \* bound on the clock
  AnswerFirst,  \* TRUE: the response leaves before get_db commits
  None          \* Python's None

\* What a request can ask for: login or registration, /token/refresh,
\* /token/revoke or /auth/logout, a password change or reset.
Ops == {"issue", "refresh", "revoke", "revoke_all"}

ASSUME ConstantsAssumption ==
  /\ IsFiniteSet(Requests)
  /\ TokenIds \subseteq Nat
  /\ Ttl \in Nat \ {0}
  /\ MaxTime \in Nat
  /\ AnswerFirst \in BOOLEAN
  /\ None \notin TokenIds /\ None \notin Users /\ None \notin Contexts
  /\ None \notin Ops

VARIABLES
  tokens,   \* committed rows of refresh_tokens: a function from ids to rows
  known,    \* the tokens some client has received
  events,   \* committed auth_events per user, counted by type
  req,      \* what each worker thread is doing
  clock     \* wall-clock time

vars == <<tokens, known, events, req, clock>>

\* "from" is a history field: the token whose refresh minted this one.
Row == [user : Users, ctx : Contexts, exp : Nat, revoked : BOOLEAN,
        next : TokenIds \cup {None}, from : TokenIds \cup {None}]

\* Counts of TOKEN_REFRESH and TOKEN_REVOKED.
EventCounts == [refresh : Nat, revoked : Nat]

\* "lookup" and "select" are about to read, "update" has rows to write,
\* "commit" and "answer" are what is left when the handler has returned.
Request ==
  [pc : {"idle", "lookup", "select", "update", "commit", "answer"},
   op : Ops \cup {None},
   user : Users \cup {None},       \* whose tokens are written
   ctx : Contexts \cup {None},     \* None: revoke_all_for_user unfiltered
   tok : TokenIds \cup {None},     \* the token presented
   new : TokenIds \cup {None},     \* the token minted by this request
   at : Nat,                       \* current_time, read once on entry
   todo : SUBSET TokenIds,         \* rows still to be updated
   held : SUBSET TokenIds,         \* rows updated, hence locked
   seen : SUBSET TokenIds]         \* history: rows in scope at the SELECT

Idle == [pc |-> "idle", op |-> None, user |-> None, ctx |-> None,
         tok |-> None, new |-> None, at |-> 0,
         todo |-> {}, held |-> {}, seen |-> {}]

TypeOK ==
  /\ DOMAIN tokens \subseteq TokenIds
  /\ tokens \in [DOMAIN tokens -> Row]
  /\ known \subseteq TokenIds
  /\ events \in [Users -> EventCounts]
  /\ req \in [Requests -> Request]
  /\ clock \in Nat

Init ==
  /\ tokens = [t \in {} |-> {}]
  /\ known = {}
  /\ events = [u \in Users |-> [refresh |-> 0, revoked |-> 0]]
  /\ req = [r \in Requests |-> Idle]
  /\ clock = 0

-----------------------------------------------------------------------------
(* Requests arrive.                                                        *)

\* Mutant of FreshIds: ids derived from the time, so that two requests under
\* way at once may mint the same.
FreshIdsByClock == TokenIds \ (DOMAIN tokens \cup known)

\* Ids and jtis are uuid4: a minted token is none that is stored, in a
\* client's hands, or being minted by another request.
FreshIds ==
  (TokenIds \ (DOMAIN tokens \cup known)) \ {req[r].new : r \in Requests}

\* Bound: a minting request is admitted only while ids remain for it and for
\* every refresh under way, so that none is stuck for want of a UUID.
Room ==
  Cardinality(FreshIds)
    > Cardinality({r \in Requests : req[r].op = "refresh" /\ req[r].pc = "lookup"})

\* Mutant of Return: the response is sent although the commit is to come first.
ReturnSwapped == IF AnswerFirst THEN "commit" ELSE "answer"

\* The end of a handler: what is left is to commit and to answer.
Return == IF AnswerFirst THEN "answer" ELSE "commit"

\* Registration and login end in issue_tokens: sign both JWTs, insert a row.
BeginIssue(r) ==
  /\ req[r].pc = "idle" /\ Room
  /\ \E u \in Users, c \in Contexts, n \in FreshIds :
       req' = [req EXCEPT ![r] =
         [Idle EXCEPT !.pc = Return, !.op = "issue", !.user = u,
                      !.ctx = c, !.new = n, !.at = clock]]
  /\ UNCHANGED <<tokens, known, events, clock>>

\* /token/refresh, /token/revoke and /auth/logout: a client presents a token.
BeginTokenCall(r) ==
  /\ req[r].pc = "idle"
  /\ \E op \in {"refresh", "revoke"}, t \in known :
       /\ op = "refresh" => Room
       /\ req' = [req EXCEPT ![r] =
            [Idle EXCEPT !.pc = "lookup", !.op = op, !.tok = t, !.at = clock]]
  /\ UNCHANGED <<tokens, known, events, clock>>

\* A password change or reset, or TokenService.revoke_all.
BeginRevokeAll(r) ==
  /\ req[r].pc = "idle"
  /\ \E u \in Users, c \in Contexts \cup {None} :
       req' = [req EXCEPT ![r] =
         [Idle EXCEPT !.pc = "select", !.op = "revoke_all", !.user = u,
                      !.ctx = c]]
  /\ UNCHANGED <<tokens, known, events, clock>>

-----------------------------------------------------------------------------
(* Reads.                                                                  *)

\* Mutant of Accepted: an expired token is still refreshed.
AcceptedExpired(q, now) == q.tok \in DOMAIN tokens /\ ~tokens[q.tok].revoked

\* validate_refresh_token compares the expiry with PyJWT's own reading of the
\* clock, taken at some time between entry and the SELECT.
JwtValid(t, now) == tokens[t].exp > now

PyJwtReadings(q) == q.at .. clock

\* Both calls look for an unrevoked row of a valid JWT; refresh also compares
\* the row's expiry with the time it read on entry.  (The JWT's expiry is that
\* of the row, to the second, and its subject is the row's user.)
Accepted(q, now) ==
  /\ q.tok \in DOMAIN tokens
  /\ JwtValid(q.tok, now)
  /\ ~tokens[q.tok].revoked
  /\ q.op = "refresh" => tokens[q.tok].exp > q.at

\* The replacement keeps the context the token carries; it is inserted before
\* the presented row is updated.
LookupRefresh(r) ==
  /\ req[r].pc = "lookup" /\ req[r].op = "refresh"
  /\ \E now \in PyJwtReadings(req[r]) : Accepted(req[r], now)
  /\ LET t == req[r].tok IN
       \E n \in FreshIds :
         req' = [req EXCEPT ![r] =
           [@ EXCEPT !.pc = "update", !.user = tokens[t].user,
                     !.ctx = tokens[t].ctx, !.new = n, !.todo = {t}]]
  /\ UNCHANGED <<tokens, known, events, clock>>

LookupRevoke(r) ==
  /\ req[r].pc = "lookup" /\ req[r].op = "revoke"
  /\ \E now \in PyJwtReadings(req[r]) : Accepted(req[r], now)
  /\ LET t == req[r].tok IN
       req' = [req EXCEPT ![r] =
         [@ EXCEPT !.pc = "update", !.user = tokens[t].user, !.todo = {t}]]
  /\ UNCHANGED <<tokens, known, events, clock>>

\* InvalidTokenError, RevokedTokenError, ExpiredTokenError: a 401 is raised
\* through get_db, which has nothing to roll back.
Reject(r) ==
  /\ req[r].pc = "lookup"
  /\ \E now \in PyJwtReadings(req[r]) : ~Accepted(req[r], now)
  /\ req' = [req EXCEPT ![r] = Idle]
  /\ UNCHANGED <<tokens, known, events, clock>>

\* The rows revoke_all_for_user is about: one user's, in one context or all.
InScope(u, c) ==
  {t \in DOMAIN tokens : tokens[t].user = u /\ (c = None \/ tokens[t].ctx = c)}

\* Mutant of Unrevoked: bulk revocation passes over expired rows.
UnrevokedUnexpired(rows) ==
  {t \in rows : ~tokens[t].revoked /\ tokens[t].exp > clock}

Unrevoked(rows) == {t \in rows : ~tokens[t].revoked}

Select(r) ==
  /\ req[r].pc = "select"
  /\ LET scope == InScope(req[r].user, req[r].ctx) IN
       req' = [req EXCEPT ![r] =
         [@ EXCEPT !.pc = IF Unrevoked(scope) = {} THEN Return ELSE "update",
                   !.todo = Unrevoked(scope), !.seen = scope]]
  /\ UNCHANGED <<tokens, known, events, clock>>

-----------------------------------------------------------------------------
(* Writes.                                                                 *)

Locked(t) == \E s \in Requests : t \in req[s].held

\* Mutant of NextRows: the flush is inside the loop, so that rows are updated in
\* the order the SELECT returned them.
NextRowsUnsorted(todo) == todo

\* The loop makes the rows dirty, one flush follows it: SQLAlchemy's unit of
\* work updates them in primary-key order.
NextRows(todo) == {t \in todo : \A s \in todo : t <= s}

UpdateRow(r) ==
  /\ req[r].pc = "update"
  /\ \E t \in NextRows(req[r].todo) :
       /\ ~Locked(t)
       /\ req' = [req EXCEPT ![r] =
            [@ EXCEPT !.todo = req[r].todo \ {t},
                      !.held = req[r].held \cup {t},
                      !.pc = IF req[r].todo = {t} THEN Return ELSE "update"]]
  /\ UNCHANGED <<tokens, known, events, clock>>

\* Mutant of Inserted: a request that mints nothing inserts all the same.
InsertedAlways(q) == {q.new}

\* What issue_tokens inserts.
Inserted(q) == IF q.new = None THEN {} ELSE {q.new}

NewRow(q) ==
  [user |-> q.user, ctx |-> q.ctx, exp |-> q.at + Ttl, revoked |-> FALSE,
   next |-> None, from |-> q.tok]

\* Mutant of Updated: every UPDATE writes replaced_by_token_id.
UpdatedWholeRow(row, q) == [row EXCEPT !.revoked = TRUE, !.next = q.new]

\* Mutant of Updated: rotation links the replacement but revokes nothing.
UpdatedUnrevoked(row, q) ==
  [row EXCEPT !.revoked = @ \/ q.op # "refresh",
              !.next = IF q.op = "refresh" THEN q.new ELSE @]

\* Only the columns the transaction assigned are in its UPDATE.
Updated(row, q) ==
  [row EXCEPT !.revoked = TRUE,
              !.next = IF q.op = "refresh" THEN q.new ELSE @]

Published(q) ==
  [t \in DOMAIN tokens \cup Inserted(q) |->
     IF t \in Inserted(q) THEN NewRow(q)
     ELSE IF t \in q.held THEN Updated(tokens[t], q)
     ELSE tokens[t]]

\* Mutant of Logged: the TOKEN_REFRESH event is left out.
LoggedRevocations(q) ==
  IF q.op = "revoke" THEN [events EXCEPT ![q.user].revoked = @ + 1] ELSE events

\* create_auth_event, in the same transaction.
Logged(q) ==
  IF q.op = "refresh" THEN [events EXCEPT ![q.user].refresh = @ + 1]
  ELSE IF q.op = "revoke" THEN [events EXCEPT ![q.user].revoked = @ + 1]
  ELSE events

\* get_db after the handler returned.  Only the minted token is left to send.
Commit(r) ==
  /\ req[r].pc = "commit"
  /\ tokens' = Published(req[r])
  /\ events' = Logged(req[r])
  /\ req' = [req EXCEPT ![r] =
               IF AnswerFirst THEN Idle
               ELSE [Idle EXCEPT !.pc = "answer", !.new = req[r].new]]
  /\ UNCHANGED <<known, clock>>

AfterAnswer(q) == IF AnswerFirst THEN [q EXCEPT !.pc = "commit"] ELSE Idle

\* The response reaches the client, or is lost on the way.
Answer(r) ==
  /\ req[r].pc = "answer"
  /\ known' \in {known, known \cup Inserted(req[r])}
  /\ req' = [req EXCEPT ![r] = AfterAnswer(@)]
  /\ UNCHANGED <<tokens, events, clock>>

\* get_db's except branch, a failing commit, a lost connection or a crash:
\* the transaction is rolled back and its locks are released.
Abort(r) ==
  /\ req[r].pc # "idle"
  /\ req[r].pc = "answer" => AnswerFirst
  /\ req' = [req EXCEPT ![r] = Idle]
  /\ UNCHANGED <<tokens, known, events, clock>>

Tick ==
  /\ clock < MaxTime
  /\ clock' = clock + 1
  /\ UNCHANGED <<tokens, known, events, req>>

-----------------------------------------------------------------------------
Arrive(r) == BeginIssue(r) \/ BeginTokenCall(r) \/ BeginRevokeAll(r)

Serve(r) ==
  \/ LookupRefresh(r) \/ LookupRevoke(r) \/ Reject(r) \/ Select(r)
  \/ UpdateRow(r) \/ Commit(r) \/ Answer(r)

Next ==
  \/ \E r \in Requests : Arrive(r) \/ Serve(r) \/ Abort(r)
  \/ Tick

Spec == Init /\ [][Next]_vars

\* A worker thread and the database keep running a request that has begun;
\* PostgreSQL queues the waiters of a row lock, so an UPDATE that is again
\* and again possible happens.  Nothing makes requests arrive, fail, or time
\* pass.
FairSpec ==
  /\ Spec
  /\ \A r \in Requests : WF_vars(Serve(r)) /\ SF_vars(UpdateRow(r))

-----------------------------------------------------------------------------
(* Safety.                                                                 *)

\* A replaced token is revoked, and the replacement it names is stored, was
\* minted by a refresh of that very token for the same user and context, and
\* was minted while the token had not expired (TokenService.refresh).
RotationChain ==
  \A t \in DOMAIN tokens :
    LET n == tokens[t].next IN
    n # None =>
      /\ tokens[t].revoked
      /\ n \in DOMAIN tokens
      /\ tokens[n].from = t
      /\ tokens[n].user = tokens[t].user /\ tokens[n].ctx = tokens[t].ctx
      /\ tokens[n].exp < tokens[t].exp + Ttl

\* Whatever requests overlap, no commit revives a token, forgets that it was
\* replaced, or drops or re-dates its row (rotate, revoke and
\* revoke_all_for_user write rows that other transactions may have written
\* since they were read).
RevocationIsFinal ==
  [][\A t \in DOMAIN tokens :
       /\ t \in DOMAIN tokens'
       /\ tokens[t].revoked => tokens'[t].revoked
       /\ tokens[t].next # None => tokens'[t].next # None
       /\ tokens'[t].exp = tokens[t].exp
    ]_vars

\* Every stored replacement has its TOKEN_REFRESH event and no event is left
\* of a refresh that was rolled back.
Replacements(u) == {t \in DOMAIN tokens : tokens[t].user = u /\ tokens[t].from # None}

AuditComplete == \A u \in Users : events[u].refresh = Cardinality(Replacements(u))

\* When a bulk revocation commits, every token in its scope that was stored
\* when it looked is revoked, by it or by whoever came between its SELECT and
\* its UPDATEs (TokenRepository.revoke_all_for_user).
RevokeAllEffective ==
  [][\A r \in Requests :
       Commit(r) /\ req[r].op = "revoke_all"
         => \A t \in req[r].seen : tokens'[t].revoked
    ]_vars

\* No requests wait for one another: among any of them one waits for none of the
\* others, so transactions that lock refresh_tokens cannot deadlock, however many
\* there are (the flushes of rotate, revoke and revoke_all_for_user).
WaitsFor(r, s) ==
  /\ r # s
  /\ req[r].pc = "update"
  /\ NextRows(req[r].todo) \cap req[s].held # {}

NoWaitCycle ==
  \A D \in (SUBSET Requests) \ {{}} : \E r \in D : \A s \in D : ~WaitsFor(r, s)

\* Seen as a TokenStore, every step of every request is one of its steps or
\* changes nothing: rows, replacement and revocation become visible at once.
Store == INSTANCE TokenStore WITH
  live <- {t \in DOMAIN tokens : ~tokens[t].revoked},
  dead <- {t \in DOMAIN tokens : tokens[t].revoked},
  parent <- [t \in DOMAIN tokens |-> tokens[t].from]

ImplementsStore == Store!Spec

\* TokenStore's promise, of the rows: no stored replacement has a parent that
\* can still be refreshed (TokenRepository.rotate).
ReplacedAreDead == Store!ParentsDead

\* When get_db commits before the response is sent, a client holds no token
\* whose row is missing.
KnownStored == ~AnswerFirst => known \subseteq DOMAIN tokens

-----------------------------------------------------------------------------
(* The inductive invariant behind the safety properties.                   *)

\* What a request has to remember of the rows it read until its transaction
\* ends; op is None exactly when no transaction is open.
RowsExist(q) == q.todo \cup q.held \cup q.seen \subseteq DOMAIN tokens

Ascending(q) == \A t \in q.held, s \in q.todo : t < s

Closed(q) ==
  q.op = None =>
    /\ q.held = {} /\ q.todo = {}
    /\ q.pc = "idle" \/ (q.pc = "answer" /\ ~AnswerFirst)

Reading(q) ==
  /\ q.pc \in {"lookup", "select"} => q.held = {} /\ q.todo = {} /\ q.new = None
  /\ q.pc = "select" => q.op = "revoke_all"

Written(q) == q.pc \in {"commit", "answer"} => q.todo = {}

MintsForSomeone(q) ==
  q.op # None /\ q.new # None =>
    q.user \in Users /\ q.ctx \in Contexts /\ q.new \notin DOMAIN tokens

WritesNothingElse(q) ==
  /\ q.op = "issue" => q.tok = None /\ q.held = {} /\ q.todo = {}
  /\ q.op \in {"revoke", "revoke_all"} => q.new = None

\* The presented row cannot change under a refresh in any way that matters.
Replaces(q) ==
  q.op = "refresh" /\ q.pc # "lookup" =>
    /\ q.new # None
    /\ q.held \cup q.todo = {q.tok}
    /\ q.tok \in DOMAIN tokens
    /\ q.user = tokens[q.tok].user /\ q.ctx = tokens[q.tok].ctx
    /\ q.at < tokens[q.tok].exp

Covers(q) ==
  q.op = "revoke_all" =>
    \A t \in q.seen : tokens[t].revoked \/ t \in q.held \cup q.todo

RequestOK(q) ==
  /\ RowsExist(q) /\ Ascending(q) /\ Closed(q) /\ Reading(q) /\ Written(q)
  /\ MintsForSomeone(q) /\ WritesNothingElse(q) /\ Replaces(q) /\ Covers(q)

\* A row is locked by one transaction at most.
LocksExclusive ==
  \A r, s \in Requests : r # s => req[r].held \cap req[s].held = {}

MintsDistinct ==
  \A r, s \in Requests :
    r # s /\ req[r].new # None => req[r].new # req[s].new

\* Why NoWaitCycle holds: a request waits only for one that is running or waits
\* for a higher row.
WaitsAscend ==
  \A r, s \in Requests :
    WaitsFor(r, s) /\ req[s].pc = "update" =>
      \A t \in NextRows(req[r].todo), u \in NextRows(req[s].todo) : t < u

\* Together with TypeOK, what every step of every request preserves: the
\* requests under way agree with the rows they read, no two lock a row or mint
\* an id in common, and the stored rows form rotation chains
\* (TokenService.refresh, revoke, revoke_all over TokenRepository).
IInv ==
  /\ \A r \in Requests : RequestOK(req[r])
  /\ LocksExclusive
  /\ MintsDistinct
  /\ RotationChain
  /\ ReplacedAreDead

-----------------------------------------------------------------------------
(* Liveness.                                                               *)

\* Every request ends: no wait for a row lock lasts for ever.
RequestsTerminate ==
  \A r \in Requests : req[r].pc # "idle" ~> req[r].pc = "idle"

-----------------------------------------------------------------------------
(* What the repository's texts say and the code does not do.               *)

\* report.txt: of two concurrent refreshes of a token the second "finds
\* is_revoked=True and raises RevokedTokenError", so that no token is replaced
\* twice (TokenService.refresh reads the row without locking it).
ReplacedOnce ==
  \A s, t \in DOMAIN tokens :
    tokens[s].from # None /\ tokens[s].from = tokens[t].from => s = t

\* TokenService.revoke_all: "Revoke all active refresh tokens belonging to a
\* user".  A replacement of a token it saw is revoked too when it commits.
RevokeAllComplete ==
  [][\A r \in Requests :
       Commit(r) /\ req[r].op = "revoke_all"
         => \A t \in InScope(req[r].user, req[r].ctx) :
              tokens[t].from \in req[r].seen => tokens'[t].revoked
    ]_vars
=============================================================================
