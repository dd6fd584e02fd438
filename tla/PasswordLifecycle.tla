--------------------------- MODULE PasswordLifecycle ---------------------------
(***************************************************************************)
(* Changing and resetting one user's password: PasswordService over the    *)
(* rows of auth_credentials, password_resets and refresh_tokens, together  *)
(* with the requests that meet it there: logins, refreshes, revocations    *)
(* and registrations of the same user.                                     *)
(*                                                                         *)
(* As in TokenLifecycle a SELECT reads what is committed, an UPDATE waits  *)
(* for its row and keeps it to the end of the transaction, and a COMMIT    *)
(* publishes everything at once.  Login and registration mint PERSONAL     *)
(* tokens only and a change or reset revokes in that context, so that the  *)
(* tokens here are the user's PERSONAL ones.  A request that is refused    *)
(* for a reason kept in other modules (an expired token or reset, a locked *)
(* account, a service that is down) is one that aborts.                    *)
(***************************************************************************)
EXTENDS Naturals, FiniteSets

CONSTANTS
  Requests,   \* worker threads, each serving one request at a time
  Passwords,
  ResetIds,   \* rows of password_resets; bounds how many are requested
  TokenIds,   \* primary keys of refresh_tokens; bounds how many are minted
  None        \* Python's None

\* What a request can be; "fail" is a login with a wrong password.
Ops == {"login", "fail", "change", "confirm", "refresh", "revoke"}

ASSUME PasswordAssumption ==
  /\ IsFiniteSet(Requests)
  /\ TokenIds \subseteq Nat
  /\ None \notin Passwords /\ None \notin ResetIds /\ None \notin TokenIds
  /\ None \notin Ops

VARIABLES
  password,   \* the committed password_hash, None before registration
  issued,     \* committed rows of password_resets
  used,       \* those with is_used set
  confirmed,  \* history: resets some confirmation of which has committed
  tokens,     \* committed rows of refresh_tokens: a function from ids to rows
  req         \* what each worker thread is doing

vars == <<password, issued, used, confirmed, tokens, req>>

\* History fields: the password with which the token's chain of refreshes began,
\* and whether the login or one of the refreshes overlapped a new password.
Token == [revoked : BOOLEAN, pw : Passwords, raced : BOOLEAN]

\* "find", "read" and "select" are about to read, "credential", "reset" and
\* "update" about to write a row.
Request ==
  [pc : {"idle", "find", "read", "credential", "reset", "select", "update", "commit"},
   op : Ops \cup {None},
   pw : Passwords \cup {None},      \* password, or current_password
   new : Passwords \cup {None},     \* new_password
   reset : ResetIds \cup {None},    \* the reset token presented
   token : TokenIds \cup {None},    \* the refresh token presented
   mint : TokenIds \cup {None},     \* the id of the token it will insert
   cred : BOOLEAN,                  \* holds the auth_credentials row
   marked : BOOLEAN,                \* holds the password_resets row
   todo : SUBSET TokenIds,          \* refresh_tokens rows still to be updated
   held : SUBSET TokenIds,          \* refresh_tokens rows updated, hence locked
   spent : BOOLEAN,                 \* history: reset was confirmed on entry
   raced : BOOLEAN]                 \* history: a new password since it read

Idle == [pc |-> "idle", op |-> None, pw |-> None, new |-> None, reset |-> None,
         token |-> None, mint |-> None, cred |-> FALSE, marked |-> FALSE,
         todo |-> {}, held |-> {}, spent |-> FALSE, raced |-> FALSE]

TypeOK ==
  /\ password \in Passwords \cup {None}
  /\ issued \subseteq ResetIds /\ used \subseteq issued /\ confirmed \subseteq issued
  /\ DOMAIN tokens \subseteq TokenIds
  /\ tokens \in [DOMAIN tokens -> Token]
  /\ req \in [Requests -> Request]

Init ==
  /\ password = None
  /\ issued = {} /\ used = {} /\ confirmed = {}
  /\ tokens = [t \in {} |-> {}]
  /\ req = [r \in Requests |-> Idle]

-----------------------------------------------------------------------------
(* Requests arrive.  The id of a token to be minted is a uuid4: it is no   *)
(* other's, and is drawn here on entry.                                    *)

\* Mutant of FreshIds: ids under way are not avoided.
FreshIdsStored == TokenIds \ DOMAIN tokens

FreshIds == TokenIds \ (DOMAIN tokens \cup {req[r].mint : r \in Requests})

BeginLogin(r) ==
  /\ req[r].pc = "idle"
  /\ \E p \in Passwords, n \in FreshIds :
       req' = [req EXCEPT ![r] =
         [Idle EXCEPT !.pc = "read", !.op = "login", !.pw = p, !.mint = n]]
  /\ UNCHANGED <<password, issued, used, confirmed, tokens>>

\* The user is known from an access token, which no row backs.
BeginChange(r) ==
  /\ req[r].pc = "idle"
  /\ \E p, new \in Passwords :
       req' = [req EXCEPT ![r] =
         [Idle EXCEPT !.pc = "read", !.op = "change", !.pw = p, !.new = new]]
  /\ UNCHANGED <<password, issued, used, confirmed, tokens>>

BeginConfirm(r) ==
  /\ req[r].pc = "idle"
  /\ \E x \in issued, new \in Passwords :
       req' = [req EXCEPT ![r] =
         [Idle EXCEPT !.pc = "find", !.op = "confirm", !.reset = x, !.new = new,
                      !.spent = x \in confirmed]]
  /\ UNCHANGED <<password, issued, used, confirmed, tokens>>

BeginRefresh(r) ==
  /\ req[r].pc = "idle"
  /\ \E t \in DOMAIN tokens, n \in FreshIds :
       req' = [req EXCEPT ![r] =
         [Idle EXCEPT !.pc = "read", !.op = "refresh", !.token = t, !.mint = n]]
  /\ UNCHANGED <<password, issued, used, confirmed, tokens>>

\* /token/revoke and /auth/logout.
BeginRevoke(r) ==
  /\ req[r].pc = "idle"
  /\ \E t \in DOMAIN tokens :
       req' = [req EXCEPT ![r] =
         [Idle EXCEPT !.pc = "read", !.op = "revoke", !.token = t]]
  /\ UNCHANGED <<password, issued, used, confirmed, tokens>>

\* request_reset for an identifier 019 knows: one INSERT, then the commit.  For
\* any other it writes nothing.
RequestReset ==
  /\ \E x \in ResetIds \ issued : issued' = issued \cup {x}
  /\ UNCHANGED <<password, used, confirmed, tokens, req>>

SetsPassword(q) == q.op \in {"change", "confirm"}

\* History: a new password is on its way whose transaction has already read the
\* tokens that it will revoke.
Replacing ==
  \E s \in Requests : SetsPassword(req[s]) /\ req[s].pc \in {"update", "commit"}

\* register waits for no row that is here: the first one stores the password,
\* a replay keeps it, and both mint a token.
Register ==
  /\ \E p \in Passwords, n \in FreshIds :
       /\ password' = IF password = None THEN p ELSE password
       /\ tokens' = [t \in DOMAIN tokens \cup {n} |->
            IF t = n THEN [revoked |-> FALSE, pw |-> password', raced |-> Replacing]
            ELSE tokens[t]]
  /\ UNCHANGED <<issued, used, confirmed, req>>

-----------------------------------------------------------------------------
(* The order of the statements.                                            *)

\* Mutant of Following: a change, but not a reset, revokes before it writes the
\* password.
FollowingChangeRevokesFirst(op, pc) ==
  CASE op = "change" /\ pc = "read" -> "select"
    [] op = "change" /\ pc = "update" -> "credential"
    [] op = "change" /\ pc = "credential" -> "commit"
    [] pc = "read" -> IF op \in {"refresh", "revoke"} THEN "update" ELSE "credential"
    [] pc = "credential" /\ op = "confirm" -> "reset"
    [] pc = "reset" -> "select"
    [] pc = "select" -> "update"
    [] OTHER -> "commit"

\* Mutant of Following: the tokens are revoked before the password is written.
FollowingRevokeFirst(op, pc) ==
  CASE pc = "read" /\ op \in {"login", "fail"} -> "credential"
    [] pc = "read" /\ op \in {"change", "confirm"} -> "select"
    [] pc = "select" -> "update"
    [] pc = "update" /\ op \in {"change", "confirm"} -> "credential"
    [] pc = "credential" /\ op = "confirm" -> "reset"
    [] pc = "read" -> "update"
    [] OTHER -> "commit"

\* What comes after each statement.  login, change_password and confirm_reset
\* write auth_credentials first, confirm_reset then password_resets, and
\* refresh_tokens come last.
Following(op, pc) ==
  IF pc = "read"
    THEN IF op \in {"refresh", "revoke"} THEN "update" ELSE "credential"
  ELSE IF pc = "credential" /\ op = "confirm" THEN "reset"
  ELSE IF pc \in {"credential", "reset"} /\ op \in {"change", "confirm"} THEN "select"
  ELSE IF pc = "select" THEN "update"
  ELSE "commit"

\* Mutant of Ended: the connection goes back to the pool with its locks.
EndedHolding(q) == [Idle EXCEPT !.held = q.held, !.cred = q.cred]

\* The session is closed, its locks are released.
Ended(q) == Idle

-----------------------------------------------------------------------------
(* Reads.                                                                  *)

\* Mutant of Active: get_by_token_hash.
ActiveAny(x) == x \in issued

\* get_active_by_token_hash.
Active(x) == x \in issued \ used

FindReset(r) ==
  /\ req[r].pc = "find"
  /\ req' = [req EXCEPT ![r] =
       IF Active(req[r].reset) THEN [@ EXCEPT !.pc = "read"] ELSE Ended(@)]
  /\ UNCHANGED <<password, issued, used, confirmed, tokens>>

Accepted(q) ==
  IF q.op \in {"refresh", "revoke"} THEN ~tokens[q.token].revoked
  ELSE IF q.op = "confirm" THEN password # None
  ELSE password = q.pw /\ (q.op = "change" => q.new # q.pw)

\* The credential is read, or the presented refresh token.
Read(r) ==
  /\ req[r].pc = "read" /\ Accepted(req[r])
  /\ req' = [req EXCEPT ![r] =
       [@ EXCEPT !.pc = Following(req[r].op, "read"),
                 !.todo = IF req[r].op \in {"refresh", "revoke"}
                          THEN {req[r].token} ELSE {}]]
  /\ UNCHANGED <<password, issued, used, confirmed, tokens>>

\* A wrong password of a login is recorded in the row; anything else that is
\* not accepted ends the request with nothing written.
Refuse(r) ==
  /\ req[r].pc = "read" /\ ~Accepted(req[r])
  /\ req' = [req EXCEPT ![r] =
       IF req[r].op = "login" /\ password # None
       THEN [@ EXCEPT !.pc = Following("fail", "read"), !.op = "fail"]
       ELSE Ended(@)]
  /\ UNCHANGED <<password, issued, used, confirmed, tokens>>

-----------------------------------------------------------------------------
(* Writes.                                                                 *)

\* Mutant of LockCredential: a login that finds nothing to clear writes nothing,
\* not even last_login_at, and so waits for no one.
LockCredentialUnwritten(r) ==
  /\ req[r].pc = "credential"
  /\ req[r].op # "login" => \A s \in Requests : ~req[s].cred
  /\ req' = [req EXCEPT ![r] =
       [@ EXCEPT !.cred = (req[r].op # "login"),
                 !.pc = Following(req[r].op, "credential")]]
  /\ UNCHANGED <<password, issued, used, confirmed, tokens>>

\* update_password, record_successful_login, record_failed_login: each changes
\* some column of the row, whatever it was.
LockCredential(r) ==
  /\ req[r].pc = "credential"
  /\ \A s \in Requests : ~req[s].cred
  /\ req' = [req EXCEPT ![r] =
       [@ EXCEPT !.cred = TRUE, !.pc = Following(req[r].op, "credential")]]
  /\ UNCHANGED <<password, issued, used, confirmed, tokens>>

MarkUsed(r) ==
  /\ req[r].pc = "reset"
  /\ \A s \in Requests : ~(req[s].marked /\ req[s].reset = req[r].reset)
  /\ req' = [req EXCEPT ![r] =
       [@ EXCEPT !.marked = TRUE, !.pc = Following(req[r].op, "reset")]]
  /\ UNCHANGED <<password, issued, used, confirmed, tokens>>

Unrevoked == {t \in DOMAIN tokens : ~tokens[t].revoked}

\* revoke_all_for_user.
Select(r) ==
  /\ req[r].pc = "select"
  /\ req' = [req EXCEPT ![r] =
       [@ EXCEPT !.todo = Unrevoked,
                 !.pc = IF Unrevoked = {} THEN Following(req[r].op, "update")
                        ELSE Following(req[r].op, "select")]]
  /\ UNCHANGED <<password, issued, used, confirmed, tokens>>

NextRows(todo) == {t \in todo : \A s \in todo : t <= s}

UpdateRow(r) ==
  /\ req[r].pc = "update"
  /\ \E t \in NextRows(req[r].todo) :
       /\ \A s \in Requests : t \notin req[s].held
       /\ req' = [req EXCEPT ![r] =
            [@ EXCEPT !.todo = req[r].todo \ {t},
                      !.held = req[r].held \cup {t},
                      !.pc = IF req[r].todo = {t} THEN Following(req[r].op, "update")
                             ELSE "update"]]
  /\ UNCHANGED <<password, issued, used, confirmed, tokens>>

Inserted(q) == IF q.op \in {"login", "refresh"} THEN {q.mint} ELSE {}

Minted(q) ==
  IF q.op = "login" THEN [revoked |-> FALSE, pw |-> q.pw, raced |-> q.raced]
  ELSE [revoked |-> FALSE, pw |-> tokens[q.token].pw,
        raced |-> q.raced \/ tokens[q.token].raced \/ Replacing]

Published(q) ==
  [t \in DOMAIN tokens \cup Inserted(q) |->
     IF t \in Inserted(q) THEN Minted(q)
     ELSE [tokens[t] EXCEPT !.revoked = @ \/ t \in q.held]]

\* Mutant of Used: every commit marks the row it presented.
UsedAlways(q) == used \cup {q.reset}

Used(q) == IF q.op = "confirm" THEN used \cup {q.reset} ELSE used

\* History: what a commit of q means to a request that has read.
Overtaken(o, q) ==
  IF o.op \in {"login", "refresh"} /\ o.pc # "read" /\ SetsPassword(q)
  THEN [o EXCEPT !.raced = TRUE] ELSE o

Commit(r) ==
  LET q == req[r] IN
  /\ q.pc = "commit" /\ q.op # "fail"
  /\ password' = IF SetsPassword(q) THEN q.new ELSE password
  /\ used' = Used(q)
  /\ confirmed' = IF q.op = "confirm" THEN confirmed \cup {q.reset} ELSE confirmed
  /\ tokens' = Published(q)
  /\ req' = [s \in Requests |-> IF s = r THEN Ended(q) ELSE Overtaken(req[s], q)]
  /\ UNCHANGED issued

\* The 401 of a login is an exception on which get_db rolls back.
Deny(r) ==
  /\ req[r].pc = "commit" /\ req[r].op = "fail"
  /\ req' = [req EXCEPT ![r] = Ended(@)]
  /\ UNCHANGED <<password, issued, used, confirmed, tokens>>

\* An error, a lost connection, a failing commit or a crash.
Abort(r) ==
  /\ req[r].pc # "idle"
  /\ req' = [req EXCEPT ![r] = Ended(@)]
  /\ UNCHANGED <<password, issued, used, confirmed, tokens>>

-----------------------------------------------------------------------------
Arrive(r) ==
  \/ BeginLogin(r) \/ BeginChange(r) \/ BeginConfirm(r)
  \/ BeginRefresh(r) \/ BeginRevoke(r)

Serve(r) ==
  \/ FindReset(r) \/ Read(r) \/ Refuse(r) \/ LockCredential(r) \/ MarkUsed(r)
  \/ Select(r) \/ UpdateRow(r) \/ Commit(r) \/ Deny(r)

Next ==
  \/ \E r \in Requests : Arrive(r) \/ Serve(r) \/ Abort(r)
  \/ RequestReset \/ Register

Spec == Init /\ [][Next]_vars

\* A worker thread keeps running; PostgreSQL queues the waiters of a row lock.
FairSpec ==
  /\ Spec
  /\ \A r \in Requests :
       WF_vars(Serve(r)) /\ SF_vars(LockCredential(r) \/ MarkUsed(r) \/ UpdateRow(r))

-----------------------------------------------------------------------------
(* Properties.                                                             *)

\* A token that is still good goes back, through all its refreshes, to a login or
\* registration under the current password, unless one of them overlapped a new
\* password: a change or reset leaves nothing else behind (change_password and
\* confirm_reset revoke after the UPDATE for whose row a login also waits).
SessionsAreCurrent ==
  \A t \in DOMAIN tokens :
    ~tokens[t].revoked => tokens[t].raced \/ tokens[t].pw = password

\* A reset token can be used twice only by confirmations that overlap: one that
\* begins after another has committed never commits itself (confirm_reset,
\* mark_used, get_active_by_token_hash).
ReuseOverlaps ==
  [][\A r \in Requests : Commit(r) /\ req[r].op = "confirm" => ~req[r].spent]_vars

\* No requests wait for one another, across the three tables that
\* PasswordService, logins and TokenService write: among any of them one waits
\* for none of the others.
WaitsFor(r, s) ==
  /\ r # s
  /\ \/ req[r].pc = "credential" /\ req[s].cred
     \/ req[r].pc = "reset" /\ req[s].marked /\ req[s].reset = req[r].reset
     \/ req[r].pc = "update" /\ NextRows(req[r].todo) \cap req[s].held # {}

NoWaitCycle ==
  \A D \in (SUBSET Requests) \ {{}} : \E r \in D : \A s \in D : ~WaitsFor(r, s)

\* Why: a request waits only for one that runs or waits further up in the order
\* auth_credentials, password_resets, refresh_tokens by key.
Stage(q) == IF q.pc = "credential" THEN 0 ELSE IF q.pc = "reset" THEN 1 ELSE 2

WaitsAscend ==
  \A r, s \in Requests :
    WaitsFor(r, s) /\ req[s].pc \in {"credential", "reset", "update"} =>
      \/ Stage(req[r]) < Stage(req[s])
      \/ /\ Stage(req[r]) = 2 /\ Stage(req[s]) = 2
         /\ \A t \in NextRows(req[r].todo), u \in NextRows(req[s].todo) : t < u

\* Seen as an Account, every step of every request is one of its steps or
\* changes nothing: a new password and the end of every session are one instant,
\* however the statements of PasswordService interleave with logins, refreshes
\* and registrations.  The tokens whose chain overlapped a new password are left
\* out.
Good == {t \in DOMAIN tokens : ~tokens[t].revoked /\ ~tokens[t].raced}

Seen == INSTANCE Account WITH sessions <- Good, spent <- used

ImplementsAccount == Seen!Spec

\* Every request ends, though a change holds the credential while it waits for
\* the tokens (change_password, confirm_reset).
RequestsEnd == \A r \in Requests : req[r].pc # "idle" ~> req[r].pc = "idle"

-----------------------------------------------------------------------------
(* The inductive invariant behind the safety properties.                   *)

\* Past its reads a login still presents the current password, and a refresh a
\* token of it, unless a new one was committed since; a request that writes the
\* credential has found one.
Verified(q) ==
  /\ q.op = "login" /\ q.pc # "read" => q.raced \/ q.pw = password
  /\ q.op = "refresh" /\ q.pc # "read" =>
       q.raced \/ tokens[q.token].raced \/ tokens[q.token].pw = password
  /\ q.op \in {"login", "change", "confirm"} /\ q.pc \notin {"find", "read"} =>
       password # None

\* Who holds the credential's row and a reset's, and until when.
HoldsCredential(q) ==
  /\ q.marked => q.pc \in {"select", "update", "commit"}
  /\ q.cred => q.pc \in {"reset", "select", "update", "commit"}
  /\ q.op \in {"login", "change", "confirm"}
       /\ q.pc \in {"reset", "select", "update", "commit"} => q.cred

HoldsRows(q) ==
  /\ q.todo \cup q.held \subseteq DOMAIN tokens
  /\ \A t \in q.held, u \in q.todo : t < u
  /\ q.pc \notin {"update", "commit"} => q.held = {}
  /\ q.pc # "update" => q.todo = {}
  /\ q.op = "login" => q.todo \cup q.held = {}
  /\ q.op \in {"refresh", "revoke"} => q.todo \cup q.held \subseteq {q.token}

\* What a login's id is for, and that of a refresh.
Mints(q) ==
  /\ q.op \in {"login", "refresh"} => q.mint \in TokenIds
  /\ q.mint \notin DOMAIN tokens

\* While it holds the credential no login can add to what it is about to revoke,
\* and what others add has overlapped it.
Covers(q) ==
  SetsPassword(q) /\ q.pc \in {"update", "commit"} => Good \subseteq q.todo \cup q.held

Presents(q) ==
  /\ q.pc = "idle" <=> q.op = None
  /\ q.pc = "idle" => ~q.cred
  /\ q.pc \in {"find", "reset"} => q.op = "confirm"
  /\ q.pc = "select" => SetsPassword(q)
  /\ q.op \in {"login", "change"} => q.pw \in Passwords
  /\ SetsPassword(q) => q.new \in Passwords
  /\ q.op = "confirm" => q.reset \in issued
  /\ q.op \in {"refresh", "revoke"} => q.token \in DOMAIN tokens
  /\ q.spent /\ q.op = "confirm" => q.pc = "find" /\ q.reset \in used

Exclusive ==
  \A r, s \in Requests :
    r # s =>
      /\ ~(req[r].cred /\ req[s].cred)
      /\ req[r].held \cap req[s].held = {}
      /\ req[r].mint # None => req[r].mint # req[s].mint

RequestOK(q) ==
  /\ Verified(q) /\ HoldsCredential(q) /\ HoldsRows(q) /\ Mints(q)
  /\ Covers(q) /\ Presents(q)

\* Together with TypeOK, what every step of every request preserves
\* (PasswordService, logins and TokenService over one user's rows).
IInv ==
  /\ \A r \in Requests : RequestOK(req[r])
  /\ Exclusive
  /\ confirmed = used
  /\ DOMAIN tokens # {} => password # None
  /\ SessionsAreCurrent

-----------------------------------------------------------------------------
(* What the repository's texts say and the code does not do.               *)

\* confirm_reset: "Complete a password reset using a valid single-use token."
ResetSingleUse ==
  [][\A r \in Requests :
       Commit(r) /\ req[r].op = "confirm" => req[r].reset \notin confirmed]_vars
=============================================================================
