------------------------------ MODULE StatusSync ------------------------------
(***************************************************************************)
(* Credential synchronisation: the User Service (019) pushes a user's      *)
(* status, CredentialSyncService maps it to auth_credentials.is_active,    *)
(* and logins of the user read that flag.                                  *)
(*                                                                         *)
(* A push carries no version.  019 may send any status at any time, and a  *)
(* push may be late, repeated or lost: each is a request that arrives or   *)
(* does not.  A request reads the row without locking it, and its UPDATE   *)
(* waits for the row and keeps it to the end of the transaction.  The      *)
(* commit comes before the answer, as in FastAPI 0.116 and 0.117; where it *)
(* comes after, an answer says nothing about the row.                      *)
(***************************************************************************)
CONSTANTS
  Requests,   \* worker threads, each serving a push or a login at a time
  Statuses,   \* what 019 may send, known here or not
  None        \* Python's None

ASSUME SyncAssumption ==
  /\ None \notin Statuses /\ None \notin BOOLEAN
  /\ None \notin {"push", "login"}

VARIABLES
  active,   \* committed is_active of the user's row, None before registration
  agreed,   \* history: what the last answered push set, while no push that
            \* wants the opposite has arrived since or overlapped it
  req       \* what each worker thread is doing

vars == <<active, agreed, req>>

\* "update" waits for the row, "commit" holds it, "answer" has no more to do.
Request ==
  {q \in
     [pc : {"idle", "read", "update", "commit", "answer"},
      op : {"push", "login", None},
      status : Statuses \cup {None},
      result : {"none", "answered", "failed"},  \* of the worker's last push
      found : BOOLEAN,       \* history: the push has found a row
      contested : BOOLEAN,   \* history: a push of the opposite has overlapped it
      barred : BOOLEAN] :    \* history: the login began when FALSE was agreed,
                             \* and no push has wanted TRUE since
   /\ (q.op = None) <=> (q.pc = "idle")
   /\ (q.status = None) <=> (q.op # "push")}

Idle == [pc |-> "idle", op |-> None, status |-> None, result |-> "none",
         found |-> FALSE, contested |-> FALSE, barred |-> FALSE]

TypeOK ==
  /\ active \in BOOLEAN \cup {None}
  /\ agreed \in BOOLEAN \cup {None}
  /\ req \in [Requests -> Request]

Init ==
  /\ active = None /\ agreed = None
  /\ req = [r \in Requests |-> Idle]

-----------------------------------------------------------------------------
(* The two tables of statuses.                                             *)

\* ALLOWED_LOGIN_STATUSES.
Allowed == {"active", "verification_pending", "pending"}

\* STATUS_TO_ACTIVE.
StatusToActive ==
  [s \in {"pending", "verification_pending", "active",
          "suspended", "restricted", "deactivated", "deleted"} |->
     s \in {"pending", "verification_pending", "active"}]

\* Mutant of Desired: a status that is not in the table activates.
DesiredByDefault(s) == s \in DOMAIN StatusToActive => StatusToActive[s]

Desired(s) == s \in DOMAIN StatusToActive /\ StatusToActive[s]

-----------------------------------------------------------------------------
(* Requests arrive.                                                        *)

Busy(q) == q.pc # "idle"

\* What 019 means by a status is whether it lets its user log in.
Wants(q) == q.status \in Allowed

Opposed(q, s) == q.op = "push" /\ Busy(q) /\ Wants(q) # (s \in Allowed)

\* History: what the arrival of a push of s means to another request.
Met(q, s) ==
  [q EXCEPT !.contested = @ \/ Opposed(q, s), !.barred = @ /\ s \notin Allowed]

BeginPush(r) ==
  /\ ~Busy(req[r])
  /\ \E s \in Statuses :
       /\ req' = [t \in Requests |->
            IF t = r
            THEN [Idle EXCEPT !.pc = "read", !.op = "push", !.status = s,
                              !.contested = \E u \in Requests : Opposed(req[u], s)]
            ELSE Met(req[t], s)]
       /\ agreed' = IF agreed = (s \in Allowed) THEN agreed ELSE None
  /\ UNCHANGED active

BeginLogin(r) ==
  /\ ~Busy(req[r])
  /\ req' = [req EXCEPT ![r] =
       [Idle EXCEPT !.pc = "read", !.op = "login", !.result = req[r].result,
                    !.barred = (agreed = FALSE)]]
  /\ UNCHANGED <<active, agreed>>

-----------------------------------------------------------------------------
(* sync_status and the endpoint.                                           *)

\* No row, or a row that needs no change: the handler returns.
ReadPush(r) ==
  /\ req[r].pc = "read" /\ req[r].op = "push"
  /\ req' = [req EXCEPT ![r] =
       [@ EXCEPT !.found = (active # None),
                 !.pc = IF active \in {None, Desired(req[r].status)}
                        THEN "answer" ELSE "update"]]
  /\ UNCHANGED <<active, agreed>>

RowFree == \A r \in Requests : req[r].pc # "commit"

\* activate, deactivate, or record_successful_login.
Update(r) ==
  /\ req[r].pc = "update" /\ RowFree
  /\ req' = [req EXCEPT ![r].pc = "commit"]
  /\ UNCHANGED <<active, agreed>>

CommitPush(r) ==
  /\ req[r].pc = "commit" /\ req[r].op = "push"
  /\ active' = Desired(req[r].status)
  /\ req' = [req EXCEPT ![r].pc = "answer"]
  /\ UNCHANGED agreed

Answer(r) ==
  /\ req[r].pc = "answer"
  /\ req' = [req EXCEPT ![r] = [Idle EXCEPT !.result = "answered"]]
  /\ agreed' = IF req[r].found /\ ~req[r].contested THEN Wants(req[r]) ELSE agreed
  /\ UNCHANGED active

-----------------------------------------------------------------------------
(* authenticate, as far as it meets is_active.                             *)

\* Mutant of Admitted: is_active is not asked.
AdmittedInactive == active # None

Admitted == active = TRUE

ReadLogin(r) ==
  /\ req[r].pc = "read" /\ req[r].op = "login"
  /\ req' = [req EXCEPT ![r] =
       IF Admitted THEN [@ EXCEPT !.pc = "update"]
       ELSE [Idle EXCEPT !.result = req[r].result]]
  /\ UNCHANGED <<active, agreed>>

\* Mutant of Stored: the login writes back the is_active it read.
StoredWholeRow == TRUE

\* A login changes other columns of the row.
Stored == active

CommitLogin(r) ==
  /\ req[r].pc = "commit" /\ req[r].op = "login"
  /\ active' = Stored
  /\ req' = [req EXCEPT ![r] = [Idle EXCEPT !.result = req[r].result]]
  /\ UNCHANGED agreed

\* Mutant of Failed: the connection goes back to the pool with its transaction.
FailedOpen(q) == [q EXCEPT !.op = None]

\* get_db rolls back what is not committed; a push is told 500, or nothing.
Failed(q) == [Idle EXCEPT !.result = IF q.op = "push" THEN "failed" ELSE q.result]

Abort(r) ==
  /\ Busy(req[r])
  /\ req' = [req EXCEPT ![r] = Failed(@)]
  /\ UNCHANGED <<active, agreed>>

\* register: is_active is TRUE by default.
Register ==
  /\ active = None /\ active' = TRUE
  /\ UNCHANGED <<agreed, req>>

-----------------------------------------------------------------------------
Serve(r) ==
  \/ ReadPush(r) \/ Update(r) \/ CommitPush(r) \/ Answer(r)
  \/ ReadLogin(r) \/ CommitLogin(r)

Next ==
  \/ \E r \in Requests : BeginPush(r) \/ BeginLogin(r) \/ Serve(r) \/ Abort(r)
  \/ Register

Spec == Init /\ [][Next]_vars

\* A worker thread keeps running; PostgreSQL queues the waiters of a row lock.
FairSpec ==
  /\ Spec
  /\ \A r \in Requests : WF_vars(Serve(r)) /\ SF_vars(Update(r))

-----------------------------------------------------------------------------
(* Properties.                                                             *)

\* The last answered push is what is stored, in the sense LoginService gives to
\* its status, as long as no push of the opposite overlapped it: the stale read
\* behind its early return, and the logins that write the row meanwhile, do no
\* harm (sync_status, STATUS_TO_ACTIVE, ALLOWED_LOGIN_STATUSES).
LastAnswerHolds == agreed # None => active = agreed

\* One request, the row and the other requests.
RequestOK(q) ==
  /\ q.found \/ q.pc \in {"update", "commit"} => active # None
  /\ q.pc = "answer" => q.op = "push"
  /\ q.pc = "answer" /\ q.found /\ ~q.contested => active = Wants(q)
  /\ q.barred => /\ q.op = "login" /\ q.pc = "read" /\ active = FALSE
                 /\ \A u \in Requests : req[u].op = "push" => ~Wants(req[u])

\* The inductive form: an agreed status is the only one any push under way wants,
\* pushes that want opposite things know of it, an uncontested push finds at its
\* answer what it stored, and a barred login gets no further than its read.
SyncInv ==
  /\ LastAnswerHolds
  /\ \A r \in Requests :
       /\ RequestOK(req[r])
       /\ req[r].op = "push" /\ agreed # None => agreed = Wants(req[r])
       /\ \A u \in Requests :
            /\ req[r].op = "push" /\ req[u].op = "push"
            /\ Wants(req[r]) # Wants(req[u])
            => req[r].contested

\* No login that begins once 019 has been answered a deactivation commits, unless
\* 019 has begun to take it back (authenticate, sync_status).
BarredLoginsFail ==
  [][\A r \in Requests : CommitLogin(r) => ~req[r].barred]_vars

\* What StatusFlag sees of a worker.
SeenCall(q) ==
  IF q.op # "push" THEN [state |-> q.result, want |-> FALSE]
  ELSE [state |-> IF q.pc = "answer" THEN "set" ELSE "called",
        want |-> Desired(q.status)]

SeenCalls == [r \in Requests |-> SeenCall(req[r])]

Flag == INSTANCE StatusFlag WITH
  Callers <- Requests, flag <- active, call <- SeenCalls

\* Every push takes effect at one instant between its arrival and its answer,
\* whatever other pushes, logins and the registration it overlaps
\* (update_user_status).
ImplementsFlag == Flag!Spec

\* Every push and every login ends, though logins and pushes hold the row in turn.
RequestsEnd == \A r \in Requests : Busy(req[r]) ~> ~Busy(req[r])
=============================================================================
