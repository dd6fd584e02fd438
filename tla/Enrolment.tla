------------------------------- MODULE Enrolment -------------------------------
(***************************************************************************)
(* What registration promises its clients, with no retries, transactions,  *)
(* sessions or indexes in it.  A call takes effect in 019 at most once, at *)
(* one instant, possibly after the client was told that it failed; it is   *)
(* refused only if, at the instant of the refusal, another user or another *)
(* call stands in its way; and "created" means that the client's own key   *)
(* created the user, who has a password and tokens in that same instant.   *)
(***************************************************************************)
CONSTANTS Clients, Keys, Identities, Passwords, None

VARIABLES
  owner,    \* the user each idempotency key created, or None
  pending,  \* <<key, identity>> that may yet take effect in 019
  creds,    \* each user's password, or None
  granted,  \* users who have been given tokens
  call      \* the call of each client, and its answer, at first "running"

vars == <<owner, pending, creds, granted, call>>

Call(key, id, password, answer) ==
  [key |-> key, id |-> id, password |-> password, answer |-> answer]

Init ==
  /\ owner = [k \in Keys |-> None] /\ pending = {}
  /\ creds = [i \in Identities |-> None] /\ granted = {}
  /\ call = [c \in Clients |-> Call(None, None, None, "none")]

Owned(i) == \E k \in Keys : owner[k] = i

Free(k, i) == owner[k] = None /\ ~Owned(i)

\* The effect of one attempt on 019, which may be that of a replay: none.
TakesEffect(k, i) ==
  /\ <<k, i>> \in pending
  /\ owner' = IF Free(k, i) THEN [owner EXCEPT ![k] = i] ELSE owner

\* An attempt is, or is not, the last one that could take effect.
MayForget(k, i) == pending' \in {pending, pending \ {<<k, i>>}}

Answer(c, answer) ==
  /\ call[c].answer = "running"
  /\ call' = [call EXCEPT ![c].answer = answer]

Ask(c, k, i, p) ==
  /\ call[c].answer # "running"
  /\ call' = [call EXCEPT ![c] = Call(k, i, p, "running")]
  /\ pending' = pending \cup {<<k, i>>}
  /\ UNCHANGED <<owner, creds, granted>>

Create(k, i) ==
  /\ TakesEffect(k, i) /\ MayForget(k, i)
  /\ UNCHANGED <<creds, granted, call>>

\* For the user that its own key has created; of several the first password stays.
Enrol(c) ==
  LET q == call[c] IN
  /\ Answer(c, "created") /\ owner[q.key] = q.id
  /\ creds' = IF creds[q.id] = None THEN [creds EXCEPT ![q.id] = q.password] ELSE creds
  /\ granted' = granted \cup {q.id}
  /\ UNCHANGED <<owner, pending>>

Reject(c) ==
  LET q == call[c] IN
  /\ \/ Answer(c, "exists") /\ owner[q.key] = None /\ Owned(q.id)
     \/ Answer(c, "conflict") /\ owner[q.key] \notin {None, q.id}
  /\ MayForget(q.key, q.id)
  /\ UNCHANGED <<owner, creds, granted>>

\* Whether 019 has, or will have, the user is left open.
Fail(c) ==
  LET q == call[c] IN
  /\ \E answer \in {"unavailable", "refused", "error", "none"} : Answer(c, answer)
  /\ TakesEffect(q.key, q.id) \/ UNCHANGED owner
  /\ MayForget(q.key, q.id)
  /\ UNCHANGED <<creds, granted>>

Next ==
  \/ \E k \in Keys, i \in Identities : Create(k, i)
  \/ \E c \in Clients, k \in Keys, i \in Identities, p \in Passwords : Ask(c, k, i, p)
  \/ \E c \in Clients : Enrol(c) \/ Reject(c) \/ Fail(c)

Spec == Init /\ [][Next]_vars
=============================================================================
