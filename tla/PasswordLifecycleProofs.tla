------------------------ MODULE PasswordLifecycleProofs ------------------------
(***************************************************************************)
(* Theorems about PasswordLifecycle, for every set of requests, passwords, *)
(* reset tokens and refresh tokens.                                        *)
(*                                                                         *)
(* Only Commit and Register write the tables.  Every other step changes    *)
(* one request, or adds a reset token: LocalStep deals with those once.    *)
(***************************************************************************)
EXTENDS PasswordLifecycle, FiniteOrders, TLAPS

LEMMA MembershipIsBoolean ==
  ASSUME NEW x, NEW S PROVE \E b \in BOOLEAN : b = (x \in S)
<1>1. (x \in S) \in BOOLEAN
  OBVIOUS
<1> QED
  BY <1>1

LEMMA IdleTyped == Idle \in Request
  BY DEF Idle, Request

LEMMA IdleOK ==
  ASSUME TypeOK PROVE RequestOK(Idle)
  BY PasswordAssumption
     DEF TypeOK, Idle, Ops, RequestOK, Verified, HoldsCredential, HoldsRows, Mints, Covers, Good,
       Presents, SetsPassword

\* Steps that leave the rows alone and change one request only.
LEMMA LocalStep ==
  ASSUME TypeOK, IInv,
         NEW r \in Requests, NEW q \in Request, RequestOK(q),
         \A s \in Requests \ {r} :
           /\ ~(q.cred /\ req[s].cred)
           /\ q.held \cap req[s].held = {}
           /\ q.mint # None => q.mint # req[s].mint,
         req' = [req EXCEPT ![r] = q],
         UNCHANGED <<password, issued, used, confirmed, tokens>>
  PROVE  TypeOK' /\ IInv'
<1>1. \A s \in Requests : req'[s] = IF s = r THEN q ELSE req[s]
  BY DEF TypeOK
<1>2. TypeOK'
  BY DEF TypeOK
<1>3. \A s \in Requests : RequestOK(req[s])'
  <2> SUFFICES ASSUME NEW s \in Requests PROVE RequestOK(req[s])'
    OBVIOUS
  <2>1. RequestOK(req'[s])
    BY <1>1 DEF IInv
  <2> QED
    BY <2>1 DEF RequestOK, Verified, HoldsCredential, HoldsRows, Mints, Covers, Good, Presents
<1>4. Exclusive'
  BY <1>1 DEF IInv, Exclusive
<1>5. SessionsAreCurrent'
  BY DEF IInv, SessionsAreCurrent
<1> QED
  BY <1>2, <1>3, <1>4, <1>5 DEF IInv

\* LocalStep for a request that acquires nothing.
LEMMA ShrinkStep ==
  ASSUME TypeOK, IInv,
         NEW r \in Requests, NEW q \in Request, RequestOK(q),
         q.cred => req[r].cred, q.held \subseteq req[r].held,
         q.mint \in {None, req[r].mint},
         req' = [req EXCEPT ![r] = q],
         UNCHANGED <<password, issued, used, confirmed, tokens>>
  PROVE  TypeOK' /\ IInv'
<1>1. \A s \in Requests \ {r} :
        /\ ~(q.cred /\ req[s].cred)
        /\ q.held \cap req[s].held = {}
        /\ q.mint # None => q.mint # req[s].mint
  BY DEF IInv, Exclusive
<1> QED
  BY <1>1, LocalStep

LEMMA EndStep ==
  ASSUME TypeOK, IInv, NEW r \in Requests,
         req' = [req EXCEPT ![r] = Idle],
         UNCHANGED <<password, issued, used, confirmed, tokens>>
  PROVE  TypeOK' /\ IInv'
<1>1. ~Idle.cred /\ Idle.held = {} /\ Idle.mint = None
  BY DEF Idle
<1> QED
  BY <1>1, IdleTyped, IdleOK, ShrinkStep

-----------------------------------------------------------------------------
(* Requests arrive.                                                        *)

\* What every request is that has just begun.
LEMMA BeginStep ==
  ASSUME TypeOK, IInv, NEW r \in Requests, NEW q \in Request,
         q.pc \in {"find", "read"}, q.op \in Ops, ~q.cred, ~q.marked,
         q.todo = {}, q.held = {},
         q.pc = "find" => q.op = "confirm",
         q.mint \in FreshIds \cup {None},
         q.op \in {"login", "refresh"} => q.mint \in TokenIds,
         q.op \in {"login", "change"} => q.pw \in Passwords,
         SetsPassword(q) => q.new \in Passwords,
         q.op = "confirm" => q.reset \in issued,
         q.op = "confirm" => q.pc = "find",
         q.spent => q.reset \in used,
         q.op \in {"refresh", "revoke"} => q.token \in DOMAIN tokens,
         req' = [req EXCEPT ![r] = q],
         UNCHANGED <<password, issued, used, confirmed, tokens>>
  PROVE  TypeOK' /\ IInv'
<1>1. RequestOK(q)
  BY PasswordAssumption
     DEF TypeOK, FreshIds, RequestOK, Verified, HoldsCredential, HoldsRows, Mints, Covers, Good,
       Presents, SetsPassword
<1>2. \A s \in Requests \ {r} :
        /\ ~(q.cred /\ req[s].cred)
        /\ q.held \cap req[s].held = {}
        /\ q.mint # None => q.mint # req[s].mint
  BY DEF FreshIds
<1> QED
  BY <1>1, <1>2, LocalStep

LEMMA ArriveStep ==
  ASSUME TypeOK, IInv, NEW r \in Requests, Arrive(r)
  PROVE  TypeOK' /\ IInv'
<1>1. CASE BeginLogin(r)
  <2>1. PICK p \in Passwords, n \in FreshIds :
          req' = [req EXCEPT ![r] =
            [Idle EXCEPT !.pc = "read", !.op = "login", !.pw = p, !.mint = n]]
    BY <1>1 DEF BeginLogin
  <2> DEFINE q == [Idle EXCEPT !.pc = "read", !.op = "login", !.pw = p, !.mint = n]
  <2>2. q \in Request
    BY DEF Idle, Request, Ops, FreshIds
  <2>3. /\ q.pc = "read" /\ q.op = "login" /\ ~q.cred /\ ~q.marked
        /\ q.todo = {} /\ q.held = {} /\ q.mint = n /\ n \in TokenIds /\ ~q.spent /\ q.pw = p
    BY DEF Idle, FreshIds
  <2> HIDE DEF q
  <2> QED
    BY <1>1, <2>1, <2>2, <2>3, BeginStep DEF BeginLogin, SetsPassword, Ops, q
<1>2. CASE BeginChange(r)
  <2>1. PICK p \in Passwords, new \in Passwords :
          req' = [req EXCEPT ![r] =
            [Idle EXCEPT !.pc = "read", !.op = "change", !.pw = p, !.new = new]]
    BY <1>2 DEF BeginChange
  <2> DEFINE q == [Idle EXCEPT !.pc = "read", !.op = "change", !.pw = p, !.new = new]
  <2>2. q \in Request
    BY DEF Idle, Request, Ops
  <2>3. /\ q.pc = "read" /\ q.op = "change" /\ ~q.cred /\ ~q.marked
        /\ q.todo = {} /\ q.held = {} /\ q.mint = None /\ ~q.spent /\ q.new = new /\ q.pw = p
    BY DEF Idle
  <2> QED
    BY <1>2, <2>1, <2>2, <2>3, BeginStep DEF BeginChange, SetsPassword, Ops
<1>3. CASE BeginConfirm(r)
  <2>1. PICK x \in issued, new \in Passwords :
          req' = [req EXCEPT ![r] =
            [Idle EXCEPT !.pc = "find", !.op = "confirm", !.reset = x, !.new = new,
                         !.spent = x \in confirmed]]
    BY <1>3 DEF BeginConfirm
  <2>0. PICK b \in BOOLEAN : b = (x \in confirmed)
    BY MembershipIsBoolean
  <2> DEFINE q == [Idle EXCEPT !.pc = "find", !.op = "confirm", !.reset = x, !.new = new,
                               !.spent = b]
  <2>2. q \in Request
    BY DEF TypeOK, Idle, Request, Ops
  <2>3. /\ q.pc = "find" /\ q.op = "confirm" /\ ~q.cred /\ ~q.marked
        /\ q.todo = {} /\ q.held = {} /\ q.mint = None /\ q.reset = x /\ q.new = new
        /\ q.spent => q.reset \in used
    BY <2>0 DEF Idle, IInv
  <2> QED
    BY <1>3, <2>0, <2>1, <2>2, <2>3, BeginStep DEF BeginConfirm, SetsPassword, Ops
<1>4. CASE BeginRefresh(r)
  <2>1. PICK t \in DOMAIN tokens, n \in FreshIds :
          req' = [req EXCEPT ![r] =
            [Idle EXCEPT !.pc = "read", !.op = "refresh", !.token = t, !.mint = n]]
    BY <1>4 DEF BeginRefresh
  <2> DEFINE q == [Idle EXCEPT !.pc = "read", !.op = "refresh", !.token = t, !.mint = n]
  <2>2. q \in Request
    BY DEF TypeOK, Idle, Request, Ops, FreshIds
  <2>3. /\ q.pc = "read" /\ q.op = "refresh" /\ ~q.cred /\ ~q.marked
        /\ q.todo = {} /\ q.held = {} /\ q.mint = n /\ n \in TokenIds /\ ~q.spent /\ q.token = t
    BY DEF Idle, FreshIds
  <2> QED
    BY <1>4, <2>1, <2>2, <2>3, BeginStep DEF BeginRefresh, SetsPassword, Ops
<1>5. CASE BeginRevoke(r)
  <2>1. PICK t \in DOMAIN tokens :
          req' = [req EXCEPT ![r] =
            [Idle EXCEPT !.pc = "read", !.op = "revoke", !.token = t]]
    BY <1>5 DEF BeginRevoke
  <2> DEFINE q == [Idle EXCEPT !.pc = "read", !.op = "revoke", !.token = t]
  <2>2. q \in Request
    BY DEF TypeOK, Idle, Request, Ops
  <2>3. /\ q.pc = "read" /\ q.op = "revoke" /\ ~q.cred /\ ~q.marked
        /\ q.todo = {} /\ q.held = {} /\ q.mint = None /\ ~q.spent /\ q.token = t
    BY DEF Idle
  <2> QED
    BY <1>5, <2>1, <2>2, <2>3, BeginStep DEF BeginRevoke, SetsPassword, Ops
<1> QED
  BY <1>1, <1>2, <1>3, <1>4, <1>5 DEF Arrive

-----------------------------------------------------------------------------
(* Reads and locks.                                                        *)

LEMMA FindResetStep ==
  ASSUME TypeOK, IInv, NEW r \in Requests, FindReset(r)
  PROVE  TypeOK' /\ IInv'
<1>1. /\ req[r] \in Request /\ RequestOK(req[r]) /\ req[r].pc = "find"
      /\ req[r].op = "confirm"
  BY DEF TypeOK, IInv, FindReset, RequestOK, Presents
<1>2. CASE Active(req[r].reset)
  <2> DEFINE q == [req[r] EXCEPT !.pc = "read"]
  <2>1. req' = [req EXCEPT ![r] = q]
    BY <1>2 DEF FindReset
  <2>2. q \in Request /\ q.cred = req[r].cred /\ q.held = req[r].held /\ q.mint = req[r].mint
    BY <1>1 DEF Request
  <2>3. RequestOK(q)
    BY <1>1, <1>2
       DEF Request, Active, RequestOK, Verified, HoldsCredential, HoldsRows, Mints, Covers, Good,
         Presents, SetsPassword
  <2> QED
    BY <2>1, <2>2, <2>3, ShrinkStep DEF FindReset
<1>3. CASE ~Active(req[r].reset)
  BY <1>3, EndStep DEF FindReset, Ended
<1> QED
  BY <1>2, <1>3

LEMMA ReadStep ==
  ASSUME TypeOK, IInv, NEW r \in Requests, Read(r)
  PROVE  TypeOK' /\ IInv'
<1> DEFINE todo == IF req[r].op \in {"refresh", "revoke"} THEN {req[r].token} ELSE {}
           pc == Following(req[r].op, "read")
           q == [req[r] EXCEPT !.pc = pc, !.todo = todo]
<1>1. /\ req[r] \in Request /\ RequestOK(req[r]) /\ req[r].pc = "read"
      /\ Accepted(req[r])
  BY DEF TypeOK, IInv, Read
<1>2. req' = [req EXCEPT ![r] = q]
  BY DEF Read
<1>3. /\ pc = IF req[r].op \in {"refresh", "revoke"} THEN "update" ELSE "credential"
      /\ todo \subseteq DOMAIN tokens /\ todo \subseteq TokenIds
  BY <1>1 DEF Following, RequestOK, Presents, TypeOK
<1>4. q \in Request /\ q.cred = req[r].cred /\ q.held = req[r].held /\ q.mint = req[r].mint
  BY <1>1, <1>3 DEF Request
<1>5. Verified(q)
  BY <1>1, <1>3, PasswordAssumption
     DEF Request, RequestOK, Verified, Accepted, Presents, SetsPassword, Ops, TypeOK,
       IInv, SessionsAreCurrent
<1>6. HoldsCredential(q) /\ HoldsRows(q) /\ Mints(q)
  BY <1>1, <1>3 DEF Request, RequestOK, HoldsCredential, HoldsRows, Mints
<1>7. Covers(q) /\ Presents(q)
  BY <1>1, <1>3 DEF Request, RequestOK, Covers, Presents, SetsPassword
<1> QED
  BY <1>2, <1>4, <1>5, <1>6, <1>7, ShrinkStep DEF Read, RequestOK

LEMMA RefuseStep ==
  ASSUME TypeOK, IInv, NEW r \in Requests, Refuse(r)
  PROVE  TypeOK' /\ IInv'
<1>1. req[r] \in Request /\ RequestOK(req[r]) /\ req[r].pc = "read"
  BY DEF TypeOK, IInv, Refuse
<1>2. CASE req[r].op = "login" /\ password # None
  <2> DEFINE q == [req[r] EXCEPT !.pc = "credential", !.op = "fail"]
  <2>1. req' = [req EXCEPT ![r] = q]
    BY <1>2 DEF Refuse, Following
  <2>2. q \in Request /\ q.cred = req[r].cred /\ q.held = req[r].held /\ q.mint = req[r].mint
    BY <1>1 DEF Request, Ops
  <2>3. RequestOK(q)
    BY <1>1, PasswordAssumption
       DEF Ops, Request, RequestOK, Verified, HoldsCredential, HoldsRows, Mints, Covers, Good,
         Presents, SetsPassword
  <2> QED
    BY <2>1, <2>2, <2>3, ShrinkStep DEF Refuse
<1>3. CASE ~(req[r].op = "login" /\ password # None)
  BY <1>3, EndStep DEF Refuse, Ended
<1> QED
  BY <1>2, <1>3

LEMMA LockCredentialStep ==
  ASSUME TypeOK, IInv, NEW r \in Requests, LockCredential(r)
  PROVE  TypeOK' /\ IInv'
<1> DEFINE pc == Following(req[r].op, "credential")
           q == [req[r] EXCEPT !.cred = TRUE, !.pc = pc]
<1>1. req[r] \in Request /\ RequestOK(req[r]) /\ req[r].pc = "credential"
  BY DEF TypeOK, IInv, LockCredential
<1>2. req' = [req EXCEPT ![r] = q]
  BY DEF LockCredential
<1>3. pc = IF req[r].op = "confirm" THEN "reset"
           ELSE IF req[r].op = "change" THEN "select" ELSE "commit"
  BY DEF Following
<1>4. q \in Request /\ q.cred /\ q.held = req[r].held /\ q.mint = req[r].mint
  BY <1>1, <1>3 DEF Request
<1>5. Verified(q) /\ HoldsCredential(q)
  BY <1>1, <1>3 DEF Request, RequestOK, Verified, HoldsCredential
<1>6. HoldsRows(q) /\ Mints(q) /\ Covers(q) /\ Presents(q)
  BY <1>1, <1>3
     DEF Request, RequestOK, HoldsRows, Mints, Covers, Good, Presents, SetsPassword
<1>7. \A s \in Requests \ {r} :
        /\ ~(q.cred /\ req[s].cred)
        /\ q.held \cap req[s].held = {}
        /\ q.mint # None => q.mint # req[s].mint
  BY <1>4 DEF LockCredential, IInv, Exclusive
<1> HIDE DEF q
<1> QED
  BY <1>2, <1>4, <1>5, <1>6, <1>7, LocalStep DEF LockCredential, RequestOK

LEMMA MarkUsedStep ==
  ASSUME TypeOK, IInv, NEW r \in Requests, MarkUsed(r)
  PROVE  TypeOK' /\ IInv'
<1> DEFINE q == [req[r] EXCEPT !.marked = TRUE, !.pc = "select"]
<1>1. /\ req[r] \in Request /\ RequestOK(req[r]) /\ req[r].pc = "reset"
      /\ req[r].op = "confirm"
  BY DEF TypeOK, IInv, MarkUsed, RequestOK, Presents
<1>2. req' = [req EXCEPT ![r] = q]
  BY <1>1 DEF MarkUsed, Following
<1>3. q \in Request /\ q.cred = req[r].cred /\ q.held = req[r].held /\ q.mint = req[r].mint
  BY <1>1 DEF Request
<1>4. RequestOK(q)
  BY <1>1
     DEF Request, RequestOK, Verified, HoldsCredential, HoldsRows, Mints, Covers, Good,
       Presents, SetsPassword
<1> QED
  BY <1>2, <1>3, <1>4, ShrinkStep DEF MarkUsed

LEMMA SelectStep ==
  ASSUME TypeOK, IInv, NEW r \in Requests, Select(r)
  PROVE  TypeOK' /\ IInv'
<1> DEFINE pc == IF Unrevoked = {} THEN "commit" ELSE "update"
           q == [req[r] EXCEPT !.todo = Unrevoked, !.pc = pc]
<1>1. /\ req[r] \in Request /\ RequestOK(req[r]) /\ req[r].pc = "select"
      /\ SetsPassword(req[r])
  BY DEF TypeOK, IInv, Select, RequestOK, Presents
<1>2. req' = [req EXCEPT ![r] = q]
  BY <1>1 DEF Select, Following
<1>3. Unrevoked \subseteq DOMAIN tokens /\ Unrevoked \subseteq TokenIds
  BY DEF Unrevoked, TypeOK
<1>4. q \in Request /\ q.cred = req[r].cred /\ q.held = req[r].held /\ q.mint = req[r].mint
  BY <1>1, <1>3 DEF Request
<1>5. Verified(q) /\ HoldsCredential(q) /\ Mints(q) /\ Presents(q)
  BY <1>1 DEF Request, RequestOK, Verified, HoldsCredential, Mints, Presents, SetsPassword
<1>6. HoldsRows(q) /\ Covers(q)
  <2>1. q.todo = Unrevoked /\ q.op = req[r].op /\ q.held = {}
        /\ (q.pc = "commit" => q.todo = {}) /\ q.pc \in {"update", "commit"}
    BY <1>1 DEF Request, RequestOK, HoldsRows
  <2>2. Good \subseteq Unrevoked
    BY DEF Good, Unrevoked
  <2> HIDE DEF q
  <2> QED
    BY <1>1, <1>3, <2>1, <2>2 DEF HoldsRows, Covers, SetsPassword
<1> QED
  BY <1>2, <1>4, <1>5, <1>6, ShrinkStep DEF Select, RequestOK

LEMMA UpdateRowStep ==
  ASSUME TypeOK, IInv, NEW r \in Requests, UpdateRow(r)
  PROVE  TypeOK' /\ IInv'
<1>1. PICK t \in NextRows(req[r].todo) :
        /\ \A s \in Requests : t \notin req[s].held
        /\ req' = [req EXCEPT ![r] =
             [req[r] EXCEPT !.todo = req[r].todo \ {t},
                            !.held = req[r].held \cup {t},
                            !.pc = IF req[r].todo = {t} THEN Following(req[r].op, "update")
                                   ELSE "update"]]
  BY DEF UpdateRow
<1> DEFINE pc == IF req[r].todo = {t} THEN "commit" ELSE "update"
           q == [req[r] EXCEPT !.todo = req[r].todo \ {t},
                               !.held = req[r].held \cup {t},
                               !.pc = pc]
<1>2. /\ req[r] \in Request /\ RequestOK(req[r]) /\ req[r].pc = "update"
      /\ t \in req[r].todo /\ t \in TokenIds /\ req[r].todo \subseteq Nat
  BY PasswordAssumption DEF TypeOK, IInv, UpdateRow, NextRows, Request
<1>3. req' = [req EXCEPT ![r] = q]
  BY <1>1 DEF Following
<1>4. q \in Request /\ q.cred = req[r].cred /\ q.held = req[r].held \cup {t}
      /\ q.mint = req[r].mint
  BY <1>2 DEF Request
<1>5. Verified(q) /\ HoldsCredential(q) /\ Mints(q) /\ Presents(q)
  BY <1>2 DEF Request, RequestOK, Verified, HoldsCredential, Mints, Presents, SetsPassword
<1>6. \A u \in req[r].todo \ {t} : t < u
  BY <1>2 DEF NextRows
<1>7. HoldsRows(q) /\ Covers(q)
  BY <1>2, <1>6 DEF Request, RequestOK, HoldsRows, Covers, SetsPassword
<1>8. \A s \in Requests \ {r} :
        /\ ~(q.cred /\ req[s].cred)
        /\ q.held \cap req[s].held = {}
        /\ q.mint # None => q.mint # req[s].mint
  BY <1>1, <1>4 DEF IInv, Exclusive
<1>9. UNCHANGED <<password, issued, used, confirmed, tokens>>
  BY DEF UpdateRow
<1> HIDE DEF q
<1> QED
  BY <1>3, <1>4, <1>5, <1>7, <1>8, <1>9, LocalStep DEF RequestOK

-----------------------------------------------------------------------------
(* Commits.                                                                *)

\* What a commit does to the rows: those that were stored keep what is
\* remembered of them, those it updated are revoked, the minted one is new.
LEMMA CommitRows ==
  ASSUME TypeOK, IInv, NEW r \in Requests, Commit(r)
  PROVE  LET q == req[r] IN
         /\ q \in Request /\ RequestOK(q) /\ q.pc = "commit" /\ q.todo = {}
         /\ DOMAIN tokens' = DOMAIN tokens \cup Inserted(q)
         /\ Inserted(q) \cap DOMAIN tokens = {} /\ Inserted(q) \subseteq TokenIds
         /\ \A t \in Inserted(q) : tokens'[t] = Minted(q)
         /\ \A t \in DOMAIN tokens :
              tokens'[t] = [tokens[t] EXCEPT !.revoked = @ \/ t \in q.held]
<1> DEFINE q == req[r]
<1>1. q \in Request /\ RequestOK(q) /\ q.pc = "commit" /\ q.todo = {}
  BY DEF TypeOK, IInv, Commit, RequestOK, HoldsRows
<1>2. Inserted(q) \cap DOMAIN tokens = {} /\ Inserted(q) \subseteq TokenIds
  BY <1>1 DEF Inserted, RequestOK, Mints
<1>3. tokens' = Published(q)
  BY DEF Commit
<1> QED
  BY <1>1, <1>2, <1>3 DEF Published

LEMMA RowsKept ==
  ASSUME TypeOK, IInv, NEW r \in Requests, Commit(r), NEW t \in DOMAIN tokens
  PROVE  /\ t \in DOMAIN tokens' /\ tokens'[t] \in Token
         /\ tokens'[t].pw = tokens[t].pw
         /\ tokens'[t].raced = tokens[t].raced
         /\ tokens'[t].revoked <=> tokens[t].revoked \/ t \in req[r].held
<1>1. tokens[t] \in Token
  BY DEF TypeOK
<1>2. PICK b \in BOOLEAN : b = (t \in req[r].held)
  BY MembershipIsBoolean
<1>3. tokens'[t] = [tokens[t] EXCEPT !.revoked = tokens[t].revoked \/ b]
  BY <1>2, CommitRows
<1>4. t \in DOMAIN tokens'
  BY CommitRows
<1> QED
  BY <1>1, <1>2, <1>3, <1>4 DEF Token

\* A commit of q marks a login or refresh that has read, and changes nothing else.
Overtakes(o, q) ==
  o.op \in {"login", "refresh"} /\ o.pc # "read" /\ SetsPassword(q)

LEMMA OvertakenFields ==
  ASSUME NEW o \in Request, NEW q
  PROVE  /\ Overtaken(o, q) \in Request
         /\ Overtaken(o, q).pc = o.pc /\ Overtaken(o, q).op = o.op
         /\ Overtaken(o, q).pw = o.pw /\ Overtaken(o, q).new = o.new
         /\ Overtaken(o, q).reset = o.reset /\ Overtaken(o, q).token = o.token
         /\ Overtaken(o, q).mint = o.mint /\ Overtaken(o, q).cred = o.cred
         /\ Overtaken(o, q).marked = o.marked
         /\ Overtaken(o, q).todo = o.todo /\ Overtaken(o, q).held = o.held
         /\ Overtaken(o, q).spent = o.spent
         /\ o.raced \/ Overtakes(o, q) => Overtaken(o, q).raced
<1>1. CASE Overtakes(o, q)
  <2>1. Overtaken(o, q) = [o EXCEPT !.raced = TRUE]
    BY <1>1 DEF Overtaken, Overtakes
  <2> QED
    BY <2>1 DEF Request
<1>2. CASE ~Overtakes(o, q)
  <2>1. Overtaken(o, q) = o
    BY <1>2 DEF Overtaken, Overtakes
  <2> QED
    BY <1>2, <2>1
<1> QED
  BY <1>1, <1>2

LEMMA CommitType ==
  ASSUME TypeOK, IInv, NEW r \in Requests, Commit(r)
  PROVE  TypeOK'
<1>1. /\ req[r] \in Request /\ RequestOK(req[r])
      /\ DOMAIN tokens' = DOMAIN tokens \cup Inserted(req[r])
      /\ Inserted(req[r]) \subseteq TokenIds
      /\ \A t \in Inserted(req[r]) : tokens'[t] = Minted(req[r])
  BY CommitRows
<1>2. tokens' \in [DOMAIN tokens' -> Token] /\ DOMAIN tokens' \subseteq TokenIds
  <2>1. ASSUME NEW t \in Inserted(req[r]) PROVE tokens'[t] \in Token
    <3>1. PICK q \in Request : q = req[r]
      BY <1>1
    <3>2. q.op \in {"login", "refresh"}
      BY <3>1 DEF Inserted
    <3>3. q.op = "login" => q.pw \in Passwords
      BY <1>1, <3>1 DEF RequestOK, Presents
    <3>4. q.op = "refresh" => tokens[q.token] \in Token
      BY <1>1, <3>1 DEF RequestOK, Presents, TypeOK
    <3>5. (q.raced \/ tokens[q.token].raced \/ Replacing) \in BOOLEAN
      OBVIOUS
    <3>6. Minted(q) \in Token
      BY <3>2, <3>3, <3>4, <3>5 DEF Minted, Token, Request
    <3> QED
      BY <1>1, <3>1, <3>6
  <2>2. \A t \in DOMAIN tokens' : tokens'[t] \in Token
    BY <1>1, <2>1, RowsKept
  <2>3. tokens' = [t \in DOMAIN tokens' |-> tokens'[t]]
    BY DEF Commit, Published
  <2> QED
    BY <1>1, <2>2, <2>3 DEF TypeOK
<1>3. password' \in Passwords \cup {None}
  BY <1>1 DEF Commit, TypeOK, RequestOK, Presents
<1>4. issued' \subseteq ResetIds /\ used' \subseteq issued' /\ confirmed' \subseteq issued'
  BY <1>1 DEF Commit, Used, TypeOK, RequestOK, Presents
<1>5. req' \in [Requests -> Request]
  <2>1. ASSUME NEW s \in Requests PROVE Overtaken(req[s], req[r]) \in Request
    BY OvertakenFields DEF TypeOK
  <2> QED
    BY <2>1, IdleTyped DEF Commit, Ended
<1> QED
  BY <1>2, <1>3, <1>4, <1>5 DEF TypeOK

\* What the others keep when r, which is q, commits: o becomes e.
LEMMA Bystander ==
  ASSUME TypeOK, IInv, NEW r \in Requests, Commit(r), NEW s \in Requests, s # r,
         NEW q, q = req[r], NEW o, o = req[s], NEW e, e = Overtaken(o, q)
  PROVE  RequestOK(e)'
<1>1. /\ q \in Request /\ RequestOK(q) /\ q.pc = "commit"
      /\ DOMAIN tokens' = DOMAIN tokens \cup Inserted(q)
      /\ Inserted(q) \cap DOMAIN tokens = {}
      /\ \A t \in Inserted(q) : tokens'[t] = Minted(q)
  BY CommitRows
<1>2. o \in Request /\ RequestOK(o)
  BY DEF TypeOK, IInv
<1>3. /\ e \in Request
      /\ e.pc = o.pc /\ e.op = o.op /\ e.pw = o.pw /\ e.new = o.new
      /\ e.reset = o.reset /\ e.token = o.token /\ e.mint = o.mint
      /\ e.cred = o.cred /\ e.marked = o.marked /\ e.todo = o.todo /\ e.held = o.held
      /\ e.spent = o.spent
      /\ o.raced \/ Overtakes(o, q) => e.raced
  BY <1>2, OvertakenFields
<1>4. \A t \in DOMAIN tokens :
        /\ t \in DOMAIN tokens'
        /\ tokens'[t].pw = tokens[t].pw /\ tokens'[t].raced = tokens[t].raced
        /\ tokens[t].revoked => tokens'[t].revoked
  BY RowsKept
<1>5. /\ q.mint # None => q.mint # o.mint
      /\ ~(q.cred /\ o.cred)
  BY DEF IInv, Exclusive
<1>6. password' = IF SetsPassword(q) THEN q.new ELSE password
  BY DEF Commit
<1>7. SetsPassword(q) => q.new \in Passwords
  BY <1>1 DEF RequestOK, Presents
<1>8. used \subseteq used' /\ issued' = issued
  BY DEF Commit, Used
<1>9. Verified(e)'
  <2>1. o.op \in {"login", "refresh"} /\ o.pc # "read" /\ ~e.raced => password' = password
    BY <1>3, <1>6 DEF Overtakes
  <2>2. o.op = "refresh" => o.token \in DOMAIN tokens
    BY <1>2 DEF RequestOK, Presents
  <2> QED
    BY <1>2, <1>3, <1>4, <1>6, <1>7, <2>1, <2>2, PasswordAssumption DEF RequestOK, Verified
<1>10. HoldsCredential(e)'
  BY <1>2, <1>3 DEF RequestOK, HoldsCredential
<1>11. HoldsRows(e)'
  BY <1>2, <1>3, <1>4 DEF RequestOK, HoldsRows
<1>12. Mints(e)'
  <2>1. o.mint \notin DOMAIN tokens'
    BY <1>1, <1>2, <1>5, PasswordAssumption DEF RequestOK, Mints, Inserted
  <2> QED
    BY <1>2, <1>3, <2>1 DEF RequestOK, Mints
<1>13. Covers(e)'
  <2> SUFFICES ASSUME SetsPassword(o), o.pc \in {"update", "commit"},
                      NEW t \in DOMAIN tokens', ~tokens'[t].revoked, ~tokens'[t].raced
               PROVE  t \in o.todo \cup o.held
    BY <1>3 DEF Covers, Good, SetsPassword
  <2>1. o.cred
    BY <1>2 DEF RequestOK, HoldsCredential, SetsPassword
  <2>2. q.op # "login"
    BY <1>1, <1>5, <2>1 DEF RequestOK, HoldsCredential
  <2>3. Replacing
    BY DEF Replacing
  <2>4. Minted(q).raced
    BY <2>2, <2>3, Zenon DEF Minted
  <2>5. t \in DOMAIN tokens
    BY <1>1, <2>4
  <2> QED
    BY <1>2, <1>4, <2>5 DEF RequestOK, Covers, Good
<1>14. Presents(e)'
  BY <1>2, <1>3, <1>4, <1>8 DEF RequestOK, Presents, SetsPassword
<1> QED
  BY <1>9, <1>10, <1>11, <1>12, <1>13, <1>14 DEF RequestOK

\* A new password ends every session that did not overlap it; a new session is the
\* current password's or has overlapped one.
LEMMA CommitKeepsCurrent ==
  ASSUME TypeOK, IInv, NEW r \in Requests, Commit(r)
  PROVE  /\ SessionsAreCurrent'
         /\ DOMAIN tokens' # {} => password' # None
<1> DEFINE q == req[r]
<1>1. /\ q \in Request /\ RequestOK(q) /\ q.pc = "commit" /\ q.todo = {}
      /\ DOMAIN tokens' = DOMAIN tokens \cup Inserted(q)
      /\ \A t \in Inserted(q) : tokens'[t] = Minted(q)
  BY CommitRows
<1>2. password' = IF SetsPassword(q) THEN q.new ELSE password
  BY DEF Commit
<1>3. CASE SetsPassword(q)
  <2>1. Inserted(q) = {}
    BY <1>3 DEF Inserted, SetsPassword
  <2>2. q.new # None
    BY <1>1, <1>3, PasswordAssumption DEF RequestOK, Presents
  <2>3. ASSUME NEW t \in DOMAIN tokens PROVE tokens'[t].revoked \/ tokens'[t].raced
    BY <1>1, <1>3, <2>3, RowsKept DEF RequestOK, Covers, Good
  <2> QED
    BY <1>1, <1>2, <1>3, <2>1, <2>2, <2>3 DEF SessionsAreCurrent
<1>4. CASE ~SetsPassword(q)
  <2>1. password' = password
    BY <1>2, <1>4
  <2>2. ASSUME NEW t \in DOMAIN tokens
        PROVE  /\ password # None
               /\ ~tokens'[t].revoked => tokens'[t].raced \/ tokens'[t].pw = password
    BY <2>2, RowsKept DEF IInv, SessionsAreCurrent
  <2>3. ASSUME NEW t \in Inserted(q)
        PROVE  /\ password # None
               /\ tokens'[t].raced \/ tokens'[t].pw = password
    <3>1. CASE q.op = "login"
      BY <1>1, <3>1 DEF Minted, RequestOK, Verified
    <3>2. CASE q.op = "refresh"
      <4>1. q.token \in DOMAIN tokens
        BY <1>1, <3>2 DEF RequestOK, Presents
      <4>2. /\ q.raced \/ tokens[q.token].raced => Minted(q).raced
            /\ Minted(q).pw = tokens[q.token].pw
        BY <3>2, Zenon DEF Minted
      <4> QED
        BY <1>1, <3>2, <4>1, <4>2 DEF RequestOK, Verified, IInv
    <3> QED
      BY <3>1, <3>2 DEF Inserted
  <2> QED
    BY <1>1, <2>1, <2>2, <2>3 DEF SessionsAreCurrent
<1> QED
  BY <1>3, <1>4

LEMMA CommitStep ==
  ASSUME TypeOK, IInv, NEW r \in Requests, Commit(r)
  PROVE  TypeOK' /\ IInv'
<1>1. TypeOK'
  BY CommitType
<1>2. req'[r] = Idle
  BY DEF Commit, Ended
<1>3. \A s \in Requests : RequestOK(req[s])'
  <2>1. RequestOK(req[r])'
    <3>1. Idle.op = None /\ Idle.pc = "idle" /\ ~Idle.cred /\ ~Idle.marked
          /\ Idle.todo = {} /\ Idle.held = {} /\ Idle.mint = None
      BY DEF Idle
    <3> QED
      BY <1>1, <1>2, <3>1, PasswordAssumption
         DEF TypeOK, Ops, RequestOK, Verified, HoldsCredential, HoldsRows, Mints, Covers, Good,
           Presents, SetsPassword
  <2>2. ASSUME NEW s \in Requests, s # r PROVE RequestOK(req[s])'
    <3>1. PICK q, o, e : q = req[r] /\ o = req[s] /\ e = Overtaken(o, q)
      OBVIOUS
    <3>2. req'[s] = e
      BY <2>2, <3>1 DEF Commit
    <3>3. RequestOK(e)'
      BY <2>2, <3>1, Bystander
    <3> QED
      BY <3>2, <3>3
         DEF RequestOK, Verified, HoldsCredential, HoldsRows, Mints, Covers, Good, Presents
  <2> QED
    BY <2>1, <2>2
<1>4. Exclusive'
  <2>1. Idle.mint = None /\ ~Idle.cred /\ Idle.held = {}
    BY DEF Idle
  <2>2. \A s \in Requests \ {r} :
          /\ req'[s].cred = req[s].cred /\ req'[s].held = req[s].held
          /\ req'[s].mint = req[s].mint
    <3> SUFFICES ASSUME NEW s \in Requests \ {r}
                 PROVE  /\ req'[s].cred = req[s].cred /\ req'[s].held = req[s].held
                        /\ req'[s].mint = req[s].mint
      OBVIOUS
    <3>1. req[s] \in Request /\ req'[s] = Overtaken(req[s], req[r])
      BY DEF TypeOK, Commit
    <3> QED
      BY <3>1, OvertakenFields
  <2> QED
    BY <1>2, <2>1, <2>2 DEF IInv, Exclusive
<1>5. confirmed' = used'
  BY DEF IInv, Commit, Used
<1> QED
  BY <1>1, <1>3, <1>4, <1>5, CommitKeepsCurrent DEF IInv

-----------------------------------------------------------------------------
(* Reset tokens and registrations.                                         *)

LEMMA RequestResetStep ==
  ASSUME TypeOK, IInv, RequestReset
  PROVE  TypeOK' /\ IInv'
<1>1. issued \subseteq issued' /\ issued' \subseteq ResetIds
  BY DEF RequestReset, TypeOK
<1>2. UNCHANGED <<password, used, confirmed, tokens, req>>
  BY DEF RequestReset
<1>3. TypeOK'
  BY <1>1, <1>2 DEF TypeOK
<1>4. ASSUME NEW s \in Requests PROVE RequestOK(req[s])'
  <2>1. RequestOK(req[s])
    BY DEF IInv
  <2> QED
    BY <1>1, <1>2, <2>1
       DEF RequestOK, Verified, HoldsCredential, HoldsRows, Mints, Covers, Good, Presents
<1>5. Exclusive' /\ SessionsAreCurrent'
  BY <1>2 DEF IInv, Exclusive, SessionsAreCurrent
<1> QED
  BY <1>2, <1>3, <1>4, <1>5 DEF IInv

LEMMA RegisterRows ==
  ASSUME TypeOK, Register
  PROVE  /\ UNCHANGED <<issued, used, confirmed, req>>
         /\ password # None => password' = password
         /\ password' \in Passwords
         /\ \E n \in FreshIds :
              /\ DOMAIN tokens' = DOMAIN tokens \cup {n}
              /\ tokens'[n] \in Token /\ tokens'[n].pw = password'
              /\ ~tokens'[n].revoked /\ (tokens'[n].raced <=> Replacing)
              /\ \A t \in DOMAIN tokens : tokens'[t] = tokens[t]
<1>0. PICK b \in BOOLEAN : b = Replacing
  <2>1. Replacing \in BOOLEAN
    BY DEF Replacing
  <2> QED
    BY <2>1
<1>1. PICK p \in Passwords, n \in FreshIds :
        /\ password' = IF password = None THEN p ELSE password
        /\ tokens' = [t \in DOMAIN tokens \cup {n} |->
             IF t = n
             THEN [revoked |-> FALSE, pw |-> password', raced |-> b]
             ELSE tokens[t]]
  BY <1>0 DEF Register
<1>2. n \notin DOMAIN tokens
  BY DEF FreshIds
<1>3. password' \in Passwords
  BY <1>1 DEF TypeOK
<1>4. [revoked |-> FALSE, pw |-> password', raced |-> b] \in Token
  BY <1>3 DEF Token
<1>5. tokens'[n] = [revoked |-> FALSE, pw |-> password', raced |-> b]
  BY <1>1
<1> QED
  BY <1>0, <1>1, <1>2, <1>3, <1>4, <1>5 DEF Register

LEMMA RegisterStep ==
  ASSUME TypeOK, IInv, Register
  PROVE  TypeOK' /\ IInv'
<1>1. /\ UNCHANGED <<issued, used, confirmed, req>>
      /\ password # None => password' = password
      /\ password' \in Passwords
  BY RegisterRows
<1>2. PICK n \in FreshIds :
        /\ DOMAIN tokens' = DOMAIN tokens \cup {n}
        /\ tokens'[n] \in Token /\ tokens'[n].pw = password'
        /\ ~tokens'[n].revoked /\ (tokens'[n].raced <=> Replacing)
        /\ \A t \in DOMAIN tokens : tokens'[t] = tokens[t]
  BY RegisterRows
<1>3. TypeOK'
  <2>1. \A t \in DOMAIN tokens' : tokens'[t] \in Token
    BY <1>2 DEF TypeOK
  <2>2. tokens' = [t \in DOMAIN tokens' |-> tokens'[t]]
    BY DEF Register
  <2>3. DOMAIN tokens' \subseteq TokenIds
    BY <1>2 DEF TypeOK, FreshIds
  <2> QED
    BY <1>1, <2>1, <2>2, <2>3 DEF TypeOK
<1>4. ASSUME NEW s \in Requests PROVE RequestOK(req[s])'
  <2>1. PICK o : o = req[s]
    OBVIOUS
  <2>2. RequestOK(o) /\ req'[s] = o
    BY <1>1, <2>1 DEF IInv
  <2>3. Verified(o)' /\ HoldsCredential(o)' /\ Presents(o)'
    BY <1>1, <1>2, <2>2, PasswordAssumption
       DEF IInv, RequestOK, Verified, HoldsCredential, Presents
  <2>4. HoldsRows(o)'
    BY <1>2, <2>2 DEF RequestOK, HoldsRows
  <2>5. Mints(o)'
    BY <1>2, <2>1, <2>2 DEF RequestOK, Mints, FreshIds
  <2>6. Covers(o)'
    <3>1. SetsPassword(o) /\ o.pc \in {"update", "commit"} => Replacing
      BY <2>1 DEF Replacing
    <3> QED
      BY <1>2, <2>2, <3>1 DEF RequestOK, Covers, Good
  <2> QED
    BY <2>2, <2>3, <2>4, <2>5, <2>6
       DEF RequestOK, Verified, HoldsCredential, HoldsRows, Mints, Covers, Good, Presents
<1>5. Exclusive'
  BY <1>1 DEF IInv, Exclusive
<1>6. /\ SessionsAreCurrent'
      /\ password' # None
  BY <1>1, <1>2, PasswordAssumption DEF IInv, SessionsAreCurrent
<1> QED
  BY <1>1, <1>3, <1>4, <1>5, <1>6 DEF IInv

-----------------------------------------------------------------------------
(* Every step, and the first state.                                        *)

LEMMA NextStep ==
  ASSUME TypeOK, IInv, [Next]_vars
  PROVE  TypeOK' /\ IInv'
<1>1. ASSUME NEW r \in Requests, Serve(r) PROVE TypeOK' /\ IInv'
  <2>1. CASE Commit(r)
    BY <2>1, CommitStep
  <2>2. CASE Deny(r)
    BY <2>2, EndStep DEF Deny, Ended
  <2> QED
    BY <1>1, <2>1, <2>2, FindResetStep, ReadStep, RefuseStep, LockCredentialStep,
       MarkUsedStep, SelectStep, UpdateRowStep DEF Serve
<1>2. ASSUME NEW r \in Requests, Abort(r) PROVE TypeOK' /\ IInv'
  BY <1>2, EndStep DEF Abort, Ended
<1>3. CASE UNCHANGED vars
  <2>1. \A s \in Requests : RequestOK(req[s])'
    <3> SUFFICES ASSUME NEW s \in Requests PROVE RequestOK(req[s])'
      OBVIOUS
    <3>1. RequestOK(req[s])
      BY DEF IInv
    <3> QED
      BY <1>3, <3>1
         DEF vars, RequestOK, Verified, HoldsCredential, HoldsRows, Mints, Covers, Good, Presents
  <2> QED
    BY <1>3, <2>1 DEF vars, TypeOK, IInv, Exclusive, SessionsAreCurrent
<1> QED
  BY <1>1, <1>2, <1>3, ArriveStep, RequestResetStep, RegisterStep DEF Next

LEMMA InitInv == Init => TypeOK /\ IInv
<1> SUFFICES ASSUME Init PROVE TypeOK /\ IInv
  OBVIOUS
<1>1. DOMAIN tokens = {}
  BY DEF Init
<1>2. TypeOK
  <2>1. tokens \in [DOMAIN tokens -> Token]
    BY <1>1 DEF Init
  <2> QED
    BY <1>1, <2>1, IdleTyped DEF Init, TypeOK
<1>3. \A r \in Requests : RequestOK(req[r])
  BY <1>2, IdleOK DEF Init
<1>4. Exclusive
  <2>1. ~Idle.cred /\ Idle.held = {} /\ Idle.mint = None
    BY DEF Idle
  <2> QED
    BY <2>1 DEF Init, Exclusive
<1>5. confirmed = used
  BY DEF Init
<1> QED
  BY <1>1, <1>2, <1>3, <1>4, <1>5 DEF IInv, SessionsAreCurrent

LEMMA Invariant == Spec => [](TypeOK /\ IInv)
<1>1. Init => TypeOK /\ IInv
  BY InitInv
<1>2. TypeOK /\ IInv /\ [Next]_vars => TypeOK' /\ IInv'
  BY NextStep
<1> QED
  BY <1>1, <1>2, PTL DEF Spec

-----------------------------------------------------------------------------
(* Invariants.                                                             *)

\* The rows and requests keep their types (PasswordService and the requests it
\* meets).
THEOREM TypeCorrect == Spec => []TypeOK
<1> QED
  BY Invariant, PTL

\* The inductive invariant holds in every reachable state.
THEOREM InductiveInvariant == Spec => []IInv
<1> QED
  BY Invariant, PTL

\* However many requests interleave and however long the chains of refreshes are,
\* no session of an earlier password outlives a change or a reset, but for one of
\* whose chain a login, refresh or registration overlapped it (change_password,
\* confirm_reset, LoginService.login, TokenService.refresh).
THEOREM SessionsAreCurrentCorrect == Spec => []SessionsAreCurrent
<1>1. IInv => SessionsAreCurrent
  BY DEF IInv
<1> QED
  BY <1>1, Invariant, PTL

\* A request waits only for one that is further along.
LEMMA WaitsGoUp ==
  ASSUME TypeOK, IInv
  PROVE  WaitsAscend
<1> SUFFICES ASSUME NEW r \in Requests, NEW s \in Requests,
                    WaitsFor(r, s), req[s].pc \in {"credential", "reset", "update"}
             PROVE  \/ Stage(req[r]) < Stage(req[s])
                    \/ /\ Stage(req[r]) = 2 /\ Stage(req[s]) = 2
                       /\ \A t \in NextRows(req[r].todo), u \in NextRows(req[s].todo) :
                            t < u
  BY DEF WaitsAscend
<1>1. RequestOK(req[r]) /\ RequestOK(req[s]) /\ r # s
  BY DEF IInv, WaitsFor
<1>2. CASE req[r].pc = "credential" /\ req[s].cred
  BY <1>1, <1>2 DEF RequestOK, HoldsCredential, Stage
<1>3. CASE req[r].pc = "reset" /\ req[s].marked
  BY <1>1, <1>3 DEF RequestOK, HoldsCredential, Stage
<1>4. CASE req[r].pc = "update" /\ NextRows(req[r].todo) \cap req[s].held # {}
  <2>1. PICK x \in NextRows(req[r].todo) : x \in req[s].held
    BY <1>4
  <2>2. req[s].pc = "update"
    BY <1>1, <2>1 DEF RequestOK, HoldsRows
  <2>3. req[r].todo \subseteq Nat /\ req[s].todo \subseteq Nat
    BY PasswordAssumption DEF TypeOK, Request
  <2>4. ASSUME NEW t \in NextRows(req[r].todo), NEW u \in NextRows(req[s].todo)
        PROVE  t < u
    <3>1. x = t
      BY <2>3 DEF NextRows
    <3>2. x < u
      BY <1>1, <2>1 DEF RequestOK, HoldsRows, NextRows
    <3> QED
      BY <3>1, <3>2
  <2> QED
    BY <1>4, <2>2, <2>4 DEF Stage
<1> QED
  BY <1>2, <1>3, <1>4 DEF WaitsFor

\* Of requests that all waited for one of their own, one would wait for a token's
\* row; the one that waits for the highest would wait for a higher one.
LEMMA NoCycleGoesUp ==
  ASSUME TypeOK, WaitsAscend
  PROVE  NoWaitCycle
<1> SUFFICES ASSUME NEW D \in SUBSET Requests, D # {},
                    \A r \in D : \E s \in D : WaitsFor(r, s)
             PROVE  FALSE
  BY DEF NoWaitCycle
<1>1. \A r \in D : req[r].pc \in {"credential", "reset", "update"}
  BY DEF WaitsFor
<1>2. \A r, s \in D :
        WaitsFor(r, s) =>
          \/ Stage(req[r]) < Stage(req[s])
          \/ /\ Stage(req[r]) = 2 /\ Stage(req[s]) = 2
             /\ \A t \in NextRows(req[r].todo), u \in NextRows(req[s].todo) : t < u
  BY <1>1 DEF WaitsAscend
<1> DEFINE E == {r \in D : req[r].pc = "update"}
<1>3. \A r, s \in D : WaitsFor(r, s) => s \in E \/ (req[r].pc = "credential" /\ req[s].pc = "reset")
  BY <1>1, <1>2 DEF Stage
<1>4. E # {}
  <2>1. PICK r \in D : TRUE
    OBVIOUS
  <2>2. PICK s \in D : WaitsFor(r, s)
    OBVIOUS
  <2>3. PICK u \in D : WaitsFor(s, u)
    OBVIOUS
  <2> HIDE DEF E
  <2> QED
    BY <1>3, <2>2, <2>3
<1>5. \A r \in E : \E s \in E : WaitsFor(r, s)
  BY <1>3
<1> DEFINE wanted == [r \in E |-> CHOOSE t : t \in NextRows(req[r].todo)]
<1>6. \A r \in E : wanted[r] \in NextRows(req[r].todo)
  <2> SUFFICES ASSUME NEW r \in E PROVE \E t : t \in NextRows(req[r].todo)
    OBVIOUS
  <2> QED
    BY <1>5 DEF WaitsFor
<1>7. \A r \in E : wanted[r] \in Nat
  BY <1>6, PasswordAssumption DEF TypeOK, Request, NextRows
<1>8. IsFiniteSet(E)
  <2>1. E \in SUBSET Requests
    OBVIOUS
  <2> QED
    BY <2>1, FS_Subset, PasswordAssumption
<1> HIDE DEF wanted
<1>9. \A r, s \in E : WaitsFor(r, s) => wanted[r] < wanted[s]
  <2> SUFFICES ASSUME NEW r \in E, NEW s \in E, WaitsFor(r, s)
               PROVE  wanted[r] < wanted[s]
    OBVIOUS
  <2>1. Stage(req[r]) = 2 /\ Stage(req[s]) = 2
    BY DEF Stage
  <2> QED
    BY <1>2, <1>6, <2>1
<1> HIDE DEF E
<1>10. PICK m \in E : \A s \in E : wanted[s] <= wanted[m]
  BY <1>4, <1>7, <1>8, GreatestExists
<1> QED
  BY <1>5, <1>7, <1>9, <1>10

\* Transactions over the three tables never deadlock, however many run
\* (change_password, confirm_reset, and the requests of the other services).
THEOREM NoDeadlock == Spec => []NoWaitCycle
<1>1. TypeOK /\ IInv => NoWaitCycle
  BY WaitsGoUp, NoCycleGoesUp
<1> QED
  BY <1>1, Invariant, PTL

-----------------------------------------------------------------------------
(* Steps.                                                                  *)

\* A reset token that has been used is never used again by a confirmation that
\* began later (confirm_reset, get_active_by_token_hash).
THEOREM ReuseOverlapsCorrect == Spec => ReuseOverlaps
<1> DEFINE Overlap == \A r \in Requests : Commit(r) /\ req[r].op = "confirm" => ~req[r].spent
<1>1. TypeOK /\ IInv => Overlap
  BY DEF IInv, Commit, RequestOK, Presents
<1> QED
  BY <1>1, Invariant, PTL DEF ReuseOverlaps

\* What a commit is to one who sees only the account.
LEMMA CommitSeen ==
  ASSUME TypeOK, IInv, NEW r \in Requests, Commit(r)
  PROVE  Seen!Next \/ UNCHANGED Seen!vars
<1>1. PICK q \in Request : q = req[r]
  BY DEF TypeOK
<1>2. /\ RequestOK(q) /\ q.pc = "commit" /\ q.todo = {}
      /\ DOMAIN tokens' = DOMAIN tokens \cup Inserted(q)
      /\ Inserted(q) \cap DOMAIN tokens = {} /\ Inserted(q) \subseteq TokenIds
      /\ \A t \in Inserted(q) : tokens'[t] = Minted(q)
  BY <1>1, CommitRows
<1>3. \A t \in DOMAIN tokens :
        /\ tokens'[t].raced = tokens[t].raced
        /\ tokens'[t].revoked <=> tokens[t].revoked \/ t \in q.held
  BY <1>1, RowsKept
<1>4. /\ password' = IF SetsPassword(q) THEN q.new ELSE password
      /\ used' = IF q.op = "confirm" THEN used \cup {q.reset} ELSE used
      /\ q.op \in Ops \ {"fail"}
  <2>1. q.op # None
    BY <1>1, <1>2, PasswordAssumption DEF Commit, RequestOK, Presents
  <2> QED
    BY <1>1, <2>1 DEF Commit, Used, Request
<1>5. \A t \in Inserted(q) : ~tokens'[t].revoked /\ t \notin Good
  BY <1>2 DEF Minted, Good
<1>6. Good' = (Good \ q.held) \cup {t \in Inserted(q) : ~tokens'[t].raced}
  BY <1>2, <1>3, <1>5 DEF Good
<1>7. CASE q.op \in {"login", "refresh", "revoke"}
  <2>1. password' = password /\ used' = used
    BY <1>4, <1>7 DEF SetsPassword
  <2>2. PICK n \in TokenIds \cup {None} : Inserted(q) = {n} \cap TokenIds
    <3>1. Inserted(q) = {} \/ Inserted(q) = {q.mint}
      BY DEF Inserted
    <3>2. CASE Inserted(q) = {}
      <4>1. {None} \cap TokenIds = {}
        BY PasswordAssumption
      <4> QED
        BY <3>2, <4>1
    <3>3. CASE Inserted(q) = {q.mint}
      <4>1. q.mint \in TokenIds /\ {q.mint} = {q.mint} \cap TokenIds
        BY <1>2, <3>3
      <4> QED
        BY <3>3, <4>1
    <3> QED
      BY <3>1, <3>2, <3>3
  <2>3. PICK t \in TokenIds \cup {None} : q.held = {t} \cap TokenIds
    <3>1. q.held = {} \/ (q.held = {q.token} /\ q.token \in TokenIds)
      BY <1>2, <1>7 DEF RequestOK, HoldsRows, Presents, TypeOK
    <3>2. {None} \cap TokenIds = {}
      BY PasswordAssumption
    <3>3. q.token \in TokenIds => {q.token} = {q.token} \cap TokenIds
      OBVIOUS
    <3> QED
      BY <3>1, <3>2, <3>3
  <2>4. CASE Good' = Good \ q.held
    <3>1. t \in TokenIds => Seen!Leave(t)
      BY <2>1, <2>3, <2>4 DEF Seen!Leave
    <3>2. t \notin TokenIds => UNCHANGED Seen!vars
      BY <2>1, <2>3, <2>4 DEF Seen!vars
    <3> QED
      BY <3>1, <3>2 DEF Seen!Next
  <2>5. CASE n \in TokenIds /\ Good' = (Good \ q.held) \cup {n}
    <3>1. n \notin Good
      BY <1>5, <2>2, <2>5
    <3>2. t \in TokenIds => Seen!Renew(t, n)
      BY <2>1, <2>3, <2>5, <3>1 DEF Seen!Renew
    <3>3. password # None
      BY <1>2, <1>7, <2>2, <2>5 DEF IInv, RequestOK, Verified, Presents, Inserted
    <3>4. t \notin TokenIds => Seen!LogIn(n)
      BY <2>1, <2>3, <2>5, <3>1, <3>3 DEF Seen!LogIn
    <3> QED
      BY <2>5, <3>2, <3>4 DEF Seen!Next
  <2> QED
    BY <1>6, <2>2, <2>4, <2>5
<1>8. CASE SetsPassword(q)
  <2>1. Inserted(q) = {}
    BY <1>8 DEF Inserted, SetsPassword
  <2>2. Good' = {}
    BY <1>2, <1>6, <1>8, <2>1 DEF RequestOK, Covers
  <2>3. password # None /\ q.new \in Passwords /\ password' = q.new
    BY <1>2, <1>4, <1>8 DEF RequestOK, Verified, Presents, SetsPassword
  <2>4. CASE q.op = "change"
    <3>1. Seen!Change(q.new)
      BY <1>4, <2>2, <2>3, <2>4 DEF Seen!Change
    <3> QED
      BY <2>3, <3>1 DEF Seen!Next
  <2>5. CASE q.op = "confirm"
    <3>1. q.reset \in ResetIds
      BY <1>2, <2>5 DEF RequestOK, Presents, TypeOK
    <3>2. Seen!Reset(q.new, q.reset)
      BY <1>4, <2>2, <2>3, <2>5 DEF Seen!Reset
    <3> QED
      BY <2>3, <3>1, <3>2 DEF Seen!Next
  <2> QED
    BY <1>8, <2>4, <2>5 DEF SetsPassword
<1> QED
  BY <1>4, <1>7, <1>8 DEF Ops, SetsPassword

LEMMA RegisterSeen ==
  ASSUME TypeOK, IInv, Register
  PROVE  Seen!Next \/ UNCHANGED Seen!vars
<1>1. used' = used /\ (password # None => password' = password) /\ password' \in Passwords
  BY RegisterRows
<1>2. PICK n \in FreshIds :
        /\ DOMAIN tokens' = DOMAIN tokens \cup {n}
        /\ ~tokens'[n].revoked
        /\ \A t \in DOMAIN tokens : tokens'[t] = tokens[t]
  BY RegisterRows
<1>3. n \in TokenIds /\ n \notin Good /\ n \notin DOMAIN tokens
  BY DEF FreshIds, Good
<1>4. Good' = IF tokens'[n].raced THEN Good ELSE Good \cup {n}
  BY <1>2, <1>3 DEF Good
<1>5. CASE password = None
  <2>1. DOMAIN tokens = {} /\ Good = {}
    BY <1>5 DEF IInv, Good
  <2>2. ~Replacing
    BY <1>5 DEF Replacing, IInv, RequestOK, Verified, SetsPassword
  <2>3. ~tokens'[n].raced
    BY <1>2, <2>1, <2>2, RegisterRows
  <2>4. Seen!Register(password', n)
    BY <1>1, <1>4, <1>5, <2>1, <2>3 DEF Seen!Register
  <2> QED
    BY <1>1, <1>3, <2>4 DEF Seen!Next
<1>6. CASE password # None /\ Good' = Good \cup {n}
  <2>1. Seen!LogIn(n)
    BY <1>1, <1>3, <1>6 DEF Seen!LogIn
  <2> QED
    BY <1>3, <2>1 DEF Seen!Next
<1>7. CASE password # None /\ Good' = Good
  BY <1>1, <1>7 DEF Seen!vars
<1> QED
  BY <1>4, <1>5, <1>6, <1>7

\* To one who sees the password, the sessions and the spent reset tokens,
\* the service is an Account: changes and resets are atomic with the end of the
\* sessions (PasswordService, LoginService, TokenService).
THEOREM Refinement == Spec => ImplementsAccount
<1>1. Init => Seen!Init
  <2> SUFFICES ASSUME Init PROVE password = None /\ Good = {} /\ used = {}
    BY DEF Seen!Init
  <2>1. DOMAIN tokens = {}
    BY DEF Init
  <2> QED
    BY <2>1 DEF Init, Good
<1>2. TypeOK /\ IInv /\ [Next]_vars => [Seen!Next]_(Seen!vars)
  <2> SUFFICES ASSUME TypeOK, IInv, [Next]_vars
               PROVE  Seen!Next \/ UNCHANGED Seen!vars
    OBVIOUS
  <2>1. ASSUME password' = password, used' = used, tokens' = tokens
        PROVE  UNCHANGED Seen!vars
    BY <2>1 DEF Seen!vars, Good
  <2>2. ASSUME NEW r \in Requests, Serve(r), ~Commit(r)
        PROVE  password' = password /\ used' = used /\ tokens' = tokens
    BY <2>2 DEF Serve, FindReset, Read, Refuse, LockCredential, MarkUsed, Select,
                UpdateRow, Deny
  <2>3. ASSUME NEW r \in Requests, Arrive(r) \/ Abort(r)
        PROVE  password' = password /\ used' = used /\ tokens' = tokens
    BY <2>3 DEF Arrive, BeginLogin, BeginChange, BeginConfirm, BeginRefresh, BeginRevoke,
                Abort
  <2>4. CASE RequestReset
    BY <2>1, <2>4 DEF RequestReset
  <2>5. CASE UNCHANGED vars
    BY <2>1, <2>5 DEF vars
  <2> QED
    BY <2>1, <2>2, <2>3, <2>4, <2>5, CommitSeen, RegisterSeen DEF Next
<1> QED
  BY <1>1, <1>2, Invariant, PTL DEF Spec, ImplementsAccount, Seen!Spec
=============================================================================
