------------------------- MODULE TokenLifecycleProofs -------------------------
(***************************************************************************)
(* Theorems about TokenLifecycle, for every set of users, contexts, ids    *)
(* and requests, for both orders of answer and commit.                     *)
(*                                                                         *)
(* TypeOK and IInv are inductive together.  A step either changes nothing  *)
(* but one request, which LocalStep deals with once for all such actions,  *)
(* or is a Commit, which CommitStep deals with.                            *)
(***************************************************************************)
EXTENDS TokenLifecycle, FiniteOrders, TLAPS

\* A request that has ended, or that has only its answer left to send, holds
\* nothing that the invariant restricts.
LEMMA QuietOK ==
  ASSUME NEW q \in Request, q.op = None, q.held = {}, q.todo = {}, q.seen = {},
         q.pc = "idle" \/ (q.pc = "answer" /\ ~AnswerFirst)
  PROVE  RequestOK(q)
  BY ConstantsAssumption DEF Ops, RequestOK, RowsExist, Ascending, Closed, Reading, Written,
         MintsForSomeone, WritesNothingElse, Replaces, Covers, Request

LEMMA IdleTyped == Idle \in Request
  BY DEF Idle, Request

\* Steps that leave the table alone and change one request only.
LEMMA LocalStep ==
  ASSUME TypeOK, IInv,
         NEW r \in Requests, NEW q \in Request,
         RequestOK(q),
         \A s \in Requests \ {r} : q.held \cap req[s].held = {},
         \A s \in Requests \ {r} : q.new # None => q.new # req[s].new,
         tokens' = tokens,
         req' = [req EXCEPT ![r] = q]
  PROVE  IInv'
<1>1. \A s \in Requests : req'[s] = IF s = r THEN q ELSE req[s]
  BY DEF TypeOK
<1>2. \A s \in Requests : RequestOK(req[s])'
  <2> SUFFICES ASSUME NEW s \in Requests PROVE RequestOK(req[s])'
    OBVIOUS
  <2>1. RequestOK(req'[s])
    BY <1>1 DEF IInv
  <2> QED
    BY <2>1 DEF RequestOK, RowsExist, Ascending, Closed, Reading, Written,
         MintsForSomeone, WritesNothingElse, Replaces, Covers
<1>3. LocksExclusive'
  BY <1>1 DEF IInv, LocksExclusive
<1>4. MintsDistinct'
  BY <1>1 DEF IInv, MintsDistinct
<1>5. RotationChain'
  BY DEF IInv, RotationChain
<1>6. ReplacedAreDead'
  BY DEF IInv, ReplacedAreDead, Store!ParentsDead, Store!Stored
<1> QED
  BY <1>2, <1>3, <1>4, <1>5, <1>6 DEF IInv

\* What a commit does to the rows: those that were stored keep their identity,
\* stay revoked if they were, and are linked to a replacement only by the
\* refresh they were presented to; the minted row is new.
LEMMA CommitRows ==
  ASSUME TypeOK, IInv, NEW r \in Requests, Commit(r)
  PROVE  LET q == req[r] IN
         /\ q \in Request /\ RequestOK(q) /\ q.pc = "commit" /\ q.op \in Ops
         /\ DOMAIN tokens' = DOMAIN tokens \cup Inserted(q)
         /\ Inserted(q) \cap DOMAIN tokens = {}
         /\ \A t \in Inserted(q) : tokens'[t] = NewRow(q)
         /\ \A t \in DOMAIN tokens :
              tokens'[t] = IF t \in q.held THEN Updated(tokens[t], q)
                           ELSE tokens[t]
<1> DEFINE q == req[r]
<1>1. /\ q \in Request /\ RequestOK(q) /\ q.pc = "commit"
  BY DEF TypeOK, IInv, Commit
<1>2. q.op \in Ops
  BY <1>1 DEF Request, RequestOK, Closed
<1>3. Inserted(q) \cap DOMAIN tokens = {}
  BY <1>1, <1>2, ConstantsAssumption DEF RequestOK, MintsForSomeone, Inserted
<1>4. tokens' = Published(q)
  BY DEF Commit
<1> QED
  BY <1>1, <1>2, <1>3, <1>4 DEF Published

LEMMA RowsKept ==
  ASSUME TypeOK, IInv, NEW r \in Requests, Commit(r), NEW t \in DOMAIN tokens
  PROVE  /\ t \in DOMAIN tokens'
         /\ tokens'[t].user = tokens[t].user /\ tokens'[t].ctx = tokens[t].ctx
         /\ tokens'[t].exp = tokens[t].exp /\ tokens'[t].from = tokens[t].from
         /\ tokens[t].revoked => tokens'[t].revoked
         /\ t \in req[r].held => tokens'[t].revoked
         /\ tokens'[t].next = IF req[r].op = "refresh" /\ t \in req[r].held
                              THEN req[r].new ELSE tokens[t].next
<1>1. tokens[t] \in Row
  BY DEF TypeOK
<1>2. /\ t \in DOMAIN tokens'
      /\ tokens'[t] = IF t \in req[r].held THEN Updated(tokens[t], req[r])
                      ELSE tokens[t]
  BY CommitRows
<1>3. CASE t \in req[r].held
  <2>1. tokens'[t] = Updated(tokens[t], req[r])
    BY <1>2, <1>3
  <2> QED
    BY <1>1, <1>2, <1>3, <2>1 DEF Row, Updated
<1>4. CASE t \notin req[r].held
  BY <1>2, <1>4
<1> QED
  BY <1>3, <1>4

\* A transaction commits: its rows are published and its request is over or
\* about to answer.
LEMMA CommitStep ==
  ASSUME TypeOK, IInv, NEW r \in Requests, Commit(r), TypeOK'
  PROVE  IInv'
<1> DEFINE q == req[r]
           e == req'[r]
<1>1. /\ q \in Request /\ RequestOK(q) /\ q.pc = "commit" /\ q.op \in Ops
      /\ DOMAIN tokens' = DOMAIN tokens \cup Inserted(q)
      /\ Inserted(q) \cap DOMAIN tokens = {}
      /\ \A t \in Inserted(q) : tokens'[t] = NewRow(q)
  BY CommitRows
<1>2. \A s \in Requests \ {r} : req'[s] = req[s]
  BY DEF Commit, TypeOK
<1>3. /\ e.op = None /\ e.held = {} /\ e.todo = {} /\ e.seen = {}
      /\ e.pc = "idle" \/ (e.pc = "answer" /\ ~AnswerFirst)
      /\ e.new \in {None, q.new}
  BY DEF Commit, TypeOK, Idle
<1>4. \A s \in Requests : RequestOK(req[s])'
  <2>1. ASSUME NEW s \in Requests, s # r PROVE RequestOK(req[s])'
    <3> DEFINE p == req[s]
    <3>1. p \in Request /\ RequestOK(p) /\ req'[s] = p
      BY <1>2, <2>1 DEF TypeOK, IInv
    <3>2. \A t \in DOMAIN tokens :
            /\ t \in DOMAIN tokens'
            /\ tokens'[t].user = tokens[t].user
            /\ tokens'[t].ctx = tokens[t].ctx
            /\ tokens'[t].exp = tokens[t].exp
            /\ tokens[t].revoked => tokens'[t].revoked
      BY RowsKept
    <3>3. RowsExist(p)' /\ Ascending(p)' /\ Closed(p)' /\ Reading(p)'
          /\ Written(p)' /\ WritesNothingElse(p)'
      BY <3>1, <3>2 DEF RequestOK, RowsExist, Ascending, Closed, Reading,
           Written, WritesNothingElse
    <3>4. MintsForSomeone(p)'
      BY <1>1, <2>1, <3>1
         DEF RequestOK, MintsForSomeone, IInv, MintsDistinct, Inserted
    <3>5. Replaces(p)'
      BY <3>1, <3>2 DEF RequestOK, Replaces
    <3>6. Covers(p)'
      BY <3>1, <3>2 DEF RequestOK, Covers, RowsExist
    <3> QED
      BY <3>1, <3>3, <3>4, <3>5, <3>6 DEF RequestOK
  <2>2. RequestOK(req[r])'
    BY <1>3, ConstantsAssumption, TypeOK'
       DEF Ops, RequestOK, RowsExist, Ascending, Closed, Reading, Written,
         MintsForSomeone, WritesNothingElse, Replaces, Covers, TypeOK, Request
  <2> QED
    BY <2>1, <2>2
<1>5. LocksExclusive'
  BY <1>2, <1>3 DEF IInv, LocksExclusive
<1>6. MintsDistinct'
  BY <1>2, <1>3 DEF IInv, MintsDistinct
<1>7. RotationChain'
  <2> SUFFICES ASSUME NEW t \in DOMAIN tokens', tokens'[t].next # None
               PROVE  LET n == tokens'[t].next IN
                      /\ tokens'[t].revoked
                      /\ n \in DOMAIN tokens'
                      /\ tokens'[n].from = t
                      /\ tokens'[n].user = tokens'[t].user
                      /\ tokens'[n].ctx = tokens'[t].ctx
                      /\ tokens'[n].exp < tokens'[t].exp + Ttl
    BY DEF RotationChain
  <2>1. t \in DOMAIN tokens
    BY <1>1 DEF NewRow
  <2>2. CASE q.op = "refresh" /\ t \in q.held
    <3>1. /\ t = q.tok /\ q.new # None /\ q.at < tokens[t].exp
          /\ q.user = tokens[t].user /\ q.ctx = tokens[t].ctx
      BY <1>1, <2>2 DEF RequestOK, Replaces
    <3>2. tokens'[t].next = q.new /\ tokens'[t].revoked
          /\ tokens'[t].user = tokens[t].user /\ tokens'[t].ctx = tokens[t].ctx
          /\ tokens'[t].exp = tokens[t].exp
      BY RowsKept, <2>1, <2>2
    <3>3. q.new \in DOMAIN tokens' /\ tokens'[q.new] = NewRow(q)
      BY <1>1, <3>1 DEF Inserted
    <3>4. q.at + Ttl < tokens[t].exp + Ttl
      BY <1>1, <2>1, <3>1, ConstantsAssumption DEF TypeOK, Row, Request
    <3> QED
      BY <3>1, <3>2, <3>3, <3>4 DEF NewRow
  <2>3. CASE ~(q.op = "refresh" /\ t \in q.held)
    <3> DEFINE n == tokens[t].next
    <3>1. /\ tokens'[t].next = n /\ tokens'[t].user = tokens[t].user
          /\ tokens'[t].ctx = tokens[t].ctx /\ tokens'[t].exp = tokens[t].exp
          /\ tokens[t].revoked => tokens'[t].revoked
      BY RowsKept, <2>1, <2>3
    <3>2. /\ tokens[t].revoked /\ n \in DOMAIN tokens /\ tokens[n].from = t
          /\ tokens[n].user = tokens[t].user /\ tokens[n].ctx = tokens[t].ctx
          /\ tokens[n].exp < tokens[t].exp + Ttl
      BY <2>1, <3>1 DEF IInv, RotationChain
    <3>3. /\ n \in DOMAIN tokens' /\ tokens'[n].user = tokens[n].user
          /\ tokens'[n].ctx = tokens[n].ctx /\ tokens'[n].exp = tokens[n].exp
          /\ tokens'[n].from = tokens[n].from
      BY RowsKept, <3>2
    <3> QED
      BY <3>1, <3>2, <3>3
  <2> QED
    BY <2>2, <2>3
<1>8. ReplacedAreDead'
  <2> SUFFICES ASSUME NEW n \in DOMAIN tokens', tokens'[n].from # None
               PROVE  /\ tokens'[n].from \in DOMAIN tokens'
                      /\ tokens'[tokens'[n].from].revoked
    BY TypeOK' DEF ReplacedAreDead, Store!ParentsDead, Store!Stored, TypeOK, Row
  <2>1. CASE n \in DOMAIN tokens
    <3> DEFINE p == tokens[n].from
    <3>1. tokens'[n].from = p
      BY RowsKept, <2>1
    <3>2. p \in DOMAIN tokens /\ tokens[p].revoked
      BY <2>1, <3>1
         DEF IInv, ReplacedAreDead, Store!ParentsDead, Store!Stored, TypeOK, Row
    <3> QED
      BY RowsKept, <3>1, <3>2
  <2>2. CASE n \in Inserted(q)
    <3>1. q.tok # None /\ tokens'[n].from = q.tok
      BY <1>1, <2>2 DEF NewRow
    <3>2. q.op = "refresh"
      BY <1>1, <2>2, <3>1 DEF Ops, RequestOK, WritesNothingElse, Inserted
    <3>3. q.held = {q.tok} /\ q.tok \in DOMAIN tokens
      BY <1>1, <3>2 DEF RequestOK, Replaces, Written
    <3> QED
      BY RowsKept, <3>1, <3>3
  <2> QED
    BY <1>1, <2>1, <2>2
<1> QED
  BY <1>4, <1>5, <1>6, <1>7, <1>8 DEF IInv

-----------------------------------------------------------------------------
(* Every action keeps TypeOK and IInv.                                     *)

\* LocalStep for a request whose mint and locks do not grow.
LEMMA ShrinkStep ==
  ASSUME TypeOK, IInv,
         NEW r \in Requests, NEW q \in Request,
         RequestOK(q),
         q.held \subseteq req[r].held, q.new \in {None, req[r].new},
         tokens' = tokens,
         req' = [req EXCEPT ![r] = q]
  PROVE  IInv'
<1>1. \A s \in Requests \ {r} : q.held \cap req[s].held = {}
  BY DEF IInv, LocksExclusive
<1>2. \A s \in Requests \ {r} : q.new # None => q.new # req[s].new
  BY DEF IInv, MintsDistinct
<1> QED
  BY <1>1, <1>2, LocalStep

\* Nothing but one request changes, and what becomes of it has its type.
LEMMA LocalType ==
  ASSUME TypeOK, NEW r \in Requests, NEW q \in Request,
         req' = [req EXCEPT ![r] = q],
         known' \subseteq TokenIds,
         UNCHANGED <<tokens, events, clock>>
  PROVE  TypeOK'
  BY DEF TypeOK

LEMMA IdleStep ==
  ASSUME TypeOK, IInv, NEW r \in Requests,
         req' = [req EXCEPT ![r] = Idle],
         known' \subseteq TokenIds,
         UNCHANGED <<tokens, events, clock>>
  PROVE  TypeOK' /\ IInv'
<1>1. RequestOK(Idle)
  BY QuietOK, IdleTyped DEF Idle
<1> QED
  BY <1>1, IdleTyped, LocalType, ShrinkStep DEF Idle

LEMMA BeginIssueStep ==
  ASSUME TypeOK, IInv, NEW r \in Requests, BeginIssue(r)
  PROVE  TypeOK' /\ IInv'
<1>1. PICK u \in Users, c \in Contexts, n \in FreshIds :
        req' = [req EXCEPT ![r] =
          [Idle EXCEPT !.pc = Return, !.op = "issue", !.user = u,
                       !.ctx = c, !.new = n, !.at = clock]]
  BY DEF BeginIssue
<1> DEFINE q == [Idle EXCEPT !.pc = Return, !.op = "issue", !.user = u,
                             !.ctx = c, !.new = n, !.at = clock]
<1>2. q \in Request
  BY DEF TypeOK, Idle, Request, Ops, Return, FreshIds
<1>3. RequestOK(q)
  BY ConstantsAssumption
     DEF RequestOK, RowsExist, Ascending, Closed, Reading, Written, Ops, Return,
       MintsForSomeone, WritesNothingElse, Replaces, Covers, Idle, FreshIds
<1>4. /\ \A s \in Requests \ {r} : q.held \cap req[s].held = {}
      /\ \A s \in Requests \ {r} : q.new # None => q.new # req[s].new
  BY DEF Idle, FreshIds
<1> QED
  BY <1>1, <1>2, <1>3, <1>4, LocalType, LocalStep DEF BeginIssue, TypeOK

LEMMA BeginTokenCallStep ==
  ASSUME TypeOK, IInv, NEW r \in Requests, BeginTokenCall(r)
  PROVE  TypeOK' /\ IInv'
<1>1. PICK op \in {"refresh", "revoke"}, t \in known :
        req' = [req EXCEPT ![r] =
          [Idle EXCEPT !.pc = "lookup", !.op = op, !.tok = t, !.at = clock]]
  BY DEF BeginTokenCall
<1> DEFINE q == [Idle EXCEPT !.pc = "lookup", !.op = op, !.tok = t,
                             !.at = clock]
<1>2. q \in Request
  BY DEF TypeOK, Idle, Request, Ops
<1>3. RequestOK(q)
  BY ConstantsAssumption
     DEF RequestOK, RowsExist, Ascending, Closed, Reading, Written, Ops,
       MintsForSomeone, WritesNothingElse, Replaces, Covers, Idle
<1>4. q.held = {} /\ q.new = None
  BY DEF Idle
<1> QED
  BY <1>1, <1>2, <1>3, <1>4, LocalType, ShrinkStep DEF BeginTokenCall, TypeOK

LEMMA BeginRevokeAllStep ==
  ASSUME TypeOK, IInv, NEW r \in Requests, BeginRevokeAll(r)
  PROVE  TypeOK' /\ IInv'
<1>1. PICK u \in Users, c \in Contexts \cup {None} :
        req' = [req EXCEPT ![r] =
          [Idle EXCEPT !.pc = "select", !.op = "revoke_all", !.user = u,
                       !.ctx = c]]
  BY DEF BeginRevokeAll
<1> DEFINE q == [Idle EXCEPT !.pc = "select", !.op = "revoke_all", !.user = u,
                             !.ctx = c]
<1>2. q \in Request
  BY DEF TypeOK, Idle, Request, Ops
<1>3. RequestOK(q)
  BY ConstantsAssumption
     DEF RequestOK, RowsExist, Ascending, Closed, Reading, Written, Ops,
       MintsForSomeone, WritesNothingElse, Replaces, Covers, Idle
<1>4. q.held = {} /\ q.new = None
  BY DEF Idle
<1> QED
  BY <1>1, <1>2, <1>3, <1>4, LocalType, ShrinkStep DEF BeginRevokeAll, TypeOK

LEMMA LookupRefreshStep ==
  ASSUME TypeOK, IInv, NEW r \in Requests, LookupRefresh(r)
  PROVE  TypeOK' /\ IInv'
<1> DEFINE t == req[r].tok
<1>1. PICK n \in FreshIds :
        req' = [req EXCEPT ![r] =
          [req[r] EXCEPT !.pc = "update", !.user = tokens[t].user,
                         !.ctx = tokens[t].ctx, !.new = n, !.todo = {t}]]
  BY DEF LookupRefresh
<1> DEFINE q == [req[r] EXCEPT !.pc = "update", !.user = tokens[t].user,
                               !.ctx = tokens[t].ctx, !.new = n, !.todo = {t}]
<1>2. /\ req[r] \in Request /\ RequestOK(req[r])
      /\ req[r].pc = "lookup" /\ req[r].op = "refresh"
      /\ t \in DOMAIN tokens /\ t \in TokenIds /\ tokens[t] \in Row
      /\ req[r].at < tokens[t].exp
  <2>1. /\ req[r] \in Request /\ RequestOK(req[r])
        /\ req[r].pc = "lookup" /\ req[r].op = "refresh"
        /\ t \in DOMAIN tokens /\ tokens[t].exp > req[r].at
    BY DEF TypeOK, IInv, LookupRefresh, Accepted
  <2>2. t \in TokenIds /\ tokens[t] \in Row
    BY <2>1 DEF TypeOK
  <2> QED
    BY <2>1, <2>2 DEF Row, Request
<1>3. q \in Request
  BY <1>2 DEF Request, Row, FreshIds
<1>4. req[r].held = {} /\ req[r].seen \subseteq DOMAIN tokens
  BY <1>2 DEF RequestOK, Reading, RowsExist
<1>5. RequestOK(q)
  BY <1>2, <1>4, ConstantsAssumption
     DEF RequestOK, RowsExist, Ascending, Closed, Reading, Written, Ops,
       MintsForSomeone, WritesNothingElse, Replaces, Covers, FreshIds, Row,
       Request
<1>6. /\ \A s \in Requests \ {r} : q.held \cap req[s].held = {}
      /\ \A s \in Requests \ {r} : q.new # None => q.new # req[s].new
  BY <1>2, <1>4 DEF FreshIds, Request
<1> QED
  BY <1>1, <1>3, <1>5, <1>6, LocalType, LocalStep DEF LookupRefresh, TypeOK

LEMMA LookupRevokeStep ==
  ASSUME TypeOK, IInv, NEW r \in Requests, LookupRevoke(r)
  PROVE  TypeOK' /\ IInv'
<1> DEFINE t == req[r].tok
           q == [req[r] EXCEPT !.pc = "update", !.user = tokens[t].user,
                               !.todo = {t}]
<1>1. req' = [req EXCEPT ![r] = q]
  BY DEF LookupRevoke
<1>2. /\ req[r] \in Request /\ RequestOK(req[r])
      /\ req[r].pc = "lookup" /\ req[r].op = "revoke"
      /\ t \in DOMAIN tokens /\ t \in TokenIds /\ tokens[t] \in Row
  BY DEF TypeOK, IInv, LookupRevoke, Accepted
<1>3. q \in Request
  BY <1>2 DEF Request, Row
<1>4. req[r].held = {} /\ req[r].new = None /\ req[r].seen \subseteq DOMAIN tokens
  BY <1>2 DEF RequestOK, Reading, RowsExist
<1>5. RequestOK(q)
  BY <1>2, <1>4, ConstantsAssumption
     DEF RequestOK, RowsExist, Ascending, Closed, Reading, Written, Ops,
       MintsForSomeone, WritesNothingElse, Replaces, Covers, Request
<1>6. q.held = req[r].held /\ q.new = req[r].new
  BY <1>2 DEF Request
<1> QED
  BY <1>1, <1>3, <1>5, <1>6, LocalType, ShrinkStep DEF LookupRevoke, TypeOK

LEMMA SelectStep ==
  ASSUME TypeOK, IInv, NEW r \in Requests, Select(r)
  PROVE  TypeOK' /\ IInv'
<1> DEFINE scope == InScope(req[r].user, req[r].ctx)
           q == [req[r] EXCEPT
                   !.pc = IF Unrevoked(scope) = {} THEN Return ELSE "update",
                   !.todo = Unrevoked(scope), !.seen = scope]
<1>1. req' = [req EXCEPT ![r] = q]
  BY DEF Select
<1>2. /\ req[r] \in Request /\ RequestOK(req[r]) /\ req[r].pc = "select"
      /\ scope \subseteq DOMAIN tokens /\ DOMAIN tokens \subseteq TokenIds
  BY DEF TypeOK, IInv, Select, InScope
<1>3. q \in Request
  BY <1>2 DEF Request, Unrevoked, Return
<1>4. req[r].held = {} /\ req[r].new = None
  BY <1>2 DEF RequestOK, Reading
<1>5. RequestOK(q)
  <2>1. Closed(q) /\ WritesNothingElse(q) /\ Replaces(q)
    BY <1>2, <1>4, ConstantsAssumption
       DEF RequestOK, Reading, Closed, WritesNothingElse, Replaces, Ops, Request
  <2>2. RowsExist(q) /\ Ascending(q) /\ Reading(q) /\ Written(q)
        /\ MintsForSomeone(q) /\ Covers(q)
    BY <1>2, <1>4
       DEF RowsExist, Ascending, Reading, Written, MintsForSomeone, Covers,
         Unrevoked, Return, Request
  <2> QED
    BY <2>1, <2>2 DEF RequestOK
<1>6. q.held = req[r].held /\ q.new = req[r].new
  BY <1>2 DEF Request
<1> QED
  BY <1>1, <1>3, <1>5, <1>6, LocalType, ShrinkStep DEF Select, TypeOK

LEMMA UpdateRowStep ==
  ASSUME TypeOK, IInv, NEW r \in Requests, UpdateRow(r)
  PROVE  TypeOK' /\ IInv'
<1>1. PICK t \in NextRows(req[r].todo) :
        /\ ~Locked(t)
        /\ req' = [req EXCEPT ![r] =
             [req[r] EXCEPT !.todo = req[r].todo \ {t},
                            !.held = req[r].held \cup {t},
                            !.pc = IF req[r].todo = {t} THEN Return
                                   ELSE "update"]]
  BY DEF UpdateRow
<1> DEFINE q == [req[r] EXCEPT !.todo = req[r].todo \ {t},
                               !.held = req[r].held \cup {t},
                               !.pc = IF req[r].todo = {t} THEN Return
                                      ELSE "update"]
<1>2. /\ req[r] \in Request /\ RequestOK(req[r]) /\ req[r].pc = "update"
      /\ t \in req[r].todo /\ t \in TokenIds
  BY DEF TypeOK, IInv, UpdateRow, NextRows, Request
<1>3. q \in Request
  BY <1>2 DEF Request, Return
<1>4. Ascending(q)
  BY <1>2, ConstantsAssumption DEF RequestOK, Ascending, NextRows, Request
<1>5. RowsExist(q) /\ Closed(q) /\ Reading(q) /\ Written(q)
  BY <1>2 DEF RequestOK, RowsExist, Closed, Reading, Written, Return, Request
<1>6. MintsForSomeone(q) /\ WritesNothingElse(q) /\ Replaces(q) /\ Covers(q)
  BY <1>2 DEF RequestOK, MintsForSomeone, WritesNothingElse, Replaces, Covers,
       Request
<1>7. /\ \A s \in Requests \ {r} : q.held \cap req[s].held = {}
      /\ \A s \in Requests \ {r} : q.new # None => q.new # req[s].new
  BY <1>1, <1>2 DEF IInv, LocksExclusive, MintsDistinct, Locked, Request
<1>8. RequestOK(q)
  BY <1>4, <1>5, <1>6 DEF RequestOK
<1>9. /\ req' = [req EXCEPT ![r] = q]
      /\ UNCHANGED <<tokens, known, events, clock>> /\ known' \subseteq TokenIds
  BY <1>1 DEF UpdateRow, TypeOK
<1> HIDE DEF q
<1> QED
  BY <1>3, <1>7, <1>8, <1>9, LocalType, LocalStep

LEMMA CommitType ==
  ASSUME TypeOK, IInv, NEW r \in Requests, Commit(r)
  PROVE  TypeOK'
<1> DEFINE q == req[r]
<1>1. /\ q \in Request /\ RequestOK(q) /\ q.pc = "commit" /\ q.op \in Ops
      /\ DOMAIN tokens' = DOMAIN tokens \cup Inserted(q)
      /\ Inserted(q) \cap DOMAIN tokens = {}
      /\ \A t \in Inserted(q) : tokens'[t] = NewRow(q)
      /\ \A t \in DOMAIN tokens :
           tokens'[t] = IF t \in q.held THEN Updated(tokens[t], q)
                        ELSE tokens[t]
  BY CommitRows
<1>2. Inserted(q) \subseteq TokenIds
  BY <1>1 DEF Inserted, Request
<1>3. ASSUME NEW t \in Inserted(q) PROVE NewRow(q) \in Row
  <2>1. q.new # None
    BY <1>3 DEF Inserted
  <2>2. q.user \in Users /\ q.ctx \in Contexts
    BY <1>1, <2>1, ConstantsAssumption DEF RequestOK, MintsForSomeone, Ops
  <2> QED
    BY <1>1, <2>2, ConstantsAssumption DEF NewRow, Row, Request
<1>4. ASSUME NEW t \in DOMAIN tokens PROVE Updated(tokens[t], q) \in Row
  <2>1. tokens[t] \in Row /\ q.new \in TokenIds \cup {None}
    BY <1>1 DEF TypeOK, Request
  <2> QED
    BY <2>1 DEF Updated, Row
<1>5. tokens' \in [DOMAIN tokens' -> Row] /\ DOMAIN tokens' \subseteq TokenIds
  <2>1. \A t \in DOMAIN tokens' : tokens'[t] \in Row
    BY <1>1, <1>3, <1>4 DEF TypeOK
  <2>2. tokens' = [t \in DOMAIN tokens' |-> tokens'[t]]
    BY DEF Commit, Published
  <2> QED
    BY <1>1, <1>2, <2>1, <2>2 DEF TypeOK
<1>6. events' \in [Users -> EventCounts]
  <2> SUFFICES ASSUME NEW f \in [Users -> EventCounts], NEW u
               PROVE  /\ [f EXCEPT ![u].refresh = @ + 1] \in [Users -> EventCounts]
                      /\ [f EXCEPT ![u].revoked = @ + 1] \in [Users -> EventCounts]
    BY DEF Commit, Logged, TypeOK
  <2>1. CASE u \in Users
    <3>1. f[u] \in EventCounts
      BY <2>1
    <3> QED
      BY <2>1, <3>1 DEF EventCounts
  <2>2. CASE u \notin Users
    BY <2>2
  <2> QED
    BY <2>1, <2>2
<1>7. req' \in [Requests -> Request]
  BY <1>1, IdleTyped DEF Commit, TypeOK, Request
<1> QED
  BY <1>5, <1>6, <1>7 DEF TypeOK, Commit

LEMMA AnswerStep ==
  ASSUME TypeOK, IInv, NEW r \in Requests, Answer(r)
  PROVE  TypeOK' /\ IInv'
<1> DEFINE q == [req[r] EXCEPT !.pc = "commit"]
<1>1. req[r] \in Request /\ RequestOK(req[r]) /\ req[r].pc = "answer"
  BY DEF TypeOK, IInv, Answer
<1>2. known' \subseteq TokenIds
  BY <1>1 DEF Answer, TypeOK, Inserted, Request
<1>3. CASE AnswerFirst
  <2>1. req' = [req EXCEPT ![r] = q]
    BY <1>3 DEF Answer, AfterAnswer
  <2>2. q \in Request /\ q.held = req[r].held /\ q.new = req[r].new
    BY <1>1 DEF Request
  <2>3. RequestOK(q)
    BY <1>1, <1>3
       DEF RequestOK, RowsExist, Ascending, Closed, Reading, Written,
         MintsForSomeone, WritesNothingElse, Replaces, Covers, Request
  <2> QED
    BY <1>2, <2>1, <2>2, <2>3, LocalType, ShrinkStep DEF Answer
<1>4. CASE ~AnswerFirst
  BY <1>2, <1>4, IdleStep DEF Answer, AfterAnswer
<1> QED
  BY <1>3, <1>4

LEMMA QuietStep ==
  ASSUME TypeOK, IInv, UNCHANGED <<tokens, known, events, req>>, clock' \in Nat
  PROVE  TypeOK' /\ IInv'
<1>1. TypeOK'
  BY DEF TypeOK
<1>2. (\A r \in Requests : RequestOK(req[r]))'
  <2> SUFFICES ASSUME NEW r \in Requests PROVE RequestOK(req[r])'
    OBVIOUS
  <2> QED
    BY DEF IInv, RequestOK, RowsExist, Ascending, Closed, Reading, Written,
         MintsForSomeone, WritesNothingElse, Replaces, Covers
<1>3. LocksExclusive' /\ MintsDistinct' /\ RotationChain'
  BY DEF IInv, LocksExclusive, MintsDistinct, RotationChain
<1>4. ReplacedAreDead'
  BY DEF IInv, ReplacedAreDead, Store!ParentsDead, Store!Stored
<1> QED
  BY <1>1, <1>2, <1>3, <1>4 DEF IInv

LEMMA NextStep ==
  ASSUME TypeOK, IInv, [Next]_vars
  PROVE  TypeOK' /\ IInv'
<1>1. ASSUME NEW r \in Requests, Arrive(r) PROVE TypeOK' /\ IInv'
  BY <1>1, BeginIssueStep, BeginTokenCallStep, BeginRevokeAllStep DEF Arrive
<1>2. ASSUME NEW r \in Requests, Serve(r) PROVE TypeOK' /\ IInv'
  <2>1. CASE Reject(r)
    BY <2>1, IdleStep DEF Reject, TypeOK
  <2>2. CASE Commit(r)
    BY <2>2, CommitType, CommitStep
  <2> QED
    BY <1>2, <2>1, <2>2, LookupRefreshStep, LookupRevokeStep, SelectStep,
       UpdateRowStep, AnswerStep DEF Serve
<1>3. ASSUME NEW r \in Requests, Abort(r) PROVE TypeOK' /\ IInv'
  BY <1>3, IdleStep DEF Abort, TypeOK
<1>4. CASE Tick
  BY <1>4, QuietStep DEF Tick, TypeOK
<1>5. CASE UNCHANGED vars
  BY <1>5, QuietStep DEF vars, TypeOK
<1> QED
  BY <1>1, <1>2, <1>3, <1>4, <1>5 DEF Next

LEMMA InitInv == Init => TypeOK /\ IInv
<1> SUFFICES ASSUME Init PROVE TypeOK /\ IInv
  OBVIOUS
<1>1. TypeOK
  BY IdleTyped DEF Init, TypeOK, EventCounts
<1>2. \A r \in Requests : RequestOK(req[r])
  BY QuietOK, IdleTyped DEF Init, Idle
<1>3. LocksExclusive /\ MintsDistinct /\ RotationChain
  BY DEF Init, Idle, LocksExclusive, MintsDistinct, RotationChain
<1>4. ReplacedAreDead
  BY DEF Init, ReplacedAreDead, Store!ParentsDead, Store!Stored
<1> QED
  BY <1>1, <1>2, <1>3, <1>4 DEF IInv

-----------------------------------------------------------------------------
(* Invariants.                                                             *)

LEMMA Invariant == Spec => [](TypeOK /\ IInv)
<1>1. Init => TypeOK /\ IInv
  BY InitInv
<1>2. TypeOK /\ IInv /\ [Next]_vars => TypeOK' /\ IInv'
  BY NextStep
<1> QED
  BY <1>1, <1>2, PTL DEF Spec

\* Rows, requests and counters keep their types, whatever overlaps: in
\* particular no commit inserts a row for a request that minted nothing
\* (TokenService under get_db).
THEOREM TypeCorrect == Spec => []TypeOK
<1> QED
  BY Invariant, PTL

\* The inductive invariant holds in every reachable state.
THEOREM InductiveInvariant == Spec => []IInv
<1> QED
  BY Invariant, PTL

\* Rotation chains stay intact under every interleaving of refreshes, logouts
\* and bulk revocations (TokenService.refresh, TokenRepository.rotate).
THEOREM RotationChainCorrect == Spec => []RotationChain
<1>1. IInv => RotationChain
  BY DEF IInv
<1> QED
  BY <1>1, Invariant, PTL

\* No stored replacement has a parent that can still be refreshed
\* (TokenRepository.rotate).
THEOREM ReplacedAreDeadCorrect == Spec => []ReplacedAreDead
<1>1. IInv => ReplacedAreDead
  BY DEF IInv
<1> QED
  BY <1>1, Invariant, PTL

\* A row that a request waits for is above all that it holds.
LEMMA WaitsGoUp ==
  ASSUME TypeOK, IInv
  PROVE  WaitsAscend
<1> SUFFICES ASSUME NEW r \in Requests, NEW s \in Requests,
                    WaitsFor(r, s), req[s].pc = "update",
                    NEW t \in NextRows(req[r].todo),
                    NEW u \in NextRows(req[s].todo)
             PROVE  t < u
  BY DEF WaitsAscend
<1>1. PICK x \in NextRows(req[r].todo) : x \in req[s].held
  BY DEF WaitsFor
<1>2. req[r].todo \subseteq Nat /\ req[s].todo \subseteq Nat
  BY ConstantsAssumption DEF TypeOK, Request
<1>3. x = t
  BY <1>2 DEF NextRows
<1>4. x < u
  BY <1>1 DEF IInv, RequestOK, Ascending, NextRows
<1> QED
  BY <1>3, <1>4

\* Of requests that all waited for one of their own, the one that waits for the
\* highest row would wait for one that waits for a higher one.
LEMMA NoCycleGoesUp ==
  ASSUME TypeOK, WaitsAscend
  PROVE  NoWaitCycle
<1> SUFFICES ASSUME NEW D \in SUBSET Requests, D # {},
                    \A r \in D : \E s \in D : WaitsFor(r, s)
             PROVE  FALSE
  BY DEF NoWaitCycle
<1> DEFINE wanted == [r \in D |-> CHOOSE t : t \in NextRows(req[r].todo)]
<1>1. \A r \in D : wanted[r] \in NextRows(req[r].todo)
  <2> SUFFICES ASSUME NEW r \in D PROVE \E t : t \in NextRows(req[r].todo)
    OBVIOUS
  <2> QED
    BY DEF WaitsFor
<1>2. \A r \in D : wanted[r] \in Nat
  BY <1>1, ConstantsAssumption DEF TypeOK, Request, NextRows
<1>3. IsFiniteSet(D)
  BY FS_Subset, ConstantsAssumption
<1> HIDE DEF wanted
<1>4. PICK m \in D : \A s \in D : wanted[s] <= wanted[m]
  BY <1>2, <1>3, GreatestExists
<1>5. PICK s \in D : WaitsFor(m, s)
  OBVIOUS
<1>6. req[s].pc = "update"
  BY DEF WaitsFor
<1>7. wanted[m] < wanted[s]
  BY <1>1, <1>5, <1>6 DEF WaitsAscend
<1> QED
  BY <1>2, <1>4, <1>7

\* Transactions on refresh_tokens never deadlock, however many run and however
\* many rows they lock (rotate, revoke, revoke_all_for_user).
THEOREM NoDeadlock == Spec => []NoWaitCycle
<1>1. TypeOK /\ IInv => NoWaitCycle
  BY WaitsGoUp, NoCycleGoesUp
<1> QED
  BY <1>1, Invariant, PTL

-----------------------------------------------------------------------------
(* What a step may not do.                                                 *)

LEMMA OnlyCommitsWrite ==
  ASSUME [Next]_vars
  PROVE  tokens' = tokens \/ \E r \in Requests : Commit(r)
  BY DEF Next, vars, Arrive, Serve, BeginIssue, BeginTokenCall, BeginRevokeAll,
       LookupRefresh, LookupRevoke, Reject, Select, UpdateRow, Answer, Abort,
       Tick

\* Revocation is final under every interleaving: no overlapping transaction
\* revives a token, unlinks it from its replacement or re-dates it
\* (TokenRepository.rotate, revoke, revoke_all_for_user).
THEOREM RevocationIsFinalCorrect == Spec => RevocationIsFinal
<1> DEFINE Kept ==
      \A t \in DOMAIN tokens :
        /\ t \in DOMAIN tokens'
        /\ tokens[t].revoked => tokens'[t].revoked
        /\ tokens[t].next # None => tokens'[t].next # None
        /\ tokens'[t].exp = tokens[t].exp
<1>1. TypeOK /\ IInv /\ [Next]_vars => [Kept]_vars
  <2> SUFFICES ASSUME TypeOK, IInv, [Next]_vars PROVE Kept
    OBVIOUS
  <2>1. CASE tokens' = tokens
    BY <2>1
  <2>2. ASSUME NEW r \in Requests, Commit(r) PROVE Kept
    <3>1. req[r].op = "refresh" => req[r].new # None
      BY <2>2, CommitRows DEF RequestOK, Replaces
    <3> QED
      BY <2>2, <3>1, RowsKept
  <2> QED
    BY <2>1, <2>2, OnlyCommitsWrite
<1> QED
  BY <1>1, Invariant, PTL DEF Spec, RevocationIsFinal

\* A bulk revocation that commits leaves none of the tokens it looked at
\* usable, whichever requests came between its SELECT and its UPDATEs
\* (TokenRepository.revoke_all_for_user).
THEOREM RevokeAllEffectiveCorrect == Spec => RevokeAllEffective
<1> DEFINE Effective ==
      \A r \in Requests :
        Commit(r) /\ req[r].op = "revoke_all"
          => \A t \in req[r].seen : tokens'[t].revoked
<1>1. TypeOK /\ IInv => Effective
  <2> SUFFICES ASSUME TypeOK, IInv, NEW r \in Requests, Commit(r),
                      req[r].op = "revoke_all", NEW t \in req[r].seen
               PROVE  tokens'[t].revoked
    OBVIOUS
  <2>1. RequestOK(req[r]) /\ req[r].pc = "commit"
    BY CommitRows
  <2>2. t \in DOMAIN tokens /\ (tokens[t].revoked \/ t \in req[r].held)
    BY <2>1 DEF RequestOK, Covers, Written, RowsExist
  <2> QED
    BY <2>2, RowsKept
<1> QED
  BY <1>1, Invariant, PTL DEF RevokeAllEffective

-----------------------------------------------------------------------------
(* What clients hold and what the audit trail says.                        *)

\* The strengthening of KnownStored: a token about to be sent is stored already.
Delivered ==
  ~AnswerFirst =>
    /\ known \subseteq DOMAIN tokens
    /\ \A r \in Requests : req[r].pc = "answer" => Inserted(req[r]) \subseteq DOMAIN tokens

\* A step that sends nothing: requests that were not answering do not begin to.
LEMMA DeliveredLocal ==
  ASSUME Delivered, known' = known, tokens' = tokens,
         \A r \in Requests : req'[r] = req[r] \/ (req'[r].pc = "answer" => AnswerFirst)
  PROVE  Delivered'
  BY DEF Delivered, Inserted

LEMMA BeginDelivered ==
  ASSUME TypeOK, Delivered, NEW r \in Requests, Arrive(r)
  PROVE  Delivered'
<1>1. /\ req'[r].pc \in {Return, "lookup", "select"}
      /\ \A s \in Requests \ {r} : req'[s] = req[s]
  <2>1. CASE BeginIssue(r)
    BY <2>1 DEF BeginIssue, Idle, TypeOK
  <2>2. CASE BeginTokenCall(r)
    BY <2>2 DEF BeginTokenCall, Idle, TypeOK
  <2>3. CASE BeginRevokeAll(r)
    BY <2>3 DEF BeginRevokeAll, Idle, TypeOK
  <2> QED
    BY <2>1, <2>2, <2>3 DEF Arrive
<1>2. known' = known /\ tokens' = tokens
  BY DEF Arrive, BeginIssue, BeginTokenCall, BeginRevokeAll
<1>3. req'[r].pc = "answer" => AnswerFirst
  BY <1>1 DEF Return
<1> QED
  BY <1>1, <1>2, <1>3, DeliveredLocal

LEMMA ServeDelivered ==
  ASSUME TypeOK, IInv, Delivered, NEW r \in Requests, Serve(r) \/ Abort(r)
  PROVE  Delivered'
<1>1. Idle.pc = "idle" /\ Idle.new = None
  BY DEF Idle
<1>2. CASE Reject(r) \/ Abort(r)
  BY <1>1, <1>2, DeliveredLocal DEF Reject, Abort, TypeOK
<1>3. CASE LookupRefresh(r) \/ LookupRevoke(r) \/ Select(r) \/ UpdateRow(r)
  <2>1. req[r] \in Request
    BY DEF TypeOK
  <2>2. /\ req'[r].pc \in {"update", Return}
        /\ \A s \in Requests \ {r} : req'[s] = req[s]
    <3>1. CASE LookupRefresh(r)
      BY <2>1, <3>1 DEF LookupRefresh, Request, TypeOK
    <3>2. CASE LookupRevoke(r)
      BY <2>1, <3>2 DEF LookupRevoke, Request, TypeOK
    <3>3. CASE Select(r)
      BY <2>1, <3>3 DEF Select, Request, TypeOK
    <3>4. CASE UpdateRow(r)
      BY <2>1, <3>4 DEF UpdateRow, Request, TypeOK
    <3> QED
      BY <1>3, <3>1, <3>2, <3>3, <3>4
  <2>3. known' = known /\ tokens' = tokens
    BY <1>3 DEF LookupRefresh, LookupRevoke, Select, UpdateRow
  <2>4. req'[r].pc = "answer" => AnswerFirst
    BY <2>2 DEF Return
  <2> QED
    BY <2>2, <2>3, <2>4, DeliveredLocal
<1>4. CASE Commit(r) /\ ~AnswerFirst
  <2>1. DOMAIN tokens' = DOMAIN tokens \cup Inserted(req[r])
    BY <1>4, CommitRows
  <2> DEFINE q == [Idle EXCEPT !.pc = "answer", !.new = req[r].new]
  <2>2. q.new = req[r].new
    BY DEF Idle
  <2>3. req' = [req EXCEPT ![r] = q] /\ known' = known
    BY <1>4 DEF Commit
  <2> HIDE DEF q
  <2>4. \A s \in Requests : req'[s] = IF s = r THEN q ELSE req[s]
    BY <2>3 DEF TypeOK
  <2> QED
    BY <1>4, <2>1, <2>2, <2>3, <2>4 DEF Delivered, Inserted
<1>5. CASE Answer(r) /\ ~AnswerFirst
  <2>1. \A s \in Requests : req'[s] = IF s = r THEN Idle ELSE req[s]
    BY <1>5 DEF Answer, AfterAnswer, TypeOK
  <2>2. known' \subseteq DOMAIN tokens /\ tokens' = tokens
    BY <1>5 DEF Answer, Delivered
  <2> QED
    BY <1>1, <2>1, <2>2 DEF Delivered, Inserted
<1>6. CASE AnswerFirst
  BY <1>6 DEF Delivered
<1> QED
  BY <1>2, <1>3, <1>4, <1>5, <1>6 DEF Serve

\* A client holds no token whose row is missing, where the commit precedes the
\* response (get_db, TokenService.issue_tokens and refresh).
THEOREM KnownStoredCorrect == Spec => []KnownStored
<1>1. Init => Delivered
  BY DEF Init, Delivered, Idle
<1>2. TypeOK /\ IInv /\ Delivered /\ [Next]_vars => Delivered'
  <2> SUFFICES ASSUME TypeOK, IInv, Delivered, [Next]_vars PROVE Delivered'
    OBVIOUS
  <2>1. CASE Tick \/ UNCHANGED vars
    BY <2>1, DeliveredLocal DEF Tick, vars
  <2> QED
    BY <2>1, BeginDelivered, ServeDelivered DEF Next
<1>3. Delivered => KnownStored
  BY DEF Delivered, KnownStored
<1> QED
  BY <1>1, <1>2, <1>3, Invariant, PTL DEF Spec

\* Cardinality is what it should be of finite sets only.
Audited ==
  \A u \in Users :
    IsFiniteSet(Replacements(u)) /\ events[u].refresh = Cardinality(Replacements(u))

LEMMA CommitReplacements ==
  ASSUME TypeOK, IInv, NEW r \in Requests, Commit(r), NEW u \in Users
  PROVE  Replacements(u)' =
           IF req[r].op = "refresh" /\ u = req[r].user
           THEN Replacements(u) \cup {req[r].new} ELSE Replacements(u)
<1> DEFINE q == req[r]
<1>1. /\ q \in Request /\ RequestOK(q) /\ q.pc = "commit" /\ q.op \in Ops
      /\ DOMAIN tokens' = DOMAIN tokens \cup Inserted(q)
      /\ Inserted(q) \cap DOMAIN tokens = {}
      /\ \A t \in Inserted(q) : tokens'[t] = NewRow(q)
  BY CommitRows
<1>2. \A t \in DOMAIN tokens :
        tokens'[t].user = tokens[t].user /\ tokens'[t].from = tokens[t].from
  BY RowsKept
<1>3. \A t \in Inserted(q) : tokens'[t].user = q.user /\ tokens'[t].from = q.tok
  BY <1>1 DEF NewRow
<1>4. Replacements(u)' =
        {t \in DOMAIN tokens' : tokens'[t].user = u /\ tokens'[t].from # None}
  BY DEF Replacements
<1>5. Replacements(u)' =
        Replacements(u) \cup {t \in Inserted(q) : q.user = u /\ q.tok # None}
  BY <1>1, <1>2, <1>3, <1>4 DEF Replacements
<1>6. CASE q.op = "refresh"
  <2>1. Inserted(q) = {q.new} /\ q.tok # None
    BY <1>1, <1>6, ConstantsAssumption DEF RequestOK, Replaces, Inserted, TypeOK
  <2> QED
    BY <1>5, <1>6, <2>1
<1>7. CASE q.op # "refresh"
  <2>1. q.tok = None \/ Inserted(q) = {}
    BY <1>1, <1>7 DEF Ops, RequestOK, WritesNothingElse, Inserted
  <2> QED
    BY <1>5, <1>7, <2>1
<1> QED
  BY <1>6, <1>7

LEMMA CommitAudited ==
  ASSUME TypeOK, IInv, Audited, NEW r \in Requests, Commit(r)
  PROVE  Audited'
<1> SUFFICES ASSUME NEW u \in Users
             PROVE  /\ IsFiniteSet(Replacements(u)')
                    /\ events'[u].refresh = Cardinality(Replacements(u)')
  BY DEF Audited, Replacements
<1>1. /\ IsFiniteSet(Replacements(u)) /\ events[u].refresh = Cardinality(Replacements(u))
      /\ events[u] \in EventCounts /\ events \in [Users -> EventCounts]
  BY DEF Audited, TypeOK
<1>2. events' = Logged(req[r])
  BY DEF Commit
<1>3. CASE req[r].op = "refresh" /\ u = req[r].user
  <2>1. events'[u].refresh = events[u].refresh + 1
    BY <1>1, <1>2, <1>3 DEF Logged, EventCounts
  <2>2. req[r].new \notin Replacements(u)
    <3>1. RequestOK(req[r]) /\ req[r].pc = "commit"
      BY CommitRows
    <3> QED
      BY <1>3, <3>1, ConstantsAssumption
         DEF RequestOK, Replaces, MintsForSomeone, Replacements, Ops
  <2>3. Replacements(u)' = Replacements(u) \cup {req[r].new}
    BY <1>3, CommitReplacements
  <2>4. /\ IsFiniteSet(Replacements(u) \cup {req[r].new})
        /\ Cardinality(Replacements(u) \cup {req[r].new}) = Cardinality(Replacements(u)) + 1
    BY <1>1, <2>2, FS_AddElement
  <2> QED
    BY <1>1, <2>1, <2>3, <2>4
<1>4. CASE ~(req[r].op = "refresh" /\ u = req[r].user)
  <2>1. events'[u].refresh = events[u].refresh
    <3>1. CASE req[r].op = "refresh"
      BY <1>1, <1>2, <1>4, <3>1 DEF Logged
    <3>2. CASE req[r].op = "revoke"
      <4>1. CASE u = req[r].user
        BY <1>1, <1>2, <3>2, <4>1 DEF Logged, EventCounts
      <4>2. CASE u # req[r].user
        BY <1>1, <1>2, <3>2, <4>2 DEF Logged
      <4> QED
        BY <4>1, <4>2
    <3>3. CASE req[r].op \notin {"refresh", "revoke"}
      BY <1>2, <3>3 DEF Logged
    <3> QED
      BY <3>1, <3>2, <3>3
  <2>2. Replacements(u)' = Replacements(u)
    BY <1>4, CommitReplacements
  <2> QED
    BY <1>1, <2>1, <2>2
<1> QED
  BY <1>3, <1>4

\* No replacement is stored without its TOKEN_REFRESH event and no event is left of a
\* refresh that was rolled back (TokenService.refresh under get_db).
THEOREM AuditCompleteCorrect == Spec => []AuditComplete
<1>1. Init => Audited
  <2> SUFFICES ASSUME Init, NEW u \in Users
               PROVE  /\ IsFiniteSet(Replacements(u))
                      /\ events[u].refresh = Cardinality(Replacements(u))
    BY DEF Audited
  <2>1. Replacements(u) = {} /\ events[u].refresh = 0
    BY DEF Init, Replacements
  <2> QED
    BY <2>1, FS_EmptySet
<1>2. TypeOK /\ IInv /\ Audited /\ [Next]_vars => Audited'
  <2> SUFFICES ASSUME TypeOK, IInv, Audited, [Next]_vars PROVE Audited'
    OBVIOUS
  <2>1. CASE \E r \in Requests : Commit(r)
    BY <2>1, CommitAudited
  <2>2. CASE tokens' = tokens /\ events' = events
    BY <2>2 DEF Audited, Replacements
  <2> QED
    BY <2>1, <2>2 DEF Next, vars, Arrive, Serve, BeginIssue, BeginTokenCall, BeginRevokeAll,
       LookupRefresh, LookupRevoke, Reject, Select, UpdateRow, Answer, Abort, Tick
<1>3. Audited => AuditComplete
  BY DEF Audited, AuditComplete
<1> QED
  BY <1>1, <1>2, <1>3, Invariant, PTL DEF Spec

-----------------------------------------------------------------------------
(* The life cycle implements the token store.                              *)

LEMMA CommitIsStoreStep ==
  ASSUME TypeOK, IInv, NEW r \in Requests, Commit(r)
  PROVE  Store!Next
<1> DEFINE q == req[r]
           L == {t \in DOMAIN tokens : ~tokens[t].revoked}
           D == {t \in DOMAIN tokens : tokens[t].revoked}
           P == [t \in DOMAIN tokens |-> tokens[t].from]
<1>1. /\ q \in Request /\ RequestOK(q) /\ q.pc = "commit" /\ q.op \in Ops
      /\ DOMAIN tokens' = DOMAIN tokens \cup Inserted(q)
      /\ Inserted(q) \cap DOMAIN tokens = {}
      /\ \A t \in Inserted(q) : tokens'[t] = NewRow(q)
  BY CommitRows
<1>2. \A t \in DOMAIN tokens :
        tokens'[t].revoked = (tokens[t].revoked \/ t \in q.held)
  <2> SUFFICES ASSUME NEW t \in DOMAIN tokens
               PROVE  tokens'[t].revoked = (tokens[t].revoked \/ t \in q.held)
    OBVIOUS
  <2>1. tokens[t] \in Row
    BY DEF TypeOK
  <2>2. tokens'[t] = IF t \in q.held THEN Updated(tokens[t], q) ELSE tokens[t]
    BY CommitRows
  <2> QED
    BY <2>1, <2>2, RowsKept DEF Row
<1>3. \A t \in DOMAIN tokens : tokens'[t].from = tokens[t].from
  BY RowsKept
<1>4. q.held \subseteq DOMAIN tokens /\ q.todo = {}
  BY <1>1 DEF RequestOK, RowsExist, Written
<1>5. CASE q.new = None
  <2>1. Inserted(q) = {}
    BY <1>5 DEF Inserted
  <2>2. L' = L \ q.held /\ D' = D \cup q.held /\ P' = P
    BY <1>1, <1>2, <1>3, <1>4, <2>1
  <2> QED
    BY <1>4, <2>2 DEF Store!Next, Store!Revoke, Store!Stored
<1>6. CASE q.new # None
  <2>1. /\ Inserted(q) = {q.new} /\ q.new \in TokenIds
        /\ q.new \notin DOMAIN tokens
        /\ tokens'[q.new].from = q.tok /\ ~tokens'[q.new].revoked
    BY <1>1, <1>6 DEF Inserted, NewRow, Request
  <2>2. /\ L' = (L \ q.held) \cup {q.new} /\ D' = D \cup q.held
        /\ P' = [t \in DOMAIN tokens \cup {q.new} |->
                   IF t = q.new THEN q.tok ELSE P[t]]
    BY <1>1, <1>2, <1>3, <1>4, <2>1
  <2>3. L \cup D = DOMAIN tokens
    OBVIOUS
  <2>4. CASE q.op = "issue"
    <3>1. q.tok = None /\ q.held = {}
      BY <1>1, <2>4 DEF RequestOK, WritesNothingElse
    <3>2. PICK n \in TokenIds : n = q.new
      BY <2>1
    <3>3. Store!Issue(n)
      BY <2>1, <2>2, <2>3, <3>1, <3>2 DEF Store!Issue, Store!Stored, Store!Born
    <3> QED
      BY <3>3 DEF Store!Next
  <2>5. CASE q.op = "refresh"
    <3>1. q.held = {q.tok} /\ q.tok \in DOMAIN tokens
      BY <1>1, <1>4, <2>5 DEF RequestOK, Replaces
    <3>2. PICK n \in TokenIds, t \in DOMAIN tokens : n = q.new /\ t = q.tok
      BY <2>1, <3>1
    <3>3. Store!Rotate(t, n)
      BY <2>1, <2>2, <2>3, <3>1, <3>2
         DEF Store!Rotate, Store!Stored, Store!Born
    <3> QED
      BY <3>2, <3>3 DEF Store!Next, Store!Stored
  <2> QED
    BY <1>1, <1>6, <2>4, <2>5 DEF Ops, RequestOK, WritesNothingElse
<1> QED
  BY <1>5, <1>6

\* For clients that only see which tokens can be refreshed, the requests, the
\* row locks and the two-step transactions come down to the atomic steps of
\* TokenStore (TokenService over TokenRepository, under get_db).
THEOREM Refinement == Spec => ImplementsStore
<1>1. Init => Store!Init
  BY DEF Init, Store!Init
<1>2. TypeOK /\ IInv /\ [Next]_vars => [Store!Next]_(Store!vars)
  <2> SUFFICES ASSUME TypeOK, IInv, [Next]_vars
               PROVE  [Store!Next]_(Store!vars)
    OBVIOUS
  <2>1. CASE tokens' = tokens
    BY <2>1 DEF Store!vars
  <2> QED
    BY <2>1, OnlyCommitsWrite, CommitIsStoreStep
<1> QED
  BY <1>1, <1>2, Invariant, PTL DEF Spec, ImplementsStore, Store!Spec
=============================================================================
