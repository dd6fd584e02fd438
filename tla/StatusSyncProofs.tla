--------------------------- MODULE StatusSyncProofs ---------------------------
(***************************************************************************)
(* Theorems about StatusSync, for every set of workers and of statuses.    *)
(***************************************************************************)
EXTENDS StatusSync, TLAPS

\* STATUS_TO_ACTIVE keeps exactly the users active whom LoginService admits.
LEMMA TablesAgree ==
  ASSUME NEW s PROVE Desired(s) <=> s \in Allowed
<1>1. DOMAIN StatusToActive = {"pending", "verification_pending", "active",
                               "suspended", "restricted", "deactivated", "deleted"}
  BY DEF StatusToActive
<1>2. ASSUME s \in DOMAIN StatusToActive
      PROVE  StatusToActive[s] <=> s \in {"pending", "verification_pending", "active"}
  <2>1. StatusToActive[s] = (s \in {"pending", "verification_pending", "active"})
    BY <1>1, <1>2, Zenon DEF StatusToActive
  <2> QED
    BY <2>1
<1>3. CASE s \in Allowed
  BY <1>1, <1>2, <1>3 DEF Desired, Allowed
<1>4. CASE s \notin Allowed
  BY <1>2, <1>4 DEF Desired, Allowed
<1> QED
  BY <1>3, <1>4

LEMMA DesiredIsWants ==
  ASSUME NEW s
  PROVE  Desired(s) \in BOOLEAN /\ Desired(s) = (s \in Allowed)
<1>1. Desired(s) \in BOOLEAN
  BY Zenon DEF Desired
<1> QED
  BY <1>1, TablesAgree

LEMMA WantsIsBoolean ==
  ASSUME NEW q PROVE Wants(q) \in BOOLEAN
  BY DEF Wants

LEMMA IdleTyped == ASSUME NEW v \in {"none", "answered", "failed"}
  PROVE /\ [Idle EXCEPT !.result = v] \in Request
        /\ [Idle EXCEPT !.result = v].op = None
        /\ [Idle EXCEPT !.result = v].pc = "idle"
        /\ ~[Idle EXCEPT !.result = v].found
        /\ ~[Idle EXCEPT !.result = v].barred
        /\ [Idle EXCEPT !.result = v].result = v
  BY SyncAssumption DEF Idle, Request

\* A step that changes one request and the row at most by its own push keeps the
\* invariant if the request it leaves is as it should be.
LEMMA LocalStep ==
  ASSUME TypeOK, SyncInv, NEW r \in Requests, NEW q \in Request,
         req' = [req EXCEPT ![r] = q],
         UNCHANGED <<active, agreed>>,
         RequestOK(q),
         q.op = "push" => /\ req[r].op = "push" /\ q.status = req[r].status
                          /\ q.contested = req[r].contested
  PROVE  TypeOK' /\ SyncInv'
<1>1. \A u \in Requests : req'[u] = IF u = r THEN q ELSE req[u]
  BY DEF TypeOK
<1>2. TypeOK'
  BY <1>1 DEF TypeOK
<1>3. \A u \in Requests : req'[u].op = "push" =>
        /\ req[u].op = "push" /\ req'[u].status = req[u].status
        /\ req'[u].contested = req[u].contested
  BY <1>1
<1>4. \A u \in Requests : req'[u].op = "push" => Wants(req'[u]) = Wants(req[u])
  BY <1>3 DEF Wants
<1>5. ASSUME NEW u \in Requests, RequestOK(req'[u])
      PROVE  RequestOK(req[u])'
  <2>1. /\ req'[u].found \/ req'[u].pc \in {"update", "commit"} => active' # None
        /\ req'[u].pc = "answer" => req'[u].op = "push"
        /\ req'[u].pc = "answer" /\ req'[u].found /\ ~req'[u].contested
             => active' = Wants(req'[u])
    BY <1>5 DEF RequestOK
  <2>2. req'[u].barred =>
          /\ req'[u].op = "login" /\ req'[u].pc = "read" /\ active' = FALSE
          /\ \A v \in Requests : req'[v].op = "push" => ~Wants(req'[v])
    BY <1>3, <1>4, <1>5 DEF RequestOK
  <2> QED
    BY <2>1, <2>2 DEF RequestOK, Wants
<1>6. \A u \in Requests : RequestOK(req'[u])
  BY <1>1 DEF SyncInv
<1>7. LastAnswerHolds'
  BY DEF SyncInv, LastAnswerHolds
<1>8. ASSUME NEW u \in Requests, req'[u].op = "push", agreed' # None
      PROVE  agreed' = Wants(req'[u])
  BY <1>3, <1>4, <1>8 DEF SyncInv
<1>9. ASSUME NEW u \in Requests, NEW v \in Requests,
             req'[u].op = "push", req'[v].op = "push", Wants(req'[u]) # Wants(req'[v])
      PROVE  req'[u].contested
  BY <1>3, <1>4, <1>9 DEF SyncInv
<1> QED
  BY <1>2, <1>5, <1>6, <1>7, <1>8, <1>9 DEF SyncInv, Wants

LEMMA IdleOK ==
  ASSUME NEW v \in {"none", "answered", "failed"}
  PROVE  /\ RequestOK([Idle EXCEPT !.result = v])
         /\ [Idle EXCEPT !.result = v].op # "push"
  BY IdleTyped, SyncAssumption DEF RequestOK

\* A request that ends without writing the row.
LEMMA EndStep ==
  ASSUME TypeOK, SyncInv, NEW r \in Requests, NEW v \in {"none", "answered", "failed"},
         req' = [req EXCEPT ![r] = [Idle EXCEPT !.result = v]],
         UNCHANGED <<active, agreed>>
  PROVE  TypeOK' /\ SyncInv'
  BY IdleTyped, IdleOK, LocalStep

LEMMA BeginLoginStep ==
  ASSUME TypeOK, SyncInv, NEW r \in Requests, BeginLogin(r)
  PROVE  TypeOK' /\ SyncInv'
<1> DEFINE q == [Idle EXCEPT !.pc = "read", !.op = "login", !.result = req[r].result,
                              !.barred = (agreed = FALSE)]
<1>1. (agreed = FALSE) \in BOOLEAN
  OBVIOUS
<1>2. PICK b \in BOOLEAN : b = (agreed = FALSE)
  BY <1>1
<1>3. PICK v \in {"none", "answered", "failed"} : v = req[r].result
  BY DEF TypeOK, Request
<1>4. q = [Idle EXCEPT !.pc = "read", !.op = "login", !.result = v, !.barred = b]
  BY <1>2, <1>3
<1>5. /\ q \in Request /\ q.op = "login" /\ q.pc = "read"
      /\ q.barred = b /\ ~q.found
  BY <1>4, SyncAssumption DEF Idle, Request
<1>6. b => active = FALSE /\ \A u \in Requests : req[u].op = "push" => ~Wants(req[u])
  BY <1>2, SyncAssumption DEF SyncInv, LastAnswerHolds
<1>7. RequestOK(q)
  BY <1>5, <1>6 DEF RequestOK
<1> QED
  BY <1>5, <1>7, LocalStep DEF BeginLogin

LEMMA ReadPushStep ==
  ASSUME TypeOK, SyncInv, NEW r \in Requests, ReadPush(r)
  PROVE  TypeOK' /\ SyncInv'
<1> DEFINE next == IF active \in {None, Desired(req[r].status)} THEN "answer" ELSE "update"
           q == [req[r] EXCEPT !.found = (active # None), !.pc = next]
<1>1. (active # None) \in BOOLEAN
  OBVIOUS
<1>2. PICK b \in BOOLEAN : b = (active # None)
  BY <1>1
<1>3. PICK n \in {"answer", "update"} : n = next
  OBVIOUS
<1>4. PICK p \in Request : p = req[r]
  BY DEF TypeOK
<1>5. /\ [p EXCEPT !.found = b, !.pc = n] \in Request
      /\ [p EXCEPT !.found = b, !.pc = n].op = "push"
      /\ [p EXCEPT !.found = b, !.pc = n].pc = n
      /\ [p EXCEPT !.found = b, !.pc = n].found = b
      /\ [p EXCEPT !.found = b, !.pc = n].status = p.status
      /\ [p EXCEPT !.found = b, !.pc = n].contested = p.contested
      /\ [p EXCEPT !.found = b, !.pc = n].barred = p.barred
  BY <1>4 DEF Request, ReadPush
<1>6. q = [p EXCEPT !.found = b, !.pc = n]
  BY <1>2, <1>3, <1>4
<1>7. q.pc = "answer" /\ q.found => active = Wants(q)
  <2>1. Desired(p.status) = Wants(q)
    BY <1>5, <1>6, DesiredIsWants DEF Wants
  <2> QED
    BY <1>2, <1>3, <1>4, <1>5, <1>6, <2>1
<1>8. ~q.barred
  BY <1>4, <1>5, <1>6 DEF SyncInv, RequestOK, ReadPush
<1>9. q.pc = "update" => active # None
  BY <1>3, <1>5, <1>6
<1>10. RequestOK(q)
  BY <1>2, <1>3, <1>5, <1>6, <1>7, <1>8, <1>9 DEF RequestOK
<1> HIDE DEF q, next
<1>11. req' = [req EXCEPT ![r] = q]
  BY DEF ReadPush, q, next
<1> QED
  BY <1>4, <1>5, <1>6, <1>10, <1>11, LocalStep DEF ReadPush

LEMMA UpdateStep ==
  ASSUME TypeOK, SyncInv, NEW r \in Requests, Update(r)
  PROVE  TypeOK' /\ SyncInv'
<1>1. PICK p \in Request : p = req[r]
  BY DEF TypeOK
<1> DEFINE q == [p EXCEPT !.pc = "commit"]
<1>2. /\ q \in Request /\ q.pc = "commit" /\ q.op = p.op /\ q.status = p.status
      /\ q.contested = p.contested /\ q.barred = p.barred /\ q.found = p.found
  BY <1>1 DEF Request, Update
<1>3. RequestOK(p) /\ p.pc = "update"
  BY <1>1 DEF SyncInv, Update
<1>4. RequestOK(q)
  BY <1>2, <1>3 DEF RequestOK
<1> HIDE DEF q
<1>5. req' = [req EXCEPT ![r] = q] /\ UNCHANGED <<active, agreed>>
  BY <1>1 DEF Update, q
<1> QED
  BY <1>1, <1>2, <1>4, <1>5, LocalStep

LEMMA ReadLoginStep ==
  ASSUME TypeOK, SyncInv, NEW r \in Requests, ReadLogin(r)
  PROVE  TypeOK' /\ SyncInv'
<1>1. PICK p \in Request : p = req[r]
  BY DEF TypeOK
<1>2. p.result \in {"none", "answered", "failed"}
  BY DEF Request
<1>3. CASE ~Admitted
  BY <1>1, <1>2, <1>3, EndStep DEF ReadLogin
<1>4. CASE Admitted
  <2> DEFINE q == [p EXCEPT !.pc = "update"]
  <2>1. /\ q \in Request /\ q.pc = "update" /\ q.op = "login" /\ q.found = p.found
        /\ q.barred = p.barred
    BY <1>1 DEF Request, ReadLogin
  <2>2. active = TRUE
    BY <1>4 DEF Admitted
  <2>3. RequestOK(p)
    BY <1>1 DEF SyncInv
  <2>4. RequestOK(q)
    BY <2>1, <2>2, <2>3, SyncAssumption DEF RequestOK
  <2> HIDE DEF q
  <2>5. req' = [req EXCEPT ![r] = q] /\ UNCHANGED <<active, agreed>>
    BY <1>1, <1>4 DEF ReadLogin, q
  <2> QED
    BY <2>1, <2>4, <2>5, LocalStep
<1> QED
  BY <1>3, <1>4

LEMMA CommitLoginStep ==
  ASSUME TypeOK, SyncInv, NEW r \in Requests, CommitLogin(r)
  PROVE  TypeOK' /\ SyncInv'
<1>1. PICK v \in {"none", "answered", "failed"} : v = req[r].result
  BY DEF TypeOK, Request
<1> QED
  BY <1>1, EndStep DEF CommitLogin, Stored

LEMMA AbortStep ==
  ASSUME TypeOK, SyncInv, NEW r \in Requests, Abort(r)
  PROVE  TypeOK' /\ SyncInv'
<1>1. PICK v \in {"none", "answered", "failed"} :
        v = IF req[r].op = "push" THEN "failed" ELSE req[r].result
  BY DEF TypeOK, Request
<1>2. req' = [req EXCEPT ![r] = [Idle EXCEPT !.result = v]]
  BY <1>1 DEF Abort, Failed
<1> QED
  BY <1>2, EndStep DEF Abort

-----------------------------------------------------------------------------
(* The steps that concern other requests, or the row.                      *)

LEMMA MetFields ==
  ASSUME NEW q \in Request, NEW s \in Statuses
  PROVE  /\ Met(q, s) \in Request
         /\ Met(q, s).op = q.op /\ Met(q, s).pc = q.pc /\ Met(q, s).status = q.status
         /\ Met(q, s).found = q.found
         /\ Wants(Met(q, s)) <=> Wants(q)
         /\ Met(q, s).contested <=> q.contested \/ Opposed(q, s)
         /\ Met(q, s).barred <=> q.barred /\ s \notin Allowed
<1> DEFINE c == q.contested \/ Opposed(q, s)
           b == q.barred /\ s \notin Allowed
<1>1. c \in BOOLEAN /\ b \in BOOLEAN
  BY Zenon
<1>2. PICK cc \in BOOLEAN : cc = c
  BY <1>1
<1>3. PICK bb \in BOOLEAN : bb = b
  BY <1>1
<1>4. Met(q, s) = [q EXCEPT !.contested = c, !.barred = b]
  BY Zenon DEF Met
<1> HIDE DEF c, b
<1>5. Met(q, s) = [q EXCEPT !.contested = cc, !.barred = bb]
  BY <1>2, <1>3, <1>4
<1>6. /\ Met(q, s) \in Request
      /\ Met(q, s).op = q.op /\ Met(q, s).pc = q.pc /\ Met(q, s).status = q.status
      /\ Met(q, s).found = q.found /\ Met(q, s).contested = cc /\ Met(q, s).barred = bb
  BY <1>5 DEF Request
<1> QED
  BY <1>2, <1>3, <1>6 DEF Wants, c, b

LEMMA BusyPush ==
  ASSUME TypeOK, NEW u \in Requests
  PROVE  req[u] \in Request /\ (req[u].op = "push" => Busy(req[u]))
  BY SyncAssumption DEF TypeOK, Request, Busy

LEMMA BeginPushStep ==
  ASSUME TypeOK, SyncInv, NEW r \in Requests, BeginPush(r)
  PROVE  TypeOK' /\ SyncInv'
<1>1. PICK s \in Statuses :
        /\ req' = [t \in Requests |->
             IF t = r
             THEN [Idle EXCEPT !.pc = "read", !.op = "push", !.status = s,
                               !.contested = \E u \in Requests : Opposed(req[u], s)]
             ELSE Met(req[t], s)]
        /\ agreed' = IF agreed = (s \in Allowed) THEN agreed ELSE None
  BY DEF BeginPush
<1>2. active' = active
  BY DEF BeginPush
<1>3. (\E u \in Requests : Opposed(req[u], s)) \in BOOLEAN
  OBVIOUS
<1>4. PICK c \in BOOLEAN : c = (\E u \in Requests : Opposed(req[u], s))
  BY <1>3
<1>5. req'[r] = [Idle EXCEPT !.pc = "read", !.op = "push", !.status = s, !.contested = c]
  BY <1>1, <1>4
<1>6. /\ req'[r] \in Request /\ req'[r].pc = "read" /\ req'[r].op = "push"
      /\ req'[r].contested = c /\ ~req'[r].found /\ ~req'[r].barred
      /\ Wants(req'[r]) <=> s \in Allowed
  <2> DEFINE q == [Idle EXCEPT !.pc = "read", !.op = "push", !.status = s,
                                !.contested = c]
  <2>1. /\ q \in Request /\ q.pc = "read" /\ q.op = "push" /\ q.status = s
        /\ q.contested = c /\ ~q.found /\ ~q.barred
    BY SyncAssumption DEF Idle, Request
  <2>2. req'[r] = q
    BY <1>5
  <2> HIDE DEF q
  <2> QED
    BY <2>1, <2>2 DEF Wants
<1>7. ASSUME NEW u \in Requests \ {r}
      PROVE  /\ req'[u] \in Request
             /\ req'[u].op = req[u].op /\ req'[u].pc = req[u].pc
             /\ req'[u].found = req[u].found
             /\ Wants(req'[u]) <=> Wants(req[u])
             /\ req'[u].contested <=> req[u].contested \/ Opposed(req[u], s)
             /\ req'[u].barred <=> req[u].barred /\ s \notin Allowed
  BY <1>1, MetFields, BusyPush
<1>8. ASSUME NEW u \in Requests \ {r}, req[u].op = "push"
      PROVE  Opposed(req[u], s) <=> ~(Wants(req[u]) <=> s \in Allowed)
  BY <1>8, BusyPush DEF Opposed, Wants
<1>9. (s \in Allowed) \in BOOLEAN
  OBVIOUS
<1>10. /\ agreed' \in BOOLEAN \cup {None}
       /\ agreed' # None => agreed' = agreed /\ agreed = (s \in Allowed)
  BY <1>1 DEF TypeOK
<1>11. TypeOK'
  BY <1>1, <1>2, <1>6, <1>7, <1>10 DEF TypeOK
<1>12. LastAnswerHolds'
  BY <1>2, <1>10 DEF SyncInv, LastAnswerHolds
<1>13. \A u \in Requests : req[u].barred => ~(req[u].op = "push")
  BY SyncAssumption DEF SyncInv, RequestOK
<1>14. ASSUME NEW u \in Requests
       PROVE  RequestOK(req[u])'
  <2>1. CASE u = r
    BY <1>6, <2>1 DEF RequestOK
  <2>2. CASE u # r
    <3>1. RequestOK(req[u])
      BY DEF SyncInv
    <3>2. /\ req'[u].found \/ req'[u].pc \in {"update", "commit"} => active' # None
          /\ req'[u].pc = "answer" => req'[u].op = "push"
      BY <1>2, <1>7, <2>2, <3>1 DEF RequestOK
    <3>3. ASSUME req'[u].pc = "answer", req'[u].found, ~req'[u].contested
          PROVE  active' = Wants(req'[u])
      <4>1. active = Wants(req[u])
        BY <1>7, <2>2, <3>1, <3>3 DEF RequestOK
      <4> QED
        BY <1>2, <1>7, <2>2, <4>1, WantsIsBoolean
    <3>4. ASSUME req'[u].barred
          PROVE  /\ req'[u].op = "login" /\ req'[u].pc = "read" /\ active' = FALSE
                 /\ \A v \in Requests : req'[v].op = "push" => ~Wants(req'[v])
      <4>1. req[u].barred /\ s \notin Allowed
        BY <1>7, <2>2, <3>4
      <4>2. /\ req[u].op = "login" /\ req[u].pc = "read" /\ active = FALSE
            /\ \A v \in Requests : req[v].op = "push" => ~Wants(req[v])
        BY <3>1, <4>1 DEF RequestOK
      <4> QED
        BY <1>2, <1>6, <1>7, <2>2, <4>1, <4>2
    <3> QED
      BY <3>2, <3>3, <3>4 DEF RequestOK, Wants
  <2> QED
    BY <2>1, <2>2
<1>15. ASSUME NEW u \in Requests, req'[u].op = "push", agreed' # None
       PROVE  agreed' = Wants(req'[u])
  <2>1. CASE u = r
    BY <1>6, <1>9, <1>10, <1>15, <2>1, WantsIsBoolean
  <2>2. CASE u # r
    <3>1. agreed = Wants(req[u])
      BY <1>7, <1>10, <1>15, <2>2 DEF SyncInv
    <3> QED
      BY <1>7, <1>10, <1>15, <2>2, <3>1, WantsIsBoolean
  <2> QED
    BY <2>1, <2>2
<1>16. ASSUME NEW u \in Requests, NEW v \in Requests,
              req'[u].op = "push", req'[v].op = "push", Wants(req'[u]) # Wants(req'[v])
       PROVE  req'[u].contested
  <2>0. ~(Wants(req'[u]) <=> Wants(req'[v]))
    BY <1>16, WantsIsBoolean
  <2>1. CASE u = r /\ v # r
    <3>1. Opposed(req[v], s)
      BY <1>6, <1>7, <1>8, <1>16, <2>0, <2>1
    <3> QED
      BY <1>4, <1>6, <2>1, <3>1
  <2>2. CASE u # r /\ v = r
    BY <1>6, <1>7, <1>8, <1>16, <2>0, <2>2
  <2>3. CASE u # r /\ v # r
    <3>1. Wants(req[u]) # Wants(req[v])
      BY <1>7, <2>0, <2>3
    <3> QED
      BY <1>7, <1>16, <2>3, <3>1 DEF SyncInv
  <2> QED
    BY <2>0, <2>1, <2>2, <2>3
<1> QED
  BY <1>11, <1>12, <1>14, <1>15, <1>16 DEF SyncInv, Wants

LEMMA CommitPushStep ==
  ASSUME TypeOK, SyncInv, NEW r \in Requests, CommitPush(r)
  PROVE  TypeOK' /\ SyncInv'
<1>1. PICK p \in Request : p = req[r]
  BY DEF TypeOK
<1> DEFINE q == [p EXCEPT !.pc = "answer"]
<1>2. /\ q \in Request /\ q.pc = "answer" /\ q.op = "push" /\ q.status = p.status
      /\ q.contested = p.contested /\ q.barred = p.barred /\ q.found = p.found
  BY <1>1 DEF Request, CommitPush
<1> HIDE DEF q
<1>3. req' = [req EXCEPT ![r] = q] /\ agreed' = agreed
  BY <1>1 DEF CommitPush, q
<1>4. \A u \in Requests : req'[u] = IF u = r THEN q ELSE req[u]
  BY <1>3 DEF TypeOK
<1>5. active' = Wants(p) /\ active' \in BOOLEAN /\ Wants(q) = Wants(p)
  BY <1>1, <1>2, DesiredIsWants DEF CommitPush, Wants
<1>6. \A u \in Requests :
        /\ req'[u].op = req[u].op /\ req'[u].contested = req[u].contested
        /\ req'[u].found = req[u].found /\ req'[u].barred = req[u].barred
        /\ Wants(req'[u]) = Wants(req[u])
  BY <1>1, <1>2, <1>4, <1>5 DEF CommitPush
<1>7. ASSUME NEW u \in Requests, req[u].op = "push", Wants(req[u]) # active'
      PROVE  req[u].contested
  BY <1>1, <1>5, <1>7 DEF SyncInv, CommitPush
<1>8. ASSUME NEW u \in Requests
      PROVE  RequestOK(req[u])'
  <2>1. req'[u].pc = "answer" => req'[u].op = "push"
    BY <1>2, <1>4 DEF SyncInv, RequestOK
  <2>2. ASSUME req'[u].pc = "answer", req'[u].found, ~req'[u].contested
        PROVE  active' = Wants(req'[u])
    BY <1>6, <1>7, <2>1, <2>2
  <2>3. ASSUME req'[u].barred
        PROVE  /\ req'[u].op = "login" /\ req'[u].pc = "read" /\ active' = FALSE
               /\ \A v \in Requests : req'[v].op = "push" => ~Wants(req'[v])
    <3>1. /\ req[u].op = "login" /\ req[u].pc = "read"
          /\ \A v \in Requests : req[v].op = "push" => ~Wants(req[v])
      BY <1>6, <2>3 DEF SyncInv, RequestOK
    <3>2. u # r /\ ~Wants(p)
      BY <1>1, <3>1 DEF CommitPush
    <3> QED
      BY <1>4, <1>5, <1>6, <3>1, <3>2
  <2> QED
    BY <1>5, <2>1, <2>2, <2>3, SyncAssumption DEF RequestOK, Wants
<1>9. TypeOK'
  BY <1>2, <1>3, <1>4, <1>5 DEF TypeOK
<1>10. LastAnswerHolds'
  BY <1>1, <1>3, <1>5 DEF SyncInv, LastAnswerHolds, CommitPush
<1>11. ASSUME NEW u \in Requests, req'[u].op = "push", agreed' # None
       PROVE  agreed' = Wants(req'[u])
  BY <1>3, <1>6, <1>11 DEF SyncInv
<1>12. ASSUME NEW u \in Requests, NEW v \in Requests,
              req'[u].op = "push", req'[v].op = "push", Wants(req'[u]) # Wants(req'[v])
       PROVE  req'[u].contested
  BY <1>6, <1>12 DEF SyncInv
<1> QED
  BY <1>8, <1>9, <1>10, <1>11, <1>12 DEF SyncInv, Wants

LEMMA AnswerStep ==
  ASSUME TypeOK, SyncInv, NEW r \in Requests, Answer(r)
  PROVE  TypeOK' /\ SyncInv'
<1> DEFINE q == [Idle EXCEPT !.result = "answered"]
<1>1. /\ q \in Request /\ q.op = None /\ q.pc = "idle" /\ ~q.found /\ ~q.barred
  BY IdleTyped
<1> HIDE DEF q
<1>2. \A u \in Requests : req'[u] = IF u = r THEN q ELSE req[u]
  BY DEF TypeOK, Answer, q
<1>3. req' \in [Requests -> Request]
  BY <1>1 DEF TypeOK, Answer, q
<1>4. active' = active /\ req[r].op = "push"
  BY DEF Answer, SyncInv, RequestOK
<1>5. \A u \in Requests : req'[u].op = "push" => u # r /\ req'[u] = req[u]
  BY <1>1, <1>2, SyncAssumption
<1>6. ASSUME agreed' # agreed
      PROVE  agreed' = Wants(req[r]) /\ ~req[r].contested /\ active = Wants(req[r])
  BY <1>6 DEF Answer, SyncInv, RequestOK
<1>7. agreed' \in BOOLEAN \cup {None}
  BY <1>6, WantsIsBoolean DEF TypeOK
<1>8. LastAnswerHolds'
  BY <1>4, <1>6 DEF SyncInv, LastAnswerHolds
<1>9. ASSUME NEW u \in Requests
      PROVE  RequestOK(req[u])'
  <2>1. CASE u = r
    BY <1>1, <1>2, <2>1 DEF RequestOK
  <2>2. CASE u # r
    <3>1. RequestOK(req[u]) /\ req'[u] = req[u]
      BY <1>2, <2>2 DEF SyncInv
    <3>2. /\ req'[u].found \/ req'[u].pc \in {"update", "commit"} => active' # None
          /\ req'[u].pc = "answer" => req'[u].op = "push"
          /\ req'[u].pc = "answer" /\ req'[u].found /\ ~req'[u].contested
               => active' = Wants(req'[u])
      BY <1>4, <3>1 DEF RequestOK
    <3>3. ASSUME req'[u].barred
          PROVE  /\ req'[u].op = "login" /\ req'[u].pc = "read" /\ active' = FALSE
                 /\ \A v \in Requests : req'[v].op = "push" => ~Wants(req'[v])
      BY <1>4, <1>5, <3>1, <3>3 DEF RequestOK
    <3> QED
      BY <3>2, <3>3 DEF RequestOK, Wants
  <2> QED
    BY <2>1, <2>2
<1>10. ASSUME NEW u \in Requests, req'[u].op = "push", agreed' # None
       PROVE  agreed' = Wants(req'[u])
  <2>1. CASE agreed' = agreed
    BY <1>5, <1>10, <2>1 DEF SyncInv
  <2>2. CASE agreed' # agreed
    <3>1. Wants(req[r]) = Wants(req[u])
      BY <1>4, <1>5, <1>6, <1>10, <2>2 DEF SyncInv
    <3> QED
      BY <1>5, <1>6, <1>10, <2>2, <3>1
  <2> QED
    BY <2>1, <2>2
<1>11. ASSUME NEW u \in Requests, NEW v \in Requests,
              req'[u].op = "push", req'[v].op = "push", Wants(req'[u]) # Wants(req'[v])
       PROVE  req'[u].contested
  BY <1>5, <1>11 DEF SyncInv
<1> QED
  BY <1>3, <1>4, <1>7, <1>8, <1>9, <1>10, <1>11 DEF TypeOK, SyncInv, Wants

LEMMA RegisterStep ==
  ASSUME TypeOK, SyncInv, Register
  PROVE  TypeOK' /\ SyncInv'
<1>1. active = None /\ active' = TRUE /\ agreed' = agreed /\ req' = req
  BY DEF Register
<1>2. agreed = None
  BY <1>1 DEF SyncInv, LastAnswerHolds
<1>3. \A u \in Requests : RequestOK(req[u])
  BY DEF SyncInv
<1>4. \A u \in Requests :
        /\ ~req[u].found /\ req[u].pc \notin {"update", "commit"} /\ ~req[u].barred
        /\ req[u].pc = "answer" => req[u].op = "push"
  BY <1>1, <1>3, SyncAssumption DEF RequestOK
<1>5. \A u \in Requests : RequestOK(req[u])'
  BY <1>1, <1>4 DEF RequestOK
<1>6. TypeOK'
  BY <1>1 DEF TypeOK
<1>7. \A u, v \in Requests :
        /\ req'[u].op = "push" /\ req'[v].op = "push" /\ Wants(req'[u]) # Wants(req'[v])
        => req'[u].contested
  BY <1>1 DEF SyncInv
<1> QED
  BY <1>1, <1>2, <1>5, <1>6, <1>7 DEF SyncInv, LastAnswerHolds, Wants

-----------------------------------------------------------------------------
(* The theorems.                                                           *)

LEMMA InitInv == Init => TypeOK /\ SyncInv
<1> SUFFICES ASSUME Init PROVE TypeOK /\ SyncInv
  OBVIOUS
<1>1. /\ Idle \in Request /\ Idle.op = None /\ Idle.pc = "idle" /\ ~Idle.found
      /\ ~Idle.barred
  BY SyncAssumption DEF Idle, Request
<1>2. TypeOK
  BY <1>1 DEF Init, TypeOK
<1>3. \A u \in Requests : req[u] = Idle
  BY DEF Init
<1>4. \A u \in Requests : RequestOK(req[u]) /\ req[u].op # "push"
  BY <1>1, <1>3, SyncAssumption DEF RequestOK
<1> QED
  BY <1>2, <1>4 DEF Init, SyncInv, LastAnswerHolds

LEMMA NextStep == TypeOK /\ SyncInv /\ [Next]_vars => TypeOK' /\ SyncInv'
<1> SUFFICES ASSUME TypeOK, SyncInv, [Next]_vars PROVE TypeOK' /\ SyncInv'
  OBVIOUS
<1>1. CASE UNCHANGED vars
  <2>1. TypeOK'
    BY <1>1 DEF vars, TypeOK
  <2>2. \A u \in Requests : RequestOK(req[u])'
    BY <1>1 DEF vars, SyncInv, RequestOK, Wants
  <2> QED
    BY <1>1, <2>1, <2>2 DEF vars, SyncInv, LastAnswerHolds, Wants
<1>2. CASE Register
  BY <1>2, RegisterStep
<1>3. ASSUME NEW r \in Requests, BeginPush(r) \/ BeginLogin(r) \/ Serve(r) \/ Abort(r)
      PROVE  TypeOK' /\ SyncInv'
  BY <1>3, BeginPushStep, BeginLoginStep, ReadPushStep, UpdateStep, CommitPushStep,
     AnswerStep, ReadLoginStep, CommitLoginStep, AbortStep DEF Serve
<1> QED
  BY <1>1, <1>2, <1>3 DEF Next

LEMMA Invariant == Spec => [](TypeOK /\ SyncInv)
  BY InitInv, NextStep, PTL DEF Spec

\* The worker threads, the row and the histories keep their types (StatusSync).
THEOREM TypeCorrect == Spec => []TypeOK
  BY Invariant, PTL

\* Pushes under way that want opposite things know of it, and the status 019 and this
\* service agree on is the only one any push under way wants (sync_status).
THEOREM InductiveInvariant == Spec => []SyncInv
  BY Invariant, PTL

\* What the last answered push set is what is stored, unless it was overlapped by
\* a push of the opposite (sync_status).
THEOREM LastAnswerHoldsCorrect == Spec => []LastAnswerHolds
<1>1. SyncInv => LastAnswerHolds
  BY DEF SyncInv
<1> QED
  BY <1>1, Invariant, PTL

\* No login commits that began once a deactivation had been answered and before a
\* later activation was sent (authenticate).
THEOREM BarredLoginsFailCorrect == Spec => BarredLoginsFail
<1>1. TypeOK /\ SyncInv /\ [Next]_vars =>
        [\A r \in Requests : CommitLogin(r) => ~req[r].barred]_vars
  <2> SUFFICES ASSUME SyncInv, NEW r \in Requests, CommitLogin(r)
               PROVE  ~req[r].barred
    BY Zenon
  <2> QED
    BY DEF SyncInv, RequestOK, CommitLogin
<1> QED
  BY <1>1, Invariant, PTL DEF Spec, BarredLoginsFail

-----------------------------------------------------------------------------
(* The refinement.                                                         *)

\* A step that leaves the row alone and one worker that looks the same: a stutter.
LEMMA SameCall ==
  ASSUME NEW r \in Requests, TypeOK, active' = active,
         \A u \in Requests \ {r} : req'[u] = req[u],
         SeenCall(req'[r]) = SeenCall(req[r])
  PROVE  UNCHANGED <<active, SeenCalls>>
<1>1. SeenCalls' = [u \in Requests |-> SeenCall(req'[u])]
  BY DEF SeenCalls, SeenCall, Desired
<1>2. \A u \in Requests : SeenCall(req'[u]) = SeenCall(req[u])
  OBVIOUS
<1> QED
  BY <1>1, <1>2 DEF SeenCalls

\* A step that changes what is seen of one worker.
LEMMA OneCall ==
  ASSUME NEW r \in Requests, TypeOK,
         \A u \in Requests \ {r} : SeenCall(req'[u]) = SeenCall(req[u])
  PROVE  SeenCalls' = [SeenCalls EXCEPT ![r] = SeenCall(req'[r])]
<1>1. SeenCalls' = [u \in Requests |-> SeenCall(req'[u])]
  BY DEF SeenCalls, SeenCall, Desired
<1> QED
  BY <1>1 DEF SeenCalls

LEMMA SeenAt ==
  ASSUME NEW r \in Requests
  PROVE  SeenCalls[r] = SeenCall(req[r])
  BY DEF SeenCalls

LEMMA SeenIdle ==
  ASSUME NEW v \in {"none", "answered", "failed"}
  PROVE  SeenCall([Idle EXCEPT !.result = v]) = [state |-> v, want |-> FALSE]
  BY IdleTyped, SyncAssumption DEF SeenCall

LEMMA ReqStep ==
  ASSUME TypeOK, NEW r \in Requests, NEW q, req' = [req EXCEPT ![r] = q]
  PROVE  req'[r] = q /\ \A u \in Requests \ {r} : req'[u] = req[u]
  BY DEF TypeOK

LEMMA BeginPushSeen ==
  ASSUME TypeOK, NEW r \in Requests, BeginPush(r)
  PROVE  \E want \in BOOLEAN : Flag!Arrive(r, want)
<1>1. PICK s \in Statuses :
        req' = [t \in Requests |->
          IF t = r
          THEN [Idle EXCEPT !.pc = "read", !.op = "push", !.status = s,
                            !.contested = \E u \in Requests : Opposed(req[u], s)]
          ELSE Met(req[t], s)]
  BY DEF BeginPush
<1> DEFINE q == [Idle EXCEPT !.pc = "read", !.op = "push", !.status = s,
                  !.contested = \E u \in Requests : Opposed(req[u], s)]
<1>2. q.pc = "read" /\ q.op = "push" /\ q.status = s
  <2>1. PICK c : c = (\E u \in Requests : Opposed(req[u], s))
    OBVIOUS
  <2>2. q = [Idle EXCEPT !.pc = "read", !.op = "push", !.status = s, !.contested = c]
    BY <2>1
  <2> HIDE DEF q
  <2> QED
    BY <2>2 DEF Idle
<1> HIDE DEF q
<1>3. req'[r] = q /\ \A u \in Requests \ {r} : req'[u] = Met(req[u], s)
  BY <1>1 DEF q
<1>4. SeenCall(req'[r]) = [state |-> "called", want |-> Desired(s)]
  BY <1>2, <1>3 DEF SeenCall
<1>5. \A u \in Requests \ {r} : SeenCall(req'[u]) = SeenCall(req[u])
  <2> SUFFICES ASSUME NEW u \in Requests \ {r}
               PROVE  SeenCall(Met(req[u], s)) = SeenCall(req[u])
    BY <1>3
  <2>1. req[u] \in Request
    BY DEF TypeOK
  <2>2. /\ Met(req[u], s).op = req[u].op /\ Met(req[u], s).pc = req[u].pc
        /\ Met(req[u], s).status = req[u].status
        /\ Met(req[u], s).result = req[u].result
    BY <2>1 DEF Met, Request
  <2> QED
    BY <2>2 DEF SeenCall
<1>6. SeenCalls' = [SeenCalls EXCEPT ![r] = [state |-> "called", want |-> Desired(s)]]
  BY <1>4, <1>5, OneCall
<1>7. SeenCalls[r].state \notin {"called", "set"}
  <2>1. req[r] \in Request /\ req[r].pc = "idle"
    BY DEF TypeOK, BeginPush, Busy
  <2>2. req[r].op # "push" /\ req[r].result \in {"none", "answered", "failed"}
    BY <2>1, SyncAssumption DEF Request
  <2>3. SeenCall(req[r]).state = req[r].result
    BY <2>2 DEF SeenCall
  <2> QED
    BY <2>2, <2>3, SeenAt
<1>8. active' = active
  BY DEF BeginPush
<1>9. Desired(s) \in BOOLEAN
  BY DesiredIsWants
<1> QED
  BY <1>6, <1>7, <1>8, <1>9 DEF Flag!Arrive

LEMMA SetState ==
  ASSUME NEW w, NEW r \in Requests,
         SeenCalls[r] = [state |-> "called", want |-> w]
  PROVE  [SeenCalls EXCEPT ![r].state = "set"]
           = [SeenCalls EXCEPT ![r] = [state |-> "set", want |-> w]]
<1>1. [[state |-> "called", want |-> w] EXCEPT !.state = "set"]
        = [state |-> "set", want |-> w]
  OBVIOUS
<1>2. [SeenCalls EXCEPT ![r].state = "set"]
        = [SeenCalls EXCEPT ![r] = [SeenCalls[r] EXCEPT !.state = "set"]]
  BY Zenon
<1> QED
  BY <1>1, <1>2

LEMMA ReadPushSeen ==
  ASSUME TypeOK, NEW r \in Requests, ReadPush(r)
  PROVE  Flag!Take(r) \/ UNCHANGED <<active, SeenCalls>>
<1>1. PICK p \in Request : p = req[r]
  BY DEF TypeOK
<1>2. p.op = "push" /\ p.pc = "read"
  BY <1>1 DEF ReadPush
<1> DEFINE next == IF active \in {None, Desired(p.status)} THEN "answer" ELSE "update"
           q == [p EXCEPT !.found = (active # None), !.pc = next]
<1>3. q.op = "push" /\ q.pc = next /\ q.status = p.status
  <2>1. PICK b : b = (active # None)
    OBVIOUS
  <2>2. PICK n : n = next
    OBVIOUS
  <2>3. q = [p EXCEPT !.found = b, !.pc = n]
    BY <2>1, <2>2
  <2> HIDE DEF q, next
  <2> QED
    BY <1>2, <2>2, <2>3 DEF Request
<1>4. req' = [req EXCEPT ![r] = q] /\ active' = active
  BY <1>1 DEF ReadPush
<1> HIDE DEF q
<1>5. req'[r] = q /\ \A u \in Requests \ {r} : req'[u] = req[u]
  BY <1>4, ReqStep
<1>6. SeenCall(req[r]) = [state |-> "called", want |-> Desired(p.status)]
  BY <1>1, <1>2 DEF SeenCall
<1>7. CASE active \in {None, Desired(p.status)}
  <2>1. SeenCall(req'[r]) = [state |-> "set", want |-> Desired(p.status)]
    BY <1>3, <1>5, <1>7 DEF SeenCall
  <2>2. SeenCalls' = [SeenCalls EXCEPT ![r] = [state |-> "set", want |-> Desired(p.status)]]
    BY <1>5, <2>1, OneCall
  <2>3. SeenCalls[r] = [state |-> "called", want |-> Desired(p.status)]
    BY <1>6, SeenAt
  <2>4. SeenCalls' = [SeenCalls EXCEPT ![r].state = "set"]
    BY <2>2, <2>3, SetState
  <2>5. SeenCalls[r].state = "called" /\ SeenCalls[r].want = Desired(p.status)
    BY <2>3
  <2>6. active' = IF active = None THEN None ELSE SeenCalls[r].want
    BY <1>4, <1>7, <2>5
  <2> QED
    BY <2>4, <2>5, <2>6 DEF Flag!Take
<1>8. CASE active \notin {None, Desired(p.status)}
  <2>1. SeenCall(req'[r]) = SeenCall(req[r])
    BY <1>3, <1>5, <1>6, <1>8 DEF SeenCall
  <2> QED
    BY <1>4, <1>5, <2>1, SameCall
<1> QED
  BY <1>7, <1>8

LEMMA CommitPushSeen ==
  ASSUME TypeOK, SyncInv, NEW r \in Requests, CommitPush(r)
  PROVE  Flag!Take(r)
<1>1. PICK p \in Request : p = req[r]
  BY DEF TypeOK
<1>2. p.op = "push" /\ p.pc = "commit" /\ active # None
  BY <1>1 DEF CommitPush, SyncInv, RequestOK
<1> DEFINE q == [p EXCEPT !.pc = "answer"]
<1>3. q.op = "push" /\ q.pc = "answer" /\ q.status = p.status
  BY <1>2 DEF Request
<1>4. req' = [req EXCEPT ![r] = q] /\ active' = Desired(p.status)
  BY <1>1 DEF CommitPush
<1> HIDE DEF q
<1>5. req'[r] = q /\ \A u \in Requests \ {r} : req'[u] = req[u]
  BY <1>4, ReqStep
<1>6. SeenCalls[r] = [state |-> "called", want |-> Desired(p.status)]
  BY <1>1, <1>2, SeenAt DEF SeenCall
<1>7. SeenCall(req'[r]) = [state |-> "set", want |-> Desired(p.status)]
  BY <1>3, <1>5 DEF SeenCall
<1>8. SeenCalls' = [SeenCalls EXCEPT ![r] = [state |-> "set", want |-> Desired(p.status)]]
  BY <1>5, <1>7, OneCall
<1>9. SeenCalls' = [SeenCalls EXCEPT ![r].state = "set"]
  BY <1>6, <1>8, SetState
<1> QED
  BY <1>2, <1>4, <1>6, <1>9 DEF Flag!Take

\* A worker that ends is seen to have answered, to have failed, or not at all.
LEMMA EndSeen ==
  ASSUME TypeOK, NEW r \in Requests, NEW v \in {"none", "answered", "failed"},
         req' = [req EXCEPT ![r] = [Idle EXCEPT !.result = v]]
  PROVE  SeenCalls' = [SeenCalls EXCEPT ![r] = [state |-> v, want |-> FALSE]]
<1>1. SeenCall([Idle EXCEPT !.result = v]) = [state |-> v, want |-> FALSE]
  BY SeenIdle
<1> DEFINE q == [Idle EXCEPT !.result = v]
<1> HIDE DEF q
<1>2. req'[r] = q /\ \A u \in Requests \ {r} : req'[u] = req[u]
  BY ReqStep DEF q
<1>3. SeenCall(req'[r]) = [state |-> v, want |-> FALSE]
  BY <1>1, <1>2 DEF q
<1> QED
  BY <1>2, <1>3, OneCall

LEMMA LoginEndSeen ==
  ASSUME TypeOK, NEW r \in Requests, req[r].op # "push", active' = active,
         req' = [req EXCEPT ![r] = [Idle EXCEPT !.result = req[r].result]]
  PROVE  UNCHANGED <<active, SeenCalls>>
<1>1. PICK v \in {"none", "answered", "failed"} : v = req[r].result
  BY DEF TypeOK, Request
<1>2. SeenCalls' = [SeenCalls EXCEPT ![r] = [state |-> v, want |-> FALSE]]
  BY <1>1, EndSeen
<1>3. SeenCalls[r] = [state |-> v, want |-> FALSE]
  BY <1>1, SeenAt DEF SeenCall
<1>4. SeenCalls = [u \in Requests |-> SeenCalls[u]]
  BY DEF SeenCalls
<1>5. SeenCalls' = SeenCalls
  BY <1>2, <1>3, <1>4
<1> QED
  BY <1>5

LEMMA AnswerSeen ==
  ASSUME TypeOK, SyncInv, NEW r \in Requests, Answer(r)
  PROVE  Flag!Answer(r)
<1>1. req[r].op = "push" /\ req[r].pc = "answer" /\ active' = active
  BY DEF SyncInv, RequestOK, Answer
<1>2. SeenCalls[r] = [state |-> "set", want |-> Desired(req[r].status)]
  BY <1>1, SeenAt DEF SeenCall
<1>3. SeenCalls' = [SeenCalls EXCEPT ![r] = [state |-> "answered", want |-> FALSE]]
  BY EndSeen DEF Answer
<1> QED
  BY <1>1, <1>2, <1>3 DEF Flag!Answer

LEMMA AbortSeen ==
  ASSUME TypeOK, NEW r \in Requests, Abort(r)
  PROVE  Flag!Fail(r) \/ UNCHANGED <<active, SeenCalls>>
<1>1. active' = active
  BY DEF Abort
<1>2. CASE req[r].op = "push"
  <2>1. PICK v \in {"called", "set"} :
          SeenCalls[r] = [state |-> v, want |-> Desired(req[r].status)]
    BY <1>2, SeenAt DEF SeenCall
  <2>2. SeenCalls' = [SeenCalls EXCEPT ![r] = [state |-> "failed", want |-> FALSE]]
    BY <1>2, EndSeen DEF Abort, Failed
  <2> QED
    BY <1>1, <2>1, <2>2 DEF Flag!Fail
<1>3. CASE req[r].op # "push"
  BY <1>1, <1>3, LoginEndSeen DEF Abort, Failed
<1> QED
  BY <1>2, <1>3

\* Every push takes effect at one instant between its arrival and its answer
\* (update_user_status).
THEOREM Refinement == Spec => ImplementsFlag
<1>1. Init => Flag!Init
  <2> SUFFICES ASSUME Init PROVE Flag!Init
    OBVIOUS
  <2>1. Idle.op = None /\ Idle.result = "none"
    BY DEF Idle
  <2>2. SeenCall(Idle) = [state |-> "none", want |-> FALSE]
    BY <2>1, SyncAssumption DEF SeenCall
  <2>3. \A r \in Requests : SeenCall(req[r]) = [state |-> "none", want |-> FALSE]
    BY <2>2 DEF Init
  <2>4. SeenCalls = [r \in Requests |-> [state |-> "none", want |-> FALSE]]
    BY <2>3 DEF SeenCalls
  <2> QED
    BY <2>4 DEF Init, Flag!Init
<1>2. TypeOK /\ SyncInv /\ [Next]_vars => [Flag!Next]_(Flag!vars)
  <2> SUFFICES ASSUME TypeOK, SyncInv, [Next]_vars
               PROVE  Flag!Next \/ UNCHANGED Flag!vars
    OBVIOUS
  <2>1. CASE UNCHANGED vars
    BY <2>1 DEF vars, Flag!vars, SeenCalls, SeenCall, Desired
  <2>2. CASE Register
    <3>1. SeenCalls' = SeenCalls
      BY <2>2 DEF Register, SeenCalls, SeenCall, Desired
    <3> QED
      BY <2>2, <3>1 DEF Register, Flag!Create, Flag!Next
  <2>3. ASSUME NEW r \in Requests, BeginLogin(r) \/ Update(r) \/ ReadLogin(r)
        PROVE  UNCHANGED <<active, SeenCalls>>
    <3>1. CASE BeginLogin(r)
      <4>1. PICK p \in Request : p = req[r]
        BY DEF TypeOK
      <4>2. p.op # "push"
        BY <3>1, <4>1, SyncAssumption DEF BeginLogin, Busy, Request
      <4> DEFINE q == [Idle EXCEPT !.pc = "read", !.op = "login", !.result = p.result,
                                    !.barred = (agreed = FALSE)]
      <4>3. q.op = "login" /\ q.result = p.result
        <5>1. PICK b : b = (agreed = FALSE)
          OBVIOUS
        <5>2. q = [Idle EXCEPT !.pc = "read", !.op = "login", !.result = p.result,
                               !.barred = b]
          BY <5>1
        <5> HIDE DEF q
        <5> QED
          BY <5>2 DEF Idle
      <4>4. req' = [req EXCEPT ![r] = q] /\ active' = active
        BY <3>1, <4>1 DEF BeginLogin
      <4> HIDE DEF q
      <4>5. req'[r] = q /\ \A u \in Requests \ {r} : req'[u] = req[u]
        BY <4>4, ReqStep
      <4>6. SeenCall(req'[r]) = SeenCall(req[r])
        BY <4>1, <4>2, <4>3, <4>5 DEF SeenCall
      <4> QED
        BY <4>4, <4>5, <4>6, SameCall
    <3>2. CASE Update(r)
      <4>1. PICK p \in Request : p = req[r]
        BY DEF TypeOK
      <4> DEFINE q == [p EXCEPT !.pc = "commit"]
      <4>2. /\ q.op = p.op /\ q.status = p.status /\ q.result = p.result
            /\ q.pc = "commit" /\ p.pc = "update"
        BY <3>2, <4>1 DEF Request, Update
      <4>3. req' = [req EXCEPT ![r] = q] /\ active' = active
        BY <3>2, <4>1 DEF Update
      <4> HIDE DEF q
      <4>4. req'[r] = q /\ \A u \in Requests \ {r} : req'[u] = req[u]
        BY <4>3, ReqStep
      <4>5. SeenCall(req'[r]) = SeenCall(req[r])
        BY <4>1, <4>2, <4>4 DEF SeenCall
      <4> QED
        BY <4>3, <4>4, <4>5, SameCall
    <3>3. CASE ReadLogin(r) /\ ~Admitted
      BY <3>3, LoginEndSeen DEF ReadLogin
    <3>4. CASE ReadLogin(r) /\ Admitted
      <4>1. PICK p \in Request : p = req[r]
        BY DEF TypeOK
      <4> DEFINE q == [p EXCEPT !.pc = "update"]
      <4>2. q.op = p.op /\ q.result = p.result /\ p.op = "login"
        BY <3>4, <4>1 DEF Request, ReadLogin
      <4>3. req' = [req EXCEPT ![r] = q] /\ active' = active
        BY <3>4, <4>1 DEF ReadLogin
      <4> HIDE DEF q
      <4>4. req'[r] = q /\ \A u \in Requests \ {r} : req'[u] = req[u]
        BY <4>3, ReqStep
      <4>5. SeenCall(req'[r]) = SeenCall(req[r])
        BY <4>1, <4>2, <4>4 DEF SeenCall
      <4> QED
        BY <4>3, <4>4, <4>5, SameCall
    <3> QED
      BY <2>3, <3>1, <3>2, <3>3, <3>4
  <2>4. ASSUME NEW r \in Requests, CommitLogin(r)
        PROVE  UNCHANGED <<active, SeenCalls>>
    BY <2>4, LoginEndSeen DEF CommitLogin, Stored
  <2>5. ASSUME NEW r \in Requests, BeginPush(r)
        PROVE  Flag!Next
    BY <2>5, BeginPushSeen DEF Flag!Next
  <2>6. ASSUME NEW r \in Requests, ReadPush(r)
        PROVE  Flag!Next \/ UNCHANGED <<active, SeenCalls>>
    BY <2>6, ReadPushSeen DEF Flag!Next
  <2>7. ASSUME NEW r \in Requests, CommitPush(r)
        PROVE  Flag!Next
    BY <2>7, CommitPushSeen DEF Flag!Next
  <2>8. ASSUME NEW r \in Requests, Answer(r)
        PROVE  Flag!Next
    BY <2>8, AnswerSeen DEF Flag!Next
  <2>9. ASSUME NEW r \in Requests, Abort(r)
        PROVE  Flag!Next \/ UNCHANGED <<active, SeenCalls>>
    BY <2>9, AbortSeen DEF Flag!Next
  <2> QED
    BY <2>1, <2>2, <2>3, <2>4, <2>5, <2>6, <2>7, <2>8, <2>9 DEF Next, Serve, Flag!vars
<1> QED
  BY <1>1, <1>2, Invariant, PTL DEF Spec, ImplementsFlag, Flag!Spec
=============================================================================
