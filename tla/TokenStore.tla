------------------------------ MODULE TokenStore ------------------------------
(***************************************************************************)
(* What the token service promises of refresh tokens, with no requests,    *)
(* transactions, rows or clock in it: a token is born live, alone or as    *)
(* the replacement of another; a token that is revoked or replaced is dead *)
(* in the same instant and for ever.                                       *)
(*                                                                         *)
(* Rotate admits a dead parent.  A service that served one request at a    *)
(* time would only rotate live tokens; this one reads the row without      *)
(* locking it, so a token that died in between is still replaced.          *)
(***************************************************************************)
CONSTANTS TokenIds, None

VARIABLES
  live,    \* tokens that can be refreshed
  dead,    \* tokens that were revoked or replaced
  parent   \* the token each stored token replaced, or None

vars == <<live, dead, parent>>

Stored == live \cup dead

TypeOK ==
  /\ live \subseteq TokenIds /\ dead \subseteq TokenIds
  /\ parent \in [Stored -> TokenIds \cup {None}]

Init ==
  /\ live = {} /\ dead = {}
  /\ parent = [t \in {} |-> None]

Born(n, p) == [t \in Stored \cup {n} |-> IF t = n THEN p ELSE parent[t]]

Issue(n) ==
  /\ n \notin Stored
  /\ live' = live \cup {n}
  /\ dead' = dead
  /\ parent' = Born(n, None)

Rotate(t, n) ==
  /\ t \in Stored /\ n \notin Stored
  /\ live' = (live \ {t}) \cup {n}
  /\ dead' = dead \cup {t}
  /\ parent' = Born(n, t)

Revoke(T) ==
  /\ live' = live \ T
  /\ dead' = dead \cup T
  /\ parent' = parent

Next ==
  \/ \E n \in TokenIds : Issue(n)
  \/ \E t \in Stored, n \in TokenIds : Rotate(t, n)
  \/ \E T \in SUBSET Stored : Revoke(T)

Spec == Init /\ [][Next]_vars

\* No token is both usable and dead, and a token that was replaced is dead for
\* as long as its replacement is stored: a stolen token is of no use once its
\* owner has refreshed it (TokenRepository.rotate).
ParentsDead ==
  /\ live \cap dead = {}
  /\ \A n \in Stored : parent[n] # None => parent[n] \in dead
=============================================================================
