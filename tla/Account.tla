-------------------------------- MODULE Account --------------------------------
(***************************************************************************)
(* What a user may expect of a password, with no requests, rows or locks   *)
(* in it: a new password ends, in the same instant, every session there    *)
(* is.                                                                     *)
(*                                                                         *)
(* LogIn does not ask which password was used, and Reset admits a token    *)
(* that is spent: the service checks both before it waits for the row that *)
(* another change holds.  Renew admits a session that is over: two         *)
(* refreshes of one token may both succeed.                                *)
(***************************************************************************)
CONSTANTS Passwords, TokenIds, ResetIds, None

VARIABLES
  password,  \* None before registration
  sessions,  \* refresh tokens that are good
  spent      \* reset tokens that have been used

vars == <<password, sessions, spent>>

Init == password = None /\ sessions = {} /\ spent = {}

Register(p, n) ==
  /\ password = None
  /\ password' = p /\ sessions' = {n}
  /\ UNCHANGED spent

\* Also a replayed registration.
LogIn(n) ==
  /\ password # None /\ n \notin sessions
  /\ sessions' = sessions \cup {n}
  /\ UNCHANGED <<password, spent>>

Renew(t, n) ==
  /\ n \notin sessions
  /\ sessions' = (sessions \ {t}) \cup {n}
  /\ UNCHANGED <<password, spent>>

\* A logout, a revocation.
Leave(n) ==
  /\ sessions' = sessions \ {n}
  /\ UNCHANGED <<password, spent>>

Change(p) ==
  /\ password # None
  /\ password' = p /\ sessions' = {}
  /\ UNCHANGED spent

Reset(p, x) ==
  /\ password # None
  /\ password' = p /\ sessions' = {}
  /\ spent' = spent \cup {x}

Next ==
  \/ \E p \in Passwords : Change(p) \/ \E n \in TokenIds : Register(p, n)
  \/ \E p \in Passwords, x \in ResetIds : Reset(p, x)
  \/ \E n \in TokenIds : LogIn(n) \/ Leave(n)
  \/ \E t, n \in TokenIds : Renew(t, n)

Spec == Init /\ [][Next]_vars
=============================================================================
