----------------------------- MODULE MCRegistration -----------------------------
(* TLC instances of Registration; the cfgs give the other constants.       *)
EXTENDS Registration

CONSTANTS k1, k2, ada, bob, p1, p2

\* One registration, and it with another password, with another identity and
\* with another key.
SomeBodies == {<<k1, ada, p1>>, <<k1, ada, p2>>, <<k1, bob, p1>>, <<k2, ada, p1>>}
=============================================================================
