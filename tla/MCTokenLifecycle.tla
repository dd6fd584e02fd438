--------------------------- MODULE MCTokenLifecycle ---------------------------
(* TLC instances of TokenLifecycle; the cfgs give the constants.           *)
EXTENDS TokenLifecycle, TLC

\* Workers are interchangeable; users and contexts too.  Ids are not: they are
\* ordered.  Never used where liveness is checked.
Symmetry ==
  Permutations(Requests) \cup Permutations(Users) \cup Permutations(Contexts)
=============================================================================
