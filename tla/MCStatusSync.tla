------------------------------ MODULE MCStatusSync ------------------------------
(* TLC instances of StatusSync; the cfgs give the constants.               *)
EXTENDS StatusSync
=============================================================================
