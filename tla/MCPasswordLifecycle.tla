------------------------- MODULE MCPasswordLifecycle -------------------------
(* TLC instances of PasswordLifecycle; the cfgs give the constants.        *)
EXTENDS PasswordLifecycle
=============================================================================
