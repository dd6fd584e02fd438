-------------------------------- MODULE MCLogin --------------------------------
(* TLC instances of Login; the cfgs give the constants.                    *)
EXTENDS Login
=============================================================================
