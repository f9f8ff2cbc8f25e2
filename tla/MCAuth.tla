-------------------------------- MODULE MCAuth --------------------------------
(* Two logins, three threads of the pool: enough for one thread to overtake    *)
(* another on either connection while a third request waits.                   *)
EXTENDS Auth
=============================================================================
