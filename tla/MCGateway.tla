------------------------------ MODULE MCGateway ------------------------------
(* The blocks of the pool are model values and interchangeable; servers, tags  *)
(* and guests are numbers, and the guest of the runs one that a tag reaches.   *)
EXTENDS Gateway, TLC

Blocks == Permutations(Addresses)

(* What an address still says, to those who have it: no callback reads the     *)
(* fields of a session that uv_close has, or whose block is free, before       *)
(* create() zeroes them, and who is verified concerns open sessions alone.     *)
Remembered(a) ==
  IF sess[a].stage \in {"closing", "free"}
  THEN sess[a].stage
  ELSE <<sess[a], target[a], IF sess[a].stage = "open" THEN verified[a] ELSE 0>>

(* The part of the state that what comes depends on: not what the step before  *)
(* sent, nor client_uid, which the gateway fills and never looks anyone up in. *)
Future == <<[a \in Addresses |-> Remembered(a)], listCache, sType2Session, do_connecting,
            client_temp, gKey, client_gid, pending, past, stale>>
=============================================================================
