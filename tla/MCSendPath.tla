------------------------------ MODULE MCSendPath ------------------------------
(* One TCP and one WEB listener.  Bodies: with their heads, the longest        *)
(* message with a web header of one byte, the longest a TCP header can tell,   *)
(* and the shortest that no web package is made for.                           *)
EXTENDS SendPath

MCKind == [l \in Listeners |-> IF l # "tcp" THEN "WEB_SOCKET" ELSE "TCP_SOCKET"]
=============================================================================
