---------------------------- MODULE SessionState ----------------------------
(* The object Session_uv (netbus/session.h, netbus/session_uv.h) and what      *)
(* netbus does to one of them, as operators on values: modules Session and      *)
(* Gateway build their actions from these.                                     *)
(*                                                                             *)
(* The stages of a session, told apart by the libuv handle inside it:          *)
(*   "free"        its block is on the free list of session_allocer            *)
(*   "connecting"  tcp_connect started, after_connect not called yet           *)
(*   "open"        accepted or connected                                       *)
(*   "shutdown"    close() ran (isShotdown), uv_shutdown is in progress        *)
(*   "cancelled"   closed while connecting: after_connect is still called,     *)
(*                 with UV_ECANCELED, before uv_closeClient                    *)
(*   "closing"     uv_close was called, uv_closeClient not called yet          *)
(*   "orphan"      libuv refused the accept or the connect at once: no         *)
(*                 callback will ever concern this session                     *)
EXTENDS Naturals, Sequences, FiniteSets

Stages == {"free", "connecting", "open", "shutdown", "cancelled", "closing", "orphan"}

isShotdown(s) == s.stage \in {"shutdown", "cancelled", "closing"}

(* How far a session is, to those who keep its address (module Lives). *)
phase(s) == CASE s.stage = "free" -> "free"
              [] s.stage = "shutdown" -> "ended"
              [] s.stage \in {"cancelled", "closing"} -> "closing"
              [] OTHER -> "used"

(* A frame of this session may be dispatched: reading started, and neither an  *)
(* error nor uv_close has stopped it.  close() does not stop it.               *)
Receives(s) == s.stage \in {"open", "shutdown"} /\ s.reading

(* create() zeroes the object; the caller then fills in who it is.             *)
Created(stage, as_client) == [stage |-> stage, as_client |-> as_client,
                              reading |-> stage = "open",
                              utag |-> 0, uid |-> 0, gid |-> 0]

Freed(s) == [s EXCEPT !.stage = "free", !.reading = FALSE]

(* Mutant: the result of uv_shutdown is not looked at. *)
ShutDownUnchecked(s) == [s EXCEPT !.stage = CASE @ = "connecting" -> "cancelled"
                                              [] @ = "orphan" -> "orphan"
                                              [] OTHER -> "shutdown"]

(* close() behind its guard: uv_shutdown, or, when there is no connection to   *)
(* shut down, uv_close directly.                                               *)
ShutDown(s) == [s EXCEPT !.stage = CASE @ = "connecting" -> "cancelled"
                                     [] @ = "orphan" -> "closing"
                                     [] OTHER -> "shutdown"]

(* A negative nread: libuv reports nothing more for this socket.               *)
ReadEnded(s) == [s EXCEPT !.reading = FALSE]

HandleClosed(s) == [s EXCEPT !.stage = "closing", !.reading = FALSE]

(* after_connect(status = 0): reading starts.                                  *)
Connected(s) == [s EXCEPT !.stage = "open", !.reading = TRUE]

(* after_connect with an error, the one of uv_close included.                  *)
NotConnected(s) == [s EXCEPT !.stage = IF @ = "cancelled" THEN "closing" ELSE "orphan"]

(* The free list of session_allocer, head first (modules Cache and Pool).      *)
(* cacheCreator links all blocks; which is which does not matter.              *)
FullList(blocks) == CHOOSE list \in [1..Cardinality(blocks) -> blocks] :
                      /\ \A i, j \in DOMAIN list : list[i] = list[j] => i = j
                      /\ \A b \in blocks : \E i \in DOMAIN list : list[i] = b
Pop(list) == Tail(list)
Push(list, a) == <<a>> \o list
=============================================================================
