------------------------------- MODULE Session -------------------------------
(* The life of the sessions of one process: accepted from a listener or        *)
(* connected to another server (netbus/netbus.cc), closed by a handler or a     *)
(* read error, announced to the services (netbus/servicemanager.cc), shut down,*)
(* closed and given back to their pool (netbus/session_uv.cc).  All of it runs *)
(* on the loop thread; every action is one libuv callback.                     *)
EXTENDS SessionState

CONSTANTS
  Addresses,  \* blocks of session_allocer: bounds the sessions of a run
  Listeners,  \* listening handles
  kind        \* kind[l]: "TCP_SOCKET" or "WEB_SOCKET", from startTcpServer, startWebServer

ASSUME SessionAssumption == /\ IsFiniteSet(Addresses)
                            /\ kind \in [Listeners -> {"TCP_SOCKET", "WEB_SOCKET"}]

VARIABLES
  sess,         \* sess[a]: the session in block a
  listCache,    \* the free list, head first
  server_data,  \* server_data[l]: the listening handle's data field
  socketType,   \* socketType[a]
  notified,     \* notified[a]: calls of sessionDisconnect in a's life (history)
  uv_closed     \* uv_closed[a]: calls of uv_close in a's life (history)

vars == <<sess, listCache, server_data, socketType, notified, uv_closed>>

Init ==
  /\ sess = [a \in Addresses |-> Created("free", FALSE)]
  /\ listCache = FullList(Addresses)
  /\ server_data = kind
  /\ socketType = [a \in Addresses |-> "TCP_SOCKET"]
  /\ notified = [a \in Addresses |-> 0]
  /\ uv_closed = [a \in Addresses |-> 0]

------------------------------------------------------------------------------
(* Session_uv::create: the head of the free list.                              *)
create(stage, as_client, type) ==
  /\ listCache # <<>>
  /\ LET a == Head(listCache) IN
       /\ sess' = [sess EXCEPT ![a] = Created(stage, as_client)]
       /\ socketType' = [socketType EXCEPT ![a] = type]
       /\ notified' = [notified EXCEPT ![a] = 0]
       /\ uv_closed' = [uv_closed EXCEPT ![a] = 0]
  /\ listCache' = Pop(listCache)

(* Mutant: the data field is replaced before it is read. *)
uv_startTcpEventLate(l) ==
  /\ \E stage \in {"open", "orphan"} : create(stage, FALSE, "session pointer")
  /\ server_data' = [server_data EXCEPT ![l] = "session pointer"]

(* A connection arrives, or libuv reports an error, which nobody looks at.  The *)
(* listener's data field, the kind of socket, becomes the session: the kind of *)
(* the listener's later connections is that pointer.                           *)
uv_startTcpEvent(l) ==
  /\ \E stage \in {"open", "orphan"} : create(stage, FALSE, server_data[l])
  /\ server_data' = [server_data EXCEPT ![l] = "session pointer"]

(* uv_tcp_connect starts, or fails at once and never calls after_connect.      *)
tcp_connect ==
  /\ \E stage \in {"connecting", "orphan"} : create(stage, TRUE, "TCP_SOCKET")
  /\ UNCHANGED server_data

(* Session_uv::close, on a session that is not shut down yet: the services are  *)
(* told first.  Without a connection uv_close is called here.                  *)
closeOpen(a, s) ==
  /\ sess' = [sess EXCEPT ![a] = ShutDown(s)]
  /\ notified' = [notified EXCEPT ![a] = @ + 1]
  /\ uv_closed' = [uv_closed EXCEPT ![a] = IF ShutDown(s).stage = "shutdown" THEN @ ELSE @ + 1]

(* Mutant: nothing remembers that the session is being closed. *)
closeAgain(a, s) == closeOpen(a, s)

close(a, s) == IF isShotdown(s)
               THEN /\ sess' = [sess EXCEPT ![a] = s]
                    /\ UNCHANGED <<notified, uv_closed>>
               ELSE closeOpen(a, s)

(* The connect is over, or uv_close has cancelled it.                          *)
after_connect(a, status) ==
  /\ sess[a].stage = "connecting" \/ (sess[a].stage = "cancelled" /\ status # 0)
  /\ IF status = 0
     THEN /\ sess' = [sess EXCEPT ![a] = Connected(@)]
          /\ UNCHANGED <<notified, uv_closed>>
     ELSE close(a, NotConnected(sess[a]))
  /\ UNCHANGED <<listCache, server_data, socketType>>

(* A handler of a frame closes the session it came from (recvCmdMsg returned   *)
(* false), or another one (Session.close from Lua): with an address a script   *)
(* kept after its session was destroyed, any one that is in use.               *)
handlerCloses(a) ==
  /\ \E b \in Addresses : Receives(sess[b])
  /\ sess[a].stage # "free"
  /\ close(a, sess[a])
  /\ UNCHANGED <<listCache, server_data, socketType>>

readError(a) ==
  /\ Receives(sess[a])
  /\ close(a, ReadEnded(sess[a]))
  /\ UNCHANGED <<listCache, server_data, socketType>>

(* The shutdown is over, well or not: uv_close.                                *)
uv_close_oneClient(a) ==
  /\ sess[a].stage = "shutdown"
  /\ sess' = [sess EXCEPT ![a] = HandleClosed(@)]
  /\ uv_closed' = [uv_closed EXCEPT ![a] = @ + 1]
  /\ UNCHANGED <<listCache, server_data, socketType, notified>>

(* Mutant: the block is not given back. *)
uv_closeClientLeak(a) ==
  /\ sess[a].stage = "closing"
  /\ sess' = [sess EXCEPT ![a] = Freed(@)]
  /\ UNCHANGED <<listCache, server_data, socketType, notified, uv_closed>>

(* The close callback destroys the session: its block is the list's new head.  *)
uv_closeClient(a) ==
  /\ sess[a].stage = "closing"
  /\ sess' = [sess EXCEPT ![a] = Freed(@)]
  /\ listCache' = Push(listCache, a)
  /\ UNCHANGED <<server_data, socketType, notified, uv_closed>>

Next == \/ \E l \in Listeners : uv_startTcpEvent(l)
        \/ tcp_connect
        \/ \E a \in Addresses :
             \/ \E status \in {0, 1} : after_connect(a, status)
             \/ handlerCloses(a)
             \/ readError(a)
             \/ uv_close_oneClient(a)
             \/ uv_closeClient(a)

Spec == Init /\ [][Next]_vars

(* libuv calls back once for every shutdown, close and connect it accepted.    *)
Fairness == \A a \in Addresses : /\ WF_vars(\E status \in {0, 1} : after_connect(a, status))
                                 /\ WF_vars(uv_close_oneClient(a))
                                 /\ WF_vars(uv_closeClient(a))

FairSpec == Spec /\ Fairness

------------------------------------------------------------------------------
(* Type invariant of the sessions (session.h:9-14, session_uv.h:19-63).        *)
TypeOK ==
  /\ sess \in [Addresses -> [stage : Stages, as_client : BOOLEAN, reading : BOOLEAN,
                             utag : Nat, uid : Nat, gid : Nat]]
  /\ listCache \in Seq(Addresses)
  /\ server_data \in [Listeners -> {"TCP_SOCKET", "WEB_SOCKET", "session pointer"}]
  /\ socketType \in [Addresses -> {"TCP_SOCKET", "WEB_SOCKET", "session pointer"}]
  /\ notified \in [Addresses -> 0..1]
  /\ uv_closed \in [Addresses -> 0..1]

(* The free list holds each destroyed session once and no live one: destroy    *)
(* never runs twice for a session, create never returns one that is in use.    *)
BlocksAccounted ==
  /\ \A i, j \in 1..Len(listCache) : listCache[i] = listCache[j] => i = j
  /\ \A a \in Addresses :
       sess[a].stage = "free" <=> \E i \in 1..Len(listCache) : listCache[i] = a

(* The services hear of the end of a session once, however many handlers and   *)
(* read errors close it, and before its memory is given back.                  *)
NotifiedOnce == \A a \in Addresses :
  CASE isShotdown(sess[a]) -> notified[a] = 1
    [] sess[a].stage \in {"connecting", "open", "orphan"} -> notified[a] = 0
    [] OTHER -> notified[a] <= 1

(* libuv aborts the process when uv_close is called twice for one handle.      *)
UvCloseOnce == \A a \in Addresses :
  uv_closed[a] = IF sess[a].stage \in {"cancelled", "closing"} THEN 1
                 ELSE IF sess[a].stage = "free" THEN notified[a] ELSE 0

(* The end of a session happens once, to the services and to libuv, whoever    *)
(* closes it and however often (the guard of Session_uv::close and the order   *)
(* of the callbacks after it).                                                 *)
EndedOnce == NotifiedOnce /\ UvCloseOnce

L == INSTANCE Lives WITH life <- [a \in Addresses |-> phase(sess[a])]

(* Whoever closes a session, and in whatever callback, no session is taken from *)
(* the hands of its users: its end is told, its handle closed and its block    *)
(* given back in that order, once each, and the last in a callback of its own  *)
(* (Session_uv::close, uv_closeClient).                                        *)
ImplementsLives == L!Spec

(* Every session that is being closed is destroyed, and every connect that     *)
(* libuv accepted ends in a session that is open or destroyed.                 *)
ClosedIsDestroyed == \A a \in Addresses :
  /\ isShotdown(sess[a]) ~> sess[a].stage = "free"
  /\ sess[a].stage = "connecting" ~> sess[a].stage \in {"open", "free"}
=============================================================================
