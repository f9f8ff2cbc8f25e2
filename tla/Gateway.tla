------------------------------- MODULE Gateway -------------------------------
(* The gateway process (main/lua/serviceServer/gateway/gateway.lua) on top of  *)
(* its sessions: it keeps one connection to every server of ServerConfig,      *)
(* forwards the clients' commands to them, gives a client its identity when    *)
(* the auth server confirms a login, and forgets a session when it closes.     *)
(* One Lua state on the loop thread: an action is a whole callback, with the   *)
(* disconnect notices that a close inside it sends.                            *)
(*                                                                             *)
(* The Lua tables hold session addresses.  Nothing removes an address from a   *)
(* table when the block is given back, and the block may hold another session  *)
(* later, so the free list keeps its real order: last freed, first reused.     *)
EXTENDS SessionState

CONSTANTS
  Addresses,    \* blocks of session_allocer: bounds the sessions of a run
  Stypes,       \* the servers of ServerConfig.lua, all registered for relaying
  GuestIds,     \* guest accounts of the auth server's database
  MaxTag,       \* gKey stops here: bounds the logins of a run
  Clients,      \* TRUE: clients connect; FALSE: only the server connections
  Commands,     \* the commands clients send, a subset of those below
  MaxPending,   \* logins the servers hold at a time: bounds a run
  NULL

eGuestLoginReq == "eGuestLoginReq"
eLoginReq == "eLoginReq"
other == "other"   \* any other command: eGuestUpgradeReq, and what has no name

Ids == (1..MaxTag) \cup GuestIds

ASSUME GatewayAssumption ==
  /\ IsFiniteSet(Addresses) /\ IsFiniteSet(Stypes)
  /\ GuestIds \subseteq Nat \ {0}
  /\ MaxTag \in Nat /\ MaxPending \in Nat
  /\ Commands \subseteq {eGuestLoginReq, eLoginReq, other}
  /\ NULL \notin Addresses
  /\ Clients \in BOOLEAN

VARIABLES
  sess,          \* sess[a]: the session in block a
  listCache,     \* the free list of session_allocer, head first
  target,        \* target[a]: the stype in the connect callback of a, or NULL
  sType2Session, \* the connection of each server, or NULL
  do_connecting, \* a connection is open or on its way
  gKey,          \* the next temporary tag
  client_temp,   \* client_temp[tag]: who waits for a login answer
  client_uid,    \* client_uid[id], client_gid[id]: the session of a user, a guest
  client_gid,
  pending,       \* logins the servers have not answered: [server, ctype, tag]
  verified,      \* verified[a]: the guest the auth server confirmed (history)
  late,          \* the tags a closed session logged in under (history)
  displaced,     \* the guests whose session another one replaced in client_gid
                 \* without a login, by any other request (history)
  sent,          \* what the step before sent to clients: [to, what, id] (history)
  stale          \* NULL, or the table and the key that led to a freed session

(* No method of a freed session was called: there is no telling what it does.  *)
alive == stale = NULL

tables == <<sType2Session, do_connecting, client_temp, client_uid>>
past == <<late, displaced>>
vars == <<sess, listCache, target, tables, gKey, client_gid, pending, verified, past, sent, stale>>

(* gw_init, after startTcpServer of gateway/main.lua. *)
Init ==
  /\ sess = [a \in Addresses |-> Created("free", FALSE)]
  /\ listCache = FullList(Addresses)
  /\ target = [a \in Addresses |-> NULL]
  /\ sType2Session = [k \in Stypes |-> NULL]
  /\ do_connecting = [k \in Stypes |-> FALSE]
  /\ gKey = 1
  /\ client_temp = [t \in 0..MaxTag |-> NULL]
  /\ client_uid = [i \in Ids |-> NULL]
  /\ client_gid = [i \in Ids |-> NULL]
  /\ pending = {}
  /\ verified = [a \in Addresses |-> 0]
  /\ late = {}
  /\ displaced = {}
  /\ sent = {}
  /\ stale = NULL

(* A peer may still send to a session that was closed: only uv_close, after    *)
(* the shutdown, stops the reading (session_uv.cc:67-70, 128).                 *)
Receiving(a) == alive /\ Receives(sess[a])

------------------------------------------------------------------------------
(* Closing a session, and the notice that gw_disc_session gets for it, change  *)
(* this part of the state; a step may close a session after other changes.     *)
World == [sess |-> sess, routes |-> sType2Session, conn |-> do_connecting,
          temp |-> client_temp, uid |-> client_uid]
Become(w) == /\ sess' = w.sess
             /\ sType2Session' = w.routes
             /\ do_connecting' = w.conn
             /\ client_temp' = w.temp
             /\ client_uid' = w.uid

(* Mutants: the route stays, or do_connecting stays, after a disconnect. *)
gw_disc_keepsRoute(w, a) ==
  [w EXCEPT !.conn = [k \in Stypes |-> @[k] /\ w.routes[k] # a]]
gw_disc_keepsConnecting(w, a) ==
  [w EXCEPT !.routes = [k \in Stypes |-> IF @[k] = a THEN NULL ELSE @[k]]]

(* A server connection: its server has no session, and may be connected again. *)
gw_disc_server(w, a) ==
  [w EXCEPT !.routes = [k \in Stypes |-> IF @[k] = a THEN NULL ELSE @[k]],
            !.conn = [k \in Stypes |-> @[k] /\ w.routes[k] # a]]

(* Mutant: a client that leaves is not looked up. *)
gw_disc_clientIgnored(w, a) == w

(* Mutant: the tag of a session that waited is cleared with NULL. *)
gw_disc_clientNoTag(w, a) ==
  LET waits == w.temp[w.sess[a].utag] = a
  IN [w EXCEPT !.temp = IF waits THEN [@ EXCEPT ![w.sess[a].utag] = NULL] ELSE @,
               !.sess[a].utag = IF waits THEN NULL ELSE @]

(* A client: its temporary entry goes.  The test on client_uid looks the       *)
(* session up in client_temp.  client_gid is left as it is, and the broadcast  *)
(* of lines 266-270 builds a list of length 3, which sendMessage ignores.      *)
gw_disc_client(w, a) ==
  LET s == w.sess[a]
      waits == w.temp[s.utag] = a
      temp == IF waits THEN [w.temp EXCEPT ![s.utag] = NULL] ELSE w.temp
  IN [w EXCEPT !.temp = temp,
               !.sess[a].utag = IF waits THEN 0 ELSE @,
               !.uid = IF s.uid # 0 /\ @[s.uid] # NULL /\ temp[s.uid] = a
                       THEN [@ EXCEPT ![s.uid] = NULL] ELSE @]

(* Session_uv::close: sessionDisconnect calls gw_disc_session once for every   *)
(* registered stype; the second call finds nothing left to do.                 *)
close(w, a) ==
  IF isShotdown(w.sess[a]) THEN w
  ELSE LET told == IF w.sess[a].as_client THEN gw_disc_server(w, a)
                                          ELSE gw_disc_client(w, a)
       IN [told EXCEPT !.sess[a] = ShutDown(@)]

------------------------------------------------------------------------------
(* A client connects: a new object in the block freed last. *)
uv_startTcpEvent ==
  /\ alive /\ Clients /\ listCache # <<>>
  /\ LET a == Head(listCache) IN
       /\ sess' = [sess EXCEPT ![a] = Created("open", FALSE)]
       /\ verified' = [verified EXCEPT ![a] = 0]
       /\ target' = [target EXCEPT ![a] = NULL]
  /\ listCache' = Pop(listCache)
  /\ sent' = {}
  /\ UNCHANGED <<tables, gKey, client_gid, pending, past, stale>>

(* The orders in which pairs() may find the members of a set. *)
Orders(S) == {place \in [S -> 1..Cardinality(S)] :
                /\ \A j, k \in S : place[j] = place[k] => j = k
                /\ \A i \in 1..Cardinality(S) : \E k \in S : place[k] = i}

(* Mutant: a connection that is on its way is not remembered. *)
unconnectedNoFlag == {k \in Stypes : sType2Session[k] = NULL}

(* The servers with no connection and none on its way (gateway.lua:44). *)
unconnected == {k \in Stypes : sType2Session[k] = NULL /\ ~ do_connecting[k]}

(* The timer of gw_init: a connection is started to every server that has none *)
(* and none on its way, in the order in which pairs() finds them.  When libuv  *)
(* refuses at once, netbus only prints the error: the callback is never called. *)
checkConnected ==
  LET missing == unconnected
      n == Cardinality(missing)
  IN /\ alive /\ missing # {} /\ n <= Len(listCache)
     /\ \E place \in Orders(missing), stage \in [missing -> {"connecting", "orphan"}] :
          LET For(a) == {k \in missing : listCache[place[k]] = a}
              New(old, new(_)) == [a \in Addresses |->
                IF For(a) = {} THEN old[a] ELSE new(CHOOSE k \in For(a) : TRUE)]
              session(k) == Created(stage[k], TRUE)
              callback(k) == k
              nobody(k) == 0
          IN /\ sess' = New(sess, session)
             /\ target' = New(target, callback)
             /\ verified' = New(verified, nobody)
     /\ listCache' = SubSeq(listCache, n + 1, Len(listCache))
     /\ do_connecting' = [k \in Stypes |-> do_connecting[k] \/ k \in missing]
     /\ sent' = {}
     /\ UNCHANGED <<sType2Session, client_temp, client_uid, gKey, client_gid, pending, past, stale>>

(* The callback of connect() sets do_connecting and the route, then netbus     *)
(* starts reading; after a failure, that of a connect cancelled by a close     *)
(* included, netbus closes the session.                                        *)
after_connect(a, status) ==
  /\ alive
  /\ sess[a].stage = "connecting" \/ (sess[a].stage = "cancelled" /\ status # 0)
  /\ LET k == target[a]
         failed == [World EXCEPT !.conn[k] = FALSE, !.sess[a] = NotConnected(@)]
         done == [World EXCEPT !.conn[k] = TRUE, !.routes[k] = a, !.sess[a] = Connected(@)]
     IN Become(IF status = 0 THEN done ELSE close(failed, a))
  /\ sent' = {}
  /\ UNCHANGED <<listCache, target, gKey, client_gid, pending, verified, past, stale>>

(* The peer is gone. *)
readError(a) ==
  /\ alive /\ Receives(sess[a])
  /\ Become(close([World EXCEPT !.sess[a] = ReadEnded(@)], a))
  /\ sent' = {}
  /\ UNCHANGED <<listCache, target, gKey, client_gid, pending, verified, past, stale>>

(* A frame for a service that is not registered, or of a bad size: recvCmdMsg   *)
(* or the parser closes the session, and reading goes on.  The service a frame *)
(* names is taken to be below the length of gServiceSet, which recvCmdMsg      *)
(* indexes with it unchecked (servicemanager.cc:30).                           *)
illegalFrame(a) ==
  /\ Receiving(a)
  /\ Become(close(World, a))
  /\ sent' = {}
  /\ UNCHANGED <<listCache, target, gKey, client_gid, pending, verified, past, stale>>

------------------------------------------------------------------------------
(* A virtual call, through a link of the free list when the session was        *)
(* destroyed, on the session that a table gives for a key.                     *)
Usable(a) == sess[a].stage # "free"
call(a, table, key) == stale' = IF Usable(a) THEN NULL ELSE <<table, key>>

(* Session.sendRawData on the route, whatever became of it. *)
relay(k) == call(sType2Session[k], "sType2Session", k)

(* The server has a login to answer; asked again under the same tag it is one. *)
asked(k, ctype, tag) ==
  /\ Cardinality(pending) < MaxPending
  /\ pending' = pending \cup {[server |-> k, ctype |-> ctype, tag |-> tag]}

(* Mutant: the tag is not counted up. *)
nextKeySame(c) == gKey

(* gKey after a login request: a session gets its tag the first time only. *)
nextKey(c) == IF sess[c].utag = 0 THEN gKey + 1 ELSE gKey

(* A login request: the session gets a tag the first time, which also becomes  *)
(* its gid or uid, and waits for the answer under its tag.                     *)
loginToServer(c, k, ctype) ==
  LET first == sess[c].utag = 0
      utag == IF first THEN gKey ELSE sess[c].utag
  IN /\ utag <= MaxTag
     /\ gKey' = nextKey(c)
     /\ sess' = [sess EXCEPT ![c].utag = utag,
                             ![c].gid = IF first /\ ctype = eGuestLoginReq THEN utag ELSE @,
                             ![c].uid = IF first /\ ctype = eLoginReq THEN utag ELSE @]
     /\ client_temp' = [client_temp EXCEPT ![utag] = c]
     /\ late' = IF isShotdown(sess[c]) THEN late \cup {utag} ELSE late
     /\ relay(k)
     /\ asked(k, ctype, utag)
     /\ UNCHANGED <<client_uid, client_gid, displaced>>

(* Any other request of a session that has an id: gid may be the tag of its    *)
(* first login, and some guest's identity all the same (gateway.lua:79, 104).  *)
otherToServer(c, k) ==
  LET uid == sess[c].uid
      gid == sess[c].gid
  IN /\ uid # 0 \/ gid # 0
     /\ client_uid' = IF uid # 0 THEN [client_uid EXCEPT ![uid] = c] ELSE client_uid
     /\ client_gid' = IF gid # 0 THEN [client_gid EXCEPT ![gid] = c] ELSE client_gid
     /\ relay(k)
     /\ displaced' = IF gid \in GuestIds /\ client_gid[gid] \notin {NULL, c}
                     THEN displaced \cup {gid} ELSE displaced
     /\ UNCHANGED <<sess, gKey, client_temp, pending, late>>

(* A request for a server without a session is dropped. *)
sendToServer(c, k, ctype) ==
  /\ Receiving(c) /\ ~ sess[c].as_client
  /\ sType2Session[k] # NULL
  /\ IF ctype = other THEN otherToServer(c, k) ELSE loginToServer(c, k, ctype)
  /\ sent' = {}
  /\ UNCHANGED <<listCache, target, sType2Session, do_connecting, verified>>

------------------------------------------------------------------------------
ServerConnection(a, k) == sess[a].as_client /\ target[a] = k

(* A method of a destroyed session was called. *)
crash(table, key) ==
  /\ stale' = <<table, key>>
  /\ sent' = {}
  /\ UNCHANGED <<sess, listCache, target, tables, gKey, client_gid, pending, verified, past>>

(* A server answers on the gateway's connection of that moment: on the one the *)
(* request came by, or on a later one, when the session object that the auth   *)
(* server kept for the answer is the block of the new connection.              *)
Answered(m) == m \in pending /\ \E a \in Addresses : Receiving(a) /\ ServerConnection(a, m.server)

(* A refused guest login, and any answer to a login: LoginRes has no field     *)
(* guestError, so it always counts as refused.  The answer goes to the session *)
(* that waits under the tag.                                                   *)
loginRefused(m) ==
  LET c == client_temp[m.tag] IN
  /\ Answered(m)
  /\ pending' = pending \ {m}
  /\ client_temp' = [client_temp EXCEPT ![m.tag] = NULL]
  /\ sent' = IF c = NULL THEN {} ELSE {[to |-> c, what |-> "refused", id |-> m.tag]}
  /\ IF c = NULL THEN UNCHANGED stale ELSE call(c, "client_temp", m.tag)
  /\ UNCHANGED <<sess, listCache, target, sType2Session, do_connecting, client_uid, gKey,
                 client_gid, verified, past>>

(* Mutant: an earlier session of the guest stays. *)
onlineElsewhereNever(c, g) == FALSE

(* The guest is known under another session (gateway.lua:151).                *)
onlineElsewhere(c, g) == client_gid[g] # NULL /\ client_gid[g] # c

(* The auth server confirmed guest g.  Another session under g is told and     *)
(* closed, then the waiting session becomes guest g.                           *)
guestConfirmed(m, g) ==
  LET c == client_temp[m.tag]
      old == client_gid[g]
      kicked == onlineElsewhere(c, g)
      forgotten == [World EXCEPT !.temp[m.tag] = NULL]
      closed == IF kicked THEN close(forgotten, old) ELSE forgotten
  IN \/ kicked /\ ~ Usable(old) /\ crash("client_gid", g)
     \/ (kicked => Usable(old)) /\ ~ Usable(c) /\ crash("client_temp", m.tag)
     \/ /\ kicked => Usable(old)
        /\ Usable(c)
        /\ pending' = pending \ {m}
        /\ Become([closed EXCEPT !.sess[c].gid = g])
        /\ client_gid' = [client_gid EXCEPT ![g] = c]
        /\ verified' = [verified EXCEPT ![c] = g]
        /\ sent' = {[to |-> c, what |-> "confirmed", id |-> m.tag]}
                   \cup (IF kicked THEN {[to |-> old, what |-> "kick", id |-> g]} ELSE {})
        /\ UNCHANGED <<listCache, target, gKey, past, stale>>

guestLoginRes(m, g) ==
  /\ Answered(m) /\ m.ctype = eGuestLoginReq
  /\ IF client_temp[m.tag] # NULL
     THEN guestConfirmed(m, g)
     ELSE /\ pending' = pending \ {m}
          /\ sent' = {}
          /\ UNCHANGED <<sess, listCache, target, tables, gKey, client_gid, verified, past, stale>>

(* Any other command of a server, asked for or not: lines 198-216 look the     *)
(* client up under the undefined name tag and find none.                       *)
otherRes(a) ==
  /\ Receiving(a) /\ sess[a].as_client
  /\ sent' = {}
  /\ UNCHANGED <<sess, listCache, target, tables, gKey, client_gid, pending, verified, past, stale>>

(* The request or its answer is lost with a connection or a restart of the     *)
(* server, or the server has no answer to it (guestLogin.lua:9-13).            *)
unanswered(m) ==
  /\ alive
  /\ pending' = pending \ {m}
  /\ sent' = {}
  /\ UNCHANGED <<sess, listCache, target, tables, gKey, client_gid, verified, past, stale>>

------------------------------------------------------------------------------
uv_close_oneClient(a) ==
  /\ alive /\ sess[a].stage = "shutdown"
  /\ sess' = [sess EXCEPT ![a] = HandleClosed(@)]
  /\ sent' = {}
  /\ UNCHANGED <<listCache, target, tables, gKey, client_gid, pending, verified, past, stale>>

uv_closeClient(a) ==
  /\ alive /\ sess[a].stage = "closing"
  /\ sess' = [sess EXCEPT ![a] = Freed(@)]
  /\ listCache' = Push(listCache, a)
  /\ sent' = {}
  /\ UNCHANGED <<target, tables, gKey, client_gid, pending, verified, past, stale>>

Next == \/ uv_startTcpEvent
        \/ checkConnected
        \/ \E a \in Addresses :
             \/ \E status \in {0, 1} : after_connect(a, status)
             \/ readError(a)
             \/ illegalFrame(a)
             \/ \E k \in Stypes, ctype \in Commands : sendToServer(a, k, ctype)
             \/ otherRes(a)
             \/ uv_close_oneClient(a)
             \/ uv_closeClient(a)
        \/ \E m \in pending :
             \/ loginRefused(m)
             \/ \E g \in GuestIds : guestLoginRes(m, g)
             \/ unanswered(m)

Spec == Init /\ [][Next]_vars

(* The timer fires again and again, libuv calls back for every shutdown, close *)
(* and connect, and a server that is tried again and again is up some time.    *)
Fairness ==
  /\ WF_vars(checkConnected)
  /\ \A a \in Addresses : /\ WF_vars(\E status \in {0, 1} : after_connect(a, status))
                          /\ WF_vars(uv_close_oneClient(a))
                          /\ WF_vars(uv_closeClient(a))
  /\ \A k \in Stypes : SF_vars(\E a \in Addresses : target[a] = k /\ after_connect(a, 0))

FairSpec == Spec /\ Fairness

------------------------------------------------------------------------------
(* Type invariant of the gateway's tables (gateway.lua:5-20).                  *)
TypeOK ==
  /\ sess \in [Addresses -> [stage : Stages, as_client : BOOLEAN, reading : BOOLEAN,
                             utag : 0..MaxTag, uid : 0..MaxTag, gid : {0} \cup Ids]]
  /\ listCache \in Seq(Addresses)
  /\ target \in [Addresses -> Stypes \cup {NULL}]
  /\ sType2Session \in [Stypes -> Addresses \cup {NULL}]
  /\ do_connecting \in [Stypes -> BOOLEAN]
  /\ gKey \in 1..(MaxTag + 1)
  /\ client_temp \in [0..MaxTag -> Addresses \cup {NULL}]
  /\ client_uid \in [Ids -> Addresses \cup {NULL}]
  /\ client_gid \in [Ids -> Addresses \cup {NULL}]
  /\ pending \subseteq [server : Stypes, ctype : Commands \ {other}, tag : 1..MaxTag]
  /\ verified \in [Addresses -> GuestIds \cup {0}]
  /\ late \subseteq 1..MaxTag
  /\ displaced \subseteq GuestIds
  /\ stale \in {NULL} \cup ({"sType2Session"} \X Stypes) \cup ({"client_temp"} \X (1..MaxTag))
              \cup ({"client_gid"} \X GuestIds)

(* A request is only ever forwarded on an open connection to the very server   *)
(* it is for, whatever blocks the pool has reused (sendToServer reads the      *)
(* route without asking the session).                                          *)
RouteIsOpen == \A k \in Stypes : sType2Session[k] # NULL =>
  sess[sType2Session[k]].stage = "open" /\ ServerConnection(sType2Session[k], k)

(* A connection to server k is open, on its way or lost in netbus. *)
Live(a, k) == /\ ServerConnection(a, k)
              /\ sess[a].stage \in {"connecting", "cancelled", "open", "orphan"}

(* do_connecting tells the truth, which checkConnected relies on: it is set    *)
(* exactly while a server has such a connection, and there is never a second.  *)
OneConnection == \A k \in Stypes :
  LET live == {a \in Addresses : Live(a, k)}
  IN /\ Cardinality(live) <= 1
     /\ do_connecting[k] <=> live # {}

(* Whatever clients and guests do, no server is ever connected twice: not even *)
(* when a guest's login closes, in the place of a session of its own, the      *)
(* connection that now has the block (gateway.lua:41-49, 151-153).  An open    *)
(* connection is the one that requests take, a live one has its flag set.      *)
NeverTwo == \A k \in Stypes, a \in Addresses : Live(a, k) =>
  /\ do_connecting[k]
  /\ sess[a].stage = "open" => sType2Session[k] = a
  /\ \A b \in Addresses : Live(b, k) => b = a

(* Two sessions never carry the same temporary tag, so an answer under a tag   *)
(* is for one session only.                                                    *)
TagsUnique == \A a, b \in Addresses :
  a # b /\ Receives(sess[a]) /\ Receives(sess[b]) /\ sess[a].utag # 0
    => sess[a].utag # sess[b].utag

(* client_temp holds open client sessions under the tag they carry, and no     *)
(* session that has been closed, except under a tag that a closed session      *)
(* asked for a login under: its reading goes on until uv_close (netbus.cc:53), *)
(* and nobody tells the gateway of its end a second time (gateway.lua:252).    *)
TempForgotten == \A t \in (1..MaxTag) \ late : client_temp[t] # NULL =>
  LET s == sess[client_temp[t]]
  IN s.stage = "open" /\ ~ s.as_client /\ s.utag = t

(* A login answer reaches the open session that asked, not a later user of its *)
(* block: tags are not given twice and a new object has none.  Only the answer *)
(* under a tag that a closed session asked under may go astray.                *)
AnswerReachesAsker ==
  [][\A x \in sent' : x.what \in {"confirmed", "refused"} /\ x.id \notin late =>
       sess[x.to].stage = "open" /\ sess[x.to].utag = x.id]_vars

(* A guest is online in one session at most, unless a request that was no      *)
(* login took the guest's entry of client_gid from its session: one of a       *)
(* session that was kicked already, or one whose first tag is the number of    *)
(* the guest (gateway.lua:102-105).  Nothing else makes line 151 miss the      *)
(* session a guest is online in: no order of logins, disconnects and answers,  *)
(* no block that has a new session.                                            *)
SingleLogin == \A a, b \in Addresses :
  a # b /\ sess[a].stage = "open" /\ sess[b].stage = "open" /\ verified[a] # 0
        /\ verified[a] \notin displaced
    => verified[a] # verified[b]

L == INSTANCE Lives WITH life <- [a \in Addresses |-> phase(sess[a])]

(* A whole handler of the gateway, with the notices and closes inside it, does *)
(* to sessions what the callbacks of module Session do: no block is given back *)
(* before it returns (gateway.lua:151-153 sends and closes in one handler).    *)
ImplementsLives == L!Spec

(* A server whose connection is lost is connected again, unless libuv refuses  *)
(* a connect at once: tcp_connect then calls nobody back, do_connecting stays  *)
(* set, and checkConnected never tries this server again.                      *)
Reconnects == \A k \in Stypes :
  sType2Session[k] = NULL ~>
    \/ sType2Session[k] # NULL
    \/ \E a \in Addresses : ServerConnection(a, k) /\ sess[a].stage = "orphan"

(* No method of a destroyed session is called.                                 *)
NoStaleCall == alive

(* When one is, client_gid led to it, which keeps a guest that left, or        *)
(* client_temp did under a tag that a closed session asked for a login under   *)
(* (gateway.lua:93, 151-158).  The routes never do, and client_temp does not   *)
(* otherwise: a disconnect that forgets the guest, and a close that stops the  *)
(* reading, would be enough.                                                   *)
StaleWays == stale # NULL =>
  \/ stale[1] = "client_gid"
  \/ stale[1] = "client_temp" /\ stale[2] \in late
=============================================================================
