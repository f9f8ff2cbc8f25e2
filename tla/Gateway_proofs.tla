---------------------------- MODULE Gateway_proofs ----------------------------
(* Proofs about module Gateway, for pools, servers, guests and tags of any     *)
(* number: a route leads to its server, a tag to one session, a login answer   *)
(* to the session that asked, and a guest has one session.                     *)
EXTENDS Gateway, SessionState_proofs

Object == [stage : Stages, as_client : BOOLEAN, reading : BOOLEAN,
           utag : 0..MaxTag, uid : 0..MaxTag, gid : {0} \cup Ids]
Block == Addresses \cup {NULL}
Worlds == [sess : [Addresses -> Object], routes : [Stypes -> Block],
           conn : [Stypes -> BOOLEAN], temp : [0..MaxTag -> Block], uid : [Ids -> Block]]

(* What closing a session keeps, said of a World. *)
Accounted(w) ==
  /\ Distinct(listCache)
  /\ \A a \in Addresses : w.sess[a].stage = "free" <=> Listed(a, listCache)

ServersKnown(w) == \A a \in Addresses :
  /\ w.sess[a].stage \in {"connecting", "cancelled"} => w.sess[a].as_client
  /\ w.sess[a].as_client /\ w.sess[a].stage \in {"connecting", "cancelled", "open", "orphan"}
       => target[a] \in Stypes

(* RouteIsOpen. *)
RoutesLead(w) == \A k \in Stypes : w.routes[k] # NULL =>
  /\ w.sess[w.routes[k]].stage = "open"
  /\ w.sess[w.routes[k]].as_client /\ target[w.routes[k]] = k

(* Why TagsUnique: a tag is below the counter, and no block has that of another. *)
TagsKnown(w) ==
  /\ \A a \in Addresses : w.sess[a].utag < gKey
  /\ \A a, b \in Addresses : a # b /\ w.sess[a].utag # 0 => w.sess[a].utag # w.sess[b].utag

(* TempForgotten. *)
TempOpen(w) == \A t \in (1..MaxTag) \ late : w.temp[t] # NULL =>
  LET s == w.sess[w.temp[t]]
  IN s.stage = "open" /\ ~ s.as_client /\ s.utag = t

Sound(w) == /\ w \in Worlds
            /\ Accounted(w) /\ ServersKnown(w) /\ RoutesLead(w) /\ TagsKnown(w)
            /\ TempOpen(w)

(* Why SingleLogin: until a request that is no login displaces its guest,      *)
(* client_gid leads to every confirmed session that is open, or can still open *)
(* (a login may confirm the connection that now has the block of a client).    *)
GuestsKnown == \A a \in Addresses :
  sess[a].stage \in {"open", "connecting"} /\ verified[a] \notin {0} \cup displaced
    => client_gid[verified[a]] = a

(* What stale tells. *)
Ways == {NULL} \cup ({"sType2Session"} \X Stypes) \cup ({"client_temp"} \X (1..MaxTag))
               \cup ({"client_gid"} \X GuestIds)

(* What TypeOK says beyond World \in Worlds. *)
RestTyped ==
  /\ listCache \in Seq(Addresses) /\ target \in [Addresses -> Stypes \cup {NULL}]
  /\ gKey \in 1..(MaxTag + 1) /\ client_gid \in [Ids -> Block]
  /\ pending \subseteq [server : Stypes, ctype : Commands \ {other}, tag : 1..MaxTag]
  /\ verified \in [Addresses -> GuestIds \cup {0}]
  /\ late \subseteq 1..MaxTag /\ displaced \subseteq GuestIds /\ stale \in Ways

IInv == /\ RestTyped
        /\ Sound(World)
        /\ NeverTwo
        /\ GuestsKnown
        /\ StaleWays
------------------------------------------------------------------------------
(* What the notices and close do to a world. *)
LEMMA ServerNotice ==
  ASSUME NEW w \in Worlds, NEW a \in Addresses
  PROVE  /\ gw_disc_server(w, a) \in Worlds
         /\ gw_disc_server(w, a).sess = w.sess /\ gw_disc_server(w, a).temp = w.temp
         /\ gw_disc_server(w, a).routes =
              [k \in Stypes |-> IF w.routes[k] = a THEN NULL ELSE w.routes[k]]
         /\ gw_disc_server(w, a).conn = [k \in Stypes |-> w.conn[k] /\ w.routes[k] # a]
<1> DEFINE routes == [k \in Stypes |-> IF w.routes[k] = a THEN NULL ELSE w.routes[k]]
           conn == [k \in Stypes |-> w.conn[k] /\ w.routes[k] # a]
<1>1. gw_disc_server(w, a) = [w EXCEPT !.routes = routes, !.conn = conn]
  BY DEF gw_disc_server, Worlds
<1>2. routes \in [Stypes -> Block] /\ conn \in [Stypes -> BOOLEAN]
  BY DEF Worlds, Block
<1> HIDE DEF routes, conn
<1>4. /\ gw_disc_server(w, a) \in Worlds
      /\ gw_disc_server(w, a).sess = w.sess /\ gw_disc_server(w, a).temp = w.temp
      /\ gw_disc_server(w, a).routes = routes /\ gw_disc_server(w, a).conn = conn
  BY <1>1, <1>2 DEF Worlds
<1> QED
  BY <1>4 DEF routes, conn

LEMMA ClientNotice ==
  ASSUME NEW w \in Worlds, NEW a \in Addresses
  PROVE  LET r == gw_disc_client(w, a)
             waits == w.temp[w.sess[a].utag] = a
         IN /\ r \in Worlds /\ r.routes = w.routes /\ r.conn = w.conn
            /\ r.temp = IF waits THEN [w.temp EXCEPT ![w.sess[a].utag] = NULL] ELSE w.temp
            /\ r.sess = [w.sess EXCEPT ![a].utag = IF waits THEN 0 ELSE @]
<1> DEFINE s == w.sess[a]
           waits == w.temp[s.utag] = a
           temp == IF waits THEN [w.temp EXCEPT ![s.utag] = NULL] ELSE w.temp
           sessions == [w.sess EXCEPT ![a].utag = IF waits THEN 0 ELSE @]
           uid == IF s.uid # 0 /\ w.uid[s.uid] # NULL /\ temp[s.uid] = a
                  THEN [w.uid EXCEPT ![s.uid] = NULL] ELSE w.uid
           r == gw_disc_client(w, a)
<1>1. s \in Object /\ w.sess \in [Addresses -> Object] /\ w.temp \in [0..MaxTag -> Block]
      /\ w.uid \in [Ids -> Block]
  BY DEF Worlds
<1>2. r = [w EXCEPT !.temp = temp, !.sess = sessions, !.uid = uid]
  BY DEF gw_disc_client, Worlds
<1>3. temp \in [0..MaxTag -> Block] /\ uid \in [Ids -> Block]
  <2>1. NULL \in Block
    BY DEF Block
  <2> QED
    BY <1>1, <2>1
<1>4. sessions \in [Addresses -> Object]
  <2>1. 0 \in 0..MaxTag
    BY GatewayAssumption
  <2>2. [s EXCEPT !.utag = IF waits THEN 0 ELSE @] \in Object
    BY <1>1, <2>1 DEF Object
  <2> QED
    BY <1>1, <2>2
<1> HIDE DEF temp, sessions, uid, r
<1>5. /\ r \in Worlds /\ r.routes = w.routes /\ r.conn = w.conn
      /\ r.temp = temp /\ r.sess = sessions
  BY <1>2, <1>3, <1>4 DEF Worlds
<1> QED
  BY <1>5 DEF temp, sessions, r

LEMMA Closed ==
  ASSUME NEW w \in Worlds, NEW a \in Addresses, ~ isShotdown(w.sess[a])
  PROVE  LET r == close(w, a)
             waits == w.temp[w.sess[a].utag] = a
         IN /\ r \in Worlds
            /\ \A b \in Addresses : b # a => r.sess[b] = w.sess[b]
            /\ isShotdown(r.sess[a]) /\ r.sess[a].as_client = w.sess[a].as_client
            /\ r.sess[a].stage = "cancelled" <=> w.sess[a].stage = "connecting"
            /\ r.sess[a].gid = w.sess[a].gid
            /\ r.sess[a].utag = w.sess[a].utag \/ r.sess[a].utag = 0
            /\ ~ w.sess[a].as_client =>
                 /\ r.routes = w.routes /\ r.conn = w.conn
                 /\ r.temp = IF waits THEN [w.temp EXCEPT ![w.sess[a].utag] = NULL]
                                      ELSE w.temp
            /\ w.sess[a].as_client =>
                 /\ r.temp = w.temp
                 /\ r.routes = [k \in Stypes |-> IF w.routes[k] = a THEN NULL ELSE w.routes[k]]
                 /\ r.conn = [k \in Stypes |-> w.conn[k] /\ w.routes[k] # a]
<1> DEFINE r == close(w, a)
           told == IF w.sess[a].as_client THEN gw_disc_server(w, a) ELSE gw_disc_client(w, a)
<1>1. r = [told EXCEPT !.sess[a] = ShutDown(@)]
  BY DEF close
<1>2. /\ told \in Worlds /\ w.sess \in [Addresses -> Object] /\ w.sess[a] \in Object
      /\ told.sess = w.sess \/ told.sess = [w.sess EXCEPT ![a].utag = 0]
  <2>1. CASE w.sess[a].as_client
    BY <2>1, ServerNotice DEF Worlds
  <2>2. CASE ~ w.sess[a].as_client
    <3> DEFINE c == gw_disc_client(w, a)
               waits == w.temp[w.sess[a].utag] = a
    <3>1. c \in Worlds /\ c.sess = [w.sess EXCEPT ![a].utag = IF waits THEN 0 ELSE @]
      BY ClientNotice
    <3>2. [w.sess EXCEPT ![a].utag = w.sess[a].utag] = w.sess
      BY DEF Worlds, Object
    <3>3. told = c
      BY <2>2
    <3> HIDE DEF c, waits, told
    <3>4. c.sess = [w.sess EXCEPT ![a].utag = 0] \/ c.sess = [w.sess EXCEPT ![a].utag = @]
      BY <3>1
    <3> QED
      BY <3>1, <3>2, <3>3, <3>4 DEF Worlds
  <2> QED
    BY <2>1, <2>2
<1>3. ~ w.sess[a].as_client =>
        /\ told.routes = w.routes /\ told.conn = w.conn
        /\ told.temp = IF w.temp[w.sess[a].utag] = a
                       THEN [w.temp EXCEPT ![w.sess[a].utag] = NULL] ELSE w.temp
  BY ClientNotice
<1>4. w.sess[a].as_client =>
        /\ told.temp = w.temp
        /\ told.routes = [k \in Stypes |-> IF w.routes[k] = a THEN NULL ELSE w.routes[k]]
        /\ told.conn = [k \in Stypes |-> w.conn[k] /\ w.routes[k] # a]
  BY ServerNotice
<1> HIDE DEF told
<1>5. told.sess[a] \in Object /\ ShutDown(told.sess[a]) \in Object
  BY <1>2 DEF Worlds, ShutDown, Object, Stages
<1>6. /\ r \in Worlds /\ r.sess = [told.sess EXCEPT ![a] = ShutDown(@)]
      /\ r.routes = told.routes /\ r.conn = told.conn /\ r.temp = told.temp
  BY <1>1, <1>2, <1>5 DEF Worlds
<1>7. /\ \A b \in Addresses : b # a => told.sess[b] = w.sess[b]
      /\ told.sess[a].stage = w.sess[a].stage
      /\ told.sess[a].as_client = w.sess[a].as_client /\ told.sess[a].gid = w.sess[a].gid
      /\ told.sess[a].utag = w.sess[a].utag \/ told.sess[a].utag = 0
  BY <1>2 DEF Object
<1>8. /\ r.sess[a] = ShutDown(told.sess[a])
      /\ \A b \in Addresses : b # a => r.sess[b] = told.sess[b]
  BY <1>2, <1>6 DEF Worlds
<1>9. LET s == told.sess[a]
      IN /\ isShotdown(ShutDown(s)) /\ ShutDown(s).as_client = s.as_client
         /\ ShutDown(s).stage = "cancelled" <=> s.stage = "connecting"
         /\ ShutDown(s).gid = s.gid /\ ShutDown(s).utag = s.utag
  <2>1. ~ isShotdown(told.sess[a])
    BY <1>7 DEF isShotdown
  <2> QED
    BY <1>5, <2>1 DEF ShutDown, isShotdown, Object
<1> HIDE DEF r
<1>10. /\ \A b \in Addresses : b # a => r.sess[b] = w.sess[b]
       /\ isShotdown(r.sess[a]) /\ r.sess[a].as_client = w.sess[a].as_client
       /\ r.sess[a].stage = "cancelled" <=> w.sess[a].stage = "connecting"
       /\ r.sess[a].gid = w.sess[a].gid
       /\ r.sess[a].utag = w.sess[a].utag \/ r.sess[a].utag = 0
  BY <1>7, <1>8, <1>9
<1> QED
  BY <1>3, <1>4, <1>6, <1>10 DEF r
------------------------------------------------------------------------------
(* Sound worlds. *)
LEMMA CloseSound ==
  ASSUME RestTyped, NEW w, Sound(w), NEW a \in Addresses, w.sess[a].stage # "free"
  PROVE  Sound(close(w, a))
<1>1. CASE isShotdown(w.sess[a])
  BY <1>1 DEF close
<1>2. CASE ~ isShotdown(w.sess[a])
  <2> DEFINE r == close(w, a)
             waits == w.temp[w.sess[a].utag] = a
  <2>0. w \in Worlds
    BY DEF Sound
  <2>1. /\ r \in Worlds
        /\ \A b \in Addresses : b # a => r.sess[b] = w.sess[b]
        /\ isShotdown(r.sess[a]) /\ r.sess[a].as_client = w.sess[a].as_client
        /\ r.sess[a].stage = "cancelled" <=> w.sess[a].stage = "connecting"
        /\ r.sess[a].utag = w.sess[a].utag \/ r.sess[a].utag = 0
    BY <1>2, <2>0, Closed
  <2>2. ~ w.sess[a].as_client =>
          /\ r.routes = w.routes
          /\ r.temp = IF waits THEN [w.temp EXCEPT ![w.sess[a].utag] = NULL] ELSE w.temp
    BY <1>2, <2>0, Closed
  <2>3. w.sess[a].as_client =>
          /\ r.temp = w.temp
          /\ r.routes = [k \in Stypes |-> IF w.routes[k] = a THEN NULL ELSE w.routes[k]]
    BY <1>2, <2>0, Closed
  <2> HIDE DEF r
  <2>4. Accounted(r)
    BY <2>1 DEF Sound, Accounted, isShotdown
  <2>5. ServersKnown(r)
    BY <2>1 DEF Sound, ServersKnown, isShotdown
  <2>6. RoutesLead(r)
    <3> SUFFICES ASSUME NEW k \in Stypes, r.routes[k] # NULL
                 PROVE  LET b == r.routes[k]
                        IN r.sess[b].stage = "open" /\ r.sess[b].as_client /\ target[b] = k
      BY DEF RoutesLead
    <3>1. r.routes[k] = w.routes[k] /\ w.routes[k] # a
      <4>1. w.routes[k] = a => w.sess[a].as_client
        BY GatewayAssumption DEF Sound, RoutesLead
      <4>2. CASE w.sess[a].as_client
        BY <2>3, <4>2
      <4>3. CASE ~ w.sess[a].as_client
        BY <2>2, <4>1, <4>3
      <4> QED
        BY <4>2, <4>3
    <3>2. w.routes[k] \in Addresses
      BY <2>0, <3>1 DEF Worlds, Block
    <3> QED
      BY <2>1, <3>1, <3>2 DEF Sound, RoutesLead
  <2>7. TagsKnown(r)
    <3>1. gKey \in Nat /\ 0 < gKey
      BY GatewayAssumption DEF RestTyped
    <3>2. \A b \in Addresses : r.sess[b].utag = w.sess[b].utag \/ r.sess[b].utag = 0
      BY <2>1
    <3> QED
      BY <3>1, <3>2 DEF Sound, TagsKnown
  <2>8. TempOpen(r)
    <3>0. TempOpen(w)
      BY DEF Sound
    <3> SUFFICES ASSUME NEW t \in (1..MaxTag) \ late, r.temp[t] # NULL
                 PROVE  LET s == r.sess[r.temp[t]]
                        IN s.stage = "open" /\ ~ s.as_client /\ s.utag = t
      BY DEF TempOpen
    <3>1. r.temp[t] = w.temp[t] /\ w.temp[t] # a
      <4>t. t \in 0..MaxTag /\ w.temp \in [0..MaxTag -> Block]
        BY <2>0, GatewayAssumption DEF Worlds
      <4>1. w.temp[t] = a => ~ w.sess[a].as_client /\ w.sess[a].utag = t
        BY <3>0, GatewayAssumption DEF TempOpen
      <4>2. CASE w.sess[a].as_client
        BY <2>3, <4>1, <4>2
      <4>3. CASE ~ w.sess[a].as_client
        BY <2>2, <4>t, <4>1, <4>3
      <4> QED
        BY <4>2, <4>3
    <3>2. w.temp[t] \in Addresses
      <4>1. t \in 0..MaxTag
        BY GatewayAssumption
      <4> QED
        BY <2>0, <3>1, <4>1 DEF Worlds, Block
    <3> QED
      BY <2>1, <3>0, <3>1, <3>2 DEF TempOpen
  <2> QED
    BY <2>1, <2>4, <2>5, <2>6, <2>7, <2>8 DEF Sound, r
<1> QED
  BY <1>1, <1>2

(* Changes that Sound does not see. *)
LEMMA SameSound ==
  ASSUME NEW w, Sound(w), NEW v \in Worlds, v.routes = w.routes,
         \A a \in Addresses : /\ v.sess[a].stage = w.sess[a].stage
                              /\ v.sess[a].as_client = w.sess[a].as_client
                              /\ v.sess[a].utag = w.sess[a].utag,
         \A t \in 1..MaxTag : v.temp[t] \in {NULL, w.temp[t]}
  PROVE  Sound(v)
<1>0. w \in Worlds
  BY DEF Sound
<1>1. Accounted(v) /\ ServersKnown(v) /\ TagsKnown(v)
  BY DEF Sound, Accounted, ServersKnown, TagsKnown
<1>2. RoutesLead(v)
  BY <1>0 DEF Sound, RoutesLead, Worlds, Block
<1>3. TempOpen(v)
  <2>1. \A t \in 1..MaxTag : w.temp[t] # NULL => w.temp[t] \in Addresses
    <3>1. \A t \in 1..MaxTag : t \in 0..MaxTag
      BY GatewayAssumption
    <3> QED
      BY <1>0, <3>1 DEF Worlds, Block
  <2> QED
    BY <2>1 DEF Sound, TempOpen
<1> QED
  BY <1>1, <1>2, <1>3 DEF Sound

LEMMA Became ==
  ASSUME NEW w, Sound(w), World' = w, UNCHANGED <<listCache, target, gKey>>, late \subseteq late'
  PROVE  Sound(World)'
BY DEF Sound, Accounted, ServersKnown, RoutesLead, TagsKnown, TempOpen

LEMMA BecomeIs == ASSUME NEW w \in Worlds, Become(w) PROVE World' = w
BY DEF World, Become, Worlds

LEMMA Typed == World \in Worlds /\ RestTyped <=> TypeOK
BY DEF World, Worlds, RestTyped, TypeOK, Object, Block, Ways
------------------------------------------------------------------------------
(* Each action keeps the types and leads to a sound world. *)
Good == RestTyped /\ Sound(World)

(* Free blocks become sessions without a tag: no route and no waiting session   *)
(* is among them.                                                              *)
Taken(new) ==
  /\ \A b \in new : /\ b \in Addresses /\ sess[b].stage = "free" /\ sess'[b].utag = 0
                    /\ sess'[b].stage \in {"connecting", "cancelled"} => sess'[b].as_client
                    /\ sess'[b].as_client => target'[b] \in Stypes
  /\ \A b \in Addresses \ new : sess'[b] = sess[b] /\ target'[b] = target[b]
  /\ UNCHANGED <<sType2Session, client_temp, gKey, late>>

LEMMA TakenSound ==
  ASSUME Good, World' \in Worlds, Accounted(World)', NEW new, Taken(new)
  PROVE  Sound(World)'
<1> /\ \A b \in new : /\ b \in Addresses /\ sess[b].stage = "free" /\ sess'[b].utag = 0
                      /\ sess'[b].stage \in {"connecting", "cancelled"} => sess'[b].as_client
                      /\ sess'[b].as_client => target'[b] \in Stypes
    /\ \A b \in Addresses \ new : sess'[b] = sess[b] /\ target'[b] = target[b]
    /\ sType2Session' = sType2Session /\ client_temp' = client_temp /\ gKey' = gKey
    /\ late' = late
  BY DEF Taken
<1>1. World \in Worlds
  BY DEF Good, Sound
<1>2. ServersKnown(World)'
  BY DEF Good, Sound, ServersKnown, World
<1>3. RoutesLead(World)'
  <2> SUFFICES ASSUME NEW k \in Stypes, sType2Session[k] # NULL
               PROVE  LET b == sType2Session[k]
                      IN sess'[b].stage = "open" /\ sess'[b].as_client /\ target'[b] = k
    BY DEF RoutesLead, World
  <2>1. sType2Session[k] \in Addresses
    BY <1>1 DEF World, Worlds, Block
  <2>2. LET b == sType2Session[k]
        IN sess[b].stage = "open" /\ sess[b].as_client /\ target[b] = k
    BY DEF Good, Sound, RoutesLead, World
  <2> QED
    BY <2>1, <2>2
<1>4. TagsKnown(World)'
  <2>1. gKey \in Nat /\ 0 < gKey
    BY GatewayAssumption DEF Good, RestTyped
  <2>2. \A b \in Addresses : sess'[b].utag = 0 \/ sess'[b] = sess[b]
    OBVIOUS
  <2>3. ASSUME NEW b \in Addresses PROVE sess'[b].utag < gKey
    BY <2>1, <2>2 DEF Good, Sound, TagsKnown, World
  <2>4. ASSUME NEW b \in Addresses, NEW c \in Addresses, b # c, sess'[b].utag # 0
        PROVE sess'[b].utag # sess'[c].utag
    BY <2>2, <2>4 DEF Good, Sound, TagsKnown, World
  <2> QED
    BY <2>3, <2>4 DEF TagsKnown, World
<1>5. TempOpen(World)'
  <2> SUFFICES ASSUME NEW t \in (1..MaxTag) \ late, client_temp[t] # NULL
               PROVE  LET r == sess'[client_temp[t]]
                      IN r.stage = "open" /\ ~ r.as_client /\ r.utag = t
    BY DEF TempOpen, World
  <2>1. client_temp[t] \in Addresses
    <3>1. t \in 0..MaxTag
      BY GatewayAssumption
    <3> QED
      BY <1>1, <3>1 DEF World, Worlds, Block
  <2>2. LET r == sess[client_temp[t]]
        IN r.stage = "open" /\ ~ r.as_client /\ r.utag = t
    BY DEF Good, Sound, TempOpen, World
  <2> QED
    BY <2>1, <2>2
<1> QED
  BY <1>2, <1>3, <1>4, <1>5 DEF Sound

LEMMA AcceptGood == Good /\ uv_startTcpEvent => Good'
<1> SUFFICES ASSUME Good, uv_startTcpEvent PROVE Good'
  OBVIOUS
<1> DEFINE a == Head(listCache)
           s == Created("open", FALSE)
<1>1. listCache \in Seq(Addresses) /\ listCache # <<>> /\ Distinct(listCache)
  BY DEF Good, RestTyped, Sound, Accounted, uv_startTcpEvent
<1>2. /\ listCache' \in Seq(Addresses) /\ Distinct(listCache')
      /\ a \in Addresses /\ Listed(a, listCache)
      /\ \A b : Listed(b, listCache') <=> Listed(b, listCache) /\ b # a
  BY <1>1, PopList DEF uv_startTcpEvent
<1>3. /\ sess' = [sess EXCEPT ![a] = s] /\ verified' = [verified EXCEPT ![a] = 0]
      /\ target' = [target EXCEPT ![a] = NULL]
      /\ UNCHANGED <<tables, gKey, client_gid, pending, late, displaced, stale>>
  BY DEF uv_startTcpEvent, past
<1>4. s \in Object /\ s.stage = "open" /\ ~ s.as_client /\ s.utag = 0
  BY GatewayAssumption DEF Created, Object, Stages
<1> HIDE DEF a, s
<1>5. World \in Worlds /\ Accounted(World) /\ sess[a].stage = "free"
  BY <1>2 DEF Good, Sound, Accounted, World
<1>6. /\ sess' \in [Addresses -> Object] /\ sess'[a] = s
      /\ \A b \in Addresses : b # a => sess'[b] = sess[b]
  BY <1>2, <1>3, <1>4, <1>5, Updated DEF World, Worlds
<1>7. /\ target' \in [Addresses -> Stypes \cup {NULL}]
      /\ \A b \in Addresses : b # a => target'[b] = target[b]
  BY <1>2, <1>3 DEF Good, RestTyped
<1>8. RestTyped'
  BY <1>2, <1>3, <1>7 DEF Good, RestTyped
<1>9. World' \in Worlds
  BY <1>3, <1>5, <1>6 DEF World, Worlds, tables
<1>10. Accounted(World)'
  BY <1>2, <1>4, <1>5, <1>6 DEF Accounted, World
<1>11. Taken({a})
  BY <1>2, <1>3, <1>4, <1>5, <1>6, <1>7 DEF Taken, tables
<1>13. Sound(World)'
  BY <1>9, <1>10, <1>11, TakenSound
<1> QED
  BY <1>8, <1>13 DEF Good

------------------------------------------------------------------------------
(* checkConnected takes one block for every server that is missing. *)
LEMMA Missing ==
  ASSUME NEW missing \in SUBSET Stypes
  PROVE  Cardinality(missing) \in Nat
BY GatewayAssumption, FS_Subset, FS_CardinalityType

(* block[k]: the block of the connection to k. *)
Tries(missing, block, stage) ==
  /\ missing = unconnected
  /\ \A j, k \in missing : block[j] = block[k] => j = k
  /\ \A k \in missing : /\ Listed(block[k], listCache)
                        /\ sess'[block[k]] = Created(stage[k], TRUE)
                        /\ target'[block[k]] = k /\ verified'[block[k]] = 0
  /\ \A b \in Addresses : (\A k \in missing : block[k] # b) =>
       sess'[b] = sess[b] /\ target'[b] = target[b] /\ verified'[b] = verified[b]
  /\ sess' = [b \in Addresses |-> sess'[b]] /\ target' = [b \in Addresses |-> target'[b]]
  /\ verified' = [b \in Addresses |-> verified'[b]]
  /\ listCache' \in Seq(Addresses) /\ Distinct(listCache')
  /\ \A b : Listed(b, listCache') <=>
             Listed(b, listCache) /\ \A k \in missing : block[k] # b

LEMMA Tried ==
  ASSUME Good, checkConnected
  PROVE  \E missing \in SUBSET Stypes : \E block \in [missing -> Addresses] :
           \E stage \in [missing -> {"connecting", "orphan"}] : Tries(missing, block, stage)
<1> DEFINE missing == unconnected
           n == Cardinality(missing)
<1>1. missing \in SUBSET Stypes /\ n \in Nat /\ n <= Len(listCache)
  BY Missing DEF checkConnected, unconnected
<1>2. PICK place \in Orders(missing), stage \in [missing -> {"connecting", "orphan"}] :
        LET For(a) == {k \in missing : listCache[place[k]] = a}
            New(old, new(_)) == [a \in Addresses |->
              IF For(a) = {} THEN old[a] ELSE new(CHOOSE k \in For(a) : TRUE)]
            session(k) == Created(stage[k], TRUE)
            callback(k) == k
            nobody(k) == 0
        IN /\ sess' = New(sess, session)
           /\ target' = New(target, callback)
           /\ verified' = New(verified, nobody)
  BY DEF checkConnected
<1>3. /\ place \in [missing -> 1..n]
      /\ \A j, k \in missing : place[j] = place[k] => j = k
      /\ \A i \in 1..n : \E k \in missing : place[k] = i
  BY DEF Orders
<1>4. listCache' = SubSeq(listCache, n + 1, Len(listCache))
  BY DEF checkConnected
<1>5. listCache \in Seq(Addresses) /\ Distinct(listCache) /\ Len(listCache) \in Nat
  BY LenProperties DEF Good, RestTyped, Sound, Accounted
<1> DEFINE block == [k \in missing |-> listCache[place[k]]]
<1> HIDE DEF missing, n
<1>6. ASSUME NEW k \in missing
      PROVE place[k] \in 1..Len(listCache) /\ listCache[place[k]] \in Addresses
  BY <1>1, <1>3, <1>5
<1>7. block \in [missing -> Addresses] /\ \A k \in missing : block[k] = listCache[place[k]]
  BY <1>6
<1> HIDE DEF block
<1>8. \A j, k \in missing : block[j] = block[k] => j = k
  BY <1>3, <1>5, <1>6, <1>7 DEF Distinct
<1>9. ASSUME NEW k \in missing
      PROVE /\ Listed(block[k], listCache) /\ sess'[block[k]] = Created(stage[k], TRUE)
            /\ target'[block[k]] = k /\ verified'[block[k]] = 0
  <2>1. {j \in missing : listCache[place[j]] = block[k]} = {k}
    BY <1>7, <1>8
  <2>2. (CHOOSE j \in {k} : TRUE) = k /\ {k} # {}
    OBVIOUS
  <2> QED
    BY <1>2, <1>6, <1>7, <2>1, <2>2 DEF Listed
<1>10. ASSUME NEW b \in Addresses, \A k \in missing : block[k] # b
       PROVE sess'[b] = sess[b] /\ target'[b] = target[b] /\ verified'[b] = verified[b]
  <2>1. {j \in missing : listCache[place[j]] = b} = {}
    BY <1>7, <1>10
  <2> QED
    BY <1>2, <2>1
<1>11. /\ listCache' \in Seq(Addresses) /\ Distinct(listCache')
       /\ \A b : Listed(b, listCache') <=>
                  Listed(b, listCache) /\ \A i \in 1..n : listCache[i] # b
  BY <1>1, <1>4, <1>5, DropList
<1>12. ASSUME NEW b
       PROVE (\A i \in 1..n : listCache[i] # b) <=> \A k \in missing : block[k] # b
  BY <1>3, <1>7
<1>13. \A b : Listed(b, listCache') <=>
               Listed(b, listCache) /\ \A k \in missing : block[k] # b
  BY <1>11, <1>12
<1>15. /\ sess' = [b \in Addresses |-> sess'[b]] /\ target' = [b \in Addresses |-> target'[b]]
       /\ verified' = [b \in Addresses |-> verified'[b]]
  BY <1>2
<1>14. missing = unconnected
  BY DEF missing
<1> missing \in SUBSET Stypes /\ block \in [missing -> Addresses]
  BY <1>1, <1>7
<1> WITNESS missing \in SUBSET Stypes
<1> WITNESS block \in [missing -> Addresses]
<1> WITNESS stage \in [missing -> {"connecting", "orphan"}]
<1> QED
  BY <1>8, <1>9, <1>10, <1>11, <1>13, <1>14, <1>15 DEF Tries

LEMMA TriedGood == Good /\ checkConnected => Good'
<1> SUFFICES ASSUME Good, checkConnected PROVE Good'
  OBVIOUS
<1>a. PICK missing \in SUBSET Stypes : \E block \in [missing -> Addresses] :
        \E stage \in [missing -> {"connecting", "orphan"}] : Tries(missing, block, stage)
  BY Tried
<1>b. PICK block \in [missing -> Addresses] :
        \E stage \in [missing -> {"connecting", "orphan"}] : Tries(missing, block, stage)
  BY <1>a
<1>c. PICK stage \in [missing -> {"connecting", "orphan"}] : Tries(missing, block, stage)
  BY <1>b
<1>1. /\ \A k \in missing : /\ Listed(block[k], listCache)
                            /\ sess'[block[k]] = Created(stage[k], TRUE)
                            /\ target'[block[k]] = k /\ verified'[block[k]] = 0
      /\ \A b \in Addresses : (\A k \in missing : block[k] # b) =>
           sess'[b] = sess[b] /\ target'[b] = target[b] /\ verified'[b] = verified[b]
      /\ sess' = [b \in Addresses |-> sess'[b]] /\ target' = [b \in Addresses |-> target'[b]]
      /\ verified' = [b \in Addresses |-> verified'[b]]
      /\ listCache' \in Seq(Addresses) /\ Distinct(listCache')
      /\ \A b : Listed(b, listCache') <=>
                 Listed(b, listCache) /\ \A k \in missing : block[k] # b
  BY <1>c DEF Tries
<1>2. /\ do_connecting' \in [Stypes -> BOOLEAN]
      /\ UNCHANGED <<sType2Session, client_temp, client_uid, gKey, client_gid, pending, late,
                     displaced, stale>>
  <2>1. do_connecting' \in [Stypes -> BOOLEAN]
    BY DEF checkConnected
  <2>2. UNCHANGED <<sType2Session, client_temp, client_uid, gKey, client_gid, pending, late,
                    displaced, stale>>
    BY DEF checkConnected, past
  <2> QED
    BY <2>1, <2>2
<1>3. World \in Worlds /\ Accounted(World)
  BY DEF Good, Sound
<1> DEFINE new == {block[k] : k \in missing}
<1>4. ASSUME NEW b \in new
      PROVE /\ b \in Addresses /\ Listed(b, listCache) /\ sess[b].stage = "free"
            /\ sess'[b] \in Object /\ sess'[b].utag = 0 /\ sess'[b].as_client
            /\ sess'[b].stage \in {"connecting", "orphan"}
            /\ target'[b] \in Stypes /\ verified'[b] = 0
  <2>1. PICK k \in missing : b = block[k]
    BY <1>4
  <2>2. /\ b \in Addresses /\ Listed(b, listCache) /\ sess'[b] = Created(stage[k], TRUE)
        /\ target'[b] = k /\ verified'[b] = 0 /\ k \in Stypes
        /\ stage[k] \in {"connecting", "orphan"}
    BY <1>1, <2>1
  <2>3. sess[b].stage = "free"
    BY <1>3, <2>2 DEF Accounted, World
  <2>4. LET s == Created(stage[k], TRUE)
        IN /\ s \in Object /\ s.utag = 0 /\ s.as_client
           /\ s.stage \in {"connecting", "orphan"}
    BY <2>2, GatewayAssumption DEF Created, Object, Stages
  <2> QED
    BY <2>2, <2>3, <2>4
<1>5. ASSUME NEW b \in Addresses, b \notin new
      PROVE /\ sess'[b] = sess[b] /\ target'[b] = target[b] /\ verified'[b] = verified[b]
            /\ Listed(b, listCache') <=> Listed(b, listCache)
  BY <1>1, <1>5
<1>6. ASSUME NEW b \in new PROVE ~ Listed(b, listCache')
  BY <1>1, <1>6
<1> HIDE DEF new
<1>7. ASSUME NEW b \in Addresses
      PROVE /\ sess'[b] \in Object /\ target'[b] \in Stypes \cup {NULL}
            /\ verified'[b] \in GuestIds \cup {0}
  <2>1. sess[b] \in Object /\ target[b] \in Stypes \cup {NULL}
        /\ verified[b] \in GuestIds \cup {0}
    BY <1>3 DEF World, Worlds, Good, RestTyped
  <2> QED
    BY <1>4, <1>5, <2>1
<1>8. /\ sess' \in [Addresses -> Object] /\ target' \in [Addresses -> Stypes \cup {NULL}]
      /\ verified' \in [Addresses -> GuestIds \cup {0}]
  BY <1>1, <1>7
<1>9. World' \in Worlds
  BY <1>2, <1>3, <1>8 DEF World, Worlds
<1>10. RestTyped'
  BY <1>1, <1>2, <1>8 DEF Good, RestTyped
<1>11. Accounted(World)'
  <2>1. ASSUME NEW b \in Addresses PROVE sess'[b].stage = "free" <=> Listed(b, listCache')
    <3>1. CASE b \in new
      BY <1>4, <1>6, <3>1
    <3>2. CASE b \notin new
      BY <1>3, <1>5, <3>2 DEF Accounted, World
    <3> QED
      BY <3>1, <3>2
  <2> QED
    BY <1>1, <2>1 DEF Accounted, World
<1>12. Taken(new)
  BY <1>2, <1>4, <1>5 DEF Taken
<1>13. Sound(World)'
  BY <1>9, <1>11, <1>12, TakenSound
<1> QED
  BY <1>10, <1>13 DEF Good

------------------------------------------------------------------------------
(* A step that leaves the pool, the targets and the counter alone. *)
LEMMA BecameGood ==
  ASSUME Good, NEW w, Sound(w), World' = w,
         UNCHANGED <<listCache, target, gKey, late>>, stale' \in Ways,
         displaced' \subseteq GuestIds, client_gid' \in [Ids -> Block],
         pending' \subseteq pending, verified' \in [Addresses -> GuestIds \cup {0}]
  PROVE  Good'
<1>1. Sound(World)'
  BY Became
<1>2. RestTyped'
  BY DEF Good, RestTyped
<1> QED
  BY <1>1, <1>2 DEF Good

LEMMA ReadEndedSound ==
  ASSUME NEW w, Sound(w), NEW a \in Addresses
  PROVE  LET v == [w EXCEPT !.sess[a] = ReadEnded(@)]
         IN /\ Sound(v) /\ v.sess[a].stage = w.sess[a].stage
            /\ v.sess[a].as_client = w.sess[a].as_client /\ v.sess[a].gid = w.sess[a].gid
            /\ \A b \in Addresses : b # a => v.sess[b] = w.sess[b]
            /\ v.routes = w.routes /\ v.conn = w.conn
<1> DEFINE s == ReadEnded(w.sess[a])
           v == [w EXCEPT !.sess[a] = s]
<1>0. w \in Worlds
  BY DEF Sound
<1>1. w.sess[a] \in Object /\ w.sess \in [Addresses -> Object]
  BY <1>0 DEF Worlds
<1>2. /\ s \in Object /\ s.stage = w.sess[a].stage /\ s.as_client = w.sess[a].as_client
      /\ s.utag = w.sess[a].utag /\ s.gid = w.sess[a].gid
  BY <1>1 DEF ReadEnded, Object
<1> HIDE DEF s
<1>3. /\ v \in Worlds /\ v.routes = w.routes /\ v.conn = w.conn /\ v.temp = w.temp
      /\ v.sess = [w.sess EXCEPT ![a] = s]
  BY <1>0, <1>1, <1>2 DEF Worlds
<1>4. v.sess[a] = s /\ \A b \in Addresses : b # a => v.sess[b] = w.sess[b]
  BY <1>1, <1>3
<1> HIDE DEF v
<1>5. \A b \in Addresses : /\ v.sess[b].stage = w.sess[b].stage
                           /\ v.sess[b].as_client = w.sess[b].as_client
                           /\ v.sess[b].utag = w.sess[b].utag
  BY <1>2, <1>4
<1>6. Sound(v)
  BY <1>3, <1>5, SameSound
<1> QED
  BY <1>2, <1>3, <1>4, <1>6 DEF v, s

LEMMA ReadErrorGood == ASSUME NEW a \in Addresses PROVE Good /\ readError(a) => Good'
<1> SUFFICES ASSUME Good, readError(a) PROVE Good'
  OBVIOUS
<1> DEFINE v == [World EXCEPT !.sess[a] = ReadEnded(@)]
<1>1. Sound(v) /\ v.sess[a].stage = World.sess[a].stage
  BY ReadEndedSound DEF Good
<1>2. World.sess[a].stage \in {"open", "shutdown"} /\ Become(close(v, a))
  BY DEF readError, Receives, World
<1> HIDE DEF v
<1>3. Sound(close(v, a))
  BY <1>1, <1>2, CloseSound DEF Good
<1>4. World' = close(v, a)
  BY <1>2, <1>3, BecomeIs DEF Sound
<1>5. UNCHANGED <<listCache, target, gKey, client_gid, pending, verified, late, displaced,
                  stale>>
  BY DEF readError, past
<1> QED
  BY <1>3, <1>4, <1>5, BecameGood DEF Good, RestTyped

LEMMA IllegalFrameGood == ASSUME NEW a \in Addresses PROVE Good /\ illegalFrame(a) => Good'
<1> SUFFICES ASSUME Good, illegalFrame(a) PROVE Good'
  OBVIOUS
<1>1. World.sess[a].stage \in {"open", "shutdown"} /\ Become(close(World, a))
  BY DEF illegalFrame, Receiving, Receives, World
<1>2. Sound(close(World, a))
  BY <1>1, CloseSound DEF Good
<1>3. World' = close(World, a)
  BY <1>1, <1>2, BecomeIs DEF Sound
<1>4. UNCHANGED <<listCache, target, gKey, client_gid, pending, verified, late, displaced,
                  stale>>
  BY DEF illegalFrame, past
<1> QED
  BY <1>2, <1>3, <1>4, BecameGood DEF Good, RestTyped

(* The callback of connect makes a route of its own, open connection. *)
Opened(w, a, k) ==
  [w EXCEPT !.conn[k] = TRUE, !.routes[k] = a, !.sess[a] = Connected(@)]

LEMMA OpenedSessions ==
  ASSUME NEW w \in Worlds, NEW a \in Addresses, NEW k \in Stypes
  PROVE  /\ Opened(w, a, k).sess[a] = Connected(w.sess[a])
         /\ \A b \in Addresses : b # a => Opened(w, a, k).sess[b] = w.sess[b]
<1>1. w.sess \in [Addresses -> Object]
  BY DEF Worlds
<1>2. Opened(w, a, k).sess = [w.sess EXCEPT ![a] = Connected(@)]
  BY DEF Opened, Worlds
<1> QED
  BY <1>1, <1>2

LEMMA ConnectedSound ==
  ASSUME NEW w, Sound(w), NEW a \in Addresses, w.sess[a].stage = "connecting",
         NEW k \in Stypes, target[a] = k
  PROVE  LET v == Opened(w, a, k)
         IN /\ Sound(v)
            /\ v.conn = [w.conn EXCEPT ![k] = TRUE] /\ v.routes = [w.routes EXCEPT ![k] = a]
<1> DEFINE s == Connected(w.sess[a])
           v == Opened(w, a, k)
<1>0. w \in Worlds
  BY DEF Sound
<1>1. w.sess[a] \in Object /\ w.sess \in [Addresses -> Object] /\ w.temp \in [0..MaxTag -> Block]
      /\ w.routes \in [Stypes -> Block] /\ w.conn \in [Stypes -> BOOLEAN] /\ w.sess[a].as_client
  BY <1>0 DEF Worlds, Sound, ServersKnown
<1>2. /\ s \in Object /\ s.stage = "open" /\ s.as_client = w.sess[a].as_client
      /\ s.utag = w.sess[a].utag
  BY <1>1 DEF Connected, Object, Stages
<1>o. v = [w EXCEPT !.conn[k] = TRUE, !.routes[k] = a, !.sess[a] = s]
  BY DEF Opened
<1> HIDE DEF s, v
<1>3. /\ v.routes = [w.routes EXCEPT ![k] = a] /\ v.conn = [w.conn EXCEPT ![k] = TRUE]
      /\ v.sess = [w.sess EXCEPT ![a] = s] /\ v.temp = w.temp /\ v \in Worlds
  <2>1. a \in Block
    BY DEF Block
  <2>2. /\ [w.routes EXCEPT ![k] = a] \in [Stypes -> Block]
        /\ [w.conn EXCEPT ![k] = TRUE] \in [Stypes -> BOOLEAN]
        /\ [w.sess EXCEPT ![a] = s] \in [Addresses -> Object]
    BY <1>1, <1>2, <2>1, Updated
  <2> QED
    BY <1>0, <1>o, <2>2 DEF Worlds
<1>4. /\ v.sess[a] = s /\ \A b \in Addresses : b # a => v.sess[b] = w.sess[b]
      /\ v.routes[k] = a /\ \A j \in Stypes : j # k => v.routes[j] = w.routes[j]
  BY <1>1, <1>3
<1>5. Accounted(v) /\ ServersKnown(v)
  BY <1>1, <1>2, <1>4 DEF Sound, Accounted, ServersKnown
<1>6. RoutesLead(v)
  <2>1. ASSUME NEW j \in Stypes, j # k, v.routes[j] # NULL
        PROVE LET b == v.routes[j]
              IN v.sess[b].stage = "open" /\ v.sess[b].as_client /\ target[b] = j
    <3>1. w.routes[j] \in Addresses /\ w.routes[j] = v.routes[j]
      BY <1>1, <1>4, <2>1 DEF Block
    <3>2. LET b == w.routes[j]
          IN w.sess[b].stage = "open" /\ w.sess[b].as_client /\ target[b] = j
      BY <2>1, <3>1 DEF Sound, RoutesLead
    <3> QED
      BY <1>4, <3>1, <3>2
  <2>2. v.routes[k] = a /\ v.sess[a].stage = "open" /\ v.sess[a].as_client /\ target[a] = k
    BY <1>1, <1>2, <1>4
  <2> QED
    BY <2>1, <2>2 DEF RoutesLead
<1>7. TagsKnown(v)
  <2>1. \A b \in Addresses : v.sess[b].utag = w.sess[b].utag
    BY <1>2, <1>4
  <2> QED
    BY <2>1 DEF Sound, TagsKnown
<1>8. TempOpen(v)
  <2>1. \A t \in 1..MaxTag : w.temp[t] # NULL => w.temp[t] \in Addresses
    <3>1. \A t \in 1..MaxTag : t \in 0..MaxTag
      BY GatewayAssumption
    <3> QED
      BY <1>1, <3>1 DEF Block
  <2>2. \A t \in (1..MaxTag) \ late : w.temp[t] # NULL => w.temp[t] # a
    BY DEF Sound, TempOpen
  <2> QED
    BY <1>3, <1>4, <2>1, <2>2 DEF Sound, TempOpen
<1>9. Sound(v)
  BY <1>3, <1>5, <1>6, <1>7, <1>8 DEF Sound
<1> QED
  BY <1>3, <1>4, <1>9 DEF v, s

(* The callback of connect after a failure, before netbus closes the session. *)
Failed(w, a, k) == [w EXCEPT !.conn[k] = FALSE, !.sess[a] = NotConnected(@)]

LEMMA FailedParts ==
  ASSUME NEW w \in Worlds, NEW a \in Addresses, NEW k \in Stypes,
         w.sess[a].stage \in {"connecting", "cancelled"}
  PROVE  LET v == Failed(w, a, k)
         IN /\ v \in Worlds /\ v.routes = w.routes /\ v.temp = w.temp
            /\ v.conn = [w.conn EXCEPT ![k] = FALSE]
            /\ \A b \in Addresses : b # a => v.sess[b] = w.sess[b]
            /\ v.sess[a].stage = IF w.sess[a].stage = "cancelled" THEN "closing" ELSE "orphan"
            /\ v.sess[a].as_client = w.sess[a].as_client /\ v.sess[a].gid = w.sess[a].gid
            /\ v.sess[a].utag = w.sess[a].utag
<1> DEFINE s == NotConnected(w.sess[a])
           v == Failed(w, a, k)
<1>1. w.sess[a] \in Object /\ w.sess \in [Addresses -> Object] /\ w.conn \in [Stypes -> BOOLEAN]
  BY DEF Worlds
<1>2. /\ s \in Object /\ s.as_client = w.sess[a].as_client /\ s.gid = w.sess[a].gid
      /\ s.utag = w.sess[a].utag
      /\ s.stage = IF w.sess[a].stage = "cancelled" THEN "closing" ELSE "orphan"
  BY <1>1 DEF NotConnected, Object, Stages
<1>3. v = [w EXCEPT !.conn[k] = FALSE, !.sess[a] = s]
  BY DEF Failed
<1> HIDE DEF s, v
<1>4. /\ v \in Worlds /\ v.routes = w.routes /\ v.temp = w.temp
      /\ v.conn = [w.conn EXCEPT ![k] = FALSE] /\ v.sess = [w.sess EXCEPT ![a] = s]
  <2>1. [w.conn EXCEPT ![k] = FALSE] \in [Stypes -> BOOLEAN]
    BY <1>1
  <2>2. [w.sess EXCEPT ![a] = s] \in [Addresses -> Object]
    BY <1>1, <1>2
  <2> QED
    BY <1>3, <2>1, <2>2 DEF Worlds
<1>5. v.sess[a] = s /\ \A b \in Addresses : b # a => v.sess[b] = w.sess[b]
  BY <1>1, <1>4
<1> QED
  BY <1>2, <1>4, <1>5 DEF v

LEMMA FailedSound ==
  ASSUME NEW w, Sound(w), NEW a \in Addresses, NEW k \in Stypes,
         w.sess[a].stage \in {"connecting", "cancelled"}
  PROVE  Sound(Failed(w, a, k))
<1> DEFINE v == Failed(w, a, k)
<1>0. w \in Worlds
  BY DEF Sound
<1>1. /\ v \in Worlds /\ v.routes = w.routes /\ v.temp = w.temp
      /\ \A b \in Addresses : b # a => v.sess[b] = w.sess[b]
      /\ v.sess[a].stage = IF w.sess[a].stage = "cancelled" THEN "closing" ELSE "orphan"
      /\ v.sess[a].as_client = w.sess[a].as_client /\ v.sess[a].utag = w.sess[a].utag
  BY <1>0, FailedParts
<1> HIDE DEF v
<1>2. Accounted(v) /\ ServersKnown(v)
  <2>1. Accounted(v)
    BY <1>1 DEF Sound, Accounted
  <2>2. ServersKnown(v)
    BY <1>1 DEF Sound, ServersKnown
  <2> QED
    BY <2>1, <2>2
<1>3. TagsKnown(v)
  <2>1. \A b \in Addresses : v.sess[b].utag = w.sess[b].utag
    BY <1>1
  <2> QED
    BY <2>1 DEF Sound, TagsKnown
<1>4. RoutesLead(v)
  <2>1. ASSUME NEW j \in Stypes, w.routes[j] # NULL
        PROVE  w.routes[j] \in Addresses /\ w.routes[j] # a
    <3>1. w.routes[j] \in Addresses
      BY <1>0, <2>1 DEF Worlds, Block
    <3>2. w.sess[w.routes[j]].stage = "open"
      BY <2>1 DEF Sound, RoutesLead
    <3> QED
      BY <3>1, <3>2
  <2> QED
    BY <1>1, <2>1 DEF Sound, RoutesLead
<1>5. TempOpen(v)
  <2>1. ASSUME NEW t \in (1..MaxTag) \ late, w.temp[t] # NULL
        PROVE  w.temp[t] \in Addresses /\ w.temp[t] # a
    <3>1. t \in 0..MaxTag
      BY GatewayAssumption
    <3>2. w.temp[t] \in Addresses
      BY <1>0, <2>1, <3>1 DEF Worlds, Block
    <3>3. w.sess[w.temp[t]].stage = "open"
      BY <2>1 DEF Sound, TempOpen
    <3> QED
      BY <3>2, <3>3
  <2> QED
    BY <1>1, <2>1 DEF Sound, TempOpen
<1> QED
  BY <1>1, <1>2, <1>3, <1>4, <1>5 DEF Sound, v

LEMMA AfterConnectGood ==
  ASSUME NEW a \in Addresses, NEW status \in {0, 1}
  PROVE  Good /\ after_connect(a, status) => Good'
<1> SUFFICES ASSUME Good, after_connect(a, status) PROVE Good'
  OBVIOUS
<1> DEFINE k == target[a]
           failed == Failed(World, a, k)
           done == Opened(World, a, k)
<1>1. /\ World.sess[a].stage \in {"connecting", "cancelled"}
      /\ status = 0 => World.sess[a].stage = "connecting"
      /\ Become(IF status = 0 THEN done ELSE close(failed, a))
      /\ UNCHANGED <<listCache, target, gKey, client_gid, pending, verified, late, displaced,
                     stale>>
  BY DEF after_connect, World, Opened, Failed, past
<1>2. k \in Stypes
  BY <1>1 DEF Good, Sound, ServersKnown
<1> HIDE DEF k
<1>3. status = 0 => Sound(done)
  BY <1>1, <1>2, ConnectedSound DEF Good, k
<1>4. Sound(failed) /\ failed.sess[a].stage # "free"
  BY <1>1, <1>2, FailedSound, FailedParts DEF Good, Sound
<1> HIDE DEF failed, done
<1>5. Sound(close(failed, a))
  BY <1>4, CloseSound DEF Good
<1>6. PICK w \in {done, close(failed, a)} : Become(w) /\ Sound(w)
  BY <1>1, <1>3, <1>5
<1>7. Sound(w) /\ World' = w
  BY <1>6, BecomeIs DEF Sound
<1> QED
  BY <1>1, <1>7, BecameGood DEF Good, RestTyped

------------------------------------------------------------------------------
(* A call is on a session in use, or tells by which table and key it was made. *)
LEMMA Relayed == ASSUME NEW k \in Stypes, relay(k) PROVE stale' \in Ways
BY DEF relay, call, Ways

LEMMA LoginGood ==
  ASSUME NEW c \in Addresses, NEW k \in Stypes, NEW ctype \in Commands \ {other}
  PROVE  Good /\ sendToServer(c, k, ctype) => Good'
<1> SUFFICES ASSUME Good, sendToServer(c, k, ctype) PROVE Good'
  OBVIOUS
<1> DEFINE first == sess[c].utag = 0
           utag == IF first THEN gKey ELSE sess[c].utag
           s == [sess[c] EXCEPT !.utag = utag,
                                !.gid = IF first /\ ctype = eGuestLoginReq THEN utag ELSE @,
                                !.uid = IF first /\ ctype = eLoginReq THEN utag ELSE @]
<1>1. /\ utag <= MaxTag /\ gKey' = (IF first THEN gKey + 1 ELSE gKey)
      /\ sess' = [sess EXCEPT ![c] = s]
      /\ client_temp' = [client_temp EXCEPT ![utag] = c]
      /\ late' = (IF isShotdown(sess[c]) THEN late \cup {utag} ELSE late)
      /\ stale' \in Ways
      /\ pending' = pending \cup {[server |-> k, ctype |-> ctype, tag |-> utag]}
      /\ UNCHANGED <<client_uid, client_gid, listCache, target, sType2Session, do_connecting,
                     verified, displaced>>
  <2>1. loginToServer(c, k, ctype)
    BY DEF sendToServer
  <2>2. /\ utag <= MaxTag /\ gKey' = (IF first THEN gKey + 1 ELSE gKey)
        /\ client_temp' = [client_temp EXCEPT ![utag] = c]
        /\ late' = (IF isShotdown(sess[c]) THEN late \cup {utag} ELSE late)
        /\ pending' = pending \cup {[server |-> k, ctype |-> ctype, tag |-> utag]}
        /\ UNCHANGED <<client_uid, client_gid, displaced>>
    BY <2>1 DEF loginToServer, nextKey, asked
  <2>5. stale' \in Ways
    BY <2>1, Relayed DEF loginToServer
  <2>3. sess' = [sess EXCEPT ![c] = s]
    BY <2>1 DEF loginToServer
  <2>4. UNCHANGED <<listCache, target, sType2Session, do_connecting, verified>>
    BY DEF sendToServer
  <2> QED
    BY <2>2, <2>3, <2>4, <2>5
<1>2. /\ World \in Worlds /\ sess[c] \in Object /\ ~ sess[c].as_client
      /\ isShotdown(sess[c]) \/ sess[c].stage = "open"
  <2>1. World \in Worlds
    BY DEF Good, Sound
  <2>2. sess[c] \in Object
    BY <2>1 DEF World, Worlds
  <2>3. ~ sess[c].as_client /\ (isShotdown(sess[c]) \/ sess[c].stage = "open")
    BY DEF sendToServer, Receiving, Receives, isShotdown
  <2> QED
    BY <2>1, <2>2, <2>3
<1>3. /\ gKey \in 1..(MaxTag + 1) /\ sess[c].utag \in 0..MaxTag /\ sess[c].utag < gKey
      /\ MaxTag \in Nat
  BY <1>2, GatewayAssumption DEF Good, RestTyped, Object, Sound, TagsKnown, World
<1>4. utag \in 1..MaxTag /\ gKey' \in 1..(MaxTag + 1) /\ gKey <= gKey' /\ utag < gKey'
  BY <1>1, <1>3
<1>5. /\ s \in Object /\ s.stage = sess[c].stage /\ s.as_client = sess[c].as_client
      /\ s.utag = utag
  <2>1. utag \in 0..MaxTag /\ utag \in Ids
    BY <1>4 DEF Ids
  <2> HIDE DEF utag, first
  <2> QED
    BY <1>2, <2>1 DEF Object
<1>f. first <=> sess[c].utag = 0
  OBVIOUS
<1>u. utag = IF first THEN gKey ELSE sess[c].utag
  OBVIOUS
<1> HIDE DEF s, utag, first
<1>6. /\ sess' \in [Addresses -> Object] /\ sess'[c] = s
      /\ \A b \in Addresses : b # c => sess'[b] = sess[b]
  BY <1>1, <1>2, <1>5, Updated DEF World, Worlds
<1>7. /\ client_temp' \in [0..MaxTag -> Block] /\ client_temp'[utag] = c
      /\ \A t \in 1..MaxTag : t # utag => client_temp'[t] = client_temp[t]
  <2>1. utag \in 0..MaxTag /\ c \in Block /\ client_temp \in [0..MaxTag -> Block]
    BY <1>2, <1>4 DEF Block, World, Worlds
  <2>2. \A t \in 1..MaxTag : t \in 0..MaxTag
    BY <1>3
  <2> QED
    BY <1>1, <2>1, <2>2, Updated
<1>8. World' \in Worlds
  BY <1>1, <1>2, <1>6, <1>7 DEF World, Worlds
<1>9. RestTyped'
  <2>1. late' \subseteq 1..MaxTag
    BY <1>1, <1>4 DEF Good, RestTyped
  <2>2. pending' \subseteq [server : Stypes, ctype : Commands \ {other}, tag : 1..MaxTag]
    BY <1>1, <1>4 DEF Good, RestTyped
  <2> QED
    BY <1>1, <1>4, <2>1, <2>2 DEF Good, RestTyped
<1>10. \A b \in Addresses : /\ sess'[b].stage = sess[b].stage
                            /\ sess'[b].as_client = sess[b].as_client
  BY <1>5, <1>6
<1>11. Accounted(World)' /\ ServersKnown(World)'
  BY <1>1, <1>10 DEF Good, Sound, Accounted, ServersKnown, World
<1>12. RoutesLead(World)'
  <2>1. \A j \in Stypes : sType2Session[j] # NULL => sType2Session[j] \in Addresses
    BY <1>2 DEF World, Worlds, Block
  <2> QED
    BY <1>1, <1>10, <2>1 DEF Good, Sound, RoutesLead, World
<1>13. TagsKnown(World)'
  <2>1. \A b \in Addresses : sess[b].utag \in Nat /\ sess[b].utag < gKey
    BY <1>2 DEF Good, Sound, TagsKnown, World, Worlds, Object
  <2>2. ASSUME NEW b \in Addresses PROVE sess'[b].utag < gKey'
    <3>1. CASE b = c
      BY <1>4, <1>5, <1>6, <3>1
    <3>2. CASE b # c
      BY <1>3, <1>4, <1>6, <2>1, <3>2
    <3> QED
      BY <3>1, <3>2
  <2>3. ASSUME NEW b \in Addresses, b # c PROVE sess[b].utag # utag
    <3>1. CASE first
      BY <1>3, <1>u, <2>1, <3>1
    <3>2. CASE ~ first
      BY <1>f, <1>u, <2>3, <3>2 DEF Good, Sound, TagsKnown, World
    <3> QED
      BY <3>1, <3>2
  <2>4. ASSUME NEW b \in Addresses, NEW d \in Addresses, b # d, sess'[b].utag # 0
        PROVE sess'[b].utag # sess'[d].utag
    <3>1. CASE b = c
      BY <1>5, <1>6, <2>3, <2>4, <3>1
    <3>2. CASE d = c
      BY <1>5, <1>6, <2>3, <2>4, <3>2
    <3>3. CASE b # c /\ d # c
      BY <1>6, <2>4, <3>3 DEF Good, Sound, TagsKnown, World
    <3> QED
      BY <3>1, <3>2, <3>3
  <2> QED
    BY <2>2, <2>4 DEF TagsKnown, World
<1>14. TempOpen(World)'
  <2>l. late \subseteq late' /\ (isShotdown(sess[c]) => utag \in late')
    BY <1>1
  <2> SUFFICES ASSUME NEW t \in (1..MaxTag) \ late', client_temp'[t] # NULL
               PROVE  LET r == sess'[client_temp'[t]]
                      IN r.stage = "open" /\ ~ r.as_client /\ r.utag = t
    BY DEF TempOpen, World
  <2>1. CASE t = utag
    BY <1>2, <1>5, <1>6, <1>7, <2>l, <2>1
  <2>2. CASE t # utag
    <3> DEFINE b == client_temp[t]
    <3>1. client_temp'[t] = b /\ b # NULL
      BY <1>7, <2>2
    <3>2. b \in Addresses
      <4>1. t \in 0..MaxTag
        BY <1>3
      <4> QED
        BY <1>2, <3>1, <4>1 DEF World, Worlds, Block
    <3>3. sess[b].stage = "open" /\ ~ sess[b].as_client /\ sess[b].utag = t
      BY <2>l, <3>1 DEF Good, Sound, TempOpen, World
    <3>4. b # c
      <4>1. t # 0
        OBVIOUS
      <4> QED
        BY <1>f, <1>u, <2>2, <3>3, <4>1
    <3> HIDE DEF b
    <3> QED
      BY <1>6, <3>1, <3>2, <3>3, <3>4
  <2> QED
    BY <2>1, <2>2
<1> QED
  BY <1>8, <1>9, <1>11, <1>12, <1>13, <1>14 DEF Good, Sound

(* Steps that only forget waiting sessions, name sessions of users or give ids. *)
LEMMA SameGood ==
  ASSUME Good, World' \in Worlds, UNCHANGED <<sType2Session, listCache, target, gKey, late>>,
         \A a \in Addresses : /\ sess'[a].stage = sess[a].stage
                              /\ sess'[a].as_client = sess[a].as_client
                              /\ sess'[a].utag = sess[a].utag,
         \A t \in 1..MaxTag : client_temp'[t] \in {NULL, client_temp[t]},
         stale' \in Ways, displaced' \subseteq GuestIds, client_gid' \in [Ids -> Block],
         pending' \subseteq pending, verified' \in [Addresses -> GuestIds \cup {0}]
  PROVE  Good'
<1>1. PICK v \in Worlds : v = World'
  OBVIOUS
<1>2. /\ v.routes = sType2Session' /\ v.sess = sess' /\ v.temp = client_temp'
      /\ World.routes = sType2Session /\ World.sess = sess /\ World.temp = client_temp
  BY <1>1 DEF World
<1>3. Sound(v)
  BY <1>2, SameSound DEF Good
<1> QED
  BY <1>1, <1>3, BecameGood

LEMMA OtherGood ==
  ASSUME NEW c \in Addresses, NEW k \in Stypes
  PROVE  Good /\ sendToServer(c, k, other) => Good'
<1> SUFFICES ASSUME Good, sendToServer(c, k, other) PROVE Good'
  OBVIOUS
<1> DEFINE uid == sess[c].uid
           gid == sess[c].gid
<1>1. /\ client_uid' = IF uid # 0 THEN [client_uid EXCEPT ![uid] = c] ELSE client_uid
      /\ client_gid' = IF gid # 0 THEN [client_gid EXCEPT ![gid] = c] ELSE client_gid
      /\ displaced' \in {displaced, displaced \cup {gid}}
      /\ gid \notin GuestIds => displaced' = displaced
      /\ relay(k)
      /\ UNCHANGED <<sess, gKey, client_temp, pending, listCache, target, sType2Session,
                     do_connecting, verified, late>>
  BY DEF sendToServer, otherToServer
<1>2. World \in Worlds
  BY DEF Good, Sound
<1>3. uid \in 0..MaxTag /\ gid \in {0} \cup Ids /\ c \in Block
  BY <1>2 DEF World, Worlds, Object, Block
<1>4. uid # 0 => uid \in Ids
  BY <1>3 DEF Ids
<1> HIDE DEF uid, gid
<1>5. client_uid' \in [Ids -> Block] /\ client_gid' \in [Ids -> Block]
  BY <1>1, <1>2, <1>3, <1>4 DEF Good, RestTyped, World, Worlds
<1>6. World' \in Worlds
  BY <1>1, <1>2, <1>5 DEF World, Worlds
<1>7. stale' \in Ways /\ displaced' \subseteq GuestIds
  BY <1>1, Relayed DEF Good, RestTyped
<1> QED
  BY <1>1, <1>5, <1>6, <1>7, SameGood DEF Good, RestTyped

------------------------------------------------------------------------------
(* The answers.  m is a login that a server has to answer. *)
LEMMA Pended ==
  ASSUME Good, NEW m \in pending
  PROVE  m.tag \in 1..MaxTag /\ m.tag \in 0..MaxTag /\ client_temp[m.tag] \in Block
<1>1. m.tag \in 1..MaxTag
  BY DEF Good, RestTyped
<1>2. m.tag \in 0..MaxTag
  BY <1>1, GatewayAssumption
<1> QED
  BY <1>1, <1>2 DEF Good, Sound, World, Worlds

LEMMA RefusedGood == ASSUME NEW m \in pending PROVE Good /\ loginRefused(m) => Good'
<1> SUFFICES ASSUME Good, loginRefused(m) PROVE Good'
  OBVIOUS
<1>1. /\ client_temp' = [client_temp EXCEPT ![m.tag] = NULL] /\ pending' = pending \ {m}
      /\ UNCHANGED <<sess, listCache, target, sType2Session, do_connecting, client_uid, gKey,
                     client_gid, verified, late, displaced>>
  BY DEF loginRefused, past
<1>2. World \in Worlds
  BY DEF Good, Sound
<1>3. /\ client_temp' \in [0..MaxTag -> Block]
      /\ \A t \in 1..MaxTag : client_temp'[t] \in {NULL, client_temp[t]}
  <2>1. client_temp \in [0..MaxTag -> Block] /\ NULL \in Block
    BY <1>2 DEF World, Worlds, Block
  <2>2. \A t \in 1..MaxTag : t \in 0..MaxTag
    BY GatewayAssumption
  <2> QED
    BY <1>1, <2>1, <2>2, Pended
<1>4. World' \in Worlds
  BY <1>1, <1>2, <1>3 DEF World, Worlds
<1>5. stale' \in Ways
  BY Pended DEF loginRefused, call, Ways, Good, RestTyped
<1> QED
  BY <1>1, <1>3, <1>4, <1>5, SameGood DEF Good, RestTyped

(* Who waits under a tag loses its entry, and then only an older session of the *)
(* guest is closed.                                                            *)
LEMMA ForgottenSound ==
  ASSUME NEW w, Sound(w), NEW t \in 1..MaxTag
  PROVE  LET v == [w EXCEPT !.temp[t] = NULL]
         IN /\ Sound(v) /\ v.sess = w.sess /\ v.temp = [w.temp EXCEPT ![t] = NULL]
            /\ v.routes = w.routes /\ v.conn = w.conn
<1> DEFINE v == [w EXCEPT !.temp[t] = NULL]
<1>0. w \in Worlds
  BY DEF Sound
<1>1. w.temp \in [0..MaxTag -> Block] /\ NULL \in Block /\ t \in 0..MaxTag
      /\ \A u \in 1..MaxTag : u \in 0..MaxTag
  BY <1>0, GatewayAssumption DEF Worlds, Block
<1>2. /\ v \in Worlds /\ v.sess = w.sess /\ v.routes = w.routes /\ v.conn = w.conn
      /\ v.temp = [w.temp EXCEPT ![t] = NULL]
  BY <1>0, <1>1 DEF Worlds
<1> HIDE DEF v
<1>3. \A u \in 1..MaxTag : v.temp[u] \in {NULL, w.temp[u]}
  BY <1>1, <1>2
<1>4. Sound(v)
  BY <1>2, <1>3, SameSound
<1> QED
  BY <1>2, <1>4 DEF v

LEMMA NamedSound ==
  ASSUME NEW w, Sound(w), NEW c \in Addresses, NEW g \in GuestIds
  PROVE  LET v == [w EXCEPT !.sess[c].gid = g]
         IN /\ Sound(v) /\ v.sess = [w.sess EXCEPT ![c].gid = g] /\ v.temp = w.temp
            /\ v.routes = w.routes /\ v.conn = w.conn
<1> DEFINE s == [w.sess[c] EXCEPT !.gid = g]
           v == [w EXCEPT !.sess[c] = s]
<1>0. w \in Worlds
  BY DEF Sound
<1>1. w.sess[c] \in Object /\ w.sess \in [Addresses -> Object]
  BY <1>0 DEF Worlds
<1>2. /\ s \in Object /\ s.stage = w.sess[c].stage /\ s.as_client = w.sess[c].as_client
      /\ s.utag = w.sess[c].utag
  BY <1>1 DEF Object, Ids
<1>3. v = [w EXCEPT !.sess[c].gid = g] /\ [w.sess EXCEPT ![c] = s] = [w.sess EXCEPT ![c].gid = g]
  OBVIOUS
<1> HIDE DEF s
<1>4. /\ v \in Worlds /\ v.routes = w.routes /\ v.conn = w.conn /\ v.temp = w.temp
      /\ v.sess = [w.sess EXCEPT ![c] = s]
  BY <1>0, <1>1, <1>2 DEF Worlds
<1> HIDE DEF v
<1>5. \A b \in Addresses : /\ v.sess[b].stage = w.sess[b].stage
                           /\ v.sess[b].as_client = w.sess[b].as_client
                           /\ v.sess[b].utag = w.sess[b].utag
  BY <1>1, <1>2, <1>4
<1>6. Sound(v)
  BY <1>4, <1>5, SameSound
<1> QED
  BY <1>3, <1>4, <1>6

(* A method of a session that was destroyed is called: the one of the guest,   *)
(* or the one that waits under the tag.                                        *)
Crashed(m, g) ==
  \/ ~ Usable(client_gid[g]) /\ crash("client_gid", g)
  \/ ~ Usable(client_temp[m.tag]) /\ crash("client_temp", m.tag)

(* The session kicked for guest g is closed, then c becomes the guest. *)
Kicked(t, c, g) ==
  LET forgotten == [World EXCEPT !.temp[t] = NULL]
  IN IF onlineElsewhere(c, g) THEN close(forgotten, client_gid[g]) ELSE forgotten

LEMMA ConfirmedSound ==
  ASSUME Good, NEW m \in pending, NEW g \in GuestIds, client_temp[m.tag] # NULL,
         guestConfirmed(m, g), ~ Crashed(m, g)
  PROVE  LET c == client_temp[m.tag]
             w == Kicked(m.tag, c, g)
         IN /\ c \in Addresses /\ Usable(c) /\ Sound(w)
            /\ Sound(World') /\ sess' = [w.sess EXCEPT ![c].gid = g]
            /\ client_temp' = w.temp /\ sType2Session' = w.routes /\ do_connecting' = w.conn
            /\ onlineElsewhere(c, g) => client_gid[g] \in Addresses /\ Usable(client_gid[g])
            /\ client_gid' = [client_gid EXCEPT ![g] = c]
            /\ verified' = [verified EXCEPT ![c] = g]
            /\ pending' = pending \ {m}
            /\ UNCHANGED <<listCache, target, gKey, late, displaced, stale>>
            /\ sent' = {[to |-> c, what |-> "confirmed", id |-> m.tag]}
                 \cup (IF onlineElsewhere(c, g)
                       THEN {[to |-> client_gid[g], what |-> "kick", id |-> g]} ELSE {})
<1> DEFINE c == client_temp[m.tag]
           old == client_gid[g]
           kicked == onlineElsewhere(c, g)
           forgotten == [World EXCEPT !.temp[m.tag] = NULL]
           w == Kicked(m.tag, c, g)
           v == [w EXCEPT !.sess[c].gid = g]
<1>1. c \in Addresses
  BY Pended DEF Block
<1>2. g \in Ids /\ (kicked => old \in Addresses)
  <2>1. g \in Ids
    BY DEF Ids
  <2> QED
    BY <2>1 DEF onlineElsewhere, Good, RestTyped, Block
<1>3. /\ Usable(c) /\ (kicked => Usable(old)) /\ pending' = pending \ {m}
      /\ Become(v) /\ client_gid' = [client_gid EXCEPT ![g] = c]
      /\ verified' = [verified EXCEPT ![c] = g]
      /\ UNCHANGED <<listCache, target, gKey, late, displaced, stale>>
      /\ sent' = {[to |-> c, what |-> "confirmed", id |-> m.tag]}
           \cup (IF kicked THEN {[to |-> old, what |-> "kick", id |-> g]} ELSE {})
  BY DEF guestConfirmed, Crashed, Kicked, past
<1>4. Sound(forgotten) /\ forgotten.sess = sess
  <2>1. m.tag \in 1..MaxTag /\ Sound(World) /\ World.sess = sess
    BY Pended DEF Good, World
  <2> QED
    BY <2>1, ForgottenSound
<1>k. w = IF kicked THEN close(forgotten, old) ELSE forgotten
  BY DEF Kicked
<1> HIDE DEF forgotten, w, c, old, kicked
<1>5. Sound(w)
  BY <1>2, <1>3, <1>4, <1>k, CloseSound DEF Good, Usable
<1>6. /\ Sound(v) /\ v.sess = [w.sess EXCEPT ![c].gid = g] /\ v.temp = w.temp
      /\ v.routes = w.routes /\ v.conn = w.conn
  BY <1>1, <1>5, NamedSound
<1> HIDE DEF v
<1>7. World' = v
  BY <1>3, <1>6, BecomeIs DEF Sound
<1>8. /\ sess' = v.sess /\ client_temp' = v.temp
      /\ sType2Session' = v.routes /\ do_connecting' = v.conn
  BY <1>3 DEF Become
<1>9. Sound(World')
  BY <1>6, <1>7
<1> QED
  BY <1>1, <1>2, <1>3, <1>5, <1>6, <1>8, <1>9 DEF c, old, kicked, w

LEMMA CrashGood ==
  ASSUME NEW table, NEW key, <<table, key>> \in Ways PROVE Good /\ crash(table, key) => Good'
<1> SUFFICES ASSUME Good, crash(table, key) PROVE Good'
  OBVIOUS
<1>1. /\ stale' \in Ways /\ World' = World
      /\ UNCHANGED <<listCache, target, gKey, client_gid, pending, verified, late, displaced>>
  BY DEF crash, tables, World, past
<1> QED
  BY <1>1, BecameGood DEF Good, RestTyped

LEMMA ConfirmedGood ==
  ASSUME NEW m \in pending, NEW g \in GuestIds
  PROVE  Good /\ guestLoginRes(m, g) => Good'
<1> SUFFICES ASSUME Good, guestLoginRes(m, g) PROVE Good'
  OBVIOUS
<1>1. CASE client_temp[m.tag] = NULL
  <2>1. pending' = pending \ {m} /\ World' = World
        /\ UNCHANGED <<listCache, target, gKey, client_gid, verified, late, displaced, stale>>
    BY <1>1 DEF guestLoginRes, tables, World, past
  <2> QED
    BY <2>1, BecameGood DEF Good, RestTyped
<1>2. CASE Crashed(m, g)
  <2>1. <<"client_gid", g>> \in Ways /\ <<"client_temp", m.tag>> \in Ways
    BY Pended DEF Ways
  <2> QED
    BY <1>2, <2>1, CrashGood DEF Crashed
<1>3. CASE client_temp[m.tag] # NULL /\ ~ Crashed(m, g)
  <2> DEFINE c == client_temp[m.tag]
  <2>1. guestConfirmed(m, g)
    BY <1>3 DEF guestLoginRes
  <2>2. /\ c \in Addresses /\ Sound(World')
        /\ client_gid' = [client_gid EXCEPT ![g] = c]
        /\ verified' = [verified EXCEPT ![c] = g] /\ pending' = pending \ {m}
        /\ UNCHANGED <<listCache, target, gKey, late, displaced, stale>>
    BY <1>3, <2>1, ConfirmedSound
  <2> HIDE DEF c
  <2>3. g \in Ids /\ c \in Block
    BY <2>2 DEF Ids, Block
  <2>4. client_gid' \in [Ids -> Block] /\ verified' \in [Addresses -> GuestIds \cup {0}]
    BY <2>2, <2>3 DEF Good, RestTyped
  <2>5. PICK v : v = World'
    OBVIOUS
  <2> QED
    BY <2>2, <2>4, <2>5, BecameGood DEF Good, RestTyped
<1> QED
  BY <1>1, <1>2, <1>3

(* An answer that concerns no client, or none at all. *)
LEMMA NoneGood ==
  ASSUME Good, (\E a \in Addresses : otherRes(a))
                 \/ (\E m \in pending : unanswered(m)) \/ UNCHANGED vars
  PROVE  Good'
<1>1. /\ pending' \subseteq pending /\ World' = World
      /\ UNCHANGED <<listCache, target, gKey, client_gid, verified, late, displaced, stale>>
  BY DEF otherRes, unanswered, vars, tables, World, past
<1> QED
  BY <1>1, BecameGood DEF Good, RestTyped

------------------------------------------------------------------------------
(* The handle of a closed session, then its block, are given back. *)
LEMMA HandleClosedGood ==
  ASSUME NEW a \in Addresses PROVE Good /\ uv_close_oneClient(a) => Good'
<1> SUFFICES ASSUME Good, uv_close_oneClient(a) PROVE Good'
  OBVIOUS
<1> DEFINE s == HandleClosed(sess[a])
<1>1. /\ sess[a].stage = "shutdown" /\ sess' = [sess EXCEPT ![a] = s]
      /\ UNCHANGED <<listCache, target, tables, gKey, client_gid, pending, verified, late,
                     displaced, stale>>
  BY DEF uv_close_oneClient, past
<1>2. World \in Worlds /\ sess \in [Addresses -> Object]
  BY DEF Good, Sound, Worlds, World
<1>3. s \in Object /\ s.stage = "closing" /\ s.utag = sess[a].utag
      /\ s.as_client = sess[a].as_client
  BY <1>2 DEF HandleClosed, Object, Stages
<1> HIDE DEF s
<1>4. /\ sess' \in [Addresses -> Object] /\ sess'[a] = s
      /\ \A b \in Addresses : b # a => sess'[b] = sess[b]
  BY <1>1, <1>2, <1>3, Updated
<1>5. World' \in Worlds /\ sType2Session' = sType2Session /\ client_temp' = client_temp
  BY <1>1, <1>2, <1>4 DEF World, Worlds, tables
<1>6. Accounted(World)' /\ ServersKnown(World)'
  BY <1>1, <1>3, <1>4 DEF Good, Sound, Accounted, ServersKnown, World
<1>7. RoutesLead(World)'
  <2>1. \A k \in Stypes : sType2Session[k] # NULL => sType2Session[k] \in Addresses
    BY <1>2 DEF World, Worlds, Block
  <2>2. \A k \in Stypes : sType2Session[k] # NULL => sess[sType2Session[k]].stage = "open"
    BY DEF Good, Sound, RoutesLead, World
  <2> QED
    BY <1>1, <1>4, <1>5, <2>1, <2>2 DEF Good, Sound, RoutesLead, World
<1>8. TagsKnown(World)'
  <2>1. \A b \in Addresses : sess'[b].utag = sess[b].utag
    BY <1>3, <1>4
  <2> QED
    BY <1>1, <2>1 DEF Good, Sound, TagsKnown, World
<1>9. TempOpen(World)'
  <2>1. \A t \in 1..MaxTag : client_temp[t] # NULL => client_temp[t] \in Addresses
    <3>1. \A t \in 1..MaxTag : t \in 0..MaxTag
      BY GatewayAssumption
    <3> QED
      BY <1>2, <3>1 DEF World, Worlds, Block
  <2>2. \A t \in (1..MaxTag) \ late : client_temp[t] # NULL => client_temp[t] # a
    BY <1>1 DEF Good, Sound, TempOpen, World
  <2> QED
    BY <1>1, <1>4, <1>5, <2>1, <2>2 DEF Good, Sound, TempOpen, World
<1>10. RestTyped'
  BY <1>1 DEF Good, RestTyped
<1> QED
  BY <1>5, <1>6, <1>7, <1>8, <1>9, <1>10 DEF Good, Sound

LEMMA DestroyedGood ==
  ASSUME NEW a \in Addresses PROVE Good /\ uv_closeClient(a) => Good'
<1> SUFFICES ASSUME Good, uv_closeClient(a) PROVE Good'
  OBVIOUS
<1> DEFINE s == Freed(sess[a])
<1>1. /\ sess[a].stage = "closing" /\ sess' = [sess EXCEPT ![a] = s]
      /\ listCache' = Push(listCache, a)
      /\ UNCHANGED <<target, tables, gKey, client_gid, pending, verified, late, displaced, stale>>
  BY DEF uv_closeClient, past
<1>2. World \in Worlds /\ sess \in [Addresses -> Object] /\ Accounted(World)
  BY DEF Good, Sound, Worlds, World
<1>3. s \in Object /\ s.stage = "free" /\ s.utag = sess[a].utag
  BY <1>2 DEF Freed, Object, Stages
<1> HIDE DEF s
<1>4. /\ sess' \in [Addresses -> Object] /\ sess'[a] = s
      /\ \A b \in Addresses : b # a => sess'[b] = sess[b]
  BY <1>1, <1>2, <1>3, Updated
<1>5. World' \in Worlds /\ sType2Session' = sType2Session /\ client_temp' = client_temp
  BY <1>1, <1>2, <1>4 DEF World, Worlds, tables
<1>6. /\ listCache' \in Seq(Addresses) /\ Distinct(listCache')
      /\ \A b : Listed(b, listCache') <=> b = a \/ Listed(b, listCache)
  <2>1. listCache \in Seq(Addresses) /\ Distinct(listCache) /\ ~ Listed(a, listCache)
    BY <1>1, <1>2 DEF Good, RestTyped, Accounted, World
  <2> QED
    BY <1>1, <2>1, PushList
<1>7. Accounted(World)' /\ ServersKnown(World)'
  <2>1. Accounted(World)'
    BY <1>2, <1>3, <1>4, <1>6 DEF Accounted, World
  <2>2. ServersKnown(World)'
    BY <1>1, <1>3, <1>4 DEF Good, Sound, ServersKnown, World
  <2> QED
    BY <2>1, <2>2
<1>8. RoutesLead(World)'
  <2>1. \A k \in Stypes : sType2Session[k] # NULL => sType2Session[k] \in Addresses
    BY <1>2 DEF World, Worlds, Block
  <2>2. \A k \in Stypes : sType2Session[k] # NULL => sess[sType2Session[k]].stage = "open"
    BY DEF Good, Sound, RoutesLead, World
  <2> QED
    BY <1>1, <1>4, <1>5, <2>1, <2>2 DEF Good, Sound, RoutesLead, World
<1>9. TagsKnown(World)'
  <2>1. \A b \in Addresses : sess'[b].utag = sess[b].utag
    BY <1>3, <1>4
  <2> QED
    BY <1>1, <2>1 DEF Good, Sound, TagsKnown, World
<1>10. TempOpen(World)'
  <2>1. \A t \in 1..MaxTag : client_temp[t] # NULL => client_temp[t] \in Addresses
    <3>1. \A t \in 1..MaxTag : t \in 0..MaxTag
      BY GatewayAssumption
    <3> QED
      BY <1>2, <3>1 DEF World, Worlds, Block
  <2>2. \A t \in (1..MaxTag) \ late : client_temp[t] # NULL => client_temp[t] # a
    BY <1>1 DEF Good, Sound, TempOpen, World
  <2> QED
    BY <1>1, <1>4, <1>5, <2>1, <2>2 DEF Good, Sound, TempOpen, World
<1>11. RestTyped'
  BY <1>1, <1>6 DEF Good, RestTyped
<1> QED
  BY <1>5, <1>7, <1>8, <1>9, <1>10, <1>11 DEF Good, Sound

LEMMA NextGood == Good /\ [Next]_vars => Good'
<1> SUFFICES ASSUME Good, [Next]_vars PROVE Good'
  OBVIOUS
<1>1. CASE uv_startTcpEvent
  BY <1>1, AcceptGood
<1>2. CASE checkConnected
  BY <1>2, TriedGood
<1>3. ASSUME NEW a \in Addresses, NEW status \in {0, 1}, after_connect(a, status) PROVE Good'
  BY <1>3, AfterConnectGood
<1>4. ASSUME NEW a \in Addresses, readError(a) PROVE Good'
  BY <1>4, ReadErrorGood
<1>5. ASSUME NEW a \in Addresses, illegalFrame(a) PROVE Good'
  BY <1>5, IllegalFrameGood
<1>6. ASSUME NEW a \in Addresses, NEW k \in Stypes, NEW ctype \in Commands,
             sendToServer(a, k, ctype)
      PROVE  Good'
  BY <1>6, LoginGood, OtherGood
<1>7. ASSUME NEW a \in Addresses, uv_close_oneClient(a) PROVE Good'
  BY <1>7, HandleClosedGood
<1>8. ASSUME NEW a \in Addresses, uv_closeClient(a) PROVE Good'
  BY <1>8, DestroyedGood
<1>9. ASSUME NEW m \in pending, loginRefused(m) PROVE Good'
  BY <1>9, RefusedGood
<1>10. ASSUME NEW m \in pending, NEW g \in GuestIds, guestLoginRes(m, g) PROVE Good'
  BY <1>10, ConfirmedGood
<1>11. CASE (\E a \in Addresses : otherRes(a)) \/ (\E m \in pending : unanswered(m))
            \/ UNCHANGED vars
  BY <1>11, NoneGood
<1> QED
  BY <1>1, <1>2, <1>3, <1>4, <1>5, <1>6, <1>7, <1>8, <1>9, <1>10, <1>11 DEF Next

------------------------------------------------------------------------------
(* Each action keeps GuestsKnown. *)
(* A session is nobody's, or who it was and as closed as it was. *)
KeepsGuests ==
  /\ UNCHANGED client_gid /\ displaced \subseteq displaced'
  /\ \A a \in Addresses :
       \/ verified'[a] = 0
       \/ /\ verified'[a] = verified[a]
          /\ sess'[a].stage \in {"open", "connecting"} => sess[a].stage \in {"open", "connecting"}

LEMMA KeptGuests == ASSUME GuestsKnown, KeepsGuests PROVE GuestsKnown'
BY DEF GuestsKnown, KeepsGuests

(* A session does not open that was closed. *)
SameGuest(a) ==
  sess'[a].stage \in {"open", "connecting"} => sess[a].stage \in {"open", "connecting"}

LEMMA SameGuestsKept ==
  ASSUME UNCHANGED <<client_gid, verified, displaced>>, \A a \in Addresses : SameGuest(a)
  PROVE  KeepsGuests
BY DEF SameGuest, KeepsGuests

LEMMA CloseKeeps ==
  ASSUME NEW w \in Worlds, NEW a \in Addresses
  PROVE  LET r == close(w, a)
         IN /\ r \in Worlds /\ isShotdown(r.sess[a])
            /\ \A b \in Addresses : b # a => r.sess[b] = w.sess[b]
<1> DEFINE r == close(w, a)
<1>1. CASE isShotdown(w.sess[a])
  BY <1>1 DEF close
<1>2. CASE ~ isShotdown(w.sess[a])
  BY <1>2, Closed
<1> QED
  BY <1>1, <1>2

LEMMA TakenGuests ==
  ASSUME Good, GuestsKnown, uv_startTcpEvent \/ checkConnected PROVE GuestsKnown'
<1>1. CASE uv_startTcpEvent
  <2> DEFINE a == Head(listCache)
             s == Created("open", FALSE)
  <2>1. /\ sess' = [sess EXCEPT ![a] = s] /\ verified' = [verified EXCEPT ![a] = 0]
        /\ client_gid' = client_gid /\ displaced' = displaced
    BY <1>1 DEF uv_startTcpEvent, past
  <2>2. /\ sess \in [Addresses -> Object] /\ verified \in [Addresses -> GuestIds \cup {0}]
    BY DEF Good, RestTyped, Sound, Worlds, World
  <2> HIDE DEF a, s
  <2>3. ASSUME NEW b \in Addresses
        PROVE  verified'[b] = 0 \/ (verified'[b] = verified[b] /\ sess'[b] = sess[b])
    BY <2>1, <2>2
  <2>4. KeepsGuests
    BY <2>1, <2>3 DEF KeepsGuests
  <2> QED
    BY <2>4, KeptGuests
<1>2. CASE checkConnected
  <2>a. PICK missing \in SUBSET Stypes : \E block \in [missing -> Addresses] :
          \E stage \in [missing -> {"connecting", "orphan"}] : Tries(missing, block, stage)
    BY <1>2, Tried
  <2>b. PICK block \in [missing -> Addresses] :
          \E stage \in [missing -> {"connecting", "orphan"}] : Tries(missing, block, stage)
    BY <2>a
  <2>c. PICK stage \in [missing -> {"connecting", "orphan"}] : Tries(missing, block, stage)
    BY <2>b
  <2>1. client_gid' = client_gid /\ displaced' = displaced
    BY <1>2 DEF checkConnected, past
  <2>2. ASSUME NEW b \in Addresses
        PROVE  verified'[b] = 0 \/ (verified'[b] = verified[b] /\ sess'[b] = sess[b])
    <3>1. CASE \E k \in missing : block[k] = b
      <4>1. PICK k \in missing : block[k] = b
        BY <3>1
      <4> QED
        BY <2>c, <4>1 DEF Tries
    <3>2. CASE \A k \in missing : block[k] # b
      BY <2>c, <3>2 DEF Tries
    <3> QED
      BY <3>1, <3>2
  <2>3. KeepsGuests
    BY <2>1, <2>2 DEF KeepsGuests
  <2> QED
    BY <2>3, KeptGuests
<1> QED
  BY <1>1, <1>2

(* A connection that was on its way opens, or a session closes. *)
LEMMA ClosedGuests ==
  ASSUME Good, GuestsKnown, NEW a \in Addresses,
         \/ \E status \in {0, 1} : after_connect(a, status)
         \/ readError(a) \/ illegalFrame(a) \/ uv_close_oneClient(a) \/ uv_closeClient(a)
  PROVE  GuestsKnown'
<1>0. World \in Worlds /\ World.sess = sess /\ sess \in [Addresses -> Object]
  BY DEF Good, Sound, World, Worlds
<1>1. UNCHANGED <<client_gid, verified, displaced>>
  BY DEF after_connect, readError, illegalFrame, uv_close_oneClient, uv_closeClient, past
<1>2. ASSUME NEW status \in {0, 1}, after_connect(a, status)
      PROVE  \A b \in Addresses : SameGuest(b)
  <2> DEFINE k == target[a]
             failed == Failed(World, a, k)
             done == Opened(World, a, k)
  <2>1. /\ sess[a].stage \in {"connecting", "cancelled"} /\ k \in Stypes
        /\ status = 0 => sess[a].stage = "connecting"
        /\ Become(IF status = 0 THEN done ELSE close(failed, a))
    BY <1>2 DEF after_connect, World, Good, Sound, ServersKnown, Opened, Failed
  <2> HIDE DEF k
  <2>2. \A b \in Addresses : b # a => done.sess[b] = sess[b]
    BY <1>0, <2>1, OpenedSessions
  <2> HIDE DEF done
  <2>3. failed \in Worlds /\ \A b \in Addresses : b # a => failed.sess[b] = World.sess[b]
    BY <1>0, <2>1, FailedParts
  <2> HIDE DEF failed
  <2>4. CASE status = 0
    BY <2>1, <2>2, <2>4 DEF Become, SameGuest
  <2>5. CASE status # 0
    <3>1. /\ sess' = close(failed, a).sess /\ isShotdown(sess'[a])
          /\ \A b \in Addresses : b # a => sess'[b] = sess[b]
      BY <1>0, <2>1, <2>3, <2>5, CloseKeeps DEF Become
    <3> QED
      BY <3>1 DEF SameGuest, isShotdown
  <2> QED
    BY <2>4, <2>5
<1>3. ASSUME readError(a) PROVE \A b \in Addresses : SameGuest(b)
  <2> DEFINE v == [World EXCEPT !.sess[a] = ReadEnded(@)]
  <2>1. v \in Worlds /\ \A b \in Addresses : b # a => v.sess[b] = sess[b]
    BY <1>0, ReadEndedSound DEF Good, Sound
  <2>2. sess' = close(v, a).sess
    BY <1>3 DEF readError, Become
  <2> HIDE DEF v
  <2> QED
    BY <2>1, <2>2, CloseKeeps DEF SameGuest, isShotdown
<1>4. ASSUME illegalFrame(a) PROVE \A b \in Addresses : SameGuest(b)
  <2>1. sess' = close(World, a).sess
    BY <1>4 DEF illegalFrame, Become
  <2> QED
    BY <1>0, <2>1, CloseKeeps DEF SameGuest, isShotdown
<1>5. ASSUME uv_close_oneClient(a) \/ uv_closeClient(a)
      PROVE  \A b \in Addresses : SameGuest(b)
  <2>1. /\ sess' = [sess EXCEPT ![a] = HandleClosed(@)] \/ sess' = [sess EXCEPT ![a] = Freed(@)]
        /\ sess[a].stage \in {"shutdown", "closing"}
    BY <1>5 DEF uv_close_oneClient, uv_closeClient
  <2>2. \A b \in Addresses : b # a => sess'[b] = sess[b]
    BY <1>0, <2>1
  <2>3. sess'[a].stage \in {"closing", "free"}
    <3>1. sess'[a] = HandleClosed(sess[a]) \/ sess'[a] = Freed(sess[a])
      BY <1>0, <2>1
    <3>2. HandleClosed(sess[a]).stage = "closing" /\ Freed(sess[a]).stage = "free"
      BY <1>0 DEF HandleClosed, Freed, Object
    <3> QED
      BY <3>1, <3>2
  <2> QED
    BY <2>2, <2>3 DEF SameGuest
<1>6. \A b \in Addresses : SameGuest(b)
  BY <1>2, <1>3, <1>4, <1>5
<1> QED
  BY <1>1, <1>6, SameGuestsKept, KeptGuests

LEMMA LoginGuests ==
  ASSUME Good, GuestsKnown, NEW c \in Addresses, NEW k \in Stypes,
         NEW ctype \in Commands \ {other}, sendToServer(c, k, ctype)
  PROVE  GuestsKnown'
<1> DEFINE first == sess[c].utag = 0
           utag == IF first THEN gKey ELSE sess[c].utag
           gid == IF first /\ ctype = eGuestLoginReq THEN utag ELSE sess[c].gid
           uid == IF first /\ ctype = eLoginReq THEN utag ELSE sess[c].uid
           s == [sess[c] EXCEPT !.utag = utag, !.gid = gid, !.uid = uid]
<1>1. loginToServer(c, k, ctype) /\ verified' = verified
  BY DEF sendToServer
<1>2. client_gid' = client_gid /\ displaced' = displaced
  BY <1>1 DEF loginToServer
<1>3. sess' = [sess EXCEPT ![c] = s]
  BY <1>1 DEF loginToServer
<1>4. sess \in [Addresses -> Object] /\ sess[c] \in Object
  BY DEF Good, Sound, Worlds, World
<1> HIDE DEF first, utag, gid, uid
<1>5. s.stage = sess[c].stage
  BY <1>4 DEF Object
<1> HIDE DEF s
<1>6. sess'[c] = s /\ \A b \in Addresses : b # c => sess'[b] = sess[b]
  BY <1>3, <1>4
<1>7. \A b \in Addresses : SameGuest(b)
  BY <1>5, <1>6 DEF SameGuest
<1> QED
  BY <1>1, <1>2, <1>7, SameGuestsKept, KeptGuests

(* Another request takes a guest's entry from its session only when it says so. *)
LEMMA OtherGuests ==
  ASSUME Good, GuestsKnown, NEW c \in Addresses, NEW k \in Stypes, sendToServer(c, k, other)
  PROVE  GuestsKnown'
<1> DEFINE gid == sess[c].gid
<1>1. /\ client_gid' = IF gid # 0 THEN [client_gid EXCEPT ![gid] = c] ELSE client_gid
      /\ displaced' = IF gid \in GuestIds /\ client_gid[gid] \notin {NULL, c}
                      THEN displaced \cup {gid} ELSE displaced
      /\ sess' = sess /\ verified' = verified
  BY DEF sendToServer, otherToServer
<1>2. client_gid \in [Ids -> Block] /\ GuestIds \subseteq Ids /\ NULL \notin Addresses
      /\ \A a \in Addresses : verified[a] \in GuestIds \cup {0}
  BY GatewayAssumption DEF Good, RestTyped, Ids
<1> HIDE DEF gid
<1>3. ASSUME NEW a \in Addresses, sess[a].stage \in {"open", "connecting"},
             verified[a] \notin {0} \cup displaced'
      PROVE  client_gid'[verified[a]] = a
  <2>1. client_gid[verified[a]] = a /\ verified[a] \in GuestIds /\ verified[a] \in Ids
    BY <1>1, <1>2, <1>3 DEF GuestsKnown
  <2>2. CASE gid = verified[a]
    BY <1>1, <1>2, <1>3, <2>1, <2>2
  <2>3. CASE gid # verified[a]
    BY <1>1, <1>2, <2>1, <2>3
  <2> QED
    BY <2>2, <2>3
<1> QED
  BY <1>1, <1>3 DEF GuestsKnown

(* What the kick of a confirmed login leaves. *)
LEMMA KickedKeeps ==
  ASSUME Good, NEW t \in 1..MaxTag, NEW c, NEW g \in GuestIds,
         onlineElsewhere(c, g) => client_gid[g] \in Addresses
  PROVE  LET w == Kicked(t, c, g)
         IN /\ onlineElsewhere(c, g) => isShotdown(w.sess[client_gid[g]])
            /\ \A b \in Addresses : (onlineElsewhere(c, g) => client_gid[g] # b)
                                       => w.sess[b] = sess[b]
<1> DEFINE forgotten == [World EXCEPT !.temp[t] = NULL]
           w == Kicked(t, c, g)
           old == client_gid[g]
<1>1. Sound(forgotten) /\ forgotten.sess = World.sess
  BY ForgottenSound DEF Good
<1>2. forgotten \in Worlds /\ forgotten.sess = sess
  BY <1>1 DEF Sound, World
<1>3. w = IF onlineElsewhere(c, g) THEN close(forgotten, old) ELSE forgotten
  BY DEF Kicked
<1> HIDE DEF forgotten, w, old
<1>4. CASE onlineElsewhere(c, g)
  <2>1. old \in Addresses
    BY <1>4 DEF old
  <2>2. /\ isShotdown(w.sess[old])
        /\ \A b \in Addresses : b # old => w.sess[b] = sess[b]
    BY <1>2, <1>3, <1>4, <2>1, CloseKeeps
  <2> QED
    BY <1>4, <2>2 DEF w, old
<1>5. CASE ~ onlineElsewhere(c, g)
  <2>1. w.sess = sess
    BY <1>2, <1>3, <1>5
  <2> QED
    BY <1>5, <2>1 DEF w
<1> QED
  BY <1>4, <1>5

LEMMA ConfirmedGuests ==
  ASSUME Good, GuestsKnown, NEW m \in pending, NEW g \in GuestIds, guestLoginRes(m, g)
  PROVE  GuestsKnown'
<1>1. CASE client_temp[m.tag] = NULL \/ Crashed(m, g)
  <2>1. sess' = sess /\ UNCHANGED <<client_gid, verified, displaced>>
    BY <1>1 DEF guestLoginRes, Crashed, crash, past
  <2>2. \A b \in Addresses : SameGuest(b)
    BY <2>1 DEF SameGuest
  <2> QED
    BY <2>1, <2>2, SameGuestsKept, KeptGuests
<1>2. CASE client_temp[m.tag] # NULL /\ ~ Crashed(m, g)
  <2> DEFINE c == client_temp[m.tag]
             w == Kicked(m.tag, c, g)
  <2>1. guestConfirmed(m, g)
    BY <1>2 DEF guestLoginRes
  <2>2. /\ c \in Addresses /\ Sound(w) /\ sess' = [w.sess EXCEPT ![c].gid = g]
        /\ onlineElsewhere(c, g) => client_gid[g] \in Addresses
        /\ client_gid' = [client_gid EXCEPT ![g] = c]
        /\ verified' = [verified EXCEPT ![c] = g] /\ displaced' = displaced
    BY <1>2, <2>1, ConfirmedSound
  <2>3. /\ onlineElsewhere(c, g) => isShotdown(w.sess[client_gid[g]])
        /\ \A b \in Addresses : (onlineElsewhere(c, g) => client_gid[g] # b)
                                   => w.sess[b] = sess[b]
    <3>1. m.tag \in 1..MaxTag
      BY Pended
    <3> QED
      BY <2>2, <3>1, KickedKeeps
  <2>5. /\ w.sess \in [Addresses -> Object] /\ client_gid \in [Ids -> Block]
        /\ verified \in [Addresses -> GuestIds \cup {0}]
        /\ GuestIds \subseteq Ids /\ NULL \notin Addresses
    BY <2>2, GatewayAssumption DEF Good, RestTyped, Sound, Worlds, Ids
  <2>e. onlineElsewhere(c, g) <=> client_gid[g] # NULL /\ client_gid[g] # c
    BY DEF onlineElsewhere
  <2> HIDE DEF w, c
  <2>6. /\ \A b \in Addresses : b # c => sess'[b] = w.sess[b]
        /\ verified'[c] = g /\ \A b \in Addresses : b # c => verified'[b] = verified[b]
        /\ client_gid'[g] = c /\ \A i \in Ids : i # g => client_gid'[i] = client_gid[i]
    BY <2>2, <2>5
  <2>7. ASSUME NEW a \in Addresses, sess'[a].stage \in {"open", "connecting"},
               verified'[a] \notin {0} \cup displaced
        PROVE  client_gid'[verified'[a]] = a
    <3>1. CASE a = c
      BY <2>6, <3>1
    <3>2. CASE a # c
      <4>1. sess'[a] = w.sess[a] /\ verified'[a] = verified[a]
        BY <2>6, <3>2
      <4>2. sess'[a] = sess[a] /\ (onlineElsewhere(c, g) => client_gid[g] # a)
        BY <2>3, <2>7, <4>1 DEF isShotdown
      <4>3. client_gid[verified[a]] = a /\ verified[a] \in Ids
        BY <2>5, <2>7, <4>1, <4>2 DEF GuestsKnown
      <4>4. verified[a] # g
        BY <2>5, <2>e, <3>2, <4>2, <4>3
      <4> QED
        BY <2>6, <4>1, <4>3, <4>4
    <3> QED
      BY <3>1, <3>2
  <2> QED
    BY <2>2, <2>7 DEF GuestsKnown
<1> QED
  BY <1>1, <1>2

LEMMA NextGuests == ASSUME Good, GuestsKnown, [Next]_vars PROVE GuestsKnown'
<1>1. CASE uv_startTcpEvent \/ checkConnected
  BY <1>1, TakenGuests
<1>2. ASSUME NEW a \in Addresses,
             \/ \E status \in {0, 1} : after_connect(a, status)
             \/ readError(a) \/ illegalFrame(a) \/ uv_close_oneClient(a) \/ uv_closeClient(a)
      PROVE  GuestsKnown'
  BY <1>2, ClosedGuests
<1>3. ASSUME NEW a \in Addresses, NEW k \in Stypes, NEW ctype \in Commands,
             sendToServer(a, k, ctype)
      PROVE  GuestsKnown'
  BY <1>3, LoginGuests, OtherGuests
<1>4. ASSUME NEW m \in pending, NEW g \in GuestIds, guestLoginRes(m, g) PROVE GuestsKnown'
  BY <1>4, ConfirmedGuests
<1>5. CASE \/ \E a \in Addresses : otherRes(a)
           \/ \E m \in pending : loginRefused(m) \/ unanswered(m)
           \/ UNCHANGED vars
  <2>1. sess' = sess /\ UNCHANGED <<client_gid, verified, displaced>>
    BY <1>5 DEF otherRes, loginRefused, unanswered, vars, past
  <2>2. \A b \in Addresses : SameGuest(b)
    BY <2>1 DEF SameGuest
  <2> QED
    BY <2>1, <2>2, SameGuestsKept, KeptGuests
<1> QED
  BY <1>1, <1>2, <1>3, <1>4, <1>5 DEF Next

------------------------------------------------------------------------------
(* Each action keeps NeverTwo. *)
LinksGood == Good /\ NeverTwo

(* The same connections are live, and none has opened. *)
SameLive(a) == \A k \in Stypes :
  /\ (Live(a, k))' <=> Live(a, k)
  /\ (Live(a, k))' /\ sess'[a].stage = "open" => sess[a].stage = "open"

LEMMA SameLinks ==
  ASSUME NeverTwo, UNCHANGED <<sType2Session, do_connecting>>,
         \A a \in Addresses : SameLive(a)
  PROVE  NeverTwo'
BY DEF NeverTwo, SameLive

SameServer(a) ==
  /\ sess'[a].as_client = sess[a].as_client
  /\ \/ sess'[a].stage = sess[a].stage
     \/ ~ sess[a].as_client
     \/ sess[a].stage = "connecting" /\ sess'[a].stage = "cancelled"
     \/ /\ sess[a].stage \in {"shutdown", "closing"}
        /\ sess'[a].stage \in {"shutdown", "closing", "free"}

LEMMA SameServers ==
  ASSUME NeverTwo, UNCHANGED <<target, sType2Session, do_connecting>>,
         \A a \in Addresses : SameServer(a)
  PROVE  NeverTwo'
<1>1. ASSUME NEW a \in Addresses PROVE SameLive(a)
  BY DEF SameLive, SameServer, Live, ServerConnection
<1> QED
  BY <1>1, SameLinks

(* A client takes a free block: no connection was there, and none is. *)
LEMMA AcceptLinks == ASSUME LinksGood, uv_startTcpEvent PROVE NeverTwo'
<1> DEFINE a == Head(listCache)
           s == Created("open", FALSE)
<1>1. /\ listCache \in Seq(Addresses) /\ listCache # <<>> /\ Accounted(World)
      /\ sess \in [Addresses -> Object] /\ target \in [Addresses -> Stypes \cup {NULL}]
  BY DEF LinksGood, Good, RestTyped, Sound, Worlds, World, uv_startTcpEvent
<1>2. a \in Addresses /\ Listed(a, listCache)
  BY <1>1, PopList DEF Accounted
<1>3. /\ sess' = [sess EXCEPT ![a] = s] /\ target' = [target EXCEPT ![a] = NULL]
      /\ UNCHANGED <<sType2Session, do_connecting>>
  BY DEF uv_startTcpEvent, tables
<1>4. ~ s.as_client
  BY DEF Created
<1>5. sess[a].stage = "free"
  BY <1>1, <1>2 DEF Accounted, World
<1> HIDE DEF a, s
<1>6. /\ sess'[a] = s
      /\ \A b \in Addresses : b # a => sess'[b] = sess[b] /\ target'[b] = target[b]
  BY <1>1, <1>2, <1>3
<1>7. ASSUME NEW b \in Addresses PROVE SameLive(b)
  <2>1. CASE b = a
    BY <1>4, <1>5, <1>6, <2>1 DEF SameLive, Live, ServerConnection
  <2>2. CASE b # a
    BY <1>6, <2>2 DEF SameLive, Live, ServerConnection
  <2> QED
    BY <2>1, <2>2
<1> QED
  BY <1>3, <1>7, SameLinks DEF LinksGood

(* Every server that is missing gets one connection, in a block of its own. *)
LEMMA TriedLinks == ASSUME LinksGood, checkConnected PROVE NeverTwo'
<1>a. PICK missing \in SUBSET Stypes : \E block \in [missing -> Addresses] :
        \E stage \in [missing -> {"connecting", "orphan"}] : Tries(missing, block, stage)
  BY Tried DEF LinksGood
<1>b. PICK block \in [missing -> Addresses] :
        \E stage \in [missing -> {"connecting", "orphan"}] : Tries(missing, block, stage)
  BY <1>a
<1>c. PICK stage \in [missing -> {"connecting", "orphan"}] : Tries(missing, block, stage)
  BY <1>b
<1>1. /\ missing = unconnected
      /\ \A k \in missing : /\ Listed(block[k], listCache)
                            /\ sess'[block[k]] = Created(stage[k], TRUE)
                            /\ target'[block[k]] = k
      /\ \A b \in Addresses : (\A k \in missing : block[k] # b) =>
           sess'[b] = sess[b] /\ target'[b] = target[b]
  BY <1>c DEF Tries
<1>2. /\ sType2Session' = sType2Session
      /\ do_connecting' = [k \in Stypes |-> do_connecting[k] \/ k \in missing]
      /\ \A k \in missing : ~ do_connecting[k]
  BY <1>1 DEF checkConnected, unconnected
<1>3. Accounted(World) /\ World.sess = sess
  BY DEF LinksGood, Good, Sound, World
<1>4. ASSUME NEW k \in missing
      PROVE  LET b == block[k]
             IN /\ b \in Addresses /\ sess[b].stage = "free" /\ target'[b] = k
                /\ sess'[b].as_client /\ sess'[b].stage \in {"connecting", "orphan"}
  <2>1. block[k] \in Addresses /\ stage[k] \in {"connecting", "orphan"}
    OBVIOUS
  <2>2. sess[block[k]].stage = "free"
    BY <1>1, <1>3, <2>1 DEF Accounted
  <2>3. sess'[block[k]] = Created(stage[k], TRUE) /\ target'[block[k]] = k
    BY <1>1
  <2>4. Created(stage[k], TRUE).as_client /\ Created(stage[k], TRUE).stage = stage[k]
    BY DEF Created
  <2> QED
    BY <2>1, <2>2, <2>3, <2>4
<1>5. ASSUME NEW a \in Addresses, NEW k \in Stypes, Live(a, k) PROVE (Live(a, k))'
  <2>1. sess[a].stage # "free"
    BY <1>5 DEF Live
  <2>2. \A j \in missing : block[j] # a
    BY <1>4, <2>1
  <2> QED
    BY <1>1, <1>5, <2>2 DEF Live, ServerConnection
<1>6. ASSUME NEW a \in Addresses, NEW k \in Stypes, (Live(a, k))'
      PROVE  IF k \in missing THEN a = block[k]
             ELSE Live(a, k) /\ sess'[a] = sess[a]
  <2>1. CASE \A j \in missing : block[j] # a
    <3>1. Live(a, k) /\ sess'[a] = sess[a]
      BY <1>1, <1>6, <2>1 DEF Live, ServerConnection
    <3>2. do_connecting[k]
      BY <3>1 DEF LinksGood, NeverTwo
    <3> QED
      BY <1>2, <3>1, <3>2
  <2>2. CASE \E j \in missing : block[j] = a
    <3>1. PICK j \in missing : block[j] = a
      BY <2>2
    <3>2. j = k
      BY <1>4, <1>6, <3>1 DEF Live, ServerConnection
    <3> QED
      BY <3>1, <3>2
  <2> QED
    BY <2>1, <2>2
<1>7. ASSUME NEW k \in missing PROVE (Live(block[k], k))'
  BY <1>4 DEF Live, ServerConnection
<1>8. NeverTwo'
  <2> SUFFICES ASSUME NEW k \in Stypes, NEW a \in Addresses, (Live(a, k))'
               PROVE  /\ do_connecting'[k]
                      /\ sess'[a].stage = "open" => sType2Session'[k] = a
                      /\ \A b \in Addresses : (Live(b, k))' => b = a
    BY DEF NeverTwo
  <2>1. CASE k \in missing
    <3>1. a = block[k] /\ \A b \in Addresses : (Live(b, k))' => b = a
      BY <1>6, <2>1
    <3>2. sess'[a].stage # "open"
      BY <1>4, <2>1, <3>1
    <3> QED
      BY <1>2, <2>1, <3>1, <3>2
  <2>2. CASE k \notin missing
    <3>1. /\ Live(a, k) /\ sess'[a] = sess[a]
          /\ \A b \in Addresses : (Live(b, k))' => Live(b, k)
      BY <1>6, <2>2
    <3> QED
      BY <1>2, <3>1 DEF LinksGood, NeverTwo
  <2> QED
    BY <2>1, <2>2
<1> QED
  BY <1>8

(* The connection a of server k leaves; the flags of the others stay.          *)
Leaves(a, k) ==
  /\ Live(a, k) /\ sess'[a].stage \in {"shutdown", "closing"}
  /\ \A b \in Addresses : b # a => /\ sess'[b].stage = sess[b].stage
                                   /\ sess'[b].as_client = sess[b].as_client
  /\ \A j \in Stypes : j # k => /\ do_connecting'[j] = do_connecting[j]
                                /\ sType2Session'[j] = sType2Session[j]
  /\ UNCHANGED target

LEMMA LeftLinks ==
  ASSUME NeverTwo, NEW a \in Addresses, NEW k \in Stypes, Leaves(a, k)
  PROVE  NeverTwo'
<1>1. \A j \in Stypes : ~ (Live(a, j))'
  BY DEF Leaves, Live
<1>2. ASSUME NEW b \in Addresses, b # a, NEW j \in Stypes
      PROVE  (Live(b, j))' <=> Live(b, j)
  BY <1>2 DEF Leaves, Live, ServerConnection
<1>3. \A b \in Addresses : ~ (Live(b, k))'
  BY <1>1, <1>2 DEF Leaves, NeverTwo
<1>4. \A j \in Stypes : j # k => ~ Live(a, j)
  BY DEF Leaves, Live, ServerConnection
<1>5. NeverTwo'
  <2> SUFFICES ASSUME NEW j \in Stypes, NEW b \in Addresses, (Live(b, j))'
               PROVE  /\ do_connecting'[j]
                      /\ sess'[b].stage = "open" => sType2Session'[j] = b
                      /\ \A d \in Addresses : (Live(d, j))' => d = b
    BY DEF NeverTwo
  <2>1. j # k /\ b # a /\ Live(b, j)
    BY <1>1, <1>2, <1>3
  <2>2. \A d \in Addresses : (Live(d, j))' => d = b
    BY <1>1, <1>2, <2>1 DEF NeverTwo
  <2> QED
    BY <2>1, <2>2 DEF Leaves, NeverTwo
<1> QED
  BY <1>5

(* A close in the middle of a step: w is a world with the connections of the   *)
(* state before, and what the close makes of it those of the state after.      *)
Links(w) == [live |-> [b \in Addresses |-> [stage |-> w.sess[b].stage,
                                            as_client |-> w.sess[b].as_client]],
             routes |-> w.routes, conn |-> w.conn]

LEMMA LinksAre ==
  ASSUME NEW v, NEW w, Links(v) = Links(w)
  PROVE  /\ v.routes = w.routes /\ v.conn = w.conn
         /\ \A b \in Addresses : /\ v.sess[b].stage = w.sess[b].stage
                                 /\ v.sess[b].as_client = w.sess[b].as_client
<1>1. /\ Links(v).live = Links(w).live /\ Links(v).routes = Links(w).routes
      /\ Links(v).conn = Links(w).conn
  OBVIOUS
<1>2. ASSUME NEW b \in Addresses
      PROVE  [stage |-> v.sess[b].stage, as_client |-> v.sess[b].as_client]
               = [stage |-> w.sess[b].stage, as_client |-> w.sess[b].as_client]
  <2>1. Links(v).live[b] = Links(w).live[b]
    BY <1>1
  <2> QED
    BY <2>1 DEF Links
<1> QED
  BY <1>1, <1>2 DEF Links

(* Whatever session is closed, no flag goes that another connection needs. *)
LEMMA CloseLinks ==
  ASSUME LinksGood, NEW a \in Addresses, sess[a].stage # "free", NEW w \in Worlds,
         Links(w) = Links(World), Links(World') = Links(close(w, a)), UNCHANGED target
  PROVE  NeverTwo'
<1> DEFINE r == close(w, a)
<1>1. /\ w.routes = sType2Session /\ w.conn = do_connecting
      /\ \A b \in Addresses : /\ w.sess[b].stage = sess[b].stage
                              /\ w.sess[b].as_client = sess[b].as_client
  BY LinksAre DEF World
<1>2. /\ sType2Session' = r.routes /\ do_connecting' = r.conn
      /\ \A b \in Addresses : /\ sess'[b].stage = r.sess[b].stage
                              /\ sess'[b].as_client = r.sess[b].as_client
  BY LinksAre DEF World
<1>w. /\ World \in Worlds /\ RoutesLead(World)
      /\ sess[a].stage \in Stages /\ sess[a].as_client \in BOOLEAN
  BY DEF LinksGood, Good, Sound, World, Worlds, Object
<1> HIDE DEF r
<1>3. CASE isShotdown(w.sess[a])
  <2>1. r = w
    BY <1>3 DEF close, r
  <2>2. \A b \in Addresses : SameServer(b)
    BY <1>1, <1>2, <2>1 DEF SameServer
  <2> QED
    BY <1>1, <1>2, <2>1, <2>2, SameServers DEF LinksGood
<1>4. CASE ~ isShotdown(w.sess[a])
  <2>1. /\ \A b \in Addresses : b # a => r.sess[b] = w.sess[b]
        /\ isShotdown(r.sess[a]) /\ r.sess[a].as_client = w.sess[a].as_client
        /\ r.sess[a].stage = "cancelled" <=> w.sess[a].stage = "connecting"
    BY <1>4, Closed DEF r
  <2>2. ~ w.sess[a].as_client => r.routes = w.routes /\ r.conn = w.conn
    BY <1>4, Closed DEF r
  <2>3. w.sess[a].as_client =>
          /\ r.routes = [k \in Stypes |-> IF w.routes[k] = a THEN NULL ELSE w.routes[k]]
          /\ r.conn = [k \in Stypes |-> w.conn[k] /\ w.routes[k] # a]
    BY <1>4, Closed DEF r
  <2>4. ASSUME NEW b \in Addresses, b # a
        PROVE  sess'[b].stage = sess[b].stage /\ sess'[b].as_client = sess[b].as_client
    BY <1>1, <1>2, <2>1, <2>4
  <2>5. ASSUME NEW k \in Stypes, sType2Session[k] = a
        PROVE  sess[a].stage = "open" /\ sess[a].as_client /\ target[a] = k
    BY <1>w, <2>5, GatewayAssumption DEF RoutesLead, World
  <2>6. /\ sType2Session \in [Stypes -> Block] /\ do_connecting \in [Stypes -> BOOLEAN]
        /\ sess'[a].as_client = sess[a].as_client
        /\ sess'[a].stage \in {"shutdown", "cancelled", "closing"}
        /\ sess'[a].stage = "cancelled" <=> sess[a].stage = "connecting"
    BY <1>w, <1>1, <1>2, <2>1 DEF World, Worlds, isShotdown
  <2>7. CASE sess[a].as_client /\ sess[a].stage = "open"
    <3> DEFINE k == target[a]
    <3>1. k \in Stypes
      BY <2>7 DEF LinksGood, Good, Sound, ServersKnown, World
    <3>2. Live(a, k) /\ sType2Session[k] = a
      BY <2>7, <3>1 DEF LinksGood, NeverTwo, Live, ServerConnection
    <3>t. target[a] = k
      OBVIOUS
    <3> HIDE DEF k
    <3>3. sess'[a].stage \in {"shutdown", "closing"}
      BY <2>6, <2>7
    <3>4. ASSUME NEW j \in Stypes, j # k
          PROVE  do_connecting'[j] = do_connecting[j] /\ sType2Session'[j] = sType2Session[j]
      <4>1. sType2Session[j] # a
        BY <2>5, <3>4, <3>t
      <4>2. w.routes[j] = sType2Session[j] /\ w.conn[j] = do_connecting[j]
            /\ do_connecting[j] \in BOOLEAN
        BY <1>1, <2>6
      <4>3. /\ sType2Session'[j] = IF w.routes[j] = a THEN NULL ELSE w.routes[j]
            /\ do_connecting'[j] = (w.conn[j] /\ w.routes[j] # a)
        BY <1>1, <1>2, <2>3, <2>7
      <4> QED
        BY <4>1, <4>2, <4>3
    <3>5. Leaves(a, k)
      BY <2>4, <3>2, <3>3, <3>4 DEF Leaves
    <3> QED
      BY <3>1, <3>5, LeftLinks DEF LinksGood
  <2>8. CASE ~ (sess[a].as_client /\ sess[a].stage = "open")
    <3>1. \A k \in Stypes : sType2Session[k] # a
      BY <2>5, <2>8
    <3>2. sType2Session' = sType2Session /\ do_connecting' = do_connecting
      <4>1. CASE w.sess[a].as_client
        <5>1. ASSUME NEW k \in Stypes
              PROVE  /\ (IF w.routes[k] = a THEN NULL ELSE w.routes[k]) = sType2Session[k]
                     /\ (w.conn[k] /\ w.routes[k] # a) = do_connecting[k]
          <6>1. w.routes[k] # a /\ w.routes[k] = sType2Session[k] /\ w.conn[k] = do_connecting[k]
                /\ do_connecting[k] \in BOOLEAN
            BY <1>1, <2>6, <3>1
          <6> QED
            BY <6>1
        <5>2. sType2Session' = [k \in Stypes |-> sType2Session[k]]
          BY <1>2, <2>3, <4>1, <5>1
        <5>3. do_connecting' = [k \in Stypes |-> do_connecting[k]]
          BY <1>2, <2>3, <4>1, <5>1
        <5> QED
          BY <2>6, <5>2, <5>3
      <4>2. CASE ~ w.sess[a].as_client
        BY <1>1, <1>2, <2>2, <4>2
      <4> QED
        BY <4>1, <4>2
    <3>3. CASE ~ sess[a].as_client \/ sess[a].stage = "connecting"
      <4>1. \A b \in Addresses : SameServer(b)
        BY <2>4, <2>6, <3>3 DEF SameServer
      <4> QED
        BY <3>2, <4>1, SameServers DEF LinksGood
    <3>4. CASE sess[a].as_client /\ sess[a].stage = "orphan"
      <4>1. ASSUME NEW b \in Addresses, NEW k \in Stypes, (Live(b, k))'
            PROVE  Live(b, k) /\ sess'[b].stage = sess[b].stage
        <5>1. b # a
          BY <2>6, <3>4, <4>1 DEF Live
        <5> QED
          BY <2>4, <4>1, <5>1 DEF Live, ServerConnection
      <4> QED
        BY <3>2, <3>4, <4>1 DEF LinksGood, NeverTwo
    <3>5. sess[a].stage \in {"connecting", "open", "orphan"}
      BY <1>w, <1>1, <1>4 DEF isShotdown, Stages
    <3> QED
      BY <2>8, <3>3, <3>4, <3>5
  <2> QED
    BY <2>7, <2>8
<1> QED
  BY <1>3, <1>4

LEMMA ConnectLinks ==
  ASSUME LinksGood, NEW a \in Addresses, NEW status \in {0, 1}, after_connect(a, status)
  PROVE  NeverTwo'
<1> DEFINE k == target[a]
           failed == Failed(World, a, k)
           done == Opened(World, a, k)
<1>1. /\ sess[a].stage \in {"connecting", "cancelled"} /\ World.sess = sess
      /\ status = 0 => sess[a].stage = "connecting"
      /\ World.routes = sType2Session /\ World.conn = do_connecting
      /\ Become(IF status = 0 THEN done ELSE close(failed, a))
      /\ UNCHANGED target
  BY DEF after_connect, World, Opened, Failed
<1>2. k \in Stypes /\ sess[a].as_client /\ Sound(World) /\ World \in Worlds
  BY <1>1 DEF LinksGood, Good, Sound, ServersKnown
<1>t. target[a] = k
  OBVIOUS
<1> HIDE DEF k
<1>l. Live(a, k)
  BY <1>1, <1>2, <1>t DEF Live, ServerConnection
<1>3. CASE status = 0
  <2>1. /\ done.sess[a] = Connected(sess[a])
        /\ \A b \in Addresses : b # a => done.sess[b] = sess[b]
    <3> HIDE DEF failed
    <3> QED
      BY <1>1, <1>2, OpenedSessions
  <2>2. done.conn = [do_connecting EXCEPT ![k] = TRUE]
        /\ done.routes = [sType2Session EXCEPT ![k] = a]
    <3> HIDE DEF failed
    <3> QED
      BY <1>1, <1>2, <1>3, <1>t, ConnectedSound
  <2> HIDE DEF failed, done
  <2>3. sess' = done.sess /\ sType2Session' = done.routes /\ do_connecting' = done.conn
    BY <1>1, <1>3 DEF Become
  <2>4. sess[a] \in Object /\ sType2Session \in [Stypes -> Block]
        /\ do_connecting \in [Stypes -> BOOLEAN]
    BY <1>2 DEF World, Worlds
  <2>5. Connected(sess[a]).stage = "open" /\ Connected(sess[a]).as_client
    BY <1>2, <2>4 DEF Connected, Object
  <2>6. /\ sess'[a].stage = "open" /\ sess'[a].as_client
        /\ \A b \in Addresses : b # a => sess'[b] = sess[b]
    BY <2>1, <2>3, <2>5
  <2>7. sType2Session'[k] = a /\ \A j \in Stypes : j # k => sType2Session'[j] = sType2Session[j]
    BY <1>2, <2>2, <2>3, <2>4
  <2>8. do_connecting'[k] /\ \A j \in Stypes : j # k => do_connecting'[j] = do_connecting[j]
    BY <1>2, <2>2, <2>3, <2>4
  <2>9. ASSUME NEW b \in Addresses, NEW j \in Stypes
        PROVE  (Live(b, j))' <=> Live(b, j)
    <3>1. CASE b = a
      BY <1>1, <1>2, <2>6, <3>1 DEF Live, ServerConnection
    <3>2. CASE b # a
      BY <1>1, <2>6, <3>2 DEF Live, ServerConnection
    <3> QED
      BY <3>1, <3>2
  <2>10. NeverTwo'
    <3> SUFFICES ASSUME NEW j \in Stypes, NEW b \in Addresses, (Live(b, j))'
                 PROVE  /\ do_connecting'[j]
                        /\ sess'[b].stage = "open" => sType2Session'[j] = b
                        /\ \A d \in Addresses : (Live(d, j))' => d = b
      BY DEF NeverTwo
    <3>1. Live(b, j) /\ do_connecting[j] /\ \A d \in Addresses : Live(d, j) => d = b
      BY <2>9 DEF LinksGood, NeverTwo
    <3>2. CASE b = a
      <4>1. j = k
        BY <1>t, <3>1, <3>2 DEF Live, ServerConnection
      <4> QED
        BY <2>7, <2>8, <2>9, <3>1, <3>2, <4>1
    <3>3. CASE b # a
      <4>1. j # k
        BY <1>l, <3>1, <3>3
      <4> QED
        BY <2>6, <2>7, <2>8, <2>9, <3>1, <3>3, <4>1 DEF LinksGood, NeverTwo
    <3> QED
      BY <3>2, <3>3
  <2> QED
    BY <2>10
<1>4. CASE status = 1
  <2>1. /\ failed \in Worlds /\ failed.routes = sType2Session
        /\ failed.conn = [do_connecting EXCEPT ![k] = FALSE]
        /\ \A b \in Addresses : b # a => failed.sess[b] = sess[b]
        /\ failed.sess[a].stage = IF sess[a].stage = "cancelled" THEN "closing" ELSE "orphan"
        /\ failed.sess[a].as_client
    <3> HIDE DEF done
    <3> QED
      BY <1>1, <1>2, FailedParts
  <2> HIDE DEF failed, done
  <2>2. Become(close(failed, a))
    BY <1>1, <1>4
  <2>3. do_connecting \in [Stypes -> BOOLEAN]
    BY <1>2 DEF World, Worlds
  <2>4. /\ \A j \in Stypes : j # k => failed.conn[j] = do_connecting[j]
        /\ ~ failed.conn[k]
    BY <1>2, <2>1, <2>3
  <2> DEFINE r == close(failed, a)
  <2>5. /\ sess' = r.sess /\ sType2Session' = r.routes /\ do_connecting' = r.conn
    BY <2>2 DEF Become
  <2>n. \A j \in Stypes : sType2Session[j] # a
    BY <1>1, <1>2, GatewayAssumption DEF Sound, RoutesLead
  <2>6. /\ r.sess[a].stage \in {"shutdown", "closing"}
        /\ \A b \in Addresses : b # a => r.sess[b] = sess[b]
        /\ \A j \in Stypes : r.routes[j] = sType2Session[j] /\ r.conn[j] = failed.conn[j]
    <3>1. CASE sess[a].stage = "cancelled"
      <4>1. r = failed
        BY <2>1, <3>1 DEF close, isShotdown
      <4> HIDE DEF r
      <4> QED
        BY <2>1, <3>1, <4>1
    <3>2. CASE sess[a].stage = "connecting"
      <4>1. ~ isShotdown(failed.sess[a]) /\ failed.sess[a].stage = "orphan"
        BY <2>1, <3>2 DEF isShotdown
      <4>2. /\ \A b \in Addresses : b # a => r.sess[b] = failed.sess[b]
            /\ isShotdown(r.sess[a])
            /\ r.sess[a].stage = "cancelled" <=> failed.sess[a].stage = "connecting"
            /\ r.routes = [j \in Stypes |-> IF failed.routes[j] = a THEN NULL
                                            ELSE failed.routes[j]]
            /\ r.conn = [j \in Stypes |-> failed.conn[j] /\ failed.routes[j] # a]
        BY <2>1, <4>1, Closed
      <4> HIDE DEF r
      <4>3. ASSUME NEW j \in Stypes
            PROVE  r.routes[j] = sType2Session[j] /\ r.conn[j] = failed.conn[j]
        <5>1. failed.routes[j] # a /\ failed.conn[j] \in BOOLEAN
          BY <2>1, <2>n DEF Worlds
        <5>2. /\ r.routes[j] = IF failed.routes[j] = a THEN NULL ELSE failed.routes[j]
              /\ r.conn[j] = (failed.conn[j] /\ failed.routes[j] # a)
          BY <4>2
        <5> QED
          BY <2>1, <5>1, <5>2
      <4>4. r.sess[a].stage \in {"shutdown", "closing"}
        BY <4>1, <4>2 DEF isShotdown
      <4>5. ASSUME NEW b \in Addresses, b # a PROVE r.sess[b] = sess[b]
        BY <2>1, <4>2, <4>5
      <4> QED
        BY <4>3, <4>4, <4>5
    <3> QED
      BY <1>1, <3>1, <3>2
  <2> HIDE DEF r
  <2>7. Leaves(a, k)
    BY <1>1, <1>2, <1>l, <2>4, <2>5, <2>6 DEF Leaves
  <2> QED
    BY <1>2, <2>7, LeftLinks DEF LinksGood
<1> QED
  BY <1>3, <1>4

LEMMA ClosedLinks ==
  ASSUME LinksGood, NEW a \in Addresses, readError(a) \/ illegalFrame(a) PROVE NeverTwo'
<1> DEFINE v == [World EXCEPT !.sess[a] = ReadEnded(@)]
<1>1. /\ World \in Worlds /\ Sound(World) /\ World.sess = sess
      /\ World.routes = sType2Session /\ World.conn = do_connecting
  BY DEF LinksGood, Good, Sound, World
<1>2. /\ v \in Worlds /\ v.sess[a].stage = sess[a].stage
      /\ v.sess[a].as_client = sess[a].as_client
      /\ \A b \in Addresses : b # a => v.sess[b] = sess[b]
      /\ v.routes = sType2Session /\ v.conn = do_connecting
  BY <1>1, ReadEndedSound DEF Sound
<1>3. /\ sess[a].stage \in {"open", "shutdown"} /\ UNCHANGED target
      /\ Become(close(v, a)) \/ Become(close(World, a))
  BY DEF readError, illegalFrame, Receiving, Receives
<1> HIDE DEF v
<1>4. Links(v) = Links(World)
  <2>1. \A b \in Addresses : /\ v.sess[b].stage = sess[b].stage
                             /\ v.sess[b].as_client = sess[b].as_client
    BY <1>2
  <2> QED
    BY <1>1, <1>2, <2>1 DEF Links
<1>5. PICK w \in Worlds : Become(close(w, a)) /\ Links(w) = Links(World)
  BY <1>1, <1>2, <1>3, <1>4
<1>6. Links(World') = Links(close(w, a))
  BY <1>5 DEF Become, Links, World
<1> QED
  BY <1>3, <1>5, <1>6, CloseLinks

(* The login of a guest closes whatever session client_gid leads to. *)
LEMMA KickLinks ==
  ASSUME LinksGood, NEW m \in pending, NEW g \in GuestIds, guestLoginRes(m, g)
  PROVE  NeverTwo'
<1>1. CASE client_temp[m.tag] = NULL \/ Crashed(m, g)
  <2>1. UNCHANGED <<sess, target, sType2Session, do_connecting>>
    BY <1>1 DEF guestLoginRes, Crashed, crash, tables
  <2>2. \A a \in Addresses : SameServer(a)
    BY <2>1 DEF SameServer
  <2> QED
    BY <2>1, <2>2, SameServers DEF LinksGood
<1>2. CASE client_temp[m.tag] # NULL /\ ~ Crashed(m, g)
  <2> DEFINE c == client_temp[m.tag]
             old == client_gid[g]
             forgotten == [World EXCEPT !.temp[m.tag] = NULL]
             w == Kicked(m.tag, c, g)
  <2>1. guestConfirmed(m, g)
    BY <1>2 DEF guestLoginRes
  <2>2. /\ c \in Addresses /\ Sound(w) /\ sess' = [w.sess EXCEPT ![c].gid = g]
        /\ sType2Session' = w.routes /\ do_connecting' = w.conn
        /\ onlineElsewhere(c, g) => old \in Addresses /\ Usable(old)
        /\ UNCHANGED target
    BY <1>2, <2>1, ConfirmedSound DEF LinksGood
  <2>3. /\ forgotten \in Worlds /\ forgotten.sess = sess
        /\ forgotten.routes = sType2Session /\ forgotten.conn = do_connecting
    <3>1. m.tag \in 1..MaxTag /\ Sound(World) /\ World.sess = sess
          /\ World.routes = sType2Session /\ World.conn = do_connecting
      BY Pended DEF LinksGood, Good, World
    <3> QED
      BY <3>1, ForgottenSound DEF Sound
  <2>4. w = IF onlineElsewhere(c, g) THEN close(forgotten, old) ELSE forgotten
    BY DEF Kicked
  <2> HIDE DEF c, old, forgotten, w
  <2>5. /\ \A b \in Addresses : /\ sess'[b].stage = w.sess[b].stage
                                /\ sess'[b].as_client = w.sess[b].as_client
    <3>1. w.sess \in [Addresses -> Object]
      BY <2>2 DEF Sound, Worlds
    <3>2. ASSUME NEW b \in Addresses
          PROVE  sess'[b] = IF b = c THEN [w.sess[c] EXCEPT !.gid = g] ELSE w.sess[b]
      BY <2>2, <3>1
    <3>3. [w.sess[c] EXCEPT !.gid = g].stage = w.sess[c].stage
          /\ [w.sess[c] EXCEPT !.gid = g].as_client = w.sess[c].as_client
      BY <2>2, <3>1 DEF Object
    <3> QED
      BY <3>2, <3>3
  <2>6. Links(World') = Links(w)
    BY <2>2, <2>5 DEF Links, World
  <2>7. Links(forgotten) = Links(World)
    BY <2>3 DEF Links, World
  <2>8. CASE onlineElsewhere(c, g)
    <3>1. old \in Addresses /\ sess[old].stage # "free" /\ w = close(forgotten, old)
      BY <2>2, <2>4, <2>8 DEF Usable
    <3> QED
      BY <2>2, <2>3, <2>6, <2>7, <3>1, CloseLinks
  <2>9. CASE ~ onlineElsewhere(c, g)
    <3>1. /\ sType2Session' = sType2Session /\ do_connecting' = do_connecting
          /\ w.sess = sess
      BY <2>2, <2>3, <2>4, <2>9
    <3>2. \A b \in Addresses : SameServer(b)
      BY <2>5, <3>1 DEF SameServer
    <3> QED
      BY <2>2, <3>1, <3>2, SameServers DEF LinksGood
  <2> QED
    BY <2>8, <2>9
<1> QED
  BY <1>1, <1>2

LEMMA NextLinks ==
  ASSUME LinksGood, [Next]_vars
  PROVE  NeverTwo'
<1>0. sess \in [Addresses -> Object]
  BY DEF LinksGood, Good, Sound, Worlds, World
<1>1. CASE uv_startTcpEvent
  BY <1>1, AcceptLinks
<1>2. CASE checkConnected
  BY <1>2, TriedLinks
<1>3. ASSUME NEW a \in Addresses, NEW status \in {0, 1}, after_connect(a, status)
      PROVE  NeverTwo'
  BY <1>3, ConnectLinks
<1>4. ASSUME NEW a \in Addresses, readError(a) \/ illegalFrame(a) PROVE NeverTwo'
  BY <1>4, ClosedLinks
<1>5. ASSUME NEW a \in Addresses, uv_close_oneClient(a) \/ uv_closeClient(a)
      PROVE  NeverTwo'
  <2>1. /\ UNCHANGED <<target, sType2Session, do_connecting>>
        /\ sess[a].stage \in {"shutdown", "closing"}
        /\ sess' = [sess EXCEPT ![a] = HandleClosed(@)] \/ sess' = [sess EXCEPT ![a] = Freed(@)]
    BY <1>5 DEF uv_close_oneClient, uv_closeClient, tables
  <2>2. LET h == HandleClosed(sess[a])
            f == Freed(sess[a])
        IN /\ h.as_client = sess[a].as_client /\ h.stage = "closing"
           /\ f.as_client = sess[a].as_client /\ f.stage = "free"
    BY <1>0 DEF HandleClosed, Freed, Object
  <2>3. /\ \A b \in Addresses : b # a => sess'[b] = sess[b]
        /\ sess'[a] = HandleClosed(sess[a]) \/ sess'[a] = Freed(sess[a])
    BY <1>0, <2>1
  <2>4. ASSUME NEW b \in Addresses PROVE SameServer(b)
    <3>1. CASE b = a
      BY <2>1, <2>2, <2>3, <3>1 DEF SameServer
    <3>2. CASE b # a
      BY <2>3, <3>2 DEF SameServer
    <3> QED
      BY <3>1, <3>2
  <2> QED
    BY <2>1, <2>4, SameServers DEF LinksGood
<1>6. ASSUME NEW a \in Addresses, NEW k \in Stypes, NEW ctype \in Commands,
             sendToServer(a, k, ctype)
      PROVE  NeverTwo'
  <2>1. /\ UNCHANGED <<target, sType2Session, do_connecting>>
        /\ \/ sess' = sess
           \/ \E t, d, u : sess' = [sess EXCEPT ![a] = [@ EXCEPT !.utag = t, !.gid = d, !.uid = u]]
    <3>1. CASE ctype = other
      BY <1>6, <3>1 DEF sendToServer, otherToServer
    <3>2. CASE ctype # other
      <4>1. loginToServer(a, k, ctype) /\ UNCHANGED <<target, sType2Session, do_connecting>>
        BY <1>6, <3>2 DEF sendToServer
      <4> DEFINE first == sess[a].utag = 0
                 t == IF first THEN gKey ELSE sess[a].utag
                 d == IF first /\ ctype = eGuestLoginReq THEN t ELSE sess[a].gid
                 u == IF first /\ ctype = eLoginReq THEN t ELSE sess[a].uid
      <4>2. sess' = [sess EXCEPT ![a] = [@ EXCEPT !.utag = t, !.gid = d, !.uid = u]]
        BY <1>0, <4>1 DEF loginToServer
      <4> HIDE DEF t, d, u
      <4> QED
        BY <4>1, <4>2
    <3> QED
      BY <3>1, <3>2
  <2>2. ASSUME NEW b \in Addresses PROVE SameServer(b)
    <3>1. CASE sess' = sess
      BY <3>1 DEF SameServer
    <3>2. CASE sess' # sess
      <4>1. PICK t, d, u : sess' = [sess EXCEPT ![a] = [@ EXCEPT !.utag = t, !.gid = d, !.uid = u]]
        BY <2>1, <3>2
      <4> DEFINE s == [sess[a] EXCEPT !.utag = t, !.gid = d, !.uid = u]
      <4>2. s.stage = sess[a].stage /\ s.as_client = sess[a].as_client
        BY <1>0 DEF Object
      <4>3. sess'[b] = IF b = a THEN s ELSE sess[b]
        BY <1>0, <4>1
      <4> HIDE DEF s
      <4> QED
        BY <4>2, <4>3 DEF SameServer
    <3> QED
      BY <3>1, <3>2
  <2> QED
    BY <2>1, <2>2, SameServers DEF LinksGood
<1>7. ASSUME NEW m \in pending, NEW g \in GuestIds, guestLoginRes(m, g) PROVE NeverTwo'
  BY <1>7, KickLinks
<1>8. CASE \/ \E a \in Addresses : otherRes(a)
           \/ \E m \in pending : loginRefused(m) \/ unanswered(m)
           \/ UNCHANGED vars
  <2>1. UNCHANGED <<sess, target, sType2Session, do_connecting>>
    BY <1>8 DEF otherRes, loginRefused, unanswered, vars, tables
  <2>2. \A b \in Addresses : SameServer(b)
    BY <2>1 DEF SameServer
  <2> QED
    BY <2>1, <2>2, SameServers DEF LinksGood
<1> QED
  BY <1>1, <1>2, <1>3, <1>4, <1>5, <1>6, <1>7, <1>8 DEF Next

------------------------------------------------------------------------------
(* Each action keeps StaleWays: as long as nothing happened all tables lead to  *)
(* sessions in use, but for client_gid and what a closed session left.         *)
LEMMA NextAlive == Next => alive
<1> SUFFICES ASSUME Next PROVE alive
  OBVIOUS
<1>1. CASE uv_startTcpEvent
  BY <1>1 DEF uv_startTcpEvent
<1>2. CASE checkConnected
  BY <1>2, Zenon DEF checkConnected
<1>3. ASSUME NEW a \in Addresses, NEW status \in {0, 1}, after_connect(a, status) PROVE alive
  BY <1>3, Zenon DEF after_connect
<1>4. ASSUME NEW a \in Addresses, readError(a) PROVE alive
  BY <1>4, Zenon DEF readError
<1>5. ASSUME NEW a \in Addresses, Receiving(a) PROVE alive
  BY <1>5 DEF Receiving
<1>6. ASSUME NEW a \in Addresses,
             \/ illegalFrame(a) \/ otherRes(a)
             \/ \E k \in Stypes, ctype \in Commands : sendToServer(a, k, ctype)
      PROVE  alive
  BY <1>5, <1>6, Zenon DEF illegalFrame, otherRes, sendToServer
<1>7. ASSUME NEW a \in Addresses, uv_close_oneClient(a) \/ uv_closeClient(a) PROVE alive
  BY <1>7, Zenon DEF uv_close_oneClient, uv_closeClient
<1>8. ASSUME NEW m \in pending, loginRefused(m) \/ \E g \in GuestIds : guestLoginRes(m, g)
      PROVE  alive
  BY <1>5, <1>8 DEF loginRefused, guestLoginRes, Answered
<1>9. ASSUME NEW m \in pending, unanswered(m) PROVE alive
  BY <1>9 DEF unanswered
<1> QED
  BY <1>1, <1>2, <1>3, <1>4, <1>6, <1>7, <1>8, <1>9 DEF Next

LEMMA NextWays == ASSUME Good, StaleWays, [Next]_vars PROVE StaleWays'
<1>1. CASE UNCHANGED vars
  BY <1>1 DEF vars, past, StaleWays
<1>2. CASE Next
  <2>1. stale = NULL /\ TempOpen(World) /\ RoutesLead(World)
    BY <1>2, NextAlive DEF alive, Good, Sound
  <2>2. ASSUME stale' \in {NULL, stale} PROVE StaleWays'
    BY <2>1, <2>2 DEF StaleWays
  <2>3. ASSUME NEW m \in pending, client_temp[m.tag] # NULL, ~ Usable(client_temp[m.tag])
        PROVE  m.tag \in late
    BY <2>1, <2>3, Pended DEF TempOpen, World, Usable
  <2>4. ASSUME NEW a \in Addresses, NEW k \in Stypes, NEW ctype \in Commands,
               sendToServer(a, k, ctype)
        PROVE  StaleWays'
    <3>1. sType2Session[k] # NULL /\ relay(k)
      BY <2>4 DEF sendToServer, loginToServer, otherToServer
    <3>2. Usable(sType2Session[k])
      BY <2>1, <3>1 DEF RoutesLead, World, Usable
    <3> QED
      BY <2>2, <3>1, <3>2 DEF relay, call
  <2>5. ASSUME NEW m \in pending, loginRefused(m) PROVE StaleWays'
    <3> DEFINE c == client_temp[m.tag]
    <3>1. late' = late /\ IF c = NULL THEN stale' = stale ELSE call(c, "client_temp", m.tag)
      BY <2>5 DEF loginRefused, past
    <3>2. CASE c = NULL \/ Usable(c)
      BY <2>2, <3>1, <3>2 DEF call
    <3>3. CASE c # NULL /\ ~ Usable(c)
      BY <2>3, <3>1, <3>3 DEF call, StaleWays
    <3> QED
      BY <3>2, <3>3
  <2>6. ASSUME NEW m \in pending, NEW g \in GuestIds, guestLoginRes(m, g) PROVE StaleWays'
    <3>1. CASE client_temp[m.tag] = NULL
      BY <2>2, <2>6, <3>1 DEF guestLoginRes
    <3>2. CASE client_temp[m.tag] # NULL
      <4>1. guestConfirmed(m, g)
        BY <2>6, <3>2 DEF guestLoginRes
      <4>2. \/ crash("client_gid", g)
            \/ ~ Usable(client_temp[m.tag]) /\ crash("client_temp", m.tag)
            \/ stale' = stale
        BY <4>1 DEF guestConfirmed
      <4>3. CASE crash("client_gid", g)
        BY <4>3 DEF crash, StaleWays
      <4>4. CASE ~ Usable(client_temp[m.tag]) /\ crash("client_temp", m.tag)
        BY <2>3, <3>2, <4>4 DEF crash, StaleWays, past
      <4> QED
        BY <2>2, <4>2, <4>3, <4>4
    <3> QED
      BY <3>1, <3>2
  <2>7. ASSUME \/ uv_startTcpEvent \/ checkConnected
               \/ \E a \in Addresses :
                    \/ \E status \in {0, 1} : after_connect(a, status)
                    \/ readError(a) \/ illegalFrame(a)
                    \/ otherRes(a) \/ uv_close_oneClient(a) \/ uv_closeClient(a)
               \/ \E m \in pending : unanswered(m)
        PROVE  stale' = stale
    BY <2>7 DEF uv_startTcpEvent, checkConnected, after_connect, readError, illegalFrame,
                otherRes, uv_close_oneClient, uv_closeClient, unanswered
  <2> QED
    BY <1>2, <2>2, <2>4, <2>5, <2>6, <2>7 DEF Next
<1> QED
  BY <1>1, <1>2

------------------------------------------------------------------------------
LEMMA InitIInv == Init => IInv
<1> SUFFICES ASSUME Init PROVE IInv
  OBVIOUS
<1> DEFINE new == Created("free", FALSE)
<1>1. /\ sess = [a \in Addresses |-> new] /\ listCache = FullList(Addresses)
      /\ target = [a \in Addresses |-> NULL] /\ sType2Session = [k \in Stypes |-> NULL]
      /\ do_connecting = [k \in Stypes |-> FALSE] /\ gKey = 1
      /\ client_temp = [t \in 0..MaxTag |-> NULL] /\ client_uid = [i \in Ids |-> NULL]
      /\ client_gid = [i \in Ids |-> NULL] /\ pending = {}
      /\ verified = [a \in Addresses |-> 0] /\ late = {} /\ displaced = {} /\ stale = NULL
  BY DEF Init
<1>2. /\ new \in Object /\ new.stage = "free" /\ new.utag = 0 /\ new.gid = 0
      /\ ~ new.as_client
  BY GatewayAssumption DEF Created, Object, Stages
<1> HIDE DEF new
<1>3. /\ listCache \in Seq(Addresses) /\ Distinct(listCache)
      /\ \A a \in Addresses : Listed(a, listCache)
  BY <1>1, FullListHoldsAll, GatewayAssumption
<1>4. RestTyped
  <2>1. 1 \in 1..(MaxTag + 1)
    BY GatewayAssumption
  <2> QED
    BY <1>1, <1>3, <2>1 DEF RestTyped, Block, Ways
<1>5. World \in Worlds
  BY <1>1, <1>2 DEF World, Worlds, Block
<1>6. Accounted(World) /\ ServersKnown(World) /\ RoutesLead(World)
  BY <1>1, <1>2, <1>3 DEF World, Accounted, ServersKnown, RoutesLead
<1>7. TagsKnown(World)
  BY <1>1, <1>2 DEF World, TagsKnown
<1>8. TempOpen(World)
  <2>1. \A t \in 1..MaxTag : t \in 0..MaxTag
    BY GatewayAssumption
  <2> QED
    BY <1>1, <2>1 DEF World, TempOpen
<1>9. GuestsKnown
  BY <1>1, <1>2, GatewayAssumption DEF GuestsKnown
<1>10. NeverTwo /\ StaleWays
  BY <1>1, <1>2 DEF NeverTwo, Live, ServerConnection, StaleWays
<1> QED
  BY <1>4, <1>5, <1>6, <1>7, <1>8, <1>9, <1>10 DEF IInv, Sound

LEMMA NextIInv == IInv /\ [Next]_vars => IInv'
<1> SUFFICES ASSUME IInv, [Next]_vars PROVE IInv'
  OBVIOUS
<1>1. Good
  BY DEF IInv, Good
<1>2. Good'
  BY <1>1, NextGood
<1>3. GuestsKnown'
  BY <1>1, NextGuests DEF IInv
<1>4. NeverTwo'
  BY <1>1, NextLinks DEF IInv, LinksGood
<1>5. StaleWays'
  BY <1>1, NextWays DEF IInv
<1> QED
  BY <1>2, <1>3, <1>4, <1>5 DEF IInv, Good

LEMMA Inductive == Spec => []IInv
BY InitIInv, NextIInv, PTL DEF Spec

(* The tables of gateway.lua:5-20 keep their types: a route or an entry of a   *)
(* table is a block of the pool or empty, gKey stops one after the last tag,   *)
(* and the gid of a session is a tag or a guest.                               *)
THEOREM TypeCorrect == Spec => []TypeOK
<1>1. IInv => TypeOK
  BY Typed DEF IInv, Sound
<1> QED
  BY <1>1, Inductive, PTL

(* sType2Session leads to an open connection to the server itself, so what     *)
(* gateway.lua:219-237 forwards without asking the session goes to the right   *)
(* server, for any number of servers, clients and reused blocks.               *)
THEOREM RoutesOpen == Spec => []RouteIsOpen
<1>1. IInv => RouteIsOpen
  BY DEF IInv, Sound, RoutesLead, World, RouteIsOpen, ServerConnection
<1> QED
  BY <1>1, Inductive, PTL

(* No two sessions carry one tag (gateway.lua:71-84 counts gKey up and never   *)
(* back).                                                                      *)
THEOREM TagsApart == Spec => []TagsUnique
<1>1. IInv => TagsUnique
  BY DEF IInv, Sound, TagsKnown, World, TagsUnique
<1> QED
  BY <1>1, Inductive, PTL

(* client_temp holds open sessions that wait (gateway.lua:76 and 85 fill it,   *)
(* 140, 145 and 252 clear it), whatever peers send and when: only under a tag  *)
(* that a closed session asked for a login under may another one be left.      *)
THEOREM WaitingAreOpen == Spec => []TempForgotten
<1>1. IInv => TempForgotten
  BY DEF IInv, Sound, TempOpen, World, TempForgotten
<1> QED
  BY <1>1, Inductive, PTL

(* The session that is told the outcome of a login is the one that asked       *)
(* (gateway.lua:137-175), on whatever connection the answer comes, unless it   *)
(* asked, under the same tag, once more after it was closed.                   *)
THEOREM AskersAnswered == Spec => AnswerReachesAsker
<1>1. IInv /\ [Next]_vars =>
        [\A x \in sent' : x.what \in {"confirmed", "refused"} /\ x.id \notin late =>
           sess[x.to].stage = "open" /\ sess[x.to].utag = x.id]_vars
  <2> DEFINE Reaches(x) == x.what \in {"confirmed", "refused"} /\ x.id \notin late =>
                             sess[x.to].stage = "open" /\ sess[x.to].utag = x.id
  <2> SUFFICES ASSUME IInv, Next PROVE \A x \in sent' : Reaches(x)
    OBVIOUS
  <2>1. Good /\ TempOpen(World)
    BY DEF IInv, Good, Sound
  <2>2. ASSUME NEW m \in pending, client_temp[m.tag] # NULL, m.tag \notin late
        PROVE  LET c == client_temp[m.tag]
               IN c \in Addresses /\ sess[c].stage = "open" /\ sess[c].utag = m.tag
    BY <2>1, <2>2, Pended DEF TempOpen, World, Block
  <2>3. ASSUME NEW m \in pending, loginRefused(m) PROVE \A x \in sent' : Reaches(x)
    BY <2>2, <2>3 DEF loginRefused
  <2>4. ASSUME NEW m \in pending, NEW g \in GuestIds, guestLoginRes(m, g)
        PROVE  \A x \in sent' : Reaches(x)
    <3>1. CASE client_temp[m.tag] = NULL \/ Crashed(m, g)
      <4>1. sent' = {}
        BY <2>4, <3>1 DEF guestLoginRes, Crashed, crash
      <4> QED
        BY <4>1
    <3>2. CASE client_temp[m.tag] # NULL /\ ~ Crashed(m, g)
      <4> DEFINE c == client_temp[m.tag]
                 confirmed == [to |-> c, what |-> "confirmed", id |-> m.tag]
                 kick == [to |-> client_gid[g], what |-> "kick", id |-> g]
      <4>1. guestConfirmed(m, g)
        BY <2>4, <3>2 DEF guestLoginRes
      <4>2. sent' = {confirmed} \cup (IF onlineElsewhere(c, g) THEN {kick} ELSE {})
        BY <2>1, <3>2, <4>1, ConfirmedSound
      <4>3. Reaches(confirmed) /\ Reaches(kick)
        BY <2>2, <3>2
      <4> HIDE DEF Reaches, confirmed, kick
      <4> QED
        BY <4>2, <4>3
    <3> QED
      BY <3>1, <3>2
  <2>5. ASSUME \/ uv_startTcpEvent \/ checkConnected
               \/ \E a \in Addresses :
                    \/ \E status \in {0, 1} : after_connect(a, status)
                    \/ readError(a) \/ illegalFrame(a)
                    \/ \E k \in Stypes, ctype \in Commands : sendToServer(a, k, ctype)
                    \/ otherRes(a) \/ uv_close_oneClient(a) \/ uv_closeClient(a)
               \/ \E m \in pending : unanswered(m)
        PROVE  sent' = {}
    BY <2>5 DEF uv_startTcpEvent, checkConnected, after_connect, readError, illegalFrame,
                sendToServer, otherRes, uv_close_oneClient, uv_closeClient, unanswered
  <2> HIDE DEF Reaches
  <2> QED
    BY <2>3, <2>4, <2>5 DEF Next
<1> QED
  BY <1>1, Inductive, PTL DEF Spec, AnswerReachesAsker

(* A guest confirmed on a new session is closed on the old one                 *)
(* (gateway.lua:151-160), so no guest is online twice, whatever the ids of the *)
(* guests are and whatever is sent late, until a request that is no login      *)
(* takes the guest's entry of client_gid from its session (gateway.lua:104).   *)
THEOREM GuestsOnce == Spec => []SingleLogin
<1>1. IInv => SingleLogin
  BY DEF IInv, GuestsKnown, SingleLogin
<1> QED
  BY <1>1, Inductive, PTL

(* What is relayed goes to an open connection, and what is answered to an open *)
(* session, but under the tags that closed sessions asked under: a destroyed   *)
(* session is called by these and by client_gid only (gateway.lua:140-175).    *)
THEOREM StaleByTwo == Spec => []StaleWays
<1>1. IInv => StaleWays
  BY DEF IInv
<1> QED
  BY <1>1, Inductive, PTL

(* No server has two connections, and one it has is flagged and, when open, the *)
(* one that requests take, for any clients, any late frames, and any block that *)
(* a stale client_gid makes the gateway close (gateway.lua:41-49, 151-153).     *)
THEOREM ConnectedOnce == Spec => []NeverTwo
<1>1. IInv => NeverTwo
  BY DEF IInv
<1> QED
  BY <1>1, Inductive, PTL

------------------------------------------------------------------------------
(* The lives of the blocks, as module Lives has them. *)
lives == [a \in Addresses |-> phase(sess[a])]

LEMMA AllStages ==
  ASSUME NEW w \in Worlds
  PROVE  \A b \in Addresses : w.sess[b].stage \in Stages
BY DEF Worlds, Object

(* A step that changes the stage of one block at most. *)
LEMMA OneBlock ==
  ASSUME NEW a \in Addresses, \A b \in Addresses : b # a => phase(sess'[b]) = phase(sess[b])
  PROVE  lives' = [lives EXCEPT ![a] = phase(sess'[a])] /\ lives[a] = phase(sess[a])
<1>1. lives' = [b \in Addresses |-> IF b = a THEN phase(sess'[a]) ELSE lives[b]]
  BY DEF lives
<1>2. DOMAIN lives = Addresses /\ lives[a] = phase(sess[a])
  BY DEF lives
<1>3. lives' = [lives EXCEPT ![a] = phase(sess'[a])]
  BY <1>1, <1>2
<1> QED
  BY <1>2, <1>3

LEMMA SameLives ==
  ASSUME \A b \in Addresses : sess'[b].stage = sess[b].stage
  PROVE  lives' = lives
<1>1. \A b \in Addresses : phase(sess'[b]) = phase(sess[b])
  BY SamePhase
<1> QED
  BY <1>1 DEF lives

(* Free blocks become sessions. *)
LEMMA TakenBegin ==
  ASSUME NEW new \in SUBSET Addresses,
         \A b \in new : /\ sess[b].stage = "free"
                        /\ sess'[b].stage \in {"open", "connecting", "orphan"},
         \A b \in Addresses \ new : sess'[b] = sess[b]
  PROVE  L!Begin
<1>1. \A b \in new : phase(sess[b]) = "free" /\ phase(sess'[b]) = "used"
  BY DEF phase
<1>2. \A b \in new : lives[b] = "free"
  BY <1>1 DEF lives
<1>3. lives' = [b \in Addresses |-> IF b \in new THEN "used" ELSE lives[b]]
  BY <1>1 DEF lives
<1> QED
  BY <1>2, <1>3 DEF L!Begin, lives

LEMMA AcceptBegins == ASSUME Good, uv_startTcpEvent PROVE L!Begin
<1> DEFINE a == Head(listCache)
           s == Created("open", FALSE)
<1>1. /\ listCache \in Seq(Addresses) /\ listCache # <<>> /\ Accounted(World)
      /\ sess \in [Addresses -> Object]
  BY DEF Good, RestTyped, Sound, Worlds, World, uv_startTcpEvent
<1>2. a \in Addresses /\ Listed(a, listCache)
  BY <1>1, PopList DEF Accounted
<1>3. sess' = [sess EXCEPT ![a] = s] /\ s.stage = "open"
  BY DEF uv_startTcpEvent, Created
<1>4. sess[a].stage = "free"
  BY <1>1, <1>2 DEF Accounted, World
<1> HIDE DEF a, s
<1>5. sess'[a] = s /\ \A b \in Addresses \ {a} : sess'[b] = sess[b]
  BY <1>1, <1>2, <1>3
<1>6. /\ {a} \in SUBSET Addresses
      /\ \A b \in {a} : sess[b].stage = "free" /\ sess'[b].stage \in {"open", "connecting", "orphan"}
  BY <1>2, <1>3, <1>4, <1>5
<1> QED
  BY <1>5, <1>6, TakenBegin

LEMMA TriedBegin == ASSUME Good, checkConnected PROVE L!Begin
<1>a. PICK missing \in SUBSET Stypes : \E block \in [missing -> Addresses] :
        \E stage \in [missing -> {"connecting", "orphan"}] : Tries(missing, block, stage)
  BY Tried
<1>b. PICK block \in [missing -> Addresses] :
        \E stage \in [missing -> {"connecting", "orphan"}] : Tries(missing, block, stage)
  BY <1>a
<1>c. PICK stage \in [missing -> {"connecting", "orphan"}] : Tries(missing, block, stage)
  BY <1>b
<1> DEFINE new == {block[k] : k \in missing}
<1>1. /\ \A k \in missing : /\ Listed(block[k], listCache)
                            /\ sess'[block[k]] = Created(stage[k], TRUE)
      /\ \A b \in Addresses : (\A k \in missing : block[k] # b) => sess'[b] = sess[b]
  BY <1>c DEF Tries
<1>2. Accounted(World) /\ World.sess = sess
  BY DEF Good, Sound, World
<1>3. ASSUME NEW k \in missing
      PROVE  /\ block[k] \in Addresses /\ sess[block[k]].stage = "free"
             /\ sess'[block[k]].stage \in {"connecting", "orphan"}
  <2>1. block[k] \in Addresses /\ stage[k] \in {"connecting", "orphan"}
    OBVIOUS
  <2>2. sess[block[k]].stage = "free"
    BY <1>1, <1>2, <2>1 DEF Accounted
  <2>3. Created(stage[k], TRUE).stage = stage[k]
    BY DEF Created
  <2> QED
    BY <1>1, <2>1, <2>2, <2>3
<1>4. /\ new \in SUBSET Addresses
      /\ \A b \in new : sess[b].stage = "free" /\ sess'[b].stage \in {"open", "connecting", "orphan"}
  BY <1>3
<1>5. \A b \in Addresses \ new : sess'[b] = sess[b]
  BY <1>1
<1> HIDE DEF new
<1> QED
  BY <1>4, <1>5, TakenBegin

(* Session_uv::close, after changes that leave every stage in its phase. *)
LEMMA CloseEnds ==
  ASSUME Good, NEW w \in Worlds, \A b \in Addresses : phase(w.sess[b]) = phase(sess[b]),
         NEW a \in Addresses, sess[a].stage # "free",
         \A b \in Addresses : sess'[b].stage = close(w, a).sess[b].stage
  PROVE  L!End(a) \/ lives' = lives
<1> DEFINE r == close(w, a)
<1>1. World \in Worlds /\ World.sess = sess
  BY DEF Good, Sound, World
<1>2. sess[a].stage \in Stages /\ w.sess[a].stage \in Stages
  BY <1>1, AllStages
<1>3. CASE isShotdown(w.sess[a])
  <2>1. \A b \in Addresses : phase(sess'[b]) = phase(w.sess[b])
    BY <1>3, SamePhase DEF close
  <2> QED
    BY <2>1 DEF lives
<1>4. CASE ~ isShotdown(w.sess[a])
  <2>1. /\ r \in Worlds /\ isShotdown(r.sess[a])
        /\ \A b \in Addresses : b # a => r.sess[b] = w.sess[b]
    <3>1. w \in Worlds /\ a \in Addresses /\ ~ isShotdown(w.sess[a])
      BY <1>4
    <3> QED
      BY ONLY <3>1, Closed
  <2> HIDE DEF r
  <2>2. /\ r.sess[a].stage \in Stages
        /\ \A b \in Addresses : sess'[b].stage = r.sess[b].stage
    BY <2>1, AllStages DEF r
  <2>3. phase(r.sess[a]) \in {"ended", "closing"}
    BY <2>1, <2>2, Phases
  <2>4. \A b \in Addresses : phase(sess'[b]) = phase(r.sess[b])
    BY <2>2, SamePhase
  <2>5. phase(sess[a]) = "used"
    <3>1. phase(sess[a]) = phase(w.sess[a])
      OBVIOUS
    <3>2. phase(w.sess[a]) \notin {"ended", "closing"} /\ phase(sess[a]) # "free"
      BY <1>2, <1>4, Phases
    <3>3. phase(sess[a]) \in {"free", "used", "ended", "closing"}
      BY <1>2, Phases DEF Stages
    <3> QED
      BY <3>1, <3>2, <3>3
  <2>6. \A b \in Addresses : b # a => phase(sess'[b]) = phase(sess[b])
    BY <2>1, <2>4
  <2>7. lives' = [lives EXCEPT ![a] = phase(r.sess[a])] /\ lives[a] = "used"
    BY <2>4, <2>5, <2>6, OneBlock
  <2> QED
    BY <2>3, <2>7 DEF L!End, lives
<1> QED
  BY <1>3, <1>4

LEMMA ConnectLives ==
  ASSUME Good, NEW a \in Addresses, NEW status \in {0, 1}, after_connect(a, status)
  PROVE  L!End(a) \/ lives' = lives
<1> DEFINE k == target[a]
           failed == Failed(World, a, k)
           done == Opened(World, a, k)
<1>1. /\ sess[a].stage \in {"connecting", "cancelled"}
      /\ status = 0 => sess[a].stage = "connecting"
      /\ Become(IF status = 0 THEN done ELSE close(failed, a))
  BY DEF after_connect, Opened, Failed
<1>2. World \in Worlds /\ World.sess = sess /\ sess \in [Addresses -> Object] /\ k \in Stypes
  BY <1>1 DEF Good, Sound, ServersKnown, World, Worlds
<1> HIDE DEF k
<1>3. CASE status = 0
  <2>1. /\ done.sess[a] = Connected(sess[a])
        /\ \A b \in Addresses : b # a => done.sess[b] = sess[b]
    BY <1>2, OpenedSessions
  <2>2. sess' = done.sess
    BY <1>1, <1>3 DEF Become
  <2>3. Connected(sess[a]).stage = "open" /\ sess[a].stage = "connecting"
    BY <1>1, <1>2, <1>3 DEF Connected, Object
  <2> HIDE DEF done
  <2>4. \A b \in Addresses : phase(sess'[b]) = phase(sess[b])
    BY <2>1, <2>2, <2>3 DEF phase
  <2> QED
    BY <2>4 DEF lives
<1>4. CASE status # 0
  <2>1. /\ failed \in Worlds
        /\ \A b \in Addresses : b # a => failed.sess[b] = sess[b]
        /\ failed.sess[a].stage = IF sess[a].stage = "cancelled" THEN "closing" ELSE "orphan"
    <3>1. /\ World \in Worlds /\ k \in Stypes
          /\ World.sess[a].stage \in {"connecting", "cancelled"}
      BY <1>1, <1>2
    <3>2. /\ failed \in Worlds
          /\ \A b \in Addresses : b # a => failed.sess[b] = World.sess[b]
      BY <3>1, FailedParts
    <3>3. failed.sess[a].stage = IF World.sess[a].stage = "cancelled" THEN "closing" ELSE "orphan"
      BY <3>1, FailedParts
    <3> HIDE DEF failed
    <3> QED
      BY <1>2, <3>2, <3>3
  <2>2. sess' = close(failed, a).sess
    BY <1>1, <1>4 DEF Become
  <2> HIDE DEF failed
  <2>3. \A b \in Addresses : phase(failed.sess[b]) = phase(sess[b])
    BY <1>1, <2>1 DEF phase
  <2>4. \A b \in Addresses : sess'[b].stage = close(failed, a).sess[b].stage
    BY <2>2
  <2> QED
    BY <1>1, <2>1, <2>3, <2>4, CloseEnds
<1> QED
  BY <1>3, <1>4

LEMMA ClosedLives ==
  ASSUME Good, NEW a \in Addresses, readError(a) \/ illegalFrame(a)
  PROVE  L!End(a) \/ lives' = lives
<1> DEFINE v == [World EXCEPT !.sess[a] = ReadEnded(@)]
<1>1. World \in Worlds /\ Sound(World) /\ World.sess = sess
  BY DEF Good, Sound, World
<1>2. /\ v \in Worlds /\ v.sess[a].stage = sess[a].stage
      /\ \A b \in Addresses : b # a => v.sess[b] = sess[b]
  BY <1>1, ReadEndedSound DEF Sound
<1>3. /\ sess[a].stage # "free"
      /\ Become(close(v, a)) \/ Become(close(World, a))
  BY DEF readError, illegalFrame, Receiving, Receives
<1> HIDE DEF v
<1>4. \A b \in Addresses : phase(v.sess[b]) = phase(sess[b])
  BY <1>2, SamePhase
<1>5. PICK w \in Worlds : /\ Become(close(w, a))
                          /\ \A b \in Addresses : phase(w.sess[b]) = phase(sess[b])
  BY <1>1, <1>2, <1>3, <1>4
<1>6. \A b \in Addresses : sess'[b].stage = close(w, a).sess[b].stage
  BY <1>5 DEF Become
<1> QED
  BY <1>3, <1>5, <1>6, CloseEnds

(* The login of a guest ends the session it kicks, and no block is given back. *)
LEMMA KickLives ==
  ASSUME Good, NEW m \in pending, NEW g \in GuestIds, guestLoginRes(m, g)
  PROVE  (\E a \in Addresses : L!End(a)) \/ lives' = lives
<1>1. CASE client_temp[m.tag] = NULL \/ Crashed(m, g)
  <2>1. sess' = sess
    BY <1>1 DEF guestLoginRes, Crashed, crash
  <2> QED
    BY <2>1 DEF lives
<1>2. CASE client_temp[m.tag] # NULL /\ ~ Crashed(m, g)
  <2> DEFINE c == client_temp[m.tag]
             old == client_gid[g]
             forgotten == [World EXCEPT !.temp[m.tag] = NULL]
             w == Kicked(m.tag, c, g)
  <2>1. guestConfirmed(m, g)
    BY <1>2 DEF guestLoginRes
  <2>2. /\ c \in Addresses /\ Sound(w) /\ sess' = [w.sess EXCEPT ![c].gid = g]
        /\ onlineElsewhere(c, g) => old \in Addresses /\ Usable(old)
    BY <1>2, <2>1, ConfirmedSound
  <2>3. forgotten \in Worlds /\ forgotten.sess = sess
    <3>1. m.tag \in 1..MaxTag /\ Sound(World) /\ World.sess = sess
      BY Pended DEF Good, World
    <3> QED
      BY <3>1, ForgottenSound DEF Sound
  <2>4. w = IF onlineElsewhere(c, g) THEN close(forgotten, old) ELSE forgotten
    BY DEF Kicked
  <2> HIDE DEF c, old, forgotten, w
  <2>5. \A b \in Addresses : sess'[b].stage = w.sess[b].stage
    <3>1. w.sess \in [Addresses -> Object]
      BY <2>2 DEF Sound, Worlds
    <3>2. ASSUME NEW b \in Addresses
          PROVE  sess'[b] = IF b = c THEN [w.sess[c] EXCEPT !.gid = g] ELSE w.sess[b]
      BY <2>2, <3>1
    <3>3. [w.sess[c] EXCEPT !.gid = g].stage = w.sess[c].stage
      BY <2>2, <3>1 DEF Object
    <3> QED
      BY <3>2, <3>3
  <2>6. CASE onlineElsewhere(c, g)
    <3>1. old \in Addresses /\ sess[old].stage # "free" /\ w = close(forgotten, old)
      BY <2>2, <2>4, <2>6 DEF Usable
    <3>2. \A b \in Addresses : sess'[b].stage = close(forgotten, old).sess[b].stage
      BY <2>5, <3>1
    <3>3. \A b \in Addresses : phase(forgotten.sess[b]) = phase(sess[b])
      BY <2>3
    <3> QED
      BY <2>3, <3>1, <3>2, <3>3, CloseEnds
  <2>7. CASE ~ onlineElsewhere(c, g)
    BY <2>3, <2>4, <2>5, <2>7, SameLives
  <2> QED
    BY <2>6, <2>7
<1> QED
  BY <1>1, <1>2

(* A login request gives a session a tag and an id, nothing else. *)
LEMMA LoginLives ==
  ASSUME Good, NEW c \in Addresses, NEW k \in Stypes, NEW ctype \in Commands,
         sendToServer(c, k, ctype)
  PROVE  lives' = lives
<1>1. CASE ctype = other
  <2>1. sess' = sess
    BY <1>1 DEF sendToServer, otherToServer
  <2> QED
    BY <2>1 DEF lives
<1>2. CASE ctype # other
  <2>0. sess \in [Addresses -> Object]
    BY DEF Good, Sound, Worlds, World
  <2>1. loginToServer(c, k, ctype)
    BY <1>2 DEF sendToServer
  <2> DEFINE first == sess[c].utag = 0
             t == IF first THEN gKey ELSE sess[c].utag
             d == IF first /\ ctype = eGuestLoginReq THEN t ELSE sess[c].gid
             u == IF first /\ ctype = eLoginReq THEN t ELSE sess[c].uid
             s == [sess[c] EXCEPT !.utag = t, !.gid = d, !.uid = u]
  <2>2. sess' = [sess EXCEPT ![c] = s]
    BY <2>0, <2>1 DEF loginToServer
  <2> HIDE DEF t, d, u
  <2>3. s.stage = sess[c].stage
    BY <2>0 DEF Object
  <2> HIDE DEF s
  <2>4. \A b \in Addresses : sess'[b].stage = sess[b].stage
    BY <2>0, <2>2, <2>3
  <2> QED
    BY <2>4, SameLives
<1> QED
  BY <1>1, <1>2

LEMMA StepLives == ASSUME Good, [Next]_vars PROVE L!Next \/ lives' = lives
<1>0. sess \in [Addresses -> Object]
  BY DEF Good, Sound, Worlds, World
<1>1. CASE uv_startTcpEvent
  BY <1>1, AcceptBegins DEF L!Next
<1>2. CASE checkConnected
  BY <1>2, TriedBegin DEF L!Next
<1>3. ASSUME NEW a \in Addresses, NEW status \in {0, 1}, after_connect(a, status)
      PROVE  L!Next \/ lives' = lives
  BY <1>3, ConnectLives DEF L!Next
<1>4. ASSUME NEW a \in Addresses, readError(a) \/ illegalFrame(a)
      PROVE  L!Next \/ lives' = lives
  BY <1>4, ClosedLives DEF L!Next
<1>5. ASSUME NEW a \in Addresses, uv_close_oneClient(a) PROVE L!Next
  <2>1. sess[a].stage = "shutdown" /\ sess' = [sess EXCEPT ![a] = HandleClosed(sess[a])]
    BY <1>5 DEF uv_close_oneClient
  <2>2. /\ sess'[a] = HandleClosed(sess[a]) /\ HandleClosed(sess[a]).stage = "closing"
        /\ \A b \in Addresses : b # a => sess'[b] = sess[b]
    BY <1>0, <2>1 DEF HandleClosed, Object
  <2>3. phase(sess[a]) = "ended" /\ phase(sess'[a]) = "closing"
    BY <2>1, <2>2 DEF phase
  <2>4. \A b \in Addresses : b # a => phase(sess'[b]) = phase(sess[b])
    BY <2>2
  <2>5. L!CloseHandle(a)
    BY <2>3, <2>4, OneBlock DEF L!CloseHandle, lives
  <2> QED
    BY <2>5 DEF L!Next
<1>6. ASSUME NEW a \in Addresses, uv_closeClient(a) PROVE L!Next
  <2>1. sess[a].stage = "closing" /\ sess' = [sess EXCEPT ![a] = Freed(sess[a])]
    BY <1>6 DEF uv_closeClient
  <2>2. /\ sess'[a] = Freed(sess[a]) /\ Freed(sess[a]).stage = "free"
        /\ \A b \in Addresses : b # a => sess'[b] = sess[b]
    BY <1>0, <2>1 DEF Freed, Object
  <2>3. phase(sess[a]) = "closing" /\ phase(sess'[a]) = "free"
    BY <2>1, <2>2 DEF phase
  <2>4. \A b \in Addresses : b # a => phase(sess'[b]) = phase(sess[b])
    BY <2>2
  <2>5. L!GiveBack(a)
    BY <2>3, <2>4, OneBlock DEF L!GiveBack, lives
  <2> QED
    BY <2>5 DEF L!Next
<1>7. ASSUME NEW a \in Addresses, NEW k \in Stypes, NEW ctype \in Commands,
             sendToServer(a, k, ctype)
      PROVE  lives' = lives
  BY <1>7, LoginLives
<1>8. ASSUME NEW m \in pending, NEW g \in GuestIds, guestLoginRes(m, g)
      PROVE  L!Next \/ lives' = lives
  BY <1>8, KickLives DEF L!Next
<1>9. CASE \/ \E a \in Addresses : otherRes(a)
           \/ \E m \in pending : loginRefused(m) \/ unanswered(m)
           \/ UNCHANGED vars
  <2>1. sess' = sess
    BY <1>9 DEF otherRes, loginRefused, unanswered, vars
  <2> QED
    BY <2>1 DEF lives
<1> QED
  BY <1>1, <1>2, <1>3, <1>4, <1>5, <1>6, <1>7, <1>8, <1>9 DEF Next

(* Whole handlers of the gateway, with every notice and close inside them, do   *)
(* to sessions what single callbacks do: whatever client_gid leads a login to, *)
(* the session it kicks ends as any other, and its block is still there when   *)
(* the handler returns (gateway.lua:140-160, session_uv.cc:102-132).           *)
THEOREM RefinesLives == Spec => ImplementsLives
<1>1. Init => L!Init
  <2>1. phase(Created("free", FALSE)) = "free"
    BY DEF Created, phase
  <2> QED
    BY <2>1 DEF Init, L!Init
<1>2. IInv /\ [Next]_vars => [L!Next]_(lives)
  <2>1. IInv => Good
    BY DEF IInv, Good
  <2> QED
    BY <2>1, StepLives
<1> QED
  BY <1>1, <1>2, Inductive, PTL DEF Spec, ImplementsLives, L!Spec, lives
=============================================================================
