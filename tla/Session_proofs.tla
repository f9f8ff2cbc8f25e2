---------------------------- MODULE Session_proofs ----------------------------
(* Proofs about module Session, for pools and listeners of any number: a       *)
(* session is announced, closed and given back once, whoever closes it.        *)
EXTENDS Session, SessionState_proofs

Object == [stage : Stages, as_client : BOOLEAN, reading : BOOLEAN,
           utag : Nat, uid : Nat, gid : Nat]
Kinds == {"TCP_SOCKET", "WEB_SOCKET", "session pointer"}

(* BlocksAccounted, in the terms of the facts about lists. *)
Accounted == /\ Distinct(listCache)
             /\ \A a \in Addresses : sess[a].stage = "free" <=> Listed(a, listCache)

(* EndedOnce, for one block. *)
Ended(a) ==
  /\ CASE isShotdown(sess[a]) -> notified[a] = 1
       [] sess[a].stage \in {"connecting", "open", "orphan"} -> notified[a] = 0
       [] OTHER -> notified[a] <= 1
  /\ uv_closed[a] = IF sess[a].stage \in {"cancelled", "closing"} THEN 1
                    ELSE IF sess[a].stage = "free" THEN notified[a] ELSE 0

IInv == TypeOK /\ Accounted /\ \A a \in Addresses : Ended(a)

LEMMA IInvSuffices == IInv => TypeOK /\ BlocksAccounted /\ EndedOnce
<1> SUFFICES ASSUME IInv PROVE TypeOK /\ BlocksAccounted /\ EndedOnce
  OBVIOUS
<1>1. BlocksAccounted
  BY DEF IInv, Accounted, Distinct, Listed, BlocksAccounted
<1>2. NotifiedOnce /\ UvCloseOnce
  BY DEF IInv, Ended, NotifiedOnce, UvCloseOnce
<1> QED
  BY <1>1, <1>2 DEF IInv, EndedOnce

LEMMA ObjectsTyped ==
  ASSUME TypeOK, NEW a \in Addresses
  PROVE  /\ sess[a] \in Object
         /\ ReadEnded(sess[a]) \in Object /\ ReadEnded(sess[a]).stage = sess[a].stage
         /\ NotConnected(sess[a]) \in Object
         /\ NotConnected(sess[a]).stage = IF sess[a].stage = "cancelled" THEN "closing" ELSE "orphan"
         /\ HandleClosed(sess[a]) \in Object /\ HandleClosed(sess[a]).stage = "closing"
         /\ Connected(sess[a]) \in Object /\ Connected(sess[a]).stage = "open"
         /\ Freed(sess[a]) \in Object /\ Freed(sess[a]).stage = "free"
BY DEF TypeOK, Object, Stages, ReadEnded, NotConnected, HandleClosed, Connected, Freed

(* A step that changes one block and leaves it in use. *)
LEMMA InUse ==
  ASSUME IInv, NEW a \in Addresses, NEW s \in Object,
         sess[a].stage # "free", s.stage # "free",
         sess' = [sess EXCEPT ![a] = s],
         notified' \in [Addresses -> 0..1], uv_closed' \in [Addresses -> 0..1],
         \A b \in Addresses : b # a => notified'[b] = notified[b] /\ uv_closed'[b] = uv_closed[b],
         Ended(a)',
         UNCHANGED <<listCache, server_data, socketType>>
  PROVE  IInv'
<1>1. sess' \in [Addresses -> Object] /\ sess'[a] = s
      /\ \A b \in Addresses : b # a => sess'[b] = sess[b]
  BY DEF IInv, TypeOK, Object
<1>2. TypeOK'
  BY <1>1 DEF IInv, TypeOK, Object
<1>3. Accounted'
  BY <1>1 DEF IInv, Accounted
<1>4. \A b \in Addresses : b # a => Ended(b)'
  BY <1>1 DEF IInv, Ended
<1> QED
  BY <1>2, <1>3, <1>4 DEF IInv

(* An object whose end is as far as that of another. *)
SameLife(r, s) == /\ s.stage # "free"
                  /\ isShotdown(s) <=> isShotdown(r)
                  /\ s.stage \in {"cancelled", "closing"} <=> r.stage \in {"cancelled", "closing"}

(* Session_uv::close, called on an object in use: the guard makes it once.     *)
LEMMA CloseOnce ==
  ASSUME IInv, NEW a \in Addresses, NEW s \in Object,
         sess[a].stage # "free", SameLife(sess[a], s),
         close(a, s), UNCHANGED <<listCache, server_data, socketType>>
  PROVE  IInv'
<1>1. /\ s.stage \in Stages \ {"free"} /\ sess[a].stage \in Stages \ {"free"}
      /\ ShutDown(s) \in Object
      /\ ShutDown(s).stage = CASE s.stage = "connecting" -> "cancelled"
                               [] s.stage = "orphan" -> "closing"
                               [] OTHER -> "shutdown"
  BY DEF IInv, TypeOK, Object, Stages, ShutDown, SameLife
<1>2. Ended(a)
  BY DEF IInv
<1>3. CASE isShotdown(s)
  <2>1. sess' = [sess EXCEPT ![a] = s] /\ UNCHANGED <<notified, uv_closed>>
    BY <1>3 DEF close
  <2>2. Ended(a)'
    <3>1. sess'[a] = s
      BY <1>1, <2>1 DEF IInv, TypeOK
    <3>2. notified'[a] = notified[a] /\ uv_closed'[a] = uv_closed[a]
      BY <2>1
    <3> QED
      BY <1>1, <1>2, <1>3, <3>1, <3>2 DEF Ended, isShotdown, SameLife, Stages
  <2> QED
    BY <1>1, <2>1, <2>2, InUse DEF IInv, TypeOK
<1>4. CASE ~ isShotdown(s)
  <2>1. /\ sess' = [sess EXCEPT ![a] = ShutDown(s)]
        /\ notified' = [notified EXCEPT ![a] = @ + 1]
        /\ uv_closed' = [uv_closed EXCEPT ![a] = IF ShutDown(s).stage = "shutdown" THEN @ ELSE @ + 1]
    BY <1>4 DEF close, closeOpen
  <2>2. sess[a].stage \in {"connecting", "open", "orphan"}
    BY <1>1, <1>4 DEF isShotdown, SameLife, Stages
  <2>3. notified[a] = 0 /\ uv_closed[a] = 0
    BY <1>2, <2>2 DEF Ended, isShotdown
  <2>4. /\ notified' \in [Addresses -> 0..1] /\ notified'[a] = 1
        /\ uv_closed' \in [Addresses -> 0..1]
        /\ uv_closed'[a] = IF ShutDown(s).stage = "shutdown" THEN 0 ELSE 1
        /\ \A b \in Addresses : b # a => notified'[b] = notified[b] /\ uv_closed'[b] = uv_closed[b]
    <3> DEFINE n == IF ShutDown(s).stage = "shutdown" THEN 0 ELSE 1
    <3>1. /\ notified \in [Addresses -> 0..1] /\ uv_closed \in [Addresses -> 0..1]
          /\ 1 \in 0..1 /\ n \in 0..1
      <4>1. notified \in [Addresses -> 0..1] /\ uv_closed \in [Addresses -> 0..1]
        BY DEF IInv, TypeOK
      <4>2. 1 \in 0..1 /\ n \in 0..1
        OBVIOUS
      <4> QED
        BY <4>1, <4>2
    <3>2. notified' = [notified EXCEPT ![a] = 1] /\ uv_closed' = [uv_closed EXCEPT ![a] = n]
      BY <2>1, <2>3, <3>1
    <3> HIDE DEF n
    <3>3. uv_closed'[a] = n
      BY <3>1, <3>2, Updated
    <3> QED
      BY <3>1, <3>2, <3>3, Updated DEF n
  <2>5. ShutDown(s).stage \in {"cancelled", "closing", "shutdown"}
    BY <1>1
  <2>6. sess'[a] = ShutDown(s)
    BY <2>1 DEF IInv, TypeOK
  <2>7. Ended(a)'
    BY <2>4, <2>5, <2>6 DEF Ended, isShotdown
  <2> QED
    BY <1>1, <2>1, <2>4, <2>5, <2>7, InUse
<1> QED
  BY <1>3, <1>4

LEMMA Create ==
  ASSUME IInv, NEW stage \in {"open", "connecting", "orphan"}, NEW as_client \in BOOLEAN,
         NEW type \in Kinds, create(stage, as_client, type),
         server_data' \in [Listeners -> Kinds]
  PROVE  IInv'
<1> DEFINE a == Head(listCache)
           s == Created(stage, as_client)
<1>1. listCache # <<>> /\ listCache \in Seq(Addresses) /\ Distinct(listCache)
  BY DEF IInv, TypeOK, Accounted, create
<1>2. /\ listCache' \in Seq(Addresses) /\ Distinct(listCache')
      /\ a \in Addresses
      /\ \A b : Listed(b, listCache') <=> Listed(b, listCache) /\ b # a
  BY <1>1, PopList DEF create
<1>3. /\ sess' = [sess EXCEPT ![a] = s]
      /\ socketType' = [socketType EXCEPT ![a] = type]
      /\ notified' = [notified EXCEPT ![a] = 0]
      /\ uv_closed' = [uv_closed EXCEPT ![a] = 0]
  BY DEF create
<1>4. s \in Object /\ s.stage = stage
  BY DEF Created, Object, Stages
<1> HIDE DEF a, s
<1>5. sess' \in [Addresses -> Object] /\ sess'[a] = s
      /\ \A b \in Addresses : b # a => sess'[b] = sess[b]
  BY <1>2, <1>3, <1>4 DEF IInv, TypeOK, Object
<1>6. /\ notified' \in [Addresses -> 0..1] /\ notified'[a] = 0
      /\ uv_closed' \in [Addresses -> 0..1] /\ uv_closed'[a] = 0
      /\ \A b \in Addresses : b # a => notified'[b] = notified[b] /\ uv_closed'[b] = uv_closed[b]
      /\ socketType' \in [Addresses -> Kinds]
  <2>1. notified \in [Addresses -> 0..1] /\ uv_closed \in [Addresses -> 0..1]
    BY DEF IInv, TypeOK
  <2>3. 0 \in 0..1
    OBVIOUS
  <2>2. socketType \in [Addresses -> Kinds]
    BY DEF IInv, TypeOK, Kinds
  <2> QED
    BY <1>2, <1>3, <2>1, <2>2, <2>3, Updated
<1>9. TypeOK'
  <2>1. server_data' \in [Listeners -> Kinds]
    OBVIOUS
  <2> QED
    BY <1>2, <1>5, <1>6, <2>1 DEF TypeOK, Object, Kinds
<1>7. Accounted'
  BY <1>2, <1>4, <1>5 DEF IInv, Accounted
<1>8. ASSUME NEW b \in Addresses PROVE Ended(b)'
  <2>1. CASE b = a
    BY <1>4, <1>5, <1>6, <2>1 DEF Ended, isShotdown
  <2>2. CASE b # a
    BY <1>5, <1>6, <2>2 DEF IInv, Ended
  <2> QED
    BY <2>1, <2>2
<1> QED
  BY <1>7, <1>8, <1>9 DEF IInv

LEMMA HandleIsClosed ==
  ASSUME IInv, NEW a \in Addresses, uv_close_oneClient(a)
  PROVE  IInv'
<1>1. /\ sess[a].stage = "shutdown"
      /\ sess' = [sess EXCEPT ![a] = HandleClosed(sess[a])]
      /\ uv_closed' = [uv_closed EXCEPT ![a] = @ + 1]
      /\ UNCHANGED <<listCache, server_data, socketType, notified>>
  BY DEF uv_close_oneClient
<1>2. notified[a] = 1 /\ uv_closed[a] = 0
  BY <1>1 DEF IInv, Ended, isShotdown
<1>3. HandleClosed(sess[a]) \in Object /\ HandleClosed(sess[a]).stage = "closing"
  BY ObjectsTyped DEF IInv
<1>4. /\ uv_closed' \in [Addresses -> 0..1] /\ uv_closed'[a] = 1
      /\ \A b \in Addresses : b # a => uv_closed'[b] = uv_closed[b]
      /\ sess'[a] = HandleClosed(sess[a])
  <2>1. uv_closed \in [Addresses -> 0..1] /\ sess \in [Addresses -> Object]
    BY DEF IInv, TypeOK, Object
  <2>2. uv_closed' = [uv_closed EXCEPT ![a] = 1]
    BY <1>1, <1>2, <2>1
  <2> QED
    BY <1>1, <2>1, <2>2
<1>5. Ended(a)'
  BY <1>1, <1>2, <1>3, <1>4 DEF Ended, isShotdown
<1> QED
  BY <1>1, <1>3, <1>4, <1>5, InUse DEF IInv, TypeOK

LEMMA Destroyed ==
  ASSUME IInv, NEW a \in Addresses, uv_closeClient(a)
  PROVE  IInv'
<1>1. /\ sess[a].stage = "closing"
      /\ sess' = [sess EXCEPT ![a] = Freed(sess[a])]
      /\ listCache' = Push(listCache, a)
      /\ UNCHANGED <<server_data, socketType, notified, uv_closed>>
  BY DEF uv_closeClient
<1>2. ~ Listed(a, listCache) /\ listCache \in Seq(Addresses) /\ Distinct(listCache)
  BY <1>1 DEF IInv, TypeOK, Accounted
<1>3. /\ listCache' \in Seq(Addresses) /\ Distinct(listCache')
      /\ \A b : Listed(b, listCache') <=> b = a \/ Listed(b, listCache)
  BY <1>1, <1>2, PushList
<1>4. Freed(sess[a]) \in Object /\ Freed(sess[a]).stage = "free"
  BY ObjectsTyped DEF IInv
<1>5. sess' \in [Addresses -> Object] /\ sess'[a] = Freed(sess[a])
      /\ \A b \in Addresses : b # a => sess'[b] = sess[b]
  BY <1>1, <1>4 DEF IInv, TypeOK, Object
<1>6. TypeOK'
  BY <1>1, <1>3, <1>5 DEF IInv, TypeOK, Object
<1>7. Accounted'
  BY <1>3, <1>4, <1>5 DEF IInv, Accounted
<1>8. ASSUME NEW b \in Addresses PROVE Ended(b)'
  <2>1. Ended(b)
    BY DEF IInv
  <2>2. CASE b = a
    <3>1. notified[a] = 1 /\ uv_closed[a] = 1
      BY <1>1, <2>1, <2>2 DEF Ended, isShotdown
    <3> QED
      BY <1>1, <1>4, <1>5, <2>2, <3>1 DEF Ended, isShotdown
  <2>3. CASE b # a
    BY <1>1, <1>5, <2>1, <2>3 DEF Ended
  <2> QED
    BY <2>2, <2>3
<1> QED
  BY <1>6, <1>7, <1>8 DEF IInv

------------------------------------------------------------------------------
LEMMA InitIInv == Init => IInv
<1> SUFFICES ASSUME Init PROVE IInv
  OBVIOUS
<1>1. listCache \in Seq(Addresses) /\ Distinct(listCache)
      /\ \A a \in Addresses : Listed(a, listCache)
  BY FullListHoldsAll, SessionAssumption DEF Init
<1>2. Created("free", FALSE) \in Object /\ Created("free", FALSE).stage = "free"
  BY DEF Created, Object, Stages
<1>3. TypeOK
  <2>1. sess \in [Addresses -> Object]
    BY <1>2 DEF Init
  <2>2. server_data \in [Listeners -> Kinds] /\ socketType \in [Addresses -> Kinds]
    BY SessionAssumption DEF Init, Kinds
  <2>3. notified \in [Addresses -> 0..1] /\ uv_closed \in [Addresses -> 0..1]
    BY DEF Init
  <2> QED
    BY <1>1, <2>1, <2>2, <2>3 DEF TypeOK, Object, Kinds
<1>4. Accounted
  BY <1>1, <1>2 DEF Init, Accounted
<1>5. ASSUME NEW a \in Addresses PROVE Ended(a)
  <2>1. sess[a].stage = "free" /\ notified[a] = 0 /\ uv_closed[a] = 0
    BY <1>2 DEF Init
  <2> QED
    BY <2>1 DEF Ended, isShotdown
<1> QED
  BY <1>3, <1>4, <1>5 DEF IInv

LEMMA NextIInv == IInv /\ [Next]_vars => IInv'
<1> SUFFICES ASSUME IInv, [Next]_vars PROVE IInv'
  OBVIOUS
<1>1. ASSUME NEW l \in Listeners, uv_startTcpEvent(l) PROVE IInv'
  <2>1. server_data[l] \in Kinds /\ server_data' \in [Listeners -> Kinds]
    BY <1>1 DEF IInv, TypeOK, Kinds, uv_startTcpEvent
  <2>2. PICK stage \in {"open", "orphan"} : create(stage, FALSE, server_data[l])
    BY <1>1 DEF uv_startTcpEvent
  <2> QED
    BY <2>1, <2>2, Create
<1>2. CASE tcp_connect
  <2>1. server_data' \in [Listeners -> Kinds] /\ "TCP_SOCKET" \in Kinds
    BY <1>2 DEF IInv, TypeOK, Kinds, tcp_connect
  <2>2. PICK stage \in {"connecting", "orphan"} : create(stage, TRUE, "TCP_SOCKET")
    BY <1>2 DEF tcp_connect
  <2> QED
    BY <2>1, <2>2, Create
<1>3. ASSUME NEW a \in Addresses, NEW status \in {0, 1}, after_connect(a, status) PROVE IInv'
  <2>1. CASE status = 0
    <3>1. /\ sess[a].stage = "connecting"
          /\ sess' = [sess EXCEPT ![a] = Connected(sess[a])]
          /\ UNCHANGED <<notified, uv_closed, listCache, server_data, socketType>>
      BY <1>3, <2>1 DEF after_connect
    <3>2. Connected(sess[a]) \in Object /\ Connected(sess[a]).stage = "open"
      BY ObjectsTyped DEF IInv
    <3>3. Ended(a) /\ sess'[a] = Connected(sess[a])
      BY <3>1 DEF IInv, TypeOK
    <3>4. Ended(a)'
      BY <3>1, <3>2, <3>3 DEF Ended, isShotdown
    <3> QED
      BY <3>1, <3>2, <3>4, InUse DEF IInv, TypeOK
  <2>2. CASE status # 0
    <3>1. /\ NotConnected(sess[a]) \in Object
          /\ SameLife(sess[a], NotConnected(sess[a])) /\ sess[a].stage # "free"
      BY <1>3, ObjectsTyped DEF IInv, after_connect, SameLife, isShotdown
    <3> QED
      BY <1>3, <2>2, <3>1, CloseOnce DEF after_connect
  <2> QED
    BY <2>1, <2>2
<1>4. ASSUME NEW a \in Addresses, handlerCloses(a) PROVE IInv'
  <2>1. sess[a] \in Object /\ sess[a].stage # "free" /\ SameLife(sess[a], sess[a])
    BY <1>4, ObjectsTyped DEF IInv, handlerCloses, SameLife
  <2> QED
    BY <1>4, <2>1, CloseOnce DEF handlerCloses
<1>5. ASSUME NEW a \in Addresses, readError(a) PROVE IInv'
  <2>1. /\ ReadEnded(sess[a]) \in Object /\ sess[a].stage # "free"
        /\ SameLife(sess[a], ReadEnded(sess[a]))
    BY <1>5, ObjectsTyped DEF IInv, readError, Receives, SameLife, isShotdown
  <2> QED
    BY <1>5, <2>1, CloseOnce DEF readError
<1>6. ASSUME NEW a \in Addresses, uv_close_oneClient(a) PROVE IInv'
  BY <1>6, HandleIsClosed
<1>7. ASSUME NEW a \in Addresses, uv_closeClient(a) PROVE IInv'
  BY <1>7, Destroyed
<1>8. CASE UNCHANGED vars
  BY <1>8 DEF vars, IInv, TypeOK, Accounted, Ended
<1> QED
  BY <1>1, <1>2, <1>3, <1>4, <1>5, <1>6, <1>7, <1>8 DEF Next

THEOREM Inductive == Spec => []IInv
BY InitIInv, NextIInv, PTL DEF Spec

(* The fields of sessions and the pool's list keep their types (session.h:9-14, *)
(* session_uv.h:19-63).                                                        *)
THEOREM TypeCorrect == Spec => []TypeOK
BY Inductive, IInvSuffices, PTL

(* destroy runs once for a session and create never returns one that is in     *)
(* use, whatever handlers, read errors and callbacks close it in what order    *)
(* (session_uv.cc:75-132).                                                     *)
THEOREM DestroyedOnce == Spec => []BlocksAccounted
BY Inductive, IInvSuffices, PTL

(* The services hear of the end of a session once, and libuv is asked to close *)
(* its handle once (the guard of Session_uv::close).                           *)
THEOREM AnnouncedOnce == Spec => []EndedOnce
BY Inductive, IInvSuffices, PTL

------------------------------------------------------------------------------
(* The lives of the blocks, as module Lives has them.                          *)
lives == [a \in Addresses |-> phase(sess[a])]

LEMMA CreateBegins ==
  ASSUME IInv, NEW stage \in {"open", "connecting", "orphan"}, NEW as_client, NEW type,
         create(stage, as_client, type)
  PROVE  L!Begin
<1> DEFINE a == Head(listCache)
           s == Created(stage, as_client)
<1>1. listCache # <<>> /\ listCache \in Seq(Addresses) /\ Distinct(listCache)
  BY DEF IInv, TypeOK, Accounted, create
<1>2. a \in Addresses /\ Listed(a, listCache)
  BY <1>1, PopList
<1>3. sess[a].stage = "free" /\ s.stage = stage
  BY <1>2 DEF IInv, Accounted, Created
<1>4. phase(sess[a]) = "free" /\ phase(s) = "used"
  BY <1>3 DEF phase
<1>5. sess' = [sess EXCEPT ![a] = s] /\ sess = [b \in Addresses |-> sess[b]]
  BY DEF create, IInv, TypeOK
<1> HIDE DEF a, s
<1>6. sess'[a] = s /\ \A b \in Addresses : b # a => sess'[b] = sess[b]
  BY <1>2, <1>5
<1>7. lives' = [b \in Addresses |-> IF b \in {a} THEN "used" ELSE lives[b]]
  BY <1>4, <1>6 DEF lives
<1>8. \A b \in {a} : lives[b] = "free"
  BY <1>2, <1>4 DEF lives
<1> QED
  BY <1>2, <1>7, <1>8 DEF L!Begin, lives

(* A step that changes one block.                                              *)
LEMMA OneBlock ==
  ASSUME IInv, NEW a \in Addresses, NEW s, sess' = [sess EXCEPT ![a] = s]
  PROVE  lives' = [lives EXCEPT ![a] = phase(s)] /\ lives[a] = phase(sess[a])
<1>1. sess'[a] = s /\ \A b \in Addresses : b # a => sess'[b] = sess[b]
  BY DEF IInv, TypeOK
<1>2. \A b \in Addresses : b # a => phase(sess'[b]) = phase(sess[b])
  BY <1>1
<1>3. lives' = [b \in Addresses |-> IF b = a THEN phase(s) ELSE lives[b]]
  BY <1>1, <1>2 DEF lives
<1>4. lives' = [lives EXCEPT ![a] = phase(s)]
  <2>1. DOMAIN lives = Addresses
    BY DEF lives
  <2> QED
    BY <1>3, <2>1
<1>5. lives[a] = phase(sess[a])
  BY DEF lives
<1> QED
  BY <1>4, <1>5, Zenon

(* Session_uv::close ends the session, or finds it ended.                      *)
LEMMA CloseEnds ==
  ASSUME IInv, NEW a \in Addresses, NEW s \in Object, sess[a].stage # "free",
         phase(s) = phase(sess[a]), close(a, s)
  PROVE  L!End(a) \/ lives' = lives
<1>1. sess[a].stage \in Stages /\ s.stage \in Stages
  BY ObjectsTyped DEF IInv, Object
<1>2. CASE isShotdown(s)
  <2>1. sess' = [sess EXCEPT ![a] = s]
    BY <1>2 DEF close
  <2>2. lives' = [lives EXCEPT ![a] = lives[a]]
    BY <2>1, OneBlock
  <2> QED
    BY <2>2 DEF lives
<1>3. CASE ~ isShotdown(s)
  <2>1. sess' = [sess EXCEPT ![a] = ShutDown(s)]
    BY <1>3 DEF close, closeOpen
  <2>2. phase(sess[a]) = "used"
    BY <1>1, <1>3, Phases DEF Stages
  <2>3. ShutDown(s).stage \in {"cancelled", "closing", "shutdown"}
    BY <1>1, <1>3 DEF ShutDown, Object, isShotdown, Stages
  <2>4. phase(ShutDown(s)) \in {"ended", "closing"}
    BY <2>3 DEF phase
  <2>5. lives' = [lives EXCEPT ![a] = phase(ShutDown(s))] /\ lives[a] = "used"
    BY <2>1, <2>2, OneBlock
  <2> QED
    BY <2>4, <2>5 DEF L!End, lives
<1> QED
  BY <1>2, <1>3

LEMMA StepLives == IInv /\ [Next]_vars => [L!Next]_lives
<1> SUFFICES ASSUME IInv, [Next]_vars PROVE L!Next \/ lives' = lives
  OBVIOUS
<1>1. ASSUME NEW l \in Listeners, uv_startTcpEvent(l) PROVE L!Next
  BY <1>1, CreateBegins DEF uv_startTcpEvent, L!Next
<1>2. CASE tcp_connect
  BY <1>2, CreateBegins DEF tcp_connect, L!Next
<1>3. ASSUME NEW a \in Addresses, NEW status \in {0, 1}, after_connect(a, status)
      PROVE  L!Next \/ lives' = lives
  <2>1. CASE status = 0
    <3>1. sess[a].stage = "connecting" /\ sess' = [sess EXCEPT ![a] = Connected(sess[a])]
      BY <1>3, <2>1 DEF after_connect
    <3>2. Connected(sess[a]).stage = "open"
      BY ObjectsTyped DEF IInv
    <3>3. phase(Connected(sess[a])) = phase(sess[a])
      BY <3>1, <3>2 DEF phase
    <3>4. lives' = [lives EXCEPT ![a] = lives[a]]
      BY <3>1, <3>3, OneBlock
    <3> QED
      BY <3>4 DEF lives
  <2>2. CASE status # 0
    <3>1. /\ sess[a].stage \in {"connecting", "cancelled"}
          /\ close(a, NotConnected(sess[a]))
      BY <1>3, <2>2 DEF after_connect
    <3>2. /\ NotConnected(sess[a]) \in Object
          /\ NotConnected(sess[a]).stage = IF sess[a].stage = "cancelled" THEN "closing" ELSE "orphan"
      BY ObjectsTyped DEF IInv
    <3>3. phase(NotConnected(sess[a])) = phase(sess[a])
      BY <3>1, <3>2 DEF phase
    <3> QED
      BY <3>1, <3>2, <3>3, CloseEnds DEF L!Next
  <2> QED
    BY <2>1, <2>2
<1>4. ASSUME NEW a \in Addresses, handlerCloses(a) PROVE L!Next \/ lives' = lives
  <2>1. sess[a] \in Object /\ sess[a].stage # "free" /\ close(a, sess[a])
    BY <1>4, ObjectsTyped DEF IInv, handlerCloses
  <2> QED
    BY <2>1, CloseEnds DEF L!Next
<1>5. ASSUME NEW a \in Addresses, readError(a) PROVE L!Next \/ lives' = lives
  <2>1. /\ ReadEnded(sess[a]) \in Object /\ ReadEnded(sess[a]).stage = sess[a].stage
        /\ sess[a].stage # "free" /\ close(a, ReadEnded(sess[a]))
    BY <1>5, ObjectsTyped DEF IInv, readError, Receives
  <2>2. phase(ReadEnded(sess[a])) = phase(sess[a])
    BY <2>1, SamePhase
  <2> QED
    BY <2>1, <2>2, CloseEnds DEF L!Next
<1>6. ASSUME NEW a \in Addresses, uv_close_oneClient(a) PROVE L!Next
  <2>1. sess[a].stage = "shutdown" /\ sess' = [sess EXCEPT ![a] = HandleClosed(sess[a])]
    BY <1>6 DEF uv_close_oneClient
  <2>2. phase(sess[a]) = "ended" /\ phase(HandleClosed(sess[a])) = "closing"
    <3>1. HandleClosed(sess[a]).stage = "closing"
      BY ObjectsTyped DEF IInv
    <3> QED
      BY <2>1, <3>1 DEF phase
  <2>3. L!CloseHandle(a)
    BY <2>1, <2>2, OneBlock DEF L!CloseHandle, lives
  <2> QED
    BY <2>3 DEF L!Next
<1>7. ASSUME NEW a \in Addresses, uv_closeClient(a) PROVE L!Next
  <2>1. sess[a].stage = "closing" /\ sess' = [sess EXCEPT ![a] = Freed(sess[a])]
    BY <1>7 DEF uv_closeClient
  <2>2. phase(sess[a]) = "closing" /\ phase(Freed(sess[a])) = "free"
    <3>1. Freed(sess[a]).stage = "free"
      BY ObjectsTyped DEF IInv
    <3> QED
      BY <2>1, <3>1 DEF phase
  <2>3. L!GiveBack(a)
    BY <2>1, <2>2, OneBlock DEF L!GiveBack, lives
  <2> QED
    BY <2>3 DEF L!Next
<1>8. CASE UNCHANGED vars
  BY <1>8 DEF vars, lives
<1> QED
  BY <1>1, <1>2, <1>3, <1>4, <1>5, <1>6, <1>7, <1>8 DEF Next

(* Whatever callbacks run in what order, the users of a session see its life    *)
(* begin, end, its handle close and its block return to the pool in that       *)
(* order; the last is a callback of its own, so that no handler sees a block   *)
(* vanish that it has just closed (session_uv.cc:102-132).                     *)
THEOREM RefinesLives == Spec => ImplementsLives
<1>1. Init => L!Init
  <2>1. phase(Created("free", FALSE)) = "free"
    BY DEF Created, phase
  <2> QED
    BY <2>1 DEF Init, L!Init
<1>2. IInv /\ [Next]_vars => [L!Next]_(lives)
  BY StepLives
<1> QED
  BY <1>1, <1>2, Inductive, PTL DEF Spec, ImplementsLives, L!Spec, lives
=============================================================================
