--------------------------- MODULE SendPath_proofs ---------------------------
(* Proofs about module SendPath, for messages of any length, pools of any size *)
(* and any number of listeners: what a header tells, whose a write request is, *)
(* and the format of what is sent.                                             *)
EXTENDS SendPath, Session_proofs

LEMMA LengthsAreNat == Lengths \subseteq Nat
BY SendAssumption DEF Lengths, encodeCmdMsg

(* The size in a TCP header is the size of the package up to 65535 bytes.      *)
LEMMA TcpRoundTrip ==
  ASSUME NEW len \in Nat, len + 2 < 65536
  PROVE  readTcpHeader(tcpHeader(len)) = len + 2
<1>1. (len + 2) \div 256 \in 0..255
  OBVIOUS
<1>2. ((len + 2) \div 256) % 256 = (len + 2) \div 256
  BY <1>1
<1>3. ((len + 2) % 256) + 256 * ((len + 2) \div 256) = len + 2
  OBVIOUS
<1> QED
  BY <1>2, <1>3 DEF readTcpHeader, tcpHeader

(* The size in a web header is the size of the package, whatever its length.   *)
LEMMA WebRoundTrip ==
  ASSUME NEW len \in Nat, len < 65536
  PROVE  readWebHeader(webHeader(len)) = Len(webHeader(len)) + 1 + len
<1>1. CASE len <= 125
  BY <1>1 DEF readWebHeader, webHeader
<1>2. CASE len > 125
  <2>1. len \div 256 \in 0..255
    OBVIOUS
  <2>2. (len \div 256) % 256 = len \div 256
    BY <2>1
  <2>3. (len % 256) + 256 * (len \div 256) = len
    OBVIOUS
  <2>4. webHeader(len) = <<126, len \div 256, len % 256>>
    BY <1>2, <2>2 DEF webHeader
  <2>5. Len(webHeader(len)) = 3
    BY <2>4
  <2>6. readWebHeader(webHeader(len)) = 4 + (len % 256) + 256 * (len \div 256)
    BY <2>4 DEF readWebHeader
  <2> QED
    BY <2>3, <2>5, <2>6
<1> QED
  BY <1>1, <1>2

------------------------------------------------------------------------------
Tells(pkg) ==
  /\ pkg.format = "tcp" /\ pkg.size < 65536 => readTcpHeader(pkg.head) = pkg.size
  /\ pkg.format = "web" => readWebHeader(pkg.head) = pkg.size

(* The packages that sendData and the handshake make, and the writes of them.  *)
Packages == {TcpPackage(len) : len \in Lengths} \cup {WebPackage(len) : len \in Lengths}
              \cup {Raw(place, len) : place \in Places, len \in Lengths \cup {0}}
Writes == [req : Requests, pkg : Packages, msg : Addresses \X (Lengths \cup {0})]

LEMMA PackageMade ==
  ASSUME NEW a \in Addresses, NEW len \in Lengths
  PROVE  Package(a, len) \in Packages
BY DEF Package, Packages, Places

LEMMA PackageTells ==
  ASSUME NEW pkg \in Packages PROVE Tells(pkg)
<1>1. ASSUME NEW place, NEW len PROVE Tells(Raw(place, len))
  BY DEF Tells, Raw
<1>2. ASSUME NEW len \in Lengths PROVE Tells(TcpPackage(len))
  BY TcpRoundTrip, LengthsAreNat DEF Tells, TcpPackage
<1>3. ASSUME NEW len \in Lengths PROVE Tells(WebPackage(len))
  <2>1. CASE len >= 65536
    BY <1>1, <2>1 DEF WebPackage
  <2>2. CASE len < 65536
    BY <2>2, WebRoundTrip, LengthsAreNat DEF Tells, WebPackage
  <2> QED
    BY <2>1, <2>2, LengthsAreNat
<1> QED
  BY <1>1, <1>2, <1>3 DEF Packages

------------------------------------------------------------------------------
(* Requests come from the pool, and every write queued is one of a package.    *)
QueueInv == /\ idle \subseteq Requests
            /\ writes \in [Addresses -> Seq(Writes)]

LEMMA SendQueues ==
  ASSUME QueueInv, NEW a \in Addresses, NEW pkg \in Packages,
         NEW len \in Lengths \cup {0}, sendData(a, pkg, <<a, len>>)
  PROVE  QueueInv'
<1> DEFINE req == CHOOSE r \in idle : TRUE
<1>1. req \in Requests
  BY DEF sendData, QueueInv
<1> HIDE DEF req
<1> DEFINE w == [req |-> req, pkg |-> pkg, msg |-> <<a, len>>]
<1>2. w \in Writes
  BY <1>1 DEF Writes
<1> HIDE DEF w
<1>3. /\ idle' = idle \ {req}
      /\ writes' = [writes EXCEPT ![a] = Append(@, w)] \/ writes' = writes
  BY DEF sendData, uv_write, req, w
<1>4. Append(writes[a], w) \in Seq(Writes)
  BY <1>2 DEF QueueInv
<1> QED
  BY <1>3, <1>4 DEF QueueInv

LEMMA NextQueues == QueueInv /\ [SendNext]_<<vars, sendVars>> => QueueInv'
<1> SUFFICES ASSUME QueueInv, [SendNext]_<<vars, sendVars>> PROVE QueueInv'
  OBVIOUS
<1>1. CASE SessionCreated
  BY <1>1 DEF SessionCreated, QueueInv
<1>2. ASSUME NEW a \in Addresses, SessionStep(a) PROVE QueueInv'
  BY <1>2 DEF SessionStep, sendVars, QueueInv
<1>3. ASSUME NEW a \in Addresses, NEW len \in Lengths, handlerSends(a, len) PROVE QueueInv'
  BY <1>3, PackageMade, SendQueues DEF handlerSends
<1>4. ASSUME NEW a \in Addresses, webserShakeHand(a) PROVE QueueInv'
  <2>1. Raw("sendClient", 0) \in Packages
    BY DEF Packages, Places, Buffers
  <2> QED
    BY <1>4, <2>1, SendQueues DEF webserShakeHand
<1>5. ASSUME NEW a \in Addresses, uv_sendTcpBuf(a) PROVE QueueInv'
  <2>1. writes[a] \in Seq(Writes) /\ writes[a] # <<>>
    BY <1>5 DEF uv_sendTcpBuf, QueueInv
  <2>2. Tail(writes[a]) \in Seq(Writes) /\ Head(writes[a]) \in Writes
    BY <2>1
  <2>3. Head(writes[a]).req \in Requests
    BY <2>2 DEF Writes
  <2> QED
    BY <1>5, <2>2, <2>3 DEF uv_sendTcpBuf, QueueInv
<1>6. CASE UNCHANGED <<vars, sendVars>>
  BY <1>6 DEF sendVars, QueueInv
<1> QED
  BY <1>1, <1>2, <1>3, <1>4, <1>5, <1>6 DEF SendNext

(* The receiver of any message below 64 KiB finds its end in the stream: the   *)
(* bytes parserRecvData and sendPackageData write are the ones readTcpHeader   *)
(* and readWebHeader read back, for every length handlers send.                *)
THEOREM HeadersTell == SendSpec => []HeaderTells
<1>1. SendInit => QueueInv
  BY DEF SendInit, QueueInv
<1>2. QueueInv => HeaderTells
  <2> SUFFICES ASSUME QueueInv, NEW a \in Addresses, NEW w \in Pending(a) PROVE Tells(w.pkg)
    BY DEF HeaderTells, Tells
  <2>1. w \in Writes
    BY DEF QueueInv, Pending
  <2>2. w.pkg \in Packages
    BY <2>1 DEF Writes
  <2> QED
    BY <2>2, PackageTells
<1> QED
  BY <1>1, <1>2, NextQueues, PTL DEF SendSpec
------------------------------------------------------------------------------
(* Every step is one of the sessions', or leaves them alone.                   *)
LEMMA StepsOfSessions == [SendNext]_<<vars, sendVars>> => [Next]_vars
<1> SUFFICES ASSUME [SendNext]_<<vars, sendVars>> PROVE [Next]_vars
  OBVIOUS
<1>1. CASE SessionCreated
  BY <1>1 DEF SessionCreated, Next
<1>2. ASSUME NEW a \in Addresses, SessionStep(a) PROVE Next
  BY <1>2 DEF SessionStep, Next
<1>3. ASSUME NEW a \in Addresses, NEW len \in Lengths, handlerSends(a, len)
      PROVE UNCHANGED vars
  BY <1>3 DEF handlerSends
<1>4. ASSUME NEW a \in Addresses, webserShakeHand(a) \/ uv_sendTcpBuf(a)
      PROVE UNCHANGED vars
  BY <1>4 DEF webserShakeHand, uv_sendTcpBuf
<1> QED
  BY <1>1, <1>2, <1>3, <1>4 DEF SendNext

(* What is proved of the sessions alone holds when they send: SendSpec          *)
(* implements the specification of their life.                                 *)
THEOREM SendsAreSessions == SendSpec => Spec
<1>1. SendInit => Init
  BY DEF SendInit
<1> QED
  BY <1>1, StepsOfSessions, PTL DEF SendSpec, Spec

------------------------------------------------------------------------------
(* RequestsReturned. *)
LEMMA SendAccounts ==
  ASSUME QueueInv, RequestsReturned, NEW a \in Addresses, NEW pkg \in Packages,
         NEW len \in Lengths \cup {0}, sendData(a, pkg, <<a, len>>),
         sess[a].stage # "free", UNCHANGED sess
  PROVE  RequestsReturned'
<1> DEFINE req == CHOOSE r \in idle : TRUE
           w == [req |-> req, pkg |-> pkg, msg |-> <<a, len>>]
<1>1. req \in idle /\ req \in Requests /\ w.req = req
  BY DEF sendData, QueueInv
<1>2. /\ idle' = idle \ {req}
      /\ \/ writes' = [writes EXCEPT ![a] = Append(@, w)] /\ lost' = lost
         \/ writes' = writes /\ lost' = lost \cup {req}
  BY DEF sendData, uv_write
<1>w. w \in Writes
  BY <1>1 DEF Writes
<1> HIDE DEF req, w
<1>3. ~ InFlight(req) /\ req \notin lost
  BY <1>1 DEF RequestsReturned
<1>4. CASE writes' = writes /\ lost' = lost \cup {req}
  BY <1>1, <1>2, <1>3, <1>4 DEF RequestsReturned, InFlight
<1>5. CASE writes' = [writes EXCEPT ![a] = Append(@, w)] /\ lost' = lost
  <2>1. writes[a] \in Seq(Writes) /\ Len(writes[a]) \in Nat
    BY DEF QueueInv
  <2> DEFINE n == Len(writes[a])
  <2>2. /\ Len(writes'[a]) = n + 1 /\ writes'[a][n + 1] = w
        /\ \A i \in 1..n : writes'[a][i] = writes[a][i]
        /\ \A b \in Addresses : b # a => writes'[b] = writes[b]
    BY <1>5, <1>w, <2>1 DEF QueueInv
  <2> HIDE DEF n
  <2>n. n \in Nat /\ n = Len(writes[a])
    BY <2>1 DEF n
  <2>3. \A i \in 1..(n + 1) : i = n + 1 \/ i \in 1..n
    BY <2>n
  <2>4. 1..n \subseteq 1..(n + 1) /\ n + 1 \in 1..(n + 1)
    BY <2>n
  <2>5. ASSUME NEW r PROVE InFlight(r)' <=> InFlight(r) \/ r = req
    <3>1. ASSUME InFlight(r)' PROVE InFlight(r) \/ r = req
      <4>1. PICK b \in Addresses : \E i \in 1..Len(writes'[b]) : writes'[b][i].req = r
        BY <3>1 DEF InFlight
      <4>2. CASE b = a
        BY <1>1, <2>2, <2>3, <2>n, <4>1, <4>2 DEF InFlight
      <4>3. CASE b # a
        BY <2>2, <4>1, <4>3 DEF InFlight
      <4> QED
        BY <4>2, <4>3
    <3>2. ASSUME InFlight(r) PROVE InFlight(r)'
      <4>1. PICK b \in Addresses : \E i \in 1..Len(writes[b]) : writes[b][i].req = r
        BY <3>2 DEF InFlight
      <4>2. CASE b = a
        BY <2>2, <2>4, <2>n, <4>1, <4>2 DEF InFlight
      <4>3. CASE b # a
        BY <2>2, <4>1, <4>3 DEF InFlight
      <4> QED
        BY <4>2, <4>3
    <3>3. ASSUME r = req PROVE InFlight(r)'
      BY <1>1, <2>2, <2>4, <3>3 DEF InFlight
    <3> QED
      BY <3>1, <3>2, <3>3
  <2>6. ASSUME NEW b \in Addresses, NEW i \in 1..Len(writes'[b])
        PROVE \/ i \in 1..Len(writes[b]) /\ writes'[b][i] = writes[b][i]
              \/ b = a /\ i = n + 1 /\ writes'[b][i].req = req
    BY <1>1, <2>2, <2>3, <2>n
  <2>7. ASSUME NEW b \in Addresses, NEW c \in Addresses,
               NEW i \in 1..Len(writes'[b]), NEW j \in 1..Len(writes'[c]),
               writes'[b][i].req = writes'[c][j].req
        PROVE b = c /\ i = j
    <3>1. \A d \in Addresses : \A k \in 1..Len(writes[d]) : writes[d][k].req # req
      BY <1>3 DEF InFlight
    <3>2. /\ \/ i \in 1..Len(writes[b]) /\ writes'[b][i] = writes[b][i]
             \/ b = a /\ i = n + 1 /\ writes'[b][i].req = req
          /\ \/ j \in 1..Len(writes[c]) /\ writes'[c][j] = writes[c][j]
             \/ c = a /\ j = n + 1 /\ writes'[c][j].req = req
      BY <2>6
    <3>3. CASE b = a /\ i = n + 1 /\ writes'[b][i].req = req
      BY <2>7, <3>1, <3>2, <3>3
    <3>4. CASE c = a /\ j = n + 1 /\ writes'[c][j].req = req
      BY <2>7, <3>1, <3>2, <3>4
    <3>5. CASE /\ i \in 1..Len(writes[b]) /\ writes'[b][i] = writes[b][i]
               /\ j \in 1..Len(writes[c]) /\ writes'[c][j] = writes[c][j]
      <4>1. writes[b][i].req = writes[c][j].req
        BY <2>7, <3>5
      <4> QED
        BY <3>5, <4>1 DEF RequestsReturned
    <3> QED
      BY <3>2, <3>3, <3>4, <3>5
  <2>8. \A r \in Requests : InFlight(r)' <=> r \notin idle' \cup lost'
    BY <1>1, <1>2, <1>3, <1>5, <2>5 DEF RequestsReturned
  <2> QED
    BY <1>2, <1>5, <2>2, <2>7, <2>8 DEF RequestsReturned
<1> QED
  BY <1>2, <1>4, <1>5

LEMMA SentReturns ==
  ASSUME QueueInv, RequestsReturned, NEW a \in Addresses, uv_sendTcpBuf(a)
  PROVE  RequestsReturned'
<1> DEFINE q == writes[a]
           req == Head(q).req
<1>1. q \in Seq(Writes) /\ q # <<>> /\ Len(q) \in Nat
  BY DEF uv_sendTcpBuf, QueueInv
<1>2. /\ idle' = idle \cup {req} /\ writes' = [writes EXCEPT ![a] = Tail(q)]
      /\ lost' = lost /\ sess' = sess
  BY DEF uv_sendTcpBuf, vars, sendVars
<1>3. /\ Len(Tail(q)) = Len(q) - 1 /\ Len(q) >= 1
      /\ \A i \in 1..(Len(q) - 1) : Tail(q)[i] = q[i + 1]
      /\ req = q[1].req
  BY <1>1
<1>4. /\ writes'[a] = Tail(q)
      /\ \A b \in Addresses : b # a => writes'[b] = writes[b]
  BY <1>2 DEF QueueInv
<1>r. req \in Requests
  <2>1. Head(q) \in Writes
    BY <1>1
  <2> QED
    BY <2>1 DEF Writes
<1> HIDE DEF req
<1>5. ASSUME NEW i \in 1..(Len(q) - 1) PROVE i + 1 \in 1..Len(q) /\ i + 1 # 1
  BY <1>1
<1>6. ASSUME NEW i \in 1..Len(q), i # 1 PROVE i - 1 \in 1..(Len(q) - 1) /\ (i - 1) + 1 = i
  BY <1>1, <1>6
<1>7. 1 \in 1..Len(q)
  BY <1>1, <1>3
<1>8. ASSUME NEW b \in Addresses, NEW i \in 1..Len(writes[b]), writes[b][i].req = req
      PROVE b = a /\ i = 1
  BY <1>3, <1>7, <1>8 DEF RequestsReturned
<1>9. ASSUME NEW r PROVE InFlight(r)' <=> InFlight(r) /\ r # req
  <2>1. ASSUME InFlight(r)' PROVE InFlight(r) /\ r # req
    <3>1. PICK b \in Addresses : \E i \in 1..Len(writes'[b]) : writes'[b][i].req = r
      BY <2>1 DEF InFlight
    <3>2. CASE b = a
      <4>1. PICK i \in 1..(Len(q) - 1) : q[i + 1].req = r
        BY <1>3, <1>4, <3>1, <3>2
      <4> QED
        BY <1>5, <1>8, <4>1 DEF InFlight
    <3>3. CASE b # a
      BY <1>4, <1>8, <3>1, <3>3 DEF InFlight
    <3> QED
      BY <3>2, <3>3
  <2>2. ASSUME InFlight(r), r # req PROVE InFlight(r)'
    <3>1. PICK b \in Addresses : \E i \in 1..Len(writes[b]) : writes[b][i].req = r
      BY <2>2 DEF InFlight
    <3>2. CASE b = a
      <4>1. PICK i \in 1..Len(q) : q[i].req = r /\ i # 1
        BY <1>3, <2>2, <3>1, <3>2
      <4>2. i - 1 \in 1..Len(writes'[a]) /\ writes'[a][i - 1].req = r
        BY <1>3, <1>4, <1>6, <4>1
      <4> QED
        BY <4>2 DEF InFlight
    <3>3. CASE b # a
      BY <1>4, <3>1, <3>3 DEF InFlight
    <3> QED
      BY <3>2, <3>3
  <2> QED
    BY <2>1, <2>2
<1>10. InFlight(req) /\ req \notin lost
  <2>1. InFlight(req)
    BY <1>3, <1>7 DEF InFlight
  <2> QED
    BY <1>r, <2>1 DEF RequestsReturned
<1>11. \A r \in Requests : InFlight(r)' <=> r \notin idle' \cup lost'
  BY <1>2, <1>9, <1>10 DEF RequestsReturned
<1>12. ASSUME NEW b \in Addresses, NEW c \in Addresses,
              NEW i \in 1..Len(writes'[b]), NEW j \in 1..Len(writes'[c]),
              writes'[b][i].req = writes'[c][j].req
       PROVE b = c /\ i = j
  <2> DEFINE at(d, k) == IF d = a THEN k + 1 ELSE k
  <2>1. ASSUME NEW d \in Addresses, NEW k \in 1..Len(writes'[d])
        PROVE at(d, k) \in 1..Len(writes[d]) /\ writes'[d][k] = writes[d][at(d, k)]
    BY <1>3, <1>4, <1>5
  <2> HIDE DEF at
  <2>2. b = c /\ at(b, i) = at(c, j)
    <3>1. /\ at(b, i) \in 1..Len(writes[b]) /\ at(c, j) \in 1..Len(writes[c])
          /\ writes[b][at(b, i)].req = writes[c][at(c, j)].req
      BY <1>12, <2>1
    <3> QED
      BY <3>1 DEF RequestsReturned
  <2>3. i \in Int /\ j \in Int
    OBVIOUS
  <2> QED
    BY <2>2, <2>3 DEF at
<1>13. ASSUME NEW b \in Addresses, sess[b].stage = "free" PROVE writes'[b] = <<>>
  <2>1. b # a
    BY <1>1, <1>13 DEF RequestsReturned
  <2> QED
    BY <1>4, <1>13, <2>1 DEF RequestsReturned
<1> QED
  BY <1>2, <1>10, <1>11, <1>12, <1>13 DEF RequestsReturned
LEMMA NextAccounts ==
  ASSUME IInv, QueueInv, RequestsReturned, [SendNext]_<<vars, sendVars>>
  PROVE  RequestsReturned'
<1>1. ASSUME NEW s \in Object, s.stage # "free", NEW a, sess' = [sess EXCEPT ![a] = s],
             UNCHANGED <<writes, idle, lost>>
      PROVE RequestsReturned'
  <2>1. \A b \in Addresses : sess'[b].stage = "free" => sess[b].stage = "free"
    BY <1>1 DEF IInv, TypeOK
  <2> QED
    BY <1>1, <2>1 DEF RequestsReturned, InFlight
<1>2. CASE SessionCreated
  <2>0. PICK stage \in {"open", "connecting", "orphan"}, as_client \in BOOLEAN :
          \E type : create(stage, as_client, type)
    BY <1>2 DEF SessionCreated, uv_startTcpEvent, tcp_connect
  <2>1. PICK type : create(stage, as_client, type)
    BY <2>0
  <2>2. sess' = [sess EXCEPT ![Head(listCache)] = Created(stage, as_client)]
    BY <2>1 DEF create
  <2>3. Created(stage, as_client) \in Object /\ Created(stage, as_client).stage # "free"
    BY DEF Created, Object, Stages
  <2> QED
    BY <1>1, <1>2, <2>2, <2>3 DEF SessionCreated
<1>3. ASSUME NEW a \in Addresses, SessionStep(a) PROVE RequestsReturned'
  <2>0. UNCHANGED <<writes, idle, lost>>
    BY <1>3 DEF SessionStep, sendVars
  <2>1. ASSUME NEW s \in {sess[a], ReadEnded(sess[a]), NotConnected(sess[a])},
               sess[a].stage # "free", close(a, s)
        PROVE RequestsReturned'
    <3>1. s \in Object /\ s.stage # "free" /\ ShutDown(s) \in Object
      <4>1. NotConnected(sess[a]).stage # "free"
        BY DEF NotConnected, IInv, TypeOK, Object
      <4>2. s \in Object /\ s.stage # "free"
        BY <2>1, <4>1, ObjectsTyped DEF IInv
      <4> QED
        BY <4>2 DEF ShutDown, Object, Stages
    <3>2. ShutDown(s).stage # "free"
      BY <3>1 DEF ShutDown, Object
    <3> QED
      BY <1>1, <2>0, <2>1, <3>1, <3>2 DEF close, closeOpen
  <2>2. ASSUME NEW status \in {0, 1}, after_connect(a, status) PROVE RequestsReturned'
    <3>1. CASE status = 0
      BY <1>1, <2>0, <2>2, <3>1, ObjectsTyped DEF after_connect, IInv
    <3>2. CASE status # 0
      BY <2>1, <2>2, <3>2 DEF after_connect
    <3> QED
      BY <3>1, <3>2
  <2>3. CASE handlerCloses(a)
    BY <2>1, <2>3 DEF handlerCloses
  <2>4. CASE readError(a)
    BY <2>1, <2>4 DEF readError, Receives
  <2>5. CASE uv_close_oneClient(a)
    BY <1>1, <2>0, <2>5, ObjectsTyped DEF uv_close_oneClient, IInv
  <2>6. CASE writes[a] = <<>> /\ uv_closeClient(a)
    <3>1. \A b \in Addresses : sess'[b].stage = "free" => sess[b].stage = "free" \/ b = a
      BY <2>6 DEF IInv, TypeOK, uv_closeClient
    <3> QED
      BY <2>0, <2>6, <3>1 DEF RequestsReturned, InFlight
  <2> QED
    BY <1>3, <2>2, <2>3, <2>4, <2>5, <2>6 DEF SessionStep
<1>4. ASSUME NEW a \in Addresses, NEW len \in Lengths, handlerSends(a, len)
      PROVE RequestsReturned'
  BY <1>4, PackageMade, SendAccounts DEF handlerSends, vars
<1>5. ASSUME NEW a \in Addresses, webserShakeHand(a) PROVE RequestsReturned'
  <2>1. Raw("sendClient", 0) \in Packages
    BY DEF Packages, Places, Buffers
  <2> QED
    BY <1>5, <2>1, SendAccounts DEF webserShakeHand, Receives, vars
<1>6. ASSUME NEW a \in Addresses, uv_sendTcpBuf(a) PROVE RequestsReturned'
  BY <1>6, SentReturns
<1>7. CASE UNCHANGED <<vars, sendVars>>
  BY <1>7 DEF vars, sendVars, RequestsReturned, InFlight
<1> QED
  BY <1>2, <1>3, <1>4, <1>5, <1>6, <1>7 DEF SendNext

------------------------------------------------------------------------------
(* SendTypeOK. *)
PackageType == [place : Places, head : Seq(0..255), size : Nat, format : {"raw", "tcp", "web"}]

LEMMA PackagesTyped == Packages \subseteq PackageType
<1>1. ASSUME NEW place \in Places, NEW len \in Nat PROVE Raw(place, len) \in PackageType
  BY DEF Raw, PackageType
<1>2. ASSUME NEW len \in Nat PROVE TcpPackage(len) \in PackageType
  <2>1. (len + 2) % 256 \in 0..255 /\ ((len + 2) \div 256) % 256 \in 0..255
    <3>1. (len + 2) \div 256 \in Nat
      OBVIOUS
    <3> QED
      BY <3>1
  <2>2. tcpHeader(len) \in Seq(0..255)
    BY <2>1 DEF tcpHeader
  <2>3. "wbuf" \in Places /\ "gone" \in Places
    BY DEF Places, Buffers
  <2> QED
    BY <2>2, <2>3 DEF TcpPackage, PackageType
<1>3. ASSUME NEW len \in Nat PROVE WebPackage(len) \in PackageType
  <2>1. len % 256 \in 0..255 /\ (len \div 256) % 256 \in 0..255
    <3>1. len \div 256 \in Nat
      OBVIOUS
    <3> QED
      BY <3>1
  <2>2. webHeader(len) \in Seq(0..255)
    <3>1. CASE len <= 125
      <4>1. len \in 0..255
        BY <3>1
      <4> QED
        BY <3>1, <4>1 DEF webHeader
    <3>2. CASE ~ (len <= 125)
      <4>1. 126 \in 0..255
        OBVIOUS
      <4> QED
        BY <2>1, <3>2, <4>1 DEF webHeader
    <3> QED
      BY <3>1, <3>2
  <2>3. "wbuf" \in Places /\ "gone" \in Places /\ "empty" \in Places
    BY DEF Places, Buffers
  <2>4. Len(webHeader(len)) + 1 + len \in Nat
    BY <2>2
  <2>5. Raw("empty", 0) \in PackageType
    BY <1>1, <2>3
  <2> QED
    BY <2>2, <2>3, <2>4, <2>5 DEF WebPackage, PackageType
<1> QED
  BY <1>1, <1>2, <1>3, LengthsAreNat DEF Packages
Messages == Addresses \X (Lengths \cup {0})

(* What SendTypeOK says beyond TypeOK and QueueInv. *)
RestTyped == /\ memory \in [Buffers -> Messages \cup {<<>>}]
             /\ lost \subseteq Requests
             /\ wsShake \in [Addresses -> BOOLEAN]
             /\ peer \in [Addresses -> Peers]

LEMMA TypedSuffices == TypeOK /\ QueueInv /\ RestTyped => SendTypeOK
<1>1. Writes \subseteq Write
  BY PackagesTyped DEF Writes, Write, PackageType
<1>2. ASSUME QueueInv PROVE writes \in [Addresses -> Seq(Write)]
  <2>1. ASSUME NEW a \in Addresses PROVE writes[a] \in Seq(Write)
    BY <1>1, <1>2 DEF QueueInv
  <2> QED
    BY <1>2, <2>1 DEF QueueInv
<1> QED
  BY <1>2 DEF SendTypeOK, QueueInv, RestTyped, Messages

LEMMA NextTyped ==
  ASSUME IInv, QueueInv, RestTyped, [SendNext]_<<vars, sendVars>>
  PROVE  RestTyped'
<1>1. ASSUME NEW a \in Addresses, NEW pkg, NEW len \in Lengths \cup {0},
             sendData(a, pkg, <<a, len>>)
      PROVE  /\ memory' \in [Buffers -> Messages \cup {<<>>}]
             /\ lost' \subseteq Requests
  <2>1. <<a, len>> \in Messages
    BY DEF Messages
  <2>2. memory' \in [Buffers -> Messages \cup {<<>>}]
    BY <1>1, <2>1 DEF sendData, fill, RestTyped
  <2>3. (CHOOSE r \in idle : TRUE) \in Requests
    BY <1>1 DEF sendData, QueueInv
  <2>4. lost' \subseteq Requests
    BY <1>1, <2>3 DEF sendData, uv_write, RestTyped
  <2> QED
    BY <2>2, <2>4
<1>2. CASE SessionCreated
  <2>1. ASSUME NEW expects \in Peers, CreatedFor(expects)
        PROVE peer' \in [Addresses -> Peers]
    BY <2>1 DEF CreatedFor, RestTyped
  <2>2. "tcp" \in Peers /\ \A l \in Listeners : AcceptedPeer(l) \in Peers
    BY DEF AcceptedPeer, Peers
  <2>3. peer' \in [Addresses -> Peers]
    BY <1>2, <2>1, <2>2 DEF SessionCreated
  <2> QED
    BY <1>2, <2>3 DEF SessionCreated, RestTyped
<1>3. ASSUME NEW a \in Addresses, SessionStep(a) PROVE RestTyped'
  BY <1>3 DEF SessionStep, sendVars, RestTyped
<1>4. ASSUME NEW a \in Addresses, NEW len \in Lengths, handlerSends(a, len) PROVE RestTyped'
  BY <1>1, <1>4 DEF handlerSends, RestTyped
<1>5. ASSUME NEW a \in Addresses, webserShakeHand(a) PROVE RestTyped'
  <2>1. wsShake' \in [Addresses -> BOOLEAN]
    BY <1>5 DEF webserShakeHand, RestTyped
  <2>2. peer' \in [Addresses -> Peers]
    BY <1>5 DEF webserShakeHand, RestTyped, Peers
  <2> QED
    BY <1>1, <1>5, <2>1, <2>2 DEF webserShakeHand, RestTyped
<1>6. ASSUME NEW a \in Addresses, uv_sendTcpBuf(a) PROVE RestTyped'
  BY <1>6 DEF uv_sendTcpBuf, RestTyped
<1>7. CASE UNCHANGED <<vars, sendVars>>
  BY <1>7 DEF sendVars, RestTyped
<1> QED
  BY <1>2, <1>3, <1>4, <1>5, <1>6, <1>7 DEF SendNext

------------------------------------------------------------------------------
(* FramedForPeer.  What the session remembers of its other end is what that    *)
(* end expects, except behind a listener whose data field was replaced; and    *)
(* the field is the kind of the listener until then.                           *)
PeerKnown(a) ==
  /\ peer[a] \in {"http", "web"} => socketType[a] = "WEB_SOCKET"
  /\ peer[a] \in {"http", "web"} => (wsShake[a] <=> peer[a] = "web")
  /\ peer[a] = "tcp" => socketType[a] # "WEB_SOCKET"

PeerInv == /\ \A l \in Listeners : server_data[l] \in {kind[l], "session pointer"}
           /\ \A a \in Addresses : PeerKnown(a)

LEMMA NextPeer ==
  ASSUME IInv, RestTyped, PeerInv, [SendNext]_<<vars, sendVars>>
  PROVE  PeerInv'
<1>1. CASE SessionCreated
  <2> DEFINE h == Head(listCache)
  <2>1. ASSUME NEW stage, NEW as_client, NEW type \in Kinds, create(stage, as_client, type),
               NEW expects \in {"tcp", "http", "late web"}, CreatedFor(expects),
               expects = "http" => type = "WEB_SOCKET",
               expects = "tcp" => type # "WEB_SOCKET"
        PROVE \A a \in Addresses : PeerKnown(a)'
    <3>1. /\ socketType' = [socketType EXCEPT ![h] = type]
          /\ peer' = [peer EXCEPT ![h] = expects]
          /\ wsShake' = [wsShake EXCEPT ![h] = FALSE]
      BY <1>1, <2>1 DEF SessionCreated, create, CreatedFor
    <3>2. DOMAIN socketType = Addresses /\ DOMAIN peer = Addresses /\ DOMAIN wsShake = Addresses
      BY DEF IInv, TypeOK, RestTyped
    <3>3. ASSUME NEW a \in Addresses, a # h PROVE PeerKnown(a)'
      BY <3>1, <3>2, <3>3 DEF PeerInv, PeerKnown
    <3>4. ASSUME NEW a \in Addresses, a = h PROVE PeerKnown(a)'
      <4>1. socketType'[a] = type /\ peer'[a] = expects /\ wsShake'[a] = FALSE
        BY <3>1, <3>2, <3>4
      <4>2. expects # "web"
        BY <2>1
      <4> QED
        BY <2>1, <4>1, <4>2 DEF PeerKnown
    <3> QED
      BY <3>3, <3>4
  <2>2. ASSUME NEW l \in Listeners, uv_startTcpEvent(l), CreatedFor(AcceptedPeer(l))
        PROVE PeerInv'
    <3>1. PICK stage \in {"open", "orphan"} : create(stage, FALSE, server_data[l])
      BY <2>2 DEF uv_startTcpEvent
    <3>2. /\ server_data[l] \in Kinds /\ kind[l] \in {"TCP_SOCKET", "WEB_SOCKET"}
          /\ server_data[l] \in {kind[l], "session pointer"}
      BY SessionAssumption DEF IInv, TypeOK, Kinds, PeerInv
    <3>3. /\ AcceptedPeer(l) \in {"tcp", "http", "late web"}
          /\ AcceptedPeer(l) = "http" => server_data[l] = "WEB_SOCKET"
          /\ AcceptedPeer(l) = "tcp" => server_data[l] # "WEB_SOCKET"
      BY <3>2 DEF AcceptedPeer
    <3>4. \A a \in Addresses : PeerKnown(a)'
      BY <2>1, <2>2, <3>1, <3>2, <3>3
    <3>5. \A k \in Listeners : server_data'[k] \in {server_data[k], "session pointer"}
      BY <2>2 DEF uv_startTcpEvent, IInv, TypeOK
    <3> QED
      BY <3>4, <3>5 DEF PeerInv
  <2>3. ASSUME tcp_connect, CreatedFor("tcp") PROVE PeerInv'
    <3>1. PICK stage \in {"connecting", "orphan"} : create(stage, TRUE, "TCP_SOCKET")
      BY <2>3 DEF tcp_connect
    <3>2. \A a \in Addresses : PeerKnown(a)'
      BY <2>1, <2>3, <3>1 DEF Kinds
    <3>3. server_data' = server_data
      BY <2>3 DEF tcp_connect
    <3> QED
      BY <3>2, <3>3 DEF PeerInv
  <2> QED
    BY <1>1, <2>2, <2>3 DEF SessionCreated
<1>2. ASSUME UNCHANGED <<server_data, socketType, wsShake, peer>> PROVE PeerInv'
  BY <1>2 DEF PeerInv, PeerKnown
<1>3. ASSUME NEW a \in Addresses, SessionStep(a) PROVE PeerInv'
  <2>1. UNCHANGED <<server_data, socketType, wsShake, peer>>
    BY <1>3 DEF SessionStep, sendVars, after_connect, handlerCloses, readError,
                uv_close_oneClient, uv_closeClient
  <2> QED
    BY <1>2, <2>1
<1>4. ASSUME NEW a \in Addresses, NEW len \in Lengths, handlerSends(a, len) PROVE PeerInv'
  BY <1>2, <1>4 DEF handlerSends, vars
<1>5. ASSUME NEW a \in Addresses, webserShakeHand(a) PROVE PeerInv'
  <2>1. /\ socketType[a] = "WEB_SOCKET" /\ UNCHANGED <<server_data, socketType>>
        /\ peer' = [peer EXCEPT ![a] = "web"] /\ wsShake' = [wsShake EXCEPT ![a] = TRUE]
    BY <1>5 DEF webserShakeHand, vars
  <2>2. PeerKnown(a)'
    BY <2>1 DEF PeerKnown, RestTyped
  <2>3. \A b \in Addresses : b # a => PeerKnown(b)'
    BY <2>1 DEF PeerInv, PeerKnown, RestTyped
  <2> QED
    BY <2>1, <2>2, <2>3 DEF PeerInv
<1>6. ASSUME NEW a \in Addresses, uv_sendTcpBuf(a) PROVE PeerInv'
  BY <1>2, <1>6 DEF uv_sendTcpBuf, vars
<1>7. CASE UNCHANGED <<vars, sendVars>>
  BY <1>2, <1>7 DEF vars, sendVars
<1> QED
  BY <1>1, <1>3, <1>4, <1>5, <1>6, <1>7 DEF SendNext

(* One step of sending. *)
Framed(a) ==
  LET new == writes'[a][Len(writes'[a])].pkg
  IN Len(writes'[a]) > Len(writes[a]) /\ peer[a] # "late web" /\ new.place # "empty"
       => new.format = Expected[peer[a]]

Suits(pkg, a) ==
  peer[a] # "late web" /\ pkg.place # "empty" => pkg.format = Expected[peer[a]]

LEMMA QueueTyped ==
  ASSUME QueueInv, NEW a \in Addresses
  PROVE  writes[a] \in Seq(Writes) /\ Len(writes[a]) \in Nat
BY DEF QueueInv

LEMMA SendIsFramed ==
  ASSUME QueueInv, NEW a \in Addresses, NEW pkg \in Packages,
         NEW len \in Lengths \cup {0}, sendData(a, pkg, <<a, len>>),
         Suits(pkg, a), NEW b \in Addresses
  PROVE  Framed(b)
<1> DEFINE w == [req |-> CHOOSE r \in idle : TRUE, pkg |-> pkg, msg |-> <<a, len>>]
<1>1. writes' = [writes EXCEPT ![a] = Append(@, w)] \/ writes' = writes
  BY DEF sendData, uv_write
<1>2. w.pkg = pkg /\ w \in Writes
  BY DEF sendData, QueueInv, Writes
<1> HIDE DEF w
<1>3. writes[a] \in Seq(Writes) /\ Len(writes[a]) \in Nat /\ Len(writes[b]) \in Nat
  BY QueueTyped
<1>4. CASE b = a /\ writes' = [writes EXCEPT ![a] = Append(@, w)]
  <2>1. writes'[b] = Append(writes[a], w)
    BY <1>4 DEF QueueInv
  <2>2. Len(writes'[b]) = Len(writes[a]) + 1 /\ writes'[b][Len(writes'[b])] = w
    BY <1>2, <1>3, <2>1
  <2> QED
    BY <1>2, <1>4, <2>2 DEF Framed, Suits
<1>5. CASE writes'[b] = writes[b]
  <2>1. ~ (Len(writes'[b]) > Len(writes[b]))
    BY <1>3, <1>5
  <2> QED
    BY <2>1 DEF Framed
<1> QED
  BY <1>1, <1>4, <1>5 DEF QueueInv

LEMMA NextIsFramed ==
  ASSUME QueueInv, RestTyped, PeerInv, [SendNext]_<<vars, sendVars>>, NEW b \in Addresses
  PROVE  Framed(b)
<1>0. writes[b] \in Seq(Writes) /\ Len(writes[b]) \in Nat
  BY QueueTyped
<1>1. ASSUME writes' = writes PROVE Framed(b)
  <2>1. ~ (Len(writes'[b]) > Len(writes[b]))
    BY <1>0, <1>1
  <2> QED
    BY <2>1 DEF Framed
<1>2. CASE SessionCreated
  BY <1>1, <1>2 DEF SessionCreated
<1>3. ASSUME NEW a \in Addresses, SessionStep(a) PROVE Framed(b)
  BY <1>1, <1>3 DEF SessionStep, sendVars
<1>4. ASSUME NEW a \in Addresses, NEW len \in Lengths, handlerSends(a, len) PROVE Framed(b)
  <2>1. PeerKnown(a) /\ peer[a] \in Peers
    BY DEF PeerInv, RestTyped
  <2> DEFINE pkg == Package(a, len)
  <2>2. /\ socketType[a] # "WEB_SOCKET" => pkg.format = "tcp"
        /\ socketType[a] = "WEB_SOCKET" /\ ~ wsShake[a] => pkg.format = "raw"
        /\ socketType[a] = "WEB_SOCKET" /\ wsShake[a] =>
             pkg.format = "web" \/ pkg.place = "empty"
    BY DEF Package, TcpPackage, WebPackage, Raw
  <2> HIDE DEF pkg
  <2>3. Suits(pkg, a)
    <3>1. CASE peer[a] = "tcp"
      BY <2>1, <2>2, <3>1 DEF PeerKnown, Expected, Suits
    <3>2. CASE peer[a] = "http"
      <4>1. socketType[a] = "WEB_SOCKET" /\ ~ wsShake[a]
        <5>1. peer[a] \in {"http", "web"} /\ peer[a] # "web"
          BY <3>2
        <5>2. socketType[a] = "WEB_SOCKET" /\ (wsShake[a] <=> peer[a] = "web")
          BY <2>1, <5>1 DEF PeerKnown
        <5> QED
          BY <5>1, <5>2
      <4> QED
        BY <2>2, <3>2, <4>1 DEF Expected, Suits
    <3>3. CASE peer[a] = "web"
      <4>1. socketType[a] = "WEB_SOCKET" /\ wsShake[a]
        BY <2>1, <3>3 DEF PeerKnown
      <4> QED
        BY <2>2, <3>3, <4>1 DEF Expected, Suits
    <3> QED
      BY <2>1, <3>1, <3>2, <3>3 DEF Peers, Suits
  <2> QED
    BY <1>4, <2>3, PackageMade, SendIsFramed DEF handlerSends, pkg
<1>5. ASSUME NEW a \in Addresses, webserShakeHand(a) PROVE Framed(b)
  <2>1. Raw("sendClient", 0) \in Packages
    BY DEF Packages, Places, Buffers
  <2>4. Raw("sendClient", 0).format = "raw"
    BY DEF Raw
  <2>2. PeerKnown(a) /\ peer[a] \in Peers
    BY DEF PeerInv, RestTyped
  <2>3. peer[a] # "late web" => "raw" = Expected[peer[a]]
    BY <1>5, <2>2 DEF PeerKnown, Peers, Expected, webserShakeHand
  <2>5. Suits(Raw("sendClient", 0), a)
    BY <2>3, <2>4 DEF Suits
  <2> QED
    BY <1>5, <2>1, <2>5, SendIsFramed DEF webserShakeHand
<1>6. ASSUME NEW a \in Addresses, uv_sendTcpBuf(a) PROVE Framed(b)
  <2>1. /\ writes[a] \in Seq(Writes) /\ writes[a] # <<>>
        /\ writes' = [writes EXCEPT ![a] = Tail(@)]
    BY <1>6 DEF uv_sendTcpBuf, QueueInv
  <2>2. Len(Tail(writes[a])) < Len(writes[a])
    BY <2>1
  <2>3. ~ (Len(writes'[b]) > Len(writes[b]))
    <3>1. CASE b = a
      <4>1. writes'[b] = Tail(writes[a])
        BY <2>1, <3>1 DEF QueueInv
      <4>2. Len(Tail(writes[a])) \in Nat
        BY <2>1
      <4> QED
        BY <1>0, <2>2, <3>1, <4>1, <4>2
    <3>2. CASE b # a
      <4>1. writes'[b] = writes[b]
        BY <2>1, <3>2 DEF QueueInv
      <4> QED
        BY <1>0, <4>1
    <3> QED
      BY <3>1, <3>2
  <2> QED
    BY <2>3 DEF Framed
<1>7. CASE UNCHANGED <<vars, sendVars>>
  BY <1>1, <1>7 DEF sendVars
<1> QED
  BY <1>2, <1>3, <1>4, <1>5, <1>6, <1>7 DEF SendNext
------------------------------------------------------------------------------
SendIInv == IInv /\ QueueInv /\ RestTyped /\ RequestsReturned /\ PeerInv

LEMMA InitSendIInv == SendInit => SendIInv
<1> SUFFICES ASSUME SendInit PROVE SendIInv
  OBVIOUS
<1>1. IInv
  BY InitIInv DEF SendInit
<1>2. QueueInv
  BY DEF SendInit, QueueInv
<1>3. RestTyped
  BY DEF SendInit, RestTyped, Peers
<1>4. RequestsReturned
  <2>1. \A a \in Addresses : writes[a] = <<>> /\ 1..Len(writes[a]) = {}
    BY DEF SendInit
  <2> QED
    BY <2>1 DEF SendInit, RequestsReturned, InFlight
<1>5. PeerInv
  BY DEF SendInit, Init, PeerInv, PeerKnown
<1> QED
  BY <1>1, <1>2, <1>3, <1>4, <1>5 DEF SendIInv

LEMMA NextSendIInv == SendIInv /\ [SendNext]_<<vars, sendVars>> => SendIInv'
BY StepsOfSessions, NextIInv, NextQueues, NextTyped, NextAccounts, NextPeer DEF SendIInv

THEOREM SendInductive == SendSpec => []SendIInv
BY InitSendIInv, NextSendIInv, PTL DEF SendSpec

(* The sessions and what they send keep their types (session_uv.cc:21-174).   *)
THEOREM SendTypeCorrect == SendSpec => []SendTypeOK
<1>1. SendIInv => SendTypeOK
  BY IInvSuffices, TypedSuffices DEF SendIInv
<1> QED
  BY <1>1, SendInductive, PTL

(* No write request is given back twice, none is both free and in libuv's      *)
(* hands, and none is left there when its session is destroyed: only a write    *)
(* that libuv refused loses its request (session_uv.cc:51-60 and 134-174).      *)
THEOREM RequestsKept == SendSpec => []RequestsReturned
<1>1. SendIInv => RequestsReturned
  BY DEF SendIInv
<1> QED
  BY <1>1, SendInductive, PTL

(* Whoever sends and whenever, a connection is sent the format its other end   *)
(* expects, unless it came after the first of a web listener (netbus.cc:235-247,*)
(* session_uv.cc:134-174, webprotocol.cc:65-103).                              *)
THEOREM SentAsExpected == SendSpec => FramedForPeer
<1>1. SendIInv /\ [SendNext]_<<vars, sendVars>> =>
        [\A a \in Addresses : Framed(a)]_<<vars, sendVars>>
  BY NextIsFramed DEF SendIInv
<1> QED
  BY <1>1, SendInductive, PTL DEF SendSpec, FramedForPeer, Framed
=============================================================================
