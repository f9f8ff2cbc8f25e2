--------------------------- MODULE Framing_proofs ---------------------------
(* Proofs about module Framing, for TCP and web sessions, every set of streams *)
(* its assumption allows (malformed TCP frames included), every size of        *)
(* recvBuf, and every shortest command: the buffers are never overrun, libuv   *)
(* always gets room, and the session implements the stream of frames.          *)
EXTENDS Framing, TLAPS, SequenceTheorems

(* The frame at the front has arrived in full. *)
Whole == front.op = "data" /\ received >= front.need /\ received >= front.size

(* Before the handshake the buffer holds the beginning of the request, and a   *)
(* longPkg only behind a request without a key, which is never answered.       *)
ShakeInv ==
  /\ wsShake => socketType = "WEB_SOCKET" /\ received < taken
  /\ pc = "shaking" => Shaking
  /\ pc = "parsing" => ~ Shaking
  /\ Shaking => /\ received = taken /\ taken <= stream[1].size
                /\ longPkg => stream[1].op # "request" /\ longPkgSize = HttpSize
                /\ pc # "shaking" /\ stream[1].op = "request" => received < stream[1].size

(* What is in the buffer between two callbacks is never a complete frame, and  *)
(* longPkg holds the beginning of one frame that is longer than recvBuf.       *)
BufferInv ==
  /\ ~ longPkg => received <= RECVBUF
  /\ longPkg => RECVBUF <= received
  /\ longPkg /\ ~ Shaking => /\ received <= longPkgSize
                             /\ RECVBUF < longPkgSize
                             /\ front.op = "data" /\ longPkgSize = front.size
  /\ pc # "parsing" /\ ~ Shaking => /\ longPkg => received < longPkgSize
                                    /\ received > 0 => ~ Whole

IInv == TypeOK /\ Window /\ ShakeInv /\ BufferInv /\ RoomOffered

LEMMA StreamIsSeq ==
  ASSUME TypeOK
  PROVE  /\ stream \in Seq(Header) /\ Len(stream) \in Nat
         /\ \A p \in 1..Len(stream) :
              /\ stream[p] \in Header
              /\ stream[p].op = "data" => 0 < stream[p].need /\ stream[p].need <= RECVBUF
              /\ socketType = "TCP_SOCKET" => stream[p].op = "data"
         /\ received \in Nat /\ taken \in Nat /\ taken <= Len(stream)
         /\ \A i \in 1..received : buf[i] \in 1..Len(stream)
<1>1. socketType \in SocketTypes /\ stream \in Streams[socketType]
  BY DEF TypeOK
<1>2. stream \in Seq(Header)
  BY <1>1, FramingAssumption
<1>3. Len(stream) \in Nat /\ \A p \in 1..Len(stream) : stream[p] \in Header
  BY <1>2, LenProperties, ElementOfSeq
<1>4. \A p \in 1..Len(stream) :
        /\ stream[p].op = "data" => 0 < stream[p].need /\ stream[p].need <= RECVBUF
        /\ socketType = "TCP_SOCKET" => stream[p].op = "data"
  BY <1>1, FramingAssumption
<1>5. received \in Nat
  BY LenProperties DEF TypeOK, received
<1>6. \A i \in 1..received : buf[i] \in 1..Len(stream)
  BY ElementOfSeq DEF TypeOK, received
<1> QED
  BY <1>2, <1>3, <1>4, <1>5, <1>6 DEF TypeOK

(* The request, and what follows it in a web stream.                           *)
LEMMA WebStream ==
  ASSUME TypeOK, socketType = "WEB_SOCKET"
  PROVE  /\ stream[1].op \in {"request", "keyless"}
         /\ stream[1].size \in 1..RECVBUF /\ stream[1].size <= Len(stream)
         /\ \A p \in 2..Len(stream) :
              stream[p].op # "data" => Len(stream) - p + 1 < RECVBUF
BY FramingAssumption DEF TypeOK

LEMMA FrontIsHeader ==
  ASSUME TypeOK, received > 0
  PROVE  /\ buf[1] \in 1..Len(stream)
         /\ front \in Header
         /\ front.size \in Nat /\ front.need \in Nat /\ front.head \in Nat
         /\ front.op = "data" => 0 < front.need /\ front.need <= RECVBUF
         /\ socketType = "TCP_SOCKET" => front.op = "data"
<1>1. buf[1] \in 1..Len(stream)
  BY StreamIsSeq
<1>2. front \in Header /\ front = stream[buf[1]]
  BY <1>1, StreamIsSeq DEF front
<1> QED
  BY <1>1, <1>2, StreamIsSeq DEF Header

(* Whatever fills recvBuf behind the handshake begins with a frame of data:    *)
(* after any other frame the peer sends too little.                            *)
LEMMA FullIsData ==
  ASSUME IInv, ~ Shaking, received >= RECVBUF
  PROVE  received > 0 /\ front.op = "data" /\ readHeader
<1>1. received > 0 /\ received \in Nat /\ taken \in Nat /\ Len(stream) \in Nat
      /\ taken <= Len(stream)
  BY StreamIsSeq, FramingAssumption DEF IInv
<1>2. buf[1] = taken - received + 1
  BY <1>1 DEF IInv, Window
<1>3. front.op = "data"
  <2>1. CASE socketType = "TCP_SOCKET"
    BY <2>1, <1>1, FrontIsHeader DEF IInv
  <2>2. CASE socketType = "WEB_SOCKET"
    <3>1. received < taken
      BY <2>2 DEF IInv, ShakeInv, Shaking, TypeOK
    <3>2. buf[1] \in 2..Len(stream)
      BY <3>1, <1>1, <1>2
    <3>3. Len(stream) - buf[1] + 1 >= received
      BY <1>1, <1>2
    <3> QED
      BY <2>2, <3>2, <3>3, <1>1, WebStream, FramingAssumption DEF IInv, front
  <2> QED
    BY <2>1, <2>2 DEF IInv, TypeOK, SocketTypes
<1>4. readHeader
  BY <1>1, <1>3, FrontIsHeader, FramingAssumption
  DEF IInv, readHeader, readTcpHeader, readWebHeader
<1> QED
  BY <1>1, <1>3, <1>4

------------------------------------------------------------------------------
(* What a read does to the buffer: nread new bytes behind the old ones.        *)
LEMMA ReadAppends ==
  ASSUME IInv, NEW nread \in Nat, uv_readData(nread)
  PROVE  /\ buf' \in Seq(1..Len(stream))
         /\ received' = received + nread
         /\ taken + nread <= Len(stream)
         /\ \A i \in 1..received' :
              buf'[i] = IF i <= received THEN buf[i] ELSE taken + i - received
<1> DEFINE fresh == [i \in 1..nread |-> taken + i]
<1> USE DEF IInv
<1>1. taken + nread <= sendable /\ buf' = buf \o fresh
  BY DEF uv_readData
<1>2. taken + nread <= Len(stream)
  <2>1. CASE Shaking
    BY <2>1, <1>1, WebStream, StreamIsSeq, FramingAssumption DEF sendable, Shaking
  <2>2. CASE ~ Shaking
    BY <2>2, <1>1 DEF sendable
  <2> QED
    BY <2>1, <2>2
<1>3. \A i \in 1..nread : taken + i \in 1..Len(stream)
  BY <1>2, StreamIsSeq
<1>4. fresh \in Seq(1..Len(stream)) /\ Len(fresh) = nread
  BY <1>3
<1>5. buf \in Seq(1..Len(stream))
  BY DEF TypeOK
<1>6. /\ buf \o fresh \in Seq(1..Len(stream))
      /\ Len(buf \o fresh) = Len(buf) + Len(fresh)
      /\ \A i \in 1..Len(buf) + Len(fresh) :
           (buf \o fresh)[i] = IF i <= Len(buf) THEN buf[i] ELSE fresh[i - Len(buf)]
  <2> HIDE DEF fresh
  <2> QED
    BY <1>4, <1>5, ConcatProperties
<1>7. Len(buf) \in Nat /\ received = Len(buf) /\ received' = Len(buf')
  BY StreamIsSeq DEF received
<1>8. \A i \in 1..Len(buf) + nread : i > Len(buf) =>
        fresh[i - Len(buf)] = taken + i - Len(buf)
  <2> TAKE i \in 1..Len(buf) + nread
  <2> HAVE i > Len(buf)
  <2>1. i - Len(buf) \in 1..nread
    BY <1>7
  <2>2. fresh[i - Len(buf)] = taken + (i - Len(buf))
    BY <2>1
  <2> QED
    BY <2>2, <1>7, StreamIsSeq
<1> HIDE DEF fresh
<1> QED
  BY <1>1, <1>2, <1>4, <1>6, <1>7, <1>8

(* What a turn of the parser does to it: the first frame goes, the rest moves. *)
LEMMA TurnRemoves ==
  ASSUME TypeOK, NEW accepted \in BOOLEAN, dataParser(accepted)
  PROVE  /\ received > 0 /\ front.op = "data"
         /\ buf' \in Seq(1..Len(stream))
         /\ front.size \in Nat /\ front.size <= received
         /\ received' = received - front.size
         /\ \A i \in 1..received' : buf'[i] = buf[i + front.size]
<1> DEFINE size == front.size
<1>1. received > 0 /\ received >= size /\ buf' = SubSeq(buf, size + 1, received)
      /\ readHeader
  BY DEF dataParser, Complete
<1>2. received \in Nat /\ size \in Nat
  BY <1>1, FrontIsHeader, StreamIsSeq
<1>3. front.op = "data"
  BY <1>1, FrontIsHeader DEF readHeader, readWebHeader, TypeOK, SocketTypes
<1> HIDE DEF size
<1>4. \A i \in size + 1 .. received : buf[i] \in 1..Len(stream)
  BY <1>2, StreamIsSeq
<1>5. /\ SubSeq(buf, size + 1, received) \in Seq(1..Len(stream))
      /\ Len(SubSeq(buf, size + 1, received))
           = IF size + 1 <= received THEN received - (size + 1) + 1 ELSE 0
      /\ \A i \in 1 .. received - (size + 1) + 1 :
           SubSeq(buf, size + 1, received)[i] = buf[size + 1 + i - 1]
  BY <1>2, <1>4, SubSeqProperties
<1>6. received' = received - size
  BY <1>1, <1>2, <1>5 DEF received
<1>7. \A i \in 1..received' : buf'[i] = buf[i + size]
  <2> TAKE i \in 1..received'
  <2>1. i \in 1 .. received - (size + 1) + 1 /\ size + 1 + i - 1 = i + size
    BY <1>2, <1>6
  <2> QED
    BY <2>1, <1>1, <1>5
<1> QED
  BY <1>1, <1>2, <1>3, <1>5, <1>6, <1>7 DEF size

------------------------------------------------------------------------------
LEMMA IInvInit == Init => IInv
<1> SUFFICES ASSUME Init PROVE IInv
  OBVIOUS
<1>1. received = 0 /\ taken = 0 /\ longPkg = FALSE /\ pc = "idle" /\ wsShake = FALSE
  BY DEF Init, received
<1>2. TypeOK
  <2>1. stream \in Seq(Header)
    BY FramingAssumption DEF Init
  <2>2. Len(stream) \in Nat
    BY <2>1, LenProperties
  <2>3. <<>> \in Seq(1..Len(stream))
    BY EmptySeq
  <2>4. buf \in Seq(1..Len(stream)) /\ dispatched \in Seq(1..Len(stream))
    BY <2>3, Zenon DEF Init
  <2>5. taken \in 0..Len(stream)
    BY <2>2, <1>1
  <2>6. socketType \in SocketTypes /\ stream \in Streams[socketType]
        /\ longPkg \in BOOLEAN /\ isShotdown \in BOOLEAN /\ wsShake \in BOOLEAN
        /\ pc \in {"idle", "reading", "shaking", "parsing", "ended", "destroyed"}
    BY Zenon DEF Init
  <2>7. longPkgSize \in Nat /\ room \in Int
    <3>1. longPkgSize = 0 /\ room = 0
      BY Zenon DEF Init
    <3> QED
      BY <3>1
  <2> QED
    BY <2>4, <2>5, <2>6, <2>7, Zenon DEF TypeOK
<1>3. ShakeInv
  BY <1>1, <1>2, WebStream, FramingAssumption DEF ShakeInv, Shaking
<1> QED
  BY <1>1, <1>2, <1>3, FramingAssumption DEF IInv, Window, BufferInv, RoomOffered

(* A full recvBuf gives place to a longPkg that has room for more: behind the  *)
(* handshake it is as long as the frame, before it the size of "GE".           *)
LEMMA IInvAlloc == IInv /\ uv_tcpBuffmem => IInv'
<1> SUFFICES ASSUME IInv, uv_tcpBuffmem PROVE IInv'
  OBVIOUS
<1> USE FramingAssumption
<1>1. /\ received \in Nat /\ received' = received /\ buf' = buf /\ stream' = stream
      /\ socketType' = socketType /\ wsShake' = wsShake /\ taken' = taken
      /\ pc = "idle" /\ pc' = "reading"
      /\ isShotdown' = isShotdown /\ dispatched' = dispatched
  BY StreamIsSeq DEF IInv, uv_tcpBuffmem, received, peer
<1>2. Window' /\ Shaking' = Shaking /\ front' = front /\ Whole' = Whole
  BY <1>1 DEF IInv, Window, Shaking, front, Whole
<1>3. CASE received < RECVBUF
  <2>1. ~ longPkg
    BY <1>1, <1>3 DEF IInv, BufferInv
  <2>2. room' = RECVBUF - received /\ longPkg' = longPkg /\ longPkgSize' = longPkgSize
    BY <1>3 DEF uv_tcpBuffmem
  <2>3. TypeOK'
    BY <1>1, <2>2 DEF IInv, TypeOK
  <2>4. ShakeInv'
    BY <1>1, <1>2, <2>1, <2>2 DEF IInv, ShakeInv
  <2>5. BufferInv' /\ RoomOffered'
    BY <1>1, <1>2, <1>3, <2>1, <2>2 DEF IInv, BufferInv, RoomOffered
  <2> QED
    BY <1>2, <2>3, <2>4, <2>5 DEF IInv
<1>4. CASE ~ received < RECVBUF /\ Shaking
  <2>1. /\ received = taken /\ taken <= stream[1].size /\ taken \in Nat
        /\ stream[1].size \in 1..RECVBUF
        /\ stream[1].op = "request" => received < stream[1].size
    BY <1>1, <1>4, WebStream, StreamIsSeq DEF IInv, ShakeInv, Shaking
  <2>2. received = RECVBUF /\ stream[1].op # "request"
    BY <1>1, <1>4, <2>1
  <2>3. longPkg' = TRUE /\ longPkgSize' = HttpSize /\ room' = HttpSize - received
    <3>1. longPkg' = TRUE /\ longPkgSize' = (IF longPkg THEN longPkgSize ELSE announced)
          /\ room' = longPkgSize' - received
      BY <1>4 DEF uv_tcpBuffmem
    <3>2. longPkg => longPkgSize = HttpSize
      BY <1>4 DEF IInv, ShakeInv
    <3>3. announced = HttpSize
      BY <1>4 DEF announced
    <3> QED
      BY <3>1, <3>2, <3>3
  <2>4. TypeOK'
    BY <1>1, <2>2, <2>3 DEF IInv, TypeOK
  <2>5. ShakeInv'
    BY <1>1, <1>2, <1>4, <2>1, <2>2, <2>3 DEF IInv, ShakeInv
  <2>6. BufferInv' /\ RoomOffered'
    BY <1>1, <1>2, <1>4, <2>2, <2>3 DEF BufferInv, RoomOffered
  <2> QED
    BY <1>2, <2>4, <2>5, <2>6 DEF IInv
<1>5. CASE ~ received < RECVBUF /\ ~ Shaking
  <2>1. received >= RECVBUF /\ received > 0
    BY <1>1, <1>5
  <2>2. front.op = "data" /\ readHeader
    BY <1>5, <2>1, FullIsData
  <2>3. front.size \in Nat /\ received < front.size
    <3>1. front.size \in Nat /\ front.need \in Nat /\ front.need <= RECVBUF
      BY <2>1, <2>2, FrontIsHeader DEF IInv
    <3>2. ~ Whole
      BY <1>1, <1>5, <2>1 DEF IInv, BufferInv
    <3> QED
      BY <1>1, <2>1, <2>2, <3>1, <3>2 DEF Whole
  <2>4. longPkg' = TRUE /\ longPkgSize' = front.size /\ room' = front.size - received
    <3>1. longPkg' = TRUE /\ longPkgSize' = (IF longPkg THEN longPkgSize ELSE announced)
          /\ room' = longPkgSize' - received
      BY <1>5 DEF uv_tcpBuffmem
    <3>2. longPkg => longPkgSize = front.size
      BY <1>5 DEF IInv, BufferInv
    <3>3. announced = front.size
      BY <1>5, <2>2 DEF announced
    <3> QED
      BY <3>1, <3>2, <3>3
  <2>5. TypeOK'
    BY <1>1, <2>3, <2>4 DEF IInv, TypeOK
  <2>6. ShakeInv'
    BY <1>1, <1>2, <1>5 DEF IInv, ShakeInv
  <2>7. BufferInv' /\ RoomOffered'
    BY <1>1, <1>2, <1>5, <2>1, <2>2, <2>3, <2>4 DEF IInv, BufferInv, RoomOffered
  <2> QED
    BY <1>2, <2>5, <2>6, <2>7 DEF IInv
<1> QED
  BY <1>3, <1>4, <1>5

LEMMA IInvRead == ASSUME IInv, NEW nread \in Nat, uv_readData(nread) PROVE IInv'
<1>1. /\ pc = "reading" /\ pc' = (IF Shaking THEN "shaking" ELSE "parsing")
      /\ stream' = stream /\ socketType' = socketType /\ wsShake' = wsShake
      /\ taken' = taken + nread /\ nread <= room /\ taken + nread <= sendable
      /\ longPkg' = longPkg /\ longPkgSize' = longPkgSize /\ room' = room
      /\ isShotdown' = isShotdown /\ dispatched' = dispatched
  BY DEF uv_readData, peer
<1>2. /\ buf' \in Seq(1..Len(stream))
      /\ received' = received + nread
      /\ taken + nread <= Len(stream)
      /\ \A i \in 1..received' :
           buf'[i] = IF i <= received THEN buf[i] ELSE taken + i - received
  BY ReadAppends
<1>3. received \in Nat /\ taken \in Nat /\ Len(stream) \in Nat
  BY StreamIsSeq DEF IInv
<1>4. TypeOK'
  BY <1>1, <1>2, <1>3 DEF IInv, TypeOK
<1>5. Window'
  BY <1>1, <1>2, <1>3 DEF IInv, Window
<1>6. received + room = IF longPkg THEN longPkgSize ELSE RECVBUF
  BY <1>1 DEF IInv, RoomOffered
<1>7. Shaking' = Shaking
  BY <1>1 DEF Shaking
<1>8. longPkg => front' = front
  <2> HAVE longPkg
  <2>1. received >= 1
    BY <1>3, FramingAssumption DEF IInv, BufferInv
  <2>2. buf'[1] = buf[1]
    BY <1>2, <1>3, <2>1
  <2> QED
    BY <1>1, <2>2 DEF front
<1>9. ShakeInv'
  <2>1. Shaking => taken + nread <= stream[1].size
    BY <1>1 DEF sendable
  <2> QED
    BY <1>1, <1>2, <1>3, <1>7, <2>1 DEF IInv, ShakeInv
<1>10. BufferInv'
  <2>1. longPkgSize \in Nat /\ room \in Int /\ RECVBUF \in Nat
    BY FramingAssumption DEF IInv, TypeOK
  <2>2. received' = received + nread /\ received + nread <= received + room
    BY <1>1, <1>2, <1>3, <2>1
  <2>3. /\ ~ longPkg => received' <= RECVBUF
        /\ longPkg => received' <= longPkgSize /\ RECVBUF <= received'
    BY <1>3, <1>6, <2>1, <2>2 DEF IInv, BufferInv
  <2> QED
    BY <1>1, <1>7, <1>8, <2>3 DEF IInv, BufferInv
<1>11. RoomOffered'
  BY <1>1 DEF RoomOffered
<1> QED
  BY <1>4, <1>5, <1>9, <1>10, <1>11 DEF IInv

(* The request is dropped whole, and no longPkg was needed for it.             *)
LEMMA IInvShake == IInv /\ shakeHand => IInv'
<1> SUFFICES ASSUME IInv, shakeHand PROVE IInv'
  OBVIOUS
<1>1. /\ pc = "shaking" /\ pc' = "idle" /\ wsShake' = webserShakeHand
      /\ buf' = (IF webserShakeHand THEN <<>> ELSE buf)
      /\ stream' = stream /\ socketType' = socketType /\ taken' = taken
      /\ longPkg' = longPkg /\ longPkgSize' = longPkgSize /\ room' = room
      /\ isShotdown' = isShotdown /\ dispatched' = dispatched
  BY DEF shakeHand, peer
<1>2. Shaking /\ socketType = "WEB_SOCKET" /\ ~ wsShake
  BY <1>1 DEF IInv, ShakeInv, Shaking
<1>3. /\ received \in Nat /\ received = taken /\ taken <= stream[1].size
      /\ stream[1].size \in 1..RECVBUF
  BY <1>2, WebStream, StreamIsSeq DEF IInv, ShakeInv
<1>4. RoomOffered'
  BY <1>1 DEF RoomOffered
<1>5. CASE webserShakeHand
  <2>1. received >= stream[1].size /\ stream[1].op = "request"
    BY <1>5 DEF webserShakeHand
  <2>2. received' = 0 /\ buf' \in Seq(1..Len(stream))
    BY <1>1, <1>5 DEF received
  <2>3. ~ longPkg /\ ~ Shaking'
    BY <1>1, <1>2, <1>5, <2>1 DEF IInv, ShakeInv, Shaking
  <2>4. TypeOK'
    BY <1>1, <1>5, <2>2 DEF IInv, TypeOK
  <2>5. Window'
    BY <2>2 DEF Window
  <2>6. ShakeInv' /\ BufferInv'
    BY <1>1, <1>2, <1>3, <1>5, <2>1, <2>2, <2>3, FramingAssumption DEF ShakeInv, BufferInv
  <2> QED
    BY <1>4, <2>4, <2>5, <2>6 DEF IInv
<1>6. CASE ~ webserShakeHand
  <2>1. wsShake' = FALSE /\ buf' = buf /\ received' = received
    BY <1>1, <1>6 DEF received
  <2>2. Shaking' /\ (stream[1].op = "request" => received < stream[1].size)
    BY <1>1, <1>2, <1>3, <1>6, <2>1 DEF webserShakeHand, Shaking
  <2>3. TypeOK'
    BY <1>1, <2>1 DEF IInv, TypeOK
  <2>4. Window'
    BY <1>1, <2>1 DEF IInv, Window
  <2>5. ShakeInv' /\ BufferInv'
    BY <1>1, <1>2, <1>3, <2>1, <2>2 DEF IInv, ShakeInv, BufferInv
  <2> QED
    BY <1>4, <2>3, <2>4, <2>5 DEF IInv
<1> QED
  BY <1>5, <1>6

(* A turn of the parser: with longPkg in use the frame is all there is, and    *)
(* longPkg goes; otherwise the rest of recvBuf moves to its front.             *)
LEMMA IInvTurn == ASSUME IInv, NEW accepted \in BOOLEAN, dataParser(accepted) PROVE IInv'
<1>1. /\ pc = "parsing" /\ pc' = pc /\ stream' = stream /\ socketType' = socketType
      /\ taken' = taken /\ room' = room /\ wsShake' = wsShake
  BY DEF dataParser, peer
<1>2. /\ received > 0 /\ front.op = "data"
      /\ buf' \in Seq(1..Len(stream))
      /\ front.size \in Nat /\ front.size <= received
      /\ received' = received - front.size
      /\ \A i \in 1..received' : buf'[i] = buf[i + front.size]
  BY TurnRemoves DEF IInv
<1>3. received \in Nat /\ taken \in Nat /\ Len(stream) \in Nat
  BY StreamIsSeq DEF IInv
<1>4. Window'
  <2> DEFINE size == front.size
  <2>1. /\ size \in Nat /\ received' = received - size
        /\ \A i \in 1..received' : buf'[i] = buf[i + size]
    BY <1>2
  <2> HIDE DEF size
  <2>2. \A i \in 1..received' : i + size \in 1..received
    BY <1>3, <2>1
  <2> QED
    BY <1>1, <1>3, <2>1, <2>2 DEF IInv, Window
<1>5. buf[1] \in 1..Len(stream)
  BY <1>2, FrontIsHeader DEF IInv
<1>6. dispatched' \in Seq(1..Len(stream)) /\ isShotdown' \in BOOLEAN
  <2>1. dispatched \in Seq(1..Len(stream)) /\ isShotdown \in BOOLEAN
    BY DEF IInv, TypeOK
  <2>2. dispatched' = dispatched \/ dispatched' = Append(dispatched, buf[1])
    BY DEF dataParser, RecCommand
  <2>3. Append(dispatched, buf[1]) \in Seq(1..Len(stream))
    BY <2>1, <1>5
  <2>4. isShotdown' \in BOOLEAN
    BY <2>1 DEF dataParser
  <2> QED
    BY <2>1, <2>2, <2>3, <2>4
<1>7. ~ Shaking /\ ~ Shaking' /\ RoomOffered'
  BY <1>1 DEF IInv, ShakeInv, Shaking, RoomOffered
<1>8. ShakeInv'
  BY <1>1, <1>2, <1>3, <1>7 DEF IInv, ShakeInv
<1>9. CASE longPkg
  <2>1. received = front.size
    BY <1>2, <1>3, <1>7, <1>9 DEF IInv, BufferInv
  <2>2. longPkg' = FALSE /\ longPkgSize' = 0 /\ received' = 0
    BY <1>2, <1>3, <1>9, <2>1 DEF dataParser
  <2>3. TypeOK'
    BY <1>1, <1>2, <1>6, <2>2 DEF IInv, TypeOK
  <2>4. BufferInv'
    BY <1>1, <2>2, FramingAssumption DEF BufferInv
  <2> QED
    BY <1>4, <1>7, <1>8, <2>3, <2>4 DEF IInv
<1>10. CASE ~ longPkg
  <2>1. longPkg' = longPkg /\ longPkgSize' = longPkgSize
    BY <1>10 DEF dataParser
  <2>2. TypeOK'
    BY <1>1, <1>2, <1>6, <2>1 DEF IInv, TypeOK
  <2>3. received' <= RECVBUF
    BY <1>2, <1>3, <1>10, FramingAssumption DEF IInv, BufferInv
  <2>4. BufferInv'
    BY <1>1, <1>10, <2>1, <2>3 DEF BufferInv
  <2> QED
    BY <1>4, <1>7, <1>8, <2>2, <2>4 DEF IInv
<1> QED
  BY <1>9, <1>10

(* The steps that leave the buffers alone only move to another callback.       *)
LEMMA IInvBreak == IInv /\ (parserBreak \/ closeFrame) => IInv'
<1> SUFFICES ASSUME IInv, parserBreak \/ closeFrame PROVE IInv'
  OBVIOUS
<1>1. /\ pc = "parsing" /\ pc' = "idle" /\ isShotdown' \in BOOLEAN
      /\ UNCHANGED <<peer, taken, buf, longPkg, longPkgSize, room, wsShake, dispatched>>
  BY DEF parserBreak, closeFrame, IInv, TypeOK
<1>2. /\ received' = received /\ received \in Nat /\ ~ Shaking
      /\ Shaking' = Shaking /\ front' = front /\ Whole' = Whole
      /\ stream' = stream /\ socketType' = socketType
  BY <1>1, StreamIsSeq DEF received, IInv, ShakeInv, Shaking, front, Whole, peer
<1>3. received > 0 => ~ Whole
  <2> SUFFICES ASSUME received > 0, Whole PROVE FALSE
    OBVIOUS
  <2>1. readHeader /\ front.op # "close"
    BY DEF Whole, readHeader, readTcpHeader, readWebHeader
  <2> QED
    BY <2>1 DEF Whole, parserBreak, closeFrame, Complete
<1>4. longPkg => received < longPkgSize
  <2> HAVE longPkg
  <2>1. received > 0 /\ front.op = "data" /\ longPkgSize = front.size
        /\ received <= longPkgSize /\ RECVBUF <= received
    BY <1>2, FramingAssumption DEF IInv, BufferInv
  <2>2. front.size \in Nat /\ front.need \in Nat /\ front.need <= RECVBUF
    BY <2>1, FrontIsHeader DEF IInv
  <2> QED
    BY <1>2, <1>3, <2>1, <2>2, FramingAssumption DEF Whole
<1>5. ShakeInv' /\ BufferInv'
  BY <1>1, <1>2, <1>3, <1>4 DEF IInv, ShakeInv, BufferInv
<1> QED
  BY <1>1, <1>2, <1>5 DEF IInv, TypeOK, Window, RoomOffered

LEMMA IInvEnd == IInv /\ (uv_readError \/ destroy) => IInv'
<1> SUFFICES ASSUME IInv, uv_readError \/ destroy PROVE IInv'
  OBVIOUS
<1>1. /\ pc \notin {"parsing", "shaking"} /\ pc' \in {"ended", "destroyed"}
      /\ isShotdown' \in BOOLEAN
      /\ UNCHANGED <<peer, taken, buf, longPkg, longPkgSize, room, wsShake, dispatched>>
  BY DEF uv_readError, destroy, IInv, TypeOK
<1>2. /\ received' = received /\ Shaking' = Shaking /\ front' = front /\ Whole' = Whole
      /\ stream' = stream /\ socketType' = socketType
  BY <1>1 DEF received, Shaking, front, Whole, peer
<1> QED
  BY <1>1, <1>2 DEF IInv, TypeOK, Window, ShakeInv, BufferInv, RoomOffered

LEMMA IInvStep == IInv /\ [Next]_vars => IInv'
<1> SUFFICES ASSUME IInv, [Next]_vars PROVE IInv'
  OBVIOUS
<1>1. ASSUME Read PROVE IInv'
  <2>1. PICK nread \in 0..room : uv_readData(nread)
    BY <1>1 DEF Read
  <2> QED
    BY <2>1, IInvRead
<1>2. ASSUME Parse PROVE IInv'
  BY <1>2, IInvShake, IInvBreak, IInvTurn DEF Parse
<1>3. CASE UNCHANGED vars
  <2>1. /\ received' = received /\ Shaking' = Shaking /\ front' = front /\ Whole' = Whole
        /\ stream' = stream /\ socketType' = socketType
    BY <1>3 DEF vars, peer, received, Shaking, front, Whole
  <2> QED
    BY <1>3, <2>1 DEF vars, IInv, TypeOK, Window, ShakeInv, BufferInv, RoomOffered
<1> QED
  BY <1>1, <1>2, <1>3, IInvAlloc, IInvEnd DEF Next

LEMMA Inductive == Spec => []IInv
BY IInvInit, IInvStep, PTL DEF Spec

------------------------------------------------------------------------------
(* The receive state keeps its type.                                           *)
THEOREM TypeCorrect == Spec => []TypeOK
<1>1. IInv => TypeOK
  BY DEF IInv
<1> QED
  BY <1>1, Inductive, PTL

(* The buffer in use holds the last bytes of the stream, whatever the sizes.   *)
THEOREM WindowHolds == Spec => []Window
<1>1. IInv => Window
  BY DEF IInv
<1> QED
  BY <1>1, Inductive, PTL

(* Neither recvBuf nor longPkg is ever overrun, by no stream at all, and the   *)
(* handshake never looks behind recvBuf.                                       *)
THEOREM BuffersInBounds == Spec => []InBounds
<1>1. IInv => InBounds
  <2> SUFFICES ASSUME IInv PROVE InBounds
    OBVIOUS
  <2>1. CASE Shaking
    <3>1. received <= RECVBUF /\ received \in Nat
      BY <2>1, WebStream, StreamIsSeq, FramingAssumption DEF IInv, ShakeInv, Shaking
    <3> QED
      BY <2>1, <3>1, FramingAssumption DEF IInv, ShakeInv, InBounds, TypeOK
  <2>2. CASE ~ Shaking
    BY <2>2 DEF IInv, ShakeInv, BufferInv, InBounds
  <2> QED
    BY <2>1, <2>2
<1> QED
  BY <1>1, Inductive, PTL

(* libuv is never offered an empty buffer.                                     *)
THEOREM AlwaysRoom == Spec => []RoomOffered
<1>1. IInv => RoomOffered
  BY DEF IInv
<1> QED
  BY <1>1, Inductive, PTL

(* longPkg only ever serves the one frame that is too long for recvBuf.        *)
THEOREM LongPkgUse == Spec => []LongPkgForOneFrame
<1>1. IInv => LongPkgForOneFrame
  BY DEF IInv, BufferInv, LongPkgForOneFrame
<1> QED
  BY <1>1, Inductive, PTL

------------------------------------------------------------------------------
(* A turn of the parser is the delivery of the next frame.                     *)
LEMMA TurnDelivers ==
  ASSUME IInv, NEW accepted \in BOOLEAN, dataParser(accepted)
  PROVE  F!Deliver
<1> DEFINE first == taken - received + 1
<1>1. /\ pc = "parsing" /\ pc' = pc /\ stream' = stream /\ taken' = taken
      /\ received > 0 /\ front.op = "data"
      /\ front.size \in Nat /\ front.size <= received /\ received' = received - front.size
  BY TurnRemoves DEF IInv, dataParser, peer
<1>2. received \in Nat /\ taken \in Nat
  BY StreamIsSeq DEF IInv
<1>3. buf[1] = first /\ stream[first] = front
  BY <1>1, <1>2 DEF IInv, Window, front
<1> HIDE DEF first
<1>4. first <= taken /\ first + front.size <= taken + 1
  BY <1>1, <1>2 DEF first
<1>5. taken' - received' + 1 = first + front.size
  BY <1>1, <1>2 DEF first
<1>6. dispatched' = IF HoldsCommand(front) THEN Append(dispatched, first)
                                           ELSE dispatched
  BY <1>3 DEF dataParser, RecCommand
<1>7. pc # "destroyed" /\ pc' # "destroyed"
  BY <1>1
<1>8. ~ Stops(front) /\ SizeOf(front) = front.size
  BY <1>1 DEF Stops, SizeOf
<1>9. F!Deliver <=> /\ pc # "destroyed"
                    /\ first <= taken
                    /\ ~ Stops(stream[first])
                    /\ first + SizeOf(stream[first]) <= taken + 1
                    /\ taken' - received' + 1 = first + SizeOf(stream[first])
                    /\ dispatched' = IF HoldsCommand(stream[first])
                                     THEN Append(dispatched, first) ELSE dispatched
                    /\ UNCHANGED <<stream, taken, pc # "destroyed">>
  BY DEF F!Deliver, first, frame
<1> QED
  BY <1>1, <1>3, <1>4, <1>5, <1>6, <1>7, <1>8, <1>9

(* An answered request is the delivery of the first frame, which holds no      *)
(* command; a handshake that waits changes nothing.                            *)
LEMMA ShakeDelivers == IInv /\ shakeHand => F!Deliver \/ UNCHANGED F!streamVars
<1> SUFFICES ASSUME IInv, shakeHand PROVE F!Deliver \/ UNCHANGED F!streamVars
  OBVIOUS
<1>1. /\ pc = "shaking" /\ pc' = "idle" /\ stream' = stream /\ taken' = taken
      /\ dispatched' = dispatched
      /\ buf' = IF webserShakeHand THEN <<>> ELSE buf
  BY DEF shakeHand, peer
<1>2. /\ received \in Nat /\ received = taken /\ taken <= stream[1].size
      /\ stream[1].size \in 1..RECVBUF
  BY <1>1, WebStream, StreamIsSeq DEF IInv, ShakeInv, Shaking
<1>3. frame = 1
  BY <1>2 DEF frame
<1>4. CASE webserShakeHand
  <2>1. taken = stream[1].size /\ stream[1].op = "request" /\ RECVBUF \in Nat
    BY <1>2, <1>4, FramingAssumption DEF webserShakeHand
  <2>2. received' = 0
    BY <1>1, <1>4 DEF received
  <2>3. frame' = 1 + stream[1].size /\ 1 <= taken
    BY <1>1, <1>2, <2>1, <2>2 DEF frame
  <2>4. ~ Stops(stream[1]) /\ ~ HoldsCommand(stream[1]) /\ SizeOf(stream[1]) = stream[1].size
    BY <2>1 DEF Stops, HoldsCommand, SizeOf
  <2>5. F!Deliver <=> /\ pc # "destroyed"
                      /\ frame <= taken
                      /\ ~ Stops(stream[frame])
                      /\ frame + SizeOf(stream[frame]) <= taken + 1
                      /\ frame' = frame + SizeOf(stream[frame])
                      /\ dispatched' = IF HoldsCommand(stream[frame])
                                       THEN Append(dispatched, frame) ELSE dispatched
                      /\ UNCHANGED <<stream, taken, pc # "destroyed">>
    BY DEF F!Deliver
  <2>6. pc # "destroyed" /\ pc' # "destroyed" /\ 1 + stream[1].size <= taken + 1
    BY <1>1, <1>2, <2>1
  <2> QED
    BY <1>1, <1>3, <2>3, <2>4, <2>5, <2>6
<1>5. CASE ~ webserShakeHand
  <2>1. received' = received
    BY <1>1, <1>5 DEF received
  <2> QED
    BY <1>1, <2>1 DEF F!streamVars, frame
<1> QED
  BY <1>4, <1>5

LEMMA ReadReceives ==
  ASSUME IInv, NEW nread \in Nat, uv_readData(nread)
  PROVE  F!Receive(nread) /\ nread \in 0..Len(stream)
<1>1. /\ pc = "reading" /\ pc' \in {"shaking", "parsing"} /\ stream' = stream
      /\ taken' = taken + nread /\ dispatched' = dispatched
  BY DEF uv_readData, peer
<1>2. received' = received + nread /\ taken + nread <= Len(stream)
  BY ReadAppends
<1>3. received \in Nat /\ taken \in Nat /\ Len(stream) \in Nat
  BY StreamIsSeq DEF IInv
<1>4. taken' - received' + 1 = taken - received + 1
  BY <1>1, <1>2, <1>3
<1>5. taken' \in taken .. Len(stream) /\ nread \in 0..Len(stream)
  BY <1>1, <1>2, <1>3
<1> QED
  BY <1>1, <1>4, <1>5 DEF F!Receive, frame

LEMMA StepRefines == IInv /\ [Next]_vars => [F!Next]_(F!streamVars)
<1> SUFFICES ASSUME IInv, [Next]_vars PROVE [F!Next]_(F!streamVars)
  OBVIOUS
<1>1. ASSUME Read PROVE F!Next
  <2>1. PICK nread \in 0..room : uv_readData(nread)
    BY <1>1 DEF Read
  <2> QED
    BY <2>1, ReadReceives DEF F!Next
<1>2. ASSUME NEW accepted \in BOOLEAN, dataParser(accepted) PROVE F!Next
  BY <1>2, TurnDelivers DEF F!Next
<1>3. CASE destroy
  <2>1. pc # "destroyed"
    BY <1>3 DEF destroy
  <2>2. pc' = "destroyed" /\ UNCHANGED <<stream, taken, buf, dispatched>>
    BY <1>3 DEF destroy, peer
  <2>3. received' = received
    BY <2>2 DEF received
  <2> QED
    BY <2>1, <2>2, <2>3 DEF F!Destroy, F!Next, frame
<1>4. CASE uv_tcpBuffmem \/ uv_readError \/ parserBreak \/ closeFrame \/ UNCHANGED vars
  <2>1. UNCHANGED <<stream, taken, buf, dispatched>>
        /\ (pc' # "destroyed") = (pc # "destroyed")
    BY <1>4 DEF uv_tcpBuffmem, uv_readError, parserBreak, closeFrame, vars, peer
  <2>2. received' = received
    BY <2>1 DEF received
  <2> QED
    BY <2>1, <2>2 DEF F!streamVars, frame
<1>5. CASE shakeHand
  BY <1>5, ShakeDelivers DEF F!Next
<1> QED
  BY <1>1, <1>2, <1>3, <1>4, <1>5 DEF Next, Parse

(* The session implements the stream of frames for every stream a peer can     *)
(* send, malformed TCP frames included: each frame that holds a command is      *)
(* handed to recvCmdMsg exactly when its turn in the stream comes.             *)
THEOREM RefinesStream == Spec => ImplementsStream
<1>1. Init => F!Init
  BY FramingAssumption DEF Init, F!Init, received, frame, SocketTypes
<1> QED
  BY <1>1, Inductive, StepRefines, PTL DEF Spec, ImplementsStream, F!Spec

------------------------------------------------------------------------------
(* The parser comes back whenever no TCP header says 0 bytes: each turn of its *)
(* loop takes bytes out of the buffer.                                         *)
THEOREM LoopShrinks == Spec => TurnsShrink
<1>1. IInv /\ [Next]_vars =>
        [pc = "parsing" /\ pc' = "parsing" =>
           \/ received' < received
           \/ socketType = "TCP_SOCKET" /\ front.size = 0]_vars
  <2> SUFFICES ASSUME IInv, Next, pc = "parsing", pc' = "parsing"
               PROVE  \/ received' < received
                      \/ socketType = "TCP_SOCKET" /\ front.size = 0
    OBVIOUS
  <2>1. PICK accepted \in BOOLEAN : dataParser(accepted)
    BY DEF Next, Read, uv_tcpBuffmem, uv_readData, uv_readError, Parse, shakeHand, closeFrame,
           parserBreak, destroy
  <2>2. /\ received > 0 /\ front.op = "data" /\ front.size \in Nat
        /\ received' = received - front.size /\ received \in Nat
    BY <2>1, TurnRemoves, StreamIsSeq DEF IInv
  <2>3. CASE socketType = "WEB_SOCKET"
    <3>1. buf[1] \in 1..Len(stream) /\ front = stream[buf[1]]
      BY <2>2, StreamIsSeq DEF IInv, front
    <3>2. buf[1] # 1
      BY <2>2, <2>3, <3>1, WebStream DEF IInv
    <3>3. buf[1] \in 2..Len(stream)
      BY <3>1, <3>2, StreamIsSeq DEF IInv
    <3>4. front.need < front.head /\ front.head <= front.size
      BY <2>2, <2>3, <3>1, <3>3, FramingAssumption DEF IInv, TypeOK
    <3>5. 0 < front.need /\ front.need \in Nat /\ front.head \in Nat
      BY <2>2, <3>1, StreamIsSeq DEF IInv, Header
    <3> QED
      BY <2>2, <3>4, <3>5
  <2>4. CASE socketType = "TCP_SOCKET"
    BY <2>2, <2>4
  <2> QED
    BY <2>3, <2>4 DEF IInv, TypeOK, SocketTypes
<1> QED
  BY <1>1, Inductive, PTL DEF Spec, TurnsShrink

------------------------------------------------------------------------------
(* What the abstract stream of frames comes to.                                *)
AllStreams == Streams["TCP_SOCKET"] \cup Streams["WEB_SOCKET"]

StreamTyped == /\ stream \in AllStreams /\ taken \in 0..Len(stream)
               /\ frame \in Nat \ {0} /\ frame <= taken + 1
               /\ dispatched \in Seq(1..Len(stream))

LEMMA AnyStream ==
  ASSUME NEW s \in AllStreams
  PROVE  /\ Len(s) \in Nat
         /\ \A p \in 1..Len(s) : /\ SizeOf(s[p]) \in Nat
                                 /\ HoldsCommand(s[p]) => SizeOf(s[p]) > 0
<1>1. s \in Seq(Header)
  BY FramingAssumption DEF AllStreams, SocketTypes
<1>2. Len(s) \in Nat /\ \A p \in 1..Len(s) : s[p] \in Header
  BY <1>1, LenProperties, ElementOfSeq
<1>3. ASSUME NEW h \in Header
      PROVE  SizeOf(h) \in Nat /\ (HoldsCommand(h) => SizeOf(h) > 0)
  BY FramingAssumption DEF Header, SizeOf, HoldsCommand
<1> QED
  BY <1>2, <1>3

StreamInv == StreamTyped /\ F!InStep /\ F!InOrder

LEMMA StreamInit == F!Init => StreamInv
<1> SUFFICES ASSUME F!Init PROVE StreamInv
  OBVIOUS
<1>1. stream \in AllStreams /\ taken = 0 /\ frame = 1 /\ dispatched = <<>>
  BY DEF F!Init, AllStreams
<1>2. StreamTyped
  BY <1>1, AnyStream DEF StreamTyped
<1>3. F!InOrder
  BY <1>1 DEF F!InOrder
<1>4. F!InStep
  <2>1. {1} \in SUBSET (1..frame) /\ {1, frame} \subseteq {1} /\ {1} \ {frame} = {}
    BY <1>1
  <2>2. {dispatched[i] : i \in 1..Len(dispatched)} = {}
    BY <1>1
  <2> QED
    BY <2>1, <2>2 DEF F!InStep
<1> QED
  BY <1>2, <1>3, <1>4 DEF StreamInv

LEMMA LaterByte == \A a, b, c \in Nat : a <= b /\ c <= a + 1 => c <= b + 1
OBVIOUS

(* Bytes that arrive change no frame before them.                              *)
LEMMA StreamReceive ==
  ASSUME StreamInv, stream' = stream, frame' = frame, dispatched' = dispatched,
         taken' \in taken .. Len(stream)
  PROVE  StreamInv'
<1>1. /\ taken \in Nat /\ taken' \in Nat /\ taken <= taken'
      /\ frame \in Nat /\ frame # 0 /\ frame <= taken + 1
  BY AnyStream DEF StreamInv, StreamTyped
<1>2. StreamTyped'
  <2>1. taken' \in 0..Len(stream)
    BY <1>1, AnyStream DEF StreamInv, StreamTyped
  <2>2. frame <= taken' + 1
    BY <1>1, LaterByte
  <2> QED
    BY <1>1, <2>1, <2>2 DEF StreamInv, StreamTyped
<1>3. F!InStep'
  BY DEF StreamInv, F!InStep
<1>4. F!InOrder'
  <2> SUFFICES ASSUME NEW i \in 1..Len(dispatched)
               PROVE  LET end == dispatched[i] + SizeOf(stream[dispatched[i]])
                      IN /\ dispatched[i] < end /\ end <= frame /\ frame <= taken' + 1
                         /\ \A j \in (i+1)..Len(dispatched) : end <= dispatched[j]
    BY DEF F!InOrder
  <2>1. frame <= taken' + 1
    BY <1>1, LaterByte
  <2> QED
    BY <2>1 DEF StreamInv, F!InOrder
<1> QED
  BY <1>2, <1>3, <1>4 DEF StreamInv

(* The frame that is delivered begins where the one before it ended, and the   *)
(* next begins where it ends.                                                  *)
LEMMA StreamDeliver == ASSUME StreamInv, F!Deliver PROVE StreamInv'
<1> DEFINE size == SizeOf(stream[frame])
<1>1. /\ stream' = stream /\ taken' = taken /\ frame <= taken
      /\ frame + size <= taken + 1 /\ frame' = frame + size
      /\ dispatched' = IF HoldsCommand(stream[frame]) THEN Append(dispatched, frame)
                                                      ELSE dispatched
  BY DEF F!Deliver
<1>2. /\ frame \in Nat \ {0} /\ taken \in Nat /\ taken <= Len(stream)
      /\ frame \in 1..Len(stream) /\ stream \in AllStreams
  BY <1>1, AnyStream DEF StreamInv, StreamTyped
<1>3. size \in Nat /\ (HoldsCommand(stream[frame]) => size > 0)
  BY <1>2, AnyStream
<1> HIDE DEF size
<1>4. /\ dispatched \in Seq(1..Len(stream)) /\ dispatched' \in Seq(1..Len(stream))
  <2>1. dispatched \in Seq(1..Len(stream))
    BY DEF StreamInv, StreamTyped
  <2> QED
    BY <1>1, <1>2, <2>1, AppendProperties
<1>5. StreamTyped'
  BY <1>1, <1>2, <1>3, <1>4 DEF StreamInv, StreamTyped
<1>6. Len(dispatched) \in Nat
  BY <1>4, LenProperties
<1>7. ASSUME HoldsCommand(stream[frame])
      PROVE  /\ Len(dispatched') = Len(dispatched) + 1
             /\ \A i \in 1..Len(dispatched) : dispatched'[i] = dispatched[i]
             /\ dispatched'[Len(dispatched) + 1] = frame
  BY <1>1, <1>2, <1>4, <1>7, AppendProperties
<1>8. F!InStep'
  <2>1. PICK starts \in SUBSET (1..frame) :
          /\ {1, frame} \subseteq starts
          /\ \A p \in starts \ {frame} :
               /\ SizeOf(stream[p]) > 0 /\ p + SizeOf(stream[p]) \in starts
               /\ \A q \in starts : q <= p \/ p + SizeOf(stream[p]) <= q
          /\ {dispatched[i] : i \in 1..Len(dispatched)}
               = {p \in starts \ {frame} : HoldsCommand(stream[p])}
    BY DEF StreamInv, F!InStep
  <2>2. CASE size = 0
    <3>1. frame' = frame /\ dispatched' = dispatched
      BY <1>1, <1>2, <1>3, <2>2
    <3> QED
      BY <1>1, <3>1 DEF StreamInv, F!InStep
  <2>3. CASE size > 0
    <3> DEFINE more == starts \cup {frame'}
    <3>1. frame' \in Nat /\ frame < frame' /\ frame' = frame + size
      BY <1>1, <1>2, <1>3, <2>3
    <3>2. starts \subseteq 1..frame /\ frame \in starts
      BY <2>1
    <3>3. more \in SUBSET (1..frame') /\ {1, frame'} \subseteq more
      <4>1. frame' \in 1..frame'
        BY <1>2, <3>1
      <4>2. 1..frame \subseteq 1..frame'
        BY <1>2, <3>1
      <4> QED
        BY <2>1, <3>2, <4>1, <4>2
    <3>4. more \ {frame'} = starts
      BY <1>2, <3>1, <3>2
    <3>5. ASSUME NEW p \in starts
          PROVE  /\ SizeOf(stream[p]) > 0 /\ p + SizeOf(stream[p]) \in more
                 /\ \A q \in more : q <= p \/ p + SizeOf(stream[p]) <= q
      <4>1. CASE p = frame
        BY <1>2, <2>3, <3>1, <3>2, <4>1 DEF size
      <4>2. CASE p # frame
        <5>1. /\ SizeOf(stream[p]) > 0 /\ p + SizeOf(stream[p]) \in starts
              /\ \A q \in starts : q <= p \/ p + SizeOf(stream[p]) <= q
          BY <2>1, <4>2
        <5>2. p + SizeOf(stream[p]) \in 1..frame
          BY <3>2, <5>1
        <5>3. p + SizeOf(stream[p]) <= frame'
          BY <1>2, <3>1, <5>2
        <5> QED
          BY <5>1, <5>3
      <4> QED
        BY <4>1, <4>2
    <3>6. {dispatched'[i] : i \in 1..Len(dispatched')} = {p \in starts : HoldsCommand(stream[p])}
      <4>1. {dispatched[i] : i \in 1..Len(dispatched)}
              = {p \in starts \ {frame} : HoldsCommand(stream[p])}
        BY <2>1
      <4>2. CASE HoldsCommand(stream[frame])
        <5>1. {dispatched'[i] : i \in 1..Len(dispatched')}
                = {dispatched[i] : i \in 1..Len(dispatched)} \cup {frame}
          <6>1. \A i \in 1..Len(dispatched') : i \in 1..Len(dispatched) \/ i = Len(dispatched) + 1
            BY <1>7, <1>6, <4>2
          <6>2. \A i \in 1..Len(dispatched) : i \in 1..Len(dispatched')
            BY <1>7, <1>6, <4>2
          <6>3. Len(dispatched) + 1 \in 1..Len(dispatched')
            BY <1>7, <1>6, <4>2
          <6> QED
            BY <1>7, <4>2, <6>1, <6>2, <6>3
        <5> QED
          BY <3>2, <4>1, <4>2, <5>1
      <4>3. CASE ~ HoldsCommand(stream[frame])
        BY <1>1, <3>2, <4>1, <4>3
      <4> QED
        BY <4>2, <4>3
    <3> HIDE DEF more
    <3> QED
      BY <1>1, <3>3, <3>4, <3>5, <3>6 DEF F!InStep
  <2> QED
    BY <1>3, <2>2, <2>3
<1>9. F!InOrder'
  <2> DEFINE end(i) == dispatched[i] + SizeOf(stream[dispatched[i]])
  <2>1. ASSUME NEW i \in 1..Len(dispatched)
        PROVE  /\ dispatched[i] < end(i) /\ end(i) <= frame
               /\ \A j \in (i+1)..Len(dispatched) : end(i) <= dispatched[j]
               /\ end(i) \in Nat
    <3>1. /\ dispatched[i] < end(i) /\ end(i) <= frame
          /\ \A j \in (i+1)..Len(dispatched) : end(i) <= dispatched[j]
      BY DEF StreamInv, F!InOrder
    <3>2. dispatched[i] \in 1..Len(stream)
      BY <1>4, ElementOfSeq
    <3> QED
      BY <1>2, <3>1, <3>2, AnyStream
  <2>2. frame <= frame' /\ frame' \in Nat /\ frame' <= taken' + 1
    BY <1>1, <1>2, <1>3
  <2> HIDE DEF end
  <2>3. ASSUME NEW i \in 1..Len(dispatched)
        PROVE  /\ dispatched[i] < end(i) /\ end(i) <= frame'
               /\ \A j \in (i+1)..Len(dispatched') : end(i) <= dispatched'[j]
    <3>1. end(i) <= frame'
      BY <1>2, <2>1, <2>2
    <3>2. ASSUME NEW j \in (i+1)..Len(dispatched') PROVE end(i) <= dispatched'[j]
      <4>1. CASE HoldsCommand(stream[frame])
        <5>1. j \in (i+1)..Len(dispatched) \/ j = Len(dispatched) + 1
          BY <1>7, <1>6, <4>1
        <5>2. CASE j \in (i+1)..Len(dispatched)
          <6>1. j \in 1..Len(dispatched)
            BY <1>6, <5>2
          <6> QED
            BY <1>7, <2>1, <4>1, <5>2, <6>1
        <5>3. CASE j = Len(dispatched) + 1
          BY <1>7, <2>1, <4>1, <5>3
        <5> QED
          BY <5>1, <5>2, <5>3
      <4>2. CASE ~ HoldsCommand(stream[frame])
        BY <1>1, <2>1, <4>2
      <4> QED
        BY <4>1, <4>2
    <3> QED
      BY <2>1, <3>1, <3>2
  <2>4. ASSUME NEW i \in 1..Len(dispatched')
        PROVE  LET last == dispatched'[i] + SizeOf(stream[dispatched'[i]])
               IN /\ dispatched'[i] < last /\ last <= frame' /\ frame' <= taken' + 1
                  /\ \A j \in (i+1)..Len(dispatched') : last <= dispatched'[j]
    <3>1. CASE i \in 1..Len(dispatched)
      <4>1. dispatched'[i] = dispatched[i]
        BY <1>1, <1>7, <3>1
      <4> QED
        BY <2>2, <2>3, <3>1, <4>1 DEF end
    <3>2. CASE i \notin 1..Len(dispatched)
      <4>1. HoldsCommand(stream[frame]) /\ i = Len(dispatched) + 1
        BY <1>1, <1>7, <1>6, <3>2
      <4>2. dispatched'[i] = frame /\ (i+1)..Len(dispatched') = {}
        BY <1>7, <1>6, <4>1
      <4>3. frame < frame' /\ frame' = frame + size
        BY <1>1, <1>2, <1>3, <4>1
      <4> QED
        BY <2>2, <4>2, <4>3 DEF size
    <3> QED
      BY <3>1, <3>2
  <2> QED
    BY <1>1, <2>4 DEF F!InOrder
<1> QED
  BY <1>5, <1>8, <1>9 DEF StreamInv

LEMMA StreamStep == StreamInv /\ [F!Next]_(F!streamVars) => StreamInv'
<1> SUFFICES ASSUME StreamInv, [F!Next]_(F!streamVars) PROVE StreamInv'
  OBVIOUS
<1>1. ASSUME NEW n \in 0..Len(stream), F!Receive(n) PROVE StreamInv'
  BY <1>1, StreamReceive DEF F!Receive
<1>2. CASE F!Deliver
  BY <1>2, StreamDeliver
<1>3. CASE F!Destroy \/ UNCHANGED F!streamVars
  <2>1. /\ stream' = stream /\ taken' = taken /\ frame' = frame /\ dispatched' = dispatched
    BY <1>3 DEF F!Destroy, F!streamVars
  <2>2. taken \in taken .. Len(stream)
    BY AnyStream DEF StreamInv, StreamTyped
  <2> QED
    BY <2>1, <2>2, StreamReceive
<1> QED
  BY <1>1, <1>2, <1>3 DEF F!Next

(* What the dispatcher was given is exactly the commands of the stream, as it  *)
(* is cut into frames from its first byte: the parser is never out of step,    *)
(* and no command is skipped, given twice, early or out of order.              *)
THEOREM FramesInStep == Spec => [](F!InStep /\ F!InOrder)
<1>1. F!Spec => []StreamInv
  BY StreamInit, StreamStep, PTL DEF F!Spec
<1>2. StreamInv => F!InStep /\ F!InOrder
  BY DEF StreamInv
<1>3. Spec => F!Spec
  BY RefinesStream DEF ImplementsStream
<1> QED
  BY <1>1, <1>2, <1>3, PTL
=============================================================================
