------------------------------- MODULE Framing -------------------------------
(* The receive path of one session, TCP or web socket (netbus/netbus.cc):      *)
(* libuv asks uv_tcpBuffmem for memory and hands the bytes that arrived to      *)
(* uv_readData, which shakes hands with a web client or runs the loop of a     *)
(* parser; each turn of the loop is an action.  A frame that does not fit       *)
(* recvBuf continues in longPkg, allocated at its size.                        *)
(*                                                                             *)
(* A byte is represented by its position in the peer's stream, so that a       *)
(* misplaced copy shows; stream[p] is what the parsers decode from the bytes   *)
(* at p.  Decoding a payload (the mask) moves nothing.                         *)
EXTENDS Integers, Sequences

CONSTANTS
  Streams,     \* Streams[type]: what peers may send, bounds the bytes of a run
  RECVBUF,     \* size of recvBuf (4096, session_uv.h:7)
  MinCommand,  \* bytes decodeMsgHead needs (8, protocolmanager.cc:185-195)
  HttpSize     \* the size readTcpHeader decodes from "GE" (17735)

SocketTypes == {"TCP_SOCKET", "WEB_SOCKET"}

(* What stands at a byte: a request with or without Sec-WebSocket-Key, or a    *)
(* frame.  need: the bytes that tell the size (TCP: 2; web: 2, 4 or 10).  head: *)
(* the bytes before the payload (TCP: 2; web: 4 more, the mask).  size: all.   *)
Header == [op : {"request", "keyless", "data", "close", "other"},
           need : Nat, head : Nat, size : Nat]

(* A web stream begins with a request that recvBuf can hold, its frames are not *)
(* shorter than their headers, and after a frame of another kind than data the *)
(* peer sends less than recvBuf can hold.                                      *)
ASSUME FramingAssumption ==
  /\ RECVBUF \in Nat \ {0} /\ MinCommand \in Nat \ {0} /\ HttpSize \in Nat
  /\ RECVBUF < HttpSize
  /\ \A type \in SocketTypes : \A s \in Streams[type] :
       /\ s \in Seq(Header)
       /\ \A p \in 1..Len(s) : s[p].op = "data" => 0 < s[p].need /\ s[p].need <= RECVBUF
  /\ \A s \in Streams["TCP_SOCKET"] : \A p \in 1..Len(s) : s[p].op = "data"
  /\ \A s \in Streams["WEB_SOCKET"] :
       /\ s # <<>> /\ s[1].op \in {"request", "keyless"}
       /\ s[1].size \in 1..RECVBUF /\ s[1].size <= Len(s)
       /\ \A p \in 2..Len(s) :
            IF s[p].op = "data" THEN s[p].need < s[p].head /\ s[p].head <= s[p].size
                                ELSE Len(s) - p + 1 < RECVBUF

VARIABLES
  socketType,  \* the kind of the session
  stream,      \* the bytes the peer sends
  taken,       \* how many of them were read from the socket
  buf,         \* the received bytes in the buffer in use; received = Len(buf)
  longPkg,     \* TRUE iff longPkg is allocated, and then it is the buffer in use
  longPkgSize, \* its size
  room,        \* bytes uv_tcpBuffmem offered for the read in progress
  pc,          \* where the loop thread is in this session
  wsShake,     \* the handshake of a web session is done
  isShotdown,  \* close() was called
  dispatched   \* first byte of every frame given to recvCmdMsg, in order

peer == <<socketType, stream>>
vars == <<peer, taken, buf, longPkg, longPkgSize, room, pc, wsShake, isShotdown, dispatched>>

received == Len(buf)

Init == /\ socketType \in SocketTypes
        /\ stream \in Streams[socketType]
        /\ taken = 0
        /\ buf = <<>>
        /\ longPkg = FALSE
        /\ longPkgSize = 0
        /\ room = 0
        /\ pc = "idle"
        /\ wsShake = FALSE
        /\ isShotdown = FALSE
        /\ dispatched = <<>>

------------------------------------------------------------------------------
front == stream[buf[1]]

(* Too few bytes for a header.  A web header may also be refused: any opcode   *)
(* but 0x81 and 0x82 is.                                                       *)
readTcpHeader == received >= front.need
readWebHeader == front.op = "data" /\ received >= front.need
readHeader == IF socketType = "WEB_SOCKET" THEN readWebHeader ELSE readTcpHeader

(* A web session that has not answered its request yet.                        *)
Shaking == socketType = "WEB_SOCKET" /\ ~ wsShake

(* The size of longPkg: before the handshake the bytes are read as a TCP frame, *)
(* and a header that is refused leaves the size 0.                             *)
announced == CASE Shaking -> HttpSize
               [] ~ Shaking /\ readHeader -> front.size
               [] OTHER -> 0

(* Mutant: the memory offered is the whole of recvBuf, whatever is in it. *)
uv_tcpBuffmemWhole ==
  /\ pc = "idle"
  /\ room' = RECVBUF
  /\ pc' = "reading"
  /\ UNCHANGED <<peer, taken, buf, longPkg, longPkgSize, wsShake, isShotdown, dispatched>>

(* Mutant: the size is taken for the size behind the header. *)
uv_tcpBuffmemBody ==
  /\ pc = "idle"
  /\ longPkg' = (received >= RECVBUF)
  /\ longPkgSize' = IF longPkg' THEN announced + front.head ELSE 0
  /\ room' = (IF longPkg' THEN longPkgSize' ELSE RECVBUF) - received
  /\ pc' = "reading"
  /\ UNCHANGED <<peer, taken, buf, wsShake, isShotdown, dispatched>>

(* The memory for the next read: the free end of recvBuf; when recvBuf is full *)
(* the bytes move to longPkg, of the size the frame announced.                 *)
uv_tcpBuffmem ==
  /\ pc = "idle"
  /\ IF received < RECVBUF
     THEN /\ room' = RECVBUF - received
          /\ UNCHANGED <<longPkg, longPkgSize>>
     ELSE /\ longPkg' = TRUE
          /\ longPkgSize' = IF longPkg THEN longPkgSize ELSE announced
          /\ room' = longPkgSize' - received
  /\ pc' = "reading"
  /\ UNCHANGED <<peer, taken, buf, wsShake, isShotdown, dispatched>>

(* A web client sends its first frame when it has the answer to its request.   *)
sendable == IF Shaking THEN stream[1].size ELSE Len(stream)

(* Mutant: the length of the buffer is counted instead of nread. *)
uv_readDataRoom(nread) ==
  /\ pc = "reading"
  /\ nread <= room /\ taken + nread <= sendable
  /\ buf' = buf \o [i \in 1..room |-> taken + i]
  /\ taken' = taken + room
  /\ pc' = IF Shaking THEN "shaking" ELSE "parsing"
  /\ UNCHANGED <<peer, longPkg, longPkgSize, room, wsShake, isShotdown, dispatched>>

(* nread >= 0: any number of the bytes in flight, up to the room offered, for   *)
(* the handshake or for the parser.                                            *)
uv_readData(nread) ==
  /\ pc = "reading"
  /\ nread <= room /\ taken + nread <= sendable
  /\ buf' = buf \o [i \in 1..nread |-> taken + i]
  /\ taken' = taken + nread
  /\ pc' = IF Shaking THEN "shaking" ELSE "parsing"
  /\ UNCHANGED <<peer, longPkg, longPkgSize, room, wsShake, isShotdown, dispatched>>

(* nread < 0: the peer is gone, or libuv got no buffer (UV_ENOBUFS); libuv     *)
(* reads no more from this socket.                                             *)
uv_readError ==
  /\ pc = "reading"
  /\ isShotdown' = TRUE
  /\ pc' = "ended"
  /\ UNCHANGED <<peer, taken, buf, longPkg, longPkgSize, room, wsShake, dispatched>>

(* webserShakeHand parses recvBuf from its first byte at every read: it needs   *)
(* the whole request, and the key in it.  The answer it sends is in SendPath.  *)
webserShakeHand == received >= stream[1].size /\ stream[1].op = "request"

(* Mutant: the request stays in the buffer. *)
shakeHandKeepsRequest ==
  /\ pc = "shaking"
  /\ wsShake' = webserShakeHand
  /\ pc' = "idle"
  /\ UNCHANGED <<peer, taken, buf, longPkg, longPkgSize, room, isShotdown, dispatched>>

(* The web branch of uv_readData: the request is dropped when it was answered. *)
shakeHand ==
  /\ pc = "shaking"
  /\ wsShake' = webserShakeHand
  /\ buf' = IF webserShakeHand THEN <<>> ELSE buf
  /\ pc' = "idle"
  /\ UNCHANGED <<peer, taken, longPkg, longPkgSize, room, isShotdown, dispatched>>

(* The page was closed: no further turn of the loop.                           *)
closeFrame ==
  /\ pc = "parsing"
  /\ received > 0 /\ front.op = "close"
  /\ isShotdown' = TRUE
  /\ pc' = "idle"
  /\ UNCHANGED <<peer, taken, buf, longPkg, longPkgSize, room, wsShake, dispatched>>

(* Mutant: a frame is only taken when more than the frame is there. *)
CompleteStrict == received > 0 /\ readHeader /\ received > front.size

Complete == received > 0 /\ readHeader /\ received >= front.size

(* The loop ends: nothing received, half a header, half a frame, or refused.   *)
parserBreak ==
  /\ pc = "parsing"
  /\ received > 0 => front.op # "close"
  /\ ~ Complete
  /\ pc' = "idle"
  /\ UNCHANGED <<peer, taken, buf, longPkg, longPkgSize, room, wsShake, isShotdown, dispatched>>

(* RecCommand: bytes too short for a command head are dropped, a command may be *)
(* refused by its service, and then the session is closed.                     *)
HoldsCommand(h) == h.op = "data" /\ h.size - h.head >= MinCommand

RecCommand(accepted) == IF HoldsCommand(front)
                        THEN dispatched' = Append(dispatched, buf[1])
                        ELSE accepted /\ UNCHANGED dispatched

(* Mutant: the rest is not moved to the front. *)
dataParserNoMove(accepted) ==
  /\ pc = "parsing"
  /\ Complete
  /\ RecCommand(accepted)
  /\ isShotdown' = (isShotdown \/ front.size <= front.head \/ ~ accepted)
  /\ buf' = SubSeq(buf, 1, received - front.size)
  /\ longPkg' = FALSE /\ longPkgSize' = 0
  /\ UNCHANGED <<peer, taken, room, pc, wsShake>>

(* One turn of the loop of tcpDataParser or webDataParser: dispatch the frame, *)
(* move the rest to the front, give longPkg back when nothing is left in it.  A *)
(* TCP frame no longer than its header closes the session, and the turn goes on *)
(* all the same.                                                               *)
dataParser(accepted) ==
  /\ pc = "parsing"
  /\ Complete
  /\ RecCommand(accepted)
  /\ isShotdown' = \/ isShotdown \/ ~ accepted
                   \/ socketType = "TCP_SOCKET" /\ front.size <= front.head
  /\ buf' = SubSeq(buf, front.size + 1, received)
  /\ IF received = front.size /\ longPkg
     THEN longPkg' = FALSE /\ longPkgSize' = 0
     ELSE UNCHANGED <<longPkg, longPkgSize>>
  /\ UNCHANGED <<peer, taken, room, pc, wsShake>>

(* The shutdown that close() began is over: uv_close, and destroy.  This runs  *)
(* from the event loop, between two reads; recvBuf goes with the session.      *)
destroy ==
  /\ isShotdown
  /\ pc \in {"idle", "reading", "ended"}
  /\ pc' = "destroyed"
  /\ UNCHANGED <<peer, taken, buf, longPkg, longPkgSize, room, wsShake, isShotdown, dispatched>>

Read == \E nread \in 0..room : uv_readData(nread)
Parse == shakeHand \/ closeFrame \/ parserBreak \/ \E accepted \in BOOLEAN : dataParser(accepted)

Next == uv_tcpBuffmem \/ Read \/ uv_readError \/ Parse \/ destroy

Spec == Init /\ [][Next]_vars

(* The loop thread never stops in the middle of a callback, and the network    *)
(* delivers the bytes of a peer that stays: reads of no byte do not repeat      *)
(* for ever while bytes are in flight, which takes strong fairness.             *)
Fairness == /\ WF_vars(uv_tcpBuffmem)
            /\ SF_vars(\E nread \in 1..room : uv_readData(nread))
            /\ WF_vars(Parse)

FairSpec == Spec /\ Fairness

------------------------------------------------------------------------------
(* Type invariant of the receive state (session_uv.h:29-37).                   *)
TypeOK == /\ socketType \in SocketTypes
          /\ stream \in Streams[socketType]
          /\ taken \in 0..Len(stream)
          /\ buf \in Seq(1..Len(stream))
          /\ longPkg \in BOOLEAN
          /\ longPkgSize \in Nat
          /\ room \in Int
          /\ pc \in {"idle", "reading", "shaking", "parsing", "ended", "destroyed"}
          /\ wsShake \in BOOLEAN
          /\ isShotdown \in BOOLEAN
          /\ dispatched \in Seq(1..Len(stream))

(* The buffer in use holds exactly the last bytes read, in order: no memcpy or *)
(* memmove between recvBuf, longPkg and the front loses or repeats a byte.     *)
Window == \A i \in 1..received : buf[i] = taken - received + i

(* No byte is written outside the buffer in use: recvBuf while longPkg is NULL, *)
(* longPkg of the size the header announced otherwise.  And the handshake,     *)
(* which only knows recvBuf, reads nothing behind its end.                     *)
InBounds == /\ received <= IF longPkg THEN longPkgSize ELSE RECVBUF
            /\ pc = "shaking" => received <= RECVBUF

(* libuv is always offered some room: a full buffer would end the connection   *)
(* with UV_ENOBUFS although the peer did nothing wrong (uv_tcpBuffmem).        *)
RoomOffered == pc = "reading" =>
                 /\ room > 0
                 /\ received + room = IF longPkg THEN longPkgSize ELSE RECVBUF

(* longPkg is in use only for one frame that recvBuf cannot hold, which is at  *)
(* its front: it never holds the beginning of a second frame, and it is gone   *)
(* when its frame is complete.  (A session destroyed before that leaks it.)    *)
LongPkgForOneFrame ==
  longPkg /\ pc # "parsing" /\ ~ Shaking =>
    /\ RECVBUF <= received
    /\ received < longPkgSize
    /\ front.op = "data" /\ longPkgSize = front.size

SizeOf(h) == h.size
Stops(h) == h.op \in {"keyless", "close", "other"}
frame == taken - received + 1

F == INSTANCE FrameStream WITH Streams <- Streams["TCP_SOCKET"] \cup Streams["WEB_SOCKET"],
                               Size <- SizeOf,
                               IsCommand <- HoldsCommand,
                               delivered <- dispatched,
                               open <- pc # "destroyed"

(* Both kinds of sessions implement the same stream of frames: each frame that *)
(* holds a command reaches recvCmdMsg once, in the order of the stream, and    *)
(* only when complete; a request is a frame that holds no command.             *)
ImplementsStream == F!Spec

(* Every byte of a peer that stays is taken out of the buffer, in whatever     *)
(* pieces the network delivers it, up to a frame that is neither text nor      *)
(* binary, unless a frame makes the session close.                             *)
AllParsed == <>(isShotdown \/ frame > Len(stream) \/ Stops(stream[frame]))

(* Every turn of a parser's loop takes bytes out of the buffer, so that the    *)
(* loop ends, but for a TCP frame whose header says 0 bytes (netbus.cc:45-60).  *)
TurnsShrink ==
  [][pc = "parsing" /\ pc' = "parsing" =>
       \/ received' < received
       \/ socketType = "TCP_SOCKET" /\ front.size = 0]_vars

(* The parser always comes back to the event loop.                             *)
ParserReturns == pc = "parsing" ~> pc # "parsing"
=============================================================================
