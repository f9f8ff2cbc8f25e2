------------------------------- MODULE SendPath -------------------------------
(* What sessions send (Session_uv::sendData with tcpprotocol.cc and             *)
(* webprotocol.cc), composed with their life in module Session: every message  *)
(* takes a write request from wr_allocer, is put into a package of wbuf_allocer *)
(* with a header of its kind of socket, and handed to uv_write; the package is *)
(* given back at once, the request when libuv calls uv_sendTcpBuf.             *)
EXTENDS Session

CONSTANTS
  Requests,     \* blocks of wr_allocer: bounds the writes of a run
  Bodies,       \* the lengths of the bodies handlers send
  COMMAND_HEAD, \* bytes before a body (8, protocolmanager.cc:5)
  ElemSize      \* bytes in a block of wbuf_allocer (1024, session_uv.cc:17)

ASSUME SendAssumption ==
  Bodies \subseteq Nat /\ COMMAND_HEAD \in Nat /\ ElemSize \in Nat

(* protocolManager::encodeCmdMsg: the length of the message for a body.        *)
encodeCmdMsg(body) == COMMAND_HEAD + body

Lengths == {encodeCmdMsg(body) : body \in Bodies}

(* Where the bytes of a package are.  The list of wbuf_allocer is full at each *)
(* call, as a package is given back before sendData returns: all packages that *)
(* fit are built in the block at its head.  The answer to a handshake is built *)
(* in a static buffer.  "gone": memory given back to the heap.                 *)
Buffers == {"wbuf", "sendClient"}
Places == Buffers \cup {"gone", "empty"}

VARIABLES
  writes,     \* writes[a]: what libuv has not sent yet for a, oldest first
  memory,     \* memory[b]: the message whose bytes buffer b holds
  idle,       \* requests on the free list of wr_allocer
  lost,       \* requests whose callback will never come
  wsShake,    \* wsShake[a]: the handshake of a web session is done
  peer        \* peer[a]: what the program at the other end expects (history)

sendVars == <<writes, memory, idle, lost, wsShake, peer>>

(* "http" until it has been sent the answer to its handshake, then "web";      *)
(* "late web" when it is not the first that its web listener accepted.         *)
Peers == {"tcp", "http", "web", "late web"}

SendInit == /\ Init
            /\ writes = [a \in Addresses |-> <<>>]
            /\ memory = [b \in Buffers |-> <<>>]
            /\ idle = Requests
            /\ lost = {}
            /\ wsShake = [a \in Addresses |-> FALSE]
            /\ peer = [a \in Addresses |-> "tcp"]

------------------------------------------------------------------------------
(* Headers, as the bytes that hold the size. *)

(* Mutant: the two bytes of the size are swapped. *)
tcpHeaderSwapped(len) == <<((len + 2) \div 256) % 256, (len + 2) % 256>>

(* tcpProtocol::parserRecvData: the size with the header, cut to 16 bits.      *)
tcpHeader(len) == <<(len + 2) % 256, ((len + 2) \div 256) % 256>>

(* tcpProtocol::readTcpHeader, at the receiver. *)
readTcpHeader(h) == h[1] + 256 * h[2]

(* webProtocol::sendPackageData, for len < 0x10000; no mask.                   *)
webHeader(len) == IF len <= 125 THEN <<len>>
                  ELSE <<126, (len \div 256) % 256, len % 256>>

(* webProtocol::readWebHeader without the mask: the size with the header.      *)
readWebHeader(h) == IF h[1] = 126 THEN 4 + h[3] + 256 * h[2] ELSE 2 + h[1]

Raw(place, len) == [place |-> place, head |-> <<>>, size |-> len, format |-> "raw"]

TcpPackage(len) == [place |-> IF len + 2 <= ElemSize THEN "wbuf" ELSE "gone",
                    head |-> tcpHeader(len), size |-> len + 2, format |-> "tcp"]

(* No package is made for 0x10000 bytes and more: an empty one is written.     *)
WebPackage(len) ==
  LET size == Len(webHeader(len)) + 1 + len
  IN IF len >= 65536 THEN Raw("empty", 0)
     ELSE [place |-> IF size <= ElemSize THEN "wbuf" ELSE "gone",
           head |-> webHeader(len), size |-> size, format |-> "web"]

(* The message of a handler is encoded in heap memory that sendMessage frees    *)
(* when sendData returns.                                                      *)
Package(a, len) == CASE socketType[a] # "WEB_SOCKET" -> TcpPackage(len)
                     [] socketType[a] = "WEB_SOCKET" /\ wsShake[a] -> WebPackage(len)
                     [] OTHER -> Raw("gone", len)

(* uv_write takes a message only on a connected handle that is not shut down    *)
(* (libuv.dll, the build of project/); sendData does not look at its result.   *)
uv_writeTakes(a) == sess[a].stage = "open"

(* Mutant: the request goes back to the pool when uv_write returns. *)
uv_writeReturns(a, req, pkg, msg) ==
  /\ idle' = idle
  /\ writes' = [writes EXCEPT ![a] = Append(@, [req |-> req, pkg |-> pkg, msg |-> msg])]
  /\ UNCHANGED lost

uv_write(a, req, pkg, msg) ==
  /\ idle' = idle \ {req}
  /\ IF uv_writeTakes(a)
     THEN /\ writes' = [writes EXCEPT ![a] = Append(@, [req |-> req, pkg |-> pkg, msg |-> msg])]
          /\ UNCHANGED lost
     ELSE /\ lost' = lost \cup {req}
          /\ UNCHANGED writes

(* The bytes of msg are put into the package's memory. *)
fill(pkg, msg) == memory' = IF pkg.place \in Buffers
                            THEN [memory EXCEPT ![pkg.place] = msg] ELSE memory

sendData(a, pkg, msg) ==
  /\ idle # {}
  /\ uv_write(a, CHOOSE r \in idle : TRUE, pkg, msg)
  /\ fill(pkg, msg)

(* A handler, of whatever session, sends a new message on a session it knows,  *)
(* or passes on one it received, which has the length of an encoded one.  It   *)
(* may know one that is not connected: the block at an address it kept has a   *)
(* new session, or a close came first.                                         *)
handlerSends(a, len) ==
  /\ sess[a].stage # "free"
  /\ sendData(a, Package(a, len), <<a, len>>)
  /\ UNCHANGED <<vars, wsShake, peer>>

(* webserShakeHand: the answer, whose length plays no part here, is sent as it *)
(* is, then wsShake is set.                                                    *)
webserShakeHand(a) ==
  /\ Receives(sess[a])
  /\ socketType[a] = "WEB_SOCKET" /\ ~ wsShake[a]
  /\ sendData(a, Raw("sendClient", 0), <<a, 0>>)
  /\ wsShake' = [wsShake EXCEPT ![a] = TRUE]
  /\ peer' = [peer EXCEPT ![a] = "web"]
  /\ UNCHANGED vars

(* The oldest write of a is over: sent, failed, or, after uv_close, cancelled. *)
uv_sendTcpBuf(a) ==
  /\ sess[a].stage \in {"open", "shutdown", "closing"}
  /\ writes[a] # <<>>
  /\ idle' = idle \cup {Head(writes[a]).req}
  /\ writes' = [writes EXCEPT ![a] = Tail(@)]
  /\ UNCHANGED <<vars, memory, lost, wsShake, peer>>

------------------------------------------------------------------------------
(* The life of the sessions goes on in between.  libuv ends a shutdown when    *)
(* the writes before it are done, and reports every write before it reports a  *)
(* handle closed.                                                              *)
AcceptedPeer(l) == IF kind[l] = "TCP_SOCKET" THEN "tcp"
                   ELSE IF server_data[l] = kind[l] THEN "http" ELSE "late web"

CreatedFor(expects) == peer' = [peer EXCEPT ![Head(listCache)] = expects]

SessionCreated == /\ \/ \E l \in Listeners : uv_startTcpEvent(l) /\ CreatedFor(AcceptedPeer(l))
                     \/ tcp_connect /\ CreatedFor("tcp")
                  /\ wsShake' = [wsShake EXCEPT ![Head(listCache)] = FALSE]
                  /\ UNCHANGED <<writes, memory, idle, lost>>

SessionStep(a) == /\ \/ \E status \in {0, 1} : after_connect(a, status)
                     \/ handlerCloses(a)
                     \/ readError(a)
                     \/ writes[a] = <<>> /\ (uv_close_oneClient(a) \/ uv_closeClient(a))
                  /\ UNCHANGED sendVars

SendNext == \/ SessionCreated
            \/ \E a \in Addresses :
                 \/ SessionStep(a)
                 \/ \E len \in Lengths : handlerSends(a, len)
                 \/ webserShakeHand(a)
                 \/ uv_sendTcpBuf(a)

SendSpec == SendInit /\ [][SendNext]_<<vars, sendVars>>

(* libuv calls back once for every write, shutdown, close and connect it took. *)
SendFairness ==
  \A a \in Addresses :
    /\ WF_<<vars, sendVars>>(\E status \in {0, 1} : after_connect(a, status) /\ UNCHANGED sendVars)
    /\ WF_<<vars, sendVars>>(writes[a] = <<>> /\ uv_close_oneClient(a) /\ UNCHANGED sendVars)
    /\ WF_<<vars, sendVars>>(writes[a] = <<>> /\ uv_closeClient(a) /\ UNCHANGED sendVars)
    /\ WF_<<vars, sendVars>>(uv_sendTcpBuf(a))

SendFairSpec == SendSpec /\ SendFairness

------------------------------------------------------------------------------
Write == [req : Requests,
          pkg : [place : Places, head : Seq(0..255), size : Nat, format : {"raw", "tcp", "web"}],
          msg : Addresses \X (Lengths \cup {0})]

(* Type invariant of the sessions and of what they send.                       *)
SendTypeOK == /\ TypeOK
              /\ writes \in [Addresses -> Seq(Write)]
              /\ memory \in [Buffers -> (Addresses \X (Lengths \cup {0})) \cup {<<>>}]
              /\ idle \subseteq Requests /\ lost \subseteq Requests
              /\ wsShake \in [Addresses -> BOOLEAN]
              /\ peer \in [Addresses -> Peers]

Pending(a) == {writes[a][i] : i \in 1..Len(writes[a])}
InFlight(r) == \E a \in Addresses : \E i \in 1..Len(writes[a]) : writes[a][i].req = r

(* Every write request is on its free list, in one write that libuv still has  *)
(* to report, or lost to a write that libuv refused; and when a session is     *)
(* destroyed all its writes were reported, so that no callback is left that     *)
(* would give back a request twice.                                            *)
RequestsReturned ==
  /\ \A r \in Requests : InFlight(r) <=> r \notin idle \cup lost
  /\ \A a, b \in Addresses : \A i \in 1..Len(writes[a]), j \in 1..Len(writes[b]) :
       writes[a][i].req = writes[b][j].req => a = b /\ i = j
  /\ idle \cap lost = {}
  /\ \A a \in Addresses : sess[a].stage = "free" => writes[a] = <<>>

(* The receiver's readTcpHeader, or readWebHeader, finds in the header exactly *)
(* the bytes that were sent, below the 65536 bytes that 16 bits can tell.      *)
HeaderTells ==
  \A a \in Addresses : \A w \in Pending(a) :
    /\ w.pkg.format = "tcp" /\ w.pkg.size < 65536 => readTcpHeader(w.pkg.head) = w.pkg.size
    /\ w.pkg.format = "web" => readWebHeader(w.pkg.head) = w.pkg.size

(* The format of what each of them expects to be sent. *)
Expected == [expects \in {"tcp", "http", "web"} |->
               IF expects = "http" THEN "raw" ELSE expects]

(* What is written to a connection is in the format its other end expects,     *)
(* whoever sends it and whenever: packages with a TCP header to a server or a  *)
(* TCP client, web frames to a web client that has been answered, and none     *)
(* before.  The listener's data field breaks this for the web clients after    *)
(* the first (netbus.cc:246), and for no other connection.                     *)
FramedForPeer == [][
  \A a \in Addresses :
    LET new == writes'[a][Len(writes'[a])].pkg
    IN Len(writes'[a]) > Len(writes[a]) /\ peer[a] # "late web" /\ new.place # "empty"
         => new.format = Expected[peer[a]]]_<<vars, sendVars>>

(* The memory of a message is kept until it is sent: what libuv is still to    *)
(* send is what the handler asked to send (session_uv.cc:58).                  *)
PackageKept ==
  \A a \in Addresses : \A w \in Pending(a) :
    w.pkg.place # "empty" => w.pkg.place \in Buffers /\ memory[w.pkg.place] = w.msg
=============================================================================
