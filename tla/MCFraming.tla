------------------------------ MODULE MCFraming ------------------------------
(* recvBuf of 5 bytes.  TCP: a 2-byte header, commands of at least 2 bytes;    *)
(* frames of 3 to 8 bytes: one too short for a command, one that fills recvBuf *)
(* exactly, and two that need longPkg.  A byte inside a frame decodes as a size *)
(* when a parser reads a header there.                                         *)
(*                                                                             *)
(* Web: a mask of 1 byte; a request that fills recvBuf exactly or leaves room;  *)
(* frames with 2 or 3 bytes before the mask: one too short for a command, one  *)
(* that fills recvBuf, and two that need longPkg.  The last frame may be a close *)
(* or a control frame, with which the peer falls silent.                       *)
EXTENDS Framing, SequencesExt

CONSTANTS TcpSizes,   \* sizes of the TCP frames a peer sends
          MaxFrames,  \* frames per stream, after the request: bounds the run
          Web         \* TRUE: web streams, too

Bytes(h, payload) == <<h>> \o [i \in 1..(h.size - 1) |-> payload]
Concat(frames, payload) ==
  FlattenSeq([i \in 1..Len(frames) |-> Bytes(frames[i], payload)])

Tcp(size) == [op |-> "data", need |-> 2, head |-> 2, size |-> size]
WellFormed == {Concat(frames, Tcp(3)) : frames \in BoundedSeq({Tcp(n) : n \in TcpSizes}, MaxFrames)}

(* A frame whose header announces at most its own length: 0, 1 or 2 bytes.     *)
Bad(size) == <<Tcp(size), Tcp(3)>>
Malformed == {Bad(size) \o s : size \in 0..2, s \in WellFormed}
               \cup {s \o Bad(size) : size \in 0..2, s \in WellFormed}

H(op, need, size) == [op |-> op, need |-> need, head |-> need + 1, size |-> size]
WebBytes(h) == Bytes(h, H("data", 2, 4))
WebFrames == {H("data", 2, 4), H("data", 2, 5), H("data", 3, 6), H("data", 3, 8)}
Ends == {<<>>, WebBytes(H("close", 2, 3)), WebBytes(H("other", 2, 3))}

WebStreams ==
  {WebBytes(H("request", 2, size)) \o Concat(frames, H("data", 2, 4)) \o last :
     size \in {2, RECVBUF}, frames \in BoundedSeq(WebFrames, MaxFrames - 1), last \in Ends}
  \cup {WebBytes(H("keyless", 2, size)) : size \in {2, RECVBUF}}

AnyStream == [type \in SocketTypes |->
                CASE type = "TCP_SOCKET" -> WellFormed \cup Malformed
                  [] type = "WEB_SOCKET" -> IF Web THEN WebStreams ELSE {}]
=============================================================================
