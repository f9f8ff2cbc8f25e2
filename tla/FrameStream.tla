----------------------------- MODULE FrameStream -----------------------------
(* What the receive path of a session promises to the dispatcher: the byte     *)
(* stream of the peer is cut into frames, and every frame that has arrived in  *)
(* full is taken exactly once, in the order of the stream, however the bytes   *)
(* were grouped by the network.  No buffer is mentioned: module Framing         *)
(* implements this with recvBuf and longPkg (netbus/netbus.cc), TCP and web.    *)
EXTENDS Integers, Sequences

CONSTANTS
  Streams,        \* stream[p]: what the parser decodes from a header at byte p
  Size(_),        \* the size of that frame, header included
  IsCommand(_),   \* it is long enough for a command: others are skipped
  Stops(_)        \* the session takes nothing from this frame on

VARIABLES
  stream,         \* the bytes the peer sends in this connection
  taken,          \* bytes of it the session has received so far
  frame,          \* first byte of the frame that is expected next
  delivered,      \* first byte of every frame the dispatcher was given, in order
  open            \* FALSE once the session is destroyed

streamVars == <<stream, taken, frame, delivered, open>>

Init == /\ stream \in Streams
        /\ taken = 0
        /\ frame = 1
        /\ delivered = <<>>
        /\ open = TRUE

Receive(n) == /\ open
              /\ taken' \in taken .. Len(stream)
              /\ taken' = taken + n
              /\ UNCHANGED <<stream, frame, delivered, open>>

(* The next frame is complete: the dispatcher gets it, the stream moves on.    *)
Deliver == /\ open
           /\ frame <= taken
           /\ ~ Stops(stream[frame])
           /\ frame + Size(stream[frame]) <= taken + 1
           /\ frame' = frame + Size(stream[frame])
           /\ delivered' = IF IsCommand(stream[frame]) THEN Append(delivered, frame)
                                                       ELSE delivered
           /\ UNCHANGED <<stream, taken, open>>

Destroy == open /\ open' = FALSE /\ UNCHANGED <<stream, taken, frame, delivered>>

Next == \/ \E n \in 0..Len(stream) : Receive(n)
        \/ Deliver
        \/ Destroy

Spec == Init /\ [][Next]_streamVars

------------------------------------------------------------------------------
(* What that comes to.  Cut into frames from its first byte, each frame right  *)
(* behind the one before it, the stream up to the frame expected next has the  *)
(* commands that were delivered, and no others: none is skipped, and no byte   *)
(* inside a frame is taken for the beginning of one (the loops of              *)
(* tcpDataParser and webDataParser).                                           *)
InStep == \E starts \in SUBSET (1..frame) :
  /\ {1, frame} \subseteq starts
  /\ \A p \in starts \ {frame} :
       /\ Size(stream[p]) > 0 /\ p + Size(stream[p]) \in starts
       /\ \A q \in starts : q <= p \/ p + Size(stream[p]) <= q
  /\ {delivered[i] : i \in 1..Len(delivered)} = {p \in starts \ {frame} : IsCommand(stream[p])}

(* The commands were delivered in the order of the stream, each complete and   *)
(* once: a delivered frame ends before the next one begins, and has arrived.   *)
InOrder == \A i \in 1..Len(delivered) :
  LET end == delivered[i] + Size(stream[delivered[i]])
  IN /\ delivered[i] < end /\ end <= frame /\ frame <= taken + 1
     /\ \A j \in (i+1)..Len(delivered) : end <= delivered[j]
=============================================================================
