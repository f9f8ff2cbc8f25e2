-------------------------------- MODULE Pool --------------------------------
(* What the users of utils/Cache.cc rely on: a fixed set of blocks, each      *)
(* either idle or lent to one client.  The allocator lends an idle block while *)
(* there is one, and turns to the system heap when the pool is exhausted or    *)
(* the request does not fit a block.  Nothing is said about lists or links:    *)
(* module Cache implements this with a list threaded through the blocks.       *)
EXTENDS Naturals

CONSTANTS
  Clients,      \* the call sites that hold memory of this pool
  Blocks,       \* the blocks of cacheMem
  HeapBlocks,   \* what malloc may return
  Sizes,        \* the sizes that are asked for
  ElemSize      \* the size of a block

VARIABLES
  idle,         \* the blocks of the pool that nobody holds
  owned,        \* owned[c]: the addresses client c holds
  room          \* room[a]: bytes client memory a was asked to have

poolVars == <<idle, owned, room>>

Init == /\ idle = Blocks
        /\ owned = [c \in Clients |-> {}]
        /\ room = [a \in Blocks \cup HeapBlocks |-> 0]

Lend(c, a, size) == /\ owned' = [owned EXCEPT ![c] = @ \cup {a}]
                    /\ room' = [room EXCEPT ![a] = size]

FromPool(c, size) == /\ size <= ElemSize
                     /\ \E b \in idle : /\ Lend(c, b, size)
                                        /\ idle' = idle \ {b}

FromHeap(c, size) == /\ size > ElemSize \/ idle = {}
                     /\ \E h \in HeapBlocks :
                          /\ \A d \in Clients : h \notin owned[d]
                          /\ Lend(c, h, size)
                     /\ UNCHANGED idle

Free(c, a) == /\ a \in owned[c]
              /\ owned' = [owned EXCEPT ![c] = @ \ {a}]
              /\ idle' = idle \cup ({a} \cap Blocks)
              /\ room' = [room EXCEPT ![a] = 0]

Next == \E c \in Clients :
          \/ \E size \in Sizes : FromPool(c, size) \/ FromHeap(c, size)
          \/ \E a \in owned[c] : Free(c, a)

Spec == Init /\ [][Next]_poolVars
=============================================================================
