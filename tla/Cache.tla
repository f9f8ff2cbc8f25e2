-------------------------------- MODULE Cache --------------------------------
(* The block allocator of utils/Cache.cc: one malloc of Capacity blocks whose  *)
(* idle ones are linked through their own first word.  session_allocer,        *)
(* wr_allocer, wbuf_allocer (session_uv.cc) and smallCache are instances of it. *)
(*                                                                             *)
(* An address is an integer, in units of one block: the pool is                *)
(* cacheMem .. cacheMem + Capacity - 1, and malloc may return the addresses     *)
(* next to it, which is what the range test of cacheFree is about.             *)
EXTENDS Integers, FiniteSets

CONSTANTS
  Clients,      \* the call sites that hold memory of this pool
  cacheMem,     \* address of the first block
  Capacity,     \* blocks in the pool (the source's capacity)
  HeapBlocks,   \* addresses malloc may return: bounds the heap in a run
  ElemSize,     \* bytes in a block (elem_size)
  Sizes,        \* the sizes the callers ask for
  NULL

Blocks == cacheMem .. (cacheMem + Capacity - 1)
Addresses == Blocks \cup HeapBlocks

ASSUME CacheAssumption ==
  /\ cacheMem \in Int
  /\ Capacity \in Nat \ {0}
  /\ HeapBlocks \subseteq Int
  /\ HeapBlocks \cap Blocks = {}
  /\ ElemSize \in Nat
  /\ Sizes \subseteq Nat \ {0}
  /\ NULL \notin Int

VARIABLES
  listCache,    \* head of the list of idle blocks
  next,         \* next[b]: first word of block b, a link only while b is idle
  heap,         \* heap[h]: bytes malloc gave for address h, 0 when not allocated
  owned,        \* owned[c]: the addresses client c was given and has not freed
  room          \* room[a]: bytes the client asked for, 0 when it does not hold a

vars == <<listCache, next, heap, owned, room>>

Held == UNION {owned[c] : c \in Clients}

------------------------------------------------------------------------------
(* The loop of cacheCreator pushes block 0, then 1, ...: each block links to   *)
(* its predecessor and the head is the last block.                             *)
cacheCreator ==
  /\ listCache = cacheMem + Capacity - 1
  /\ next = [b \in Blocks |-> IF b = cacheMem THEN NULL ELSE b - 1]

Init == /\ cacheCreator
        /\ heap = [h \in HeapBlocks |-> 0]
        /\ owned = [c \in Clients |-> {}]
        /\ room = [a \in Addresses |-> 0]

HandOut(c, a, size) == /\ owned' = [owned EXCEPT ![c] = @ \cup {a}]
                       /\ room' = [room EXCEPT ![a] = size]

(* malloc: any address it has not given out already. *)
malloc(c, size) == \E h \in HeapBlocks :
                     /\ heap[h] = 0
                     /\ heap' = [heap EXCEPT ![h] = size]
                     /\ HandOut(c, h, size)

(* A request that no block can hold goes to the heap (line 66), whatever the   *)
(* state of the list.                                                          *)
allocLarge(c, size) == /\ ElemSize < size
                       /\ malloc(c, size)
                       /\ UNCHANGED <<listCache, next>>

(* Mutant: the size of the request is not looked at. *)
allocPooledAnySize(c, size) == /\ listCache # NULL
                               /\ listCache' = next[listCache]
                               /\ HandOut(c, listCache, size)
                               /\ UNCHANGED <<next, heap>>

(* The head of the list is taken off it. *)
allocPooled(c, size) == /\ ~ ElemSize < size
                        /\ listCache # NULL
                        /\ listCache' = next[listCache]
                        /\ HandOut(c, listCache, size)
                        /\ UNCHANGED <<next, heap>>

(* No idle block is left: the heap serves the request. *)
allocExhausted(c, size) == /\ ~ ElemSize < size
                           /\ listCache = NULL
                           /\ malloc(c, size)
                           /\ UNCHANGED <<listCache, next>>

cacheAllocer(c, size) == \/ allocLarge(c, size)
                         \/ allocPooled(c, size)
                         \/ allocExhausted(c, size)

(* Mutant: the address behind the last block counts as one of them. *)
InPoolInclusive(a) == a >= cacheMem /\ a <= cacheMem + Capacity

(* The range test of lines 81-82. *)
InPool(a) == a >= cacheMem /\ a < cacheMem + Capacity

(* Mutant: the block is not linked to the old head. *)
pushUnlinked(a) == listCache' = a /\ UNCHANGED <<next, heap>>

(* The block becomes the new head; its first word is overwritten by the link.  *)
push(a) == /\ next' = [next EXCEPT ![a] = listCache]
           /\ listCache' = a
           /\ UNCHANGED heap

free(a) == /\ heap' = [heap EXCEPT ![a] = 0]
           /\ UNCHANGED <<listCache, next>>

cacheFree(c, a) ==
  /\ a \in owned[c]
  /\ IF InPool(a) THEN push(a) ELSE free(a)
  /\ owned' = [owned EXCEPT ![c] = @ \ {a}]
  /\ room' = [room EXCEPT ![a] = 0]

(* A client writes its data into a block it holds: the first word of the block *)
(* may then be any value at all, a former link or a block address included.    *)
clientWrite(c, a) ==
  /\ a \in owned[c] \cap Blocks
  /\ \E word \in Blocks \cup {NULL} : next' = [next EXCEPT ![a] = word]
  /\ UNCHANGED <<listCache, heap, owned, room>>

Next == \E c \in Clients :
          \/ \E size \in Sizes : cacheAllocer(c, size)
          \/ \E a \in owned[c] : cacheFree(c, a) \/ clientWrite(c, a)

Spec == Init /\ [][Next]_vars

------------------------------------------------------------------------------
(* Type invariant of the allocator's state (utils/Cache.cc:18-30).             *)
TypeOK == /\ listCache \in Blocks \cup {NULL}
          /\ next \in [Blocks -> Blocks \cup {NULL}]
          /\ heap \in [HeapBlocks -> Nat]
          /\ owned \in [Clients -> SUBSET Addresses]
          /\ room \in [Addresses -> Nat]

(* chain enumerates the list of a head and its links, from its last block to   *)
(* the head: distinct blocks, each linked to the one before it, none of them   *)
(* lent, and every block that is not lent among them.                          *)
IsFreeList(head, links, lent, n, chain) ==
  /\ chain \in [1..n -> Blocks]
  /\ \A i, j \in 1..n : chain[i] = chain[j] => i = j
  /\ n = 0 => head = NULL
  /\ n > 0 => head = chain[n] /\ links[chain[1]] = NULL
  /\ \A i \in 2..n : links[chain[i]] = chain[i-1]
  /\ \A b \in Blocks : b \in lent <=> \A i \in 1..n : chain[i] # b

(* Whatever clients allocate, free and write, the links form one finite list   *)
(* that holds exactly the idle blocks (cacheAllocer and cacheFree keep it so   *)
(* although the links live in memory the clients overwrite).                   *)
FreeListIntact == \E n \in 0..Capacity : \E chain \in [1..n -> Blocks] :
                    IsFreeList(listCache, next, Held, n, chain)

(* cacheAllocer never lends one address to two clients.                        *)
NoSharing == \A c, d \in Clients : c # d => owned[c] \cap owned[d] = {}

(* What a client holds has the room it asked for: a block of ElemSize bytes or *)
(* heap memory of the size of the request (the test of line 66).               *)
RequestFits == \A c \in Clients : \A a \in owned[c] :
                 IF a \in Blocks THEN room[a] <= ElemSize ELSE room[a] <= heap[a]

(* The heap memory in use is exactly what clients hold: cacheFree gives every  *)
(* heap address back with free, also one that lies right next to the pool.      *)
HeapAccounted == \A h \in HeapBlocks : heap[h] # 0 <=> h \in Held

P == INSTANCE Pool WITH idle <- Blocks \ Held

(* Cache.cc implements the abstract pool: a request that fits is served from   *)
(* the pool as long as one block is idle.                                      *)
ImplementsPool == P!Spec
=============================================================================
