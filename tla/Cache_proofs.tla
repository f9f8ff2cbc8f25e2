----------------------------- MODULE Cache_proofs -----------------------------
(* Proofs about module Cache, for every number of clients, every capacity and  *)
(* every heap: the free list stays intact, no address is lent twice, and the   *)
(* allocator implements the abstract pool.  Threads that take turns in         *)
(* SmallCache implement Cache.                                                 *)
EXTENDS SmallCache, TLAPS, FiniteSetTheorems

(* FreeListIntact without the bound on the length, which is what a step        *)
(* preserves; the bound follows because the blocks of the list are distinct.   *)
FreeList(head, links, lent) ==
  \E n \in Nat : \E chain \in [1..n -> Blocks] : IsFreeList(head, links, lent, n, chain)

Linked == FreeList(listCache, next, Held)

IInv == TypeOK /\ Linked /\ NoSharing /\ HeapAccounted

LEMMA HeldHas == \A a : a \in Held <=> \E c \in Clients : a \in owned[c]
BY DEF Held

LEMMA InPoolIsBlock == \A a \in Int : InPool(a) <=> a \in Blocks
BY CacheAssumption DEF InPool, Blocks

------------------------------------------------------------------------------
LEMMA TypeInit == Init => TypeOK
<1> SUFFICES ASSUME Init PROVE TypeOK
  OBVIOUS
<1>1. listCache \in Blocks
  BY CacheAssumption DEF Init, cacheCreator, Blocks
<1>2. next \in [Blocks -> Blocks \cup {NULL}]
  BY CacheAssumption DEF Init, cacheCreator, Blocks
<1> QED
  BY <1>1, <1>2 DEF Init, TypeOK, Addresses

LEMMA TypeStep == TypeOK /\ [Next]_vars => TypeOK'
<1> SUFFICES ASSUME TypeOK, [Next]_vars PROVE TypeOK'
  OBVIOUS
<1> USE CacheAssumption
<1>1. ASSUME NEW c \in Clients, NEW size \in Sizes, malloc(c, size),
             UNCHANGED <<listCache, next>>
      PROVE  TypeOK'
  BY <1>1 DEF malloc, HandOut, TypeOK, Addresses
<1>2. ASSUME NEW c \in Clients, NEW size \in Sizes, allocPooled(c, size)
      PROVE  TypeOK'
  BY <1>2 DEF allocPooled, HandOut, TypeOK, Addresses
<1>3. ASSUME NEW c \in Clients, NEW a \in owned[c], cacheFree(c, a)
      PROVE  TypeOK'
  <2>1. a \in Addresses /\ a \in Int
    BY DEF TypeOK, Addresses, Blocks
  <2>2. CASE InPool(a)
    BY <1>3, <2>1, <2>2, InPoolIsBlock DEF cacheFree, push, TypeOK
  <2>3. CASE ~ InPool(a)
    BY <1>3, <2>1, <2>3, InPoolIsBlock DEF cacheFree, free, TypeOK, Addresses
  <2> QED
    BY <2>2, <2>3
<1>4. ASSUME NEW c \in Clients, NEW a \in owned[c], clientWrite(c, a)
      PROVE  TypeOK'
  BY <1>4 DEF clientWrite, TypeOK
<1>5. CASE UNCHANGED vars
  BY <1>5 DEF vars, TypeOK
<1> QED
  BY <1>1, <1>2, <1>3, <1>4, <1>5
  DEF Next, cacheAllocer, allocLarge, allocExhausted

(* The state of the allocator keeps its type.                                  *)
THEOREM TypeCorrect == Spec => []TypeOK
BY TypeInit, TypeStep, PTL DEF Spec

------------------------------------------------------------------------------
LEMMA LinkedInit == Init => Linked
<1> SUFFICES ASSUME Init PROVE Linked
  OBVIOUS
<1> DEFINE chain == [i \in 1..Capacity |-> cacheMem + i - 1]
<1>1. chain \in [1..Capacity -> Blocks]
  BY CacheAssumption DEF Blocks
<1>2. \A i, j \in 1..Capacity : chain[i] = chain[j] => i = j
  BY CacheAssumption
<1>3. listCache = chain[Capacity] /\ next[chain[1]] = NULL
  BY <1>1, CacheAssumption DEF Init, cacheCreator, Blocks
<1>4. \A i \in 2..Capacity : next[chain[i]] = chain[i-1]
  BY <1>1, CacheAssumption DEF Init, cacheCreator, Blocks
<1>5. \A b \in Blocks : ~ \A i \in 1..Capacity : chain[i] # b
  <2> SUFFICES ASSUME NEW b \in Blocks
               PROVE  \E i \in 1..Capacity : chain[i] = b
    OBVIOUS
  <2> b - cacheMem + 1 \in 1..Capacity /\ chain[b - cacheMem + 1] = b
    BY CacheAssumption DEF Blocks
  <2> QED
    OBVIOUS
<1>6. \A b \in Blocks : b \notin Held
  BY HeldHas DEF Init
<1>7. IsFreeList(listCache, next, Held, Capacity, chain)
  <2> HIDE DEF chain
  <2> QED
    BY <1>1, <1>2, <1>3, <1>4, <1>5, <1>6, CacheAssumption DEF IsFreeList
<1> QED
  BY <1>1, <1>7, CacheAssumption DEF Linked, FreeList

(* A head that is a block is not lent; without one every block is.             *)
LEMMA HeadIdle ==
  ASSUME NEW head, NEW links, NEW lent, FreeList(head, links, lent)
  PROVE  /\ head \in Blocks => head \notin lent
         /\ head = NULL => \A b \in Blocks : b \in lent
<1>1. PICK n \in Nat : \E chain \in [1..n -> Blocks] : IsFreeList(head, links, lent, n, chain)
  BY DEF FreeList
<1>2. PICK chain \in [1..n -> Blocks] : IsFreeList(head, links, lent, n, chain)
  BY <1>1
<1>3. NULL \notin Blocks
  BY CacheAssumption DEF Blocks
<1>4. CASE n = 0
  BY <1>2, <1>3, <1>4 DEF IsFreeList
<1>5. CASE n > 0
  <2>1. n \in 1..n /\ head = chain[n] /\ chain[n] \in Blocks
    BY <1>2, <1>5 DEF IsFreeList
  <2> QED
    BY <1>2, <1>3, <2>1 DEF IsFreeList
<1> QED
  BY <1>4, <1>5

(* Taking the head off the list leaves the list of the other blocks.           *)
LEMMA ListPop ==
  ASSUME NEW head \in Blocks, NEW links, NEW lent, NEW more,
         FreeList(head, links, lent),
         \A b \in Blocks : b \in more <=> b \in lent \/ b = head
  PROVE  FreeList(links[head], links, more)
<1>1. PICK n \in Nat : \E chain \in [1..n -> Blocks] : IsFreeList(head, links, lent, n, chain)
  BY DEF FreeList
<1>2. PICK chain \in [1..n -> Blocks] : IsFreeList(head, links, lent, n, chain)
  BY <1>1
<1>3. n > 0 /\ head = chain[n]
  BY <1>2, CacheAssumption DEF IsFreeList, Blocks
<1> DEFINE rest == [i \in 1..(n-1) |-> chain[i]]
<1>4. rest \in [1..(n-1) -> Blocks] /\ n - 1 \in Nat
  BY <1>3
<1>5. \A i, j \in 1..(n-1) : rest[i] = rest[j] => i = j
  BY <1>2, <1>3 DEF IsFreeList
<1>6. n - 1 = 0 => links[head] = NULL
  BY <1>2, <1>3 DEF IsFreeList
<1>7. n - 1 > 0 => links[head] = rest[n-1] /\ links[rest[1]] = NULL
  <2> SUFFICES ASSUME n - 1 > 0
               PROVE  links[head] = rest[n-1] /\ links[rest[1]] = NULL
    OBVIOUS
  <2>1. n \in 2..n /\ 1 \in 1..(n-1) /\ n - 1 \in 1..(n-1)
    BY <1>3
  <2>2. links[chain[n]] = chain[n-1] /\ links[chain[1]] = NULL
    BY <1>2, <1>3, <2>1 DEF IsFreeList
  <2> QED
    BY <1>3, <2>1, <2>2
<1>8. \A i \in 2..(n-1) : links[rest[i]] = rest[i-1]
  BY <1>2, <1>3 DEF IsFreeList
<1>9. \A b \in Blocks : b \in more <=> \A i \in 1..(n-1) : rest[i] # b
  <2> TAKE b \in Blocks
  <2>1. b \in lent <=> \A i \in 1..n : chain[i] # b
    BY <1>2 DEF IsFreeList
  <2>2. \A i \in 1..n : i \in 1..(n-1) \/ i = n
    BY <1>3
  <2>3. \A i \in 1..(n-1) : i \in 1..n /\ i # n
    BY <1>3
  <2>4. \A i \in 1..(n-1) : chain[i] # chain[n]
    BY <1>2, <1>3, <2>3 DEF IsFreeList
  <2> QED
    BY <1>3, <2>1, <2>2, <2>3, <2>4
<1>10. IsFreeList(links[head], links, more, n-1, rest)
  <2> HIDE DEF rest
  <2> QED
    BY <1>4, <1>5, <1>6, <1>7, <1>8, <1>9 DEF IsFreeList
<1> QED
  BY <1>4, <1>10 DEF FreeList

(* What is written outside the list, and which addresses of the heap are lent, *)
(* leaves it alone: the heap paths of both operations, and the clients.        *)
LEMMA ListFrame ==
  ASSUME NEW head, NEW links, NEW lent, NEW words, NEW more,
         FreeList(head, links, lent),
         \A b \in Blocks : b \in more <=> b \in lent,
         \A b \in Blocks : b \notin lent => words[b] = links[b]
  PROVE  FreeList(head, words, more)
<1>1. PICK n \in Nat : \E chain \in [1..n -> Blocks] : IsFreeList(head, links, lent, n, chain)
  BY DEF FreeList
<1>2. PICK chain \in [1..n -> Blocks] : IsFreeList(head, links, lent, n, chain)
  BY <1>1
<1>3. \A i \in 1..n : chain[i] \in Blocks /\ chain[i] \notin lent
  BY <1>2 DEF IsFreeList
<1>4. \A i \in 1..n : words[chain[i]] = links[chain[i]]
  BY <1>3
<1>5. n > 0 => words[chain[1]] = links[chain[1]]
  BY <1>4
<1>6. \A i \in 2..n : words[chain[i]] = links[chain[i]]
  BY <1>4
<1>7. IsFreeList(head, words, more, n, chain)
  BY <1>2, <1>5, <1>6 DEF IsFreeList
<1> QED
  BY <1>7 DEF FreeList

(* A block given back becomes the head; no block of the list had its link      *)
(* there, so the rest of the list is as it was.                                *)
LEMMA ListPush ==
  ASSUME NEW head, NEW links, NEW lent, NEW words, NEW rest, NEW a \in Blocks,
         FreeList(head, links, lent), a \in lent,
         \A b \in Blocks : words[b] = IF b = a THEN head ELSE links[b],
         \A b \in Blocks : b \in rest <=> b \in lent /\ b # a
  PROVE  FreeList(a, words, rest)
<1>1. PICK n \in Nat : \E chain \in [1..n -> Blocks] : IsFreeList(head, links, lent, n, chain)
  BY DEF FreeList
<1>2. PICK chain \in [1..n -> Blocks] : IsFreeList(head, links, lent, n, chain)
  BY <1>1
<1> DEFINE more == [i \in 1..(n+1) |-> IF i = n + 1 THEN a ELSE chain[i]]
<1>3. more \in [1..(n+1) -> Blocks] /\ n + 1 \in Nat
  BY CacheAssumption
<1>4. \A i \in 1..n : chain[i] # a
  BY <1>2 DEF IsFreeList
<1>5. \A i, j \in 1..(n+1) : more[i] = more[j] => i = j
  BY <1>2, <1>4 DEF IsFreeList
<1>6. a = more[n+1]
  OBVIOUS
<1>7. words[more[1]] = NULL
  <2>1. CASE n = 0
    BY <2>1, <1>2 DEF IsFreeList
  <2>2. CASE n > 0
    <3>1. 1 \in 1..n /\ more[1] = chain[1] /\ chain[1] \in Blocks
      BY <2>2
    <3> QED
      BY <3>1, <2>2, <1>2, <1>4 DEF IsFreeList
  <2> QED
    BY <2>1, <2>2
<1>8. \A i \in 2..(n+1) : words[more[i]] = more[i-1]
  <2> TAKE i \in 2..(n+1)
  <2>1. CASE i = n + 1
    <3>1. n > 0 /\ head = chain[n] /\ more[i-1] = chain[n]
      BY <2>1, <1>2 DEF IsFreeList
    <3> QED
      BY <3>1, <2>1
  <2>2. CASE i # n + 1
    <3>1. i \in 2..n /\ i \in 1..n /\ i - 1 \in 1..n /\ more[i] = chain[i]
          /\ more[i-1] = chain[i-1]
      BY <2>2
    <3>2. links[chain[i]] = chain[i-1]
      BY <3>1, <1>2 DEF IsFreeList
    <3> QED
      BY <3>1, <3>2, <1>4
  <2> QED
    BY <2>1, <2>2
<1>9. \A b \in Blocks : b \in rest <=> \A i \in 1..(n+1) : more[i] # b
  <2> TAKE b \in Blocks
  <2>1. b \in lent <=> \A i \in 1..n : chain[i] # b
    BY <1>2 DEF IsFreeList
  <2>2. (\A i \in 1..(n+1) : more[i] # b)
        <=> (\A i \in 1..n : chain[i] # b) /\ a # b
    <3>1. \A i \in 1..n : i \in 1..(n+1) /\ more[i] = chain[i]
      OBVIOUS
    <3>2. \A i \in 1..(n+1) : i \in 1..n \/ i = n + 1
      OBVIOUS
    <3>3. n + 1 \in 1..(n+1) /\ more[n+1] = a
      OBVIOUS
    <3> HIDE DEF more
    <3> QED
      BY <3>1, <3>2, <3>3
  <2> QED
    BY <2>1, <2>2
<1>10. IsFreeList(a, words, rest, n+1, more)
  <2> HIDE DEF more
  <2> QED
    BY <1>3, <1>5, <1>6, <1>7, <1>8, <1>9 DEF IsFreeList
<1> QED
  BY <1>3, <1>10 DEF FreeList

------------------------------------------------------------------------------
(* An address that nobody held is lent to c: every other address keeps its     *)
(* holders.                                                                    *)
LEMMA LendFresh ==
  ASSUME TypeOK, NoSharing, NEW c \in Clients, NEW a \in Addresses,
         a \notin Held, owned' = [owned EXCEPT ![c] = @ \cup {a}]
  PROVE  NoSharing' /\ \A b : b \in Held' <=> b \in Held \/ b = a
<1>1. \A d \in Clients : owned'[d] = IF d = c THEN owned[c] \cup {a} ELSE owned[d]
  BY DEF TypeOK
<1>2. \A d \in Clients : a \notin owned[d]
  BY HeldHas
<1>3. NoSharing'
  BY <1>1, <1>2 DEF NoSharing
<1>4. \A b : b \in Held' <=> \E d \in Clients : b \in owned'[d]
  BY DEF Held
<1> QED
  BY <1>1, <1>3, <1>4, HeldHas

(* Client c gives a back: nobody holds it then, and the rest is as it was.     *)
LEMMA GiveBack ==
  ASSUME TypeOK, NoSharing, NEW c \in Clients, NEW a \in owned[c],
         owned' = [owned EXCEPT ![c] = @ \ {a}]
  PROVE  NoSharing' /\ \A b : b \in Held' <=> b \in Held /\ b # a
<1>1. \A d \in Clients : owned'[d] = IF d = c THEN owned[c] \ {a} ELSE owned[d]
  BY DEF TypeOK
<1>2. \A d \in Clients : d # c => a \notin owned[d]
  BY DEF NoSharing
<1>3. NoSharing'
  BY <1>1 DEF NoSharing
<1>4. \A b : b \in Held' <=> \E d \in Clients : b \in owned'[d]
  BY DEF Held
<1> QED
  BY <1>1, <1>2, <1>3, <1>4, HeldHas

LEMMA HeapNotBlock == \A h \in HeapBlocks : h \notin Blocks /\ h \in Addresses /\ ~ InPool(h)
BY CacheAssumption, InPoolIsBlock DEF Addresses

LEMMA IInvInit == Init => IInv
<1> SUFFICES ASSUME Init PROVE IInv
  OBVIOUS
<1>1. NoSharing
  BY DEF Init, NoSharing
<1>2. HeapAccounted
  BY HeldHas DEF Init, HeapAccounted
<1> QED
  BY <1>1, <1>2, TypeInit, LinkedInit DEF IInv

LEMMA IInvMalloc ==
  ASSUME IInv, NEW c \in Clients, NEW size \in Sizes, malloc(c, size),
         UNCHANGED <<listCache, next>>
  PROVE  Linked' /\ NoSharing' /\ HeapAccounted'
<1>1. PICK h \in HeapBlocks : /\ heap[h] = 0
                              /\ heap' = [heap EXCEPT ![h] = size]
                              /\ HandOut(c, h, size)
  BY DEF malloc
<1>2. h \notin Held
  BY <1>1 DEF IInv, HeapAccounted
<1>3. NoSharing' /\ \A b : b \in Held' <=> b \in Held \/ b = h
  BY <1>1, <1>2, HeapNotBlock, LendFresh DEF IInv, HandOut
<1>4. Linked'
  BY <1>3, HeapNotBlock, ListFrame DEF IInv, Linked
<1>5. size # 0
  BY CacheAssumption
<1>6. HeapAccounted'
  BY <1>1, <1>3, <1>5 DEF IInv, TypeOK, HeapAccounted
<1> QED
  BY <1>3, <1>4, <1>6

LEMMA IInvPop ==
  ASSUME IInv, NEW c \in Clients, NEW size \in Sizes, allocPooled(c, size)
  PROVE  /\ Linked' /\ NoSharing' /\ HeapAccounted'
         /\ listCache \in Blocks /\ listCache \notin Held
         /\ \A b : b \in Held' <=> b \in Held \/ b = listCache
<1>1. listCache \in Blocks /\ listCache \in Addresses
  BY DEF IInv, TypeOK, allocPooled, Addresses
<1>2. listCache \notin Held
  BY <1>1, HeadIdle DEF IInv, Linked
<1>3. NoSharing' /\ \A b : b \in Held' <=> b \in Held \/ b = listCache
  BY <1>1, <1>2, LendFresh DEF IInv, allocPooled, HandOut
<1>4. Linked'
  <2>1. FreeList(next[listCache], next, Held')
    BY <1>1, <1>3, ListPop DEF IInv, Linked
  <2> QED
    BY <2>1 DEF Linked, allocPooled
<1>5. HeapAccounted'
  BY <1>1, <1>3, HeapNotBlock DEF IInv, HeapAccounted, allocPooled
<1> QED
  BY <1>1, <1>2, <1>3, <1>4, <1>5

LEMMA IInvFree ==
  ASSUME IInv, NEW c \in Clients, NEW a \in owned[c], cacheFree(c, a)
  PROVE  Linked' /\ NoSharing' /\ HeapAccounted'
<1>1. NoSharing' /\ \A b : b \in Held' <=> b \in Held /\ b # a
  BY GiveBack DEF IInv, cacheFree
<1>2. a \in Addresses
  BY DEF IInv, TypeOK
<1>3. CASE a \in Blocks
  <2>1. a \in Int /\ InPool(a) /\ a \notin HeapBlocks
    BY <1>3, InPoolIsBlock, HeapNotBlock DEF Blocks
  <2>2. Linked'
    <3>1. a \in Held
      BY HeldHas
    <3>2. listCache' = a /\ \A b \in Blocks : next'[b] = IF b = a THEN listCache ELSE next[b]
      BY <2>1 DEF cacheFree, push, IInv, TypeOK
    <3> QED
      BY <1>1, <1>3, <3>1, <3>2, ListPush DEF IInv, Linked
  <2>3. HeapAccounted'
    BY <1>1, <2>1 DEF IInv, HeapAccounted, cacheFree, push
  <2> QED
    BY <1>1, <2>2, <2>3
<1>4. CASE a \notin Blocks
  <2>1. a \in HeapBlocks /\ ~ InPool(a)
    BY <1>2, <1>4, HeapNotBlock DEF Addresses
  <2>2. /\ heap' = [heap EXCEPT ![a] = 0]
        /\ listCache' = listCache
        /\ next' = next
    BY <2>1 DEF cacheFree, free
  <2>3. Linked'
    BY <1>1, <1>4, <2>2, ListFrame DEF IInv, Linked
  <2>4. HeapAccounted'
    BY <1>1, <2>1, <2>2 DEF IInv, TypeOK, HeapAccounted
  <2> QED
    BY <1>1, <2>3, <2>4
<1> QED
  BY <1>3, <1>4

LEMMA IInvWrite ==
  ASSUME IInv, NEW c \in Clients, NEW a \in owned[c], clientWrite(c, a)
  PROVE  Linked' /\ NoSharing' /\ HeapAccounted'
<1>1. /\ \A b : b \in Held' <=> b \in Held
      /\ listCache' = listCache /\ heap' = heap /\ owned' = owned
  BY DEF clientWrite, Held
<1>2. a \in Held
  BY HeldHas
<1>3. \A b \in Blocks : b # a => next'[b] = next[b]
  BY DEF clientWrite, IInv, TypeOK
<1>4. Linked'
  BY <1>1, <1>2, <1>3, ListFrame DEF IInv, Linked
<1> QED
  BY <1>1, <1>4 DEF IInv, NoSharing, HeapAccounted

LEMMA IInvStep == IInv /\ [Next]_vars => IInv'
<1> SUFFICES ASSUME IInv, [Next]_vars PROVE IInv'
  OBVIOUS
<1>1. TypeOK'
  BY TypeStep DEF IInv
<1>2. ASSUME NEW c \in Clients, NEW size \in Sizes, cacheAllocer(c, size)
      PROVE  Linked' /\ NoSharing' /\ HeapAccounted'
  BY <1>2, IInvMalloc, IInvPop DEF cacheAllocer, allocLarge, allocExhausted
<1>3. ASSUME NEW c \in Clients, NEW a \in owned[c],
             cacheFree(c, a) \/ clientWrite(c, a)
      PROVE  Linked' /\ NoSharing' /\ HeapAccounted'
  BY <1>3, IInvFree, IInvWrite
<1>4. CASE UNCHANGED vars
  <2>1. \A b : b \in Held' <=> b \in Held
    BY <1>4 DEF vars, Held
  <2>2. Linked'
    BY <1>4, <2>1, ListFrame DEF vars, IInv, Linked
  <2> QED
    BY <1>1, <1>4, <2>1, <2>2 DEF vars, IInv, NoSharing, HeapAccounted
<1> QED
  BY <1>1, <1>2, <1>3, <1>4 DEF IInv, Next

LEMMA Inductive == Spec => []IInv
BY IInvInit, IInvStep, PTL DEF Spec

(* Two clients never hold the same address: cacheAllocer lends a block only    *)
(* once, and cacheFree puts it back only for its holder.                       *)
THEOREM Exclusive == Spec => []NoSharing
<1>1. IInv => NoSharing
  BY DEF IInv
<1> QED
  BY <1>1, Inductive, PTL

(* The blocks of the list are distinct, so it is never longer than the pool.   *)
THEOREM ListIntact == Spec => []FreeListIntact
<1>1. ASSUME Linked PROVE FreeListIntact
  <2>1. PICK n \in Nat : \E chain \in [1..n -> Blocks] :
                           IsFreeList(listCache, next, Held, n, chain)
    BY <1>1 DEF Linked, FreeList
  <2>2. PICK chain \in [1..n -> Blocks] : IsFreeList(listCache, next, Held, n, chain)
    BY <2>1
  <2>3. chain \in Injection(1..n, Blocks)
    BY <2>2 DEF IsFreeList, Injection, IsInjective
  <2>4. IsFiniteSet(Blocks) /\ Cardinality(Blocks) = Capacity
    BY FS_Interval, CacheAssumption DEF Blocks
  <2>5. Cardinality(1..n) = n
    BY FS_Interval
  <2>6. Cardinality(1..n) <= Cardinality(Blocks)
    BY <2>3, <2>4, FS_Injection, Zenon
  <2> QED
    BY <2>2, <2>4, <2>5, <2>6, CacheAssumption DEF FreeListIntact
<1>2. IInv => FreeListIntact
  BY <1>1 DEF IInv
<1> QED
  BY <1>2, Inductive, PTL

(* What cacheFree gives to free is exactly what malloc gave out: no heap        *)
(* address stays allocated without a holder, none is freed under one.          *)
THEOREM HeapReturned == Spec => []HeapAccounted
<1>1. IInv => HeapAccounted
  BY DEF IInv
<1> QED
  BY <1>1, Inductive, PTL

(* A new holder's memory is large enough, and nobody else's changes.           *)
LEMMA FitsLent ==
  ASSUME IInv, RequestFits, NEW c \in Clients, NEW size \in Sizes, cacheAllocer(c, size)
  PROVE  RequestFits'
<1>1. PICK a \in Addresses : HandOut(c, a, size) /\ a \notin Held
  <2>1. CASE malloc(c, size)
    BY <2>1 DEF malloc, Addresses, IInv, HeapAccounted
  <2>2. CASE allocPooled(c, size)
    BY <2>2, IInvPop DEF allocPooled, Addresses
  <2> QED
    BY <2>1, <2>2 DEF cacheAllocer, allocLarge, allocExhausted
<1>2. /\ a \in Blocks => size <= ElemSize
      /\ a \notin Blocks => heap' = [heap EXCEPT ![a] = size]
      /\ a \in Blocks => heap' = heap
  <2>1. CASE malloc(c, size)
    <3>1. PICK h \in HeapBlocks : heap' = [heap EXCEPT ![h] = size] /\ HandOut(c, h, size)
                                  /\ heap[h] = 0
      BY <2>1 DEF malloc
    <3>2. h \notin Held
      BY <3>1 DEF IInv, HeapAccounted
    <3>3. h \in owned'[c] /\ (\A x \in owned'[c] : x \in owned[c] \/ x = a)
      BY <1>1, <3>1 DEF IInv, TypeOK, HandOut
    <3>4. h = a
      BY <3>2, <3>3, HeldHas
    <3> QED
      BY <3>1, <3>4, HeapNotBlock
  <2>2. CASE allocPooled(c, size)
    <3>1. listCache \in owned'[c] /\ (\A x \in owned'[c] : x \in owned[c] \/ x = a)
      BY <1>1, <2>2 DEF IInv, TypeOK, HandOut, allocPooled
    <3>2. listCache \in Blocks /\ listCache \notin Held
      BY <2>2, IInvPop
    <3>3. listCache = a
      BY <3>1, <3>2, HeldHas
    <3> QED
      BY <2>2, <3>2, <3>3, CacheAssumption DEF allocPooled
  <2> QED
    BY <1>1, <2>1, <2>2 DEF cacheAllocer, allocLarge, allocExhausted
<1>3. SUFFICES ASSUME NEW d \in Clients, NEW x \in owned'[d]
               PROVE  IF x \in Blocks THEN room'[x] <= ElemSize ELSE room'[x] <= heap'[x]
  BY DEF RequestFits
<1>4. CASE x = a
  BY <1>1, <1>2, <1>4, CacheAssumption DEF IInv, TypeOK, HandOut, Addresses
<1>5. CASE x # a
  <2>1. x \in owned[d] /\ x \in Addresses
    BY <1>1, <1>3, <1>5 DEF IInv, TypeOK, HandOut
  <2>2. room'[x] = room[x]
    BY <1>1, <1>5, <2>1 DEF IInv, TypeOK, HandOut
  <2>3. ASSUME x \notin Blocks PROVE heap'[x] = heap[x]
    <3>1. x \in HeapBlocks
      BY <2>1, <2>3 DEF Addresses
    <3> QED
      BY <1>1, <1>2, <1>5, <3>1 DEF IInv, TypeOK
  <2> QED
    BY <2>1, <2>2, <2>3 DEF RequestFits
<1> QED
  BY <1>4, <1>5

LEMMA FitsKept ==
  ASSUME IInv, RequestFits, NEW c \in Clients, NEW a \in owned[c],
         cacheFree(c, a) \/ clientWrite(c, a)
  PROVE  RequestFits'
<1>1. CASE clientWrite(c, a)
  BY <1>1 DEF clientWrite, RequestFits
<1>2. CASE cacheFree(c, a)
  <2>1. SUFFICES ASSUME NEW d \in Clients, NEW x \in owned'[d]
                 PROVE  IF x \in Blocks THEN room'[x] <= ElemSize
                                        ELSE room'[x] <= heap'[x]
    BY DEF RequestFits
  <2>2. x \in owned[d] /\ x # a /\ x \in Addresses
    BY <1>2, <2>1 DEF IInv, TypeOK, NoSharing, cacheFree
  <2>3. room'[x] = room[x]
    BY <1>2, <2>2 DEF IInv, TypeOK, cacheFree
  <2>4. ASSUME x \notin Blocks PROVE heap'[x] = heap[x]
    <3>1. x \in HeapBlocks
      BY <2>2, <2>4 DEF Addresses
    <3> QED
      BY <1>2, <2>2, <3>1 DEF IInv, TypeOK, cacheFree, push, free
  <2> QED
    BY <2>2, <2>3, <2>4 DEF RequestFits
<1> QED
  BY <1>1, <1>2

(* Whatever was asked for before, memory a client holds is as large as the     *)
(* request it was given for: the size test of cacheAllocer covers the pool.    *)
THEOREM RoomEnough == Spec => []RequestFits
<1>1. Init => RequestFits
  BY DEF Init, RequestFits
<1>2. IInv /\ RequestFits /\ [Next]_vars => RequestFits'
  <2>1. IInv /\ RequestFits /\ Next => RequestFits'
    BY FitsLent, FitsKept DEF Next
  <2>2. RequestFits /\ UNCHANGED vars => RequestFits'
    BY DEF RequestFits, vars
  <2> QED
    BY <2>1, <2>2
<1> QED
  BY <1>1, <1>2, Inductive, PTL DEF Spec

------------------------------------------------------------------------------
LEMMA NoIdleBlock == IInv /\ listCache = NULL => Blocks \ Held = {}
BY HeadIdle DEF IInv, Linked

LEMMA MallocRefines ==
  ASSUME IInv, NEW c \in Clients, NEW size \in Sizes, malloc(c, size),
         ElemSize < size \/ listCache = NULL
  PROVE  P!FromHeap(c, size)
<1>1. PICK h \in HeapBlocks : heap[h] = 0 /\ HandOut(c, h, size)
  BY DEF malloc
<1>2. h \notin Held
  BY <1>1 DEF IInv, HeapAccounted
<1>3. \A b : b \in Held' <=> b \in Held \/ b = h
  BY <1>1, <1>2, HeapNotBlock, LendFresh DEF IInv, HandOut
<1>4. Blocks \ Held' = Blocks \ Held
  BY <1>3, HeapNotBlock
<1>5. size > ElemSize \/ Blocks \ Held = {}
  BY NoIdleBlock, CacheAssumption
<1>6. \A d \in Clients : h \notin owned[d]
  BY <1>2, HeldHas
<1> QED
  BY <1>1, <1>4, <1>5, <1>6 DEF P!FromHeap, P!Lend, HandOut

LEMMA StepRefines == IInv /\ [Next]_vars => [P!Next]_(P!poolVars)
<1> SUFFICES ASSUME IInv, [Next]_vars PROVE [P!Next]_(P!poolVars)
  OBVIOUS
<1>1. ASSUME NEW c \in Clients, NEW size \in Sizes, cacheAllocer(c, size)
      PROVE  P!Next
  <2>1. CASE allocLarge(c, size)
    BY <2>1, MallocRefines DEF allocLarge, P!Next
  <2>2. CASE allocExhausted(c, size)
    BY <2>2, MallocRefines DEF allocExhausted, P!Next
  <2>3. CASE allocPooled(c, size)
    <3>1. /\ listCache \in Blocks /\ listCache \notin Held
          /\ \A b : b \in Held' <=> b \in Held \/ b = listCache
      BY <2>3, IInvPop
    <3>2. Blocks \ Held' = (Blocks \ Held) \ {listCache}
      BY <3>1
    <3>3. size <= ElemSize
      BY <2>3, CacheAssumption DEF allocPooled
    <3>4. P!Lend(c, listCache, size)
      BY <2>3 DEF allocPooled, HandOut, P!Lend
    <3>5. P!FromPool(c, size)
      BY <3>1, <3>2, <3>3, <3>4 DEF P!FromPool
    <3> QED
      BY <3>5 DEF P!Next
  <2> QED
    BY <1>1, <2>1, <2>2, <2>3 DEF cacheAllocer
<1>2. ASSUME NEW c \in Clients, NEW a \in owned[c], cacheFree(c, a)
      PROVE  P!Next
  <2>1. \A b : b \in Held' <=> b \in Held /\ b # a
    BY <1>2, GiveBack DEF IInv, cacheFree
  <2>2. Blocks \ Held' = (Blocks \ Held) \cup ({a} \cap Blocks)
    BY <2>1
  <2>3. P!Free(c, a)
    BY <1>2, <2>2 DEF cacheFree, P!Free
  <2> QED
    BY <2>3 DEF P!Next
<1>3. ASSUME NEW c \in Clients, NEW a \in owned[c], clientWrite(c, a)
      PROVE  UNCHANGED P!poolVars
  BY <1>3 DEF clientWrite, Held, P!poolVars
<1>4. CASE UNCHANGED vars
  BY <1>4 DEF vars, Held, P!poolVars
<1> QED
  BY <1>1, <1>2, <1>3, <1>4 DEF Next

(* Cache.cc implements the abstract pool: as long as a block is idle a request *)
(* that fits gets one, whatever the clients write into the blocks they hold.   *)
THEOREM RefinesPool == Spec => ImplementsPool
<1>1. Init => P!Init
  BY HeldHas DEF Init, P!Init, Addresses
<1> QED
  BY <1>1, Inductive, StepRefines, PTL DEF Spec, ImplementsPool, P!Spec

------------------------------------------------------------------------------
(* smallCache, used in turn.  A thread that is inside read the head that is    *)
(* there, and its link; the links form a list from headLinked, and the places  *)
(* of the loop and the others are never taken at once.                         *)
Places == {"idle", "head read", "next read", "linked"}

LocalsTyped == /\ pc \in [Clients -> Places]
               /\ now \in [Clients -> Blocks \cup {NULL}]
               /\ after \in [Clients -> Blocks \cup {NULL}]

OneInside == \A t, u \in Clients : pc[t] # "idle" /\ pc[u] # "idle" => t = u

ReadsTrue == \A t \in Clients :
  /\ pc[t] \in {"head read", "next read"} => now[t] = listCache /\ listCache # NULL
  /\ pc[t] = "next read" => after[t] = next[listCache]
  /\ pc[t] = "linked" => t = loop /\ now[t] \in Blocks

SmallInv == /\ TypeOK /\ LocalsTyped /\ OneInside /\ ReadsTrue /\ ~ crashed
            /\ FreeList(headLinked, next, Held) /\ NoSharing /\ HeapAccounted

Quiet == \A t \in Clients : pc[t] = "idle"

(* Nobody but t is inside when t, from outside, does more than write. *)
LEMMA EntersQuiet ==
  ASSUME inTurn, NEW t \in Clients, pc[t] = "idle",
         \A u \in Clients \ {t} : pc'[u] = pc[u],
         heap' # heap \/ owned' # owned \/ pc'[t] # pc[t]
  PROVE  Quiet
BY DEF inTurn, Quiet

(* Outside of cacheFree the list is that of module Cache.                      *)
LEMMA HeadIsHead ==
  ASSUME loop \in Clients, SmallInv, pc[loop] # "linked"
  PROVE  IInv /\ headLinked = listCache
BY DEF SmallInv, headLinked, IInv, Linked

LEMMA QuietIInv == ASSUME loop \in Clients, SmallInv, Quiet PROVE IInv /\ headLinked = listCache
BY HeadIsHead DEF Quiet

(* An operation of Cache that begins and ends with nobody inside.              *)
LEMMA WholeOperation ==
  ASSUME loop \in Clients, IInv, Next, ~ crashed', LocalsTyped', Quiet'
  PROVE  SmallInv'
<1>1. IInv'
  BY IInvStep
<1>2. headLinked' = listCache'
  BY DEF Quiet, headLinked
<1>3. OneInside' /\ ReadsTrue'
  BY DEF Quiet, OneInside, ReadsTrue
<1> QED
  BY <1>1, <1>2, <1>3 DEF IInv, Linked, SmallInv

LEMMA SmallRead ==
  ASSUME loop \in Clients, SmallInv, inTurn, NEW t \in Clients, NEW size \in Sizes,
         readHead(t, size), size <= ElemSize, listCache # NULL
  PROVE  SmallInv' /\ UNCHANGED Atomic!vars
<1>1. /\ pc[t] = "idle" /\ pc' = [pc EXCEPT ![t] = "head read"]
      /\ now' = [now EXCEPT ![t] = listCache]
      /\ UNCHANGED <<listCache, next, heap, owned, room, after, crashed>>
  BY DEF readHead, step, vars
<1>2. \A u \in Clients : pc'[u] = IF u = t THEN "head read" ELSE pc[u]
  BY <1>1 DEF SmallInv, LocalsTyped
<1>3. Quiet
  <2>1. pc[t] = "idle" /\ pc'[t] = "head read"
    BY <1>1, <1>2
  <2>2. \A u \in Clients \ {t} : pc'[u] = pc[u]
    BY <1>2
  <2> QED
    BY <1>1, <2>1, <2>2, EntersQuiet
<1>4. now'[t] = listCache
  BY <1>1 DEF SmallInv, LocalsTyped
<1>5. LocalsTyped'
  BY <1>1 DEF SmallInv, LocalsTyped, TypeOK, Places
<1>6. \A u \in Clients : pc'[u] # "idle" => u = t /\ pc'[u] = "head read"
  BY <1>2, <1>3 DEF Quiet
<1>7. OneInside' /\ ReadsTrue'
  BY <1>1, <1>4, <1>6 DEF OneInside, ReadsTrue
<1>8. headLinked' = headLinked
  <2>1. pc[loop] = "idle"
    BY <1>3 DEF Quiet
  <2>2. pc'[loop] # "linked"
    BY <1>2, <2>1
  <2> QED
    BY <1>1, <2>1, <2>2 DEF headLinked
<1>9. TypeOK' /\ ~ crashed' /\ NoSharing' /\ HeapAccounted' /\ Held' = Held
  BY <1>1 DEF SmallInv, TypeOK, NoSharing, HeapAccounted, Held
<1>10. FreeList(headLinked, next, Held)'
  BY <1>1, <1>8, <1>9 DEF SmallInv
<1> QED
  BY <1>1, <1>5, <1>7, <1>8, <1>9, <1>10 DEF SmallInv, Atomic!vars

LEMMA SmallHeap ==
  ASSUME loop \in Clients, SmallInv, inTurn, NEW t \in Clients, NEW size \in Sizes,
         readHead(t, size), ~ (size <= ElemSize /\ listCache # NULL)
  PROVE  SmallInv' /\ Atomic!Next
<1>1. /\ pc[t] = "idle" /\ pc' = [pc EXCEPT ![t] = "idle"]
      /\ malloc(t, size)
      /\ UNCHANGED <<listCache, next, now, after, crashed>>
  BY DEF readHead, step
<1>2. pc' = pc
  BY <1>1 DEF SmallInv, LocalsTyped
<1>3. heap' # heap
  <2>1. PICK h \in HeapBlocks : heap[h] = 0 /\ heap' = [heap EXCEPT ![h] = size]
    BY <1>1 DEF malloc
  <2>2. heap'[h] = size /\ size # 0
    BY <2>1, CacheAssumption DEF SmallInv, TypeOK
  <2> QED
    BY <2>1, <2>2
<1>4. Quiet
  BY <1>1, <1>2, <1>3, EntersQuiet
<1>5. IInv /\ headLinked = listCache
  BY <1>4, QuietIInv
<1>6. Quiet' /\ headLinked' = listCache'
  BY <1>1, <1>2, <1>4 DEF Quiet, headLinked
<1>7. size \in Nat /\ ElemSize \in Nat
  BY CacheAssumption
<1>8. allocLarge(t, size) \/ allocExhausted(t, size)
  BY <1>1, <1>7 DEF allocLarge, allocExhausted
<1>9. Next
  BY <1>8 DEF Next, cacheAllocer
<1>10. SmallInv'
  BY <1>1, <1>2, <1>5, <1>6, <1>9, WholeOperation DEF SmallInv, LocalsTyped
<1>11. Atomic!cacheAllocer(t, size)
  BY <1>5, <1>6, <1>8
  DEF allocLarge, allocExhausted, malloc, HandOut, Atomic!cacheAllocer, Atomic!allocLarge,
      Atomic!allocExhausted, Atomic!malloc, Atomic!HandOut
<1> QED
  BY <1>10, <1>11 DEF Atomic!Next

(* A thread that is inside read the head that is still there.                  *)
LEMMA SmallNextRead ==
  ASSUME loop \in Clients, SmallInv, NEW t \in Clients, readNext(t)
  PROVE  SmallInv' /\ UNCHANGED Atomic!vars
<1>1. pc[t] = "head read"
  BY DEF readNext, step
<1>2. now[t] = listCache /\ listCache # NULL /\ listCache \in Blocks
  BY <1>1 DEF SmallInv, ReadsTrue, TypeOK
<1>3. /\ pc' = [pc EXCEPT ![t] = "next read"]
      /\ after' = [after EXCEPT ![t] = next[listCache]]
      /\ UNCHANGED <<listCache, next, heap, owned, room, now, crashed>>
  BY <1>2 DEF readNext, step, vars
<1>4. \A u \in Clients : pc'[u] = IF u = t THEN "next read" ELSE pc[u]
  BY <1>3 DEF SmallInv, LocalsTyped
<1>5. \A u \in Clients : u # t => pc[u] = "idle"
  BY <1>1 DEF SmallInv, OneInside
<1>6. after'[t] = next[listCache] /\ next[listCache] \in Blocks \cup {NULL}
  BY <1>2, <1>3 DEF SmallInv, LocalsTyped, TypeOK
<1>7. LocalsTyped'
  BY <1>3, <1>6 DEF SmallInv, LocalsTyped, Places
<1>8. OneInside' /\ ReadsTrue'
  <2>1. \A u \in Clients : pc'[u] # "idle" => u = t /\ pc'[u] = "next read"
    BY <1>4, <1>5
  <2> QED
    BY <1>2, <1>3, <1>6, <2>1 DEF OneInside, ReadsTrue
<1>9. headLinked' = headLinked
  <2>1. pc[loop] # "linked" /\ pc'[loop] # "linked"
    BY <1>1, <1>4, <1>5
  <2> QED
    BY <1>3, <2>1 DEF headLinked
<1>10. TypeOK' /\ ~ crashed' /\ NoSharing' /\ HeapAccounted' /\ Held' = Held
  BY <1>3 DEF SmallInv, TypeOK, NoSharing, HeapAccounted, Held
<1>11. FreeList(headLinked, next, Held)'
  BY <1>3, <1>9, <1>10 DEF SmallInv
<1> QED
  BY <1>3, <1>7, <1>8, <1>9, <1>10, <1>11 DEF SmallInv, Atomic!vars

LEMMA SmallTake ==
  ASSUME loop \in Clients, SmallInv, NEW t \in Clients,
         NEW size \in {s \in Sizes : s <= ElemSize}, takeHead(t, size)
  PROVE  SmallInv' /\ Atomic!Next
<1>1. /\ pc[t] = "next read" /\ pc' = [pc EXCEPT ![t] = "idle"]
      /\ listCache' = after[t] /\ HandOut(t, now[t], size)
      /\ UNCHANGED <<next, heap, now, after, crashed>>
  BY DEF takeHead, step
<1>2. now[t] = listCache /\ listCache # NULL /\ after[t] = next[listCache]
  BY <1>1 DEF SmallInv, ReadsTrue
<1>3. \A u \in Clients : pc'[u] = IF u = t THEN "idle" ELSE pc[u]
  BY <1>1 DEF SmallInv, LocalsTyped
<1>4. \A u \in Clients : u # t => pc[u] = "idle"
  BY <1>1 DEF SmallInv, OneInside
<1>5. IInv /\ headLinked = listCache
  BY <1>1, <1>4, HeadIsHead
<1>6. Quiet' /\ headLinked' = listCache'
  BY <1>3, <1>4 DEF Quiet, headLinked
<1>7. allocPooled(t, size)
  <2>1. ~ ElemSize < size
    BY CacheAssumption
  <2> QED
    BY <1>1, <1>2, <2>1 DEF allocPooled
<1>8. Next
  BY <1>7 DEF Next, cacheAllocer
<1>9. LocalsTyped'
  BY <1>1 DEF SmallInv, LocalsTyped, Places
<1>10. SmallInv'
  BY <1>1, <1>5, <1>6, <1>8, <1>9, WholeOperation DEF SmallInv
<1>11. Atomic!cacheAllocer(t, size)
  BY <1>5, <1>6, <1>7
  DEF allocPooled, HandOut, Atomic!cacheAllocer, Atomic!allocPooled, Atomic!HandOut
<1> QED
  BY <1>10, <1>11 DEF Atomic!Next

(* A freed address goes back from the one that held it.                        *)
LEMMA OneHolder ==
  ASSUME TypeOK, NoSharing, NEW a \in Held,
         owned' = [t \in Clients |-> owned[t] \ {a}]
  PROVE  \E c \in Clients : a \in owned[c] /\ owned' = [owned EXCEPT ![c] = @ \ {a}]
<1>1. PICK c \in Clients : a \in owned[c]
  BY HeldHas
<1>2. \A d \in Clients : d # c => owned[d] \ {a} = owned[d]
  BY <1>1 DEF NoSharing
<1>3. owned' = [owned EXCEPT ![c] = @ \ {a}]
  BY <1>2 DEF TypeOK
<1> QED
  BY <1>1, <1>3

LEMMA SmallLink ==
  ASSUME loop \in Clients, SmallInv, inTurn, NEW a \in Held, linkNode(a)
  PROVE  SmallInv' /\ Atomic!Next
<1>1. /\ a \in Blocks
      /\ pc[loop] = "idle" /\ pc' = [pc EXCEPT ![loop] = "linked"]
      /\ next' = [next EXCEPT ![a] = listCache]
      /\ now' = [now EXCEPT ![loop] = a]
      /\ owned' = [t \in Clients |-> owned[t] \ {a}]
      /\ room' = [room EXCEPT ![a] = 0]
      /\ UNCHANGED <<listCache, heap, after, crashed>>
  BY DEF linkNode, step
<1>2. \A u \in Clients : pc'[u] = IF u = loop THEN "linked" ELSE pc[u]
  BY <1>1 DEF SmallInv, LocalsTyped
<1>3. Quiet
  <2>1. pc'[loop] # pc[loop] /\ \A u \in Clients \ {loop} : pc'[u] = pc[u]
    BY <1>1, <1>2
  <2> QED
    BY <1>1, <2>1, EntersQuiet
<1>4. IInv /\ headLinked = listCache
  BY <1>3, QuietIInv
<1>5. now'[loop] = a /\ headLinked' = a
  BY <1>1, <1>2 DEF SmallInv, LocalsTyped, headLinked
<1>6. PICK c \in Clients : a \in owned[c] /\ owned' = [owned EXCEPT ![c] = @ \ {a}]
  BY <1>1, <1>4, OneHolder DEF IInv
<1>7. NoSharing' /\ \A b : b \in Held' <=> b \in Held /\ b # a
  BY <1>4, <1>6, GiveBack DEF IInv
<1>8. FreeList(a, next', Held')
  <2>1. \A b \in Blocks : next'[b] = IF b = a THEN listCache ELSE next[b]
    BY <1>1, <1>4 DEF IInv, TypeOK
  <2>2. FreeList(listCache, next, Held)
    BY <1>4 DEF IInv, Linked
  <2>3. \A b \in Blocks : b \in Held' <=> b \in Held /\ b # a
    BY <1>7
  <2>4. a \in Blocks
    BY <1>1
  <2> QED
    BY <2>1, <2>2, <2>3, <2>4, ListPush
<1>9. a \in Int /\ InPool(a) /\ a \notin HeapBlocks
  BY <1>1, InPoolIsBlock, HeapNotBlock DEF Blocks
<1>10. HeapAccounted'
  BY <1>1, <1>4, <1>7, <1>9 DEF IInv, HeapAccounted
<1>11. TypeOK'
  BY <1>1, <1>4 DEF IInv, TypeOK
<1>12. LocalsTyped'
  BY <1>1 DEF SmallInv, LocalsTyped, Places
<1>13. OneInside' /\ ReadsTrue'
  <2>1. \A u \in Clients : pc'[u] # "idle" => u = loop /\ pc'[u] = "linked"
    BY <1>2, <1>3 DEF Quiet
  <2> QED
    BY <1>1, <1>5, <2>1 DEF OneInside, ReadsTrue
<1>14. Atomic!cacheFree(c, a)
  <2>1. Atomic!InPool(a)
    BY <1>9 DEF InPool, Atomic!InPool
  <2> QED
    BY <1>1, <1>4, <1>5, <1>6, <2>1 DEF Atomic!cacheFree, Atomic!push
<1>15. SmallInv'
  BY <1>1, <1>5, <1>7, <1>8, <1>10, <1>11, <1>12, <1>13 DEF SmallInv
<1> QED
  BY <1>6, <1>14, <1>15 DEF Atomic!Next

LEMMA SmallPush ==
  ASSUME loop \in Clients, SmallInv, pushNode
  PROVE  SmallInv' /\ UNCHANGED Atomic!vars
<1>1. /\ pc[loop] = "linked" /\ pc' = [pc EXCEPT ![loop] = "idle"]
      /\ listCache' = now[loop]
      /\ UNCHANGED <<next, heap, owned, room, now, after, crashed>>
  BY DEF pushNode, step
<1>2. \A u \in Clients : pc'[u] = IF u = loop THEN "idle" ELSE pc[u]
  BY <1>1 DEF SmallInv, LocalsTyped
<1>3. \A u \in Clients : u # loop => pc[u] = "idle"
  BY <1>1 DEF SmallInv, OneInside
<1>4. headLinked = now[loop] /\ headLinked' = headLinked
  BY <1>1, <1>2 DEF headLinked
<1>5. OneInside' /\ ReadsTrue'
  BY <1>2, <1>3 DEF OneInside, ReadsTrue
<1>6. now[loop] \in Blocks
  BY <1>1 DEF SmallInv, ReadsTrue
<1>7. LocalsTyped'
  BY <1>1 DEF SmallInv, LocalsTyped, Places
<1>8. TypeOK' /\ ~ crashed' /\ NoSharing' /\ HeapAccounted' /\ Held' = Held
  BY <1>1, <1>6 DEF SmallInv, TypeOK, NoSharing, HeapAccounted, Held
<1>9. FreeList(headLinked, next, Held)'
  BY <1>1, <1>4, <1>8 DEF SmallInv
<1> QED
  BY <1>1, <1>4, <1>5, <1>7, <1>8, <1>9 DEF SmallInv, Atomic!vars

LEMMA SmallFreeHeap ==
  ASSUME loop \in Clients, SmallInv, inTurn, NEW a \in Held, freeHeap(a)
  PROVE  SmallInv' /\ Atomic!Next
<1>1. /\ a \notin Blocks
      /\ pc[loop] = "idle" /\ pc' = [pc EXCEPT ![loop] = "idle"]
      /\ free(a)
      /\ owned' = [t \in Clients |-> owned[t] \ {a}]
      /\ room' = [room EXCEPT ![a] = 0]
      /\ UNCHANGED <<now, after, crashed>>
  BY DEF freeHeap, step
<1>2. pc' = pc
  BY <1>1 DEF SmallInv, LocalsTyped
<1>3. PICK c \in Clients : a \in owned[c] /\ owned' = [owned EXCEPT ![c] = @ \ {a}]
  BY <1>1, OneHolder DEF SmallInv
<1>4. owned' # owned
  <2>1. a \notin owned'[c]
    BY <1>1
  <2> QED
    BY <1>3, <2>1
<1>5. Quiet
  BY <1>1, <1>2, <1>4, EntersQuiet
<1>6. IInv /\ headLinked = listCache
  BY <1>5, QuietIInv
<1>7. Quiet' /\ headLinked' = listCache'
  BY <1>2, <1>5 DEF Quiet, headLinked
<1>8. a \in Int /\ ~ InPool(a)
  BY <1>1, <1>3, <1>6, InPoolIsBlock, HeapNotBlock, CacheAssumption
  DEF IInv, TypeOK, Addresses
<1>9. cacheFree(c, a)
  BY <1>1, <1>3, <1>8 DEF cacheFree
<1>10. Next
  BY <1>3, <1>9 DEF Next
<1>11. LocalsTyped'
  BY <1>1, <1>2 DEF SmallInv, LocalsTyped
<1>12. SmallInv'
  BY <1>1, <1>6, <1>7, <1>10, <1>11, WholeOperation DEF SmallInv
<1>13. Atomic!cacheFree(c, a)
  <2>1. ~ Atomic!InPool(a)
    BY <1>8 DEF InPool, Atomic!InPool
  <2> QED
    BY <1>1, <1>3, <1>6, <1>7, <2>1 DEF free, Atomic!cacheFree, Atomic!free
<1> QED
  BY <1>3, <1>12, <1>13 DEF Atomic!Next

(* A thread outside may write to its memory while another is inside: what that *)
(* one has read is of blocks nobody holds.                                     *)
LEMMA SmallWrite ==
  ASSUME loop \in Clients, SmallInv, NEW t \in Clients, NEW a \in owned[t],
         clientWrite(t, a), UNCHANGED locals
  PROVE  SmallInv' /\ Atomic!Next
<1>1. /\ a \in Blocks /\ pc' = pc /\ now' = now /\ after' = after /\ crashed' = crashed
      /\ listCache' = listCache /\ heap' = heap /\ owned' = owned /\ room' = room
  BY DEF clientWrite, locals
<1>2. PICK word \in Blocks \cup {NULL} : next' = [next EXCEPT ![a] = word]
  BY DEF clientWrite
<1>3. headLinked' = headLinked /\ Held' = Held
  BY <1>1 DEF headLinked, Held
<1>4. a \in Held
  BY HeldHas
<1>5. \A b \in Blocks : b # a => next'[b] = next[b]
  BY <1>2 DEF SmallInv, TypeOK
<1>6. FreeList(headLinked, next', Held)
  BY <1>4, <1>5, ListFrame DEF SmallInv
<1>7. ReadsTrue'
  <2> SUFFICES ASSUME NEW u \in Clients, pc[u] = "next read"
               PROVE  next'[listCache] = next[listCache]
    BY <1>1 DEF SmallInv, ReadsTrue
  <2>1. listCache \in Blocks
    BY DEF SmallInv, ReadsTrue, TypeOK
  <2>2. pc[loop] # "linked"
    BY DEF SmallInv, OneInside
  <2>3. listCache \notin Held
    BY <2>1, <2>2, HeadIdle DEF SmallInv, headLinked
  <2> QED
    BY <1>4, <1>5, <2>1, <2>3
<1>8. LocalsTyped' /\ OneInside' /\ ~ crashed' /\ NoSharing' /\ HeapAccounted'
  BY <1>1, <1>3 DEF SmallInv, LocalsTyped, OneInside, NoSharing, HeapAccounted
<1>9. TypeOK'
  BY <1>1, <1>2 DEF SmallInv, TypeOK
<1>10. SmallInv'
  BY <1>3, <1>6, <1>7, <1>8, <1>9 DEF SmallInv
<1>11. Atomic!clientWrite(t, a)
  BY <1>1, <1>2, <1>3 DEF Atomic!clientWrite, Atomic!Blocks, Blocks
<1> QED
  BY <1>10, <1>11 DEF Atomic!Next

LEMMA SmallInit1 == ASSUME loop \in Clients PROVE SmallInit => SmallInv /\ Atomic!Init
<1> SUFFICES ASSUME SmallInit PROVE SmallInv /\ Atomic!Init
  OBVIOUS
<1>1. IInv
  BY IInvInit DEF SmallInit
<1>2. headLinked = listCache
  BY DEF SmallInit, headLinked
<1>3. LocalsTyped /\ OneInside /\ ReadsTrue
  BY DEF SmallInit, LocalsTyped, Places, OneInside, ReadsTrue
<1>4. SmallInv
  BY <1>1, <1>2, <1>3 DEF SmallInit, SmallInv, IInv, Linked
<1> QED
  BY <1>2, <1>4 DEF SmallInit, Init, cacheCreator, Atomic!Init, Atomic!cacheCreator,
                    Atomic!Blocks, Atomic!Addresses, Blocks, Addresses

LEMMA SmallStep ==
  ASSUME loop \in Clients
  PROVE  SmallInv /\ [SmallNext]_<<vars, locals>> /\ [inTurn]_<<vars, locals>>
           => SmallInv' /\ [Atomic!Next]_(Atomic!vars)
<1> SUFFICES ASSUME SmallInv, [SmallNext]_<<vars, locals>>, [inTurn]_<<vars, locals>>
             PROVE  SmallInv' /\ [Atomic!Next]_(Atomic!vars)
  OBVIOUS
<1>1. CASE UNCHANGED <<vars, locals>>
  <2>1. headLinked' = headLinked /\ Held' = Held
    BY <1>1 DEF vars, locals, headLinked, Held
  <2>2. /\ TypeOK' /\ LocalsTyped' /\ OneInside' /\ ReadsTrue' /\ ~ crashed'
        /\ NoSharing' /\ HeapAccounted'
    BY <1>1, <2>1 DEF SmallInv, vars, locals, TypeOK, LocalsTyped, OneInside, ReadsTrue,
                      NoSharing, HeapAccounted
  <2>3. FreeList(headLinked, next, Held)'
    BY <1>1, <2>1 DEF SmallInv, vars
  <2> QED
    BY <1>1, <2>1, <2>2, <2>3 DEF SmallInv, vars, Atomic!vars
<1>2. CASE SmallNext /\ inTurn
  <2>1. ASSUME NEW t \in Clients, NEW size \in Sizes, readHead(t, size)
        PROVE  SmallInv' /\ [Atomic!Next]_(Atomic!vars)
    BY <1>2, <2>1, SmallRead, SmallHeap
  <2>2. ASSUME NEW t \in Clients, readNext(t)
        PROVE  SmallInv' /\ [Atomic!Next]_(Atomic!vars)
    BY <2>2, SmallNextRead
  <2>3. ASSUME NEW t \in Clients, NEW size \in {s \in Sizes : s <= ElemSize}, takeHead(t, size)
        PROVE  SmallInv' /\ [Atomic!Next]_(Atomic!vars)
    BY <2>3, SmallTake
  <2>4. ASSUME NEW t \in Clients, NEW a \in owned[t], clientWrite(t, a), UNCHANGED locals
        PROVE  SmallInv' /\ [Atomic!Next]_(Atomic!vars)
    BY <2>4, SmallWrite
  <2>5. ASSUME NEW a \in Held, linkNode(a) \/ freeHeap(a)
        PROVE  SmallInv' /\ [Atomic!Next]_(Atomic!vars)
    BY <1>2, <2>5, SmallLink, SmallFreeHeap
  <2>6. CASE pushNode
    BY <2>6, SmallPush
  <2> QED
    BY <1>2, <2>1, <2>2, <2>3, <2>4, <2>5, <2>6 DEF SmallNext
<1>3. (SmallNext /\ inTurn) \/ UNCHANGED <<vars, locals>>
  OBVIOUS
<1> QED
  BY <1>1, <1>2, <1>3

(* Threads that take turns in cacheAllocer and cacheFree, as with a lock there, *)
(* see the atomic allocator of module Cache, and none reads through NULL, even *)
(* while others write to their memory (Cache.cc:63-90).                        *)
THEOREM TurnsImplement ==
  ASSUME loop \in Clients PROVE SmallSpec /\ Serial => ImplementsCache
BY SmallInit1, SmallStep, PTL DEF SmallSpec, Serial, ImplementsCache, Atomic!Spec

(* A pool that one thread uses is used in turn: the atomic actions of Cache    *)
(* are what session_allocer, wr_allocer and wbuf_allocer do (session_uv.cc).   *)
THEOREM LoopAlone == ASSUME Clients = {loop} PROVE SmallSpec => ImplementsCache
<1> DEFINE Typed == pc \in [Clients -> Places]
<1>1. SmallInit => Typed
  BY DEF SmallInit, Places
<1>2. Typed /\ [SmallNext]_<<vars, locals>> => Typed' /\ [inTurn]_<<vars, locals>>
  <2> SUFFICES ASSUME Typed, SmallNext PROVE Typed' /\ inTurn
    BY DEF vars, locals
  <2>1. SUFFICES Typed' /\ (pc[loop] # "idle" =>
                    pc'[loop] # pc[loop] \/ UNCHANGED <<listCache, heap, owned, room, pc>>)
    BY DEF inTurn
  <2>2. ASSUME NEW size \in Sizes, readHead(loop, size) \/ takeHead(loop, size)
        PROVE  Typed' /\ (pc[loop] # "idle" => pc'[loop] # pc[loop])
    BY <2>2 DEF readHead, takeHead, step, Places
  <2>3. CASE readNext(loop)
    BY <2>3 DEF readNext, step, vars, Places
  <2>4. ASSUME NEW a \in Held, linkNode(a) \/ freeHeap(a)
        PROVE  Typed' /\ pc[loop] = "idle"
    BY <2>4 DEF linkNode, freeHeap, step, Places
  <2>5. CASE pushNode
    BY <2>5 DEF pushNode, step, Places
  <2>6. ASSUME NEW a \in owned[loop], clientWrite(loop, a), UNCHANGED locals
        PROVE  Typed' /\ UNCHANGED <<listCache, heap, owned, room, pc>>
    BY <2>6 DEF clientWrite, locals
  <2> QED
    BY <2>2, <2>3, <2>4, <2>5, <2>6 DEF SmallNext
<1>3. SmallSpec => Serial
  BY <1>1, <1>2, PTL DEF SmallSpec, Serial
<1> QED
  BY <1>3, TurnsImplement
=============================================================================
