------------------------------ MODULE SmallCache ------------------------------
(* smallCache (utils/Cache.cc:92-111), the one pool that more than one thread   *)
(* uses: the loop thread allocates and frees its requests, timers and strings  *)
(* there, and the threads of libuv's pool allocate contexts and error texts    *)
(* while they connect and query (redismanager.cc:38, 44, 140,                   *)
(* mysqlmanager.cc:63, 172).  Nothing locks it, so the statements of            *)
(* cacheAllocer and cacheFree, atomic in module Cache, interleave here.  The    *)
(* pool itself is created on the loop thread before any work is queued.        *)
EXTENDS Cache

CONSTANT loop   \* the loop thread, one of Clients; the others are of libuv's pool

VARIABLES
  pc,       \* pc[t]: where thread t is in cacheAllocer or cacheFree
  now,      \* now[t]: the head it read (line 71), or the node it frees (line 83)
  after,    \* after[t]: the link it read from the head (line 72)
  crashed   \* a thread read through a NULL head

locals == <<pc, now, after, crashed>>

SmallInit == /\ Init
             /\ pc = [t \in Clients |-> "idle"]
             /\ now = [t \in Clients |-> NULL]
             /\ after = [t \in Clients |-> NULL]
             /\ crashed = FALSE

step(t, from, to) == pc[t] = from /\ pc' = [pc EXCEPT ![t] = to] /\ UNCHANGED crashed

(* Lines 66, 69 and 75: the head is read, or the heap serves the request.      *)
readHead(t, size) ==
  IF size <= ElemSize /\ listCache # NULL
  THEN /\ step(t, "idle", "head read")
       /\ now' = [now EXCEPT ![t] = listCache]
       /\ UNCHANGED <<vars, after>>
  ELSE /\ step(t, "idle", "idle")
       /\ malloc(t, size)
       /\ UNCHANGED <<listCache, next, now, after>>

(* Line 72, the right side: the compiler may reuse the head or read it again.  *)
readNext(t) == \E head \in {now[t], listCache} :
  /\ IF head = NULL
     THEN /\ pc[t] = "head read"
          /\ crashed' = TRUE
          /\ UNCHANGED <<pc, after>>
     ELSE /\ step(t, "head read", "next read")
          /\ after' = [after EXCEPT ![t] = next[head]]
  /\ UNCHANGED <<vars, now>>

(* Line 72, the assignment, and the return of the head.                        *)
takeHead(t, size) ==
  /\ step(t, "next read", "idle")
  /\ listCache' = after[t]
  /\ HandOut(t, now[t], size)
  /\ UNCHANGED <<next, heap, now, after>>

(* Line 84: only callbacks on the loop thread free, what any thread allocated. *)
linkNode(a) ==
  /\ a \in Held \cap Blocks
  /\ step(loop, "idle", "linked")
  /\ next' = [next EXCEPT ![a] = listCache]
  /\ now' = [now EXCEPT ![loop] = a]
  /\ owned' = [t \in Clients |-> owned[t] \ {a}]
  /\ room' = [room EXCEPT ![a] = 0]
  /\ UNCHANGED <<listCache, heap, after>>

(* Line 85. *)
pushNode ==
  /\ step(loop, "linked", "idle")
  /\ listCache' = now[loop]
  /\ UNCHANGED <<next, heap, owned, room, now, after>>

(* Line 89. *)
freeHeap(a) ==
  /\ a \in Held \ Blocks
  /\ step(loop, "idle", "idle")
  /\ free(a)
  /\ owned' = [t \in Clients |-> owned[t] \ {a}]
  /\ room' = [room EXCEPT ![a] = 0]
  /\ UNCHANGED <<now, after>>

SmallNext ==
  /\ ~ crashed
  /\ \/ \E t \in Clients :
          \/ \E size \in Sizes : readHead(t, size)
          \/ readNext(t)
          \/ \E size \in {s \in Sizes : s <= ElemSize} : takeHead(t, size)
          \/ \E a \in owned[t] : clientWrite(t, a) /\ UNCHANGED locals
     \/ \E a \in Held : linkNode(a) \/ freeHeap(a)
     \/ pushNode

SmallSpec == SmallInit /\ [][SmallNext]_<<vars, locals>>

------------------------------------------------------------------------------
(* What a lock around cacheAllocer and cacheFree would give, and what holds of *)
(* a pool that one thread uses (session_uv.cc): while a thread is inside one of *)
(* them, the others at most write to memory they hold.                         *)
inTurn == \A t \in Clients : pc[t] # "idle" =>
            pc'[t] # pc[t] \/ UNCHANGED <<listCache, heap, owned, room, pc>>

Serial == [][inTurn]_<<vars, locals>>

(* The head as module Cache has it: a block that is freed is the head as soon  *)
(* as it is linked (line 84).                                                  *)
headLinked == IF pc[loop] = "linked" THEN now[loop] ELSE listCache

Atomic == INSTANCE Cache WITH listCache <- headLinked

(* Used in turn, the statements of cacheAllocer and cacheFree (Cache.cc:63-90) *)
(* are the atomic operations of module Cache.                                  *)
ImplementsCache == Atomic!Spec
=============================================================================
