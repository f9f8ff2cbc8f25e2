------------------------------- MODULE MCCache -------------------------------
(* A pool of three blocks at addresses 1..3, the heap addresses next to both   *)
(* its ends, two clients, and requests of exactly the block size and above it.  *)
EXTENDS Cache

MCHeapBlocks == {0, 4}
MCSizes == {2, 3}
=============================================================================
