---------------------------- MODULE MCPageFrames ----------------------------
(* Page frames: two tables of three frames, the second cut short by the    *)
(* end of memory.  The slab pool has one block, frames 2 and 3, of which   *)
(* only frame 2 was allocated for it, as MAX_SLAB_SIZE is but a part of    *)
(* the six pools of POOL_SIZE.                                             *)
EXTENDS PageFrames, TLC
Boot == [t \in Threads |-> {}]
Pools == 2 :> {2}
Exchange == Permutations(Threads)
=============================================================================
