----------------------------- MODULE BlockPool -----------------------------
(***************************************************************************)
(* What the manager of the paging area promises: every block of the area   *)
(* is at any time in exactly one place.  It is free, in the pool of blocks *)
(* that are ready to become page tables, in use as a page table, or in the *)
(* hands of one thread that moves it between those places.                 *)
(***************************************************************************)
CONSTANTS
  Blocks,     \* the blocks of the area
  Reserved,   \* blocks that hold the page tables of the boot code for ever
  Initial,    \* blocks that are in the pool after construction
  Threads,
  NoBlock

VARIABLES
  free,    \* blocks that nobody uses
  pool,    \* blocks that allocateBlock() can hand out
  inUse,   \* blocks that are page tables
  held     \* the block a thread is moving, or NoBlock

poolVars == <<free, pool, inUse, held>>

Init ==
  /\ free = Blocks \ (Reserved \cup Initial)
  /\ pool = Initial
  /\ inUse = {}
  /\ held = [t \in Threads |-> NoBlock]

PickUp(t, b) == held[t] = NoBlock /\ held' = [held EXCEPT ![t] = b]

PutDown(t) == held[t] # NoBlock /\ held' = [held EXCEPT ![t] = NoBlock]

Claim(t)   == \E b \in free : PickUp(t, b) /\ free' = free \ {b} /\ UNCHANGED <<pool, inUse>>
Take(t)    == \E b \in pool : PickUp(t, b) /\ pool' = pool \ {b} /\ UNCHANGED <<free, inUse>>
Return(t)  == \E b \in inUse : PickUp(t, b) /\ inUse' = inUse \ {b} /\ UNCHANGED <<free, pool>>
Release(t) == PutDown(t) /\ free' = free \cup {held[t]} /\ UNCHANGED <<pool, inUse>>
Put(t)     == PutDown(t) /\ pool' = pool \cup {held[t]} /\ UNCHANGED <<free, inUse>>
HandOut(t) == PutDown(t) /\ inUse' = inUse \cup {held[t]} /\ UNCHANGED <<free, pool>>

Next == \E t \in Threads : \/ Claim(t) \/ Take(t) \/ Return(t)
                           \/ Release(t) \/ Put(t) \/ HandOut(t)

Spec == Init /\ [][Next]_poolVars

-----------------------------------------------------------------------------
HeldBlocks == {held[t] : t \in Threads} \ {NoBlock}

\* No page table is given to two users and none is lost: the five places of
\* a block are disjoint, no two threads hold the same one, and together they
\* are the whole area.
OneOwner ==
  /\ Blocks = free \cup pool \cup inUse \cup HeldBlocks \cup Reserved
  /\ free \cap (pool \cup inUse \cup HeldBlocks \cup Reserved) = {}
  /\ pool \cap (inUse \cup HeldBlocks \cup Reserved) = {}
  /\ inUse \cap (HeldBlocks \cup Reserved) = {}
  /\ HeldBlocks \cap Reserved = {}
  /\ \A t, u \in Threads : held[t] = held[u] /\ held[t] # NoBlock => t = u
=============================================================================
