-------------------------- MODULE PagingPoolProofs --------------------------
(***************************************************************************)
(* For any number of threads, blocks and slots: every block of the paging  *)
(* area and every slot that is being filled or emptied has one owner, and  *)
(* the pool implements BlockPool.                                          *)
(***************************************************************************)
EXTENDS PagingPool, FiniteSetTheorems, TLAPS

\* The labels at which a thread owns the slot idx[t] ...
SlotLabels == {"pushWrite", "pushSet", "popRead", "popFree"}

\* ... and those at which it has a block in its hands.
BlockLabels == {"popFree", "claimLoad", "claimStore", "zero", "mapped", "pushTest", "pushWrite", "pushSet",
                "freeUnset"}

\* The slots that are claimed but not written belong to different threads.
SlotInv ==
  /\ writtenMap \subseteq allocatedMap
  /\ \A t \in Threads : pc[t] \in SlotLabels => idx[t] \in allocatedMap \ writtenMap
  /\ \A t, u \in Threads :
       pc[t] \in SlotLabels /\ pc[u] \in SlotLabels /\ idx[t] = idx[u] => t = u

\* What the local variables of a thread hold, by label.
LocalInv ==
  \A t \in Threads :
    /\ block[t] # NoBlock <=> pc[t] \in BlockLabels
    /\ pc[t] = "popRead" => array[idx[t]] \in Blocks
    /\ pc[t] = "pushSet" => array[idx[t]] = block[t]
    /\ pc[t] = "claimStore" => reg[t] # 0

\* No two of the places where a block can be share a block.
DisjointInv ==
  /\ Bootstrap \subseteq bitmap
  /\ inUse \subseteq bitmap \ Bootstrap
  /\ \A i \in writtenMap : array[i] \in bitmap /\ array[i] \notin inUse \cup Bootstrap
  /\ \A i, j \in writtenMap : array[i] = array[j] => i = j
  /\ \A t \in Threads : HeldBy(t) # NoBlock =>
       /\ HeldBy(t) \in bitmap /\ HeldBy(t) \notin inUse \cup Bootstrap
       /\ \A i \in writtenMap : array[i] # HeldBy(t)
  /\ \A t, u \in Threads : HeldBy(t) = HeldBy(u) /\ HeldBy(t) # NoBlock => t = u

\* Every block whose bit is set is in one of those places.
CoverInv ==
  \A x \in bitmap :
    \/ x \in inUse \cup Bootstrap
    \/ \E i \in writtenMap : array[i] = x
    \/ \E t \in Threads : HeldBy(t) = x

IInv == TypeOK /\ SlotInv /\ LocalInv /\ DisjointInv /\ CoverInv

-----------------------------------------------------------------------------
\* The state that the constructor of PagingAreaManager leaves.
LEMMA InitInv == Init => IInv
<1> SUFFICES ASSUME Init PROVE IInv
  OBVIOUS
<1> USE PagingPoolAssumption
<1>1. TypeOK
  BY DEF Init, TypeOK, Blocks, Slots, Pooled, Labels, Faults
<1>2. SlotInv
  BY DEF Init, SlotInv, SlotLabels
<1>3. LocalInv
  BY DEF Init, LocalInv, BlockLabels
<1>4. DisjointInv
  BY DEF Init, DisjointInv, HeldBy, Bootstrap, Pooled, Slots
<1>5. CoverInv
  <2> SUFFICES ASSUME NEW x \in bitmap, x \notin Bootstrap PROVE \E i \in writtenMap : array[i] = x
    BY DEF CoverInv
  <2>1. x - BootstrapPages \in writtenMap /\ array[x - BootstrapPages] = x
    BY DEF Init, Slots, Pooled, Bootstrap
  <2> QED BY <2>1
<1> QED BY <1>1, <1>2, <1>3, <1>4, <1>5 DEF IInv
\* One step of a thread inside push(), pop(), allocateBlock() or freeBlock().
LEMMA StepInv == IInv /\ [Next]_vars => IInv'
<1> SUFFICES ASSUME IInv, [Next]_vars PROVE IInv'
  OBVIOUS
<1> USE PagingPoolAssumption
<1> USE DEF IInv, At, Goto, area, pool, registers
<1>1. ASSUME NEW t \in Threads, PopBegin(t) PROVE IInv'
  <2> USE <1>1 DEF PopBegin, ScanFrom0
  <2>0. \A u \in Threads : HeldBy(u)' = HeldBy(u)
    BY DEF TypeOK, SlotInv, LocalInv, HeldBy, SlotLabels, BlockLabels, Slots, Blocks
  <2>1. TypeOK'
    BY DEF TypeOK, SlotInv, SlotLabels, Labels, Faults, Blocks, Slots
  <2>2. SlotInv'
    BY DEF TypeOK, SlotInv, SlotLabels
  <2>3. LocalInv'
    BY DEF TypeOK, SlotInv, LocalInv, DisjointInv, SlotLabels, BlockLabels, Slots, Blocks
  <2>4. DisjointInv'
    BY <2>0 DEF DisjointInv
  <2>5. CoverInv'
    BY <2>0 DEF CoverInv
  <2> QED BY <2>1, <2>2, <2>3, <2>4, <2>5
<1>2. ASSUME NEW t \in Threads, PopHit(t) PROVE IInv'
  <2> USE <1>2 DEF PopHit
  <2>0. /\ \A u \in Threads : HeldBy(u)' = IF u = t THEN array[idx[t]] ELSE HeldBy(u)
        /\ HeldBy(t) = NoBlock
    BY DEF TypeOK, SlotInv, LocalInv, HeldBy, SlotLabels, BlockLabels, Slots, Blocks
  <2>1. TypeOK'
    BY DEF TypeOK, SlotInv, SlotLabels, Labels, Faults, Blocks, Slots
  <2>2. SlotInv'
    BY DEF TypeOK, SlotInv, SlotLabels
  <2>3. LocalInv'
    BY DEF TypeOK, SlotInv, LocalInv, DisjointInv, SlotLabels, BlockLabels, Slots, Blocks
  <2>4. DisjointInv'
    BY <2>0 DEF TypeOK, SlotInv, DisjointInv, SlotLabels
  <2>5. CoverInv'
    BY <2>0 DEF TypeOK, SlotInv, CoverInv, SlotLabels, Blocks
  <2> QED BY <2>1, <2>2, <2>3, <2>4, <2>5
<1>3. ASSUME NEW t \in Threads, PopMiss(t) PROVE IInv'
  <2> USE <1>3 DEF PopMiss, NextBit
  <2>0. \A u \in Threads : HeldBy(u)' = HeldBy(u)
    BY DEF TypeOK, SlotInv, LocalInv, HeldBy, SlotLabels, BlockLabels, Slots, Blocks
  <2>1. TypeOK'
    BY DEF TypeOK, SlotInv, SlotLabels, Labels, Faults, Blocks, Slots
  <2>2. SlotInv'
    BY DEF TypeOK, SlotInv, SlotLabels
  <2>3. LocalInv'
    BY DEF TypeOK, SlotInv, LocalInv, DisjointInv, SlotLabels, BlockLabels, Slots, Blocks
  <2>4. DisjointInv'
    BY <2>0 DEF DisjointInv
  <2>5. CoverInv'
    BY <2>0 DEF CoverInv
  <2> QED BY <2>1, <2>2, <2>3, <2>4, <2>5
<1>4. ASSUME NEW t \in Threads, PopNone(t) PROVE IInv'
  <2> USE <1>4 DEF PopNone, Throw
  <2>0. \A u \in Threads : HeldBy(u)' = HeldBy(u)
    BY DEF TypeOK, SlotInv, LocalInv, HeldBy, SlotLabels, BlockLabels, Slots, Blocks
  <2>1. TypeOK'
    BY DEF TypeOK, SlotInv, SlotLabels, Labels, Faults, Blocks, Slots
  <2>2. SlotInv'
    BY DEF TypeOK, SlotInv, SlotLabels
  <2>3. LocalInv'
    BY DEF TypeOK, SlotInv, LocalInv, DisjointInv, SlotLabels, BlockLabels, Slots, Blocks
  <2>4. DisjointInv'
    BY <2>0 DEF DisjointInv
  <2>5. CoverInv'
    BY <2>0 DEF CoverInv
  <2> QED BY <2>1, <2>2, <2>3, <2>4, <2>5
<1>5. ASSUME NEW t \in Threads, PopRead(t) PROVE IInv'
  <2> USE <1>5 DEF PopRead
  <2>0. \A u \in Threads : HeldBy(u)' = HeldBy(u)
    BY DEF TypeOK, SlotInv, LocalInv, HeldBy, SlotLabels, BlockLabels, Slots, Blocks
  <2>1. TypeOK'
    BY DEF TypeOK, SlotInv, SlotLabels, Labels, Faults, Blocks, Slots
  <2>2. SlotInv'
    BY DEF TypeOK, SlotInv, SlotLabels
  <2>3. LocalInv'
    BY DEF TypeOK, SlotInv, LocalInv, DisjointInv, SlotLabels, BlockLabels, Slots, Blocks
  <2>4. DisjointInv'
    BY <2>0 DEF DisjointInv
  <2>5. CoverInv'
    BY <2>0 DEF CoverInv
  <2> QED BY <2>1, <2>2, <2>3, <2>4, <2>5
<1>6. ASSUME NEW t \in Threads, PopFree(t) PROVE IInv'
  <2> USE <1>6 DEF PopFree, ScanFrom0
  <2>0. /\ \A u \in Threads : HeldBy(u)' = IF u = t THEN NoBlock ELSE HeldBy(u)
        /\ HeldBy(t) = block[t] /\ block[t] # NoBlock
    BY DEF TypeOK, SlotInv, LocalInv, HeldBy, SlotLabels, BlockLabels, Slots, Blocks
  <2>1. TypeOK'
    BY DEF TypeOK, LocalInv, BlockLabels, Labels, Faults, Blocks, Slots
  <2>2. SlotInv'
    BY DEF TypeOK, SlotInv, SlotLabels
  <2>3. LocalInv'
    BY DEF TypeOK, SlotInv, LocalInv, DisjointInv, SlotLabels, BlockLabels, Slots, Blocks
  <2>4. DisjointInv'
    BY <2>0 DEF TypeOK, SlotInv, DisjointInv, SlotLabels
  <2>5. CoverInv'
    BY <2>0 DEF TypeOK, SlotInv, CoverInv, SlotLabels
  <2> QED BY <2>1, <2>2, <2>3, <2>4, <2>5
<1>7. ASSUME NEW t \in Threads, FreeUnset(t) PROVE IInv'
  <2> USE <1>7 DEF FreeUnset
  <2>0. /\ \A u \in Threads : HeldBy(u)' = IF u = t THEN NoBlock ELSE HeldBy(u)
        /\ HeldBy(t) = block[t] /\ block[t] # NoBlock
    BY DEF TypeOK, SlotInv, LocalInv, HeldBy, SlotLabels, BlockLabels, Slots, Blocks
  <2>1. TypeOK'
    BY DEF TypeOK, SlotInv, SlotLabels, Labels, Faults, Blocks, Slots
  <2>2. SlotInv'
    BY DEF TypeOK, SlotInv, SlotLabels
  <2>3. LocalInv'
    BY DEF TypeOK, SlotInv, LocalInv, DisjointInv, SlotLabels, BlockLabels, Slots, Blocks
  <2>4. DisjointInv'
    BY <2>0 DEF TypeOK, SlotInv, DisjointInv, SlotLabels
  <2>5. CoverInv'
    BY <2>0 DEF TypeOK, SlotInv, CoverInv, SlotLabels
  <2> QED BY <2>1, <2>2, <2>3, <2>4, <2>5
<1>8. ASSUME NEW t \in Threads, FreeLoad(t) PROVE IInv'
  <2> USE <1>8 DEF FreeLoad
  <2>0. \A u \in Threads : HeldBy(u)' = HeldBy(u)
    BY DEF TypeOK, SlotInv, LocalInv, HeldBy, SlotLabels, BlockLabels, Slots, Blocks
  <2>1. TypeOK'
    BY DEF TypeOK, SlotInv, SlotLabels, Labels, Faults, Blocks, Slots
  <2>2. SlotInv'
    BY DEF TypeOK, SlotInv, SlotLabels
  <2>3. LocalInv'
    BY DEF TypeOK, SlotInv, LocalInv, DisjointInv, SlotLabels, BlockLabels, Slots, Blocks
  <2>4. DisjointInv'
    BY <2>0 DEF DisjointInv
  <2>5. CoverInv'
    BY <2>0 DEF CoverInv
  <2> QED BY <2>1, <2>2, <2>3, <2>4, <2>5
<1>9. ASSUME NEW t \in Threads, FreeStore(t) PROVE IInv'
  <2> USE <1>9 DEF FreeStore
  <2>0. \A u \in Threads : HeldBy(u)' = HeldBy(u)
    BY DEF TypeOK, SlotInv, LocalInv, HeldBy, SlotLabels, BlockLabels, Slots, Blocks
  <2>1. TypeOK'
    <3>1. reg[t] \in Nat /\ Word \in Nat \ {0}
      BY DEF TypeOK
    <3>2. freeMemory' \in 0..(Word - 1)
      BY <3>1
    <3>3. pc' \in [Threads -> Labels] /\ reg' \in [Threads -> 0..(Word - 1)]
      BY DEF TypeOK, Labels
    <3> QED BY <3>2, <3>3 DEF TypeOK
  <2>2. SlotInv'
    BY DEF TypeOK, SlotInv, SlotLabels
  <2>3. LocalInv'
    BY DEF TypeOK, SlotInv, LocalInv, DisjointInv, SlotLabels, BlockLabels, Slots, Blocks
  <2>4. DisjointInv'
    BY <2>0 DEF DisjointInv
  <2>5. CoverInv'
    BY <2>0 DEF CoverInv
  <2> QED BY <2>1, <2>2, <2>3, <2>4, <2>5
<1>10. ASSUME NEW t \in Threads, NEW b \in Blocks, FreeBegin(t, b) PROVE IInv'
  <2> USE <1>10 DEF FreeBegin
  <2>0. /\ \A u \in Threads : HeldBy(u)' = IF u = t THEN b ELSE HeldBy(u)
        /\ HeldBy(t) = NoBlock
    BY DEF TypeOK, SlotInv, LocalInv, HeldBy, SlotLabels, BlockLabels, Slots, Blocks
  <2>1. TypeOK'
    BY DEF TypeOK, SlotInv, SlotLabels, Labels, Faults, Blocks, Slots
  <2>2. SlotInv'
    BY DEF TypeOK, SlotInv, SlotLabels
  <2>3. LocalInv'
    BY DEF TypeOK, SlotInv, LocalInv, DisjointInv, SlotLabels, BlockLabels, Slots, Blocks
  <2>4. DisjointInv'
    BY <2>0 DEF TypeOK, SlotInv, DisjointInv, SlotLabels
  <2>5. CoverInv'
    BY <2>0 DEF TypeOK, CoverInv, Blocks
  <2> QED BY <2>1, <2>2, <2>3, <2>4, <2>5
<1>11. CASE RefillBegin
  <2> USE <1>11 DEF RefillBegin, ScanFrom0
  <2>0. \A u \in Threads : HeldBy(u)' = HeldBy(u)
    BY DEF TypeOK, SlotInv, LocalInv, HeldBy, SlotLabels, BlockLabels, Slots, Blocks
  <2>1. TypeOK'
    BY DEF TypeOK, SlotInv, SlotLabels, Labels, Faults, Blocks, Slots
  <2>2. SlotInv'
    BY DEF TypeOK, SlotInv, SlotLabels
  <2>3. LocalInv'
    BY DEF TypeOK, SlotInv, LocalInv, DisjointInv, SlotLabels, BlockLabels, Slots, Blocks
  <2>4. DisjointInv'
    BY <2>0 DEF DisjointInv
  <2>5. CoverInv'
    BY <2>0 DEF CoverInv
  <2> QED BY <2>1, <2>2, <2>3, <2>4, <2>5
<1>12. CASE CountSlot
  <2> USE <1>12 DEF CountSlot, NextBit
  <2>0. \A u \in Threads : HeldBy(u)' = HeldBy(u)
    BY DEF TypeOK, SlotInv, LocalInv, HeldBy, SlotLabels, BlockLabels, Slots, Blocks
  <2>1. TypeOK'
    BY DEF TypeOK, SlotInv, SlotLabels, Labels, Faults, Blocks, Slots
  <2>2. SlotInv'
    BY DEF TypeOK, SlotInv, SlotLabels
  <2>3. LocalInv'
    BY DEF TypeOK, SlotInv, LocalInv, DisjointInv, SlotLabels, BlockLabels, Slots, Blocks
  <2>4. DisjointInv'
    BY <2>0 DEF DisjointInv
  <2>5. CoverInv'
    BY <2>0 DEF CoverInv
  <2> QED BY <2>1, <2>2, <2>3, <2>4, <2>5
<1>13. CASE CountDone
  <2> USE <1>13 DEF CountDone, ScanFrom0
  <2>0. \A u \in Threads : HeldBy(u)' = HeldBy(u)
    BY DEF TypeOK, SlotInv, LocalInv, HeldBy, SlotLabels, BlockLabels, Slots, Blocks
  <2>1. TypeOK'
    BY DEF TypeOK, SlotInv, SlotLabels, Labels, Faults, Blocks, Slots
  <2>2. SlotInv'
    BY DEF TypeOK, SlotInv, SlotLabels
  <2>3. LocalInv'
    BY DEF TypeOK, SlotInv, LocalInv, DisjointInv, SlotLabels, BlockLabels, Slots, Blocks
  <2>4. DisjointInv'
    BY <2>0 DEF DisjointInv
  <2>5. CoverInv'
    BY <2>0 DEF CoverInv
  <2> QED BY <2>1, <2>2, <2>3, <2>4, <2>5
<1>14. CASE ClaimHit
  <2> USE <1>14 DEF ClaimHit
  <2>0. /\ \A u \in Threads : HeldBy(u)' = IF u = Refiller THEN idx[Refiller] ELSE HeldBy(u)
        /\ HeldBy(Refiller) = NoBlock
    BY DEF TypeOK, SlotInv, LocalInv, HeldBy, SlotLabels, BlockLabels, Slots, Blocks
  <2>1. TypeOK'
    BY DEF TypeOK, SlotInv, SlotLabels, Labels, Faults, Blocks, Slots
  <2>2. SlotInv'
    BY DEF TypeOK, SlotInv, SlotLabels
  <2>3. LocalInv'
    BY DEF TypeOK, SlotInv, LocalInv, DisjointInv, SlotLabels, BlockLabels, Slots, Blocks
  <2>4. DisjointInv'
    BY <2>0 DEF TypeOK, SlotInv, DisjointInv, SlotLabels
  <2>5. CoverInv'
    BY <2>0 DEF TypeOK, CoverInv, Blocks
  <2> QED BY <2>1, <2>2, <2>3, <2>4, <2>5
<1>15. CASE ClaimMiss
  <2> USE <1>15 DEF ClaimMiss, NextBit
  <2>0. \A u \in Threads : HeldBy(u)' = HeldBy(u)
    BY DEF TypeOK, SlotInv, LocalInv, HeldBy, SlotLabels, BlockLabels, Slots, Blocks
  <2>1. TypeOK'
    BY DEF TypeOK, SlotInv, SlotLabels, Labels, Faults, Blocks, Slots
  <2>2. SlotInv'
    BY DEF TypeOK, SlotInv, SlotLabels
  <2>3. LocalInv'
    BY DEF TypeOK, SlotInv, LocalInv, DisjointInv, SlotLabels, BlockLabels, Slots, Blocks
  <2>4. DisjointInv'
    BY <2>0 DEF DisjointInv
  <2>5. CoverInv'
    BY <2>0 DEF CoverInv
  <2> QED BY <2>1, <2>2, <2>3, <2>4, <2>5
<1>16. CASE ClaimNone
  <2> USE <1>16 DEF ClaimNone, Throw
  <2>0. \A u \in Threads : HeldBy(u)' = HeldBy(u)
    BY DEF TypeOK, SlotInv, LocalInv, HeldBy, SlotLabels, BlockLabels, Slots, Blocks
  <2>1. TypeOK'
    BY DEF TypeOK, SlotInv, SlotLabels, Labels, Faults, Blocks, Slots
  <2>2. SlotInv'
    BY DEF TypeOK, SlotInv, SlotLabels
  <2>3. LocalInv'
    BY DEF TypeOK, SlotInv, LocalInv, DisjointInv, SlotLabels, BlockLabels, Slots, Blocks
  <2>4. DisjointInv'
    BY <2>0 DEF DisjointInv
  <2>5. CoverInv'
    BY <2>0 DEF CoverInv
  <2> QED BY <2>1, <2>2, <2>3, <2>4, <2>5
<1>17. CASE ClaimLoad
  <2> USE <1>17 DEF ClaimLoad, Throw
  <2>0. \A u \in Threads : HeldBy(u)' = HeldBy(u)
    BY DEF TypeOK, SlotInv, LocalInv, HeldBy, SlotLabels, BlockLabels, Slots, Blocks
  <2>1. TypeOK'
    BY DEF TypeOK, SlotInv, SlotLabels, Labels, Faults, Blocks, Slots
  <2>2. SlotInv'
    BY DEF TypeOK, SlotInv, SlotLabels
  <2>3. LocalInv'
    BY DEF TypeOK, SlotInv, LocalInv, DisjointInv, SlotLabels, BlockLabels, Slots, Blocks
  <2>4. DisjointInv'
    BY <2>0 DEF DisjointInv
  <2>5. CoverInv'
    BY <2>0 DEF CoverInv
  <2> QED BY <2>1, <2>2, <2>3, <2>4, <2>5
<1>18. CASE ClaimStore
  <2> USE <1>18 DEF ClaimStore, ScanFrom0
  <2>0. \A u \in Threads : HeldBy(u)' = HeldBy(u)
    BY DEF TypeOK, SlotInv, LocalInv, HeldBy, SlotLabels, BlockLabels, Slots, Blocks
  <2>1. TypeOK'
    BY DEF TypeOK, LocalInv, Labels, Faults, Blocks, Slots
  <2>2. SlotInv'
    BY DEF TypeOK, SlotInv, SlotLabels
  <2>3. LocalInv'
    BY DEF TypeOK, SlotInv, LocalInv, DisjointInv, SlotLabels, BlockLabels, Slots, Blocks
  <2>4. DisjointInv'
    BY <2>0 DEF DisjointInv
  <2>5. CoverInv'
    BY <2>0 DEF CoverInv
  <2> QED BY <2>1, <2>2, <2>3, <2>4, <2>5
<1>19. CASE PushHit
  <2> USE <1>19 DEF PushHit
  <2>0. \A u \in Threads : HeldBy(u)' = HeldBy(u)
    BY DEF TypeOK, SlotInv, LocalInv, HeldBy, SlotLabels, BlockLabels, Slots, Blocks
  <2>1. TypeOK'
    BY DEF TypeOK, SlotInv, SlotLabels, Labels, Faults, Blocks, Slots
  <2>2. SlotInv'
    BY DEF TypeOK, SlotInv, SlotLabels
  <2>3. LocalInv'
    BY DEF TypeOK, SlotInv, LocalInv, DisjointInv, SlotLabels, BlockLabels, Slots, Blocks
  <2>4. DisjointInv'
    BY <2>0 DEF DisjointInv
  <2>5. CoverInv'
    BY <2>0 DEF CoverInv
  <2> QED BY <2>1, <2>2, <2>3, <2>4, <2>5
<1>20. CASE PushMiss
  <2> USE <1>20 DEF PushMiss, NextBit
  <2>0. \A u \in Threads : HeldBy(u)' = HeldBy(u)
    BY DEF TypeOK, SlotInv, LocalInv, HeldBy, SlotLabels, BlockLabels, Slots, Blocks
  <2>1. TypeOK'
    BY DEF TypeOK, SlotInv, SlotLabels, Labels, Faults, Blocks, Slots
  <2>2. SlotInv'
    BY DEF TypeOK, SlotInv, SlotLabels
  <2>3. LocalInv'
    BY DEF TypeOK, SlotInv, LocalInv, DisjointInv, SlotLabels, BlockLabels, Slots, Blocks
  <2>4. DisjointInv'
    BY <2>0 DEF DisjointInv
  <2>5. CoverInv'
    BY <2>0 DEF CoverInv
  <2> QED BY <2>1, <2>2, <2>3, <2>4, <2>5
<1>21. CASE PushNone
  <2> USE <1>21 DEF PushNone, ScanFrom0
  <2>0. \A u \in Threads : HeldBy(u)' = HeldBy(u)
    BY DEF TypeOK, SlotInv, LocalInv, HeldBy, SlotLabels, BlockLabels, Slots, Blocks
  <2>1. TypeOK'
    BY DEF TypeOK, SlotInv, SlotLabels, Labels, Faults, Blocks, Slots
  <2>2. SlotInv'
    BY DEF TypeOK, SlotInv, SlotLabels
  <2>3. LocalInv'
    BY DEF TypeOK, SlotInv, LocalInv, DisjointInv, SlotLabels, BlockLabels, Slots, Blocks
  <2>4. DisjointInv'
    BY <2>0 DEF DisjointInv
  <2>5. CoverInv'
    BY <2>0 DEF CoverInv
  <2> QED BY <2>1, <2>2, <2>3, <2>4, <2>5
<1>22. CASE PushWrite
  <2> USE <1>22 DEF PushWrite
  <2>0. \A u \in Threads : HeldBy(u)' = HeldBy(u)
    BY DEF TypeOK, SlotInv, LocalInv, HeldBy, SlotLabels, BlockLabels, Slots, Blocks
  <2>1. TypeOK'
    BY DEF TypeOK, SlotInv, SlotLabels, Labels, Faults, Blocks, Slots
  <2>2. SlotInv'
    BY DEF TypeOK, SlotInv, SlotLabels
  <2>3. LocalInv'
    BY DEF TypeOK, SlotInv, LocalInv, DisjointInv, SlotLabels, BlockLabels, Slots, Blocks
  <2>4. DisjointInv'
    BY <2>0 DEF TypeOK, SlotInv, DisjointInv, SlotLabels
  <2>5. CoverInv'
    BY <2>0 DEF TypeOK, SlotInv, CoverInv, SlotLabels
  <2> QED BY <2>1, <2>2, <2>3, <2>4, <2>5
<1>23. CASE PushSet
  <2> USE <1>23 DEF PushSet, ScanFrom0
  <2>0. /\ \A u \in Threads : HeldBy(u)' = IF u = Refiller THEN NoBlock ELSE HeldBy(u)
        /\ HeldBy(Refiller) = block[Refiller] /\ block[Refiller] # NoBlock
    BY DEF TypeOK, SlotInv, LocalInv, HeldBy, SlotLabels, BlockLabels, Slots, Blocks
  <2>1. TypeOK'
    <3>1. idx[Refiller] \in Slots /\ round + 1 \in Nat
      BY DEF TypeOK, SlotInv, SlotLabels
    <3>2. pc' \in [Threads -> Labels] /\ idx' \in [Threads -> Nat]
      BY DEF TypeOK, Labels
    <3> QED BY <3>1, <3>2 DEF TypeOK, Faults
  <2>2. SlotInv'
    BY DEF TypeOK, SlotInv, SlotLabels
  <2>3. LocalInv'
    BY DEF TypeOK, SlotInv, LocalInv, DisjointInv, SlotLabels, BlockLabels, Slots, Blocks
  <2>4. DisjointInv'
    BY <2>0 DEF TypeOK, SlotInv, LocalInv, DisjointInv, SlotLabels
  <2>5. CoverInv'
    BY <2>0 DEF TypeOK, SlotInv, LocalInv, CoverInv, SlotLabels
  <2> QED BY <2>1, <2>2, <2>3, <2>4, <2>5
<1>24. CASE UNCHANGED vars
  BY <1>24 DEF vars, TypeOK, SlotInv, LocalInv, DisjointInv, CoverInv, HeldBy
<1>25. ASSUME NEW t \in Threads, PopNoneUser(t) PROVE IInv'
  <2> USE <1>25 DEF PopNoneUser, ScanFrom0, Callers
  <2>0. \A u \in Threads : HeldBy(u)' = HeldBy(u)
    BY DEF TypeOK, SlotInv, LocalInv, HeldBy, SlotLabels, BlockLabels, Slots, Blocks
  <2>1. TypeOK'
    BY DEF TypeOK, SlotInv, SlotLabels, Labels, Faults, Blocks, Slots
  <2>2. SlotInv'
    BY DEF TypeOK, SlotInv, SlotLabels
  <2>3. LocalInv'
    BY DEF TypeOK, SlotInv, LocalInv, DisjointInv, SlotLabels, BlockLabels, Slots, Blocks
  <2>4. DisjointInv'
    BY <2>0 DEF DisjointInv
  <2>5. CoverInv'
    BY <2>0 DEF CoverInv
  <2> QED BY <2>1, <2>2, <2>3, <2>4, <2>5
<1>26. CASE PageFault
  <2> USE <1>26 DEF PageFault
  <2>0. \A u \in Threads : HeldBy(u)' = HeldBy(u)
    BY DEF TypeOK, SlotInv, LocalInv, HeldBy, SlotLabels, BlockLabels, Slots, Blocks
  <2>1. TypeOK'
    BY DEF TypeOK, SlotInv, SlotLabels, Labels, Faults, Blocks, Slots
  <2>2. SlotInv'
    BY DEF TypeOK, SlotInv, SlotLabels
  <2>3. LocalInv'
    BY DEF TypeOK, SlotInv, LocalInv, DisjointInv, SlotLabels, BlockLabels, Slots, Blocks
  <2>4. DisjointInv'
    BY <2>0 DEF DisjointInv
  <2>5. CoverInv'
    BY <2>0 DEF CoverInv
  <2> QED BY <2>1, <2>2, <2>3, <2>4, <2>5
<1>27. CASE Zeroed
  <2> USE <1>27 DEF Zeroed, ScanFrom0
  <2>0. \A u \in Threads : HeldBy(u)' = HeldBy(u)
    BY DEF TypeOK, SlotInv, LocalInv, HeldBy, SlotLabels, BlockLabels, Slots, Blocks
  <2>1. TypeOK'
    BY DEF TypeOK, SlotInv, SlotLabels, Labels, Faults, Blocks, Slots
  <2>2. SlotInv'
    BY DEF TypeOK, SlotInv, SlotLabels
  <2>3. LocalInv'
    BY DEF TypeOK, SlotInv, LocalInv, DisjointInv, SlotLabels, BlockLabels, Slots, Blocks
  <2>4. DisjointInv'
    BY <2>0 DEF DisjointInv
  <2>5. CoverInv'
    BY <2>0 DEF CoverInv
  <2> QED BY <2>1, <2>2, <2>3, <2>4, <2>5
<1>28. ASSUME NEW t \in Threads, Kill(t) PROVE IInv'
  <2> USE <1>28 DEF Kill, Callers
  <2>0. \A u \in Threads : HeldBy(u)' = HeldBy(u)
    BY DEF TypeOK, SlotInv, LocalInv, HeldBy, SlotLabels, BlockLabels, Slots, Blocks
  <2>1. TypeOK'
    BY DEF TypeOK, SlotInv, SlotLabels, Labels, Faults, Blocks, Slots
  <2>2. SlotInv'
    BY DEF TypeOK, SlotInv, SlotLabels
  <2>3. LocalInv'
    BY DEF TypeOK, SlotInv, LocalInv, DisjointInv, SlotLabels, BlockLabels, Slots, Blocks
  <2>4. DisjointInv'
    BY <2>0 DEF DisjointInv
  <2>5. CoverInv'
    BY <2>0 DEF CoverInv
  <2> QED BY <2>1, <2>2, <2>3, <2>4, <2>5
<1> QED
  BY <1>1, <1>2, <1>3, <1>4, <1>5, <1>6, <1>7, <1>8, <1>9, <1>10, <1>11, <1>12, <1>13, <1>14, <1>15, <1>16, <1>17, <1>18, <1>19, <1>20, <1>21, <1>22, <1>23, <1>24, <1>25, <1>26, <1>27, <1>28
  DEF Next, RefillStep, PopStep, FreeStep
-----------------------------------------------------------------------------
\* The concrete invariant is the abstract one under the refinement mapping.
LEMMA OneOwnerFromInv == IInv => OneOwner
<1> SUFFICES ASSUME IInv PROVE OneOwner
  OBVIOUS
<1> DEFINE H == Abstract!HeldBlocks
<1>1. H = {HeldBy(t) : t \in Threads} \ {NoBlock}
  BY DEF Abstract!HeldBlocks
<1> HIDE DEF H
<1>2. Bootstrap \subseteq Blocks
  BY PagingPoolAssumption DEF Bootstrap, Blocks
<1>3. Blocks = (Blocks \ bitmap) \cup {array[i] : i \in writtenMap} \cup inUse \cup H \cup Bootstrap
  <2>1. NoBlock \notin Blocks
    BY PagingPoolAssumption DEF Blocks
  <2>2. bitmap \subseteq {array[i] : i \in writtenMap} \cup inUse \cup H \cup Bootstrap
    BY <1>1, <2>1 DEF IInv, TypeOK, CoverInv
  <2>3. {array[i] : i \in writtenMap} \cup inUse \cup H \subseteq Blocks
    BY <1>1 DEF IInv, TypeOK, DisjointInv
  <2> QED BY <1>2, <2>2, <2>3
<1>4. (Blocks \ bitmap) \cap ({array[i] : i \in writtenMap} \cup inUse \cup H \cup Bootstrap) = {}
  BY <1>1 DEF IInv, DisjointInv
<1>5. /\ {array[i] : i \in writtenMap} \cap (inUse \cup H \cup Bootstrap) = {}
      /\ inUse \cap (H \cup Bootstrap) = {}
      /\ H \cap Bootstrap = {}
  BY <1>1 DEF IInv, DisjointInv
<1>6. \A t, u \in Threads : HeldBy(t) = HeldBy(u) /\ HeldBy(t) # NoBlock => t = u
  BY DEF IInv, DisjointInv
<1> QED BY <1>3, <1>4, <1>5, <1>6 DEF OneOwner, Abstract!OneOwner, H

\* The state behind the locals of the code is consistent at every step, which
\* neither OneOwner nor TypeOK says by itself.
THEOREM InvHolds == Spec => []IInv
<1>1. Init => IInv
  BY InitInv
<1>2. IInv /\ [Next]_vars => IInv'
  BY StepInv
<1> QED BY <1>1, <1>2, PTL DEF Spec

\* Pool and AtomicBitmap never hand out a page table twice and never lose one,
\* for any number of threads, blocks and slots.
THEOREM BlocksHaveOneOwner == Spec => []OneOwner
BY InvHolds, OneOwnerFromInv, PTL

\* The paging-area manager implements the abstract allocator.
THEOREM Refinement == Spec => ImplementsBlockPool
<1> USE PagingPoolAssumption
<1>1. Init => Abstract!Init
  <2> SUFFICES ASSUME Init PROVE Abstract!Init
    OBVIOUS
  <2>1. Blocks \ bitmap = Blocks \ (Bootstrap \cup Pooled)
    BY DEF Init, Blocks, Bootstrap, Pooled
  <2>2. {array[i] : i \in writtenMap} = Pooled
    <3>1. \A i \in writtenMap : array[i] = BootstrapPages + i /\ array[i] \in Pooled
      BY DEF Init, Slots
    <3>2. \A x \in Pooled : x - BootstrapPages \in writtenMap /\ array[x - BootstrapPages] = x
      BY DEF Init, Slots, Pooled
    <3> QED BY <3>1, <3>2
  <2>3. [t \in Threads |-> HeldBy(t)] = [t \in Threads |-> NoBlock]
    BY DEF Init, HeldBy
  <2> QED BY <2>1, <2>2, <2>3 DEF Abstract!Init, Init
<1>2. IInv /\ [Next]_vars => [Abstract!Next]_(Abstract!poolVars)
  <2> SUFFICES ASSUME IInv, [Next]_vars PROVE [Abstract!Next]_(Abstract!poolVars)
    OBVIOUS
  <2> DEFINE Pool == {array[i] : i \in writtenMap}
             Held == [t \in Threads |-> HeldBy(t)]
  <2> USE DEF IInv, At, Goto, area, pool, registers
  <2>1. ASSUME NEW t \in Threads, PopBegin(t) PROVE UNCHANGED Abstract!poolVars
    <3> USE <2>1 DEF PopBegin, ScanFrom0
    <3>1. Held' = Held
      BY DEF TypeOK, SlotInv, LocalInv, HeldBy, SlotLabels, BlockLabels
    <3>2. Pool' = Pool
      BY DEF TypeOK, SlotInv, SlotLabels
    <3> QED BY <3>1, <3>2 DEF Abstract!poolVars
  <2>2. ASSUME NEW t \in Threads, PopHit(t) PROVE Abstract!Take(t)
    <3> USE <2>2 DEF PopHit
    <3>1. Held[t] = NoBlock /\ Held' = [Held EXCEPT ![t] = array[idx[t]]]
      BY DEF TypeOK, SlotInv, LocalInv, HeldBy, SlotLabels, BlockLabels
    <3>2. Pool' = Pool \ {array[idx[t]]}
      BY DEF TypeOK, DisjointInv
    <3>3. (Blocks \ bitmap)' = Blocks \ bitmap
      BY DEF Blocks
    <3> QED BY <3>1, <3>2, <3>3 DEF Abstract!Take, Abstract!PickUp
  <2>3. ASSUME NEW t \in Threads, PopMiss(t) PROVE UNCHANGED Abstract!poolVars
    <3> USE <2>3 DEF PopMiss, NextBit
    <3>1. Held' = Held
      BY DEF TypeOK, SlotInv, LocalInv, HeldBy, SlotLabels, BlockLabels
    <3>2. Pool' = Pool
      BY DEF TypeOK, SlotInv, SlotLabels
    <3> QED BY <3>1, <3>2 DEF Abstract!poolVars
  <2>4. ASSUME NEW t \in Threads, PopNone(t) PROVE UNCHANGED Abstract!poolVars
    <3> USE <2>4 DEF PopNone, Throw
    <3>1. Held' = Held
      BY DEF TypeOK, SlotInv, LocalInv, HeldBy, SlotLabels, BlockLabels
    <3>2. Pool' = Pool
      BY DEF TypeOK, SlotInv, SlotLabels
    <3> QED BY <3>1, <3>2 DEF Abstract!poolVars
  <2>5. ASSUME NEW t \in Threads, PopRead(t) PROVE UNCHANGED Abstract!poolVars
    <3> USE <2>5 DEF PopRead
    <3>1. Held' = Held
      BY DEF TypeOK, SlotInv, LocalInv, HeldBy, SlotLabels, BlockLabels
    <3>2. Pool' = Pool
      BY DEF TypeOK, SlotInv, SlotLabels
    <3> QED BY <3>1, <3>2 DEF Abstract!poolVars
  <2>6. ASSUME NEW t \in Threads, PopFree(t) PROVE Abstract!HandOut(t)
    <3> USE <2>6 DEF PopFree, ScanFrom0
    <3>1. /\ Held[t] = block[t] /\ block[t] # NoBlock
          /\ Held' = [Held EXCEPT ![t] = NoBlock]
      BY DEF TypeOK, SlotInv, LocalInv, HeldBy, SlotLabels, BlockLabels
    <3>2. Pool' = Pool
      BY DEF TypeOK, SlotInv, LocalInv, SlotLabels
    <3>3. (Blocks \ bitmap)' = Blocks \ bitmap
      BY DEF TypeOK, Blocks
    <3> QED BY <3>1, <3>2, <3>3 DEF Abstract!HandOut, Abstract!PutDown
  <2>7. ASSUME NEW t \in Threads, FreeUnset(t) PROVE Abstract!Release(t)
    <3> USE <2>7 DEF FreeUnset
    <3>1. /\ Held[t] = block[t] /\ block[t] # NoBlock
          /\ Held' = [Held EXCEPT ![t] = NoBlock]
      BY DEF TypeOK, SlotInv, LocalInv, HeldBy, SlotLabels, BlockLabels
    <3>2. Pool' = Pool
      BY DEF TypeOK, SlotInv, LocalInv, SlotLabels
    <3>3. (Blocks \ bitmap)' = (Blocks \ bitmap) \cup {block[t]}
      BY <3>1 DEF TypeOK, Blocks
    <3> QED BY <3>1, <3>2, <3>3 DEF Abstract!Release, Abstract!PutDown
  <2>8. ASSUME NEW t \in Threads, FreeLoad(t) PROVE UNCHANGED Abstract!poolVars
    <3> USE <2>8 DEF FreeLoad
    <3>1. Held' = Held
      BY DEF TypeOK, SlotInv, LocalInv, HeldBy, SlotLabels, BlockLabels
    <3>2. Pool' = Pool
      BY DEF TypeOK, SlotInv, SlotLabels
    <3> QED BY <3>1, <3>2 DEF Abstract!poolVars
  <2>9. ASSUME NEW t \in Threads, FreeStore(t) PROVE UNCHANGED Abstract!poolVars
    <3> USE <2>9 DEF FreeStore
    <3>1. Held' = Held
      BY DEF TypeOK, SlotInv, LocalInv, HeldBy, SlotLabels, BlockLabels
    <3>2. Pool' = Pool
      BY DEF TypeOK, SlotInv, SlotLabels
    <3> QED BY <3>1, <3>2 DEF Abstract!poolVars
  <2>10. ASSUME NEW t \in Threads, NEW b \in Blocks, FreeBegin(t, b) PROVE Abstract!Return(t)
    <3> USE <2>10 DEF FreeBegin
    <3>1. Held[t] = NoBlock /\ Held' = [Held EXCEPT ![t] = b]
      BY DEF TypeOK, SlotInv, LocalInv, HeldBy, SlotLabels, BlockLabels
    <3>2. Pool' = Pool
      BY DEF TypeOK, DisjointInv
    <3>3. (Blocks \ bitmap)' = Blocks \ bitmap
      BY DEF Blocks
    <3> QED BY <3>1, <3>2, <3>3 DEF Abstract!Return, Abstract!PickUp
  <2>11. ASSUME RefillBegin PROVE UNCHANGED Abstract!poolVars
    <3> USE <2>11 DEF RefillBegin, ScanFrom0
    <3>1. Held' = Held
      BY DEF TypeOK, SlotInv, LocalInv, HeldBy, SlotLabels, BlockLabels
    <3>2. Pool' = Pool
      BY DEF TypeOK, SlotInv, SlotLabels
    <3> QED BY <3>1, <3>2 DEF Abstract!poolVars
  <2>12. ASSUME CountSlot PROVE UNCHANGED Abstract!poolVars
    <3> USE <2>12 DEF CountSlot, NextBit
    <3>1. Held' = Held
      BY DEF TypeOK, SlotInv, LocalInv, HeldBy, SlotLabels, BlockLabels
    <3>2. Pool' = Pool
      BY DEF TypeOK, SlotInv, SlotLabels
    <3> QED BY <3>1, <3>2 DEF Abstract!poolVars
  <2>13. ASSUME CountDone PROVE UNCHANGED Abstract!poolVars
    <3> USE <2>13 DEF CountDone, ScanFrom0
    <3>1. Held' = Held
      BY DEF TypeOK, SlotInv, LocalInv, HeldBy, SlotLabels, BlockLabels
    <3>2. Pool' = Pool
      BY DEF TypeOK, SlotInv, SlotLabels
    <3> QED BY <3>1, <3>2 DEF Abstract!poolVars
  <2>14. ASSUME ClaimHit PROVE Abstract!Claim(Refiller)
    <3> USE <2>14 DEF ClaimHit
    <3>1. Held[Refiller] = NoBlock /\ Held' = [Held EXCEPT ![Refiller] = idx[Refiller]]
      BY DEF TypeOK, SlotInv, LocalInv, HeldBy, SlotLabels, BlockLabels
    <3>2. Pool' = Pool
      BY DEF TypeOK, DisjointInv
    <3>3. (Blocks \ bitmap)' = (Blocks \ bitmap) \ {idx[Refiller]}
      BY DEF Blocks
    <3> QED BY <3>1, <3>2, <3>3 DEF Abstract!Claim, Abstract!PickUp
  <2>15. ASSUME ClaimMiss PROVE UNCHANGED Abstract!poolVars
    <3> USE <2>15 DEF ClaimMiss, NextBit
    <3>1. Held' = Held
      BY DEF TypeOK, SlotInv, LocalInv, HeldBy, SlotLabels, BlockLabels
    <3>2. Pool' = Pool
      BY DEF TypeOK, SlotInv, SlotLabels
    <3> QED BY <3>1, <3>2 DEF Abstract!poolVars
  <2>16. ASSUME ClaimNone PROVE UNCHANGED Abstract!poolVars
    <3> USE <2>16 DEF ClaimNone, Throw
    <3>1. Held' = Held
      BY DEF TypeOK, SlotInv, LocalInv, HeldBy, SlotLabels, BlockLabels
    <3>2. Pool' = Pool
      BY DEF TypeOK, SlotInv, SlotLabels
    <3> QED BY <3>1, <3>2 DEF Abstract!poolVars
  <2>17. ASSUME ClaimLoad PROVE UNCHANGED Abstract!poolVars
    <3> USE <2>17 DEF ClaimLoad, Throw
    <3>1. Held' = Held
      BY DEF TypeOK, SlotInv, LocalInv, HeldBy, SlotLabels, BlockLabels
    <3>2. Pool' = Pool
      BY DEF TypeOK, SlotInv, SlotLabels
    <3> QED BY <3>1, <3>2 DEF Abstract!poolVars
  <2>18. ASSUME ClaimStore PROVE UNCHANGED Abstract!poolVars
    <3> USE <2>18 DEF ClaimStore, ScanFrom0
    <3>1. Held' = Held
      BY DEF TypeOK, SlotInv, LocalInv, HeldBy, SlotLabels, BlockLabels
    <3>2. Pool' = Pool
      BY DEF TypeOK, SlotInv, SlotLabels
    <3> QED BY <3>1, <3>2 DEF Abstract!poolVars
  <2>19. ASSUME PushHit PROVE UNCHANGED Abstract!poolVars
    <3> USE <2>19 DEF PushHit
    <3>1. Held' = Held
      BY DEF TypeOK, SlotInv, LocalInv, HeldBy, SlotLabels, BlockLabels
    <3>2. Pool' = Pool
      BY DEF TypeOK, SlotInv, SlotLabels
    <3> QED BY <3>1, <3>2 DEF Abstract!poolVars
  <2>20. ASSUME PushMiss PROVE UNCHANGED Abstract!poolVars
    <3> USE <2>20 DEF PushMiss, NextBit
    <3>1. Held' = Held
      BY DEF TypeOK, SlotInv, LocalInv, HeldBy, SlotLabels, BlockLabels
    <3>2. Pool' = Pool
      BY DEF TypeOK, SlotInv, SlotLabels
    <3> QED BY <3>1, <3>2 DEF Abstract!poolVars
  <2>21. ASSUME PushNone PROVE UNCHANGED Abstract!poolVars
    <3> USE <2>21 DEF PushNone, ScanFrom0
    <3>1. Held' = Held
      BY DEF TypeOK, SlotInv, LocalInv, HeldBy, SlotLabels, BlockLabels
    <3>2. Pool' = Pool
      BY DEF TypeOK, SlotInv, SlotLabels
    <3> QED BY <3>1, <3>2 DEF Abstract!poolVars
  <2>22. ASSUME PushWrite PROVE UNCHANGED Abstract!poolVars
    <3> USE <2>22 DEF PushWrite
    <3>1. Held' = Held
      BY DEF TypeOK, SlotInv, LocalInv, HeldBy, SlotLabels, BlockLabels
    <3>2. Pool' = Pool
      BY DEF TypeOK, SlotInv, SlotLabels
    <3> QED BY <3>1, <3>2 DEF Abstract!poolVars
  <2>23. ASSUME PushSet PROVE Abstract!Put(Refiller)
    <3> USE <2>23 DEF PushSet, ScanFrom0
    <3>1. /\ Held[Refiller] = block[Refiller] /\ block[Refiller] # NoBlock
          /\ Held' = [Held EXCEPT ![Refiller] = NoBlock]
      BY DEF TypeOK, SlotInv, LocalInv, HeldBy, SlotLabels, BlockLabels
    <3>2. Pool' = Pool \cup {block[Refiller]}
      BY DEF TypeOK, SlotInv, LocalInv, SlotLabels
    <3>3. (Blocks \ bitmap)' = Blocks \ bitmap
      BY DEF TypeOK, Blocks
    <3> QED BY <3>1, <3>2, <3>3 DEF Abstract!Put, Abstract!PutDown
  <2>24. CASE UNCHANGED vars
    BY <2>24 DEF vars, Abstract!poolVars, HeldBy
  <2>25. ASSUME NEW t \in Threads, PopNoneUser(t) PROVE UNCHANGED Abstract!poolVars
    <3> USE <2>25 DEF PopNoneUser, ScanFrom0
    <3>1. Held' = Held
      BY DEF TypeOK, SlotInv, LocalInv, HeldBy, SlotLabels, BlockLabels
    <3>2. Pool' = Pool
      BY DEF TypeOK, SlotInv, SlotLabels
    <3> QED BY <3>1, <3>2 DEF Abstract!poolVars
  <2>26. ASSUME PageFault PROVE UNCHANGED Abstract!poolVars
    <3> USE <2>26 DEF PageFault
    <3>1. Held' = Held
      BY DEF TypeOK, SlotInv, LocalInv, HeldBy, SlotLabels, BlockLabels
    <3>2. Pool' = Pool
      BY DEF TypeOK, SlotInv, SlotLabels
    <3> QED BY <3>1, <3>2 DEF Abstract!poolVars
  <2>27. ASSUME Zeroed PROVE UNCHANGED Abstract!poolVars
    <3> USE <2>27 DEF Zeroed, ScanFrom0
    <3>1. Held' = Held
      BY DEF TypeOK, SlotInv, LocalInv, HeldBy, SlotLabels, BlockLabels
    <3>2. Pool' = Pool
      BY DEF TypeOK, SlotInv, SlotLabels
    <3> QED BY <3>1, <3>2 DEF Abstract!poolVars
  <2>28. ASSUME NEW t \in Threads, Kill(t) PROVE UNCHANGED Abstract!poolVars
    <3> USE <2>28 DEF Kill
    <3>1. Held' = Held
      BY DEF TypeOK, SlotInv, LocalInv, HeldBy, SlotLabels, BlockLabels
    <3>2. Pool' = Pool
      BY DEF TypeOK, SlotInv, SlotLabels
    <3> QED BY <3>1, <3>2 DEF Abstract!poolVars
  <2> QED
    BY <2>1, <2>2, <2>3, <2>4, <2>5, <2>6, <2>7, <2>8, <2>9, <2>10, <2>11, <2>12, <2>13, <2>14, <2>15, <2>16, <2>17, <2>18, <2>19, <2>20, <2>21, <2>22, <2>23, <2>24, <2>25, <2>26, <2>27, <2>28
    DEF Next, RefillStep, PopStep, FreeStep, Abstract!Next
<1>3. Spec => []IInv
  BY InvHolds
<1> QED BY <1>1, <1>2, <1>3, PTL DEF Spec, ImplementsBlockPool, Abstract!Spec

-----------------------------------------------------------------------------
\* The other direction of SlotInv: a slot whose two bits differ has an owner.
OwnerInv == \A i \in allocatedMap \ writtenMap : \E t \in Threads : pc[t] \in SlotLabels /\ idx[t] = i

\* A step after which the owner of a half-open slot is still its owner.
LEMMA OwnersStay ==
  ASSUME OwnerInv,
         (allocatedMap \ writtenMap)' \subseteq allocatedMap \ writtenMap,
         \A t \in Threads : pc[t] \in SlotLabels /\ idx[t] \in (allocatedMap \ writtenMap)'
                              => pc'[t] \in SlotLabels /\ idx'[t] = idx[t]
  PROVE  OwnerInv'
BY DEF OwnerInv

\* A bit that is set or reset first makes its thread the owner, and a slot
\* gets out of its owner's hands only with the second bit.
LEMMA OwnerStep == IInv /\ OwnerInv /\ [Next]_vars => OwnerInv'
<1> SUFFICES ASSUME IInv, OwnerInv, [Next]_vars PROVE OwnerInv'
  OBVIOUS
<1> USE PagingPoolAssumption DEF IInv, At, Goto, ScanFrom0, NextBit, Throw, pool, registers
<1>1. ASSUME NEW t \in Threads, PopHit(t) PROVE OwnerInv'
  <2>1. pc'[t] \in SlotLabels /\ idx'[t] = idx[t]
    BY <1>1 DEF PopHit, TypeOK, SlotLabels
  <2>2. \A u \in Threads : pc[u] \in SlotLabels => pc'[u] \in SlotLabels /\ idx'[u] = idx[u]
    BY <1>1 DEF PopHit, TypeOK, SlotLabels
  <2>3. (allocatedMap \ writtenMap)' \subseteq (allocatedMap \ writtenMap) \cup {idx[t]}
    BY <1>1 DEF PopHit
  <2> QED BY <2>1, <2>2, <2>3 DEF OwnerInv
<1>2. ASSUME PushHit PROVE OwnerInv'
  <2>1. pc'[Refiller] \in SlotLabels /\ idx'[Refiller] = idx[Refiller]
    BY <1>2 DEF PushHit, TypeOK, SlotLabels
  <2>2. \A u \in Threads : pc[u] \in SlotLabels => pc'[u] \in SlotLabels /\ idx'[u] = idx[u]
    BY <1>2 DEF PushHit, TypeOK, SlotLabels
  <2>3. (allocatedMap \ writtenMap)' \subseteq (allocatedMap \ writtenMap) \cup {idx[Refiller]}
    BY <1>2 DEF PushHit
  <2> QED BY <2>1, <2>2, <2>3 DEF OwnerInv
<1>3. ASSUME NEW t \in Threads, PopFree(t) PROVE OwnerInv'
  <2>1. (allocatedMap \ writtenMap)' = (allocatedMap \ writtenMap) \ {idx[t]}
    BY <1>3 DEF PopFree
  <2>2. \A u \in Threads : u # t => pc'[u] = pc[u] /\ idx'[u] = idx[u]
    BY <1>3 DEF PopFree, TypeOK
  <2> QED BY <2>1, <2>2, OwnersStay
<1>4. ASSUME PushSet PROVE OwnerInv'
  <2>1. (allocatedMap \ writtenMap)' = (allocatedMap \ writtenMap) \ {idx[Refiller]}
    BY <1>4 DEF PushSet
  <2>2. \A u \in Threads : u # Refiller => pc'[u] = pc[u] /\ idx'[u] = idx[u]
    BY <1>4 DEF PushSet, TypeOK
  <2> QED BY <2>1, <2>2, OwnersStay
<1>5. ASSUME NEW t \in Threads,
             \/ PopBegin(t) \/ PopMiss(t) \/ PopNone(t) \/ PopNoneUser(t) \/ PopRead(t)
             \/ FreeStep(t) \/ Kill(t)
             \/ \E b \in Blocks : FreeBegin(t, b)
      PROVE  OwnerInv'
  <2>1. UNCHANGED <<allocatedMap, writtenMap>>
    BY <1>5 DEF PopBegin, PopMiss, PopNone, PopNoneUser, PopRead, FreeStep, FreeUnset, FreeLoad, FreeStore,
           FreeBegin, Kill
  <2>2. \A u \in Threads : pc[u] \in SlotLabels => pc'[u] \in SlotLabels /\ idx'[u] = idx[u]
    BY <1>5 DEF PopBegin, PopMiss, PopNone, PopNoneUser, PopRead, FreeStep, FreeUnset, FreeLoad, FreeStore,
           FreeBegin, Kill, TypeOK, SlotLabels
  <2> QED BY <2>1, <2>2, OwnersStay
<1>6. ASSUME \/ RefillBegin \/ CountSlot \/ CountDone \/ ClaimHit \/ ClaimMiss \/ ClaimNone
             \/ ClaimLoad \/ ClaimStore \/ PageFault \/ Zeroed \/ PushMiss \/ PushNone \/ PushWrite
      PROVE  OwnerInv'
  <2> USE DEF RefillBegin, CountSlot, CountDone, ClaimHit, ClaimMiss, ClaimNone, ClaimLoad, ClaimStore,
             PageFault, Zeroed, PushMiss, PushNone, PushWrite
  <2>1. UNCHANGED <<allocatedMap, writtenMap>>
    BY <1>6
  <2>2. \A u \in Threads : pc[u] \in SlotLabels => pc'[u] \in SlotLabels /\ idx'[u] = idx[u]
    BY <1>6 DEF TypeOK, SlotLabels
  <2> QED BY <2>1, <2>2, OwnersStay
<1>7. CASE UNCHANGED vars
  BY <1>7 DEF vars, OwnerInv
<1> QED BY <1>1, <1>2, <1>3, <1>4, <1>5, <1>6, <1>7 DEF Next, RefillStep, PopStep

\* A slot whose two bits differ belongs to exactly one thread inside push() or
\* pop(), and a slot whose bits agree to none (Pool::push(), Pool::pop()).
THEOREM SlotsAreOwned == Spec => []SlotOwned
<1>1. Init => OwnerInv
  BY DEF Init, OwnerInv
<1>2. IInv /\ OwnerInv => SlotOwned
  <2> SUFFICES ASSUME IInv, OwnerInv, NEW i \in Slots
               PROVE  Cardinality({t \in Threads : pc[t] \in SlotLabels /\ idx[t] = i})
                        = IF i \in allocatedMap \ writtenMap THEN 1 ELSE 0
    BY DEF SlotOwned, SlotLabels
  <2> DEFINE owners == {t \in Threads : pc[t] \in SlotLabels /\ idx[t] = i}
  <2>1. CASE i \in allocatedMap \ writtenMap
    <3>1. PICK t \in Threads : pc[t] \in SlotLabels /\ idx[t] = i
      BY <2>1 DEF OwnerInv
    <3>2. owners = {t}
      BY <3>1 DEF IInv, SlotInv
    <3> QED BY <2>1, <3>2, FS_Singleton
  <2>2. CASE i \notin allocatedMap \ writtenMap
    <3>1. owners = {}
      BY <2>2 DEF IInv, SlotInv
    <3> QED BY <2>2, <3>1, FS_EmptySet
  <2> QED BY <2>1, <2>2
<1>3. Spec => [](IInv /\ OwnerInv)
  BY <1>1, InitInv, StepInv, OwnerStep, PTL DEF Spec
<1> QED BY <1>2, <1>3, PTL

\* Types; the counter of free blocks stays in range although its updates may
\* get lost (BitmapMemoryManager::allocateBlock()).
THEOREM TypeCorrect == Spec => []TypeOK
<1>1. IInv => TypeOK
  BY DEF IInv
<1> QED BY <1>1, InvHolds, PTL
=============================================================================
