----------------------------- MODULE PagingPool -----------------------------
(***************************************************************************)
(* The allocator of page tables: PagingAreaManager hands out blocks from a *)
(* lock-free Pool, which the thread "Paging-Area-Pool-Refiller" fills from *)
(* a BitmapMemoryManager; both rest on AtomicBitmap.                       *)
(*                                                                         *)
(* Nothing here takes a lock.  One step of a thread is one atomic bit      *)
(* operation (Atomic::bitTestAndSet, ...), one load or one store; another  *)
(* thread may run after each of them.                                      *)
(***************************************************************************)
EXTENDS Integers, FiniteSets

CONSTANTS
  Threads,
  Refiller,         \* the thread that runs refillPool()
  Handler,          \* its page faults: the handler runs on its stack
  BlockCount,       \* blocks of the paging area (4096)
  PoolSize,         \* slots of the pool (BLOCK_POOL_SIZE, 128)
  BootstrapPages,   \* page tables that the boot code has already used
  MappedPages,      \* blocks that are mapped at boot (96)
  Word,             \* number of values of the counter freeMemory
  NoBlock

ASSUME PagingPoolAssumption ==
  /\ Refiller \in Threads /\ Handler \in Threads \ {Refiller}
  /\ BlockCount \in Nat /\ PoolSize \in Nat /\ BootstrapPages \in Nat /\ MappedPages \in Nat
  /\ BootstrapPages <= MappedPages /\ MappedPages <= BlockCount
  /\ MappedPages - BootstrapPages <= PoolSize
  /\ Word \in Nat /\ BlockCount < Word
  /\ NoBlock \notin 0..(BlockCount - 1)

VARIABLES
  bitmap,         \* BitmapMemoryManager::bitmap, as the set of its set bits
  freeMemory,     \* BitmapMemoryManager::freeMemory, in blocks
  array,          \* Pool::array
  allocatedMap,   \* Pool::allocatedMap
  writtenMap,     \* Pool::writtenMap
  inUse,          \* the blocks that are page tables
  pc,             \* the next step of each thread
  idx,            \* the loop index or the result of its bitmap scan
  block,          \* the block it moves, or NoBlock
  reg,            \* the copy of freeMemory in its register
  degree,         \* the refiller's local variables: degree ...
  round,          \* ... and i
  killed,         \* threads that were killed inside pop() or freeBlock()
  fault           \* the exception that halted the kernel, or "none"

area == <<bitmap, freeMemory>>
pool == <<array, allocatedMap, writtenMap>>
registers == <<idx, block, reg, degree, round>>
vars == <<bitmap, freeMemory, array, allocatedMap, writtenMap, inUse, pc, idx, block, reg,
          degree, round, killed, fault>>

Blocks == 0..(BlockCount - 1)
Slots == 0..(PoolSize - 1)
Bootstrap == 0..(BootstrapPages - 1)
Pooled == BootstrapPages..(MappedPages - 1)

Labels == {"idle", "popTest", "popRead", "popFree",
           "degree", "claimTest", "claimLoad", "claimStore", "zero", "mapped",
           "pushTest", "pushWrite", "pushSet",
           "freeUnset", "freeLoad", "freeStore"}

Faults == {"none", "OutOfObjects", "OutOfPagingMemory", "Underflow"}

TypeOK ==
  /\ bitmap \subseteq Blocks
  /\ freeMemory \in 0..(Word - 1)
  /\ array \in [Slots -> Blocks \cup {NoBlock}]
  /\ allocatedMap \subseteq Slots /\ writtenMap \subseteq Slots
  /\ inUse \subseteq Blocks
  /\ pc \in [Threads -> Labels]
  /\ idx \in [Threads -> Nat]
  /\ block \in [Threads -> Blocks \cup {NoBlock}]
  /\ reg \in [Threads -> 0..(Word - 1)]
  /\ degree \in Nat /\ round \in Nat
  /\ killed \subseteq Threads
  /\ fault \in Faults

-----------------------------------------------------------------------------
\* The constructor marks the bootstrap blocks and fills the pool.
Init ==
  /\ bitmap = 0..(MappedPages - 1)
  /\ freeMemory = BlockCount - MappedPages
  /\ array = [i \in Slots |-> IF BootstrapPages + i \in Pooled THEN BootstrapPages + i
                                                              ELSE NoBlock]
  /\ allocatedMap = {i \in Slots : BootstrapPages + i \in Pooled}
  /\ writtenMap = {i \in Slots : BootstrapPages + i \in Pooled}
  /\ inUse = {}
  /\ pc = [t \in Threads |-> "idle"]
  /\ idx = [t \in Threads |-> 0]
  /\ block = [t \in Threads |-> NoBlock]
  /\ reg = [t \in Threads |-> 0]
  /\ degree = 0 /\ round = 0
  /\ killed = {}
  /\ fault = "none"

At(t, l) == fault = "none" /\ t \notin killed /\ pc[t] = l

Goto(t, l) == pc' = [pc EXCEPT ![t] = l]

\* Continue at label l with a bitmap scan from its first bit.
ScanFrom0(t, l) == Goto(t, l) /\ idx' = [idx EXCEPT ![t] = 0]

\* The scan goes on with the next bit.
NextBit(t) == idx' = [idx EXCEPT ![t] = @ + 1]

\* throwError() in a thread of the kernel process halts the machine.
Throw(e) == fault' = e

\* Threads but the refiller, whose place another thread takes when they end.
Callers == Threads \ {Refiller, Handler}

-----------------------------------------------------------------------------
(***************************************************************************)
(* allocateBlock(): Pool::pop().                                           *)
(***************************************************************************)

PopBegin(t) ==
  /\ At(t, "idle") /\ t \in Callers
  /\ ScanFrom0(t, "popTest")
  /\ UNCHANGED <<area, pool, inUse, block, reg, degree, round, fault, killed>>

\* writtenMap.findAndUnset() tests and resets one bit after the other: it
\* finds one that is set ...
PopHit(t) ==
  /\ At(t, "popTest")
  /\ idx[t] \in writtenMap
  /\ writtenMap' = writtenMap \ {idx[t]}
  /\ Goto(t, "popRead")
  /\ UNCHANGED <<area, array, allocatedMap, inUse, registers, fault, killed>>

\* ... or one that is not ...
PopMiss(t) ==
  /\ At(t, "popTest")
  /\ idx[t] < PoolSize /\ idx[t] \notin writtenMap
  /\ NextBit(t)
  /\ UNCHANGED <<area, pool, inUse, pc, block, reg, degree, round, fault, killed>>

\* ... or none at all: an exception.  In a user process it ends only that
\* process, and with it the thread, which holds nothing yet.
PopNone(t) ==
  /\ At(t, "popTest")
  /\ idx[t] = PoolSize
  /\ Throw("OutOfObjects")
  /\ UNCHANGED <<area, pool, inUse, pc, registers, killed>>

PopNoneUser(t) ==
  /\ At(t, "popTest") /\ t \in Callers
  /\ idx[t] = PoolSize
  /\ ScanFrom0(t, "idle")
  /\ UNCHANGED <<area, pool, inUse, block, reg, degree, round, fault, killed>>

\* Fault: the slot is given back before its element has been read.
PopRead_Early(t) ==
  /\ At(t, "popRead")
  /\ allocatedMap' = allocatedMap \ {idx[t]}
  /\ block' = [block EXCEPT ![t] = array[idx[t]]]
  /\ Goto(t, "popFree")
  /\ UNCHANGED <<area, array, writtenMap, inUse, idx, reg, degree, round, fault, killed>>

PopRead(t) ==
  /\ At(t, "popRead")
  /\ block' = [block EXCEPT ![t] = array[idx[t]]]
  /\ Goto(t, "popFree")
  /\ UNCHANGED <<area, pool, inUse, idx, reg, degree, round, fault, killed>>

\* Fault: the slot is not given back.
PopFree_KeepSlot(t) ==
  /\ At(t, "popFree")
  /\ inUse' = inUse \cup {block[t]}
  /\ block' = [block EXCEPT ![t] = NoBlock]
  /\ ScanFrom0(t, "idle")
  /\ UNCHANGED <<area, pool, reg, degree, round, fault, killed>>

\* The slot becomes free and the block a page table.
PopFree(t) ==
  /\ At(t, "popFree")
  /\ allocatedMap' = allocatedMap \ {idx[t]}
  /\ inUse' = inUse \cup {block[t]}
  /\ block' = [block EXCEPT ![t] = NoBlock]
  /\ ScanFrom0(t, "idle")
  /\ UNCHANGED <<area, array, writtenMap, reg, degree, round, fault, killed>>

-----------------------------------------------------------------------------
(***************************************************************************)
(* freeBlock(): BitmapMemoryManager::freeBlock().                          *)
(***************************************************************************)

FreeBegin(t, b) ==
  /\ At(t, "idle") /\ t \in Callers
  /\ b \in inUse
  /\ inUse' = inUse \ {b}
  /\ block' = [block EXCEPT ![t] = b]
  /\ Goto(t, "freeUnset")
  /\ UNCHANGED <<area, pool, idx, reg, degree, round, fault, killed>>

FreeUnset(t) ==
  /\ At(t, "freeUnset")
  /\ bitmap' = bitmap \ {block[t]}
  /\ block' = [block EXCEPT ![t] = NoBlock]
  /\ Goto(t, "freeLoad")
  /\ UNCHANGED <<freeMemory, pool, inUse, idx, reg, degree, round, fault, killed>>

FreeLoad(t) ==
  /\ At(t, "freeLoad")
  /\ reg' = [reg EXCEPT ![t] = freeMemory]
  /\ Goto(t, "freeStore")
  /\ UNCHANGED <<area, pool, inUse, idx, block, degree, round, fault, killed>>

FreeStore(t) ==
  /\ At(t, "freeStore")
  /\ freeMemory' = (reg[t] + 1) % Word
  /\ reg' = [reg EXCEPT ![t] = 0]
  /\ Goto(t, "idle")
  /\ UNCHANGED <<bitmap, pool, inUse, idx, block, degree, round, fault, killed>>

-----------------------------------------------------------------------------
(***************************************************************************)
(* refillPool() of the refiller.                                           *)
(***************************************************************************)

RefillBegin ==
  /\ At(Refiller, "idle")
  /\ round' = 0
  /\ ScanFrom0(Refiller, "degree")
  /\ UNCHANGED <<area, pool, inUse, block, reg, degree, fault, killed>>

\* isFull(): getFillingDegree() looks at one slot after the other.
CountSlot ==
  /\ At(Refiller, "degree")
  /\ idx[Refiller] < PoolSize
  /\ degree' = IF idx[Refiller] \in allocatedMap THEN degree + 1 ELSE degree
  /\ NextBit(Refiller)
  /\ UNCHANGED <<area, pool, inUse, pc, block, reg, round, fault, killed>>

CountDone ==
  /\ At(Refiller, "degree")
  /\ idx[Refiller] = PoolSize
  /\ degree' = 0
  /\ ScanFrom0(Refiller, IF degree = PoolSize THEN "idle" ELSE "claimTest")
  /\ UNCHANGED <<area, pool, inUse, block, reg, round, fault, killed>>

\* BitmapMemoryManager::allocateBlock(): bitmap.findAndSet().
ClaimHit ==
  /\ At(Refiller, "claimTest")
  /\ idx[Refiller] \in Blocks \ bitmap
  /\ bitmap' = bitmap \cup {idx[Refiller]}
  /\ block' = [block EXCEPT ![Refiller] = idx[Refiller]]
  /\ Goto(Refiller, "claimLoad")
  /\ UNCHANGED <<freeMemory, pool, inUse, idx, reg, degree, round, fault, killed>>

ClaimMiss ==
  /\ At(Refiller, "claimTest")
  /\ idx[Refiller] \in bitmap
  /\ NextBit(Refiller)
  /\ UNCHANGED <<area, pool, inUse, pc, block, reg, degree, round, fault, killed>>

ClaimNone ==
  /\ At(Refiller, "claimTest")
  /\ idx[Refiller] = BlockCount
  /\ Throw("OutOfPagingMemory")
  /\ UNCHANGED <<area, pool, inUse, pc, registers, killed>>

\* Fault: the check for an underflow is missing.
ClaimLoad_Unchecked ==
  /\ At(Refiller, "claimLoad")
  /\ reg' = [reg EXCEPT ![Refiller] = freeMemory]
  /\ Goto(Refiller, "claimStore")
  /\ UNCHANGED <<area, pool, inUse, idx, block, degree, round, fault, killed>>

\* if (freeMemory - blockSize > freeMemory): there is nothing to subtract from.
ClaimLoad ==
  /\ At(Refiller, "claimLoad")
  /\ reg' = [reg EXCEPT ![Refiller] = freeMemory]
  /\ IF freeMemory = 0
     THEN Throw("Underflow") /\ UNCHANGED pc
     ELSE Goto(Refiller, "claimStore") /\ UNCHANGED fault
  /\ UNCHANGED <<area, pool, inUse, idx, block, degree, round, killed>>

\* The counter is stored.
ClaimStore ==
  /\ At(Refiller, "claimStore")
  /\ freeMemory' = reg[Refiller] - 1
  /\ reg' = [reg EXCEPT ![Refiller] = 0]
  /\ ScanFrom0(Refiller, "zero")
  /\ UNCHANGED <<bitmap, pool, inUse, block, degree, round, fault, killed>>

\* The block is zeroed.  Its page may not be mapped, nor the page table for
\* it be there: then the page fault needs one itself, from this pool.
PageFault ==
  /\ At(Refiller, "zero") /\ pc[Handler] = "idle"
  /\ pc' = [pc EXCEPT ![Refiller] = "mapped", ![Handler] = "popTest"]
  /\ idx' = [idx EXCEPT ![Handler] = 0]
  /\ UNCHANGED <<area, pool, inUse, block, reg, degree, round, fault, killed>>

Zeroed ==
  /\ \/ At(Refiller, "zero")
     \/ At(Refiller, "mapped") /\ pc[Handler] = "idle"
  /\ ScanFrom0(Refiller, "pushTest")
  /\ UNCHANGED <<area, pool, inUse, block, reg, degree, round, fault, killed>>

\* Pool::push(): allocatedMap.findAndSet().
PushHit ==
  /\ At(Refiller, "pushTest")
  /\ idx[Refiller] \in Slots \ allocatedMap
  /\ allocatedMap' = allocatedMap \cup {idx[Refiller]}
  /\ Goto(Refiller, "pushWrite")
  /\ UNCHANGED <<area, array, writtenMap, inUse, registers, fault, killed>>

PushMiss ==
  /\ At(Refiller, "pushTest")
  /\ idx[Refiller] \in allocatedMap
  /\ NextBit(Refiller)
  /\ UNCHANGED <<area, pool, inUse, pc, block, reg, degree, round, fault, killed>>

\* Fault: the block that did not fit into the pool is forgotten.
PushNone_Leak ==
  /\ At(Refiller, "pushTest")
  /\ idx[Refiller] = PoolSize
  /\ ScanFrom0(Refiller, "idle")
  /\ block' = [block EXCEPT ![Refiller] = NoBlock]
  /\ UNCHANGED <<area, pool, inUse, reg, degree, round, fault, killed>>

\* The pool is full: the block goes back by freeBlock().
PushNone ==
  /\ At(Refiller, "pushTest")
  /\ idx[Refiller] = PoolSize
  /\ ScanFrom0(Refiller, "freeUnset")
  /\ UNCHANGED <<area, pool, inUse, block, reg, degree, round, fault, killed>>

PushWrite ==
  /\ At(Refiller, "pushWrite")
  /\ array' = [array EXCEPT ![idx[Refiller]] = block[Refiller]]
  /\ Goto(Refiller, "pushSet")
  /\ UNCHANGED <<area, allocatedMap, writtenMap, inUse, registers, fault, killed>>

\* The block is in the pool; the loop ends after getCapacity() rounds.
PushSet ==
  /\ At(Refiller, "pushSet")
  /\ writtenMap' = writtenMap \cup {idx[Refiller]}
  /\ block' = [block EXCEPT ![Refiller] = NoBlock]
  /\ round' = IF round + 1 = PoolSize THEN 0 ELSE round + 1
  /\ ScanFrom0(Refiller, IF round + 1 = PoolSize THEN "idle" ELSE "claimTest")
  /\ UNCHANGED <<area, array, allocatedMap, inUse, reg, degree, fault, killed>>

-----------------------------------------------------------------------------
\* Scheduler::kill() of a thread inside pop() or freeBlock(): it never goes
\* on, and keeps the slot and the block that it has in its hands.
Kill(t) ==
  /\ fault = "none"
  /\ t \in Callers \ killed /\ pc[t] # "idle"
  /\ killed' = killed \cup {t}
  /\ UNCHANGED <<area, pool, inUse, pc, registers, fault>>

-----------------------------------------------------------------------------
RefillStep == RefillBegin \/ CountSlot \/ CountDone
              \/ ClaimHit \/ ClaimMiss \/ ClaimNone \/ ClaimLoad \/ ClaimStore
              \/ PageFault \/ Zeroed
              \/ PushHit \/ PushMiss \/ PushNone \/ PushWrite \/ PushSet

PopStep(t) == PopHit(t) \/ PopMiss(t) \/ PopNone(t) \/ PopNoneUser(t) \/ PopRead(t) \/ PopFree(t)

FreeStep(t) == FreeUnset(t) \/ FreeLoad(t) \/ FreeStore(t)

Next ==
  \/ RefillStep
  \/ \E t \in Threads :
       \/ PopBegin(t) \/ PopStep(t) \/ FreeStep(t) \/ Kill(t)
       \/ \E b \in Blocks : FreeBegin(t, b)

Spec == Init /\ [][Next]_vars

\* The refiller is a kernel thread that the scheduler keeps running, in its
\* own code or in a page fault; a thread that has claimed a slot in pop() is
\* ready until it leaves it, or is killed.
FairSpec ==
  /\ Spec
  /\ WF_vars(RefillStep \/ FreeStep(Refiller) \/ PopStep(Handler))
  /\ \A t \in Callers : WF_vars(PopRead(t) \/ PopFree(t))

-----------------------------------------------------------------------------
\* The block in the hands of t: between the test-and-reset of a slot's bit
\* and the read of the slot it is the slot's element.
HeldBy(t) == IF pc[t] = "popRead" THEN array[idx[t]] ELSE block[t]

Abstract == INSTANCE BlockPool WITH
  Blocks <- Blocks, Reserved <- Bootstrap, Initial <- Pooled,
  free <- Blocks \ bitmap,
  pool <- {array[i] : i \in writtenMap},
  held <- [t \in Threads |-> HeldBy(t)]

\* The lock-free pool and bitmap implement the allocator of BlockPool: every
\* bit operation of push(), pop(), allocateBlock() and freeBlock() moves one
\* block from one place to another, or changes nothing that matters.
ImplementsBlockPool == Abstract!Spec

\* No page table is handed out twice and none is lost, whatever the threads
\* do between the bit operations of Pool and AtomicBitmap.
OneOwner == Abstract!OneOwner

\* A slot whose two bits differ belongs to exactly one thread, the one inside
\* push() or pop() that changed the first of them.
SlotOwned ==
  \A i \in Slots :
    Cardinality({t \in Threads : /\ pc[t] \in {"pushWrite", "pushSet", "popRead", "popFree"}
                                 /\ idx[t] = i})
      = IF i \in allocatedMap \ writtenMap THEN 1 ELSE 0

\* The slots that threads killed inside pop() keep for ever.
LostSlots == {idx[t] : t \in {u \in killed : pc[u] \in {"popRead", "popFree"}}}

\* An empty pool is filled again, unless an exception halts the kernel (the
\* refiller's own page fault on an empty pool does, and so does a paging area
\* without a free block) or every slot was lost to a thread killed in pop():
\* no slot stays claimed by a pop() that has ended, which isFull() would count.
EmptyPoolIsRefilled ==
  writtenMap = {} ~> (writtenMap # {} \/ fault # "none" \/ LostSlots = Slots)
=============================================================================
