---------------------------- MODULE PageFrames ----------------------------
(***************************************************************************)
(* The page frame allocator (TableMemoryManager and PageFrameAllocator) as *)
(* MemoryService uses it: map() and unmap() of one page, freePageTable(),  *)
(* and mapIO() of a number of pages, whose frames come from the slab       *)
(* allocator or, when that has no block, from a search for frames that     *)
(* follow each other.                                                      *)
(*                                                                         *)
(* A frame has a use count in the allocation table it belongs to.  A scan  *)
(* for a free frame holds the lock bit of the table it looks at; freeBlock *)
(* takes no lock.  A step is one atomic operation on a table entry.        *)
(* Frame 0 has the address that stands for "none".  A block of the slab    *)
(* allocator is taken in one step: PagingPool models its bitmaps.          *)
(***************************************************************************)
EXTENDS Integers

CONSTANTS
  Threads, NoThread,
  FrameCount,       \* frames of physical memory
  TableSize,        \* allocationTableEntriesPerBlock
  DmaFrame,         \* the frame at Isa::MAX_DMA_ADDRESS
  KernelEnd,        \* the frame at KERNEL_DATA_END
  Reserved,         \* frames that setMemory() reserved at boot
  BootMapped,       \* the frames that boot code has left in use, per thread
  RunLengths,       \* frameCount of the calls of allocatePhysicalMemory()
  SlabBlocks,       \* the first frames of the blocks of the slab pool for a frameCount
  SlabBoot          \* the frames that MemoryService() has allocated for the slab allocator

Frames == 0..(FrameCount - 1)
Table(f) == f \div TableSize
Tables == {Table(f) : f \in Frames}
SlabSizes == DOMAIN SlabBlocks
Block(n, s) == s..(s + n - 1)
SlabFrames == UNION {UNION {Block(n, s) : s \in SlabBlocks[n]} : n \in SlabSizes}

ASSUME FramesAssumption ==
  /\ NoThread \notin Threads
  /\ FrameCount \in Nat \ {0} /\ TableSize \in Nat \ {0}
  /\ DmaFrame \in Nat /\ KernelEnd \in Nat
  /\ Reserved \subseteq Frames
  /\ SlabBoot \subseteq Frames \cap SlabFrames
  /\ \A n \in SlabSizes : n \in Nat \ {0} /\ SlabBlocks[n] \subseteq Nat
  /\ BootMapped \in [Threads -> SUBSET (Frames \ ({0} \cup Reserved \cup SlabBoot))]
  /\ \A t, u \in Threads : t # u => BootMapped[t] \cap BootMapped[u] = {}
  /\ RunLengths \subseteq Nat \ {0}

VARIABLES
  useCount,   \* the use counts in the allocation tables
  installed,  \* the tables that exist: their reference entry has an address
  lock,       \* the holder of each table's lock bit
  mapped,     \* the frames in the page tables of each thread, from the tables ...
  slabMapped, \* ... and from the slab allocator
  slabUsed,   \* the slab blocks whose bit is set, by their first frames
  pc,
  call,       \* "map" or the number of frames that allocatePhysicalMemory() wants
  attempt,    \* which of its three searches allocateBlock() is in
  cursor,     \* the frame that the search looks at
  start,      \* physicalStartAddress and ...
  count,      \* ... the number of frames found from there on
  moving,     \* a frame that is taken but not returned yet, or unmapped but not freed
  leaked,     \* history: the frames whose last user went without freeing them
  fault

locals == <<call, attempt, start, count>>
slab == <<slabMapped, slabUsed>>
vars == <<useCount, installed, lock, mapped, slabMapped, slabUsed, pc, call, attempt, cursor, start, count, moving, leaked, fault>>

Labels == {"idle", "tryLock", "check", "take", "unlock", "return", "giveUp", "drop", "free"}

TypeOK ==
  /\ useCount \in [Frames -> Nat]
  /\ installed \subseteq Tables
  /\ lock \in [Tables -> Threads \cup {NoThread}]
  /\ mapped \in [Threads -> SUBSET Frames]
  /\ slabMapped \in [Threads -> SUBSET SlabFrames] /\ slabUsed \subseteq SlabFrames
  /\ pc \in [Threads -> Labels]
  /\ call \in [Threads -> Nat] /\ attempt \in [Threads -> 1..3]
  /\ cursor \in [Threads -> Nat]
  /\ start \in [Threads -> Nat] /\ count \in [Threads -> Nat]
  /\ moving \in [Threads -> Frames] /\ leaked \subseteq Frames \ {0}
  /\ fault \in {"none", "Underflow"}

\* The boot code has marked what is in use, frame 0 with the BIOS area too,
\* and thereby installed the tables of those frames.
InUse == {0} \cup SlabBoot \cup UNION {BootMapped[t] : t \in Threads}

Init ==
  /\ useCount = [f \in Frames |-> IF f \in InUse THEN 1 ELSE 0]
  /\ installed = {Table(f) : f \in InUse \cup Reserved}
  /\ lock = [b \in Tables |-> NoThread]
  /\ mapped = BootMapped
  /\ slabMapped = [t \in Threads |-> {}] /\ slabUsed = {}
  /\ pc = [t \in Threads |-> "idle"]
  /\ call = [t \in Threads |-> 0] /\ attempt = [t \in Threads |-> 1]
  /\ cursor = [t \in Threads |-> 0]
  /\ start = [t \in Threads |-> 0] /\ count = [t \in Threads |-> 0]
  /\ moving = [t \in Threads |-> 0] /\ leaked = {}
  /\ fault = "none"

At(t, l) == fault = "none" /\ pc[t] = l

Goto(t, l) == pc' = [pc EXCEPT ![t] = l]

\* The call returns; its local variables are forgotten.
Done(t) ==
  /\ Goto(t, "idle")
  /\ call' = [call EXCEPT ![t] = 0] /\ attempt' = [attempt EXCEPT ![t] = 1]
  /\ cursor' = [cursor EXCEPT ![t] = 0]
  /\ start' = [start EXCEPT ![t] = 0] /\ count' = [count EXCEPT ![t] = 0]

\* allocateBlockAfterAddress(f)
Search(t, f) == cursor' = [cursor EXCEPT ![t] = f] /\ Goto(t, "tryLock")

-----------------------------------------------------------------------------
(***************************************************************************)
(* The two callers                                                         *)
(***************************************************************************)

\* MemoryService::map(), by a page fault: PageFrameAllocator::allocateBlock()
Map(t) ==
  /\ At(t, "idle")
  /\ Search(t, DmaFrame)
  /\ UNCHANGED <<useCount, installed, lock, mapped, slab, locals, moving, leaked, fault>>

SlabFree(n) == IF n \in SlabSizes THEN SlabBlocks[n] \ slabUsed ELSE {}

\* mapIO(n): allocatePhysicalMemory(n) takes the first block of the pool, ...
MapSlab(t, n) ==
  /\ At(t, "idle")
  /\ \E s \in SlabFree(n) :
       /\ \A r \in SlabFree(n) : s <= r
       /\ slabUsed' = slabUsed \cup {s}
       /\ slabMapped' = [slabMapped EXCEPT ![t] = @ \cup Block(n, s)]
  /\ UNCHANGED <<useCount, installed, lock, mapped, pc, locals, cursor, moving, leaked, fault>>

\* ... or searches when there is none.  (mapIO() of an address that the caller
\* names takes no frame of the tables and is left out.)
MapIO(t, n) ==
  /\ At(t, "idle")
  /\ SlabFree(n) = {}
  /\ call' = [call EXCEPT ![t] = n]
  /\ Search(t, DmaFrame)
  /\ UNCHANGED <<useCount, installed, lock, mapped, slab, attempt, start, count, moving, leaked, fault>>

\* VirtualAddressSpace::unmap() clears the entry, freePhysicalMemory() follows,
\* but not for frame 0, which looks as if nothing had been mapped.
Unmap(t, f) ==
  /\ At(t, "idle")
  /\ f \in mapped[t]
  /\ mapped' = [mapped EXCEPT ![t] = @ \ {f}]
  /\ moving' = [moving EXCEPT ![t] = f]
  /\ IF f = 0 THEN UNCHANGED pc ELSE Goto(t, "free")
  /\ UNCHANGED <<useCount, installed, lock, slab, locals, cursor, leaked, fault>>

\* freePageTable() of a table that unmap() or the destructor of an address space
\* has emptied: the page goes back to the paging area, its frame to nobody.
FreePageTable(t, f) ==
  /\ At(t, "idle")
  /\ f \in mapped[t]
  /\ mapped' = [mapped EXCEPT ![t] = @ \ {f}]
  /\ leaked' = leaked \cup ({f} \ {0})
  /\ UNCHANGED <<useCount, installed, lock, slab, pc, locals, cursor, moving, fault>>

\* SlabAllocator::freeBlock(): the bit of the block that holds frame f
SlabFreeBlock(f) ==
  slabUsed' = slabUsed \ {s \in slabUsed : \E n \in SlabSizes : s \in SlabBlocks[n] /\ f \in Block(n, s)}

\* unmap() of a page of a slab block: one page is enough to free the block.
UnmapSlab(t, f) ==
  /\ At(t, "idle")
  /\ f \in slabMapped[t]
  /\ slabMapped' = [slabMapped EXCEPT ![t] = @ \ {f}]
  /\ SlabFreeBlock(f)
  /\ UNCHANGED <<useCount, installed, lock, mapped, pc, locals, cursor, moving, leaked, fault>>

-----------------------------------------------------------------------------
(***************************************************************************)
(* allocateBlockAfterAddress()                                             *)
(***************************************************************************)

NextTable(f) == (Table(f) + 1) * TableSize

\* No table is left: nullptr.
SearchFails(t) ==
  /\ At(t, "tryLock")
  /\ cursor[t] >= FrameCount
  /\ moving' = [moving EXCEPT ![t] = 0]
  /\ Goto(t, "return")
  /\ UNCHANGED <<useCount, installed, lock, mapped, slab, locals, cursor, leaked, fault>>

\* Fault: the lock bit is tested but not set.
TryLock_NotSet(t) ==
  /\ At(t, "tryLock")
  /\ cursor[t] < FrameCount
  /\ IF lock[Table(cursor[t])] = NoThread
     THEN /\ installed' = installed \cup {Table(cursor[t])}
          /\ Goto(t, "check") /\ UNCHANGED cursor
     ELSE cursor' = [cursor EXCEPT ![t] = NextTable(@)] /\ UNCHANGED <<installed, pc>>
  /\ UNCHANGED <<useCount, lock, mapped, slab, locals, moving, leaked, fault>>

\* A table that is locked is skipped.  The lock holder gives a table without
\* memory a zeroed block of the paging area.
TryLock(t) ==
  /\ At(t, "tryLock")
  /\ cursor[t] < FrameCount
  /\ IF lock[Table(cursor[t])] = NoThread
     THEN /\ lock' = [lock EXCEPT ![Table(cursor[t])] = t]
          /\ installed' = installed \cup {Table(cursor[t])}
          /\ Goto(t, "check") /\ UNCHANGED cursor
     ELSE cursor' = [cursor EXCEPT ![t] = NextTable(@)] /\ UNCHANGED <<installed, lock, pc>>
  /\ UNCHANGED <<useCount, mapped, slab, locals, moving, leaked, fault>>

\* Fault: the reserved bit is ignored.
Usable_Reserved(f) == useCount[f] = 0

\* isReserved() || getUseCount() > 0
Usable(f) == f \notin Reserved /\ useCount[f] = 0

\* Looks at one entry; behind the last one of the table the lock is released.
Check(t) ==
  /\ At(t, "check")
  /\ LET f == cursor[t]
         last == f + 1 = NextTable(f) \/ f + 1 = FrameCount
     IN  IF Usable(f) THEN Goto(t, "take") /\ UNCHANGED cursor
         ELSE IF last THEN Goto(t, "giveUp") /\ UNCHANGED cursor
         ELSE cursor' = [cursor EXCEPT ![t] = f + 1] /\ UNCHANGED pc
  /\ UNCHANGED <<useCount, installed, lock, mapped, slab, locals, moving, leaked, fault>>

Take(t) ==
  /\ At(t, "take")
  /\ useCount' = [useCount EXCEPT ![cursor[t]] = @ + 1]
  /\ moving' = [moving EXCEPT ![t] = cursor[t]]
  /\ Goto(t, "unlock")
  /\ UNCHANGED <<installed, lock, mapped, slab, locals, cursor, leaked, fault>>

Unlock(t) == lock' = [lock EXCEPT ![Table(cursor[t])] = NoThread]

TakeUnlock(t) ==
  /\ At(t, "unlock")
  /\ Unlock(t) /\ Goto(t, "return")
  /\ UNCHANGED <<useCount, installed, mapped, slab, locals, cursor, moving, leaked, fault>>

GiveUp(t) ==
  /\ At(t, "giveUp")
  /\ Unlock(t) /\ Search(t, NextTable(cursor[t]))
  /\ UNCHANGED <<useCount, installed, mapped, slab, locals, moving, leaked, fault>>

-----------------------------------------------------------------------------
(***************************************************************************)
(* What the callers do with the frame, or with "none"                      *)
(***************************************************************************)

\* allocateBlock() searches again, behind the kernel and then everywhere.
Retry(t) ==
  /\ At(t, "return") /\ call[t] = 0
  /\ moving[t] = 0 /\ attempt[t] < 3
  /\ attempt' = [attempt EXCEPT ![t] = @ + 1]
  /\ Search(t, IF attempt[t] = 1 THEN KernelEnd ELSE 0)
  /\ UNCHANGED <<useCount, installed, lock, mapped, slab, call, start, count, moving, leaked, fault>>

\* map() enters the result into the page table, whatever it is.
MapEnd(t) ==
  /\ At(t, "return") /\ call[t] = 0
  /\ moving[t] # 0 \/ attempt[t] = 3
  /\ mapped' = [mapped EXCEPT ![t] = @ \cup {moving[t]}]
  /\ moving' = [moving EXCEPT ![t] = 0]
  /\ Done(t)
  /\ UNCHANGED <<useCount, installed, lock, slab, leaked, fault>>

\* The frames that are found so far.
RunOf(t) == start[t]..(start[t] + count[t] - 1)

\* The frame is the first one or follows the last: more are needed, or all
\* are there and mapIO() enters them into the page table.
Extend(t) ==
  /\ At(t, "return") /\ call[t] > 0
  /\ count[t] = 0 \/ moving[t] = start[t] + count[t]
  /\ LET first == IF count[t] = 0 THEN moving[t] ELSE start[t]
     IN  /\ moving' = [moving EXCEPT ![t] = 0]
         /\ IF count[t] + 1 < call[t]
            THEN /\ start' = [start EXCEPT ![t] = first]
                 /\ count' = [count EXCEPT ![t] = @ + 1]
                 /\ Search(t, first)
                 /\ UNCHANGED <<mapped, call, attempt>>
            ELSE /\ mapped' = [mapped EXCEPT ![t] = @ \cup (first..(first + count[t]))]
                 /\ Done(t)
  /\ UNCHANGED <<useCount, installed, lock, slab, leaked, fault>>

\* decrementUseCount(): "Page frame underflow!" for a frame that is not in use.
Decrement(f) ==
  IF useCount[f] = 0 THEN fault' = "Underflow" /\ UNCHANGED useCount
  ELSE useCount' = [useCount EXCEPT ![f] = @ - 1] /\ UNCHANGED fault

\* It does not follow: freePhysicalMemory() frees the run.  When the first
\* frame lies in a slab pool, the slab allocator is told so and nobody else.
Drop(t) ==
  /\ At(t, "return") /\ call[t] > 0
  /\ count[t] > 0 /\ moving[t] # start[t] + count[t]
  /\ IF start[t] \in SlabFrames
     THEN /\ SlabFreeBlock(start[t]) /\ leaked' = leaked \cup (RunOf(t) \ {0})
          /\ count' = [count EXCEPT ![t] = 0] /\ UNCHANGED pc
     ELSE Goto(t, "drop") /\ UNCHANGED <<slabUsed, leaked, count>>
  /\ UNCHANGED <<useCount, installed, lock, mapped, slabMapped, call, attempt, cursor, start, moving, fault>>

\* Otherwise the frames are freed one by one; then the last frame is the
\* first one of the next run.
DropFrame(t) ==
  /\ At(t, "drop")
  /\ Decrement(start[t])
  /\ start' = [start EXCEPT ![t] = @ + 1]
  /\ count' = [count EXCEPT ![t] = @ - 1]
  /\ IF count[t] = 1 THEN Goto(t, "return") ELSE UNCHANGED pc
  /\ UNCHANGED <<installed, lock, mapped, slab, call, attempt, cursor, moving, leaked>>

\* freePhysicalMemory() after unmap()
Free(t) ==
  /\ At(t, "free")
  /\ IF moving[t] \in SlabFrames
     THEN /\ SlabFreeBlock(moving[t]) /\ leaked' = leaked \cup {moving[t]}
          /\ UNCHANGED <<useCount, fault>>
     ELSE Decrement(moving[t]) /\ UNCHANGED <<slabUsed, leaked>>
  /\ moving' = [moving EXCEPT ![t] = 0]
  /\ Goto(t, "idle")
  /\ UNCHANGED <<installed, lock, mapped, slabMapped, locals, cursor>>

-----------------------------------------------------------------------------
Step(t) == SearchFails(t) \/ TryLock(t) \/ Check(t) \/ Take(t) \/ TakeUnlock(t)
           \/ GiveUp(t) \/ Retry(t) \/ MapEnd(t) \/ Extend(t) \/ Drop(t) \/ DropFrame(t) \/ Free(t)

Next == \E t \in Threads :
          \/ Step(t)
          \/ Map(t)
          \/ \E n \in RunLengths : MapSlab(t, n) \/ MapIO(t, n)
          \/ \E f \in Frames : Unmap(t, f) \/ FreePageTable(t, f) \/ UnmapSlab(t, f)

Spec == Init /\ [][Next]_vars

-----------------------------------------------------------------------------
\* What t has got from the tables and has to give back.
Owns(t) == (mapped[t] \cup {moving[t]} \cup RunOf(t)) \ {0}

\* The frames that the tables never get back.
Lost == SlabBoot \cup leaked

\* Among those who get frames from the tables, a frame has one user, and its
\* use count, which is changed with and without the lock bit, is 1 as long as
\* it is used.  A frame without a user has the count 0, or it is lost for good:
\* it was allocated for the slab pools, its page table was freed without it, or
\* freePhysicalMemory() told the slab allocator instead of the tables.  Nobody
\* gets a reserved frame, and the allocation table of a used frame exists:
\* freeBlock() uses it without a test.
\* The users of slab blocks are not counted: a pool reaches beyond SlabBoot, so
\* a frame may have a user from the tables and users from a pool at once.
OneTableUser ==
  /\ TypeOK
  /\ \A t \in Threads, f \in Frames : f \in Owns(t) => Table(f) \in installed
  /\ \A f \in Frames \ {0} : LET unused == \A t \in Threads : f \notin Owns(t)
                             IN  \/ useCount[f] = 1 /\ (f \in Lost <=> unused)
                                 \/ useCount[f] = 0 /\ f \notin Lost /\ unused
  /\ \A t, u \in Threads : t # u => Owns(t) \cap Owns(u) = {}
  /\ \A t \in Threads : Owns(t) \cap Reserved = {}

Owners == INSTANCE FrameOwners WITH
  Frames <- Frames \ {0}, Initial <- BootMapped, owned <- [t \in Threads |-> Owns(t)]

\* The tables with their lock bits implement exclusive ownership of frames.
ImplementsFrameOwners == Owners!Spec
=============================================================================
