----------------------------- MODULE MemoryProofs ----------------------------
(***************************************************************************)
(* The page frame allocator and the heap.                                  *)
(*                                                                         *)
(* Frames, for any number of threads, frames and tables: among the users   *)
(* of the tables a frame has one user, its use count is right, and the     *)
(* tables with their lock bits implement FrameOwners.                      *)
(*                                                                         *)
(* Heap, for any number of threads and any size of the heap, of headers and *)
(* of blocks: blocks and free chunks tile the heap, the list of free chunks *)
(* is ordered, linked and merged, and a block has what was asked for.      *)
(***************************************************************************)
EXTENDS PageFrames, FreeListHeap, FiniteSetTheorems, WellFoundedInduction, TLAPS

\* Nobody has got the frame from the tables.
Unused(f) == \A t \in Threads : f \notin Owns(t)

\* The lock bit of the table is held from TryLock() to the release; the frame
\* that was found to be free stays so until it is taken.
LockInv ==
  \A t \in Threads :
    /\ pc[t] \in {"check", "take", "unlock", "giveUp"} =>
         /\ cursor[t] \in Frames
         /\ lock[Table(cursor[t])] = t
         /\ Table(cursor[t]) \in installed
    /\ pc[t] = "take" => Usable(cursor[t])

\* What the local variables of a call hold, by label.
LocalInv ==
  \A t \in Threads :
    /\ pc[t] \in {"idle", "tryLock", "check", "take", "giveUp"} => moving[t] = 0
    /\ pc[t] = "free" => moving[t] # 0
    /\ pc[t] \in {"idle", "free"} => call[t] = 0
    /\ pc[t] = "drop" => count[t] > 0
    /\ call[t] \in RunLengths \cup {0}
    /\ count[t] = 0 \/ count[t] < call[t]
    /\ \A f \in Nat : start[t] <= f /\ f < start[t] + count[t] => f \in Frames

\* A thread has a frame in one place only: its page tables, the run it is
\* collecting, or on the way.
ApartInv ==
  \A t \in Threads :
    /\ moving[t] # 0 => moving[t] \notin mapped[t] \cup RunOf(t)
    /\ mapped[t] \cap RunOf(t) \subseteq {0}

IInv == OneTableUser /\ LockInv /\ LocalInv /\ ApartInv

-----------------------------------------------------------------------------
\* The table of a frame, and of the frame behind it if that is not the first
\* one of the next table.
LEMMA TableType ==
  ASSUME NEW f \in Nat
  PROVE  Table(f) \in Nat /\ (f \in Frames => Table(f) \in Tables) /\ NextTable(f) \in Nat
<1>1. Table(f) \in Nat
  BY FramesAssumption DEF Table
<1> QED BY <1>1, FramesAssumption DEF Tables, NextTable

\* Consecutive frames are in the same table unless the second starts one.
LEMMA SameTable ==
  ASSUME NEW f \in Nat, f + 1 # NextTable(f)
  PROVE  Table(f + 1) = Table(f)
<1> DEFINE q == f \div TableSize
           r == f % TableSize
<1>1. q \in Nat /\ r \in 0..(TableSize - 1) /\ f = TableSize * q + r
  BY FramesAssumption, SMT
<1>2. f + 1 # (q + 1) * TableSize
  BY DEF NextTable, Table
<1> HIDE DEF q, r
<1>3. (q + 1) * TableSize = TableSize * q + TableSize
  BY <1>1, FramesAssumption
<1>4. r + 1 \in 0..(TableSize - 1) /\ f + 1 = TableSize * q + (r + 1)
  BY <1>1, <1>2, <1>3, FramesAssumption
<1>5. (f + 1) \div TableSize = q
  BY <1>1, <1>4, FramesAssumption, SMT
<1> QED BY <1>5 DEF Table, q

\* What a thread owns, without the interval.
LEMMA OwnsElements ==
  ASSUME TypeOK, NEW t \in Threads, NEW f \in Nat
  PROVE  f \in Owns(t) <=> /\ f # 0
                           /\ \/ f \in mapped[t] \/ f = moving[t]
                              \/ start[t] <= f /\ f < start[t] + count[t]
<1>1. start[t] \in Nat /\ count[t] \in Nat
  BY DEF TypeOK
<1>2. f \in RunOf(t) <=> start[t] <= f /\ f < start[t] + count[t]
  BY <1>1 DEF RunOf
<1> QED BY <1>2 DEF Owns

-----------------------------------------------------------------------------
\* The boot code leaves disjoint sets of frames to the threads.
LEMMA InitInv == Init => IInv
<1> SUFFICES ASSUME Init PROVE IInv
  OBVIOUS
<1> USE FramesAssumption
<1>1. TypeOK
  <2>1. InUse \cup Reserved \subseteq Frames
    <3>1. {0} \subseteq Frames
      BY DEF Frames
    <3>2. UNION {BootMapped[t] : t \in Threads} \subseteq Frames
      OBVIOUS
    <3> QED BY <3>1, <3>2 DEF InUse
  <2>2. installed \subseteq Tables
    BY <2>1 DEF Init, Tables
  <2> QED BY <2>2 DEF Init, TypeOK, Labels, Frames
<1>2. \A t \in Threads : RunOf(t) = {} /\ Owns(t) = BootMapped[t]
  <2> TAKE t \in Threads
  <2>1. start[t] = 0 /\ count[t] = 0 /\ mapped[t] = BootMapped[t] /\ moving[t] = 0
    BY DEF Init
  <2>2. RunOf(t) = {}
    BY <2>1 DEF RunOf
  <2>3. BootMapped[t] \subseteq Frames \ {0}
    OBVIOUS
  <2> QED BY <2>1, <2>2, <2>3 DEF Owns
<1>3. OneTableUser
  <2>1. \A t \in Threads, f \in Frames : f \in Owns(t) => Table(f) \in installed
    BY <1>2 DEF Init, InUse
  <2>2. \A f \in Frames \ {0} : \/ useCount[f] = 1 /\ (f \in Lost <=> Unused(f))
                                \/ useCount[f] = 0 /\ f \notin Lost /\ Unused(f)
    <3> TAKE f \in Frames \ {0}
    <3>1. useCount[f] = IF f \in InUse THEN 1 ELSE 0
      BY DEF Init
    <3>2. Lost = SlabBoot /\ (Unused(f) <=> \A t \in Threads : f \notin BootMapped[t])
      BY <1>2 DEF Init, Lost, Unused
    <3>3. f \in InUse <=> f \in SlabBoot \/ \E t \in Threads : f \in BootMapped[t]
      BY DEF InUse
    <3>4. f \in SlabBoot => \A t \in Threads : f \notin BootMapped[t]
      OBVIOUS
    <3> QED BY <3>1, <3>2, <3>3, <3>4
  <2> QED BY <1>1, <1>2, <2>1, <2>2 DEF OneTableUser, Unused
<1>4. LockInv
  BY DEF Init, LockInv
<1>5. LocalInv
  <2> SUFFICES ASSUME NEW t \in Threads
               PROVE  \A f \in Nat : start[t] <= f /\ f < start[t] + count[t] => f \in Frames
    BY DEF Init, LocalInv
  <2>1. start[t] = 0 /\ count[t] = 0
    BY DEF Init
  <2> QED BY <2>1
<1>6. ApartInv
  BY <1>2 DEF Init, ApartInv
<1> QED BY <1>3, <1>4, <1>5, <1>6 DEF IInv

-----------------------------------------------------------------------------
\* A step that changes no use count and takes nothing from anybody.
LEMMA OwnersKept ==
  ASSUME OneTableUser, TypeOK', UNCHANGED <<useCount, leaked>>, installed \subseteq installed',
         \A t \in Threads : Owns(t)' = Owns(t)
  PROVE  OneTableUser'
BY DEF OneTableUser, Lost

\* Frame 0 exists.
LEMMA ZeroFrame == 0 \in Frames
BY FramesAssumption DEF Frames

\* A step that enters no section with a lock bit and leaves none.
LEMMA LockKept ==
  ASSUME LockInv, UNCHANGED <<useCount, lock, installed>>,
         \A u \in Threads : pc'[u] \in {"check", "take", "unlock", "giveUp"} => pc'[u] = pc[u] /\ cursor'[u] = cursor[u]
  PROVE  LockInv'
BY DEF LockInv, Usable

\* A step of t leaves the local variables of the others alone.
LEMMA LocalKept ==
  ASSUME LocalInv, NEW t \in Threads,
         \A u \in Threads : u # t => /\ pc'[u] = pc[u] /\ moving'[u] = moving[u] /\ call'[u] = call[u]
                                     /\ count'[u] = count[u] /\ start'[u] = start[u],
         pc'[t] \in {"idle", "tryLock", "check", "take", "giveUp"} => moving'[t] = 0,
         pc'[t] = "free" => moving'[t] # 0,
         pc'[t] \in {"idle", "free"} => call'[t] = 0,
         pc'[t] = "drop" => count'[t] > 0,
         call'[t] \in RunLengths \cup {0},
         count'[t] = 0 \/ count'[t] < call'[t],
         \A f \in Nat : start'[t] <= f /\ f < start'[t] + count'[t] => f \in Frames
  PROVE  LocalInv'
<1> SUFFICES ASSUME NEW u \in Threads
             PROVE  /\ pc'[u] \in {"idle", "tryLock", "check", "take", "giveUp"} => moving'[u] = 0
                    /\ pc'[u] = "free" => moving'[u] # 0
                    /\ pc'[u] \in {"idle", "free"} => call'[u] = 0
                    /\ pc'[u] = "drop" => count'[u] > 0
                    /\ call'[u] \in RunLengths \cup {0}
                    /\ count'[u] = 0 \/ count'[u] < call'[u]
                    /\ \A f \in Nat : start'[u] <= f /\ f < start'[u] + count'[u] => f \in Frames
  BY DEF LocalInv
<1>1. CASE u = t
  BY <1>1
<1>2. CASE u # t
  BY <1>2 DEF LocalInv
<1> QED BY <1>1, <1>2

\* The block of a slab pool that holds a frame of the pool.
LEMMA SlabType ==
  ASSUME NEW n \in SlabSizes, NEW s \in SlabBlocks[n]
  PROVE  s \in SlabFrames /\ Block(n, s) \subseteq SlabFrames
<1>1. s \in Block(n, s)
  BY FramesAssumption DEF Block
<1> QED BY <1>1 DEF SlabFrames

\* The calls of map(), mapIO() and unmap() begin.
LEMMA CallsKeep ==
  ASSUME IInv, NEW t \in Threads,
         \/ Map(t)
         \/ \E n \in RunLengths : MapSlab(t, n) \/ MapIO(t, n)
         \/ \E f \in Frames : Unmap(t, f) \/ UnmapSlab(t, f)
  PROVE  IInv' /\ \A u \in Threads : Owns(u)' = Owns(u)
<1> USE FramesAssumption DEF IInv, At, Goto, Search, locals, slab
<1>0. TypeOK /\ pc[t] = "idle" /\ moving[t] = 0 /\ call[t] = 0 /\ count[t] = 0
  BY DEF OneTableUser, TypeOK, LocalInv, Map, MapSlab, MapIO, Unmap, UnmapSlab
<1>1. CASE Map(t)
  <2> USE <1>0, <1>1 DEF Map
  <2>1. TypeOK'
    BY DEF TypeOK, Labels
  <2>2. \A u \in Threads : Owns(u)' = Owns(u)
    BY DEF Owns, RunOf
  <2>3. LockInv'
    BY LockKept DEF TypeOK
  <2>4. LocalInv' /\ ApartInv'
    BY DEF TypeOK, LocalInv, ApartInv, RunOf
  <2> QED BY <2>1, <2>2, <2>3, <2>4, OwnersKept
<1>2. ASSUME NEW n \in RunLengths, MapSlab(t, n) PROVE IInv' /\ \A u \in Threads : Owns(u)' = Owns(u)
  <2> USE <1>0, <1>2 DEF MapSlab
  <2>1. TypeOK'
    <3>1. PICK s \in SlabFree(n) : /\ slabUsed' = slabUsed \cup {s}
                                   /\ slabMapped' = [slabMapped EXCEPT ![t] = @ \cup Block(n, s)]
      OBVIOUS
    <3>2. n \in SlabSizes /\ s \in SlabBlocks[n]
      BY <3>1 DEF SlabFree
    <3> QED BY <3>1, <3>2, SlabType DEF TypeOK
  <2>2. \A u \in Threads : Owns(u)' = Owns(u)
    BY DEF Owns, RunOf
  <2>3. LockInv'
    BY LockKept DEF TypeOK
  <2>4. LocalInv' /\ ApartInv'
    BY DEF LocalInv, ApartInv, RunOf
  <2> QED BY <2>1, <2>2, <2>3, <2>4, OwnersKept
<1>3. ASSUME NEW n \in RunLengths, MapIO(t, n) PROVE IInv' /\ \A u \in Threads : Owns(u)' = Owns(u)
  <2> USE <1>0, <1>3 DEF MapIO
  <2>1. TypeOK'
    BY DEF TypeOK, Labels
  <2>2. \A u \in Threads : Owns(u)' = Owns(u)
    BY DEF Owns, RunOf
  <2>3. LockInv'
    BY LockKept DEF TypeOK
  <2>4. LocalInv' /\ ApartInv'
    BY DEF TypeOK, LocalInv, ApartInv, RunOf
  <2> QED BY <2>1, <2>2, <2>3, <2>4, OwnersKept
<1>4. ASSUME NEW f \in Frames, Unmap(t, f) PROVE IInv' /\ \A u \in Threads : Owns(u)' = Owns(u)
  <2> USE <1>0, <1>4 DEF Unmap
  <2>1. TypeOK'
    BY DEF TypeOK, Labels
  <2>2. \A u \in Threads : Owns(u)' = Owns(u)
    BY DEF Owns, RunOf, TypeOK
  <2>3. LockInv'
    BY LockKept DEF TypeOK
  <2>4. LocalInv'
    BY DEF TypeOK, LocalInv
  <2>5. ApartInv'
    BY DEF TypeOK, ApartInv, RunOf
  <2> QED BY <2>1, <2>2, <2>3, <2>4, <2>5, OwnersKept
<1>5. ASSUME NEW f \in Frames, UnmapSlab(t, f) PROVE IInv' /\ \A u \in Threads : Owns(u)' = Owns(u)
  <2> USE <1>0, <1>5 DEF UnmapSlab, SlabFreeBlock
  <2>1. TypeOK'
    BY DEF TypeOK
  <2>2. \A u \in Threads : Owns(u)' = Owns(u)
    BY DEF Owns, RunOf
  <2>3. LockInv'
    BY LockKept DEF TypeOK
  <2>4. LocalInv' /\ ApartInv'
    BY DEF LocalInv, ApartInv, RunOf
  <2> QED BY <2>1, <2>2, <2>3, <2>4, OwnersKept
<1> QED BY <1>1, <1>2, <1>3, <1>4, <1>5

\* The scan of allocateBlockAfterAddress() up to the frame it takes.
LEMMA ScanKeeps ==
  ASSUME IInv, NEW t \in Threads,
         SearchFails(t) \/ TryLock(t) \/ Check(t) \/ TakeUnlock(t) \/ GiveUp(t)
  PROVE  IInv' /\ \A u \in Threads : Owns(u)' = Owns(u)
<1> USE FramesAssumption DEF IInv, At, Goto, Search, locals, slab
<1>0. TypeOK /\ cursor[t] \in Nat
  BY DEF OneTableUser, TypeOK
<1>1. NextTable(cursor[t]) \in Nat /\ Table(cursor[t]) \in Nat
      /\ (cursor[t] \in Frames => Table(cursor[t]) \in Tables)
  BY <1>0, TableType
<1>2. CASE SearchFails(t)
  <2> USE <1>0, <1>2 DEF SearchFails
  <2>0. moving[t] = 0
    BY DEF LocalInv
  <2>1. TypeOK'
    BY ZeroFrame DEF TypeOK, Labels
  <2>2. \A u \in Threads : Owns(u)' = Owns(u)
    BY <2>0 DEF TypeOK, Owns, RunOf
  <2>3. LockInv'
    BY LockKept DEF TypeOK
  <2>4. LocalInv' /\ ApartInv'
    BY <2>0 DEF TypeOK, LocalInv, ApartInv, RunOf
  <2> QED BY <2>1, <2>2, <2>3, <2>4, OwnersKept
<1>3. CASE TryLock(t)
  <2> USE <1>0, <1>3 DEF TryLock
  <2>0. cursor[t] \in Frames
    BY DEF Frames
  <2>1. TypeOK'
    <3>1. lock' \in [Tables -> Threads \cup {NoThread}] /\ installed' \subseteq Tables
      BY <1>1, <2>0 DEF TypeOK
    <3>2. cursor' \in [Threads -> Nat] /\ pc' \in [Threads -> Labels]
      <4>1. cursor' = cursor \/ cursor' = [cursor EXCEPT ![t] = NextTable(cursor[t])]
        OBVIOUS
      <4>2. pc' = pc \/ pc' = [pc EXCEPT ![t] = "check"]
        OBVIOUS
      <4> QED BY <1>1, <4>1, <4>2 DEF TypeOK, Labels
    <3> QED BY <3>1, <3>2 DEF TypeOK
  <2>2. \A u \in Threads : Owns(u)' = Owns(u)
    BY DEF Owns, RunOf
  <2>3. LockInv'
    BY <1>1, <2>0 DEF TypeOK, LockInv, Usable
  <2>4. LocalInv'
    BY DEF TypeOK, LocalInv
  <2>5. ApartInv'
    BY DEF ApartInv, RunOf
  <2>6. installed \subseteq installed'
    OBVIOUS
  <2> QED BY <2>1, <2>2, <2>3, <2>4, <2>5, <2>6, OwnersKept
<1>4. CASE Check(t)
  <2> USE <1>0, <1>4 DEF Check
  <2>1. TypeOK'
    BY DEF TypeOK, Labels
  <2>2. \A u \in Threads : Owns(u)' = Owns(u)
    BY DEF Owns, RunOf
  <2>3. LockInv'
    <3>1. /\ cursor[t] \in Frames /\ lock[Table(cursor[t])] = t /\ Table(cursor[t]) \in installed
      BY DEF LockInv
    <3>2. cursor'[t] \in Frames /\ Table(cursor'[t]) = Table(cursor[t])
      BY <3>1, SameTable DEF TypeOK, Frames
    <3>3. pc'[t] = "take" => Usable(cursor'[t])
      BY DEF TypeOK, Usable
    <3>4. \A u \in Threads : u # t => pc'[u] = pc[u] /\ cursor'[u] = cursor[u]
      BY DEF TypeOK
    <3> QED BY <3>1, <3>2, <3>3, <3>4 DEF LockInv, Usable
  <2>4. LocalInv'
    BY DEF TypeOK, LocalInv
  <2>5. ApartInv'
    BY DEF ApartInv, RunOf
  <2> QED BY <2>1, <2>2, <2>3, <2>4, <2>5, OwnersKept
<1>5. CASE TakeUnlock(t) \/ GiveUp(t)
  <2> USE <1>0, <1>5 DEF TakeUnlock, GiveUp, Unlock
  <2>1. TypeOK'
    <3>1. lock' = [lock EXCEPT ![Table(cursor[t])] = NoThread] /\ lock' \in [Tables -> Threads \cup {NoThread}]
      BY DEF TypeOK
    <3>2. cursor' \in [Threads -> Nat]
      <4>1. cursor' = cursor \/ cursor' = [cursor EXCEPT ![t] = NextTable(cursor[t])]
        OBVIOUS
      <4> QED BY <1>1, <4>1 DEF TypeOK
    <3>3. pc' \in [Threads -> Labels]
      <4>1. pc' = [pc EXCEPT ![t] = "return"] \/ pc' = [pc EXCEPT ![t] = "tryLock"]
        OBVIOUS
      <4> QED BY <4>1 DEF TypeOK, Labels
    <3> QED BY <3>1, <3>2, <3>3 DEF TypeOK
  <2>2. \A u \in Threads : Owns(u)' = Owns(u)
    BY DEF Owns, RunOf
  <2>3. LockInv'
    <3>1. lock[Table(cursor[t])] = t
      BY DEF LockInv
    <3>2. \A u \in Threads : u # t => pc'[u] = pc[u] /\ cursor'[u] = cursor[u]
      BY DEF TypeOK
    <3>3. pc'[t] \notin {"check", "take", "unlock", "giveUp"}
      BY DEF TypeOK
    <3>4. \A b \in Tables : lock[b] # t => lock'[b] = lock[b]
      BY <3>1 DEF TypeOK
    <3> QED BY <3>2, <3>3, <3>4, TableType DEF LockInv, Usable, Frames
  <2>4. LocalInv'
    BY DEF TypeOK, LocalInv
  <2>5. ApartInv'
    BY DEF ApartInv, RunOf
  <2> QED BY <2>1, <2>2, <2>3, <2>4, <2>5, OwnersKept
<1> QED BY <1>2, <1>3, <1>4, <1>5

\* A frame that was found under the lock bit is nobody's, and nobody else can
\* take it before the lock bit is released.
LEMMA TakeKeeps ==
  ASSUME IInv, NEW t \in Threads, Take(t)
  PROVE  /\ IInv'
         /\ \A u \in Threads : u # t => Owns(u)' = Owns(u)
         /\ Owns(t)' = Owns(t) \cup ({cursor[t]} \ {0})
         /\ \A u \in Threads : cursor[t] \notin Owns(u)
<1> USE FramesAssumption DEF IInv, At, Goto, locals, slab, Take
<1> DEFINE f == cursor[t]
<1>0. TypeOK /\ f \in Frames /\ f \in Nat /\ Usable(f) /\ moving[t] = 0
      /\ lock[Table(f)] = t /\ Table(f) \in installed
  BY DEF OneTableUser, TypeOK, LockInv, LocalInv, Frames
<1>1. TypeOK'
  BY <1>0 DEF TypeOK, Labels
<1>2. \A u \in Threads : u # t => Owns(u)' = Owns(u)
  BY <1>0 DEF TypeOK, Owns, RunOf
<1>3. Owns(t)' = Owns(t) \cup ({f} \ {0})
  BY <1>0 DEF TypeOK, Owns, RunOf
<1>4. \A u \in Threads : f \notin Owns(u)
  BY <1>0 DEF OneTableUser, Usable, Owns
<1>5. OneTableUser'
  <2>1. \A g \in Frames : useCount'[g] = IF g = f THEN 1 ELSE useCount[g]
    BY <1>0 DEF TypeOK, Usable
  <2>2. \A u \in Threads, g \in Frames : g \in Owns(u)' <=> g \in Owns(u) \/ (u = t /\ g = f /\ f # 0)
    BY <1>2, <1>3
  <2> HIDE DEF f
  <2>3. (\A u \in Threads, g \in Frames : g \in Owns(u) => Table(g) \in installed)'
    BY <1>0, <2>2 DEF OneTableUser
  <2>4. (\A g \in Frames \ {0} : \/ useCount[g] = 1 /\ (g \in Lost <=> Unused(g))
                                 \/ useCount[g] = 0 /\ g \notin Lost /\ Unused(g))'
    <3> SUFFICES ASSUME NEW g \in Frames \ {0}
                 PROVE  (\/ useCount[g] = 1 /\ (g \in Lost <=> Unused(g))
                         \/ useCount[g] = 0 /\ g \notin Lost /\ Unused(g))'
      OBVIOUS
    <3>1. \/ useCount[g] = 1 /\ (g \in Lost <=> Unused(g))
          \/ useCount[g] = 0 /\ g \notin Lost /\ Unused(g)
      BY DEF OneTableUser, Unused
    <3>2. Lost' = Lost
      BY DEF Lost
    <3>3. CASE g = f
      <4>1. useCount[g] = 0
        BY <1>0, <3>3 DEF Usable
      <4>2. g \notin Lost /\ g \in Owns(t)'
        BY <2>2, <3>1, <3>3, <4>1
      <4> QED BY <2>1, <3>2, <3>3, <4>2 DEF Unused
    <3>4. CASE g # f
      <4>1. Unused(g)' <=> Unused(g)
        BY <2>2, <3>4 DEF Unused
      <4> QED BY <2>1, <3>1, <3>2, <3>4, <4>1
    <3> QED BY <3>3, <3>4
  <2>6. (\A u, v \in Threads : u # v => Owns(u) \cap Owns(v) = {})'
    BY <1>2, <1>3, <1>4 DEF OneTableUser
  <2>7. (\A u \in Threads : Owns(u) \cap Reserved = {})'
    BY <1>0, <1>2, <1>3 DEF OneTableUser, Usable
  <2> QED BY <1>1, <2>3, <2>4, <2>6, <2>7 DEF OneTableUser, Unused
<1>6. LockInv'
  <2>1. \A u \in Threads : u # t /\ pc[u] = "take" => cursor[u] # f
    BY <1>0 DEF LockInv
  <2>2. \A u \in Threads : u # t => pc'[u] = pc[u]
    BY <1>0 DEF TypeOK
  <2>3. pc'[t] = "unlock"
    BY <1>0 DEF TypeOK
  <2>4. \A g \in Frames : g # f => useCount'[g] = useCount[g]
    BY <1>0 DEF TypeOK
  <2> QED BY <1>0, <2>1, <2>2, <2>3, <2>4 DEF LockInv, Usable
<1>7. LocalInv'
  BY <1>0 DEF TypeOK, LocalInv
<1>8. ApartInv'
  BY <1>0, <1>4 DEF TypeOK, ApartInv, Owns, RunOf
<1> QED BY <1>2, <1>3, <1>4, <1>5, <1>6, <1>7, <1>8

-----------------------------------------------------------------------------
\* What the callers do with the result, up to the drop of a run.
LEMMA ReturnKeeps ==
  ASSUME IInv, NEW t \in Threads, Retry(t) \/ MapEnd(t) \/ Extend(t)
  PROVE  IInv' /\ \A u \in Threads : Owns(u)' = Owns(u)
<1> USE FramesAssumption DEF IInv, At, Goto, Search, locals, slab
<1>0. TypeOK
  BY DEF OneTableUser
<1>1. CASE Retry(t)
  <2> USE <1>0, <1>1 DEF Retry
  <2>1. TypeOK'
    BY DEF TypeOK, Labels
  <2>2. \A u \in Threads : Owns(u)' = Owns(u)
    BY DEF Owns, RunOf
  <2>3. LockInv'
    BY LockKept DEF TypeOK
  <2>4. LocalInv' /\ ApartInv'
    BY DEF TypeOK, LocalInv, ApartInv, RunOf
  <2> QED BY <2>1, <2>2, <2>3, <2>4, OwnersKept
<1>2. CASE MapEnd(t)
  <2> USE <1>0, <1>2 DEF MapEnd, Done
  <2>0. count[t] = 0 /\ start[t] \in Nat
    BY DEF TypeOK, LocalInv
  <2>1. TypeOK'
    BY ZeroFrame DEF TypeOK, Labels
  <2>2. \A u \in Threads : Owns(u)' = Owns(u)
    <3>1. RunOf(t) = {} /\ RunOf(t)' = {}
      BY <2>0 DEF TypeOK, RunOf
    <3>2. \A u \in Threads : u # t => Owns(u)' = Owns(u)
      BY DEF TypeOK, Owns, RunOf
    <3> QED BY <3>1, <3>2 DEF TypeOK, Owns
  <2>3. LockInv'
    BY LockKept DEF TypeOK
  <2>4. LocalInv'
    BY DEF TypeOK, LocalInv
  <2>5. ApartInv'
    BY DEF TypeOK, ApartInv, RunOf
  <2> QED BY <2>1, <2>2, <2>3, <2>4, <2>5, OwnersKept
<1>3. CASE Extend(t)
  <2> DEFINE first == IF count[t] = 0 THEN moving[t] ELSE start[t]
  <2>0. /\ pc[t] = "return" /\ call[t] \in RunLengths /\ call[t] \in Nat /\ count[t] \in Nat /\ start[t] \in Nat
        /\ moving[t] \in Frames /\ moving[t] \in Nat /\ first \in Nat
        /\ count[t] = 0 \/ moving[t] = start[t] + count[t]
    BY <1>0, <1>3 DEF Extend, TypeOK, LocalInv, Frames
  <2>1. first + count[t] = moving[t]
    BY <2>0
  <2>2. \A g \in Nat : first <= g /\ g <= first + count[t] <=> g \in RunOf(t) \/ g = moving[t]
    BY <2>0, <2>1 DEF RunOf
  <2>3. \A g \in Nat : first <= g /\ g <= first + count[t] => g \in Frames
    BY <1>0, <2>0, <2>1 DEF LocalInv
  <2> HIDE DEF first
  <2>4. CASE count[t] + 1 < call[t]
    <3> USE <2>0, <2>4
    <3>1. /\ start' = [start EXCEPT ![t] = first] /\ count' = [count EXCEPT ![t] = @ + 1]
          /\ moving' = [moving EXCEPT ![t] = 0] /\ cursor' = [cursor EXCEPT ![t] = first]
          /\ pc' = [pc EXCEPT ![t] = "tryLock"]
          /\ UNCHANGED <<mapped, call, attempt, useCount, installed, lock, slabMapped, slabUsed, leaked, fault>>
      BY <1>3 DEF Extend, first
    <3>2. TypeOK'
      BY <1>0, <3>1, ZeroFrame DEF TypeOK, Labels
    <3>3. \A g \in Nat : g \in RunOf(t)' <=> g \in RunOf(t) \/ g = moving[t]
      <4>1. start'[t] = first /\ count'[t] = count[t] + 1
        BY <1>0, <3>1 DEF TypeOK
      <4> QED BY <2>2, <4>1 DEF RunOf
    <3>4. \A u \in Threads : Owns(u)' = Owns(u)
      <4>1. \A u \in Threads : u # t => Owns(u)' = Owns(u)
        BY <1>0, <3>1 DEF TypeOK, Owns, RunOf
      <4>2. RunOf(t)' = RunOf(t) \cup {moving[t]}
        <5>1. RunOf(t)' \subseteq Nat /\ RunOf(t) \subseteq Nat
          BY <1>0, <3>2 DEF TypeOK, RunOf
        <5> QED BY <3>3, <5>1
      <4>3. mapped'[t] = mapped[t] /\ moving'[t] = 0
        BY <1>0, <3>1 DEF TypeOK
      <4>4. Owns(t)' = Owns(t)
        BY <4>2, <4>3 DEF Owns
      <4> QED BY <4>1, <4>4
    <3>5. LockInv'
      BY <1>0, <3>1, LockKept DEF TypeOK
    <3>6. LocalInv'
      <4>1. \A u \in Threads : u # t => /\ pc'[u] = pc[u] /\ moving'[u] = moving[u] /\ call'[u] = call[u]
                                       /\ count'[u] = count[u] /\ start'[u] = start[u]
        BY <1>0, <3>1 DEF TypeOK
      <4>2. /\ pc'[t] = "tryLock" /\ moving'[t] = 0 /\ call'[t] = call[t]
            /\ start'[t] = first /\ count'[t] = count[t] + 1
        BY <1>0, <3>1 DEF TypeOK
      <4>3. \A f \in Nat : start'[t] <= f /\ f < start'[t] + count'[t] => f \in Frames
        BY <2>1, <2>3, <4>2
      <4> QED BY <4>1, <4>2, <4>3, LocalKept
    <3>7. ApartInv'
      <4>1. \A u \in Threads : u # t => RunOf(u)' = RunOf(u) /\ mapped'[u] = mapped[u] /\ moving'[u] = moving[u]
        BY <1>0, <3>1 DEF TypeOK, RunOf
      <4>2. moving'[t] = 0 /\ mapped'[t] = mapped[t] /\ RunOf(t)' \subseteq Nat
        BY <1>0, <3>1, <3>2 DEF TypeOK, RunOf
      <4> QED BY <3>3, <4>1, <4>2 DEF ApartInv
    <3> QED BY <3>1, <3>2, <3>4, <3>5, <3>6, <3>7, OwnersKept
  <2>5. CASE ~(count[t] + 1 < call[t])
    <3> USE <2>0, <2>5
    <3>1. /\ mapped' = [mapped EXCEPT ![t] = @ \cup (first..(first + count[t]))]
          /\ moving' = [moving EXCEPT ![t] = 0] /\ Done(t)
          /\ UNCHANGED <<useCount, installed, lock, slabMapped, slabUsed, leaked, fault>>
      BY <1>3 DEF Extend, first
    <3>2. first..(first + count[t]) \subseteq Frames
      BY <2>3, <2>0
    <3>3. TypeOK'
      BY <1>0, <3>1, <3>2, ZeroFrame DEF TypeOK, Labels, Done
    <3>4. first..(first + count[t]) = RunOf(t) \cup {moving[t]}
      <4>1. RunOf(t) \subseteq Nat /\ first..(first + count[t]) \subseteq Nat
        BY <2>0 DEF RunOf
      <4>2. \A g \in Nat : g \in first..(first + count[t]) <=> g \in RunOf(t) \/ g = moving[t]
        BY <2>0, <2>2
      <4> QED BY <4>1, <4>2
    <3>5. mapped'[t] = mapped[t] \cup RunOf(t) \cup {moving[t]} /\ moving'[t] = 0 /\ RunOf(t)' = {}
      BY <1>0, <3>1, <3>4 DEF TypeOK, Done, RunOf
    <3>6. \A u \in Threads : u # t => RunOf(u)' = RunOf(u) /\ mapped'[u] = mapped[u] /\ moving'[u] = moving[u]
      BY <1>0, <3>1 DEF TypeOK, RunOf, Done
    <3>7. \A u \in Threads : Owns(u)' = Owns(u)
      BY <3>5, <3>6 DEF Owns
    <3>8. LockInv'
      BY <1>0, <3>1, LockKept DEF TypeOK, Done
    <3>9. LocalInv'
      <4>1. \A u \in Threads : u # t => /\ pc'[u] = pc[u] /\ moving'[u] = moving[u] /\ call'[u] = call[u]
                                       /\ count'[u] = count[u] /\ start'[u] = start[u]
        BY <1>0, <3>1 DEF TypeOK, Done
      <4>2. pc'[t] = "idle" /\ moving'[t] = 0 /\ call'[t] = 0 /\ start'[t] = 0 /\ count'[t] = 0
        BY <1>0, <3>1 DEF TypeOK, Done
      <4> QED BY <4>1, <4>2, LocalKept
    <3>10. ApartInv'
      BY <3>5, <3>6 DEF ApartInv
    <3> QED BY <3>1, <3>3, <3>7, <3>8, <3>9, <3>10, OwnersKept
  <2> QED BY <2>4, <2>5
<1> QED BY <1>1, <1>2, <1>3

-----------------------------------------------------------------------------
\* What a thread owns is not lost.
LEMMA OwnedNotLost ==
  ASSUME IInv, NEW t \in Threads, NEW f \in Owns(t)
  PROVE  f \notin leaked
<1>1. CASE f \in Frames \ {0}
  <2>1. ~(\A u \in Threads : f \notin Owns(u))
    OBVIOUS
  <2> QED BY <1>1, <2>1 DEF IInv, OneTableUser, Lost
<1>2. CASE f \notin Frames \ {0}
  BY <1>2 DEF IInv, OneTableUser, TypeOK
<1> QED BY <1>1, <1>2

\* A step of t that gives the frames of S away: their use counts become 0, or
\* they are lost to the tables.
Gives(t, S) ==
  /\ S \subseteq Owns(t) /\ Owns(t)' = Owns(t) \ S
  /\ \A u \in Threads : u # t => Owns(u)' = Owns(u)
  /\ leaked \subseteq leaked' /\ leaked' \subseteq leaked \cup S
  /\ \A f \in Frames \ {0} : f \notin S => useCount'[f] = useCount[f]
  /\ \A f \in S : \/ f \notin leaked' /\ useCount'[f] = 0
                  \/ f \in leaked' /\ useCount'[f] = useCount[f]

\* Such a step keeps the invariant.
LEMMA GiveKeeps ==
  ASSUME OneTableUser, TypeOK', UNCHANGED installed, NEW t \in Threads, NEW S, Gives(t, S)
  PROVE  OneTableUser'
<1> USE DEF Gives
<1>1. \A u \in Threads, f \in Frames : f \in Owns(u)' => f \in Owns(u) /\ f \notin S
  BY DEF OneTableUser
<1>2. (\A u \in Threads, f \in Frames : f \in Owns(u) => Table(f) \in installed)'
  BY <1>1 DEF OneTableUser
<1>3. (\A f \in Frames \ {0} : \/ useCount[f] = 1 /\ (f \in Lost <=> Unused(f))
                               \/ useCount[f] = 0 /\ f \notin Lost /\ Unused(f))'
  <2> SUFFICES ASSUME NEW f \in Frames \ {0}
               PROVE  (\/ useCount[f] = 1 /\ (f \in Lost <=> Unused(f))
                       \/ useCount[f] = 0 /\ f \notin Lost /\ Unused(f))'
    OBVIOUS
  <2>1. \/ useCount[f] = 1 /\ (f \in Lost <=> Unused(f))
        \/ useCount[f] = 0 /\ f \notin Lost /\ Unused(f)
    BY DEF OneTableUser, Unused
  <2>2. CASE f \in S
    <3>1. f \in Owns(t) /\ ~Unused(f)
      BY <2>2 DEF Unused
    <3>2. useCount[f] = 1 /\ f \notin SlabBoot /\ f \notin leaked
      BY <2>1, <3>1 DEF Lost
    <3>3. \A u \in Threads : u # t => f \notin Owns(u)
      BY <3>1 DEF OneTableUser
    <3>4. Unused(f)'
      BY <2>2, <3>3 DEF Unused
    <3> QED BY <2>2, <3>2, <3>4 DEF Lost
  <2>3. CASE f \notin S
    <3>1. Unused(f)' <=> Unused(f)
      BY <2>3 DEF Unused
    <3>2. f \in Lost' <=> f \in Lost
      BY <2>3 DEF Lost
    <3> QED BY <2>1, <2>3, <3>1, <3>2
  <2> QED BY <2>2, <2>3
<1>5. (\A u, v \in Threads : u # v => Owns(u) \cap Owns(v) = {})'
  BY DEF OneTableUser
<1>6. (\A u \in Threads : Owns(u) \cap Reserved = {})'
  BY DEF OneTableUser
<1> QED BY <1>2, <1>3, <1>5, <1>6 DEF OneTableUser, Unused

\* A run that does not continue is dropped: the slab allocator gets it, or its
\* frames are freed next.
LEMMA DropKeeps ==
  ASSUME IInv, NEW t \in Threads, Drop(t)
  PROVE  /\ IInv'
         /\ \A u \in Threads : u # t => Owns(u)' = Owns(u)
         /\ Owns(t)' \subseteq Owns(t)
<1> USE FramesAssumption DEF IInv, At, Goto, slab, Drop
<1>0. /\ TypeOK /\ pc[t] = "return" /\ count[t] \in Nat \ {0} /\ start[t] \in Nat /\ call[t] \in RunLengths
      /\ call[t] \in Nat /\ moving[t] \in Nat /\ count[t] < call[t]
  BY SMTT(30) DEF OneTableUser, TypeOK, LocalInv, Frames
<1>1. \A u \in Threads : u # t => /\ RunOf(u)' = RunOf(u) /\ mapped'[u] = mapped[u] /\ moving'[u] = moving[u]
                                  /\ Owns(u)' = Owns(u)
  BY <1>0 DEF TypeOK, Owns, RunOf
<1>2. LockInv'
  BY <1>0, LockKept DEF TypeOK
<1>3. CASE start[t] \in SlabFrames
  <2>1. /\ slabUsed' \subseteq slabUsed
        /\ count' = [count EXCEPT ![t] = 0] /\ leaked' = leaked \cup (RunOf(t) \ {0})
        /\ UNCHANGED <<pc, useCount, installed, lock, mapped, slabMapped, call, attempt, cursor, start, moving, fault>>
    BY <1>3 DEF SlabFreeBlock
  <2>2. TypeOK'
    <3>1. RunOf(t) \subseteq Frames
      BY <1>0 DEF RunOf, LocalInv
    <3> QED BY <1>0, <2>1, <3>1 DEF TypeOK
  <2>3. RunOf(t)' = {} /\ mapped'[t] = mapped[t] /\ moving'[t] = moving[t]
    BY <1>0, <2>1 DEF TypeOK, RunOf
  <2>4. Owns(t)' = Owns(t) \ (RunOf(t) \ {0})
    BY <2>3 DEF Owns, ApartInv
  <2>6. OneTableUser'
    <3> DEFINE S == RunOf(t) \ {0}
    <3>1. S \subseteq Owns(t)
      BY DEF Owns
    <3>2. leaked' = leaked \cup S
      BY <2>1
    <3>3. Owns(t)' = Owns(t) \ S
      BY <2>4
    <3> HIDE DEF S
    <3>4. Gives(t, S)
      BY <1>1, <2>1, <3>1, <3>2, <3>3 DEF Gives
    <3> QED BY <2>1, <2>2, <3>4, GiveKeeps
  <2>7. LocalInv'
    <3>1. count'[t] = 0 /\ \A u \in Threads : u # t => count'[u] = count[u]
      BY <1>0, <2>1 DEF TypeOK
    <3>2. \A f \in Nat : ~(start[t] <= f /\ f < start[t] + 0)
      BY <1>0
    <3> QED BY <1>0, <2>1, <3>1, <3>2, LocalKept DEF LocalInv
  <2>8. ApartInv'
    BY <1>1, <2>3 DEF ApartInv
  <2> QED BY <1>1, <1>2, <2>4, <2>6, <2>7, <2>8
<1>4. CASE start[t] \notin SlabFrames
  <2>1. /\ pc' = [pc EXCEPT ![t] = "drop"]
        /\ UNCHANGED <<slabUsed, leaked, count, useCount, installed, lock, mapped, slabMapped, call, attempt, cursor, start, moving, fault>>
    BY <1>4
  <2>2. TypeOK'
    BY <1>0, <2>1 DEF TypeOK, Labels
  <2>3. \A u \in Threads : Owns(u)' = Owns(u)
    BY <2>1 DEF Owns, RunOf
  <2>4. LocalInv'
    <3>1. pc'[t] = "drop" /\ \A u \in Threads : u # t => pc'[u] = pc[u]
      BY <1>0, <2>1 DEF TypeOK
    <3>2. call'[t] \in RunLengths \cup {0} /\ (count'[t] = 0 \/ count'[t] < call'[t])
      BY <1>0, <2>1
    <3>3. \A f \in Nat : start'[t] <= f /\ f < start'[t] + count'[t] => f \in Frames
      BY <2>1 DEF LocalInv
    <3> QED BY <1>0, <2>1, <3>1, <3>2, <3>3, LocalKept
  <2>5. ApartInv'
    BY <2>1 DEF ApartInv, RunOf
  <2> QED BY <1>2, <2>1, <2>2, <2>3, <2>4, <2>5, OwnersKept
<1> QED BY <1>3, <1>4

\* A use count that decrementUseCount() has changed.
LEMMA DecrementType ==
  ASSUME TypeOK, NEW f \in Frames, Decrement(f)
  PROVE  /\ useCount' \in [Frames -> Nat] /\ fault' \in {"none", "Underflow"}
         /\ \A g \in Frames : g # f => useCount'[g] = useCount[g]
         /\ useCount[f] = 0 => useCount'[f] = 0
         /\ useCount[f] = 1 => useCount'[f] = 0
<1>1. useCount \in [Frames -> Nat] /\ fault \in {"none", "Underflow"}
  BY DEF TypeOK
<1>2. CASE useCount[f] = 0
  BY <1>1, <1>2 DEF Decrement
<1>3. CASE useCount[f] # 0
  BY <1>1, <1>3 DEF Decrement
<1> QED BY <1>2, <1>3

\* The frames that a scan has found to be free stay so when others are freed.
LEMMA UsableKept ==
  ASSUME LockInv, UNCHANGED <<lock, installed>>,
         \A g \in Frames : useCount[g] = 0 => useCount'[g] = 0,
         \A u \in Threads : pc'[u] \in {"check", "take", "unlock", "giveUp"} => pc'[u] = pc[u] /\ cursor'[u] = cursor[u]
  PROVE  LockInv'
BY DEF LockInv, Usable

\* The frames of the run are freed one by one; each has the count 1.
LEMMA DropFrameKeeps ==
  ASSUME IInv, NEW t \in Threads, DropFrame(t)
  PROVE  /\ IInv'
         /\ \A u \in Threads : u # t => Owns(u)' = Owns(u)
         /\ Owns(t)' \subseteq Owns(t)
<1> USE FramesAssumption DEF IInv, At, Goto, slab, DropFrame
<1>0. /\ TypeOK /\ pc[t] = "drop" /\ count[t] \in Nat \ {0} /\ start[t] \in Nat
      /\ call[t] \in RunLengths /\ call[t] \in Nat /\ count[t] < call[t] /\ moving[t] \in Nat
  BY SMTT(30) DEF OneTableUser, TypeOK, LocalInv, Frames
<1>1. start[t] \in Frames
  BY <1>0 DEF LocalInv
<1>2. /\ start'[t] = start[t] + 1 /\ count'[t] = count[t] - 1
      /\ moving'[t] = moving[t] /\ mapped'[t] = mapped[t] /\ call'[t] = call[t]
      /\ pc'[t] = IF count[t] = 1 THEN "return" ELSE "drop"
  BY <1>0 DEF TypeOK
<1>3. \A u \in Threads : u # t => /\ pc'[u] = pc[u] /\ moving'[u] = moving[u] /\ call'[u] = call[u]
                                  /\ count'[u] = count[u] /\ start'[u] = start[u]
  BY <1>0 DEF TypeOK
<1>4. TypeOK'
  <2>1. start' \in [Threads -> Nat] /\ count' \in [Threads -> Nat] /\ pc' \in [Threads -> Labels]
    BY <1>0 DEF TypeOK, Labels
  <2> QED BY <1>0, <1>1, <2>1, DecrementType DEF TypeOK
<1>5. RunOf(t)' = RunOf(t) \ {start[t]}
  BY <1>0, <1>2 DEF RunOf
<1>6. \A u \in Threads : u # t => RunOf(u)' = RunOf(u) /\ mapped'[u] = mapped[u] /\ Owns(u)' = Owns(u)
  BY <1>3 DEF RunOf, Owns
<1>7. Owns(t)' = Owns(t) \ ({start[t]} \ {0}) /\ {start[t]} \ {0} \subseteq Owns(t)
  <2>1. start[t] \in RunOf(t)
    BY <1>0 DEF RunOf
  <2>2. start[t] # 0 => start[t] \notin mapped[t] /\ start[t] # moving[t]
    BY <2>1 DEF ApartInv
  <2> QED BY <1>2, <1>5, <2>1, <2>2 DEF Owns
<1>8. /\ \A g \in Frames : g # start[t] => useCount'[g] = useCount[g]
      /\ \A g \in Frames : useCount[g] = 0 => useCount'[g] = 0
      /\ start[t] # 0 => useCount'[start[t]] = 0
  <2>1. start[t] # 0 => useCount[start[t]] = 1
    BY <1>1, <1>7 DEF OneTableUser
  <2> QED BY <1>0, <1>1, <2>1, DecrementType
<1>9. OneTableUser'
  <2> DEFINE S == {start[t]} \ {0}
  <2>1. S \subseteq Owns(t) /\ Owns(t)' = Owns(t) \ S
    BY <1>7
  <2>2. \A f \in Frames \ {0} : f \notin S => useCount'[f] = useCount[f]
    BY <1>8
  <2>3. \A f \in S : useCount'[f] = 0
    BY <1>8
  <2>4. UNCHANGED <<installed, leaked>>
    OBVIOUS
  <2> HIDE DEF S, DropFrame, IInv
  <2>5. OneTableUser
    BY DEF IInv
  <2>6. \A f \in S : f \notin leaked
    BY <2>1, OwnedNotLost
  <2>7. \A f \in S : f \notin leaked' /\ useCount'[f] = 0
    BY <2>3, <2>4, <2>6
  <2>8. Gives(t, S)
    <3>1. \A u \in Threads : u # t => Owns(u)' = Owns(u)
      BY <1>6
    <3>2. leaked \subseteq leaked' /\ leaked' \subseteq leaked \cup S
      BY <2>4
    <3>3. \A f \in S : \/ f \notin leaked' /\ useCount'[f] = 0
                       \/ f \in leaked' /\ useCount'[f] = useCount[f]
      BY <2>7
    <3> QED BY <2>1, <2>2, <3>1, <3>2, <3>3, Zenon DEF Gives
  <2> QED BY <1>4, <2>4, <2>5, <2>8, GiveKeeps
<1>10. LockInv'
  BY <1>2, <1>3, <1>8, UsableKept DEF TypeOK
<1>11. LocalInv'
  <2>1. \A f \in Nat : start'[t] <= f /\ f < start'[t] + count'[t] => f \in Frames
    BY <1>0, <1>2 DEF LocalInv
  <2>2. pc'[t] = "drop" => count'[t] > 0
    BY <1>0, <1>2
  <2>3. count'[t] < call'[t]
    BY <1>0, <1>2
  <2> QED BY <1>0, <1>2, <1>3, <2>1, <2>2, <2>3, LocalKept
<1>12. ApartInv'
  BY <1>2, <1>3, <1>5, <1>6 DEF ApartInv
<1> QED BY <1>6, <1>7, <1>9, <1>10, <1>11, <1>12

\* freePhysicalMemory() of a page that was unmapped.
LEMMA FreeKeeps ==
  ASSUME IInv, NEW t \in Threads, Free(t)
  PROVE  /\ IInv'
         /\ \A u \in Threads : u # t => Owns(u)' = Owns(u)
         /\ Owns(t)' \subseteq Owns(t)
<1> USE FramesAssumption DEF IInv, At, Goto, slab, locals, Free
<1> DEFINE m == moving[t]
<1>0. TypeOK /\ pc[t] = "free" /\ m \in Frames /\ m # 0
  BY DEF OneTableUser, TypeOK, LocalInv
<1>1. /\ moving'[t] = 0 /\ pc'[t] = "idle"
      /\ \A u \in Threads : u # t => pc'[u] = pc[u] /\ moving'[u] = moving[u]
  BY <1>0 DEF TypeOK
<1>2. /\ \A g \in Frames : g # m => useCount'[g] = useCount[g]
      /\ \A g \in Frames : useCount[g] = 0 => useCount'[g] = 0
      /\ \/ useCount'[m] = 0 /\ leaked' = leaked
         \/ useCount'[m] = useCount[m] /\ leaked' = leaked \cup {m}
      /\ useCount' \in [Frames -> Nat] /\ fault' \in {"none", "Underflow"} /\ slabUsed' \subseteq slabUsed
  <2>1. CASE m \in SlabFrames
    BY <1>0, <2>1 DEF TypeOK, SlabFreeBlock
  <2>2. CASE m \notin SlabFrames
    <3>1. useCount[m] = 1
      BY <1>0 DEF OneTableUser, Owns
    <3> QED BY <1>0, <2>2, <3>1, DecrementType
  <2> QED BY <2>1, <2>2
<1>3. TypeOK'
  BY <1>0, <1>2, ZeroFrame DEF TypeOK, Labels
<1>4. \A u \in Threads : RunOf(u)' = RunOf(u) /\ mapped'[u] = mapped[u]
  BY DEF RunOf
<1>5. Owns(t)' = Owns(t) \ {m} /\ {m} \subseteq Owns(t)
  BY <1>0, <1>1, <1>4 DEF Owns, ApartInv
<1>6. \A u \in Threads : u # t => Owns(u)' = Owns(u)
  BY <1>1, <1>4 DEF Owns
<1>7. OneTableUser'
  <2> DEFINE S == {m}
  <2>1. OneTableUser /\ UNCHANGED installed
    OBVIOUS
  <2>2. S \subseteq Owns(t) /\ Owns(t)' = Owns(t) \ S
    BY <1>5
  <2>3. /\ leaked \subseteq leaked' /\ leaked' \subseteq leaked \cup S
        /\ \A f \in Frames \ {0} : f \notin S => useCount'[f] = useCount[f]
    BY <1>2
  <2>4. \/ m \notin leaked' /\ useCount'[m] = 0
        \/ m \in leaked' /\ useCount'[m] = useCount[m]
    <3>1. m \notin leaked
      BY <1>5, OwnedNotLost
    <3>2. CASE useCount'[m] = 0 /\ leaked' = leaked
      BY <3>1, <3>2
    <3>3. CASE useCount'[m] = useCount[m] /\ leaked' = leaked \cup {m}
      BY <3>3
    <3> QED BY <1>2, <3>2, <3>3
  <2>5. Gives(t, S)
    <3>1. \A f \in S : \/ f \notin leaked' /\ useCount'[f] = 0
                       \/ f \in leaked' /\ useCount'[f] = useCount[f]
      <4>1. \A f \in S : f = m
        OBVIOUS
      <4> HIDE DEF S, m, Free, IInv
      <4> QED BY <2>4, <4>1, Zenon
    <3> HIDE DEF S, m, Free, IInv
    <3> QED BY <1>6, <2>2, <2>3, <3>1, Zenon DEF Gives
  <2> HIDE DEF S, m, Free, IInv
  <2> QED BY <1>3, <2>1, <2>5, GiveKeeps
<1>8. LockInv'
  BY <1>1, <1>2, UsableKept DEF TypeOK
<1>9. LocalInv'
  BY <1>0, <1>1 DEF TypeOK, LocalInv
<1>10. ApartInv'
  BY <1>1, <1>4 DEF ApartInv
<1> QED BY <1>5, <1>6, <1>7, <1>8, <1>9, <1>10

\* freePageTable() gives up a page and loses its frame.
LEMMA FreePageTableKeeps ==
  ASSUME IInv, NEW t \in Threads, NEW f \in Frames, FreePageTable(t, f)
  PROVE  /\ IInv'
         /\ \A u \in Threads : u # t => Owns(u)' = Owns(u)
         /\ Owns(t)' \subseteq Owns(t)
<1> USE DEF IInv, At, slab, locals, FreePageTable
<1>0. TypeOK /\ pc[t] = "idle" /\ moving[t] = 0 /\ count[t] = 0 /\ start[t] \in Nat
  BY DEF OneTableUser, TypeOK, LocalInv
<1>1. TypeOK'
  BY <1>0 DEF TypeOK
<1>2. /\ mapped'[t] = mapped[t] \ {f} /\ \A u \in Threads : u # t => mapped'[u] = mapped[u]
      /\ \A u \in Threads : RunOf(u)' = RunOf(u)
  BY <1>0 DEF TypeOK, RunOf
<1>3. \A u \in Threads : u # t => Owns(u)' = Owns(u)
  BY <1>2 DEF Owns
<1>4. Owns(t)' = Owns(t) \ ({f} \ {0}) /\ {f} \ {0} \subseteq Owns(t)
  <2>1. RunOf(t) = {}
    BY <1>0 DEF RunOf
  <2> QED BY <1>0, <1>2, <2>1 DEF Owns
<1>5. OneTableUser'
  <2> DEFINE S == {f} \ {0}
  <2>1. S \subseteq Owns(t) /\ Owns(t)' = Owns(t) \ S /\ leaked' = leaked \cup S
    BY <1>4
  <2> HIDE DEF S
  <2>2. Gives(t, S)
    BY <1>3, <2>1 DEF Gives
  <2> QED BY <1>1, <2>2, GiveKeeps
<1>6. LockInv'
  BY LockKept
<1>7. LocalInv' /\ ApartInv'
  BY <1>2 DEF LocalInv, ApartInv
<1> QED BY <1>3, <1>4, <1>5, <1>6, <1>7

-----------------------------------------------------------------------------
\* A step that changes nothing.
LEMMA StutterKeeps ==
  ASSUME IInv, UNCHANGED vars
  PROVE  IInv' /\ \A u \in Threads : Owns(u)' = Owns(u)
<1> USE DEF vars
<1>1. \A u \in Threads : Owns(u)' = Owns(u) /\ RunOf(u)' = RunOf(u)
  BY DEF Owns, RunOf
<1>2. OneTableUser'
  BY <1>1, OwnersKept DEF IInv, OneTableUser, TypeOK
<1>3. LockInv' /\ LocalInv' /\ ApartInv'
  BY <1>1 DEF IInv, LockInv, LocalInv, ApartInv, Usable
<1> QED BY <1>1, <1>2, <1>3 DEF IInv

\* Every step keeps the invariant: one fact per action.
LEMMA StepInv == IInv /\ [Next]_vars => IInv'
<1> SUFFICES ASSUME IInv, [Next]_vars PROVE IInv'
  OBVIOUS
<1>1. ASSUME NEW t \in Threads, Step(t) PROVE IInv'
  BY <1>1, ScanKeeps, TakeKeeps, ReturnKeeps, DropKeeps, DropFrameKeeps, FreeKeeps DEF Step
<1>2. ASSUME NEW t \in Threads,
             \/ Map(t)
             \/ \E n \in RunLengths : MapSlab(t, n) \/ MapIO(t, n)
             \/ \E f \in Frames : Unmap(t, f) \/ UnmapSlab(t, f)
      PROVE  IInv'
  BY <1>2, CallsKeep
<1>3. ASSUME NEW t \in Threads, NEW f \in Frames, FreePageTable(t, f) PROVE IInv'
  BY <1>3, FreePageTableKeeps
<1>4. CASE UNCHANGED vars
  BY <1>4, StutterKeeps
<1> QED BY <1>1, <1>2, <1>3, <1>4 DEF Next

\* The inductive invariant of the allocator.
THEOREM InvHolds == Spec => []IInv
BY InitInv, StepInv, PTL DEF Spec

\* map(), unmap(), freePageTable() and mapIO(), whatever the order of their
\* atomic steps, never give a frame of the tables to two threads; its use count
\* never leaves 0 and 1, so that freeBlock() without a lock meets no underflow
\* for a frame other than 0.  Users of slab blocks are not counted.
THEOREM TableFramesHaveOneUser == Spec => []OneTableUser
<1>1. IInv => OneTableUser
  BY DEF IInv
<1> QED BY <1>1, InvHolds, PTL

-----------------------------------------------------------------------------
\* A step of the allocator takes one frame that is nobody's, gives frames of
\* one thread back, or leaves the ownership alone.
LEMMA StepRefines ==
  ASSUME IInv, [Next]_vars
  PROVE  [Owners!Next]_([t \in Threads |-> Owns(t)])
<1> DEFINE owned == [t \in Threads |-> Owns(t)]
<1>0. owned' = [t \in Threads |-> Owns(t)']
  OBVIOUS
<1>1. ASSUME \A u \in Threads : Owns(u)' = Owns(u) PROVE owned' = owned
  BY <1>0, <1>1
<1>2. ASSUME NEW t \in Threads, Take(t) PROVE Owners!Next \/ owned' = owned
  <2>1. cursor[t] \in Frames
    BY <1>2 DEF Take, At, IInv, LockInv
  <2>2. /\ \A u \in Threads : u # t => Owns(u)' = Owns(u)
        /\ Owns(t)' = Owns(t) \cup ({cursor[t]} \ {0})
        /\ \A u \in Threads : cursor[t] \notin Owns(u)
    BY <1>2, TakeKeeps
  <2>3. CASE cursor[t] = 0
    BY <1>1, <2>2, <2>3
  <2>4. CASE cursor[t] # 0
    <3>1. owned' = [owned EXCEPT ![t] = @ \cup {cursor[t]}]
      BY <1>0, <2>2, <2>4
    <3>2. Owners!Take(t, cursor[t])
      BY <2>2, <3>1 DEF Owners!Take
    <3> QED BY <2>1, <2>4, <3>2 DEF Owners!Next
  <2> QED BY <2>3, <2>4
<1>3. ASSUME NEW t \in Threads, Drop(t) \/ DropFrame(t) \/ Free(t) \/ \E f \in Frames : FreePageTable(t, f)
      PROVE  Owners!Next
  <2> DEFINE F == Owns(t) \ Owns(t)'
  <2>1. /\ IInv'
        /\ \A u \in Threads : u # t => Owns(u)' = Owns(u)
        /\ Owns(t)' = Owns(t) \ F /\ F \subseteq Owns(t)
    BY <1>3, DropKeeps, DropFrameKeeps, FreeKeeps, FreePageTableKeeps
  <2>2. F \subseteq Frames \ {0}
    <3>1. mapped[t] \cup {moving[t]} \subseteq Frames /\ start[t] \in Nat /\ count[t] \in Nat
      BY DEF IInv, OneTableUser, TypeOK
    <3>2. RunOf(t) \subseteq Frames
      BY <3>1 DEF RunOf, IInv, LocalInv
    <3> QED BY <3>1, <3>2 DEF Owns
  <2> HIDE DEF F
  <2>3. owned' = [owned EXCEPT ![t] = @ \ F]
    BY <1>0, <2>1
  <2>4. Owners!Give(t, F)
    BY <2>1, <2>3 DEF Owners!Give
  <2> QED BY <2>2, <2>4 DEF Owners!Next
<1>4. ASSUME NEW t \in Threads,
             \/ SearchFails(t) \/ TryLock(t) \/ Check(t) \/ TakeUnlock(t) \/ GiveUp(t)
             \/ Retry(t) \/ MapEnd(t) \/ Extend(t)
             \/ Map(t)
             \/ \E n \in RunLengths : MapSlab(t, n) \/ MapIO(t, n)
             \/ \E f \in Frames : Unmap(t, f) \/ UnmapSlab(t, f)
      PROVE  owned' = owned
  BY <1>1, <1>4, CallsKeep, ScanKeeps, ReturnKeeps
<1>5. CASE UNCHANGED vars
  BY <1>1, <1>5, StutterKeeps
<1>6. CASE Next
  <2>1. PICK t \in Threads : \/ Step(t)
                             \/ Map(t)
                             \/ \E n \in RunLengths : MapSlab(t, n) \/ MapIO(t, n)
                             \/ \E f \in Frames : Unmap(t, f) \/ FreePageTable(t, f) \/ UnmapSlab(t, f)
    BY <1>6 DEF Next
  <2>2. CASE Take(t)
    BY <1>2, <2>2
  <2>3. CASE Drop(t) \/ DropFrame(t) \/ Free(t) \/ \E f \in Frames : FreePageTable(t, f)
    BY <1>3, <2>3
  <2>4. CASE \/ SearchFails(t) \/ TryLock(t) \/ Check(t) \/ TakeUnlock(t) \/ GiveUp(t)
             \/ Retry(t) \/ MapEnd(t) \/ Extend(t)
             \/ Map(t)
             \/ \E n \in RunLengths : MapSlab(t, n) \/ MapIO(t, n)
             \/ \E f \in Frames : Unmap(t, f) \/ UnmapSlab(t, f)
    BY <1>4, <2>4
  <2> QED BY <2>1, <2>2, <2>3, <2>4 DEF Step
<1> QED BY <1>5, <1>6

\* The allocation tables with their lock bits implement exclusive ownership.
THEOREM Refinement == Spec => ImplementsFrameOwners
<1>1. Init => Owners!Init
  <2> SUFFICES ASSUME Init PROVE [t \in Threads |-> Owns(t)] = BootMapped
    BY DEF Owners!Init
  <2>1. \A t \in Threads : Owns(t) = BootMapped[t]
    <3> TAKE t \in Threads
    <3>1. start[t] = 0 /\ count[t] = 0 /\ mapped[t] = BootMapped[t] /\ moving[t] = 0
      BY DEF Init
    <3>2. RunOf(t) = {} /\ BootMapped[t] \subseteq Frames \ {0}
      BY <3>1, FramesAssumption DEF RunOf
    <3> QED BY <3>1, <3>2 DEF Owns
  <2> QED BY <2>1, FramesAssumption
<1>2. IInv /\ [Next]_vars => [Owners!Next]_([t \in Threads |-> Owns(t)])
  BY StepRefines
<1> QED BY <1>1, <1>2, InvHolds, PTL DEF Spec, ImplementsFrameOwners, Owners!Spec

-----------------------------------------------------------------------------
(***************************************************************************)
(* The heap                                                                *)
(*                                                                         *)
(* The invariant describes the list by the order of addresses: a chunk     *)
(* points to the least chunk behind it and to the greatest in front of it. *)
(* Sound() says this of a list h, its chunks F and the blocks B around     *)
(* them, and every operator of the model is shown to turn a sound list     *)
(* into a sound list of other chunks and blocks.                           *)
(***************************************************************************)
\* The least of the addresses F, the next one after c and the last one in
\* front of it, or Null
Least(F, f) == (f = Null /\ F = {}) \/ (f \in F /\ \A d \in F : f <= d)
Successor(F, c, n) ==
  (n = Null /\ \A d \in F : d <= c) \/ (n \in F /\ c < n /\ \A d \in F : d <= c \/ n <= d)
Predecessor(F, c, p) ==
  (p = Null /\ \A d \in F : c <= d) \/ (p \in F /\ p < c /\ \A d \in F : c <= d \/ d <= p)

\* h is the list of the chunks F: its pointers lead from each chunk to the
\* next one by address, and back.
ListOf(h, F) ==
  /\ F \subseteq Addresses /\ Least(F, h.first)
  /\ \A c \in F : Successor(F, c, h.next[c]) /\ Predecessor(F, c, h.prev[c])

\* No two chunks could be one.
Separated(h, F) == \A c \in F : h.next[c] # Null => End(h, c) < h.next[c]

\* The same, but for the chunks x and y
Apart(h, F, x, y) == \A c \in F : c # x /\ c # y /\ h.next[c] # Null => End(h, c) < h.next[c]

\* Headers at H with the sizes s partition the heap.
Tiling(H, s) ==
  /\ H \subseteq Addresses /\ s \in [Addresses -> 0..Total]
  /\ \A a \in H : a + HeaderSize + s[a] <= Total
  /\ \A a, b \in H : a < b => a + HeaderSize + s[a] <= b
  /\ \A w \in Addresses : \E a \in H : a <= w /\ w < a + HeaderSize + s[a]

\* The sizes of the chunks F, which are in their headers, and those of all
\* other blocks, which a call that shrinks a block has yet to write
Measure(h, F, k) == [a \in Addresses |-> IF a \in F THEN h.size[a] ELSE k[a]]

\* The list h with the chunks F, between blocks B of the sizes k
Sound(h, F, B, k) ==
  /\ h \in Lists /\ ListOf(h, F)
  /\ B \subseteq Addresses /\ F \cap B = {} /\ k \in [Addresses -> 0..Total]
  /\ Tiling(F \cup B, Measure(h, F, k))

Chunks == InList(heap, heap.first)
BlockSizes == [a \in Addresses |-> Size(a)]

\* The inductive invariant
HeapInv ==
  /\ HeapTypeOK
  /\ Sound(heap, Chunks, Blocks, BlockSizes)
  /\ Separated(heap, Chunks)
  /\ BlockFits

\* A set of numbers that is not empty has a smallest one: what the proofs below
\* use in place of an induction along the list.
LEMMA Smallest ==
  ASSUME NEW S, S \subseteq Nat, S # {}
  PROVE  \E x \in S : \A y \in S : x <= y
<1> DEFINE R == OpToRel(<, Nat)
<1>1. IsWellFoundedOn(R, Nat)
  BY NatLessThanWellFounded
<1>2. R = {ss \in Nat \X Nat : ss[1] < ss[2]}
  BY DEF OpToRel
<1> HIDE DEF R
<1>3. PICK x \in S : \A y \in S : ~(<<y, x>> \in R)
  BY <1>1, WFMin
<1>4. ASSUME NEW y \in S, y < x PROVE FALSE
  <2>1. <<y, x>> \in Nat \X Nat /\ <<y, x>>[1] = y /\ <<y, x>>[2] = x
    OBVIOUS
  <2>2. <<y, x>> \in R
    BY <1>2, <1>4, <2>1
  <2> QED BY <1>3, <2>2
<1>5. \A y \in S : x <= y
  BY <1>4
<1> QED BY <1>5

Follow(h, c) == IF c = Null THEN Null ELSE h.next[c]

\* The chunks that are reached from c, one step at a time
LEMMA ChainDef ==
  ASSUME NEW h, NEW c
  PROVE  /\ Chain(h, c)[0] = c
         /\ \A i \in 1..Total : Chain(h, c)[i] = Follow(h, Chain(h, c)[i - 1])
<1> DEFINE Good(g, n) == /\ g = [i \in 0..n |-> g[i]] /\ g[0] = c
                         /\ \A i \in 1..n : g[i] = Follow(h, g[i - 1])
           Bad == {n \in 0..Total : ~\E g : Good(g, n)}
<1>0. Total \in Nat
  BY HeapAssumption
<1>1. Bad = {}
  <2> SUFFICES ASSUME Bad # {} PROVE FALSE
    OBVIOUS
  <2>0. Bad \subseteq Nat
    BY <1>0
  <2>1. PICK n \in Bad : \A m \in Bad : n <= m
    <3> HIDE DEF Bad
    <3> QED BY <2>0, Smallest
  <2>2. CASE n = 0
    <3>1. Good([i \in 0..0 |-> c], 0)
      OBVIOUS
    <3> QED BY <2>2, <3>1
  <2>3. CASE n # 0
    <3>1. n - 1 \in 0..Total /\ n - 1 \notin Bad
      BY <1>0, <2>1, <2>3
    <3>2. PICK g : Good(g, n - 1)
      BY <3>1
    <3> DEFINE k == [i \in 0..n |-> IF i = n THEN Follow(h, g[n - 1]) ELSE g[i]]
    <3>3. n \in Nat \ {0} /\ n - 1 \in 0..n /\ n \in 0..n /\ 0 \in 0..n
      BY <1>0, <2>3
    <3>4. k[n] = Follow(h, g[n - 1]) /\ \A i \in 0..n : i # n => k[i] = g[i]
      BY <3>3
    <3>5. k = [i \in 0..n |-> k[i]]
      OBVIOUS
    <3> HIDE DEF k
    <3>6. k[0] = c
      BY <3>2, <3>3, <3>4
    <3>7. ASSUME NEW i \in 1..n PROVE k[i] = Follow(h, k[i - 1])
      <4>1. i - 1 \in 0..n /\ i - 1 # n /\ i \in 0..n
        BY <3>3
      <4>2. k[i - 1] = g[i - 1]
        BY <3>4, <4>1
      <4>3. CASE i = n
        BY <3>4, <4>2, <4>3
      <4>4. CASE i # n
        <5>1. i \in 1..(n - 1)
          BY <3>3, <4>4
        <5> QED BY <3>2, <3>4, <4>1, <4>2, <4>4, <5>1
      <4> QED BY <4>3, <4>4
    <3>8. Good(k, n)
      BY <3>5, <3>6, <3>7
    <3> QED BY <3>8
  <2> QED BY <2>2, <2>3
<1>2. PICK g : Good(g, Total)
  BY <1>0, <1>1
<1>3. g = [i \in 0..Total |-> IF i = 0 THEN c ELSE IF g[i - 1] = Null THEN Null ELSE h.next[g[i - 1]]]
  <2>1. \A i \in 0..Total : g[i] = IF i = 0 THEN c ELSE IF g[i - 1] = Null THEN Null ELSE h.next[g[i - 1]]
    <3> TAKE i \in 0..Total
    <3>1. CASE i = 0
      BY <1>2, <3>1
    <3>2. CASE i # 0
      <4>1. i \in 1..Total
        BY <1>0, <3>2
      <4> QED BY <1>2, <3>2, <4>1 DEF Follow
    <3> QED BY <3>1, <3>2
  <2> QED BY <1>2, <2>1
<1> DEFINE Eq(f) == f = [i \in 0..Total |-> IF i = 0 THEN c ELSE IF f[i - 1] = Null THEN Null ELSE h.next[f[i - 1]]]
<1>4. Eq(g)
  BY <1>3
<1>5. Chain(h, c) = CHOOSE f : Eq(f)
  BY DEF Chain
<1>6. Eq(Chain(h, c))
  <2> HIDE DEF Eq
  <2> QED BY <1>4, <1>5
<1> QED BY <1>0, <1>6 DEF Follow

-----------------------------------------------------------------------------
\* The pointers of the list fit each other.
LEMMA ListLinks ==
  ASSUME NEW h, NEW F, ListOf(h, F)
  PROVE  /\ F \subseteq Addresses /\ F \subseteq Nat /\ Null \notin F
         /\ h.first = Null => F = {}
         /\ h.first # Null => /\ h.first \in F /\ h.prev[h.first] = Null
                              /\ \A c \in F : h.first <= c
         /\ \A c \in F : h.next[c] = Null => \A d \in F : d <= c
         /\ \A c \in F : h.next[c] # Null =>
              /\ h.next[c] \in F /\ c < h.next[c] /\ h.prev[h.next[c]] = c
              /\ \A d \in F : d <= c \/ h.next[c] <= d
         /\ \A c \in F : c # h.first =>
              /\ h.prev[c] \in F /\ h.next[h.prev[c]] = c /\ h.prev[c] < c
              /\ \A d \in F : c <= d \/ d <= h.prev[c]
<1>1. F \subseteq Addresses /\ F \subseteq Nat /\ Null \notin F
  <2>1. Total \in Nat /\ Null \notin Nat
    BY HeapAssumption
  <2>2. F \subseteq 0..(Total - 1)
    BY DEF ListOf, Addresses
  <2>3. \A c \in F : c \in Nat
    BY <2>1, <2>2
  <2> QED BY <2>1, <2>2, <2>3 DEF Addresses
<1>2. /\ h.first = Null => F = {}
      /\ h.first # Null => h.first \in F /\ \A c \in F : h.first <= c
  BY <1>1 DEF ListOf, Least
<1>3. ASSUME NEW c \in F
      PROVE  /\ h.next[c] = Null => \A d \in F : d <= c
             /\ h.next[c] # Null => /\ h.next[c] \in F /\ c < h.next[c]
                                    /\ \A d \in F : d <= c \/ h.next[c] <= d
             /\ h.prev[c] = Null => \A d \in F : c <= d
             /\ h.prev[c] # Null => /\ h.prev[c] \in F /\ h.prev[c] < c
                                    /\ \A d \in F : c <= d \/ d <= h.prev[c]
  BY <1>1, <1>3 DEF ListOf, Successor, Predecessor
<1>4. h.first # Null => h.prev[h.first] = Null
  <2> SUFFICES ASSUME h.first # Null, h.prev[h.first] # Null PROVE FALSE
    OBVIOUS
  <2>1. h.first \in Nat /\ h.prev[h.first] \in Nat /\ h.prev[h.first] < h.first /\ h.first <= h.prev[h.first]
    BY <1>1, <1>2, <1>3
  <2> QED BY <2>1
<1>5. ASSUME NEW c \in F, h.next[c] # Null PROVE h.prev[h.next[c]] = c
  <2>1. PICK n \in F : n = h.next[c] /\ c < n /\ \A d \in F : d <= c \/ n <= d
    BY <1>3, <1>5
  <2>2. PICK p : p = h.prev[n]
    OBVIOUS
  <2>3. p # Null
    <3>1. c \in Nat /\ n \in Nat /\ ~(n <= c)
      BY <1>1, <2>1
    <3> QED BY <1>3, <2>2, <3>1
  <2>4. p \in F /\ p < n /\ (n <= c \/ c <= p) /\ (p <= c \/ n <= p)
    BY <1>3, <2>1, <2>2, <2>3
  <2>5. p \in Nat /\ n \in Nat /\ c \in Nat
    BY <1>1, <2>4
  <2>6. p = c
    BY <2>1, <2>4, <2>5
  <2> QED BY <2>1, <2>2, <2>6
<1>6. ASSUME NEW c \in F, c # h.first
      PROVE  /\ h.prev[c] \in F /\ h.next[h.prev[c]] = c /\ h.prev[c] < c
             /\ \A d \in F : c <= d \/ d <= h.prev[c]
  <2>0. h.first \in F /\ h.first <= c
    BY <1>2, <1>6
  <2>1. h.prev[c] # Null
    <3>1. c \in Nat /\ h.first \in Nat
      BY <1>1, <2>0
    <3>2. ~(c <= h.first)
      BY <1>6, <2>0, <3>1
    <3> QED BY <1>3, <2>0, <3>2
  <2>2. PICK p \in F : p = h.prev[c] /\ p < c /\ \A d \in F : c <= d \/ d <= p
    BY <1>3, <2>1
  <2>3. PICK n : n = h.next[p]
    OBVIOUS
  <2>4. n # Null
    <3>1. c \in Nat /\ p \in Nat /\ ~(c <= p)
      BY <1>1, <2>2
    <3> QED BY <1>3, <2>3, <3>1
  <2>5. n \in F /\ p < n /\ (c <= n \/ n <= p) /\ (c <= p \/ n <= c)
    BY <1>3, <2>2, <2>3, <2>4
  <2>6. p \in Nat /\ n \in Nat /\ c \in Nat
    BY <1>1, <2>5
  <2>7. n = c
    BY <2>2, <2>5, <2>6
  <2> QED BY <2>2, <2>3, <2>7
<1> QED BY <1>1, <1>2, <1>3, <1>4, <1>5, <1>6

\* The list walked from one of its chunks stays in the list.
LEMMA ChainStays ==
  ASSUME NEW h, NEW F, ListOf(h, F), NEW c \in F \cup {Null}
  PROVE  \A i \in 0..Total : Chain(h, c)[i] \in F \cup {Null}
<1> DEFINE Bad == {i \in 0..Total : Chain(h, c)[i] \notin F \cup {Null}}
<1>0. Total \in Nat
  BY HeapAssumption
<1> SUFFICES ASSUME Bad # {} PROVE FALSE
  OBVIOUS
<1>1. PICK i \in Bad : \A j \in Bad : i <= j
  <2>1. Bad \subseteq Nat
    BY <1>0
  <2> HIDE DEF Bad
  <2> QED BY <2>1, Smallest
<1>2. i # 0
  BY <1>1, ChainDef
<1>3. i \in 1..Total /\ i - 1 \in 0..Total /\ i - 1 \notin Bad
  BY <1>0, <1>1, <1>2
<1>4. Chain(h, c)[i - 1] \in F \cup {Null}
  BY <1>3
<1>5. Chain(h, c)[i] = Follow(h, Chain(h, c)[i - 1])
  BY <1>3, ChainDef
<1> QED BY <1>4, <1>5, ListLinks DEF Follow

\* Position i of the walk from the first chunk is at address i at least.
LEMMA ChainRises ==
  ASSUME NEW h, NEW F, ListOf(h, F)
  PROVE  \A i \in 0..Total : Chain(h, h.first)[i] # Null => i <= Chain(h, h.first)[i]
<1> DEFINE f == Chain(h, h.first)
           Bad == {i \in 0..Total : f[i] # Null /\ ~(i <= f[i])}
<1>0. Total \in Nat /\ Null \notin Nat
  BY HeapAssumption
<1>1. h.first \in F \cup {Null} /\ F \subseteq Nat
  BY <1>0, ListLinks DEF Addresses
<1>2. \A i \in 0..Total : f[i] \in F \cup {Null}
  BY <1>1, ChainStays
<1>3. f[0] = h.first /\ \A i \in 1..Total : f[i] = Follow(h, f[i - 1])
  BY ChainDef
<1> HIDE DEF f
<1> SUFFICES ASSUME Bad # {} PROVE FALSE
  BY DEF f
<1>4. PICK i \in Bad : \A j \in Bad : i <= j
  <2>1. Bad \subseteq Nat
    BY <1>0
  <2> HIDE DEF Bad
  <2> QED BY <2>1, Smallest
<1>5. i \in 0..Total /\ f[i] \in Nat /\ ~(i <= f[i])
  BY <1>1, <1>2, <1>4
<1>6. i # 0
  BY <1>5
<1>7. i \in 1..Total /\ i - 1 \in 0..Total /\ i - 1 \notin Bad
  BY <1>0, <1>4, <1>6
<1>8. f[i - 1] # Null /\ f[i] = h.next[f[i - 1]]
  BY <1>3, <1>4, <1>7 DEF Follow
<1>9. f[i - 1] \in F /\ i - 1 <= f[i - 1] /\ f[i - 1] < f[i] /\ f[i] \in F
  BY <1>2, <1>4, <1>7, <1>8, ListLinks
<1>10. f[i - 1] \in Nat
  BY <1>1, <1>9
<1> QED BY <1>0, <1>5, <1>9, <1>10

\* The walk reaches every chunk of the list and nothing else.
LEMMA ListReached ==
  ASSUME NEW h, NEW F, ListOf(h, F)
  PROVE  InList(h, h.first) = F
<1> DEFINE f == Chain(h, h.first)
           Bad == {c \in F : \A i \in 0..Total : f[i] # c}
<1>0. Total \in Nat \ {0} /\ Null \notin Nat
  BY HeapAssumption
<1>1. h.first \in F \cup {Null} /\ F \subseteq Addresses /\ F \subseteq Nat
  BY <1>0, ListLinks DEF Addresses
<1>2. \A i \in 0..Total : f[i] \in F \cup {Null}
  BY <1>1, ChainStays
<1>3. f[0] = h.first /\ \A i \in 1..Total : f[i] = Follow(h, f[i - 1])
  BY ChainDef
<1>4. \A i \in 0..Total : f[i] # Null => i <= f[i]
  BY ChainRises
<1>5. InList(h, h.first) = {f[i] : i \in 0..Total} \ {Null}
  BY DEF InList
<1> HIDE DEF f
<1>6. Bad = {}
  <2> SUFFICES ASSUME Bad # {} PROVE FALSE
    OBVIOUS
  <2>1. PICK c \in Bad : \A d \in Bad : c <= d
    <3>1. Bad \subseteq Nat
      BY <1>1
    <3> HIDE DEF Bad
    <3> QED BY <3>1, Smallest
  <2>2. c # h.first
    BY <1>0, <1>3, <2>1
  <2>3. h.prev[c] \in F /\ h.next[h.prev[c]] = c /\ h.prev[c] < c
    BY <1>0, <1>1, <2>1, <2>2, ListLinks
  <2>4. h.prev[c] \notin Bad
    <3>1. c \in Nat /\ h.prev[c] \in Nat
      BY <1>1, <2>1, <2>3
    <3>2. ~(c <= h.prev[c])
      BY <2>3, <3>1
    <3> QED BY <2>1, <3>2
  <2>5. PICK i \in 0..Total : f[i] = h.prev[c]
    BY <2>3, <2>4
  <2>6. f[i] # Null /\ f[i] \in 0..(Total - 1)
    BY <1>0, <1>1, <2>3, <2>5 DEF Addresses
  <2>7. i <= f[i]
    BY <1>4, <2>6
  <2>8. i + 1 \in 1..Total /\ (i + 1) - 1 = i
    BY <1>0, <2>6, <2>7
  <2>9. f[i + 1] = c
    BY <1>3, <2>3, <2>5, <2>6, <2>8 DEF Follow
  <2> QED BY <2>1, <2>8, <2>9
<1>7. \A c \in F : c \in Nat /\ c # Null
  BY <1>0, <1>1
<1> QED BY <1>2, <1>5, <1>6, <1>7

-----------------------------------------------------------------------------
\* Addresses are numbers, and Null is none of them.
LEMMA PointerFacts ==
  /\ Null \in Pointers /\ Addresses \subseteq Pointers /\ Null \notin Addresses
  /\ Addresses \subseteq Nat /\ (\A p \in Pointers : p # Null => p \in Addresses)
  /\ Total \in Nat /\ HeaderSize \in Nat \ {0} /\ MinBlockSize \in Nat \ {0}
BY HeapAssumption DEF Addresses, Pointers

\* What the operations on the list write: Link() and SetNext() ...
LEMMA LinkNext ==
  ASSUME NEW h \in Lists, NEW a \in Pointers, NEW v \in Pointers
  PROVE  LET g == Link(h, "next", a, v)
         IN  /\ g \in Lists /\ g.first = h.first /\ g.size = h.size /\ g.prev = h.prev
             /\ \A x \in Addresses : g.next[x] = IF x = a THEN v ELSE h.next[x]
<1>1. CASE a = Null
  BY <1>1, PointerFacts DEF Link
<1>2. CASE a # Null
  BY <1>2 DEF Link, Lists, Pointers
<1> QED BY <1>1, <1>2

\* ... in the other direction, ...
LEMMA LinkPrev ==
  ASSUME NEW h \in Lists, NEW a \in Pointers, NEW v \in Pointers
  PROVE  LET g == Link(h, "prev", a, v)
         IN  /\ g \in Lists /\ g.first = h.first /\ g.size = h.size /\ g.next = h.next
             /\ \A x \in Addresses : g.prev[x] = IF x = a THEN v ELSE h.prev[x]
<1>1. CASE a = Null
  BY <1>1, PointerFacts DEF Link
<1>2. CASE a # Null
  BY <1>2 DEF Link, Lists, Pointers
<1> QED BY <1>1, <1>2

\* ... and of the list's begin when there is no chunk in front, ...
LEMMA SetNextFields ==
  ASSUME NEW h \in Lists, NEW p \in Pointers, NEW n \in Pointers
  PROVE  LET g == SetNext(h, p, n)
         IN  /\ g \in Lists /\ g.size = h.size /\ g.prev = h.prev
             /\ g.first = IF p = Null THEN n ELSE h.first
             /\ \A x \in Addresses : g.next[x] = IF x = p THEN n ELSE h.next[x]
<1>1. CASE p = Null
  BY <1>1, PointerFacts DEF SetNext, Lists
<1>2. CASE p # Null
  BY <1>2, LinkNext DEF SetNext
<1> QED BY <1>1, <1>2

\* ... Unlink() ...
LEMMA UnlinkWrites ==
  ASSUME NEW h \in Lists, NEW a \in Addresses
  PROVE  LET g == Unlink(h, a)
         IN  /\ g \in Lists /\ g.size = h.size
             /\ g.first = IF h.prev[a] = Null THEN h.next[a] ELSE h.first
             /\ \A x \in Addresses : g.next[x] =
                  IF x = a THEN Null ELSE IF x = h.prev[a] THEN h.next[a] ELSE h.next[x]
             /\ \A x \in Addresses : g.prev[x] =
                  IF x = a THEN Null ELSE IF x = h.next[a] THEN h.prev[a] ELSE h.prev[x]
<1>1. PICK p \in Pointers : p = h.prev[a]
  BY DEF Lists
<1>2. PICK n \in Pointers : n = h.next[a]
  BY DEF Lists
<1>3. PICK e : e = SetNext(h, p, n)
  OBVIOUS
<1>4. /\ e \in Lists /\ e.size = h.size /\ e.prev = h.prev
      /\ e.first = IF p = Null THEN n ELSE h.first
      /\ \A x \in Addresses : e.next[x] = IF x = p THEN n ELSE h.next[x]
  BY <1>3, SetNextFields
<1>5. PICK g : g = Link(e, "prev", n, p)
  OBVIOUS
<1>6. /\ g \in Lists /\ g.size = e.size /\ g.first = e.first /\ g.next = e.next
      /\ \A x \in Addresses : g.prev[x] = IF x = n THEN p ELSE e.prev[x]
  BY <1>4, <1>5, LinkPrev
<1>7. PICK u : u = Unlink(h, a)
  OBVIOUS
<1>8. u = [g EXCEPT !.next[a] = Null, !.prev[a] = Null]
  BY <1>1, <1>2, <1>3, <1>5, <1>7 DEF Unlink
<1>9. Null \in Pointers
  BY DEF Pointers
<1>10. /\ u \in Lists /\ u.size = g.size /\ u.first = g.first
       /\ \A x \in Addresses : u.next[x] = IF x = a THEN Null ELSE g.next[x]
       /\ \A x \in Addresses : u.prev[x] = IF x = a THEN Null ELSE g.prev[x]
  BY <1>6, <1>8, <1>9 DEF Lists
<1> QED BY <1>1, <1>2, <1>4, <1>6, <1>7, <1>10

\* ... and Insert().
LEMMA InsertWrites ==
  ASSUME NEW h \in Lists, NEW a \in Addresses, NEW p \in Pointers, NEW n \in Pointers
  PROVE  LET g == Insert(h, a, p, n)
         IN  /\ g \in Lists /\ g.size = h.size
             /\ g.first = IF p = Null THEN a ELSE h.first
             /\ \A x \in Addresses : g.next[x] = IF x = a THEN n ELSE IF x = p THEN a ELSE h.next[x]
             /\ \A x \in Addresses : g.prev[x] = IF x = a THEN p ELSE IF x = n THEN a ELSE h.prev[x]
<1>1. PICK b \in Pointers : b = a
  BY DEF Pointers
<1>2. PICK e : e = SetNext(h, p, b)
  OBVIOUS
<1>3. /\ e \in Lists /\ e.size = h.size /\ e.prev = h.prev
      /\ e.first = IF p = Null THEN b ELSE h.first
      /\ \A x \in Addresses : e.next[x] = IF x = p THEN b ELSE h.next[x]
  <2>1. CASE p = Null
    BY <1>2, <2>1, PointerFacts DEF SetNext, Lists
  <2>2. CASE p # Null
    BY <1>2, <2>2, PointerFacts DEF SetNext, Link, Lists
  <2> QED BY <2>1, <2>2
<1>4. PICK g : g = Link(e, "prev", n, b)
  OBVIOUS
<1>5. /\ g \in Lists /\ g.size = e.size /\ g.first = e.first /\ g.next = e.next
      /\ \A x \in Addresses : g.prev[x] = IF x = n THEN b ELSE e.prev[x]
  <2>1. CASE n = Null
    BY <1>3, <1>4, <2>1, PointerFacts DEF Link, Lists
  <2>2. CASE n # Null
    BY <1>3, <1>4, <2>2, PointerFacts DEF Link, Lists
  <2> QED BY <2>1, <2>2
<1>6. PICK u : u = Insert(h, a, p, n)
  OBVIOUS
<1>7. u = [g EXCEPT !.next[a] = n, !.prev[a] = p]
  BY <1>1, <1>2, <1>4, <1>6 DEF Insert
<1>8. /\ u \in Lists /\ u.size = g.size /\ u.first = g.first
      /\ \A x \in Addresses : u.next[x] = IF x = a THEN n ELSE g.next[x]
      /\ \A x \in Addresses : u.prev[x] = IF x = a THEN p ELSE g.prev[x]
  BY <1>5, <1>7 DEF Lists
<1> QED BY <1>1, <1>3, <1>5, <1>6, <1>8

\* Unlink() writes pointers only.
LEMMA UnlinkType ==
  ASSUME NEW h \in Lists, NEW a \in Addresses
  PROVE  Unlink(h, a) \in Lists /\ Unlink(h, a).size = h.size
BY UnlinkWrites

\* The pointers that Unlink() writes
LEMMA UnlinkFields ==
  ASSUME NEW h \in Lists, NEW a \in Addresses
  PROVE  LET g == Unlink(h, a)
         IN  /\ g.first = IF h.prev[a] = Null THEN h.next[a] ELSE h.first
             /\ \A x \in Addresses : g.next[x] =
                  IF x = a THEN Null ELSE IF x = h.prev[a] THEN h.next[a] ELSE h.next[x]
             /\ \A x \in Addresses : g.prev[x] =
                  IF x = a THEN Null ELSE IF x = h.next[a] THEN h.prev[a] ELSE h.prev[x]
BY UnlinkWrites

\* Insert() writes pointers only.
LEMMA InsertType ==
  ASSUME NEW h \in Lists, NEW a \in Addresses, NEW p \in Pointers, NEW n \in Pointers
  PROVE  Insert(h, a, p, n) \in Lists /\ Insert(h, a, p, n).size = h.size
BY InsertWrites

\* The pointers that Insert() writes
LEMMA InsertFields ==
  ASSUME NEW h \in Lists, NEW a \in Addresses, NEW p \in Pointers, NEW n \in Pointers
  PROVE  LET g == Insert(h, a, p, n)
         IN  /\ g.first = IF p = Null THEN a ELSE h.first
             /\ \A x \in Addresses : g.next[x] = IF x = a THEN n ELSE IF x = p THEN a ELSE h.next[x]
             /\ \A x \in Addresses : g.prev[x] = IF x = a THEN p ELSE IF x = n THEN a ELSE h.prev[x]
BY InsertWrites

-----------------------------------------------------------------------------
\* The order of the chunks when one leaves and when one is added
LEMMA OrderWithout ==
  ASSUME NEW F, F \subseteq Nat, Null \notin Nat, NEW a \in F,
         NEW p, Predecessor(F, a, p), NEW n, Successor(F, a, n)
  PROVE  /\ p # Null => Successor(F \ {a}, p, n)
         /\ n # Null => Predecessor(F \ {a}, n, p)
         /\ p = Null => Least(F \ {a}, n)
<1>0. a \in Nat /\ a # Null /\ Null \notin F
  OBVIOUS
<1>1. /\ p = Null => \A d \in F : a <= d
      /\ p # Null => p \in F /\ p < a /\ \A d \in F : a <= d \/ d <= p
  BY <1>0 DEF Predecessor
<1>2. /\ n = Null => \A d \in F : d <= a
      /\ n # Null => n \in F /\ a < n /\ \A d \in F : d <= a \/ n <= d
  BY <1>0 DEF Successor
<1>3. ASSUME p # Null PROVE Successor(F \ {a}, p, n)
  <2>0. p \in Nat /\ p \in F /\ p < a
    BY <1>1, <1>3
  <2>1. CASE n = Null
    <3>1. ASSUME NEW d \in F \ {a} PROVE d <= p
      <4>1. d \in Nat /\ d # a /\ d <= a /\ (a <= d \/ d <= p)
        BY <1>1, <1>2, <1>3, <2>1, <3>1
      <4> QED BY <1>0, <4>1
    <3> QED BY <2>1, <3>1 DEF Successor
  <2>2. CASE n # Null
    <3>0. n \in Nat /\ n \in F /\ a < n
      BY <1>2, <2>2
    <3>1. ASSUME NEW d \in F \ {a} PROVE d <= p \/ n <= d
      <4>1. d \in Nat /\ d # a /\ (d <= a \/ n <= d) /\ (a <= d \/ d <= p)
        BY <1>1, <1>2, <1>3, <2>2, <3>1
      <4> QED BY <1>0, <4>1
    <3>2. n \in F \ {a} /\ p < n
      BY <1>0, <2>0, <3>0
    <3> QED BY <3>1, <3>2 DEF Successor
  <2> QED BY <2>1, <2>2
<1>4. ASSUME n # Null PROVE Predecessor(F \ {a}, n, p)
  <2>0. n \in Nat /\ n \in F /\ a < n
    BY <1>2, <1>4
  <2>1. CASE p = Null
    <3>1. ASSUME NEW d \in F \ {a} PROVE n <= d
      <4>1. d \in Nat /\ d # a /\ (d <= a \/ n <= d) /\ a <= d
        BY <1>1, <1>2, <1>4, <2>1, <3>1
      <4> QED BY <1>0, <4>1
    <3> QED BY <2>1, <3>1 DEF Predecessor
  <2>2. CASE p # Null
    <3>0. p \in Nat /\ p \in F /\ p < a
      BY <1>1, <2>2
    <3>1. ASSUME NEW d \in F \ {a} PROVE n <= d \/ d <= p
      <4>1. d \in Nat /\ d # a /\ (d <= a \/ n <= d) /\ (a <= d \/ d <= p)
        BY <1>1, <1>2, <1>4, <2>2, <3>1
      <4> QED BY <1>0, <4>1
    <3>2. p \in F \ {a} /\ p < n
      BY <1>0, <2>0, <3>0
    <3> QED BY <3>1, <3>2 DEF Predecessor
  <2> QED BY <2>1, <2>2
<1>5. ASSUME p = Null PROVE Least(F \ {a}, n)
  <2>1. CASE n = Null
    <3>1. ASSUME NEW d \in F \ {a} PROVE FALSE
      <4>1. d \in Nat /\ d # a /\ d <= a /\ a <= d
        BY <1>1, <1>2, <1>5, <2>1, <3>1
      <4> QED BY <1>0, <4>1
    <3> QED BY <2>1, <3>1 DEF Least
  <2>2. CASE n # Null
    <3>0. n \in Nat /\ n \in F /\ a < n
      BY <1>2, <2>2
    <3>1. ASSUME NEW d \in F \ {a} PROVE n <= d
      <4>1. d \in Nat /\ d # a /\ (d <= a \/ n <= d) /\ a <= d
        BY <1>1, <1>2, <1>5, <2>2, <3>1
      <4> QED BY <1>0, <4>1
    <3>2. n \in F \ {a}
      BY <1>0, <3>0
    <3> QED BY <3>1, <3>2 DEF Least
  <2> QED BY <2>1, <2>2
<1> QED BY <1>3, <1>4, <1>5

\* A chunk that leaves the list leaves the others linked.
LEMMA UnlinkList ==
  ASSUME NEW h \in Lists, NEW F, ListOf(h, F), NEW a \in F
  PROVE  ListOf(Unlink(h, a), F \ {a})
<1>0. Null \notin Nat /\ F \subseteq Addresses /\ F \subseteq Nat /\ Null \notin F /\ a \in Addresses
  BY HeapAssumption, ListLinks
<1>1. PICK g : g = Unlink(h, a)
  OBVIOUS
<1>2. /\ g.first = IF h.prev[a] = Null THEN h.next[a] ELSE h.first
      /\ \A x \in Addresses : g.next[x] =
           IF x = a THEN Null ELSE IF x = h.prev[a] THEN h.next[a] ELSE h.next[x]
      /\ \A x \in Addresses : g.prev[x] =
           IF x = a THEN Null ELSE IF x = h.next[a] THEN h.prev[a] ELSE h.prev[x]
  BY <1>0, <1>1, UnlinkFields
<1>3. PICK p : p = h.prev[a]
  OBVIOUS
<1>4. PICK n : n = h.next[a]
  OBVIOUS
<1>5. Predecessor(F, a, p) /\ Successor(F, a, n)
  BY <1>3, <1>4 DEF ListOf
<1>6. /\ p # Null => Successor(F \ {a}, p, n)
      /\ n # Null => Predecessor(F \ {a}, n, p)
      /\ p = Null => Least(F \ {a}, n)
  BY <1>0, <1>5, OrderWithout
<1>7. Least(F \ {a}, g.first)
  <2>1. CASE p = Null
    BY <1>2, <1>3, <1>4, <1>6, <2>1
  <2>2. CASE p # Null
    <3>1. g.first = h.first
      BY <1>2, <1>3, <2>2
    <3>2. p \in F /\ p < a
      BY <1>5, <2>2 DEF Predecessor
    <3>3. h.first \in F /\ h.first <= p /\ \A d \in F : h.first <= d
      BY <3>2 DEF ListOf, Least
    <3>4. h.first # a
      BY <1>0, <3>2, <3>3
    <3> QED BY <3>1, <3>3, <3>4 DEF Least
  <2> QED BY <2>1, <2>2
<1>8. ASSUME NEW c \in F \ {a} PROVE Successor(F \ {a}, c, g.next[c])
  <2>1. CASE c = p
    <3>1. g.next[c] = n /\ p # Null
      BY <1>0, <1>2, <1>3, <1>4, <2>1
    <3> QED BY <1>6, <2>1, <3>1
  <2>2. CASE c # p
    <3>1. g.next[c] = h.next[c]
      BY <1>0, <1>2, <1>3, <2>2
    <3>2. h.next[c] # a
      BY <1>0, <1>3, <2>2, ListLinks
    <3>3. Successor(F, c, h.next[c])
      BY DEF ListOf
    <3> QED BY <1>0, <3>1, <3>2, <3>3 DEF Successor
  <2> QED BY <2>1, <2>2
<1>9. ASSUME NEW c \in F \ {a} PROVE Predecessor(F \ {a}, c, g.prev[c])
  <2>1. CASE c = n
    <3>1. g.prev[c] = p /\ n # Null
      BY <1>0, <1>2, <1>3, <1>4, <2>1
    <3> QED BY <1>6, <2>1, <3>1
  <2>2. CASE c # n
    <3>1. g.prev[c] = h.prev[c]
      BY <1>0, <1>2, <1>4, <2>2
    <3>2. h.prev[c] # a
      <4>1. CASE c = h.first
        BY <1>0, <4>1, ListLinks
      <4>2. CASE c # h.first
        BY <1>4, <2>2, <4>2, ListLinks
      <4> QED BY <4>1, <4>2
    <3>3. Predecessor(F, c, h.prev[c])
      BY DEF ListOf
    <3> QED BY <1>0, <3>1, <3>2, <3>3 DEF Predecessor
  <2> QED BY <2>1, <2>2
<1> QED BY <1>0, <1>1, <1>7, <1>8, <1>9 DEF ListOf

-----------------------------------------------------------------------------
\* A new chunk a between p and n: its own neighbours are p and n, and it is
\* theirs.
LEMMA OrderWith ==
  ASSUME NEW F, F \subseteq Nat, Null \notin Nat, NEW a \in Nat, a \notin F,
         NEW p, Predecessor(F, a, p), NEW n, Successor(F, a, n)
  PROVE  /\ Successor(F \cup {a}, a, n) /\ Predecessor(F \cup {a}, a, p)
         /\ p # Null => Successor(F \cup {a}, p, a)
         /\ n # Null => Predecessor(F \cup {a}, n, a)
         /\ p = Null => Least(F \cup {a}, a)
<1>0. a # Null /\ Null \notin F
  OBVIOUS
<1>1. /\ p = Null => \A d \in F : a <= d
      /\ p # Null => p \in F /\ p < a /\ \A d \in F : a <= d \/ d <= p
  BY <1>0 DEF Predecessor
<1>2. /\ n = Null => \A d \in F : d <= a
      /\ n # Null => n \in F /\ a < n /\ \A d \in F : d <= a \/ n <= d
  BY <1>0 DEF Successor
<1>3. Successor(F \cup {a}, a, n)
  BY <1>2 DEF Successor
<1>4. Predecessor(F \cup {a}, a, p)
  BY <1>1 DEF Predecessor
<1>5. ASSUME p # Null PROVE Successor(F \cup {a}, p, a)
  <2>1. p < a /\ \A d \in F \cup {a} : d <= p \/ a <= d
    BY <1>1, <1>5
  <2> QED BY <2>1 DEF Successor
<1>6. ASSUME n # Null PROVE Predecessor(F \cup {a}, n, a)
  <2>1. a < n /\ \A d \in F \cup {a} : n <= d \/ d <= a
    BY <1>2, <1>6
  <2> QED BY <2>1 DEF Predecessor
<1>7. ASSUME p = Null PROVE Least(F \cup {a}, a)
  <2>1. \A d \in F \cup {a} : a <= d
    BY <1>1, <1>7
  <2> QED BY <2>1 DEF Least
<1> QED BY <1>3, <1>4, <1>5, <1>6, <1>7

\* All other chunks keep their neighbours.
LEMMA OrderKept ==
  ASSUME NEW F, F \subseteq Nat, Null \notin Nat, NEW a \in Nat, a \notin F,
         NEW p, Predecessor(F, a, p), NEW n, Successor(F, a, n), NEW c \in F
  PROVE  /\ \A m : c # p /\ Successor(F, c, m) => Successor(F \cup {a}, c, m)
         /\ \A m : c # n /\ Predecessor(F, c, m) => Predecessor(F \cup {a}, c, m)
<1>0. a # Null /\ Null \notin F /\ c \in Nat /\ c # a
  OBVIOUS
<1>1. /\ p = Null => \A d \in F : a <= d
      /\ p # Null => p \in F /\ p < a /\ \A d \in F : a <= d \/ d <= p
  BY <1>0 DEF Predecessor
<1>2. /\ n = Null => \A d \in F : d <= a
      /\ n # Null => n \in F /\ a < n /\ \A d \in F : d <= a \/ n <= d
  BY <1>0 DEF Successor
<1>3. ASSUME NEW m, c # p, Successor(F, c, m) PROVE Successor(F \cup {a}, c, m)
  <2>0. /\ m = Null => \A d \in F : d <= c
        /\ m # Null => m \in F /\ c < m /\ \A d \in F : d <= c \/ m <= d
    BY <1>0, <1>3 DEF Successor
  <2>1. CASE a <= c
    BY <2>0, <2>1 DEF Successor
  <2>2. CASE ~(a <= c)
    <3>1. p \in F /\ p < a /\ c <= p
      BY <1>1, <2>2
    <3>2. p \in Nat /\ ~(p <= c)
      BY <1>0, <1>3, <3>1
    <3>3. m \in F /\ c < m /\ m <= p
      BY <2>0, <3>1, <3>2
    <3>4. m \in Nat /\ m <= a
      BY <3>1, <3>2, <3>3
    <3>5. \A d \in F \cup {a} : d <= c \/ m <= d
      BY <1>0, <2>0, <3>3, <3>4
    <3> QED BY <3>3, <3>5 DEF Successor
  <2> QED BY <2>1, <2>2
<1>4. ASSUME NEW m, c # n, Predecessor(F, c, m) PROVE Predecessor(F \cup {a}, c, m)
  <2>0. /\ m = Null => \A d \in F : c <= d
        /\ m # Null => m \in F /\ m < c /\ \A d \in F : c <= d \/ d <= m
    BY <1>0, <1>4 DEF Predecessor
  <2>1. CASE c <= a
    BY <2>0, <2>1 DEF Predecessor
  <2>2. CASE ~(c <= a)
    <3>1. n \in F /\ a < n /\ n <= c
      BY <1>2, <2>2
    <3>2. n \in Nat /\ ~(c <= n)
      BY <1>0, <1>4, <3>1
    <3>3. m \in F /\ m < c /\ n <= m
      BY <2>0, <3>1, <3>2
    <3>4. m \in Nat /\ a <= m
      BY <3>1, <3>2, <3>3
    <3>5. \A d \in F \cup {a} : c <= d \/ d <= m
      BY <1>0, <2>0, <3>3, <3>4
    <3> QED BY <3>3, <3>5 DEF Predecessor
  <2> QED BY <2>1, <2>2
<1> QED BY <1>3, <1>4

\* A chunk that is inserted between its neighbours is in the list.
LEMMA InsertList ==
  ASSUME NEW h \in Lists, NEW F, ListOf(h, F), NEW a \in Addresses, a \notin F,
         NEW p \in Pointers, Predecessor(F, a, p), NEW n \in Pointers, Successor(F, a, n)
  PROVE  ListOf(Insert(h, a, p, n), F \cup {a})
<1>0. Null \notin Nat /\ F \subseteq Addresses /\ F \subseteq Nat /\ Null \notin F /\ a \in Nat
  BY HeapAssumption, ListLinks, PointerFacts
<1>1. PICK g : g = Insert(h, a, p, n)
  OBVIOUS
<1>2. /\ g.first = IF p = Null THEN a ELSE h.first
      /\ \A x \in Addresses : g.next[x] = IF x = a THEN n ELSE IF x = p THEN a ELSE h.next[x]
      /\ \A x \in Addresses : g.prev[x] = IF x = a THEN p ELSE IF x = n THEN a ELSE h.prev[x]
  BY <1>1, InsertFields
<1>3. /\ Successor(F \cup {a}, a, n) /\ Predecessor(F \cup {a}, a, p)
      /\ p # Null => Successor(F \cup {a}, p, a)
      /\ n # Null => Predecessor(F \cup {a}, n, a)
      /\ p = Null => Least(F \cup {a}, a)
  BY <1>0, OrderWith
<1>4. Least(F \cup {a}, g.first)
  <2>1. CASE p = Null
    BY <1>2, <1>3, <2>1
  <2>2. CASE p # Null
    <3>1. g.first = h.first
      BY <1>2, <2>2
    <3>2. p \in F /\ p < a
      BY <2>2 DEF Predecessor
    <3>3. h.first \in F /\ h.first <= p /\ \A d \in F : h.first <= d
      BY <3>2 DEF ListOf, Least
    <3>4. h.first <= a
      <4>1. h.first \in Nat /\ p \in Nat
        BY <1>0, <3>2, <3>3
      <4> QED BY <1>0, <3>2, <3>3, <4>1
    <3> QED BY <3>1, <3>3, <3>4 DEF Least
  <2> QED BY <2>1, <2>2
<1>5. ASSUME NEW c \in F \cup {a}
      PROVE  Successor(F \cup {a}, c, g.next[c]) /\ Predecessor(F \cup {a}, c, g.prev[c])
  <2>1. CASE c = a
    BY <1>2, <1>3, <2>1
  <2>2. CASE c \in F
    <3>0. c # a /\ c \in Addresses /\ c # Null
      BY <1>0, <2>2
    <3>1. Successor(F, c, h.next[c]) /\ Predecessor(F, c, h.prev[c])
      BY <2>2 DEF ListOf
    <3>2. c # p => Successor(F \cup {a}, c, h.next[c])
      BY <1>0, <2>2, <3>1, OrderKept
    <3>3. c # n => Predecessor(F \cup {a}, c, h.prev[c])
      BY <1>0, <2>2, <3>1, OrderKept
    <3>4. g.next[c] = IF c = p THEN a ELSE h.next[c]
      BY <1>2, <3>0
    <3>5. g.prev[c] = IF c = n THEN a ELSE h.prev[c]
      BY <1>2, <3>0
    <3>6. Successor(F \cup {a}, c, g.next[c])
      BY <1>3, <3>0, <3>2, <3>4
    <3>7. Predecessor(F \cup {a}, c, g.prev[c])
      BY <1>3, <3>0, <3>3, <3>5
    <3> QED BY <3>6, <3>7
  <2> QED BY <2>1, <2>2
<1>6. F \cup {a} \subseteq Addresses
  BY <1>0
<1> QED BY <1>1, <1>4, <1>5, <1>6 DEF ListOf

\* The pointers alone make the list.
LEMMA SameList ==
  ASSUME NEW h, NEW F, ListOf(h, F), NEW g, g.first = h.first,
         \A c \in F : g.next[c] = h.next[c] /\ g.prev[c] = h.prev[c]
  PROVE  ListOf(g, F)
BY DEF ListOf

\* Between the last chunk in front of an address and the one that follows it
LEMMA NeighboursOf ==
  ASSUME NEW h, NEW F, ListOf(h, F), NEW a \in Nat, a \notin F, NEW p, Predecessor(F, a, p)
  PROVE  Successor(F, a, IF p = Null THEN h.first ELSE h.next[p])
<1>0. F \subseteq Nat /\ Null \notin F
  BY ListLinks
<1>1. CASE p = Null
  <2>1. \A d \in F : a <= d
    BY <1>0, <1>1 DEF Predecessor
  <2>2. CASE h.first = Null
    <3>1. F = {}
      BY <2>2, ListLinks
    <3> QED BY <1>1, <2>2, <3>1 DEF Successor
  <2>3. CASE h.first # Null
    <3>1. h.first \in F /\ a <= h.first /\ \A d \in F : h.first <= d
      BY <2>1, <2>3, ListLinks
    <3>2. a < h.first
      <4>1. h.first \in Nat /\ h.first # a
        BY <1>0, <3>1
      <4> QED BY <3>1, <4>1
    <3> QED BY <1>1, <3>1, <3>2 DEF Successor
  <2> QED BY <2>2, <2>3
<1>2. CASE p # Null
  <2>1. p \in F /\ p < a /\ \A d \in F : a <= d \/ d <= p
    BY <1>2 DEF Predecessor
  <2>2. PICK n : n = h.next[p]
    OBVIOUS
  <2>3. /\ n = Null => \A d \in F : d <= p
        /\ n # Null => n \in F /\ p < n /\ \A d \in F : d <= p \/ n <= d
    BY <2>1, <2>2, ListLinks
  <2>4. CASE n = Null
    <3>1. \A d \in F : d <= a
      BY <1>0, <2>1, <2>3, <2>4
    <3> QED BY <1>2, <2>2, <2>4, <3>1 DEF Successor
  <2>5. CASE n # Null
    <3>1. n \in F /\ p < n /\ \A d \in F : d <= p \/ n <= d
      BY <2>3, <2>5
    <3>2. n \in Nat /\ p \in Nat /\ n # a /\ (a <= n \/ n <= p)
      BY <1>0, <2>1, <3>1
    <3>3. a < n
      BY <3>1, <3>2
    <3>4. \A d \in F : d <= a \/ n <= d
      BY <1>0, <2>1, <3>1
    <3> QED BY <1>2, <2>2, <3>1, <3>3, <3>4 DEF Successor
  <2> QED BY <2>4, <2>5
<1> QED BY <1>1, <1>2

-----------------------------------------------------------------------------
\* Absorbed() takes the next chunk out of the list and adds its words to the
\* chunk in front.
LEMMA AbsorbedWrites ==
  ASSUME NEW h \in Lists, NEW a \in Addresses, NEW n \in Addresses, n = h.next[a], a # n,
         h.next[n] # a, h.next[n] # n, h.size[a] + h.size[n] + HeaderSize <= Total
  PROVE  Absorbed(h, a) =
           [first |-> h.first,
            size |-> [h.size EXCEPT ![a] = h.size[a] + h.size[n] + HeaderSize, ![n] = 0],
            next |-> [x \in Addresses |-> IF x = n THEN Null ELSE IF x = a THEN h.next[n] ELSE h.next[x]],
            prev |-> [x \in Addresses |-> IF x = n THEN Null ELSE IF x = h.next[n] THEN a ELSE h.prev[x]]]
<1>0. Total \in Nat /\ HeaderSize \in Nat /\ Null \notin Nat
  BY HeapAssumption
<1>1. PICK m \in Pointers : m = h.next[n]
  BY <1>0 DEF Lists
<1>2. m # n /\ m # a
  BY <1>1
<1>3. PICK s \in 0..Total : s = h.size[a] + h.size[n] + HeaderSize
  <2>1. h.size[a] \in Nat /\ h.size[n] \in Nat
    BY <1>0 DEF Lists
  <2> QED BY <1>0, <2>1
<1>4. PICK e : e = [h EXCEPT !.size[a] = s, !.next[a] = m]
  OBVIOUS
<1>5. /\ e \in Lists /\ e.first = h.first /\ e.prev = h.prev
      /\ e.size = [h.size EXCEPT ![a] = s] /\ e.next = [h.next EXCEPT ![a] = m]
  BY <1>0, <1>4 DEF Lists
<1>6. PICK f : f = Link(e, "prev", m, a)
  OBVIOUS
<1>7. /\ f \in Lists /\ f.first = e.first /\ f.size = e.size /\ f.next = e.next
      /\ \A x \in Addresses : f.prev[x] = IF x = m THEN a ELSE e.prev[x]
  <2>1. CASE m = Null
    BY <1>5, <1>6, <2>1, PointerFacts DEF Link, Lists
  <2>2. CASE m # Null
    BY <1>0, <1>5, <1>6, <2>2, PointerFacts DEF Link, Lists
  <2> QED BY <2>1, <2>2
<1>8. PICK g : g = Absorbed(h, a)
  OBVIOUS
<1>9. g = [f EXCEPT !.size[n] = 0, !.next[n] = Null, !.prev[n] = Null]
  <2>1. g = Erase(Link([h EXCEPT !.size[a] = @ + h.size[n] + HeaderSize, !.next[a] = h.next[n]],
                       "prev", h.next[n], a), n)
    BY <1>8 DEF Absorbed
  <2>2. [h EXCEPT !.size[a] = @ + h.size[n] + HeaderSize, !.next[a] = h.next[n]] = e
    BY <1>0, <1>1, <1>3, <1>4 DEF Lists
  <2> QED BY <1>1, <1>6, <2>1, <2>2 DEF Erase
<1>10. 0 \in 0..Total /\ Null \in Pointers
  BY <1>0, PointerFacts
<1>11. /\ g \in Lists /\ g.first = f.first /\ g.size = [f.size EXCEPT ![n] = 0]
       /\ g.next = [f.next EXCEPT ![n] = Null] /\ g.prev = [f.prev EXCEPT ![n] = Null]
  BY <1>0, <1>7, <1>9, <1>10 DEF Lists
<1>12. g.size = [h.size EXCEPT ![a] = s, ![n] = 0]
  BY <1>0, <1>5, <1>7, <1>11 DEF Lists
<1>13. \A x \in Addresses : g.next[x] = IF x = n THEN Null ELSE IF x = a THEN m ELSE h.next[x]
  <2>1. f.next \in [Addresses -> Pointers] /\ h.next \in [Addresses -> Pointers]
    BY <1>7 DEF Lists
  <2>2. f.next = [h.next EXCEPT ![a] = m]
    BY <1>5, <1>7
  <2> QED BY <1>11, <2>1, <2>2
<1>14. \A x \in Addresses : g.prev[x] = IF x = n THEN Null ELSE IF x = m THEN a ELSE h.prev[x]
  <2>1. f.prev \in [Addresses -> Pointers]
    BY <1>7 DEF Lists
  <2> QED BY <1>5, <1>7, <1>11, <2>1
<1>15. g = [first |-> g.first, size |-> g.size, next |-> g.next, prev |-> g.prev]
  BY <1>11 DEF Lists
<1>16. /\ g.next = [x \in Addresses |-> IF x = n THEN Null ELSE IF x = a THEN m ELSE h.next[x]]
       /\ g.prev = [x \in Addresses |-> IF x = n THEN Null ELSE IF x = m THEN a ELSE h.prev[x]]
  BY <1>11, <1>13, <1>14 DEF Lists
<1>17. g.first = h.first
  BY <1>5, <1>7, <1>11
<1> QED BY <1>1, <1>3, <1>8, <1>12, <1>15, <1>16, <1>17

\* The list is that of the other chunks.
LEMMA AbsorbedList ==
  ASSUME NEW h \in Lists, NEW F, ListOf(h, F), NEW a \in F, NEW n \in F, n = h.next[a],
         h.size[a] + h.size[n] + HeaderSize <= Total
  PROVE  /\ Absorbed(h, a) \in Lists /\ ListOf(Absorbed(h, a), F \ {n})
         /\ Absorbed(h, a).size = [h.size EXCEPT ![a] = h.size[a] + h.size[n] + HeaderSize, ![n] = 0]
         /\ Absorbed(h, a).next =
              [x \in Addresses |-> IF x = n THEN Null ELSE IF x = a THEN h.next[n] ELSE h.next[x]]
         /\ Absorbed(h, a).prev =
              [x \in Addresses |-> IF x = n THEN Null ELSE IF x = h.next[n] THEN a ELSE h.prev[x]]
<1>0. /\ Null \notin Nat /\ F \subseteq Addresses /\ F \subseteq Nat /\ Null \notin F
      /\ a \in Addresses /\ n \in Addresses /\ Total \in Nat /\ HeaderSize \in Nat
  BY HeapAssumption, ListLinks
<1>1. PICK u : u = Unlink(h, n)
  OBVIOUS
<1>2. /\ u.first = IF h.prev[n] = Null THEN h.next[n] ELSE h.first
      /\ \A x \in Addresses : u.next[x] =
           IF x = n THEN Null ELSE IF x = h.prev[n] THEN h.next[n] ELSE h.next[x]
      /\ \A x \in Addresses : u.prev[x] =
           IF x = n THEN Null ELSE IF x = h.next[n] THEN h.prev[n] ELSE h.prev[x]
  BY <1>0, <1>1, UnlinkFields
<1>3. n # Null /\ h.prev[n] = a /\ a < n /\ a # n /\ n # h.first
  <2>1. n # Null /\ h.prev[n] = a /\ a < n
    BY <1>0, ListLinks
  <2>2. a # n
    BY <1>0, <2>1
  <2>3. n # h.first
    BY <1>0, <2>1, ListLinks
  <2> QED BY <2>1, <2>2, <2>3
<1>4. PICK m \in Pointers : m = h.next[n]
  BY <1>0 DEF Lists
<1>5. m # n /\ m # a
  <2>1. CASE m = Null
    BY <1>0, <2>1
  <2>2. CASE m # Null
    <3>1. m \in F /\ n < m
      BY <1>4, <2>2, ListLinks
    <3>2. m \in Nat /\ n \in Nat /\ a \in Nat
      BY <1>0, <3>1
    <3> QED BY <1>3, <3>1, <3>2
  <2> QED BY <2>1, <2>2
<1>6. PICK s \in 0..Total : s = h.size[a] + h.size[n] + HeaderSize
  <2>1. h.size[a] \in Nat /\ h.size[n] \in Nat
    BY <1>0 DEF Lists
  <2> QED BY <1>0, <2>1
<1>7. PICK g : g = Absorbed(h, a)
  OBVIOUS
<1>8. g = [first |-> h.first, size |-> [h.size EXCEPT ![a] = s, ![n] = 0],
           next |-> [x \in Addresses |-> IF x = n THEN Null ELSE IF x = a THEN m ELSE h.next[x]],
           prev |-> [x \in Addresses |-> IF x = n THEN Null ELSE IF x = m THEN a ELSE h.prev[x]]]
  <2>1. h.next[n] # a /\ h.next[n] # n
    BY <1>4, <1>5
  <2> QED BY <1>0, <1>3, <1>4, <1>6, <1>7, <2>1, AbsorbedWrites
<1>9. /\ g.first = h.first /\ g.size = [h.size EXCEPT ![a] = s, ![n] = 0]
      /\ g.next = [x \in Addresses |-> IF x = n THEN Null ELSE IF x = a THEN m ELSE h.next[x]]
      /\ g.prev = [x \in Addresses |-> IF x = n THEN Null ELSE IF x = m THEN a ELSE h.prev[x]]
  BY <1>8
<1>10. g \in Lists
  <2>1. /\ g.first \in Pointers /\ h.size \in [Addresses -> 0..Total]
        /\ \A x \in Addresses : h.next[x] \in Pointers /\ h.prev[x] \in Pointers
    BY <1>9 DEF Lists
  <2>2. a \in Pointers /\ Null \in Pointers /\ 0 \in 0..Total
    BY <1>0, PointerFacts
  <2>3. g.size \in [Addresses -> 0..Total]
    BY <1>0, <1>9, <2>1, <2>2
  <2>4. g.next \in [Addresses -> Pointers] /\ g.prev \in [Addresses -> Pointers]
    BY <1>9, <2>1, <2>2
  <2> QED BY <1>8, <2>1, <2>3, <2>4 DEF Lists
<1>11. ListOf(u, F \ {n})
  BY <1>1, UnlinkList
<1>12. g.first = u.first
  BY <1>0, <1>2, <1>3, <1>9
<1>13. \A c \in F \ {n} : g.next[c] = u.next[c] /\ g.prev[c] = u.prev[c]
  <2> SUFFICES ASSUME NEW c \in F \ {n} PROVE g.next[c] = u.next[c] /\ g.prev[c] = u.prev[c]
    OBVIOUS
  <2>1. c \in Addresses /\ c # n
    BY <1>0
  <2>2. g.next[c] = u.next[c]
    <3>1. g.next[c] = IF c = a THEN m ELSE h.next[c]
      BY <1>9, <2>1
    <3>2. u.next[c] = IF c = a THEN m ELSE h.next[c]
      BY <1>2, <1>3, <1>4, <2>1
    <3> QED BY <3>1, <3>2
  <2>3. g.prev[c] = u.prev[c]
    <3>1. g.prev[c] = IF c = m THEN a ELSE h.prev[c]
      BY <1>9, <2>1
    <3>2. u.prev[c] = IF c = m THEN a ELSE h.prev[c]
      BY <1>2, <1>3, <1>4, <2>1
    <3> QED BY <3>1, <3>2
  <2> QED BY <2>2, <2>3
<1>14. ListOf(g, F \ {n})
  BY <1>11, <1>12, <1>13, SameList
<1> QED BY <1>4, <1>6, <1>7, <1>9, <1>10, <1>14

-----------------------------------------------------------------------------
\* The sizes of the headers alone make the tiling.
LEMMA SameTiling ==
  ASSUME NEW H, NEW s, Tiling(H, s), NEW t \in [Addresses -> 0..Total], \A a \in H : t[a] = s[a]
  PROVE  Tiling(H, t)
BY DEF Tiling

\* The numbers of a tiling
LEMMA TilingFacts ==
  ASSUME NEW H, NEW s, Tiling(H, s)
  PROVE  /\ H \subseteq Addresses /\ H \subseteq Nat
         /\ \A a \in H : s[a] \in Nat /\ a + HeaderSize + s[a] \in Nat /\ a + HeaderSize + s[a] <= Total
         /\ \A a \in H : a < a + HeaderSize + s[a]
<1>1. Total \in Nat /\ HeaderSize \in Nat \ {0}
  BY HeapAssumption
<1>2. ASSUME NEW a \in H
      PROVE  a \in Addresses /\ a \in Nat /\ s[a] \in Nat /\ a + HeaderSize + s[a] <= Total
  <2>1. a \in Addresses /\ s[a] \in 0..Total /\ a + HeaderSize + s[a] <= Total
    BY <1>2 DEF Tiling
  <2> QED BY <1>1, <2>1 DEF Addresses
<1>3. ASSUME NEW a \in H PROVE a + HeaderSize + s[a] \in Nat /\ a < a + HeaderSize + s[a]
  BY <1>1, <1>2, <1>3
<1> QED BY <1>2, <1>3

\* A header is split in two at b ...
LEMMA SplitTiling ==
  ASSUME NEW H, NEW s, Tiling(H, s), NEW a \in H, NEW b \in Nat,
         a + HeaderSize <= b, b + HeaderSize <= a + HeaderSize + s[a],
         NEW t \in [Addresses -> 0..Total], t[a] = b - a - HeaderSize,
         t[b] = a + HeaderSize + s[a] - b - HeaderSize,
         \A c \in H \ {a} : t[c] = s[c]
  PROVE  b \in Addresses /\ b \notin H /\ Tiling(H \cup {b}, t)
<1>0. Total \in Nat /\ HeaderSize \in Nat \ {0}
  BY HeapAssumption
<1>1. H \subseteq Addresses /\ H \subseteq Nat /\ a \in Nat
  BY TilingFacts
<1>2. \A c \in H : s[c] \in Nat /\ c + HeaderSize + s[c] <= Total
  BY TilingFacts
<1>3. PICK e \in Nat : e = a + HeaderSize + s[a] /\ e <= Total
  BY <1>0, <1>1, <1>2
<1>4. a < b /\ b + HeaderSize <= e /\ b < e /\ b < Total
  BY <1>0, <1>1, <1>3
<1>5. b \in Addresses
  BY <1>0, <1>4 DEF Addresses
<1>6. a + HeaderSize + t[a] = b /\ b + HeaderSize + t[b] = e
  <2>1. s[a] \in Nat
    BY <1>2
  <2>2. t[b] = e - b - HeaderSize
    BY <1>0, <1>1, <1>3, <2>1
  <2>3. a + HeaderSize + t[a] = b
    BY <1>0, <1>1
  <2> QED BY <1>0, <1>3, <2>2, <2>3
<1>7. \A c, d \in H : c < d => c + HeaderSize + s[c] <= d
  BY DEF Tiling
<1>8. ASSUME NEW c \in H, c # a PROVE c + HeaderSize + s[c] <= a \/ e <= c
  <2>1. c \in Nat
    BY <1>1
  <2>2. CASE c < a
    BY <1>7, <2>2
  <2>3. CASE a < c
    BY <1>3, <1>7, <2>3
  <2> QED BY <1>1, <1>8, <2>1, <2>2, <2>3
<1>9. b \notin H
  <2> SUFFICES ASSUME b \in H PROVE FALSE
    OBVIOUS
  <2>1. b # a /\ s[b] \in Nat
    BY <1>1, <1>2, <1>4
  <2>2. b + HeaderSize + s[b] <= a \/ e <= b
    BY <1>8, <2>1
  <2> QED BY <1>0, <1>1, <1>4, <2>1, <2>2
<1>10. \A c \in H \cup {b} : c + HeaderSize + t[c] <= Total
  <2> TAKE c \in H \cup {b}
  <2>1. CASE c = b
    BY <1>3, <1>6, <2>1
  <2>2. CASE c = a
    BY <1>0, <1>4, <1>6, <2>2
  <2>3. CASE c # a /\ c # b
    BY <1>2, <2>3
  <2> QED BY <2>1, <2>2, <2>3
<1>11. \A c, d \in H \cup {b} : c < d => c + HeaderSize + t[c] <= d
  <2> SUFFICES ASSUME NEW c \in H \cup {b}, NEW d \in H \cup {b}, c < d
               PROVE  c + HeaderSize + t[c] <= d
    OBVIOUS
  <2>0. c \in Nat /\ d \in Nat
    BY <1>1
  <2>1. CASE c = a
    <3>1. CASE d = b
      BY <1>1, <1>6, <2>1, <3>1
    <3>2. CASE d # b
      <4>1. d \in H /\ d # a
        BY <1>1, <2>1, <3>2
      <4>2. a < d => e <= d
        BY <1>3, <1>7, <4>1
      <4> QED BY <1>1, <1>4, <1>6, <2>0, <2>1, <4>2
    <3> QED BY <3>1, <3>2
  <2>2. CASE c = b
    <3>1. d \in H /\ d # a
      BY <1>1, <1>4, <2>0, <2>2
    <3>2. a < d => e <= d
      BY <1>3, <1>7, <3>1
    <3> QED BY <1>1, <1>4, <1>6, <2>0, <2>2, <3>2
  <2>3. CASE c # a /\ c # b
    <3>0. c \in H /\ t[c] = s[c] /\ s[c] \in Nat
      BY <1>2, <2>3
    <3>1. CASE d = b
      <4>1. c + HeaderSize + s[c] <= a \/ e <= c
        BY <1>8, <2>3, <3>0
      <4> QED BY <1>0, <1>1, <1>4, <2>0, <3>0, <3>1, <4>1
    <3>2. CASE d # b
      BY <1>7, <3>0, <3>2
    <3> QED BY <3>1, <3>2
  <2> QED BY <2>1, <2>2, <2>3
<1>12. \A w \in Addresses : \E c \in H \cup {b} : c <= w /\ w < c + HeaderSize + t[c]
  <2> TAKE w \in Addresses
  <2>0. w \in Nat
    BY <1>0 DEF Addresses
  <2>1. PICK c \in H : c <= w /\ w < c + HeaderSize + s[c]
    BY DEF Tiling
  <2>2. CASE c = a /\ w < b
    BY <1>6, <2>1, <2>2
  <2>3. CASE c = a /\ ~(w < b)
    <3>1. b <= w /\ w < b + HeaderSize + t[b]
      BY <1>3, <1>6, <2>0, <2>1, <2>3
    <3> QED BY <3>1
  <2>4. CASE c # a
    <3>1. t[c] = s[c]
      BY <2>4
    <3> QED BY <2>1, <3>1
  <2> QED BY <2>2, <2>3, <2>4
<1> QED BY <1>1, <1>5, <1>9, <1>10, <1>11, <1>12 DEF Tiling

\* ... and two become one.
LEMMA JoinTiling ==
  ASSUME NEW H, NEW s, Tiling(H, s), NEW a \in H, NEW b \in H, b - a = HeaderSize + s[a],
         NEW t \in [Addresses -> 0..Total], t[a] = s[a] + HeaderSize + s[b],
         \A c \in H \ {a, b} : t[c] = s[c]
  PROVE  Tiling(H \ {b}, t)
<1>0. Total \in Nat /\ HeaderSize \in Nat \ {0}
  BY HeapAssumption
<1>1. H \subseteq Addresses /\ H \subseteq Nat /\ a \in Nat /\ b \in Nat
  BY TilingFacts
<1>2. \A c \in H : s[c] \in Nat /\ c + HeaderSize + s[c] <= Total
  BY TilingFacts
<1>3. b = a + HeaderSize + s[a]
  <2>1. s[a] \in Nat
    BY <1>2
  <2> QED BY <1>0, <1>1, <2>1
<1>4. PICK e \in Nat : e = b + HeaderSize + s[b] /\ e <= Total
  BY <1>0, <1>1, <1>2
<1>5. a < b /\ b < e /\ a + HeaderSize + t[a] = e
  <2>1. s[a] \in Nat /\ s[b] \in Nat
    BY <1>2
  <2> QED BY <1>0, <1>1, <1>3, <1>4, <2>1
<1>6. \A c, d \in H : c < d => c + HeaderSize + s[c] <= d
  BY DEF Tiling
<1>7. \A c \in H \ {b} : c + HeaderSize + t[c] <= Total
  <2> TAKE c \in H \ {b}
  <2>1. CASE c = a
    BY <1>4, <1>5, <2>1
  <2>2. CASE c # a
    BY <1>2, <2>2
  <2> QED BY <2>1, <2>2
<1>8. \A c, d \in H \ {b} : c < d => c + HeaderSize + t[c] <= d
  <2> SUFFICES ASSUME NEW c \in H \ {b}, NEW d \in H \ {b}, c < d
               PROVE  c + HeaderSize + t[c] <= d
    OBVIOUS
  <2>0. c \in Nat /\ d \in Nat /\ d # b
    BY <1>1
  <2>1. CASE c = a
    <3>1. b <= d
      BY <1>3, <1>6, <2>1
    <3>2. b < d
      BY <1>1, <2>0, <3>1
    <3>3. e <= d
      BY <1>4, <1>6, <3>2
    <3> QED BY <1>5, <2>1, <3>3
  <2>2. CASE c # a
    BY <1>6, <2>2
  <2> QED BY <2>1, <2>2
<1>9. \A w \in Addresses : \E c \in H \ {b} : c <= w /\ w < c + HeaderSize + t[c]
  <2> TAKE w \in Addresses
  <2>0. w \in Nat /\ a \in H \ {b}
    BY <1>0, <1>1, <1>5 DEF Addresses
  <2>1. PICK c \in H : c <= w /\ w < c + HeaderSize + s[c]
    BY DEF Tiling
  <2>2. CASE c = a \/ c = b
    <3>1. a <= w /\ w < e
      <4>1. c = a => w < b
        BY <1>3, <2>1
      <4>2. c = b => w < e /\ b <= w
        BY <1>4, <2>1
      <4>3. c = a => a <= w
        BY <2>1
      <4> QED BY <1>1, <1>5, <2>0, <2>2, <4>1, <4>2, <4>3
    <3> QED BY <1>5, <2>0, <3>1
  <2>3. CASE c # a /\ c # b
    <3>1. t[c] = s[c]
      BY <2>3
    <3> QED BY <2>1, <2>3, <3>1
  <2> QED BY <2>2, <2>3
<1> QED BY <1>1, <1>7, <1>8, <1>9 DEF Tiling

-----------------------------------------------------------------------------
\* What a sound heap says about its numbers
LEMMA SoundFacts ==
  ASSUME NEW h, NEW F, NEW B, NEW k, Sound(h, F, B, k)
  PROVE  /\ h \in Lists /\ ListOf(h, F) /\ F \subseteq Addresses /\ B \subseteq Addresses
         /\ F \cap B = {} /\ F \subseteq Nat /\ B \subseteq Nat
         /\ \A c \in F : /\ h.size[c] \in Nat /\ End(h, c) = c + HeaderSize + h.size[c]
                         /\ End(h, c) \in Nat /\ c < End(h, c) /\ End(h, c) <= Total
                         /\ \A d \in F \cup B : c < d => End(h, c) <= d
         /\ \A b \in B : /\ k[b] \in Nat /\ b + HeaderSize + k[b] <= Total
                         /\ \A d \in F \cup B : b < d => b + HeaderSize + k[b] <= d
<1>1. h \in Lists /\ ListOf(h, F) /\ F \subseteq Addresses /\ B \subseteq Addresses /\ F \cap B = {}
  BY DEF Sound, ListOf
<1>2. PICK s : s = Measure(h, F, k)
  OBVIOUS
<1>3. Tiling(F \cup B, s)
  BY <1>2 DEF Sound
<1>4. /\ F \cup B \subseteq Nat
      /\ \A a \in F \cup B : s[a] \in Nat /\ a + HeaderSize + s[a] \in Nat /\ a + HeaderSize + s[a] <= Total
      /\ \A a \in F \cup B : a < a + HeaderSize + s[a]
  BY <1>3, TilingFacts
<1>5. \A a, b \in F \cup B : a < b => a + HeaderSize + s[a] <= b
  BY <1>3 DEF Tiling
<1>6. (\A c \in F : s[c] = h.size[c]) /\ \A b \in B : s[b] = k[b]
  BY <1>1, <1>2 DEF Measure
<1>7. \A c \in F : End(h, c) = c + HeaderSize + h.size[c]
  BY DEF End
<1>8. ASSUME NEW c \in F
      PROVE  /\ h.size[c] \in Nat /\ End(h, c) = c + HeaderSize + h.size[c]
             /\ End(h, c) \in Nat /\ c < End(h, c) /\ End(h, c) <= Total
             /\ \A d \in F \cup B : c < d => End(h, c) <= d
  <2>1. c \in F \cup B /\ s[c] = h.size[c] /\ End(h, c) = c + HeaderSize + s[c]
    BY <1>6, <1>7
  <2> QED BY <1>4, <1>5, <1>7, <2>1
<1>9. ASSUME NEW b \in B
      PROVE  /\ k[b] \in Nat /\ b + HeaderSize + k[b] <= Total
             /\ \A d \in F \cup B : b < d => b + HeaderSize + k[b] <= d
  <2>1. b \in F \cup B /\ s[b] = k[b]
    BY <1>6
  <2> QED BY <1>4, <1>5, <2>1
<1> QED BY <1>1, <1>4, <1>8, <1>9

\* The sizes in the headers of blocks, and of words that are no headers, are
\* not looked at.
LEMMA SoundKept ==
  ASSUME NEW h, NEW F, NEW B, NEW k, Sound(h, F, B, k),
         NEW g \in Lists, g.first = h.first,
         \A c \in F : g.next[c] = h.next[c] /\ g.prev[c] = h.prev[c] /\ g.size[c] = h.size[c],
         NEW l \in [Addresses -> 0..Total], \A b \in B : l[b] = k[b]
  PROVE  Sound(g, F, B, l)
<1>1. ListOf(h, F) /\ B \subseteq Addresses /\ F \cap B = {} /\ F \subseteq Addresses
  BY SoundFacts
<1>2. ListOf(g, F)
  BY <1>1, SameList
<1>3. PICK s : s = Measure(h, F, k)
  OBVIOUS
<1>4. PICK t : t = Measure(g, F, l)
  OBVIOUS
<1>5. t \in [Addresses -> 0..Total]
  BY <1>4 DEF Measure, Lists
<1>6. \A a \in F \cup B : t[a] = s[a]
  BY <1>1, <1>3, <1>4 DEF Measure
<1>7. Tiling(F \cup B, s)
  BY <1>3 DEF Sound
<1>8. Tiling(F \cup B, t)
  BY <1>5, <1>6, <1>7, SameTiling
<1> QED BY <1>1, <1>2, <1>4, <1>8 DEF Sound

\* The sizes of the blocks alone matter, not those of other addresses.
LEMMA SoundSizes ==
  ASSUME NEW h, NEW F, NEW B, NEW k, Sound(h, F, B, k),
         NEW l \in [Addresses -> 0..Total], \A b \in B : l[b] = k[b]
  PROVE  Sound(h, F, B, l)
<1>1. h \in Lists
  BY SoundFacts
<1> QED BY <1>1, SoundKept

\* A chunk becomes a block ...
LEMMA UnlinkSound ==
  ASSUME NEW h, NEW F, NEW B, NEW k, Sound(h, F, B, k), NEW a \in F,
         NEW l \in [Addresses -> 0..Total], l[a] = h.size[a], \A b \in B : l[b] = k[b]
  PROVE  Sound(Unlink(h, a), F \ {a}, B \cup {a}, l)
<1>1. /\ h \in Lists /\ ListOf(h, F) /\ B \subseteq Addresses /\ F \cap B = {}
      /\ F \subseteq Addresses /\ a \in Addresses
  BY SoundFacts
<1>2. PICK g : g = Unlink(h, a)
  OBVIOUS
<1>3. g \in Lists /\ g.size = h.size
  BY <1>1, <1>2, UnlinkType
<1>4. ListOf(g, F \ {a})
  BY <1>1, <1>2, UnlinkList
<1>5. PICK s : s = Measure(h, F, k)
  OBVIOUS
<1>6. PICK t : t = Measure(g, F \ {a}, l)
  OBVIOUS
<1>7. t \in [Addresses -> 0..Total]
  BY <1>3, <1>6 DEF Measure, Lists
<1>8. \A x \in F \cup B : t[x] = s[x]
  BY <1>1, <1>3, <1>5, <1>6 DEF Measure
<1>9. Tiling(F \cup B, s)
  BY <1>5 DEF Sound
<1>10. Tiling(F \cup B, t)
  BY <1>7, <1>8, <1>9, SameTiling
<1>11. (F \ {a}) \cup (B \cup {a}) = F \cup B /\ (F \ {a}) \cap (B \cup {a}) = {} /\ B \cup {a} \subseteq Addresses
  BY <1>1
<1> QED BY <1>2, <1>3, <1>4, <1>6, <1>10, <1>11 DEF Sound

\* ... and a block a chunk.
LEMMA InsertSound ==
  ASSUME NEW h, NEW F, NEW B, NEW k, Sound(h, F, B, k), NEW a \in B, k[a] = h.size[a],
         NEW p \in Pointers, Predecessor(F, a, p), NEW n \in Pointers, Successor(F, a, n)
  PROVE  Sound(Insert(h, a, p, n), F \cup {a}, B \ {a}, k)
<1>1. /\ h \in Lists /\ ListOf(h, F) /\ B \subseteq Addresses /\ F \cap B = {}
      /\ F \subseteq Addresses /\ a \in Addresses /\ a \notin F
  BY SoundFacts
<1>2. PICK g : g = Insert(h, a, p, n)
  OBVIOUS
<1>3. g \in Lists /\ g.size = h.size
  BY <1>1, <1>2, InsertType
<1>4. ListOf(g, F \cup {a})
  BY <1>1, <1>2, InsertList
<1>5. PICK s : s = Measure(h, F, k)
  OBVIOUS
<1>6. PICK t : t = Measure(g, F \cup {a}, k)
  OBVIOUS
<1>7. k \in [Addresses -> 0..Total]
  BY DEF Sound
<1>8. t \in [Addresses -> 0..Total]
  BY <1>3, <1>6, <1>7 DEF Measure, Lists
<1>9. \A x \in F \cup B : t[x] = s[x]
  BY <1>1, <1>3, <1>5, <1>6 DEF Measure
<1>10. Tiling(F \cup B, s)
  BY <1>5 DEF Sound
<1>11. Tiling(F \cup B, t)
  BY <1>8, <1>9, <1>10, SameTiling
<1>12. (F \cup {a}) \cup (B \ {a}) = F \cup B /\ (F \cup {a}) \cap (B \ {a}) = {} /\ B \ {a} \subseteq Addresses
  BY <1>1
<1> QED BY <1>2, <1>3, <1>4, <1>6, <1>7, <1>11, <1>12 DEF Sound

\* A chunk takes the next one in, when no block is between them.
LEMMA AbsorbedSound ==
  ASSUME NEW h, NEW F, NEW B, NEW k, Sound(h, F, B, k), NEW a \in F, NEW n \in F,
         n = h.next[a], End(h, a) = n
  PROVE  LET g == Absorbed(h, a)
         IN  /\ Sound(g, F \ {n}, B, k)
             /\ g.size = [h.size EXCEPT ![a] = h.size[a] + h.size[n] + HeaderSize, ![n] = 0]
             /\ \A x \in Addresses : g.next[x] = IF x = n THEN Null ELSE IF x = a THEN h.next[n] ELSE h.next[x]
             /\ \A x \in Addresses : g.prev[x] = IF x = n THEN Null ELSE IF x = h.next[n] THEN a ELSE h.prev[x]
<1>1. /\ h \in Lists /\ ListOf(h, F) /\ B \subseteq Addresses /\ F \cap B = {}
      /\ F \subseteq Addresses /\ a \in Addresses /\ n \in Addresses /\ a \in Nat /\ n \in Nat
  BY SoundFacts
<1>2. /\ h.size[a] \in Nat /\ End(h, a) = a + HeaderSize + h.size[a] /\ h.size[n] \in Nat
      /\ End(h, n) = n + HeaderSize + h.size[n] /\ End(h, n) <= Total /\ a < End(h, a)
  BY SoundFacts
<1>3. Total \in Nat /\ HeaderSize \in Nat
  BY HeapAssumption
<1>4. h.size[a] + h.size[n] + HeaderSize <= Total /\ a # n
  BY <1>1, <1>2, <1>3
<1>5. PICK g : g = Absorbed(h, a)
  OBVIOUS
<1>6. /\ g \in Lists /\ ListOf(g, F \ {n})
      /\ g.size = [h.size EXCEPT ![a] = h.size[a] + h.size[n] + HeaderSize, ![n] = 0]
      /\ \A x \in Addresses : g.next[x] = IF x = n THEN Null ELSE IF x = a THEN h.next[n] ELSE h.next[x]
      /\ \A x \in Addresses : g.prev[x] = IF x = n THEN Null ELSE IF x = h.next[n] THEN a ELSE h.prev[x]
  <2>1. h \in Lists /\ ListOf(h, F) /\ h.size[a] + h.size[n] + HeaderSize <= Total
    BY <1>1, <1>4
  <2>2. /\ g \in Lists /\ ListOf(g, F \ {n})
        /\ g.size = [h.size EXCEPT ![a] = h.size[a] + h.size[n] + HeaderSize, ![n] = 0]
        /\ g.next = [x \in Addresses |-> IF x = n THEN Null ELSE IF x = a THEN h.next[n] ELSE h.next[x]]
        /\ g.prev = [x \in Addresses |-> IF x = n THEN Null ELSE IF x = h.next[n] THEN a ELSE h.prev[x]]
    BY <1>5, <2>1, AbsorbedList
  <2> QED BY <2>2
<1>7. PICK s : s = Measure(h, F, k)
  OBVIOUS
<1>8. PICK t : t = Measure(g, F \ {n}, k)
  OBVIOUS
<1>9. Tiling(F \cup B, s) /\ k \in [Addresses -> 0..Total]
  BY <1>7 DEF Sound
<1>10. t \in [Addresses -> 0..Total]
  BY <1>6, <1>8, <1>9 DEF Measure, Lists
<1>11. s[a] = h.size[a] /\ s[n] = h.size[n]
  BY <1>1, <1>7 DEF Measure
<1>12. n - a = HeaderSize + s[a]
  BY <1>1, <1>2, <1>3, <1>11
<1>13. h.size \in [Addresses -> 0..Total]
  BY <1>1 DEF Lists
<1>14. g.size[a] = h.size[a] + h.size[n] + HeaderSize /\ \A c \in F \ {a, n} : g.size[c] = h.size[c]
  BY <1>1, <1>4, <1>6, <1>13
<1>15. t[a] = s[a] + HeaderSize + s[n]
  <2>1. t[a] = g.size[a]
    BY <1>1, <1>4, <1>8 DEF Measure
  <2>2. h.size[a] + h.size[n] + HeaderSize = s[a] + HeaderSize + s[n]
    BY <1>2, <1>3, <1>11
  <2> QED BY <1>14, <2>1, <2>2
<1>16. \A c \in (F \cup B) \ {a, n} : t[c] = s[c]
  BY <1>1, <1>7, <1>8, <1>14 DEF Measure
<1>17. Tiling((F \cup B) \ {n}, t)
  BY <1>9, <1>10, <1>12, <1>15, <1>16, JoinTiling
<1>18. (F \cup B) \ {n} = (F \ {n}) \cup B /\ (F \ {n}) \cap B = {}
  BY <1>1
<1> QED BY <1>1, <1>5, <1>6, <1>8, <1>9, <1>17, <1>18 DEF Sound

-----------------------------------------------------------------------------
\* A chunk is cut in two.
LEMMA CutSound ==
  ASSUME NEW h, NEW F, NEW B, NEW k, Sound(h, F, B, k), NEW c \in F, NEW a \in Nat,
         c + HeaderSize <= a, a + HeaderSize <= End(h, c)
  PROVE  LET g == Cut(h, c, a)
         IN  /\ a \in Addresses /\ a \notin F /\ a \notin B /\ a # c
             /\ Sound(g, F \cup {a}, B, k)
             /\ g.size[a] = End(h, c) - a - HeaderSize /\ g.size[c] = a - c - HeaderSize
             /\ \A x \in Addresses \ {a, c} : g.size[x] = h.size[x]
             /\ \A x \in Addresses : g.next[x] = IF x = a THEN h.next[c] ELSE IF x = c THEN a ELSE h.next[x]
             /\ \A x \in Addresses : g.prev[x] = IF x = a THEN c ELSE IF x = h.next[c] THEN a ELSE h.prev[x]
<1>0. Total \in Nat /\ HeaderSize \in Nat \ {0}
  BY HeapAssumption
<1>1. /\ h \in Lists /\ ListOf(h, F) /\ B \subseteq Addresses /\ F \cap B = {}
      /\ F \subseteq Addresses /\ F \subseteq Nat /\ c \in Addresses /\ c \in Nat
  BY SoundFacts
<1>2. /\ h.size[c] \in Nat /\ End(h, c) = c + HeaderSize + h.size[c] /\ End(h, c) \in Nat
      /\ End(h, c) <= Total /\ \A d \in F : c < d => End(h, c) <= d
  BY SoundFacts
<1>3. PICK e \in Nat : e = End(h, c)
  BY <1>2
<1>4. e = c + HeaderSize + h.size[c] /\ e <= Total /\ a + HeaderSize <= e
  BY <1>2, <1>3
<1>5. /\ c < a /\ a < e /\ a < Total /\ a \in Addresses /\ a # c
      /\ a - c - HeaderSize \in 0..Total /\ e - a - HeaderSize \in 0..Total
  BY <1>0, <1>1, <1>4 DEF Addresses
<1>6. PICK s : s = Measure(h, F, k)
  OBVIOUS
<1>7. Tiling(F \cup B, s) /\ k \in [Addresses -> 0..Total]
  BY <1>6 DEF Sound
<1>8. \A d \in F : s[d] = h.size[d]
  BY <1>1, <1>6 DEF Measure
<1>9. PICK q : q = [h.size EXCEPT ![a] = e - a - HeaderSize, ![c] = a - c - HeaderSize]
  OBVIOUS
<1>10. /\ q \in [Addresses -> 0..Total] /\ q[a] = e - a - HeaderSize /\ q[c] = a - c - HeaderSize
       /\ \A x \in Addresses \ {a, c} : q[x] = h.size[x]
  <2>1. h.size \in [Addresses -> 0..Total]
    BY <1>1 DEF Lists
  <2> QED BY <1>1, <1>5, <1>9, <2>1
<1>11. PICK t : t = [x \in Addresses |-> IF x \in F \cup {a} THEN q[x] ELSE k[x]]
  OBVIOUS
<1>12. t \in [Addresses -> 0..Total]
  BY <1>7, <1>10, <1>11
<1>13. /\ t[c] = a - c - HeaderSize /\ t[a] = e - a - HeaderSize
  BY <1>1, <1>5, <1>10, <1>11
<1>14. \A d \in (F \cup B) \ {c, a} : t[d] = s[d]
  BY <1>1, <1>6, <1>10, <1>11 DEF Measure
<1>15. a \notin F \cup B
  <2> SUFFICES ASSUME a \in F \cup B PROVE FALSE
    OBVIOUS
  <2>1. \A d \in F \cup B : c < d => End(h, c) <= d
    BY SoundFacts
  <2>2. e <= a
    BY <1>3, <1>5, <2>1
  <2> QED BY <1>5, <2>2
<1>16. Tiling((F \cup B) \cup {a}, t)
  <2>1. t[a] = c + HeaderSize + s[c] - a - HeaderSize
    BY <1>0, <1>1, <1>2, <1>4, <1>8, <1>13
  <2>2. a + HeaderSize <= c + HeaderSize + s[c]
    BY <1>4, <1>8
  <2>3. \A d \in (F \cup B) \ {c} : t[d] = s[d]
    BY <1>14, <1>15
  <2>4. c \in F \cup B
    OBVIOUS
  <2> QED BY <1>7, <1>12, <1>13, <2>1, <2>2, <2>3, <2>4, SplitTiling
<1>17. PICK r : r = [h EXCEPT !.size[a] = e - a - HeaderSize, !.size[c] = a - c - HeaderSize]
  OBVIOUS
<1>18. /\ r \in Lists /\ r.size = q /\ r.first = h.first /\ r.next = h.next /\ r.prev = h.prev
  BY <1>1, <1>5, <1>9, <1>10, <1>17 DEF Lists
<1>19. ListOf(r, F)
  BY <1>1, <1>18, SameList
<1>20. PICK n \in Pointers : n = h.next[c]
  BY <1>1 DEF Lists
<1>21. c \in Pointers /\ c # Null
  BY <1>1, PointerFacts
<1>22. Predecessor(F, a, c)
  <2>1. ASSUME NEW d \in F PROVE a <= d \/ d <= c
    <3>1. d \in Nat /\ (c < d => e <= d)
      BY <1>1, <1>2, <1>3
    <3> QED BY <1>1, <1>5, <3>1
  <2> QED BY <1>5, <2>1 DEF Predecessor
<1>23. Successor(F, a, n)
  <2>1. Successor(F, a, IF c = Null THEN h.first ELSE h.next[c])
    BY <1>1, <1>15, <1>22, NeighboursOf
  <2> QED BY <1>20, <1>21, <2>1
<1>24. PICK g : g = Insert(r, a, c, n)
  OBVIOUS
<1>25. g = Cut(h, c, a)
  BY <1>3, <1>5, <1>17, <1>20, <1>24 DEF Cut
<1>26. g \in Lists /\ g.size = q
  BY <1>5, <1>18, <1>21, <1>24, InsertType
<1>27. ListOf(g, F \cup {a})
  BY <1>5, <1>15, <1>18, <1>19, <1>21, <1>22, <1>23, <1>24, InsertList
<1>28. /\ \A x \in Addresses : g.next[x] = IF x = a THEN n ELSE IF x = c THEN a ELSE r.next[x]
       /\ \A x \in Addresses : g.prev[x] = IF x = a THEN c ELSE IF x = n THEN a ELSE r.prev[x]
  BY <1>5, <1>18, <1>21, <1>24, InsertFields
<1>29. Measure(g, F \cup {a}, k) = t
  BY <1>11, <1>26 DEF Measure
<1>30. (F \cup B) \cup {a} = (F \cup {a}) \cup B /\ (F \cup {a}) \cap B = {}
  BY <1>1, <1>15
<1>31. Sound(g, F \cup {a}, B, k)
  BY <1>1, <1>7, <1>16, <1>26, <1>27, <1>29, <1>30 DEF Sound
<1> QED BY <1>3, <1>5, <1>10, <1>15, <1>18, <1>20, <1>25, <1>26, <1>28, <1>31

-----------------------------------------------------------------------------
\* merge() with the next chunk leaves the chunk apart from what follows.
LEMMA MergedNextSound ==
  ASSUME NEW h, NEW F, NEW B, NEW k, Sound(h, F, B, k), NEW a \in F,
         NEW x, h.next[a] = Null \/ h.next[a] # x, Apart(h, F, x, a)
  PROVE  LET g == MergedNext(h, a)
         IN  \E G : /\ Sound(g, G, B, k) /\ Apart(g, G, x, x) /\ a \in G
                    /\ g.prev[a] = h.prev[a] /\ \A b \in B : g.size[b] = h.size[b]
<1>0. Total \in Nat /\ HeaderSize \in Nat \ {0}
  BY HeapAssumption
<1>1. /\ h \in Lists /\ ListOf(h, F) /\ B \subseteq Addresses /\ F \cap B = {}
      /\ F \subseteq Addresses /\ F \subseteq Nat /\ a \in Addresses /\ a \in Nat
  BY SoundFacts
<1>2. PICK n : n = h.next[a]
  OBVIOUS
<1>3. PICK g : g = MergedNext(h, a)
  OBVIOUS
<1>4. CASE n # Null /\ End(h, a) = n
  <2>1. n \in F /\ a < n
    BY <1>1, <1>2, <1>4, ListLinks
  <2>2. g = Absorbed(h, a)
    BY <1>2, <1>3, <1>4 DEF MergedNext
  <2>3. /\ Sound(g, F \ {n}, B, k)
        /\ g.size = [h.size EXCEPT ![a] = h.size[a] + h.size[n] + HeaderSize, ![n] = 0]
        /\ \A y \in Addresses : g.next[y] = IF y = n THEN Null ELSE IF y = a THEN h.next[n] ELSE h.next[y]
        /\ \A y \in Addresses : g.prev[y] = IF y = n THEN Null ELSE IF y = h.next[n] THEN a ELSE h.prev[y]
    BY <1>2, <1>4, <2>1, <2>2, AbsorbedSound
  <2>4. n \in Nat /\ a # n /\ n \in Addresses /\ h.size \in [Addresses -> 0..Total]
    BY <1>1, <2>1 DEF Lists
  <2>5. /\ g.size[a] = h.size[a] + h.size[n] + HeaderSize
        /\ \A y \in Addresses \ {a, n} : g.size[y] = h.size[y]
    BY <1>1, <2>3, <2>4
  <2>6. h.next[n] # a
    <3>1. h.next[n] # Null => h.next[n] \in F /\ n < h.next[n]
      BY <1>1, <2>1, ListLinks
    <3>2. CASE h.next[n] = Null
      BY <1>1, <3>2, PointerFacts
    <3>3. CASE h.next[n] # Null
      <4>1. h.next[n] \in Nat /\ n < h.next[n]
        BY <1>1, <3>1, <3>3
      <4> QED BY <1>1, <2>1, <2>4, <4>1
    <3> QED BY <3>2, <3>3
  <2>7. g.prev[a] = h.prev[a]
    BY <1>1, <2>3, <2>4, <2>6
  <2>8. \A b \in B : g.size[b] = h.size[b]
    BY <1>1, <2>1, <2>5
  <2>9. ASSUME NEW c \in F \ {n}, c # x, g.next[c] # Null PROVE End(g, c) < g.next[c]
    <3>1. CASE c = a
      <4>1. g.next[a] = h.next[n]
        BY <1>1, <2>3, <2>4
      <4>2. n \in F /\ n # a /\ n # x
        BY <1>2, <1>4, <2>1, <2>4
      <4>3. End(h, n) < h.next[n]
        BY <2>9, <3>1, <4>1, <4>2 DEF Apart
      <4>4. /\ h.size[a] \in Nat /\ End(h, a) = a + HeaderSize + h.size[a] /\ h.size[n] \in Nat
            /\ End(h, n) = n + HeaderSize + h.size[n]
        BY <2>1, SoundFacts
      <4>5. End(g, a) = a + HeaderSize + (h.size[a] + h.size[n] + HeaderSize)
        BY <2>5 DEF End
      <4>6. n = a + HeaderSize + h.size[a]
        BY <1>4, <4>4
      <4>7. End(g, a) = End(h, n)
        BY <1>0, <1>1, <4>4, <4>5, <4>6
      <4> QED BY <3>1, <4>1, <4>3, <4>7
    <3>2. CASE c # a
      <4>1. c \in F /\ c # a /\ c # x /\ c \in Addresses /\ c # n
        BY <1>1, <2>9, <3>2
      <4>2. g.next[c] = h.next[c] /\ g.size[c] = h.size[c]
        BY <2>3, <2>5, <3>2, <4>1
      <4>3. End(g, c) = End(h, c)
        BY <4>2 DEF End
      <4> QED BY <2>9, <4>1, <4>2, <4>3 DEF Apart
    <3> QED BY <3>1, <3>2
  <2>10. Apart(g, F \ {n}, x, x)
    BY <2>9 DEF Apart
  <2>11. a \in F \ {n}
    BY <2>4
  <2> QED BY <1>3, <2>3, <2>7, <2>8, <2>10, <2>11
<1>5. CASE ~(n # Null /\ End(h, a) = n)
  <2>1. g = h
    BY <1>2, <1>3, <1>5 DEF MergedNext
  <2>2. ASSUME NEW c \in F, c # x, h.next[c] # Null PROVE End(h, c) < h.next[c]
    <3>1. CASE c = a
      <4>1. n \in F /\ a < n
        BY <1>1, <1>2, <2>2, <3>1, ListLinks
      <4>2. End(h, a) <= n /\ End(h, a) \in Nat /\ n \in Nat
        BY <1>1, <4>1, SoundFacts
      <4>3. End(h, a) # n
        BY <1>2, <1>5, <2>2, <3>1
      <4> QED BY <1>2, <3>1, <4>2, <4>3
    <3>2. CASE c # a
      <4>1. c \in F /\ c # a /\ c # x
        BY <2>2, <3>2
      <4> QED BY <2>2, <4>1 DEF Apart
    <3> QED BY <3>1, <3>2
  <2>3. Apart(h, F, x, x)
    BY <2>2 DEF Apart
  <2> QED BY <1>3, <2>1, <2>3
<1> QED BY <1>4, <1>5

\* merge() in both directions
LEMMA MergedSound ==
  ASSUME NEW h, NEW F, NEW B, NEW k, Sound(h, F, B, k), NEW a \in F, Apart(h, F, h.prev[a], a)
  PROVE  LET g == Merged(h, a)
         IN  \E G : Sound(g, G, B, k) /\ Separated(g, G) /\ \A b \in B : g.size[b] = h.size[b]
<1>1. /\ h \in Lists /\ ListOf(h, F) /\ F \subseteq Addresses /\ F \subseteq Nat /\ Null \notin F
  BY SoundFacts, ListLinks
<1>2. PICK p : p = h.prev[a]
  OBVIOUS
<1>3. h.next[a] = Null \/ h.next[a] # p
  <2> SUFFICES ASSUME h.next[a] # Null, h.next[a] = p PROVE FALSE
    OBVIOUS
  <2>1. p \in F /\ a < p
    BY <1>1, ListLinks
  <2>2. p # Null
    BY <1>1, <2>1
  <2>3. a # h.first
    BY <1>1, <1>2, <2>2, ListLinks
  <2>4. p < a
    BY <1>1, <1>2, <2>3, ListLinks
  <2>5. p \in Nat /\ a \in Nat
    BY <1>1, <2>1
  <2> QED BY <2>1, <2>4, <2>5
<1>4. PICK e : e = MergedNext(h, a)
  OBVIOUS
<1>5. Apart(h, F, p, a)
  BY <1>2
<1>6. PICK E : /\ Sound(e, E, B, k) /\ Apart(e, E, p, p) /\ a \in E
               /\ e.prev[a] = h.prev[a] /\ \A b \in B : e.size[b] = h.size[b]
  BY <1>3, <1>4, <1>5, MergedNextSound
<1>7. ListOf(e, E) /\ Null \notin E /\ e.prev[a] = p
  BY <1>2, <1>6, SoundFacts, ListLinks
<1>8. PICK g : g = Merged(h, a)
  OBVIOUS
<1>9. CASE p = Null
  <2>1. g = e
    BY <1>4, <1>7, <1>8, <1>9 DEF Merged
  <2>2. Separated(e, E)
    BY <1>6, <1>7, <1>9 DEF Apart, Separated
  <2> QED BY <1>6, <1>8, <2>1, <2>2
<1>10. CASE p # Null
  <2>1. a # e.first
    <3>1. e.first # Null => e.prev[e.first] = Null
      BY <1>7, ListLinks
    <3>2. a # Null
      BY <1>6, <1>7
    <3> QED BY <1>7, <1>10, <3>1, <3>2
  <2>2. p \in E /\ e.next[p] = a
    BY <1>6, <1>7, <2>1, ListLinks
  <2>3. g = MergedNext(e, p)
    <3>1. a # Null
      BY <1>6, <1>7
    <3>2. MergedNext(e, p) = IF End(e, p) = a THEN Absorbed(e, p) ELSE e
      BY <2>2, <3>1 DEF MergedNext
    <3>3. g = IF End(e, p) = a THEN Absorbed(e, p) ELSE e
      BY <1>4, <1>7, <1>8, <1>10 DEF Merged
    <3> QED BY <3>2, <3>3
  <2>4. Apart(e, E, Null, p) /\ e.next[p] # Null
    BY <1>6, <1>7, <2>2 DEF Apart
  <2>5. PICK G : /\ Sound(g, G, B, k) /\ Apart(g, G, Null, Null)
                 /\ \A b \in B : g.size[b] = e.size[b]
    BY <1>6, <2>2, <2>3, <2>4, MergedNextSound
  <2>6. Null \notin G
    BY <2>5, SoundFacts, ListLinks
  <2>7. Separated(g, G)
    BY <2>5, <2>6 DEF Apart, Separated
  <2> QED BY <1>6, <1>8, <2>5, <2>7
<1> QED BY <1>9, <1>10

-----------------------------------------------------------------------------
\* The loop of freeAlgorithm() ends at the last chunk in front of the block.
LEMMA BeforeIs ==
  ASSUME NEW h, NEW F, ListOf(h, F), NEW a \in Nat, a \notin F
  PROVE  Predecessor(F, a, Before(h, a))
<1>0. F \subseteq Nat /\ Null \notin F /\ InList(h, h.first) = F
  BY ListLinks, ListReached
<1>1. PICK P : P = {c \in F : c < a /\ (h.next[c] = Null \/ a < h.next[c])}
  OBVIOUS
<1>2. Before(h, a) = IF P = {} THEN Null ELSE CHOOSE c \in P : TRUE
  BY <1>0, <1>1 DEF Before
<1>3. CASE P # {}
  <2>1. PICK c \in P : c = Before(h, a)
    BY <1>2, <1>3
  <2>2. c \in F /\ c \in Nat /\ c < a /\ (h.next[c] = Null \/ a < h.next[c])
    BY <1>0, <1>1, <2>1
  <2>3. ASSUME NEW d \in F PROVE a <= d \/ d <= c
    <3>0. d \in Nat
      BY <1>0
    <3>1. CASE h.next[c] = Null
      BY <2>2, <3>1, ListLinks
    <3>2. CASE h.next[c] # Null
      <4>1. h.next[c] \in F /\ (d <= c \/ h.next[c] <= d)
        BY <2>2, <3>2, ListLinks
      <4>2. h.next[c] \in Nat /\ a < h.next[c]
        BY <1>0, <2>2, <3>2, <4>1
      <4> QED BY <3>0, <4>1, <4>2
    <3> QED BY <3>1, <3>2
  <2> QED BY <2>1, <2>2, <2>3 DEF Predecessor
<1>4. CASE P = {}
  <2>1. ASSUME NEW d \in F, ~(a <= d) PROVE FALSE
    <3>1. PICK D : D = {x \in 0..a : a - x \in F /\ x > 0}
      OBVIOUS
    <3>2. d \in Nat /\ a - d \in D
      <4>1. d \in Nat
        BY <1>0
      <4>2. a - d \in 0..a /\ a - d > 0 /\ a - (a - d) = d
        BY <2>1, <4>1
      <4> QED BY <3>1, <4>1, <4>2
    <3>3. D \subseteq Nat /\ D # {}
      BY <3>1, <3>2
    <3>4. PICK x \in D : \A y \in D : x <= y
      BY <3>3, Smallest
    <3>5. PICK c \in F : c = a - x
      BY <3>1, <3>4
    <3>6. c \in Nat /\ x \in 0..a /\ x > 0 /\ c < a
      BY <1>0, <3>1, <3>4, <3>5
    <3>7. ASSUME NEW e \in F, e < a PROVE e <= c
      <4>1. e \in Nat
        BY <1>0
      <4>2. a - e \in 0..a /\ a - e > 0 /\ a - (a - e) = e
        BY <3>7, <4>1
      <4>3. x <= a - e
        BY <3>1, <3>4, <3>7, <4>2
      <4> QED BY <3>5, <3>6, <4>1, <4>3
    <3>8. h.next[c] = Null \/ a < h.next[c]
      <4> SUFFICES ASSUME h.next[c] # Null PROVE a < h.next[c]
        OBVIOUS
      <4>1. h.next[c] \in F /\ c < h.next[c]
        BY ListLinks
      <4>2. h.next[c] \in Nat /\ h.next[c] # a
        BY <1>0, <4>1
      <4>3. h.next[c] < a => h.next[c] <= c
        BY <3>7, <4>1
      <4> QED BY <3>6, <4>1, <4>2, <4>3
    <3>9. c \in P
      BY <1>1, <3>6, <3>8
    <3> QED BY <1>4, <3>9
  <2>2. \A d \in F : a <= d
    BY <2>1
  <2>3. Before(h, a) = Null
    BY <1>2, <1>4
  <2> QED BY <2>2, <2>3 DEF Predecessor
<1> QED BY <1>3, <1>4

\* freeAlgorithm() makes the block a chunk, and no two chunks touch.
LEMMA FreedSound ==
  ASSUME NEW h, NEW F, NEW B, NEW k, Sound(h, F, B, k), Separated(h, F), NEW a \in B, k[a] = h.size[a]
  PROVE  LET g == Freed(h, a)
         IN  \E G : Sound(g, G, B \ {a}, k) /\ Separated(g, G) /\ \A b \in B \ {a} : g.size[b] = h.size[b]
<1>1. /\ h \in Lists /\ ListOf(h, F) /\ B \subseteq Addresses /\ F \cap B = {}
      /\ F \subseteq Addresses /\ F \subseteq Nat /\ Null \notin F /\ a \in Addresses /\ a \in Nat /\ a \notin F
  BY SoundFacts, ListLinks
<1>2. PICK p : p = Before(h, a)
  OBVIOUS
<1>3. Predecessor(F, a, p)
  BY <1>1, <1>2, BeforeIs
<1>4. p \in Pointers
  BY <1>1, <1>3, PointerFacts DEF Predecessor
<1>5. PICK n : n = IF p = Null THEN h.first ELSE h.next[p]
  OBVIOUS
<1>6. Successor(F, a, n)
  BY <1>1, <1>3, <1>5, NeighboursOf
<1>7. n \in Pointers
  BY <1>1, <1>6, PointerFacts DEF Successor
<1>8. PICK e : e = Insert(h, a, p, n)
  OBVIOUS
<1>9. Sound(e, F \cup {a}, B \ {a}, k)
  BY <1>3, <1>4, <1>6, <1>7, <1>8, InsertSound
<1>10. e.size = h.size
  BY <1>1, <1>4, <1>7, <1>8, InsertType
<1>11. /\ \A x \in Addresses : e.next[x] = IF x = a THEN n ELSE IF x = p THEN a ELSE h.next[x]
       /\ \A x \in Addresses : e.prev[x] = IF x = a THEN p ELSE IF x = n THEN a ELSE h.prev[x]
  BY <1>1, <1>4, <1>7, <1>8, InsertFields
<1>12. e.prev[a] = p
  BY <1>1, <1>11
<1>13. ASSUME NEW c \in F \cup {a}, c # p, c # a, e.next[c] # Null PROVE End(e, c) < e.next[c]
  <2>1. c \in F /\ e.next[c] = h.next[c]
    BY <1>1, <1>11, <1>13
  <2>2. End(e, c) = End(h, c)
    BY <1>10 DEF End
  <2> QED BY <1>13, <2>1, <2>2 DEF Separated
<1>14. Apart(e, F \cup {a}, e.prev[a], a)
  BY <1>12, <1>13 DEF Apart
<1>15. PICK g : g = Merged(e, a)
  OBVIOUS
<1>16. PICK G : Sound(g, G, B \ {a}, k) /\ Separated(g, G) /\ \A b \in B \ {a} : g.size[b] = e.size[b]
  <2>1. a \in F \cup {a}
    OBVIOUS
  <2> QED BY <1>9, <1>14, <1>15, <2>1, MergedSound
<1>17. g = Freed(h, a)
  BY <1>2, <1>5, <1>8, <1>15 DEF Freed
<1> QED BY <1>10, <1>16, <1>17

-----------------------------------------------------------------------------
\* A chunk that leaves the list leaves a gap behind the chunk in front of it.
LEMMA UnlinkApart ==
  ASSUME NEW h, NEW F, NEW B, NEW k, Sound(h, F, B, k), NEW a \in F, Apart(h, F, h.prev[a], a)
  PROVE  Separated(Unlink(h, a), F \ {a})
<1>1. /\ h \in Lists /\ ListOf(h, F) /\ F \subseteq Addresses /\ F \subseteq Nat /\ Null \notin F
      /\ a \in Addresses /\ a \in Nat
  BY SoundFacts, ListLinks
<1>2. PICK g : g = Unlink(h, a)
  OBVIOUS
<1>3. g.size = h.size
  BY <1>1, <1>2, UnlinkType
<1>4. \A x \in Addresses : g.next[x] =
        IF x = a THEN Null ELSE IF x = h.prev[a] THEN h.next[a] ELSE h.next[x]
  BY <1>1, <1>2, UnlinkFields
<1>5. ASSUME NEW c \in F \ {a}, g.next[c] # Null PROVE End(g, c) < g.next[c]
  <2>0. c \in Addresses /\ c \in Nat /\ End(g, c) = End(h, c)
    BY <1>1, <1>3 DEF End
  <2>1. CASE c = h.prev[a]
    <3>1. g.next[c] = h.next[a]
      BY <1>4, <1>5, <2>0, <2>1
    <3>2. h.next[a] \in F /\ a < h.next[a]
      BY <1>1, <1>5, <3>1, ListLinks
    <3>3. a # h.first
      BY <1>1, <1>5, <2>1, ListLinks
    <3>4. c < a
      BY <1>1, <2>1, <3>3, ListLinks
    <3>5. End(h, c) \in Nat /\ End(h, c) <= a
      BY <1>5, <3>4, SoundFacts
    <3>6. h.next[a] \in Nat
      BY <1>1, <3>2
    <3> QED BY <1>1, <2>0, <3>1, <3>2, <3>5, <3>6
  <2>2. CASE c # h.prev[a]
    <3>1. g.next[c] = h.next[c]
      BY <1>4, <1>5, <2>0, <2>2
    <3> QED BY <1>5, <2>0, <2>2, <3>1 DEF Apart
  <2> QED BY <2>1, <2>2
<1> QED BY <1>2, <1>5 DEF Separated

\* What is cut off ends where the chunk ended.
LEMMA CutApart ==
  ASSUME NEW h, NEW F, NEW B, NEW k, Sound(h, F, B, k), NEW c \in F, NEW a \in Nat,
         c + HeaderSize <= a, a + HeaderSize <= End(h, c), NEW x, c # x, Apart(h, F, x, x)
  PROVE  Apart(Cut(h, c, a), F \cup {a}, x, c)
<1>1. PICK g : g = Cut(h, c, a)
  OBVIOUS
<1>2. /\ a \in Addresses /\ a \notin F /\ a \notin B /\ a # c /\ Sound(g, F \cup {a}, B, k)
      /\ g.size[a] = End(h, c) - a - HeaderSize
      /\ \A y \in Addresses \ {a, c} : g.size[y] = h.size[y]
      /\ \A y \in Addresses : g.next[y] = IF y = a THEN h.next[c] ELSE IF y = c THEN a ELSE h.next[y]
  BY <1>1, CutSound
<1>3. F \subseteq Addresses /\ End(h, c) \in Nat /\ HeaderSize \in Nat
  BY SoundFacts, HeapAssumption
<1>4. ASSUME NEW d \in F \cup {a}, d # x, d # c, g.next[d] # Null PROVE End(g, d) < g.next[d]
  <2>1. CASE d = a
    <3>1. g.next[a] = h.next[c]
      BY <1>2
    <3>2. End(h, c) < h.next[c]
      BY <1>4, <2>1, <3>1 DEF Apart
    <3>3. End(g, a) = a + HeaderSize + g.size[a]
      BY DEF End
    <3>4. End(g, a) = End(h, c)
      BY <1>2, <1>3, <3>3
    <3> QED BY <2>1, <3>1, <3>2, <3>4
  <2>2. CASE d # a
    <3>1. d \in F /\ d \in Addresses
      BY <1>3, <1>4, <2>2
    <3>2. g.next[d] = h.next[d] /\ g.size[d] = h.size[d]
      BY <1>2, <1>4, <2>2, <3>1
    <3>3. End(g, d) = End(h, d)
      BY <3>2 DEF End
    <3> QED BY <1>4, <3>1, <3>2, <3>3 DEF Apart
  <2> QED BY <2>1, <2>2
<1> QED BY <1>1, <1>4 DEF Apart

\* g is the list h without the block at a, which has size words or more.
BlockTaken(h, g, B, k, a, size) ==
  /\ \E G, l : /\ Sound(g, G, B \cup {a}, l) /\ Separated(g, G)
               /\ l[a] = g.size[a] /\ \A b \in B : l[b] = k[b]
  /\ g.size[a] >= size /\ \A b \in B : g.size[b] = h.size[b]

\* The chunk at a becomes a block, and what is left of it may stay a chunk.
LEMMA SlicedSound ==
  ASSUME NEW h, NEW F, NEW B, NEW k, Sound(h, F, B, k), NEW a \in F,
         Apart(h, F, h.prev[a], h.prev[a]), NEW size \in Nat, size <= h.size[a]
  PROVE  BlockTaken(h, Sliced(h, a, size), B, k, a, size)
<1>0. HeaderSize \in Nat \ {0} /\ MinBlockSize \in Nat
  BY HeapAssumption
<1>1. /\ h \in Lists /\ ListOf(h, F) /\ F \subseteq Addresses /\ F \subseteq Nat /\ Null \notin F
      /\ a \in Addresses /\ a \in Nat /\ F \cap B = {} /\ B \subseteq Addresses
  BY SoundFacts, ListLinks
<1>2. h.size[a] \in Nat /\ End(h, a) = a + HeaderSize + h.size[a]
  BY SoundFacts
<1>3. PICK g : g = Sliced(h, a, size)
  OBVIOUS
<1>4. PICK p : p = h.prev[a]
  OBVIOUS
<1>5. Apart(h, F, p, p)
  BY <1>4
<1>6. p # a
  <2>1. CASE a = h.first
    BY <1>1, <1>4, <2>1, ListLinks
  <2>2. CASE a # h.first
    <3>1. h.prev[a] < a /\ h.prev[a] \in F
      BY <1>1, <2>2, ListLinks
    <3>2. p \in Nat /\ p < a
      BY <1>1, <1>4, <3>1
    <3> QED BY <1>1, <3>2
  <2> QED BY <2>1, <2>2
<1>7. PICK e, E : /\ Sound(e, E, B, k) /\ a \in E /\ Apart(e, E, e.prev[a], a)
                  /\ g = Unlink(e, a) /\ e.size[a] >= size /\ \A b \in B : e.size[b] = h.size[b]
  <2>1. CASE h.size[a] - size >= MinBlockSize + HeaderSize
    <3>1. PICK r \in Nat : r = a + HeaderSize + size
      BY <1>0, <1>1
    <3>2. a + HeaderSize <= r /\ r + HeaderSize <= End(h, a)
      BY <1>0, <1>1, <1>2, <2>1, <3>1
    <3>3. PICK e : e = Cut(h, a, r)
      OBVIOUS
    <3>4. /\ r \in Addresses /\ r \notin F /\ r \notin B /\ r # a
          /\ Sound(e, F \cup {r}, B, k) /\ e.size[a] = r - a - HeaderSize
          /\ \A x \in Addresses \ {r, a} : e.size[x] = h.size[x]
          /\ \A x \in Addresses : e.prev[x] = IF x = r THEN a ELSE IF x = h.next[a] THEN r ELSE h.prev[x]
      BY <3>2, <3>3, CutSound
    <3>5. Apart(e, F \cup {r}, p, a)
      BY <1>5, <1>6, <3>2, <3>3, CutApart
    <3>6. h.next[a] # a
      <4>1. h.next[a] # Null => h.next[a] \in F /\ a < h.next[a]
        BY <1>1, ListLinks
      <4>2. CASE h.next[a] = Null
        BY <1>1, <4>2
      <4>3. CASE h.next[a] # Null
        <5>1. h.next[a] \in Nat /\ a < h.next[a]
          BY <1>1, <4>1, <4>3
        <5> QED BY <1>1, <5>1
      <4> QED BY <4>2, <4>3
    <3>7. e.prev[a] = p
      BY <1>1, <1>4, <3>4, <3>6
    <3>8. g = Unlink(e, a)
      BY <1>3, <2>1, <3>1, <3>3 DEF Sliced
    <3>9. e.size[a] >= size
      BY <1>0, <1>1, <3>1, <3>4
    <3>10. \A b \in B : e.size[b] = h.size[b]
      BY <1>1, <3>4
    <3>11. a \in F \cup {r}
      OBVIOUS
    <3> QED BY <3>4, <3>5, <3>7, <3>8, <3>9, <3>10, <3>11
  <2>2. CASE ~(h.size[a] - size >= MinBlockSize + HeaderSize)
    <3>1. g = Unlink(h, a)
      BY <1>3, <2>2 DEF Sliced
    <3>2. Apart(h, F, h.prev[a], a)
      BY <1>4, <1>5 DEF Apart
    <3>3. h.size[a] >= size
      BY <1>2
    <3> QED BY <3>1, <3>2, <3>3
  <2> QED BY <2>1, <2>2
<1>8. e \in Lists
  BY <1>7, SoundFacts
<1>9. g.size = e.size
  BY <1>1, <1>7, <1>8, UnlinkType
<1>10. Separated(g, E \ {a})
  BY <1>7, UnlinkApart
<1>11. PICK l : l = [k EXCEPT ![a] = g.size[a]]
  OBVIOUS
<1>12. l \in [Addresses -> 0..Total] /\ l[a] = e.size[a] /\ \A b \in B : l[b] = k[b]
  <2>1. k \in [Addresses -> 0..Total] /\ e.size[a] \in 0..Total /\ a \notin B
    BY <1>1, <1>8 DEF Sound, Lists
  <2> QED BY <1>1, <1>9, <1>11, <2>1
<1>13. Sound(g, E \ {a}, B \cup {a}, l)
  BY <1>7, <1>12, UnlinkSound
<1>14. g.size[a] >= size /\ \A b \in B : g.size[b] = h.size[b]
  BY <1>7, <1>9
<1> QED BY <1>3, <1>9, <1>10, <1>12, <1>13, <1>14 DEF BlockTaken

\* allocAlgorithm() takes a place for the block out of a chunk.
LEMMA TakenSound ==
  ASSUME NEW h, NEW F, NEW B, NEW k, Sound(h, F, B, k), Separated(h, F), NEW c \in F, NEW a \in Nat,
         a = c \/ c + HeaderSize <= a, NEW size \in Nat, a + HeaderSize + size <= End(h, c)
  PROVE  a \in Addresses /\ a \notin B /\ a \notin F \ {c} /\ BlockTaken(h, Taken(h, c, a, size), B, k, a, size)
<1>0. HeaderSize \in Nat \ {0} /\ Total \in Nat
  BY HeapAssumption
<1>1. /\ h \in Lists /\ ListOf(h, F) /\ F \subseteq Addresses /\ F \subseteq Nat /\ Null \notin F
      /\ c \in Addresses /\ c \in Nat /\ F \cap B = {} /\ B \subseteq Addresses
  BY SoundFacts, ListLinks
<1>2. h.size[c] \in Nat /\ End(h, c) = c + HeaderSize + h.size[c] /\ End(h, c) \in Nat
  BY SoundFacts
<1>3. PICK e, E : /\ e = Cut(h, c, a) /\ Sound(e, E, B, k) /\ a \in E /\ Apart(e, E, e.prev[a], e.prev[a])
                  /\ size <= e.size[a] /\ \A b \in B : e.size[b] = h.size[b]
  <2>1. CASE a = c
    <3>1. Cut(h, c, a) = h
      BY <2>1 DEF Cut
    <3>2. Apart(h, F, h.prev[a], h.prev[a])
      BY DEF Apart, Separated
    <3>3. size <= h.size[a]
      BY <1>0, <1>1, <1>2, <2>1
    <3> QED BY <2>1, <3>1, <3>2, <3>3
  <2>2. CASE a # c
    <3>1. c + HeaderSize <= a /\ a + HeaderSize <= End(h, c)
      BY <1>0, <1>2, <2>2
    <3>2. PICK e : e = Cut(h, c, a)
      OBVIOUS
    <3>3. /\ a \in Addresses /\ a \notin F /\ a \notin B
          /\ Sound(e, F \cup {a}, B, k) /\ e.size[a] = End(h, c) - a - HeaderSize
          /\ \A x \in Addresses \ {a, c} : e.size[x] = h.size[x]
          /\ \A x \in Addresses : e.prev[x] = IF x = a THEN c ELSE IF x = h.next[c] THEN a ELSE h.prev[x]
      BY <3>1, <3>2, CutSound
    <3>4. Apart(h, F, Null, Null) /\ c # Null
      BY <1>1 DEF Apart, Separated
    <3>5. Apart(e, F \cup {a}, Null, c)
      BY <3>1, <3>2, <3>4, CutApart
    <3>6. Null \notin F \cup {a} /\ e.prev[a] = c
      BY <1>1, <3>3, PointerFacts
    <3>7. Apart(e, F \cup {a}, e.prev[a], e.prev[a])
      BY <3>5, <3>6 DEF Apart
    <3>8. size <= e.size[a]
      BY <1>0, <1>2, <3>3
    <3>9. \A b \in B : e.size[b] = h.size[b]
      BY <1>1, <3>3
    <3>10. a \in F \cup {a}
      OBVIOUS
    <3> QED BY <3>2, <3>3, <3>7, <3>8, <3>9, <3>10
  <2> QED BY <2>1, <2>2
<1>4. a \in Addresses /\ a \notin B
  BY <1>3, SoundFacts
<1>5. a \notin F \ {c}
  <2>1. CASE a = c
    BY <2>1
  <2>2. CASE a # c
    <3>1. c + HeaderSize <= a /\ a + HeaderSize <= End(h, c)
      BY <1>0, <1>2, <2>2
    <3> QED BY <3>1, CutSound
  <2> QED BY <2>1, <2>2
<1>6. Taken(h, c, a, size) = Sliced(e, a, size)
  BY <1>3 DEF Taken
<1>7. BlockTaken(e, Sliced(e, a, size), B, k, a, size)
  BY <1>3, SlicedSound
<1>8. BlockTaken(h, Sliced(e, a, size), B, k, a, size)
  BY <1>3, <1>7 DEF BlockTaken
<1> QED BY <1>4, <1>5, <1>6, <1>8

-----------------------------------------------------------------------------
\* There is a multiple of m among m numbers.
LEMMA MultipleNear ==
  ASSUME NEW low \in Nat, NEW m \in Nat \ {0}
  PROVE  \E x \in Nat : low <= x /\ x < low + m /\ x % m = 0
<1>1. /\ low \div m \in Nat /\ low % m \in 0..(m - 1) /\ low = (low \div m) * m + (low % m)
  BY SMT
<1>2. CASE low % m = 0
  BY <1>2
<1>3. CASE low % m # 0
  <2>1. PICK d \in Nat : d = low \div m
    BY <1>1
  <2>2. ((d + 1) * m) % m = 0
    BY SMT
  <2>3. PICK y \in Nat : y = d * m
    BY <2>1
  <2>4. (d + 1) * m = y + m
    BY <2>3
  <2>5. low <= y + m /\ y + m < low + m
    BY <1>1, <1>3, <2>1, <2>3
  <2> QED BY <2>2, <2>3, <2>4, <2>5
<1> QED BY <1>2, <1>3

\* The place of a block is aligned and inside the chunk, and leaves room for
\* a header in front of it.
LEMMA PlaceFits ==
  ASSUME NEW h, NEW F, NEW B, NEW k, Sound(h, F, B, k), NEW c \in F, NEW size \in Nat,
         NEW alignment \in Nat \ {0}, Place(h, c, size, alignment) # Null
  PROVE  LET a == Place(h, c, size, alignment)
         IN  /\ a \in Nat /\ (a = c \/ c + HeaderSize <= a)
             /\ a + HeaderSize + size <= End(h, c) /\ (a + HeaderSize) % alignment = 0
<1>0. HeaderSize \in Nat \ {0} /\ MinBlockSize \in Nat
  BY HeapAssumption
<1>1. c \in Nat /\ h.size[c] \in Nat /\ End(h, c) = c + HeaderSize + h.size[c]
  BY SoundFacts
<1>2. PICK data \in Nat : data = c + HeaderSize
  BY <1>0, <1>1
<1> DEFINE Fit(x) == /\ x % alignment = 0 /\ x - HeaderSize >= data + MinBlockSize
                     /\ x - alignment - HeaderSize < data + MinBlockSize
           S == data..(data + 2 * alignment + HeaderSize + MinBlockSize)
           aligned == CHOOSE x \in S : Fit(x)
           a == Place(h, c, size, alignment)
<1>3. a = IF h.size[c] < size THEN Null
          ELSE IF data % alignment = 0 THEN c
          ELSE IF aligned + size <= End(h, c) THEN aligned - HeaderSize ELSE Null
  BY <1>2 DEF Place
<1>4. \E x \in S : Fit(x)
  <2>1. PICK x \in Nat : /\ data + MinBlockSize + HeaderSize <= x
                         /\ x < data + MinBlockSize + HeaderSize + alignment /\ x % alignment = 0
    <3>1. data + MinBlockSize + HeaderSize \in Nat
      BY <1>0
    <3> QED BY <3>1, MultipleNear
  <2>2. x \in S
    BY <1>0, <2>1
  <2>3. Fit(x)
    BY <1>0, <2>1
  <2> QED BY <2>2, <2>3
<1>5. aligned \in S /\ Fit(aligned)
  <2> HIDE DEF Fit, S
  <2> QED BY <1>4
<1>6. aligned \in Nat /\ aligned % alignment = 0 /\ aligned - HeaderSize >= data + MinBlockSize
  BY <1>0, <1>5
<1> HIDE DEF a, aligned, Fit, S
<1>7. a # Null
  BY DEF a
<1>8. CASE data % alignment = 0
  <2>1. a = c /\ size <= h.size[c]
    BY <1>1, <1>3, <1>7, <1>8
  <2>2. c + HeaderSize + size <= End(h, c)
    BY <1>0, <1>1, <2>1
  <2> QED BY <1>1, <1>2, <1>8, <2>1, <2>2 DEF a
<1>9. CASE data % alignment # 0
  <2>1. a = aligned - HeaderSize /\ aligned + size <= End(h, c)
    BY <1>3, <1>7, <1>9
  <2>2. a \in Nat /\ a + HeaderSize = aligned /\ c + HeaderSize <= a
    BY <1>0, <1>1, <1>2, <1>6, <2>1
  <2>3. a + HeaderSize + size <= End(h, c) /\ (a + HeaderSize) % alignment = 0
    BY <1>6, <2>1, <2>2
  <2> QED BY <2>2, <2>3 DEF a
<1> QED BY <1>8, <1>9

\* The search of allocAlgorithm() ends at a chunk that has a place, or at none.
LEMMA FoundFits ==
  ASSUME NEW h, NEW F, ListOf(h, F), NEW size, NEW alignment, NEW from \in F \cup {Null},
         Found(h, size, alignment, from) # Null
  PROVE  LET c == Found(h, size, alignment, from)
         IN  c \in F /\ Place(h, c, size, alignment) # Null
<1>1. PICK s : s = IF from = Null THEN h.first ELSE from
  OBVIOUS
<1>2. s \in F \cup {Null} /\ Total \in Nat
  BY <1>1, ListLinks, HeapAssumption
<1>3. PICK f : f = Chain(h, s)
  OBVIOUS
<1>4. \A i \in 0..Total : f[i] \in F \cup {Null}
  BY <1>2, <1>3, ChainStays
<1>5. PICK fits : fits = {i \in 0..Total : f[i] # Null /\ Place(h, f[i], size, alignment) # Null}
  OBVIOUS
<1>6. Found(h, size, alignment, from) = IF fits = {} THEN Null ELSE f[CHOOSE i \in fits : \A j \in fits : i <= j]
  BY <1>1, <1>3, <1>5 DEF Found
<1>7. fits # {} /\ fits \subseteq Nat
  BY <1>2, <1>5, <1>6
<1>8. \E i \in fits : \A j \in fits : i <= j
  BY <1>7, Smallest
<1>9. PICK i \in fits : Found(h, size, alignment, from) = f[i]
  BY <1>6, <1>7, <1>8
<1> QED BY <1>4, <1>5, <1>9

-----------------------------------------------------------------------------
\* The loop of reallocateMemory() ends.
LEMMA LoopEnds ==
  ASSUME NEW h, NEW F, ListOf(h, F), NEW a \in Nat
  PROVE  /\ LoopEnd(h, a) \in 1..Total
         /\ \A j \in 1..(LoopEnd(h, a) - 1) : Chain(h, h.first)[j] # Null
<1>0. Total \in Nat \ {0} /\ HeaderSize \in Nat
  BY HeapAssumption
<1>1. F \subseteq Addresses /\ F \subseteq Nat /\ h.first \in F \cup {Null}
  BY ListLinks
<1>2. PICK f : f = Chain(h, h.first)
  OBVIOUS
<1>3. \A i \in 0..Total : f[i] \in F \cup {Null}
  BY <1>1, <1>2, ChainStays
<1>4. \A i \in 0..Total : f[i] # Null => i <= f[i]
  BY <1>2, ChainRises
<1> DEFINE Stop(i) == f[i] = Null \/ f[i] >= a + HeaderSize
           Last(i) == Stop(i) /\ \A j \in 1..(i - 1) : f[j] # Null /\ f[j] < a + HeaderSize
           S == {i \in 1..Total : Stop(i)}
<1>5. Total \in S
  <2>1. f[Total] = Null
    <3> SUFFICES ASSUME f[Total] # Null PROVE FALSE
      OBVIOUS
    <3>1. f[Total] \in F /\ Total <= f[Total]
      BY <1>0, <1>3, <1>4
    <3>2. f[Total] \in 0..(Total - 1)
      BY <1>1, <3>1 DEF Addresses
    <3> QED BY <1>0, <3>1, <3>2
  <2> QED BY <1>0, <2>1
<1>6. PICK i \in S : \A j \in S : i <= j
  <2>1. S \subseteq Nat /\ S # {}
    BY <1>0, <1>5
  <2> HIDE DEF S
  <2> QED BY <2>1, Smallest
<1>7. Last(i)
  <2>1. ASSUME NEW j \in 1..(i - 1) PROVE f[j] # Null /\ f[j] < a + HeaderSize
    <3>1. j \in 1..Total /\ j \in 0..Total /\ ~(i <= j)
      BY <1>0, <1>6
    <3>2. ~Stop(j)
      BY <1>6, <3>1
    <3>3. f[j] \in Nat
      BY <1>1, <1>3, <3>1, <3>2
    <3> QED BY <1>0, <3>2, <3>3
  <2> QED BY <1>6, <2>1
<1>8. LoopEnd(h, a) = CHOOSE x \in 1..Total : Last(x)
  BY <1>2 DEF LoopEnd
<1>9. \E x \in 1..Total : Last(x)
  BY <1>6, <1>7
<1>10. LoopEnd(h, a) \in 1..Total /\ Last(LoopEnd(h, a))
  <2> HIDE DEF Last
  <2> QED BY <1>8, <1>9
<1> QED BY <1>2, <1>10

\* A neighbour that suffices is a chunk behind the block.
LEMMA NeighbourIs ==
  ASSUME NEW h, NEW F, ListOf(h, F), NEW a \in Nat, NEW size, Neighbour(h, a, size) # Null
  PROVE  LET n == Neighbour(h, a, size)
         IN  n \in F /\ End(h, a) = n /\ h.size[a] + h.size[n] + HeaderSize >= size
<1>1. PICK n : n = Chain(h, h.first)[LoopEnd(h, a)]
  OBVIOUS
<1>2. LoopEnd(h, a) \in 0..Total /\ h.first \in F \cup {Null}
  <2>1. LoopEnd(h, a) \in 1..Total
    BY LoopEnds
  <2>2. LoopEnd(h, a) \in 0..Total
    BY <2>1, HeapAssumption
  <2> QED BY <2>2, ListLinks
<1>3. n \in F \cup {Null}
  BY <1>1, <1>2, ChainStays
<1>4. Neighbour(h, a, size) =
        IF n # Null /\ End(h, a) = n /\ h.size[a] + h.size[n] + HeaderSize >= size THEN n ELSE Null
  BY <1>1 DEF Neighbour
<1> QED BY <1>3, <1>4

\* The best fit is a chunk, or there is none.
LEMMA BestFitIs ==
  ASSUME NEW h \in Lists, NEW F, ListOf(h, F), NEW a \in Nat, h.first # Null, NEW size
  PROVE  BestFit(h, a, size) \in F \cup {Null}
<1>0. Total \in Nat \ {0} /\ F \subseteq Addresses /\ h.first \in F
  BY HeapAssumption, ListLinks
<1>1. PICK f : f = Chain(h, h.first)
  OBVIOUS
<1>2. f[0] = h.first
  BY <1>1, ChainDef
<1>3. \A i \in 0..Total : f[i] \in F \cup {Null}
  BY <1>0, <1>1, ChainStays
<1>4. PICK e \in 1..Total : e = LoopEnd(h, a) /\ \A j \in 1..(e - 1) : f[j] # Null
  BY <1>1, LoopEnds
<1>5. ASSUME NEW i \in 0..(e - 1) PROVE f[i] \in F /\ h.size[f[i]] \in Nat
  <2>1. f[i] \in F
    <3>1. CASE i = 0
      BY <1>0, <1>2, <3>1
    <3>2. CASE i # 0
      <4>1. i \in 1..(e - 1) /\ i \in 0..Total
        BY <1>0, <3>2
      <4> QED BY <1>3, <1>4, <4>1
    <3> QED BY <3>1, <3>2
  <2> QED BY <1>0, <2>1 DEF Lists
<1>6. PICK large : large = {i \in 0..(e - 1) : h.size[f[i]] >= size}
  OBVIOUS
<1> DEFINE Best(i) == \A j \in large : h.size[f[i]] < h.size[f[j]] \/ (h.size[f[i]] = h.size[f[j]] /\ i <= j)
<1>7. BestFit(h, a, size) = IF large = {} THEN Null ELSE f[CHOOSE i \in large : Best(i)]
  BY <1>1, <1>4, <1>6 DEF BestFit
<1>8. CASE large = {}
  BY <1>7, <1>8
<1>9. CASE large # {}
  <2>1. PICK V : V = {h.size[f[i]] : i \in large}
    OBVIOUS
  <2>2. V \subseteq Nat /\ V # {}
    BY <1>5, <1>6, <1>9, <2>1
  <2>3. PICK v \in V : \A w \in V : v <= w
    BY <2>2, Smallest
  <2>4. PICK I : I = {i \in large : h.size[f[i]] = v}
    OBVIOUS
  <2>5. I \subseteq Nat /\ I # {}
    <3>1. large \subseteq Nat
      BY <1>6
    <3> QED BY <2>1, <2>3, <2>4, <3>1
  <2>6. PICK i \in I : \A j \in I : i <= j
    BY <2>5, Smallest
  <2>7. i \in large /\ h.size[f[i]] = v /\ v \in Nat
    BY <2>2, <2>3, <2>4, <2>6
  <2>8. ASSUME NEW j \in large
        PROVE  h.size[f[i]] < h.size[f[j]] \/ (h.size[f[i]] = h.size[f[j]] /\ i <= j)
    <3>1. h.size[f[j]] \in V
      BY <2>1
    <3>2. h.size[f[j]] \in Nat /\ v <= h.size[f[j]]
      BY <2>2, <2>3, <3>1
    <3>3. h.size[f[j]] = v => i <= j
      BY <2>4, <2>6
    <3> QED BY <2>7, <3>2, <3>3
  <2>9. \E x \in large : Best(x)
    BY <2>7, <2>8
  <2>10. PICK x \in large : BestFit(h, a, size) = f[x]
    <3> HIDE DEF Best
    <3> QED BY <1>7, <1>9, <2>9
  <2>11. f[x] \in F
    BY <1>5, <1>6, <2>10
  <2> QED BY <2>10, <2>11
<1> QED BY <1>8, <1>9

-----------------------------------------------------------------------------
\* Separated() depends on the sizes and the order of the chunks only.
LEMMA SeparatedKept ==
  ASSUME NEW h, NEW F, Separated(h, F), NEW g,
         \A c \in F : g.next[c] = h.next[c] /\ g.size[c] = h.size[c]
  PROVE  Separated(g, F)
BY DEF Separated, End

\* A block is split in two ...
LEMMA BlockSplit ==
  ASSUME NEW h, NEW F, NEW B, NEW k, Sound(h, F, B, k), NEW a \in B, NEW size \in Nat,
         size + HeaderSize <= k[a], NEW r, r = a + HeaderSize + size,
         NEW g \in Lists, g.first = h.first,
         \A c \in F : g.next[c] = h.next[c] /\ g.prev[c] = h.prev[c] /\ g.size[c] = h.size[c],
         NEW l \in [Addresses -> 0..Total], l[a] = size, l[r] = k[a] - size - HeaderSize,
         \A b \in B \ {a} : l[b] = k[b]
  PROVE  r \in Addresses /\ r \notin F /\ r \notin B /\ Sound(g, F, B \cup {r}, l)
<1>0. Total \in Nat /\ HeaderSize \in Nat \ {0}
  BY HeapAssumption
<1>1. /\ ListOf(h, F) /\ B \subseteq Addresses /\ F \cap B = {} /\ F \subseteq Addresses
      /\ a \in Addresses /\ a \in Nat /\ k[a] \in Nat
  BY SoundFacts
<1>2. r \in Nat /\ a < r
  BY <1>0, <1>1
<1>3. PICK s : s = Measure(h, F, k)
  OBVIOUS
<1>4. Tiling(F \cup B, s)
  BY <1>3 DEF Sound
<1>5. s[a] = k[a]
  BY <1>1, <1>3 DEF Measure
<1>6. r \notin F \cup B
  <2> SUFFICES ASSUME r \in F \cup B PROVE FALSE
    OBVIOUS
  <2>1. a + HeaderSize + k[a] <= r
    BY <1>2, SoundFacts
  <2> QED BY <1>0, <1>1, <2>1
<1>7. PICK t : t = Measure(g, F, l)
  OBVIOUS
<1>8. t \in [Addresses -> 0..Total]
  BY <1>7 DEF Measure, Lists
<1>9. \A c \in F \cup B : c # a => t[c] = s[c]
  BY <1>1, <1>3, <1>7 DEF Measure
<1>10. r \in Addresses
  <2>1. a + HeaderSize + k[a] <= Total
    BY SoundFacts
  <2> QED BY <1>0, <1>1, <1>2, <2>1 DEF Addresses
<1>11. t[a] = size /\ t[r] = k[a] - size - HeaderSize
  BY <1>1, <1>6, <1>7, <1>10 DEF Measure
<1>12. Tiling((F \cup B) \cup {r}, t)
  <2>1. a + HeaderSize <= r /\ r + HeaderSize <= a + HeaderSize + s[a]
    BY <1>0, <1>1, <1>5
  <2>2. t[a] = r - a - HeaderSize /\ t[r] = a + HeaderSize + s[a] - r - HeaderSize
    BY <1>0, <1>1, <1>2, <1>5, <1>11
  <2>3. a \in F \cup B /\ \A c \in (F \cup B) \ {a} : t[c] = s[c]
    BY <1>9
  <2> QED BY <1>2, <1>4, <1>8, <2>1, <2>2, <2>3, SplitTiling
<1>13. ListOf(g, F)
  BY <1>1 DEF ListOf
<1>14. (F \cup B) \cup {r} = F \cup (B \cup {r}) /\ F \cap (B \cup {r}) = {} /\ B \cup {r} \subseteq Addresses
  BY <1>1, <1>6, <1>10
<1> QED BY <1>6, <1>7, <1>10, <1>12, <1>13, <1>14 DEF Sound

\* ... and two become one.
LEMMA BlockJoin ==
  ASSUME NEW h, NEW F, NEW B, NEW k, Sound(h, F, B, k), NEW a \in B, NEW n \in B,
         n - a = HeaderSize + k[a], NEW g \in Lists, g.first = h.first,
         \A c \in F : g.next[c] = h.next[c] /\ g.prev[c] = h.prev[c] /\ g.size[c] = h.size[c],
         NEW l \in [Addresses -> 0..Total], l[a] = k[a] + HeaderSize + k[n],
         \A b \in B \ {a, n} : l[b] = k[b]
  PROVE  Sound(g, F, B \ {n}, l)
<1>0. Total \in Nat /\ HeaderSize \in Nat \ {0}
  BY HeapAssumption
<1>1. /\ ListOf(h, F) /\ B \subseteq Addresses /\ F \cap B = {} /\ F \subseteq Addresses
      /\ a \in Addresses /\ a \in Nat /\ k[a] \in Nat
  BY SoundFacts
<1>2. PICK s : s = Measure(h, F, k)
  OBVIOUS
<1>3. Tiling(F \cup B, s)
  BY <1>2 DEF Sound
<1>4. \A b \in B : s[b] = k[b]
  BY <1>1, <1>2 DEF Measure
<1>5. PICK t : t = Measure(g, F, l)
  OBVIOUS
<1>6. t \in [Addresses -> 0..Total]
  BY <1>5 DEF Measure, Lists
<1>7. \A c \in (F \cup B) \ {a, n} : t[c] = s[c]
  BY <1>1, <1>2, <1>5 DEF Measure
<1>8. t[a] = s[a] + HeaderSize + s[n] /\ n - a = HeaderSize + s[a]
  BY <1>1, <1>4, <1>5 DEF Measure
<1>9. PICK H : H = F \cup B
  OBVIOUS
<1>10. Tiling((F \cup B) \ {n}, t)
  <2>1. Tiling(H, s) /\ a \in H /\ n \in H /\ \A c \in H \ {a, n} : t[c] = s[c]
    BY <1>3, <1>7, <1>9
  <2>2. Tiling(H \ {n}, t)
    BY <1>6, <1>8, <2>1, JoinTiling
  <2> QED BY <1>9, <2>2
<1>11. ListOf(g, F)
  BY <1>1 DEF ListOf
<1>12. (F \cup B) \ {n} = F \cup (B \ {n}) /\ F \cap (B \ {n}) = {} /\ B \ {n} \subseteq Addresses
  BY <1>1
<1> QED BY <1>5, <1>10, <1>11, <1>12 DEF Sound

\* The block takes the chunk behind it and gives back what it does not need.
LEMMA ExtendedSound ==
  ASSUME NEW h, NEW F, NEW B, NEW k, Sound(h, F, B, k), Separated(h, F), NEW a \in B, k[a] = h.size[a],
         NEW n \in F, End(h, a) = n, NEW size \in Nat, h.size[a] + h.size[n] + HeaderSize >= size
  PROVE  LET g == Extended(h, a, n, size)
         IN  /\ \E G, l : /\ Sound(g, G, B, l) /\ Separated(g, G)
                         /\ l[a] = g.size[a] /\ \A b \in B \ {a} : l[b] = k[b]
             /\ g.size[a] >= size /\ \A b \in B \ {a} : g.size[b] = h.size[b]
<1>0. Total \in Nat /\ HeaderSize \in Nat \ {0} /\ MinBlockSize \in Nat
  BY HeapAssumption
<1>1. /\ h \in Lists /\ ListOf(h, F) /\ B \subseteq Addresses /\ F \cap B = {} /\ F \subseteq Addresses
      /\ a \in Addresses /\ a \in Nat /\ k[a] \in Nat /\ n \in Addresses /\ n \in Nat /\ a # n /\ n \notin B
  BY SoundFacts
<1>2. /\ h.size[n] \in Nat /\ End(h, n) = n + HeaderSize + h.size[n] /\ End(h, n) <= Total
  BY SoundFacts
<1>3. h.size[a] \in Nat /\ n = a + HeaderSize + h.size[a]
  BY <1>1 DEF End
<1>4. PICK all \in Nat : all = h.size[a] + h.size[n] + HeaderSize
  BY <1>0, <1>2, <1>3
<1>5. all \in 0..Total /\ all >= size
  BY <1>0, <1>1, <1>2, <1>3, <1>4
<1>6. PICK u : u = Unlink(h, n)
  OBVIOUS
<1>7. u \in Lists /\ u.size = h.size
  BY <1>1, <1>6, UnlinkType
<1>8. Separated(u, F \ {n})
  <2>1. Apart(h, F, h.prev[n], n)
    BY DEF Apart, Separated
  <2> QED BY <1>6, <2>1, UnlinkApart
<1>9. PICK k1 : k1 = [k EXCEPT ![n] = h.size[n]]
  OBVIOUS
<1>10. k1 \in [Addresses -> 0..Total] /\ k1[n] = h.size[n] /\ \A b \in B : k1[b] = k[b]
  <2>1. k \in [Addresses -> 0..Total] /\ h.size[n] \in 0..Total
    BY <1>1 DEF Sound, Lists
  <2> QED BY <1>1, <1>9, <2>1
<1>11. Sound(u, F \ {n}, B \cup {n}, k1)
  BY <1>6, <1>10, UnlinkSound
<1>12. PICK e : e = Erase(u, n)
  OBVIOUS
<1>13. /\ e \in Lists /\ e.first = u.first
       /\ \A x \in Addresses \ {n} : e.next[x] = u.next[x] /\ e.prev[x] = u.prev[x] /\ e.size[x] = u.size[x]
  <2>1. 0 \in 0..Total /\ Null \in Pointers
    BY <1>0, PointerFacts
  <2> QED BY <1>1, <1>7, <1>12, <2>1 DEF Erase, Lists
<1>14. /\ a \in B \cup {n} /\ n \in B \cup {n} /\ n - a = HeaderSize + k1[a]
       /\ k1[a] + HeaderSize + k1[n] = all /\ (B \cup {n}) \ {n} = B
       /\ \A b \in (B \cup {n}) \ {a, n} : k1[b] = k[b]
  BY <1>0, <1>1, <1>2, <1>3, <1>4, <1>10
<1>15. PICK g : g = Extended(h, a, n, size)
  OBVIOUS
<1>16. PICK l : l = [k EXCEPT ![a] = g.size[a]]
  OBVIOUS
<1>17. k \in [Addresses -> 0..Total]
  BY DEF Sound
<1>18. CASE ~(all - size > HeaderSize + MinBlockSize)
  <2>1. g = [e EXCEPT !.size[a] = all]
    BY <1>4, <1>6, <1>12, <1>15, <1>18 DEF Extended
  <2>2. /\ g \in Lists /\ g.first = e.first /\ g.next = e.next /\ g.prev = e.prev
        /\ \A x \in Addresses : g.size[x] = IF x = a THEN all ELSE e.size[x]
    BY <1>1, <1>5, <1>13, <2>1 DEF Lists
  <2>3. /\ g.first = u.first
        /\ \A c \in F \ {n} : g.next[c] = u.next[c] /\ g.prev[c] = u.prev[c] /\ g.size[c] = u.size[c]
    BY <1>1, <1>13, <2>2
  <2>4. l[a] = all /\ g.size[a] = all /\ l \in [Addresses -> 0..Total] /\ \A b \in B \ {a} : l[b] = k[b]
    BY <1>1, <1>5, <1>16, <1>17, <2>2
  <2>5. l[a] = k1[a] + HeaderSize + k1[n] /\ \A b \in (B \cup {n}) \ {a, n} : l[b] = k1[b]
    BY <1>14, <2>4
  <2>6. Sound(g, F \ {n}, (B \cup {n}) \ {n}, l)
    BY <1>11, <1>14, <2>2, <2>3, <2>4, <2>5, BlockJoin
  <2>7. Separated(g, F \ {n})
    BY <1>8, <2>3, SeparatedKept
  <2>8. \A b \in B \ {a} : g.size[b] = h.size[b]
    BY <1>1, <1>7, <1>13, <2>2
  <2>9. Sound(g, F \ {n}, B, l)
    BY <1>14, <2>6
  <2>10. g.size[a] >= size
    BY <1>5, <2>4
  <2> QED BY <1>15, <2>4, <2>7, <2>8, <2>9, <2>10
<1>19. CASE all - size > HeaderSize + MinBlockSize
  <2>1. PICK r \in Nat : r = a + HeaderSize + size
    BY <1>0, <1>1
  <2>2. PICK q : q = [e EXCEPT !.size[a] = size, !.size[r] = all - size - HeaderSize]
    OBVIOUS
  <2>3. g = Freed(q, r)
    BY <1>4, <1>6, <1>12, <1>15, <1>19, <2>1, <2>2 DEF Extended
  <2>4. PICK k2 : k2 = [k1 EXCEPT ![a] = all]
    OBVIOUS
  <2>5. k2 \in [Addresses -> 0..Total] /\ k2[a] = all /\ \A b \in B \ {a} : k2[b] = k[b]
    BY <1>1, <1>5, <1>10, <2>4
  <2>6. Sound(e, F \ {n}, B, k2)
    <3>1. \A c \in F \ {n} : e.next[c] = u.next[c] /\ e.prev[c] = u.prev[c] /\ e.size[c] = u.size[c]
      BY <1>1, <1>13
    <3>2. k2[a] = k1[a] + HeaderSize + k1[n] /\ \A b \in (B \cup {n}) \ {a, n} : k2[b] = k1[b]
      BY <1>14, <2>5
    <3>3. PICK D, C : D = F \ {n} /\ C = B \cup {n}
      OBVIOUS
    <3>4. Sound(u, D, C, k1) /\ \A b \in C \ {a, n} : k2[b] = k1[b]
      BY <1>11, <3>2, <3>3
    <3>5. a \in C /\ n \in C /\ n - a = HeaderSize + k1[a] /\ k2[a] = k1[a] + HeaderSize + k1[n]
      BY <1>14, <3>2, <3>3
    <3>6. \A c \in D : e.next[c] = u.next[c] /\ e.prev[c] = u.prev[c] /\ e.size[c] = u.size[c]
      BY <3>1, <3>3
    <3>7. e \in Lists /\ e.first = u.first /\ k2 \in [Addresses -> 0..Total]
      BY <1>13, <2>5
    <3>8. Sound(e, D, C \ {n}, k2)
      BY <3>4, <3>5, <3>6, <3>7, BlockJoin
    <3> QED BY <1>14, <3>3, <3>8
  <2>7. /\ size + HeaderSize <= all /\ size \in 0..Total /\ all - size - HeaderSize \in 0..Total
        /\ a # r /\ a + HeaderSize + all <= Total
    BY <1>0, <1>1, <1>2, <1>3, <1>4, <1>5, <1>19, <2>1
  <2>8. r \in Addresses
    BY <1>0, <1>1, <2>1, <2>7 DEF Addresses
  <2>9. /\ q \in Lists /\ q.first = e.first /\ q.next = e.next /\ q.prev = e.prev
        /\ q.size[a] = size /\ q.size[r] = all - size - HeaderSize
        /\ \A x \in Addresses \ {a, r} : q.size[x] = e.size[x]
    BY <1>1, <1>13, <2>2, <2>7, <2>8 DEF Lists
  <2>10. r \notin F \ {n} /\ r \notin B
    <3>1. r \in (F \ {n}) \cup B => a + HeaderSize + k2[a] <= r
      <4>1. a < r
        BY <1>0, <1>1, <2>1
      <4> QED BY <2>6, <4>1, SoundFacts
    <3>2. ~(a + HeaderSize + k2[a] <= r)
      BY <1>0, <1>1, <2>1, <2>5, <2>7
    <3> QED BY <3>1, <3>2
  <2>11. PICK k3 : k3 = [k2 EXCEPT ![a] = size, ![r] = all - size - HeaderSize]
    OBVIOUS
  <2>12. /\ k3 \in [Addresses -> 0..Total] /\ k3[a] = size /\ k3[r] = all - size - HeaderSize
         /\ \A b \in B \ {a} : k3[b] = k[b]
    BY <1>1, <2>5, <2>7, <2>8, <2>10, <2>11
  <2>13. \A c \in F \ {n} : q.next[c] = e.next[c] /\ q.prev[c] = e.prev[c] /\ q.size[c] = e.size[c]
    BY <1>1, <2>9, <2>10
  <2>14. Sound(q, F \ {n}, B \cup {r}, k3)
    <3>1. k3[r] = k2[a] - size - HeaderSize /\ \A b \in B \ {a} : k3[b] = k2[b]
      BY <2>5, <2>12
    <3>2. size + HeaderSize <= k2[a]
      BY <2>5, <2>7
    <3> QED BY <2>1, <2>6, <2>9, <2>12, <2>13, <3>1, <3>2, BlockSplit
  <2>15. Separated(q, F \ {n})
    <3>1. \A c \in F \ {n} : q.next[c] = u.next[c] /\ q.size[c] = u.size[c]
      BY <1>1, <1>13, <2>13
    <3> QED BY <1>8, <3>1, SeparatedKept
  <2>16. r \in B \cup {r} /\ k3[r] = q.size[r]
    BY <2>9, <2>12
  <2>17. PICK G : /\ Sound(g, G, (B \cup {r}) \ {r}, k3) /\ Separated(g, G)
                  /\ \A b \in (B \cup {r}) \ {r} : g.size[b] = q.size[b]
    BY <2>3, <2>14, <2>15, <2>16, FreedSound
  <2>18. (B \cup {r}) \ {r} = B
    BY <2>10
  <2>19. g.size[a] = size /\ l[a] = size /\ l \in [Addresses -> 0..Total] /\ \A b \in B \ {a} : l[b] = k[b]
    <3>1. g.size[a] = size
      BY <2>9, <2>17, <2>18
    <3> QED BY <1>1, <1>16, <1>17, <2>7, <3>1
  <2>20. \A b \in B : l[b] = k3[b]
    BY <2>12, <2>19
  <2>21. g \in Lists
    BY <2>17, SoundFacts
  <2>22. Sound(g, G, B, l)
    <3>1. Sound(g, G, B, k3)
      BY <2>17, <2>18
    <3> QED BY <2>19, <2>20, <3>1, SoundSizes
  <2>23. \A b \in B \ {a} : g.size[b] = h.size[b]
    <3>1. ASSUME NEW b \in B \ {a} PROVE g.size[b] = h.size[b]
      <4>1. b \in Addresses /\ b # r /\ b # a /\ b # n
        BY <1>1, <2>10
      <4> QED BY <1>7, <1>13, <2>9, <2>17, <2>18, <4>1
    <3> QED BY <3>1
  <2>24. g.size[a] >= size
    BY <2>19
  <2> QED BY <1>15, <2>17, <2>19, <2>22, <2>23, <2>24
<1> QED BY <1>18, <1>19

-----------------------------------------------------------------------------
\* Size() for a list h and calls th, and what the calls own
SizeOf(h, th, a) ==
  IF \E t \in Callers : th[t].pc = "shrink" /\ th[t].block = a
  THEN th[CHOOSE t \in Callers : th[t].pc = "shrink" /\ th[t].block = a].new ELSE h.size[a]

Calls == [Callers -> [pc : {"idle", "shrink", "move"}, block : Pointers, new : Addresses]]

Held(th, ow) ==
  \A t \in Callers : th[t].pc # "idle" => th[t].block \in Addresses /\ ow[th[t].block] = t

\* The same call or none in th and in tg shrinks the block at a, ...
SameShrink(th, tg, a) ==
  \A t \in Callers : (th[t].pc = "shrink" /\ th[t].block = a) \/ (tg[t].pc = "shrink" /\ tg[t].block = a)
                     => tg[t] = th[t]

\* ... and so for all blocks.
SameShrinks(th, tg) ==
  \A t \in Callers : th[t].pc = "shrink" \/ tg[t].pc = "shrink" => tg[t] = th[t]

\* A block that no call shrinks has the size in its header.
LEMMA SizeInHeader ==
  ASSUME NEW h, NEW th, NEW a, \A t \in Callers : ~(th[t].pc = "shrink" /\ th[t].block = a)
  PROVE  SizeOf(h, th, a) = h.size[a]
BY DEF SizeOf

\* A block is shrunk by its owner only.
LEMMA SizePending ==
  ASSUME NEW h, NEW th, NEW ow, Held(th, ow), NEW t \in Callers, th[t].pc = "shrink"
  PROVE  SizeOf(h, th, th[t].block) = th[t].new
<1>1. ASSUME NEW u \in Callers, th[u].pc = "shrink", th[u].block = th[t].block PROVE u = t
  BY <1>1 DEF Held
<1>2. PICK a : a = th[t].block
  OBVIOUS
<1> DEFINE u == CHOOSE x \in Callers : th[x].pc = "shrink" /\ th[x].block = a
<1>3. u \in Callers /\ th[u].pc = "shrink" /\ th[u].block = a
  BY <1>2
<1>4. SizeOf(h, th, a) = th[u].new
  BY <1>2 DEF SizeOf
<1> HIDE DEF u
<1> QED BY <1>1, <1>2, <1>3, <1>4

\* A block that the same calls shrink, and whose header is the same, keeps its
\* size.
LEMMA SizeKeptAt ==
  ASSUME NEW th, NEW tg, NEW ow, Held(th, ow), Held(tg, ow), NEW a, SameShrink(th, tg, a)
  PROVE  \A h, g : g.size[a] = h.size[a] => SizeOf(g, tg, a) = SizeOf(h, th, a)
<1> SUFFICES ASSUME NEW h, NEW g, g.size[a] = h.size[a]
             PROVE  SizeOf(g, tg, a) = SizeOf(h, th, a)
  OBVIOUS
<1>1. CASE \E t \in Callers : th[t].pc = "shrink" /\ th[t].block = a
  <2>1. PICK t \in Callers : th[t].pc = "shrink" /\ th[t].block = a
    BY <1>1
  <2>2. tg[t] = th[t]
    BY <2>1 DEF SameShrink
  <2>3. SizeOf(h, th, a) = th[t].new
    <3>1. SizeOf(h, th, th[t].block) = th[t].new
      BY <2>1, SizePending
    <3> QED BY <2>1, <3>1
  <2>4. SizeOf(g, tg, a) = tg[t].new
    <3>1. tg[t].pc = "shrink" /\ tg[t].block = a
      BY <2>1, <2>2
    <3>2. SizeOf(g, tg, tg[t].block) = tg[t].new
      BY <3>1, SizePending
    <3> QED BY <3>1, <3>2
  <2> QED BY <2>2, <2>3, <2>4
<1>2. CASE \A t \in Callers : ~(th[t].pc = "shrink" /\ th[t].block = a)
  <2>1. \A t \in Callers : ~(tg[t].pc = "shrink" /\ tg[t].block = a)
    BY <1>2 DEF SameShrink
  <2> QED BY <1>2, <2>1, SizeInHeader
<1> QED BY <1>1, <1>2

\* ... for all blocks at once
LEMMA SizeKept ==
  ASSUME NEW th, NEW tg, NEW ow, Held(th, ow), Held(tg, ow), SameShrinks(th, tg)
  PROVE  \A h, g, a : g.size[a] = h.size[a] => SizeOf(g, tg, a) = SizeOf(h, th, a)
<1> SUFFICES ASSUME NEW a PROVE \A h, g : g.size[a] = h.size[a] => SizeOf(g, tg, a) = SizeOf(h, th, a)
  OBVIOUS
<1>1. SameShrink(th, tg, a)
  BY DEF SameShrinks, SameShrink
<1> QED BY <1>1, SizeKeptAt

\* Sizes do not exceed the heap.
LEMMA SizeType ==
  ASSUME NEW h \in Lists, NEW th \in Calls, NEW ow, Held(th, ow)
  PROVE  [a \in Addresses |-> SizeOf(h, th, a)] \in [Addresses -> 0..Total]
<1> SUFFICES ASSUME NEW a \in Addresses PROVE SizeOf(h, th, a) \in 0..Total
  OBVIOUS
<1>1. CASE \E t \in Callers : th[t].pc = "shrink" /\ th[t].block = a
  <2>1. PICK t \in Callers : th[t].pc = "shrink" /\ th[t].block = a
    BY <1>1
  <2>2. SizeOf(h, th, a) = th[t].new
    BY <2>1, SizePending
  <2>3. th[t].new \in 0..(Total - 1)
    BY DEF Calls, Addresses
  <2> QED BY <2>2, <2>3, HeapAssumption
<1>2. CASE \A t \in Callers : ~(th[t].pc = "shrink" /\ th[t].block = a)
  <2>1. SizeOf(h, th, a) = h.size[a]
    BY <1>2, SizeInHeader
  <2> QED BY <2>1 DEF Lists
<1> QED BY <1>1, <1>2

-----------------------------------------------------------------------------
\* The parts of the invariant, named
LEMMA HeapFacts ==
  ASSUME HeapInv
  PROVE  /\ Sound(heap, Chunks, Blocks, BlockSizes) /\ Separated(heap, Chunks)
         /\ owner \in [Addresses -> Callers \cup {Nobody}]
         /\ asked \in [Addresses -> [size : Sizes \cup {0}, alignment : Alignments \cup {1}]]
         /\ lost \subseteq Blocks /\ thread \in Calls /\ Held(thread, owner)
         /\ failure \in {"none", "lostHeader", "wildPointer", "nullPointer"}
         /\ Blocks \subseteq Addresses
         /\ \A a \in Addresses : BlockSizes[a] = SizeOf(heap, thread, a)
         /\ \A a \in Blocks : /\ BlockSizes[a] >= asked[a].size
                              /\ (a + HeaderSize) % asked[a].alignment = 0
<1>1. \A a \in Addresses : BlockSizes[a] = SizeOf(heap, thread, a) /\ BlockSizes[a] = Size(a)
  BY DEF BlockSizes, Size, SizeOf
<1>2. Blocks \subseteq Addresses
  BY DEF Blocks
<1>3. \A a \in Blocks : BlockSizes[a] >= asked[a].size /\ (a + HeaderSize) % asked[a].alignment = 0
  BY <1>1, <1>2 DEF HeapInv, BlockFits
<1> QED BY <1>1, <1>2, <1>3 DEF HeapInv, HeapTypeOK, Calls, Held

\* What a step has to show
LEMMA HeapInvAgain ==
  ASSUME NEW G, NEW l, Sound(heap', G, Blocks', l), Separated(heap', G),
         owner' \in [Addresses -> Callers \cup {Nobody}],
         asked' \in [Addresses -> [size : Sizes \cup {0}, alignment : Alignments \cup {1}]],
         lost' \subseteq Blocks', thread' \in Calls, Held(thread', owner'),
         failure' \in {"none", "lostHeader", "wildPointer", "nullPointer"},
         \A a \in Blocks' : /\ SizeOf(heap', thread', a) = l[a] /\ l[a] >= asked'[a].size
                            /\ (a + HeaderSize) % asked'[a].alignment = 0
  PROVE  HeapInv'
<1>1. heap' \in Lists /\ ListOf(heap', G)
  BY SoundFacts
<1>2. HeapTypeOK'
  BY <1>1 DEF HeapTypeOK, Calls, Held
<1>3. Chunks' = G
  BY <1>1, ListReached DEF Chunks
<1>4. BlockSizes' = [a \in Addresses |-> SizeOf(heap', thread', a)]
  BY DEF BlockSizes, Size, SizeOf
<1>5. BlockSizes' \in [Addresses -> 0..Total]
  BY <1>1, <1>4, SizeType
<1>6. Blocks' \subseteq Addresses
  BY DEF Blocks
<1>7. \A a \in Blocks' : BlockSizes'[a] = l[a]
  BY <1>4, <1>6
<1>8. Sound(heap', G, Blocks', BlockSizes')
  BY <1>5, <1>7, SoundSizes
<1>9. BlockFits'
  <2>1. \A a \in Blocks' : Size(a)' = SizeOf(heap', thread', a)
    BY DEF Size, SizeOf
  <2> QED BY <2>1 DEF BlockFits
<1> QED BY <1>2, <1>3, <1>8, <1>9 DEF HeapInv

-----------------------------------------------------------------------------
\* A new block, by allocateMemory() or by reallocateMemory()
Taking(t, c, a, size, alignment) ==
  /\ c \in Chunks /\ a = Place(heap, c, size, alignment) /\ a # Null
  /\ heap' = Taken(heap, c, a, size) /\ Gets(t, a, size, alignment)
  /\ lost' = lost /\ failure' = failure
  /\ thread' \in Calls /\ SameShrinks(thread, thread') /\ Held(thread', owner)

\* The block was free memory, and the invariant holds after allocAlgorithm().
LEMMA TakingStep ==
  ASSUME HeapInv, NEW t \in Callers, NEW size \in Sizes, NEW alignment \in Alignments,
         NEW c, NEW a, Taking(t, c, a, size, alignment)
  PROVE  HeapInv' /\ a \in Addresses /\ a \notin Blocks
<1>0. size \in Nat /\ alignment \in Nat \ {0} /\ Nobody \notin Callers
  BY HeapAssumption
<1>1. /\ Sound(heap, Chunks, Blocks, BlockSizes) /\ Separated(heap, Chunks)
      /\ owner \in [Addresses -> Callers \cup {Nobody}]
      /\ asked \in [Addresses -> [size : Sizes \cup {0}, alignment : Alignments \cup {1}]]
      /\ lost \subseteq Blocks /\ thread \in Calls /\ Held(thread, owner)
      /\ failure \in {"none", "lostHeader", "wildPointer", "nullPointer"}
      /\ Blocks \subseteq Addresses
      /\ \A b \in Addresses : BlockSizes[b] = SizeOf(heap, thread, b)
      /\ \A b \in Blocks : BlockSizes[b] >= asked[b].size /\ (b + HeaderSize) % asked[b].alignment = 0
  BY HeapFacts
<1>2. /\ a \in Nat /\ (a = c \/ c + HeaderSize <= a)
      /\ a + HeaderSize + size <= End(heap, c) /\ (a + HeaderSize) % alignment = 0
  <2>1. Sound(heap, Chunks, Blocks, BlockSizes) /\ c \in Chunks /\ Place(heap, c, size, alignment) # Null
    BY <1>1 DEF Taking
  <2>2. LET x == Place(heap, c, size, alignment)
        IN  /\ x \in Nat /\ (x = c \/ c + HeaderSize <= x)
            /\ x + HeaderSize + size <= End(heap, c) /\ (x + HeaderSize) % alignment = 0
    BY <1>0, <2>1, PlaceFits
  <2> QED BY <2>2 DEF Taking
<1>3. /\ a \in Addresses /\ a \notin Blocks
      /\ \E G, l : /\ Sound(heap', G, Blocks \cup {a}, l) /\ Separated(heap', G)
                   /\ l[a] = heap'.size[a] /\ \A b \in Blocks : l[b] = BlockSizes[b]
      /\ heap'.size[a] >= size /\ \A b \in Blocks : heap'.size[b] = heap.size[b]
  <2>1. Sound(heap, Chunks, Blocks, BlockSizes) /\ Separated(heap, Chunks) /\ c \in Chunks
    BY <1>1 DEF Taking
  <2>2. a \in Nat /\ (a = c \/ c + HeaderSize <= a) /\ a + HeaderSize + size <= End(heap, c) /\ size \in Nat
    BY <1>0, <1>2
  <2>3. a \in Addresses /\ a \notin Blocks /\ BlockTaken(heap, Taken(heap, c, a, size), Blocks, BlockSizes, a, size)
    BY <2>1, <2>2, TakenSound
  <2>4. BlockTaken(heap, heap', Blocks, BlockSizes, a, size)
    BY <2>3 DEF Taking
  <2> QED BY <2>3, <2>4 DEF BlockTaken
<1>4. PICK G, l : /\ Sound(heap', G, Blocks \cup {a}, l) /\ Separated(heap', G)
                  /\ l[a] = heap'.size[a] /\ \A b \in Blocks : l[b] = BlockSizes[b]
  BY <1>3
<1>5. /\ owner' \in [Addresses -> Callers \cup {Nobody}] /\ owner'[a] = t
      /\ \A b \in Addresses : b # a => owner'[b] = owner[b]
  BY <1>1, <1>3 DEF Taking, Gets
<1>6. /\ asked' \in [Addresses -> [size : Sizes \cup {0}, alignment : Alignments \cup {1}]]
      /\ asked'[a] = [size |-> size, alignment |-> alignment]
      /\ \A b \in Addresses : b # a => asked'[b] = asked[b]
  BY <1>1, <1>3 DEF Taking, Gets
<1>7. Blocks' = Blocks \cup {a}
  BY <1>0, <1>3, <1>5 DEF Blocks
<1>8. owner[a] = Nobody
  BY <1>3 DEF Blocks
<1>9. Held(thread', owner')
  BY <1>0, <1>5, <1>8 DEF Taking, Held
<1>10. ASSUME NEW b \in Blocks'
       PROVE  /\ SizeOf(heap', thread', b) = l[b] /\ l[b] >= asked'[b].size
              /\ (b + HeaderSize) % asked'[b].alignment = 0
  <2>1. CASE b = a
    <3>1. SizeOf(heap', thread', a) = heap'.size[a]
      <4>1. \A u \in Callers : ~(thread'[u].pc = "shrink" /\ thread'[u].block = a)
        BY <1>0, <1>8 DEF Taking, Held
      <4> QED BY <4>1 DEF SizeOf
    <3> QED BY <1>2, <1>3, <1>4, <1>6, <2>1, <3>1
  <2>2. CASE b # a
    <3>1. b \in Blocks /\ b \in Addresses
      BY <1>1, <1>7, <2>2
    <3>2. SizeOf(heap', thread', b) = SizeOf(heap, thread, b)
      <4>1. heap'.size[b] = heap.size[b]
        BY <1>3, <3>1
      <4>2. Held(thread, owner) /\ Held(thread', owner) /\ SameShrinks(thread, thread')
        BY <1>1 DEF Taking
      <4> QED BY <4>1, <4>2, SizeKept
    <3> QED BY <1>1, <1>4, <1>6, <2>2, <3>1, <3>2
  <2> QED BY <2>1, <2>2
<1>11. lost' \subseteq Blocks' /\ thread' \in Calls
  BY <1>1, <1>7 DEF Taking
<1>12. failure' \in {"none", "lostHeader", "wildPointer", "nullPointer"}
  BY <1>1 DEF Taking
<1>13. Sound(heap', G, Blocks', l)
  BY <1>4, <1>7
<1>14. HeapInv'
  BY <1>4, <1>5, <1>6, <1>9, <1>10, <1>11, <1>12, <1>13, HeapInvAgain
<1> QED BY <1>3, <1>14

\* allocateMemory()
LEMMA AllocateStep ==
  ASSUME HeapInv, NEW t \in Callers, NEW size \in Sizes, NEW alignment \in Alignments,
         AllocateMemory(t, size, alignment)
  PROVE  HeapInv'
<1>1. Sound(heap, Chunks, Blocks, BlockSizes) /\ thread \in Calls /\ Held(thread, owner)
  BY HeapFacts
<1>2. ListOf(heap, Chunks)
  BY <1>1, SoundFacts
<1>3. PICK c : c = Found(heap, size, alignment, Null)
  OBVIOUS
<1>4. PICK a : a = Place(heap, c, size, alignment)
  OBVIOUS
<1>5. /\ c # Null /\ heap' = Taken(heap, c, a, size) /\ Gets(t, a, size, alignment)
      /\ lost' = lost /\ thread' = thread /\ failure' = failure
  BY <1>3, <1>4 DEF AllocateMemory
<1>6. c \in Chunks /\ a # Null
  BY <1>2, <1>3, <1>4, <1>5, FoundFits
<1>7. SameShrinks(thread, thread') /\ thread' \in Calls /\ Held(thread', owner)
  BY <1>1, <1>5 DEF SameShrinks
<1>8. Taking(t, c, a, size, alignment)
  BY <1>4, <1>5, <1>6, <1>7 DEF Taking
<1> QED BY <1>8, TakingStep

\* A block is freed, by freeMemory() or at the end of reallocateMemory().
Releasing(t, a) ==
  /\ owner[a] = t /\ thread[t].pc # "shrink" /\ a \notin lost /\ Release(a) /\ failure' = failure
  /\ thread' \in Calls /\ SameShrinks(thread, thread') /\ Held(thread', owner)
  /\ \A u \in Callers : thread'[u].pc # "idle" => thread'[u].block # a

\* freeAlgorithm() keeps the invariant if no call has the block in its hands.
LEMMA ReleasingStep ==
  ASSUME HeapInv, NEW t \in Callers, NEW a \in Addresses, Releasing(t, a)
  PROVE  HeapInv'
<1>0. Nobody \notin Callers
  BY HeapAssumption
<1>1. /\ Sound(heap, Chunks, Blocks, BlockSizes) /\ Separated(heap, Chunks)
      /\ owner \in [Addresses -> Callers \cup {Nobody}]
      /\ asked \in [Addresses -> [size : Sizes \cup {0}, alignment : Alignments \cup {1}]]
      /\ lost \subseteq Blocks /\ thread \in Calls /\ Held(thread, owner)
      /\ failure \in {"none", "lostHeader", "wildPointer", "nullPointer"}
      /\ Blocks \subseteq Addresses
      /\ \A b \in Addresses : BlockSizes[b] = SizeOf(heap, thread, b)
      /\ \A b \in Blocks : BlockSizes[b] >= asked[b].size /\ (b + HeaderSize) % asked[b].alignment = 0
  BY HeapFacts
<1>2. a \in Blocks
  BY <1>0 DEF Releasing, Blocks
<1>3. BlockSizes[a] = heap.size[a]
  <2>1. SizeOf(heap, thread, a) = heap.size[a]
    <3>1. \A u \in Callers : ~(thread[u].pc = "shrink" /\ thread[u].block = a)
      BY <1>1 DEF Releasing, Held
    <3> QED BY <3>1 DEF SizeOf
  <2> QED BY <1>1, <2>1
<1>4. heap' = Freed(heap, a)
  BY DEF Releasing, Release
<1>5. PICK G : /\ Sound(heap', G, Blocks \ {a}, BlockSizes) /\ Separated(heap', G)
               /\ \A b \in Blocks \ {a} : heap'.size[b] = heap.size[b]
  <2>1. Sound(heap, Chunks, Blocks, BlockSizes) /\ Separated(heap, Chunks)
    BY <1>1
  <2>2. LET g == Freed(heap, a)
        IN  \E G : /\ Sound(g, G, Blocks \ {a}, BlockSizes) /\ Separated(g, G)
                   /\ \A b \in Blocks \ {a} : g.size[b] = heap.size[b]
    BY <1>2, <1>3, <2>1, FreedSound
  <2> QED BY <1>4, <2>2
<1>6. /\ owner' \in [Addresses -> Callers \cup {Nobody}] /\ owner'[a] = Nobody
      /\ \A b \in Addresses : b # a => owner'[b] = owner[b]
  BY <1>1 DEF Releasing, Release
<1>7. /\ asked' \in [Addresses -> [size : Sizes \cup {0}, alignment : Alignments \cup {1}]]
      /\ \A b \in Addresses : b # a => asked'[b] = asked[b]
  BY <1>1 DEF Releasing, Release, Nothing
<1>8. Blocks' = Blocks \ {a}
  BY <1>6 DEF Blocks
<1>9. Held(thread', owner')
  BY <1>6 DEF Releasing, Held
<1>10. lost' \subseteq Blocks' /\ thread' \in Calls
  <2>1. lost' = lost \cup LostBy(heap', a)
    BY DEF Releasing, Release
  <2>2. LostBy(heap', a) \subseteq Blocks \ {a}
    BY DEF LostBy
  <2> QED BY <1>1, <1>8, <2>1, <2>2 DEF Releasing
<1>11. ASSUME NEW b \in Blocks'
       PROVE  /\ SizeOf(heap', thread', b) = BlockSizes[b] /\ BlockSizes[b] >= asked'[b].size
              /\ (b + HeaderSize) % asked'[b].alignment = 0
  <2>1. b \in Blocks /\ b \in Addresses /\ b # a
    BY <1>1, <1>8
  <2>2. SizeOf(heap', thread', b) = SizeOf(heap, thread, b)
    <3>1. heap'.size[b] = heap.size[b]
      BY <1>5, <2>1
    <3>2. Held(thread, owner) /\ Held(thread', owner) /\ SameShrinks(thread, thread')
      BY <1>1 DEF Releasing
    <3> QED BY <3>1, <3>2, SizeKept
  <2> QED BY <1>1, <1>7, <2>1, <2>2
<1>12. failure' \in {"none", "lostHeader", "wildPointer", "nullPointer"}
  BY <1>1 DEF Releasing
<1>13. Sound(heap', G, Blocks', BlockSizes)
  BY <1>5, <1>8
<1> QED BY <1>5, <1>6, <1>7, <1>9, <1>10, <1>11, <1>12, <1>13, HeapInvAgain

\* freeMemory()
LEMMA FreeStep ==
  ASSUME HeapInv, NEW t \in Callers, NEW a \in Addresses, FreeMemory(t, a)
  PROVE  HeapInv'
<1>1. thread \in Calls /\ Held(thread, owner)
  BY HeapFacts
<1>2. /\ thread[t].pc = "idle" /\ owner[a] = t /\ a \notin lost /\ Release(a)
      /\ thread' = thread /\ failure' = failure
  BY DEF FreeMemory, Mine, InCall
<1>3. SameShrinks(thread, thread') /\ thread' \in Calls /\ Held(thread', owner)
  BY <1>1, <1>2 DEF SameShrinks
<1>4. \A u \in Callers : thread'[u].pc # "idle" => thread'[u].block # a
  BY <1>1, <1>2 DEF Held
<1>5. thread[t].pc # "shrink"
  BY <1>2
<1>6. Releasing(t, a)
  BY <1>2, <1>3, <1>4, <1>5 DEF Releasing
<1> QED BY <1>6, ReleasingStep

\* The end of reallocateMemory() with a new block
LEMMA MoveEndStep ==
  ASSUME HeapInv, NEW t \in Callers, MoveEnd(t)
  PROVE  HeapInv'
<1>1. thread \in Calls /\ Held(thread, owner)
  BY HeapFacts
<1>2. PICK a : a = thread[t].block
  OBVIOUS
<1>3. /\ thread[t].pc = "move" /\ a \notin lost /\ Release(a)
      /\ thread' = [thread EXCEPT ![t] = Outside] /\ failure' = failure
  BY <1>2 DEF MoveEnd, InCall
<1>4. a \in Addresses /\ owner[a] = t
  BY <1>1, <1>2, <1>3 DEF Held
<1>5. thread' \in Calls /\ thread'[t].pc = "idle" /\ \A u \in Callers : u # t => thread'[u] = thread[u]
  <2>1. Outside \in [pc : {"idle", "shrink", "move"}, block : Pointers, new : Addresses] /\ Outside.pc = "idle"
    <3>1. 0 \in Addresses /\ Null \in Pointers
      BY HeapAssumption, PointerFacts DEF Addresses
    <3> QED BY <3>1 DEF Outside
  <2> QED BY <1>1, <1>3, <2>1 DEF Calls
<1>6. SameShrinks(thread, thread')
  BY <1>3, <1>5 DEF SameShrinks
<1>7. Held(thread', owner)
  BY <1>1, <1>5 DEF Held
<1>8. \A u \in Callers : thread'[u].pc # "idle" => thread'[u].block # a
  BY <1>1, <1>4, <1>5 DEF Held
<1>9. thread[t].pc # "shrink"
  BY <1>3
<1>10. Releasing(t, a)
  BY <1>3, <1>4, <1>5, <1>6, <1>7, <1>8, <1>9 DEF Releasing
<1> QED BY <1>4, <1>10, ReleasingStep

-----------------------------------------------------------------------------
\* reallocateMemory() to a smaller size
LEMMA ShrinkStep ==
  ASSUME HeapInv, NEW t \in Callers, NEW a \in Addresses, NEW size \in Sizes, NEW alignment \in Alignments,
         Shrink(t, a, size, alignment)
  PROVE  HeapInv'
<1>0. /\ size \in Nat /\ alignment \in Nat \ {0} /\ Nobody \notin Callers
      /\ Total \in Nat /\ HeaderSize \in Nat \ {0} /\ MinBlockSize \in Nat /\ a \in Nat
  BY HeapAssumption, PointerFacts
<1>1. /\ Sound(heap, Chunks, Blocks, BlockSizes) /\ Separated(heap, Chunks)
      /\ owner \in [Addresses -> Callers \cup {Nobody}]
      /\ asked \in [Addresses -> [size : Sizes \cup {0}, alignment : Alignments \cup {1}]]
      /\ lost \subseteq Blocks /\ thread \in Calls /\ Held(thread, owner)
      /\ failure \in {"none", "lostHeader", "wildPointer", "nullPointer"}
      /\ Blocks \subseteq Addresses
      /\ \A b \in Addresses : BlockSizes[b] = SizeOf(heap, thread, b)
      /\ \A b \in Blocks : BlockSizes[b] >= asked[b].size /\ (b + HeaderSize) % asked[b].alignment = 0
  BY HeapFacts
<1>2. PICK r : r = a + HeaderSize + size
  OBVIOUS
<1>3. PICK h : h = [heap EXCEPT !.size[r] = heap.size[a] - size - HeaderSize]
  OBVIOUS
<1>4. /\ thread[t].pc = "idle" /\ owner[a] = t /\ size < heap.size[a]
      /\ heap.size[a] - size > MinBlockSize + HeaderSize /\ (a + HeaderSize) % alignment = 0
      /\ asked' = [asked EXCEPT ![a] = [size |-> size, alignment |-> alignment]] /\ owner' = owner
  BY DEF Shrink, Mine, InCall, InPlace
<1>5. \/ failure' = "wildPointer" /\ heap' = heap /\ lost' = lost /\ thread' = thread
      \/ /\ heap' = Freed(h, r) /\ lost' = lost \cup LostBy(heap', r) /\ failure' = failure
         /\ thread' = [thread EXCEPT ![t] = [pc |-> "shrink", block |-> a, new |-> size]]
  BY <1>2, <1>3 DEF Shrink
<1>6. a \in Blocks /\ Blocks' = Blocks
  BY <1>0, <1>4 DEF Blocks
<1>7. /\ asked' \in [Addresses -> [size : Sizes \cup {0}, alignment : Alignments \cup {1}]]
      /\ asked'[a] = [size |-> size, alignment |-> alignment]
      /\ \A b \in Addresses : b # a => asked'[b] = asked[b]
  BY <1>1, <1>4
<1>8. BlockSizes[a] = heap.size[a]
  <2>1. \A u \in Callers : ~(thread[u].pc = "shrink" /\ thread[u].block = a)
    BY <1>1, <1>4 DEF Held
  <2>2. SizeOf(heap, thread, a) = heap.size[a]
    BY <2>1 DEF SizeOf
  <2> QED BY <1>1, <2>2
<1>9. heap \in Lists /\ BlockSizes[a] \in Nat /\ BlockSizes[a] <= Total /\ BlockSizes \in [Addresses -> 0..Total]
  <2>1. heap \in Lists /\ BlockSizes \in [Addresses -> 0..Total]
    BY <1>1 DEF Sound
  <2> QED BY <1>0, <2>1
<1>10. CASE failure' = "wildPointer" /\ heap' = heap /\ lost' = lost /\ thread' = thread
  <2>1. ASSUME NEW b \in Blocks'
        PROVE  /\ SizeOf(heap', thread', b) = BlockSizes[b] /\ BlockSizes[b] >= asked'[b].size
               /\ (b + HeaderSize) % asked'[b].alignment = 0
    <3>1. b \in Blocks /\ b \in Addresses /\ SizeOf(heap', thread', b) = BlockSizes[b]
      BY <1>1, <1>6, <1>10
    <3>2. CASE b = a
      BY <1>0, <1>4, <1>7, <1>8, <1>9, <3>1, <3>2
    <3>3. CASE b # a
      BY <1>1, <1>7, <3>1, <3>3
    <3> QED BY <3>2, <3>3
  <2>2. Sound(heap', Chunks, Blocks', BlockSizes) /\ Separated(heap', Chunks)
    BY <1>1, <1>6, <1>10
  <2>3. /\ owner' \in [Addresses -> Callers \cup {Nobody}] /\ lost' \subseteq Blocks' /\ thread' \in Calls
        /\ Held(thread', owner') /\ failure' \in {"none", "lostHeader", "wildPointer", "nullPointer"}
    BY <1>1, <1>4, <1>6, <1>10
  <2> QED BY <1>7, <2>1, <2>2, <2>3, HeapInvAgain
<1>11. CASE /\ heap' = Freed(h, r) /\ lost' = lost \cup LostBy(heap', r) /\ failure' = failure
            /\ thread' = [thread EXCEPT ![t] = [pc |-> "shrink", block |-> a, new |-> size]]
  <2>1. /\ size + HeaderSize <= BlockSizes[a] /\ size \in 0..Total
        /\ heap.size[a] - size - HeaderSize \in 0..Total /\ r \in Nat /\ a < r /\ size \in Addresses
        /\ r < a + HeaderSize + BlockSizes[a]
    <3>1. PICK z \in Nat : z = heap.size[a] /\ z = BlockSizes[a] /\ z <= Total
      BY <1>8, <1>9
    <3>2. z - size > MinBlockSize + HeaderSize
      BY <1>4, <3>1
    <3>3. size + HeaderSize <= z /\ size \in 0..Total /\ z - size - HeaderSize \in 0..Total /\ size < Total
      BY <1>0, <3>1, <3>2
    <3>4. r \in Nat /\ a < r /\ r < a + HeaderSize + z
      BY <1>0, <1>2, <3>1, <3>3
    <3>5. size \in Addresses
      BY <1>0, <3>3 DEF Addresses
    <3> QED BY <3>1, <3>3, <3>4, <3>5
  <2>2. r \in Addresses /\ r \notin Chunks /\ r \notin Blocks
    <3>1. /\ a + HeaderSize + BlockSizes[a] <= Total
          /\ \A d \in Chunks \cup Blocks : a < d => a + HeaderSize + BlockSizes[a] <= d
      BY <1>1, <1>6, SoundFacts
    <3>2. r \in Addresses
      BY <1>0, <1>9, <2>1, <3>1 DEF Addresses
    <3>3. ~(a + HeaderSize + BlockSizes[a] <= r)
      BY <1>0, <1>9, <2>1
    <3> QED BY <2>1, <3>1, <3>2, <3>3
  <2>3. /\ h \in Lists /\ h.first = heap.first /\ h.next = heap.next /\ h.prev = heap.prev
        /\ h.size[r] = heap.size[a] - size - HeaderSize
        /\ \A x \in Addresses : x # r => h.size[x] = heap.size[x]
    BY <1>3, <1>9, <2>1, <2>2 DEF Lists
  <2>4. PICK l : l = [BlockSizes EXCEPT ![a] = size, ![r] = heap.size[a] - size - HeaderSize]
    OBVIOUS
  <2>5. /\ l \in [Addresses -> 0..Total] /\ l[a] = size /\ l[r] = heap.size[a] - size - HeaderSize
        /\ \A b \in Blocks \ {a} : l[b] = BlockSizes[b]
    BY <1>0, <1>1, <1>9, <2>1, <2>2, <2>4
  <2>6. \A c \in Chunks : h.next[c] = heap.next[c] /\ h.prev[c] = heap.prev[c] /\ h.size[c] = heap.size[c]
    <3>1. Chunks \subseteq Addresses
      BY <1>1, SoundFacts
    <3> QED BY <2>2, <2>3, <3>1
  <2>7. Sound(h, Chunks, Blocks \cup {r}, l)
    <3>1. Sound(heap, Chunks, Blocks, BlockSizes) /\ l[r] = BlockSizes[a] - size - HeaderSize
      BY <1>1, <1>8, <2>5
    <3>2. PICK z, F, B, k : z = size /\ F = Chunks /\ B = Blocks /\ k = BlockSizes
      OBVIOUS
    <3>3. Sound(heap, F, B, k) /\ a \in B /\ z \in Nat /\ z + HeaderSize <= k[a] /\ r = a + HeaderSize + z
      BY <1>0, <1>2, <1>6, <2>1, <3>1, <3>2
    <3>4. l \in [Addresses -> 0..Total] /\ l[a] = z /\ l[r] = k[a] - z - HeaderSize /\ \A b \in B \ {a} : l[b] = k[b]
      BY <2>5, <3>1, <3>2
    <3>5. \A c \in F : h.next[c] = heap.next[c] /\ h.prev[c] = heap.prev[c] /\ h.size[c] = heap.size[c]
      BY <2>6, <3>2
    <3>6. h \in Lists /\ h.first = heap.first
      BY <2>3
    <3>7. Sound(h, F, B \cup {r}, l)
      BY <3>3, <3>4, <3>5, <3>6, BlockSplit
    <3> QED BY <3>2, <3>7
  <2>8. Separated(h, Chunks)
    <3>1. Separated(heap, Chunks)
      BY <1>1
    <3> QED BY <2>6, <3>1, SeparatedKept
  <2>9. PICK G : /\ Sound(heap', G, (Blocks \cup {r}) \ {r}, l) /\ Separated(heap', G)
                 /\ \A b \in (Blocks \cup {r}) \ {r} : heap'.size[b] = h.size[b]
    <3>1. r \in Blocks \cup {r} /\ l[r] = h.size[r]
      BY <2>3, <2>5
    <3>2. LET g == Freed(h, r)
          IN  \E G : /\ Sound(g, G, (Blocks \cup {r}) \ {r}, l) /\ Separated(g, G)
                     /\ \A b \in (Blocks \cup {r}) \ {r} : g.size[b] = h.size[b]
      BY <2>7, <2>8, <3>1, FreedSound
    <3> QED BY <1>11, <3>2
  <2>10. (Blocks \cup {r}) \ {r} = Blocks
    BY <2>2
  <2>11. /\ thread' \in Calls /\ thread'[t] = [pc |-> "shrink", block |-> a, new |-> size]
         /\ \A u \in Callers : u # t => thread'[u] = thread[u]
    <3>1. a \in Pointers
      BY PointerFacts
    <3> QED BY <1>1, <1>11, <2>1, <3>1 DEF Calls
  <2>12. Held(thread', owner)
    BY <1>1, <1>4, <2>11 DEF Held
  <2>13. ASSUME NEW b \in Blocks'
         PROVE  /\ SizeOf(heap', thread', b) = l[b] /\ l[b] >= asked'[b].size
                /\ (b + HeaderSize) % asked'[b].alignment = 0
    <3>0. b \in Blocks /\ b \in Addresses
      BY <1>1, <1>6
    <3>1. CASE b = a
      <4>1. SizeOf(heap', thread', thread'[t].block) = thread'[t].new
        <5>1. thread'[t].pc = "shrink"
          BY <2>11
        <5> QED BY <2>12, <5>1, SizePending
      <4>2. SizeOf(heap', thread', a) = size
        BY <2>11, <4>1
      <4> QED BY <1>0, <1>4, <1>7, <2>5, <3>1, <4>2
    <3>2. CASE b # a
      <4>1. heap'.size[b] = heap.size[b]
        BY <2>2, <2>3, <2>9, <2>10, <3>0
      <4>2. SameShrink(thread, thread', b)
        BY <1>4, <2>11, <3>2 DEF SameShrink
      <4>3. Held(thread, owner)
        BY <1>1
      <4>4. SizeOf(heap', thread', b) = SizeOf(heap, thread, b)
        BY <2>12, <4>1, <4>2, <4>3, SizeKeptAt
      <4> QED BY <1>1, <1>7, <2>5, <3>0, <3>2, <4>4
    <3> QED BY <3>1, <3>2
  <2>14. lost' \subseteq Blocks'
    <3>1. LostBy(heap', r) \subseteq Blocks
      BY DEF LostBy
    <3> QED BY <1>1, <1>6, <1>11, <3>1
  <2>15. Sound(heap', G, Blocks', l)
    BY <1>6, <2>9, <2>10
  <2>16. /\ owner' \in [Addresses -> Callers \cup {Nobody}] /\ Held(thread', owner')
         /\ failure' \in {"none", "lostHeader", "wildPointer", "nullPointer"}
    BY <1>1, <1>4, <1>11, <2>12
  <2> QED BY <1>7, <2>9, <2>11, <2>13, <2>14, <2>15, <2>16, HeapInvAgain
<1> QED BY <1>5, <1>10, <1>11

\* ... and the size that it writes at its end
LEMMA ShrinkEndStep ==
  ASSUME HeapInv, NEW t \in Callers, ShrinkEnd(t)
  PROVE  HeapInv'
<1>1. /\ Sound(heap, Chunks, Blocks, BlockSizes) /\ Separated(heap, Chunks)
      /\ owner \in [Addresses -> Callers \cup {Nobody}]
      /\ asked \in [Addresses -> [size : Sizes \cup {0}, alignment : Alignments \cup {1}]]
      /\ lost \subseteq Blocks /\ thread \in Calls /\ Held(thread, owner)
      /\ failure \in {"none", "lostHeader", "wildPointer", "nullPointer"}
      /\ Blocks \subseteq Addresses
      /\ \A b \in Addresses : BlockSizes[b] = SizeOf(heap, thread, b)
      /\ \A b \in Blocks : BlockSizes[b] >= asked[b].size /\ (b + HeaderSize) % asked[b].alignment = 0
  BY HeapFacts
<1>2. PICK a, new : a = thread[t].block /\ new = thread[t].new
  OBVIOUS
<1>3. /\ thread[t].pc = "shrink" /\ heap' = [heap EXCEPT !.size[a] = new] /\ lost' = lost \ {a}
      /\ thread' = [thread EXCEPT ![t] = Outside] /\ owner' = owner /\ asked' = asked /\ failure' = failure
  BY <1>2 DEF ShrinkEnd, InCall
<1>4. a \in Addresses /\ owner[a] = t /\ new \in 0..Total /\ a \in Blocks /\ Blocks' = Blocks
  <2>1. a \in Addresses /\ owner[a] = t
    BY <1>1, <1>2, <1>3 DEF Held
  <2>2. new \in 0..(Total - 1) /\ Total \in Nat /\ Nobody \notin Callers
    BY <1>1, <1>2, HeapAssumption DEF Calls, Addresses
  <2>3. new \in 0..Total
    BY <2>2
  <2> QED BY <1>3, <2>1, <2>2, <2>3 DEF Blocks
<1>5. heap \in Lists /\ Chunks \subseteq Addresses /\ a \notin Chunks /\ BlockSizes \in [Addresses -> 0..Total]
  BY <1>1, <1>4 DEF Sound, ListOf
<1>6. /\ heap' \in Lists /\ heap'.first = heap.first /\ heap'.next = heap.next /\ heap'.prev = heap.prev
      /\ heap'.size[a] = new /\ \A x \in Addresses : x # a => heap'.size[x] = heap.size[x]
  BY <1>3, <1>4, <1>5 DEF Lists
<1>7. \A c \in Chunks : heap'.next[c] = heap.next[c] /\ heap'.prev[c] = heap.prev[c] /\ heap'.size[c] = heap.size[c]
  BY <1>5, <1>6
<1>8. Sound(heap', Chunks, Blocks', BlockSizes) /\ Separated(heap', Chunks)
  <2>1. Sound(heap, Chunks, Blocks, BlockSizes) /\ Separated(heap, Chunks)
    BY <1>1
  <2>2. Sound(heap', Chunks, Blocks, BlockSizes)
    BY <1>5, <1>6, <1>7, <2>1, SoundKept
  <2>3. Separated(heap', Chunks)
    BY <1>7, <2>1, SeparatedKept
  <2> QED BY <1>4, <2>2, <2>3
<1>9. thread' \in Calls /\ thread'[t].pc = "idle" /\ \A u \in Callers : u # t => thread'[u] = thread[u]
  <2>1. Outside \in [pc : {"idle", "shrink", "move"}, block : Pointers, new : Addresses] /\ Outside.pc = "idle"
    <3>1. 0 \in Addresses /\ Null \in Pointers
      BY HeapAssumption, PointerFacts DEF Addresses
    <3> QED BY <3>1 DEF Outside
  <2> QED BY <1>1, <1>3, <2>1 DEF Calls
<1>10. Held(thread', owner)
  BY <1>1, <1>9 DEF Held
<1>11. ASSUME NEW b \in Blocks'
       PROVE  /\ SizeOf(heap', thread', b) = BlockSizes[b] /\ BlockSizes[b] >= asked'[b].size
              /\ (b + HeaderSize) % asked'[b].alignment = 0
  <2>0. b \in Blocks /\ b \in Addresses
    BY <1>1, <1>4
  <2>1. CASE b = a
    <3>1. \A u \in Callers : ~(thread'[u].pc = "shrink" /\ thread'[u].block = a)
      BY <1>4, <1>9, <1>10 DEF Held
    <3>2. SizeOf(heap', thread', a) = new
      BY <1>6, <3>1 DEF SizeOf
    <3>3. SizeOf(heap, thread, thread[t].block) = thread[t].new
      <4>1. Held(thread, owner)
        BY <1>1
      <4> QED BY <1>3, <4>1, SizePending
    <3> QED BY <1>1, <1>2, <1>3, <2>0, <2>1, <3>2, <3>3
  <2>2. CASE b # a
    <3>1. heap'.size[b] = heap.size[b]
      BY <1>6, <2>0, <2>2
    <3>2. SameShrink(thread, thread', b)
      BY <1>2, <1>9, <2>2 DEF SameShrink
    <3>3. Held(thread, owner)
      BY <1>1
    <3>4. SizeOf(heap', thread', b) = SizeOf(heap, thread, b)
      BY <1>10, <3>1, <3>2, <3>3, SizeKeptAt
    <3> QED BY <1>1, <1>3, <2>0, <3>4
  <2> QED BY <2>1, <2>2
<1>12. /\ owner' \in [Addresses -> Callers \cup {Nobody}] /\ Held(thread', owner') /\ lost' \subseteq Blocks'
       /\ asked' \in [Addresses -> [size : Sizes \cup {0}, alignment : Alignments \cup {1}]]
       /\ failure' \in {"none", "lostHeader", "wildPointer", "nullPointer"}
  BY <1>1, <1>3, <1>4, <1>10
<1> QED BY <1>8, <1>9, <1>11, <1>12, HeapInvAgain

-----------------------------------------------------------------------------
\* reallocateMemory() to a larger size, in place
LEMMA GrowStep ==
  ASSUME HeapInv, NEW t \in Callers, NEW a \in Addresses, NEW size \in Sizes, NEW alignment \in Alignments,
         Grow(t, a, size, alignment)
  PROVE  HeapInv'
<1>0. size \in Nat /\ Nobody \notin Callers /\ a \in Nat
  BY HeapAssumption, PointerFacts
<1>1. /\ Sound(heap, Chunks, Blocks, BlockSizes) /\ Separated(heap, Chunks)
      /\ owner \in [Addresses -> Callers \cup {Nobody}]
      /\ asked \in [Addresses -> [size : Sizes \cup {0}, alignment : Alignments \cup {1}]]
      /\ lost \subseteq Blocks /\ thread \in Calls /\ Held(thread, owner)
      /\ failure \in {"none", "lostHeader", "wildPointer", "nullPointer"}
      /\ Blocks \subseteq Addresses
      /\ \A b \in Addresses : BlockSizes[b] = SizeOf(heap, thread, b)
      /\ \A b \in Blocks : BlockSizes[b] >= asked[b].size /\ (b + HeaderSize) % asked[b].alignment = 0
  BY HeapFacts
<1>2. PICK n : n = Neighbour(heap, a, size)
  OBVIOUS
<1>3. /\ thread[t].pc = "idle" /\ owner[a] = t /\ (a + HeaderSize) % alignment = 0
      /\ n # Null /\ heap' = Extended(heap, a, n, size)
      /\ asked' = [asked EXCEPT ![a] = [size |-> size, alignment |-> alignment]]
      /\ owner' = owner /\ thread' = thread /\ failure' = failure
  BY <1>2 DEF Grow, Mine, InCall, InPlace
<1>4. lost' \subseteq lost \cup Blocks
  <2>1. LostBy(heap', a + HeaderSize + size) \subseteq Blocks
    BY DEF LostBy
  <2> QED BY <2>1 DEF Grow
<1>5. a \in Blocks /\ Blocks' = Blocks
  BY <1>0, <1>3 DEF Blocks
<1>6. \A u \in Callers : ~(thread[u].pc = "shrink" /\ thread[u].block = a)
  BY <1>1, <1>3 DEF Held
<1>7. BlockSizes[a] = heap.size[a]
  <2>1. SizeOf(heap, thread, a) = heap.size[a]
    BY <1>6 DEF SizeOf
  <2> QED BY <1>1, <2>1
<1>8. n \in Chunks /\ End(heap, a) = n /\ heap.size[a] + heap.size[n] + HeaderSize >= size
  <2>1. ListOf(heap, Chunks)
    BY <1>1, SoundFacts
  <2>2. Neighbour(heap, a, size) # Null
    BY <1>2, <1>3
  <2>3. LET m == Neighbour(heap, a, size)
        IN  m \in Chunks /\ End(heap, a) = m /\ heap.size[a] + heap.size[m] + HeaderSize >= size
    BY <1>0, <2>1, <2>2, NeighbourIs
  <2> QED BY <1>2, <2>3
<1>9. /\ \E G, l : /\ Sound(heap', G, Blocks, l) /\ Separated(heap', G)
                   /\ l[a] = heap'.size[a] /\ \A b \in Blocks \ {a} : l[b] = BlockSizes[b]
      /\ heap'.size[a] >= size /\ \A b \in Blocks \ {a} : heap'.size[b] = heap.size[b]
  <2>1. Sound(heap, Chunks, Blocks, BlockSizes) /\ Separated(heap, Chunks)
    BY <1>1
  <2>2. LET g == Extended(heap, a, n, size)
        IN  /\ \E G, l : /\ Sound(g, G, Blocks, l) /\ Separated(g, G)
                         /\ l[a] = g.size[a] /\ \A b \in Blocks \ {a} : l[b] = BlockSizes[b]
            /\ g.size[a] >= size /\ \A b \in Blocks \ {a} : g.size[b] = heap.size[b]
    BY <1>0, <1>5, <1>7, <1>8, <2>1, ExtendedSound
  <2> QED BY <1>3, <2>2
<1>10. PICK G, l : /\ Sound(heap', G, Blocks, l) /\ Separated(heap', G)
                   /\ l[a] = heap'.size[a] /\ \A b \in Blocks \ {a} : l[b] = BlockSizes[b]
  BY <1>9
<1>11. /\ asked' \in [Addresses -> [size : Sizes \cup {0}, alignment : Alignments \cup {1}]]
       /\ asked'[a] = [size |-> size, alignment |-> alignment]
       /\ \A b \in Addresses : b # a => asked'[b] = asked[b]
  BY <1>1, <1>3
<1>12. ASSUME NEW b \in Blocks'
       PROVE  /\ SizeOf(heap', thread', b) = l[b] /\ l[b] >= asked'[b].size
              /\ (b + HeaderSize) % asked'[b].alignment = 0
  <2>1. b \in Blocks /\ b \in Addresses
    BY <1>1, <1>5
  <2>2. CASE b = a
    <3>1. SizeOf(heap', thread', a) = heap'.size[a]
      BY <1>3, <1>6 DEF SizeOf
    <3> QED BY <1>3, <1>9, <1>10, <1>11, <2>2, <3>1
  <2>3. CASE b # a
    <3>1. SizeOf(heap', thread', b) = SizeOf(heap, thread, b)
      <4>1. heap'.size[b] = heap.size[b]
        BY <1>9, <2>1, <2>3
      <4>2. Held(thread, owner) /\ Held(thread', owner) /\ SameShrinks(thread, thread')
        BY <1>1, <1>3 DEF SameShrinks
      <4> QED BY <4>1, <4>2, SizeKept
    <3> QED BY <1>1, <1>10, <1>11, <2>1, <2>3, <3>1
  <2> QED BY <2>2, <2>3
<1>13. /\ owner' \in [Addresses -> Callers \cup {Nobody}] /\ Held(thread', owner')
       /\ thread' \in Calls /\ lost' \subseteq Blocks'
       /\ failure' \in {"none", "lostHeader", "wildPointer", "nullPointer"}
  BY <1>1, <1>3, <1>4, <1>5
<1>14. Sound(heap', G, Blocks', l)
  BY <1>5, <1>10
<1> QED BY <1>10, <1>11, <1>12, <1>13, <1>14, HeapInvAgain

\* A step that changes neither the list nor the calls
LEMMA SameHeapStep ==
  ASSUME HeapInv, heap' = heap, owner' = owner, asked' = asked, lost' = lost, thread' = thread,
         failure' \in {"none", "lostHeader", "wildPointer", "nullPointer"}
  PROVE  HeapInv'
<1>1. HeapTypeOK'
  BY DEF HeapInv, HeapTypeOK, Blocks
<1>2. Chunks' = Chunks /\ Blocks' = Blocks /\ BlockSizes' = BlockSizes
  BY DEF Chunks, Blocks, BlockSizes, Size
<1>3. Sound(heap', Chunks', Blocks', BlockSizes') /\ Separated(heap', Chunks')
  BY <1>2 DEF HeapInv
<1>4. BlockFits'
  BY DEF HeapInv, BlockFits, Blocks, Size
<1> QED BY <1>1, <1>3, <1>4 DEF HeapInv

\* reallocateMemory() to a larger size, elsewhere
LEMMA MoveStep ==
  ASSUME HeapInv, NEW t \in Callers, NEW a \in Addresses, NEW size \in Sizes, NEW alignment \in Alignments,
         Move(t, a, size, alignment)
  PROVE  HeapInv'
<1>0. size \in Nat /\ alignment \in Nat \ {0} /\ a \in Nat
  BY HeapAssumption, PointerFacts
<1>1. Sound(heap, Chunks, Blocks, BlockSizes) /\ thread \in Calls /\ Held(thread, owner)
  BY HeapFacts
<1>2. heap \in Lists /\ ListOf(heap, Chunks)
  BY <1>1, SoundFacts
<1>3. CASE InPlace(a, alignment) /\ heap.first = Null
  BY <1>3, SameHeapStep DEF Move
<1>4. CASE ~(InPlace(a, alignment) /\ heap.first = Null)
  <2>1. PICK from : from = IF InPlace(a, alignment) THEN BestFit(heap, a, size) ELSE Null
    OBVIOUS
  <2>2. PICK c : c = Found(heap, size, alignment, from)
    OBVIOUS
  <2>3. PICK new : new = Place(heap, c, size, alignment)
    OBVIOUS
  <2>4. /\ thread[t].pc = "idle" /\ owner[a] = t /\ c # Null
        /\ heap' = Taken(heap, c, new, size) /\ Gets(t, new, size, alignment)
        /\ thread' = [thread EXCEPT ![t] = [pc |-> "move", block |-> a, new |-> new]]
        /\ lost' = lost /\ failure' = failure
    BY <1>4, <2>1, <2>2, <2>3 DEF Move, Mine, InCall
  <2>5. from \in Chunks \cup {Null}
    <3>1. CASE InPlace(a, alignment)
      <4>1. BestFit(heap, a, size) \in Chunks \cup {Null}
        BY <1>0, <1>2, <1>4, <3>1, BestFitIs
      <4> QED BY <2>1, <3>1, <4>1
    <3>2. CASE ~InPlace(a, alignment)
      BY <2>1, <3>2
    <3> QED BY <3>1, <3>2
  <2>6. c \in Chunks /\ new # Null
    BY <1>2, <2>2, <2>3, <2>4, <2>5, FoundFits
  <2>7. new \in Addresses
    <3>1. LET x == Place(heap, c, size, alignment) IN x \in Nat /\ x + HeaderSize + size <= End(heap, c)
      BY <1>0, <1>1, <2>3, <2>6, PlaceFits
    <3>2. End(heap, c) \in Nat /\ End(heap, c) <= Total
      BY <1>1, <2>6, SoundFacts
    <3>3. new \in Nat /\ new + HeaderSize + size <= End(heap, c)
      BY <2>3, <3>1
    <3>4. Total \in Nat /\ HeaderSize \in Nat \ {0}
      BY HeapAssumption
    <3> QED BY <1>0, <3>2, <3>3, <3>4 DEF Addresses
  <2>8. /\ thread' \in Calls /\ thread'[t] = [pc |-> "move", block |-> a, new |-> new]
        /\ \A u \in Callers : u # t => thread'[u] = thread[u]
    <3>1. a \in Pointers
      BY PointerFacts
    <3> QED BY <1>1, <2>4, <2>7, <3>1 DEF Calls
  <2>9. SameShrinks(thread, thread') /\ Held(thread', owner)
    BY <1>1, <2>4, <2>8 DEF SameShrinks, Held
  <2>10. Taking(t, c, new, size, alignment)
    BY <2>3, <2>4, <2>6, <2>8, <2>9 DEF Taking
  <2> QED BY <2>10, TakingStep
<1> QED BY <1>3, <1>4

\* The whole heap is one chunk.
LEMMA HeapInitInv == HeapInit => HeapInv
<1> SUFFICES ASSUME HeapInit PROVE HeapInv
  OBVIOUS
<1>0. /\ Total \in Nat /\ HeaderSize \in Nat \ {0} /\ Total > HeaderSize /\ Null \notin Nat
      /\ Nobody \notin Callers
  BY HeapAssumption
<1>1. 0 \in Addresses /\ 0 \in Pointers /\ Null \in Pointers
  BY <1>0, PointerFacts DEF Addresses
<1>2. heap \in Lists
  <2>1. Total - HeaderSize \in 0..Total /\ 0 \in 0..Total
    BY <1>0
  <2> QED BY <1>1, <2>1 DEF HeapInit, Lists
<1>3. Blocks = {} /\ lost = {}
  BY DEF HeapInit, Blocks
<1>4. HeapTypeOK
  <2>1. owner \in [Addresses -> Callers \cup {Nobody}]
    BY DEF HeapInit
  <2>2. asked \in [Addresses -> [size : Sizes \cup {0}, alignment : Alignments \cup {1}]]
    BY DEF HeapInit, Nothing
  <2>3. thread \in [Callers -> [pc : {"idle", "shrink", "move"}, block : Pointers, new : Addresses]]
    BY <1>1 DEF HeapInit, Outside
  <2>4. \A t \in Callers : thread[t].pc = "idle"
    BY DEF HeapInit, Outside
  <2> QED BY <1>2, <1>3, <2>1, <2>2, <2>3, <2>4 DEF HeapTypeOK, HeapInit
<1>5. heap.first = 0 /\ heap.next[0] = Null /\ heap.prev[0] = Null /\ heap.size[0] = Total - HeaderSize
  BY <1>1 DEF HeapInit
<1>6. ListOf(heap, {0})
  BY <1>0, <1>1, <1>5 DEF ListOf, Least, Successor, Predecessor
<1>7. Chunks = {0}
  BY <1>6, ListReached DEF Chunks
<1>8. BlockSizes \in [Addresses -> 0..Total]
  <2>1. BlockSizes = [a \in Addresses |-> heap.size[a]]
    BY DEF BlockSizes, Size, HeapInit, Outside
  <2> QED BY <1>2, <2>1 DEF Lists
<1>9. Sound(heap, {0}, {}, BlockSizes)
  <2>1. PICK s : s = Measure(heap, {0}, BlockSizes)
    OBVIOUS
  <2>2. s \in [Addresses -> 0..Total] /\ s[0] = Total - HeaderSize
    BY <1>1, <1>2, <1>5, <1>8, <2>1 DEF Measure, Lists
  <2>3. 0 + HeaderSize + s[0] = Total
    BY <1>0, <2>2
  <2>4. \A w \in Addresses : 0 <= w /\ w < Total
    BY <1>0 DEF Addresses
  <2>5. Tiling({0}, s)
    BY <1>0, <1>1, <2>2, <2>3, <2>4 DEF Tiling
  <2>6. {0} \cup {} = {0} /\ {0} \cap {} = {}
    OBVIOUS
  <2> QED BY <1>2, <1>6, <1>8, <2>1, <2>5, <2>6 DEF Sound
<1>10. Separated(heap, {0})
  BY <1>5 DEF Separated
<1>11. BlockFits
  BY <1>3 DEF BlockFits
<1> QED BY <1>3, <1>4, <1>7, <1>9, <1>10, <1>11 DEF HeapInv

\* Every step keeps the invariant.
LEMMA HeapStepInv == HeapInv /\ [HeapNext]_heapVars => HeapInv'
<1> SUFFICES ASSUME HeapInv, [HeapNext]_heapVars PROVE HeapInv'
  OBVIOUS
<1>1. ASSUME NEW t \in Callers, ShrinkEnd(t) PROVE HeapInv'
  BY <1>1, ShrinkEndStep
<1>2. ASSUME NEW t \in Callers, MoveEnd(t) PROVE HeapInv'
  BY <1>2, MoveEndStep
<1>3. ASSUME NEW t \in Callers, NEW a \in Addresses, FreeMemory(t, a) PROVE HeapInv'
  BY <1>3, FreeStep
<1>4. ASSUME NEW t \in Callers, NEW a \in Addresses, ReadLost(t, a) PROVE HeapInv'
  BY <1>4, SameHeapStep DEF ReadLost
<1>5. ASSUME NEW t \in Callers, NEW size \in Sizes, NEW alignment \in Alignments, AllocateMemory(t, size, alignment)
      PROVE  HeapInv'
  BY <1>5, AllocateStep
<1>6. ASSUME NEW t \in Callers, NEW size \in Sizes, NEW alignment \in Alignments, NEW a \in Addresses,
             Shrink(t, a, size, alignment)
      PROVE  HeapInv'
  BY <1>6, ShrinkStep
<1>7. ASSUME NEW t \in Callers, NEW size \in Sizes, NEW alignment \in Alignments, NEW a \in Addresses,
             Grow(t, a, size, alignment)
      PROVE  HeapInv'
  BY <1>7, GrowStep
<1>8. ASSUME NEW t \in Callers, NEW size \in Sizes, NEW alignment \in Alignments, NEW a \in Addresses,
             Move(t, a, size, alignment)
      PROVE  HeapInv'
  BY <1>8, MoveStep
<1>9. CASE UNCHANGED heapVars
  <2>1. failure \in {"none", "lostHeader", "wildPointer", "nullPointer"}
    BY HeapFacts
  <2> QED BY <1>9, <2>1, SameHeapStep DEF heapVars
<1> QED BY <1>1, <1>2, <1>3, <1>4, <1>5, <1>6, <1>7, <1>8, <1>9 DEF HeapNext

\* The invariant holds in every state of every behaviour of the heap.
LEMMA HeapInvHolds == HeapSpec => []HeapInv
BY HeapInitInv, HeapStepInv, PTL DEF HeapSpec

-----------------------------------------------------------------------------
\* Tiled: whatever is allocated, freed and resized, every word of the heap is
\* part of one block or one free chunk (allocAlgorithm(), merge(),
\* reallocateMemory()).
THEOREM HeapIsTiled == HeapSpec => []Tiled
<1>1. ASSUME HeapInv PROVE Tiled
  <2>1. /\ Sound(heap, Chunks, Blocks, BlockSizes) /\ Held(thread, owner)
        /\ \A b \in Addresses : BlockSizes[b] = SizeOf(heap, thread, b)
    BY <1>1, HeapFacts
  <2>2. PICK H : H = Blocks \cup Chunks
    OBVIOUS
  <2>3. PICK s : s = Measure(heap, Chunks, BlockSizes)
    OBVIOUS
  <2>4. Tiling(H, s) /\ Chunks \cap Blocks = {} /\ H \subseteq Addresses
    <3>1. Chunks \cup Blocks = H
      BY <2>2
    <3> QED BY <2>1, <2>3, <3>1 DEF Sound, Tiling
  <2>5. ASSUME NEW a \in H PROVE s[a] = Size(a)
    <3>1. a \in Addresses /\ BlockSizes[a] = Size(a)
      BY <2>4 DEF BlockSizes
    <3>2. CASE a \in Chunks
      <4>1. owner[a] = Nobody /\ Nobody \notin Callers
        BY <2>4, <3>1, <3>2, HeapAssumption DEF Blocks
      <4>2. \A u \in Callers : ~(thread[u].pc = "shrink" /\ thread[u].block = a)
        BY <2>1, <4>1 DEF Held
      <4>3. Size(a) = heap.size[a]
        BY <4>2 DEF Size
      <4> QED BY <2>3, <3>1, <3>2, <4>3 DEF Measure
    <3>3. CASE a \notin Chunks
      BY <2>3, <3>1, <3>3 DEF Measure
    <3> QED BY <3>2, <3>3
  <2>6. ASSUME NEW w \in Addresses
        PROVE  Cardinality({a \in H : a <= w /\ w < a + HeaderSize + Size(a)}) = 1
    <3>1. PICK x \in H : x <= w /\ w < x + HeaderSize + s[x]
      BY <2>4 DEF Tiling
    <3>2. ASSUME NEW a \in H, a <= w, w < a + HeaderSize + s[a] PROVE a = x
      <4>1. /\ a < x => a + HeaderSize + s[a] <= x
            /\ x < a => x + HeaderSize + s[x] <= a
        BY <2>4 DEF Tiling
      <4>2. /\ a \in Nat /\ x \in Nat /\ w \in Nat /\ s[a] \in Nat /\ s[x] \in Nat /\ HeaderSize \in Nat
        <5>1. Total \in Nat /\ HeaderSize \in Nat
          BY HeapAssumption
        <5>2. a \in Addresses /\ x \in Addresses /\ s \in [Addresses -> 0..Total]
          BY <2>4 DEF Tiling
        <5>3. s[a] \in 0..Total /\ s[x] \in 0..Total
          BY <5>2
        <5> QED BY <5>1, <5>2, <5>3 DEF Addresses
      <4> QED BY <3>1, <3>2, <4>1, <4>2
    <3>3. {a \in H : a <= w /\ w < a + HeaderSize + Size(a)} = {x}
      BY <2>5, <3>1, <3>2
    <3> QED BY <3>3, FS_Singleton
  <2> QED BY <2>2, <2>6 DEF Tiled, Chunks
<1> QED BY <1>1, HeapInvHolds, PTL

\* ListIntact: the list of free chunks is ordered by address, linked in both
\* directions and merged, and no block is in it (freeAlgorithm(), merge()).
THEOREM FreeListIsIntact == HeapSpec => []ListIntact
<1>1. ASSUME HeapInv PROVE ListIntact
  <2>1. HeapTypeOK /\ Sound(heap, Chunks, Blocks, BlockSizes) /\ Separated(heap, Chunks)
    BY <1>1 DEF HeapInv
  <2>2. ListOf(heap, Chunks) /\ Chunks \cap Blocks = {}
    BY <2>1, SoundFacts
  <2>3. heap.first # Null => heap.prev[heap.first] = Null
    BY <2>2, ListLinks
  <2>4. \A c \in Chunks : heap.next[c] # Null => heap.prev[heap.next[c]] = c
    BY <2>2, ListLinks
  <2>5. \A c \in Chunks : heap.next[c] # Null => End(heap, c) < heap.next[c]
    BY <2>1 DEF Separated
  <2> QED BY <2>1, <2>2, <2>3, <2>4, <2>5 DEF ListIntact, Chunks
<1> QED BY <1>1, HeapInvHolds, PTL

\* BlockFits: a block has the size and the alignment that was last asked for
\* (allocateMemory(), reallocateMemory()).
THEOREM BlocksFit == HeapSpec => []BlockFits
<1>1. HeapInv => BlockFits
  BY DEF HeapInv
<1> QED BY <1>1, HeapInvHolds, PTL
=============================================================================
