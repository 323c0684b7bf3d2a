---------------------------- MODULE FreeListHeap ----------------------------
(***************************************************************************)
(* The heap of the kernel and of every process (FreeListMemoryManager): a  *)
(* list of the free chunks, ordered by address, with a header in front of  *)
(* each chunk and each block.                                              *)
(*                                                                         *)
(* Addresses count words of 4 bytes from the start of the heap.  The lock  *)
(* makes allocateMemory() and freeMemory() atomic; reallocateMemory()      *)
(* takes it several times.  A word that is not part of a header reads 0 or *)
(* Null here.                                                              *)
(***************************************************************************)
EXTENDS Integers, FiniteSets

CONSTANTS
  Callers, Nobody,
  Total,        \* the words of the heap
  HeaderSize,   \* HEADER_SIZE, in words
  MinBlockSize, \* MIN_BLOCK_SIZE, in words
  PageSize,     \* PAGESIZE, in words
  Sizes,        \* requested sizes, in words
  Alignments,
  Null

ASSUME HeapAssumption ==
  /\ {Total, HeaderSize, MinBlockSize, PageSize} \subseteq Nat \ {0}
  /\ Total > HeaderSize
  /\ Sizes \subseteq Nat \ {0} /\ Alignments \subseteq Nat \ {0}
  /\ Null \notin Nat /\ Nobody \notin Callers

Addresses == 0..(Total - 1)
Pointers == Addresses \cup {Null}

VARIABLES
  heap,    \* the list: [first, size, next, prev]
  owner,   \* the thread that has allocated the block at a header, or Nobody
  asked,   \* what was asked for it: [size, alignment]
  lost,    \* blocks whose size was on a page that is unmapped
  thread,  \* the call of each thread: [pc, block, new]
  failure  \* "none", or what has gone wrong

heapVars == <<heap, owner, asked, lost, thread, failure>>

Nothing == [size |-> 0, alignment |-> 1]
Outside == [pc |-> "idle", block |-> Null, new |-> 0]

\* initialize(): one chunk
HeapInit ==
  /\ heap = [first |-> 0, size |-> [a \in Addresses |-> IF a = 0 THEN Total - HeaderSize ELSE 0],
             next |-> [a \in Addresses |-> Null], prev |-> [a \in Addresses |-> Null]]
  /\ owner = [a \in Addresses |-> Nobody] /\ asked = [a \in Addresses |-> Nothing]
  /\ lost = {} /\ thread = [t \in Callers |-> Outside] /\ failure = "none"

-----------------------------------------------------------------------------
(***************************************************************************)
(* The list                                                                *)
(***************************************************************************)
\* The chunks from c on, up to the end of the list
Chain(h, c) ==
  LET f[i \in 0..Total] == IF i = 0 THEN c ELSE IF f[i - 1] = Null THEN Null ELSE h.next[f[i - 1]]
  IN  f

InList(h, c) == {Chain(h, c)[i] : i \in 0..Total} \ {Null}

\* A pointer of the header at a is written, unless there is no header.
Link(h, field, a, value) == IF a = Null THEN h ELSE [h EXCEPT ![field][a] = value]

\* p->next = n, or the list begins with n
SetNext(h, p, n) == IF p = Null THEN [h EXCEPT !.first = n] ELSE Link(h, "next", p, n)

End(h, a) == a + HeaderSize + h.size[a]

\* What was a header is part of a block now.
Erase(h, a) == [h EXCEPT !.size[a] = 0, !.next[a] = Null, !.prev[a] = Null]

Unlink(h, a) ==
  LET g == Link(SetNext(h, h.prev[a], h.next[a]), "prev", h.next[a], h.prev[a])
  IN  [g EXCEPT !.next[a] = Null, !.prev[a] = Null]

Insert(h, a, p, n) ==
  LET g == Link(SetNext(h, p, a), "prev", n, a) IN [g EXCEPT !.next[a] = n, !.prev[a] = p]

-----------------------------------------------------------------------------
(***************************************************************************)
(* allocAlgorithm()                                                        *)
(***************************************************************************)
\* Where the header of a block goes in chunk c, or Null: at its begin, or
\* far enough behind it that a chunk is left in front.
Place(h, c, size, alignment) ==
  LET data == c + HeaderSize
      aligned == CHOOSE x \in data..(data + 2 * alignment + HeaderSize + MinBlockSize) :
                   /\ x % alignment = 0 /\ x - HeaderSize >= data + MinBlockSize
                   /\ x - alignment - HeaderSize < data + MinBlockSize
  IN  IF h.size[c] < size THEN Null
      ELSE IF data % alignment = 0 THEN c
      ELSE IF aligned + size <= End(h, c) THEN aligned - HeaderSize ELSE Null

\* The first chunk from start on that has a place, and that place
Found(h, size, alignment, start) ==
  LET f == Chain(h, IF start = Null THEN h.first ELSE start)
      fits == {i \in 0..Total : f[i] # Null /\ Place(h, f[i], size, alignment) # Null}
  IN  IF fits = {} THEN Null ELSE f[CHOOSE i \in fits : \A j \in fits : i <= j]

\* Chunk c is cut in two at address a, which is a part of it.
Cut(h, c, a) ==
  IF a = c THEN h
  ELSE LET g == [h EXCEPT !.size[a] = End(h, c) - a - HeaderSize, !.size[c] = a - c - HeaderSize]
       IN  Insert(g, a, c, h.next[c])

\* What is left of the chunk at a stays in the list if it is large enough.
Sliced(h, a, size) ==
  IF h.size[a] - size >= MinBlockSize + HeaderSize THEN Unlink(Cut(h, a, a + HeaderSize + size), a) ELSE Unlink(h, a)

Taken(h, c, a, size) == Sliced(Cut(h, c, a), a, size)

-----------------------------------------------------------------------------
(***************************************************************************)
(* freeAlgorithm()                                                         *)
(***************************************************************************)
\* The last chunk in front of a
Before(h, a) ==
  LET p == {c \in InList(h, h.first) : c < a /\ (h.next[c] = Null \/ a < h.next[c])}
  IN  IF p = {} THEN Null ELSE CHOOSE c \in p : TRUE

Absorbed(h, a) ==
  LET n == h.next[a]
      g == Link([h EXCEPT !.size[a] = @ + h.size[n] + HeaderSize, !.next[a] = h.next[n]], "prev", h.next[n], a)
  IN  Erase(g, n)

\* merge() with the next chunk ...
MergedNext(h, a) == IF h.next[a] # Null /\ End(h, a) = h.next[a] THEN Absorbed(h, a) ELSE h

\* Fault: the chunk in front of the freed one is not looked at.
Merged_Forward(h, a) == MergedNext(h, a)

\* ... and with the one in front
Merged(h, a) ==
  LET g == MergedNext(h, a)
  IN  IF g.prev[a] # Null /\ End(g, g.prev[a]) = a THEN Absorbed(g, g.prev[a]) ELSE g

Freed(h, a) ==
  LET p == Before(h, a) IN Merged(Insert(h, a, p, IF p = Null THEN h.first ELSE h.next[p]), a)

\* The chunk that contains a
ChunkOf(h, a) == CHOOSE c \in InList(h, h.first) : c <= a /\ a < End(h, c)

\* The pages that freeAlgorithm() and MemoryService::unmap() unmap of it
UnmappedWords(h, a) ==
  LET c == ChunkOf(h, a)
      data == c + HeaderSize
      start == ((data + PageSize - 1) \div PageSize) * PageSize
      count == (HeaderSize + h.size[c]) \div PageSize - (IF start = data THEN 0 ELSE 1)
  IN  IF h.size[c] >= PageSize THEN start..(start + count * PageSize - 1) ELSE {}

Blocks == {a \in Addresses : owner[a] # Nobody}

\* The size is the last word of a header.
LostBy(h, a) == {b \in Blocks \ {a} : b + HeaderSize - 1 \in UnmappedWords(h, a)}

-----------------------------------------------------------------------------
(***************************************************************************)
(* Calls                                                                   *)
(***************************************************************************)
InCall(t, l) == failure = "none" /\ thread[t].pc = l

Gets(t, a, size, alignment) ==
  /\ owner' = [owner EXCEPT ![a] = t]
  /\ asked' = [asked EXCEPT ![a] = [size |-> size, alignment |-> alignment]]

\* allocateMemory(); it throws an exception when there is no place.
AllocateMemory(t, size, alignment) ==
  /\ InCall(t, "idle")
  /\ LET c == Found(heap, size, alignment, Null)
         a == Place(heap, c, size, alignment)
     IN  /\ c # Null
         /\ heap' = Taken(heap, c, a, size)
         /\ Gets(t, a, size, alignment)
  /\ UNCHANGED <<lost, thread, failure>>

Mine(t, a) == InCall(t, "idle") /\ owner[a] = t /\ a \notin lost

\* freeMemory() of the block at a
Release(a) ==
  /\ heap' = Freed(heap, a)
  /\ lost' = lost \cup LostBy(heap', a)
  /\ owner' = [owner EXCEPT ![a] = Nobody] /\ asked' = [asked EXCEPT ![a] = Nothing]

FreeMemory(t, a) ==
  /\ Mine(t, a)
  /\ Release(a)
  /\ UNCHANGED <<thread, failure>>

-----------------------------------------------------------------------------
(***************************************************************************)
(* reallocateMemory()                                                      *)
(***************************************************************************)
\* The header of a block on a page that was unmapped has an arbitrary size.
ReadLost(t, a) ==
  /\ owner[a] = t /\ a \in lost
  /\ InCall(t, "idle") \/ (InCall(t, "move") /\ thread[t].block = a)
  /\ failure' = "lostHeader"
  /\ UNCHANGED <<heap, owner, asked, lost, thread>>

\* Fault: the alignment is not looked at.
InPlace_Always(a, alignment) == TRUE

InPlace(a, alignment) == (a + HeaderSize) % alignment = 0

\* A smaller size: the rest becomes a block and is freed.  With an empty list,
\* its pointers are not initialised.
Shrink(t, a, size, alignment) ==
  /\ Mine(t, a) /\ size < heap.size[a] /\ InPlace(a, alignment)
  /\ LET rest == a + HeaderSize + size
         h == [heap EXCEPT !.size[rest] = heap.size[a] - size - HeaderSize]
     IN  /\ heap.size[a] - size > MinBlockSize + HeaderSize
         /\ IF heap.first = Null THEN failure' = "wildPointer" /\ UNCHANGED <<heap, lost, thread>>
            ELSE /\ heap' = Freed(h, rest)
                 /\ lost' = lost \cup LostBy(heap', rest)
                 /\ thread' = [thread EXCEPT ![t] = [pc |-> "shrink", block |-> a, new |-> size]]
                 /\ UNCHANGED failure
  /\ asked' = [asked EXCEPT ![a] = [size |-> size, alignment |-> alignment]]
  /\ UNCHANGED owner

\* Then the size of the block is set.
ShrinkEnd(t) ==
  /\ InCall(t, "shrink")
  /\ heap' = [heap EXCEPT !.size[thread[t].block] = thread[t].new]
  /\ lost' = lost \ {thread[t].block}
  /\ thread' = [thread EXCEPT ![t] = Outside]
  /\ UNCHANGED <<owner, asked, failure>>

\* The loop over the list: chunks up to the block, at least one
LoopEnd(h, a) ==
  LET f == Chain(h, h.first)
  IN  CHOOSE i \in 1..Total : (f[i] = Null \/ f[i] >= a + HeaderSize)
                              /\ \A j \in 1..(i - 1) : f[j] # Null /\ f[j] < a + HeaderSize

BestFit(h, a, size) ==
  LET f == Chain(h, h.first)
      large == {i \in 0..(LoopEnd(h, a) - 1) : h.size[f[i]] >= size}
  IN  IF large = {} THEN Null
      ELSE f[CHOOSE i \in large : \A j \in large : h.size[f[i]] < h.size[f[j]] \/ (h.size[f[i]] = h.size[f[j]] /\ i <= j)]

\* Fault: the neighbour may be in use.
Neighbour_Any(h, a, size) == IF End(h, a) < Total /\ h.size[a] + h.size[End(h, a)] + HeaderSize >= size THEN End(h, a) ELSE Null

\* The free chunk behind the block, if the loop stops there and it suffices
Neighbour(h, a, size) ==
  LET n == Chain(h, h.first)[LoopEnd(h, a)]
  IN  IF n # Null /\ End(h, a) = n /\ h.size[a] + h.size[n] + HeaderSize >= size THEN n ELSE Null

Extended(h, a, n, size) ==
  LET g == Erase(Unlink(h, n), n)
      all == h.size[a] + h.size[n] + HeaderSize
      rest == a + HeaderSize + size
  IN  IF all - size > HeaderSize + MinBlockSize
      THEN Freed([g EXCEPT !.size[a] = size, !.size[rest] = all - size - HeaderSize], rest)
      ELSE [g EXCEPT !.size[a] = all]

\* A larger size: the block takes the free chunk behind it, ...
Grow(t, a, size, alignment) ==
  /\ Mine(t, a) /\ size > heap.size[a] /\ InPlace(a, alignment) /\ heap.first # Null
  /\ LET n == Neighbour(heap, a, size)
         rest == a + HeaderSize + size
     IN  /\ n # Null
         /\ heap' = Extended(heap, a, n, size)
         /\ lost' = lost \cup (IF heap'.size[a] = size /\ rest \in InList(heap', heap'.first) THEN LostBy(heap', rest) ELSE {})
  /\ asked' = [asked EXCEPT ![a] = [size |-> size, alignment |-> alignment]]
  /\ UNCHANGED <<owner, thread, failure>>

\* ... or a new block is allocated, which is also how a block gets another
\* alignment.  An empty list is not expected.
Move(t, a, size, alignment) ==
  /\ Mine(t, a)
  /\ size > heap.size[a] \/ ~InPlace(a, alignment)
  /\ IF InPlace(a, alignment) /\ heap.first = Null THEN failure' = "nullPointer" /\ UNCHANGED <<heap, owner, asked, thread>>
     ELSE LET start == IF InPlace(a, alignment) THEN BestFit(heap, a, size) ELSE Null
              c == Found(heap, size, alignment, start)
              new == Place(heap, c, size, alignment)
          IN  /\ InPlace(a, alignment) => Neighbour(heap, a, size) = Null
              /\ c # Null
              /\ heap' = Taken(heap, c, new, size)
              /\ Gets(t, new, size, alignment)
              /\ thread' = [thread EXCEPT ![t] = [pc |-> "move", block |-> a, new |-> new]]
              /\ UNCHANGED failure
  /\ UNCHANGED lost

\* The content is copied and the old block is freed.
MoveEnd(t) ==
  /\ InCall(t, "move")
  /\ thread[t].block \notin lost
  /\ Release(thread[t].block)
  /\ thread' = [thread EXCEPT ![t] = Outside]
  /\ UNCHANGED failure

HeapNext ==
  \E t \in Callers :
    \/ ShrinkEnd(t) \/ MoveEnd(t)
    \/ \E a \in Addresses : FreeMemory(t, a) \/ ReadLost(t, a)
    \/ \E size \in Sizes, alignment \in Alignments :
         \/ AllocateMemory(t, size, alignment)
         \/ \E a \in Addresses : Shrink(t, a, size, alignment) \/ Grow(t, a, size, alignment) \/ Move(t, a, size, alignment)

HeapSpec == HeapInit /\ [][HeapNext]_heapVars

-----------------------------------------------------------------------------
(***************************************************************************)
(* Properties                                                              *)
(***************************************************************************)
Lists == [first : Pointers, size : [Addresses -> 0..Total],
          next : [Addresses -> Pointers], prev : [Addresses -> Pointers]]

\* Types of the variables; a block is in the hands of one call at most.
HeapTypeOK ==
  /\ heap \in Lists
  /\ owner \in [Addresses -> Callers \cup {Nobody}]
  /\ asked \in [Addresses -> [size : Sizes \cup {0}, alignment : Alignments \cup {1}]]
  /\ lost \subseteq Blocks
  /\ thread \in [Callers -> [pc : {"idle", "shrink", "move"}, block : Pointers, new : Addresses]]
  /\ \A t \in Callers : thread[t].pc # "idle" => thread[t].block \in Addresses /\ owner[thread[t].block] = t
  /\ failure \in {"none", "lostHeader", "wildPointer", "nullPointer"}

\* The size that the block at a will have after a call that shrinks it
Size(a) ==
  IF \E t \in Callers : thread[t].pc = "shrink" /\ thread[t].block = a
  THEN thread[CHOOSE t \in Callers : thread[t].pc = "shrink" /\ thread[t].block = a].new ELSE heap.size[a]

\* Blocks and chunks cover the heap: no two of them overlap, and no word is
\* lost, whatever is allocated, freed and resized (allocAlgorithm(), merge(),
\* reallocateMemory()).
Tiled ==
  LET headers == Blocks \cup InList(heap, heap.first)
  IN  \A w \in Addresses : Cardinality({a \in headers : a <= w /\ w < a + HeaderSize + Size(a)}) = 1

\* The list is ordered, linked in both directions and has no two chunks that
\* could be one (freeAlgorithm(), merge()).
ListIntact ==
  LET free == InList(heap, heap.first)
  IN  /\ HeapTypeOK
      /\ free \cap Blocks = {}
      /\ heap.first # Null => heap.prev[heap.first] = Null
      /\ \A c \in free : heap.next[c] # Null => heap.prev[heap.next[c]] = c /\ End(heap, c) < heap.next[c]

\* A block has the size and the alignment that was asked for, also after it
\* was resized in place or moved (allocateMemory(), reallocateMemory()).
BlockFits == \A a \in Blocks : Size(a) >= asked[a].size /\ (a + HeaderSize) % asked[a].alignment = 0

\* "we do not want to unmap data, that could be on the same page before
\* virtualAddress or behind the end of the virtual memory block"
\* (MemoryService::unmap()): no header of a block is on an unmapped page.
HeaderKept == lost = {}
=============================================================================
