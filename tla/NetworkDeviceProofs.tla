------------------------- MODULE NetworkDeviceProofs -------------------------
(***************************************************************************)
(* For any number of senders, any size of the queues and of the pool, and  *)
(* any number of descriptors: with the card's driver every packet buffer   *)
(* has one owner; with both drivers a buffer that is still to be sent is   *)
(* not freed, and freeLastSendBuffer() never polls an empty queue.         *)
(***************************************************************************)
EXTENDS NetworkDevice, TLAPS, FiniteSetTheorems, WellFoundedInduction

\* What the holder of outgoingPacketLock does
Stage == IF outLock = NoThread THEN "none" ELSE sender[outLock].pc

LockInv == \A s \in Senders : outLock = s <=> sender[s].pc \notin {"idle", "lock"}

\* The drivers, the handler and the loop that deletes buffers.
DriverInv ==
  /\ driver = "Loopback" => card = <<>> /\ status = {} /\ isr = "none" /\ Stage # "transmit"
  /\ driver # "Loopback" => Stage \notin {"allocate", "offer", "inLoad", "inStore", "free", "poll"}
  /\ isr = "sent" => "TRANSMIT_OK" \in status
  /\ isr = "poll" \/ Stage = "poll" => toFree > 0
  /\ \A s \in Senders : sender[s].pc = "offer" => sender[s].packet \in InBuffers

\* A queue with n elements, wherever head and tail are and whatever the length
\* says
Ring(q, n) == n \in 0..Capacity /\ (q.tail + 1) % Capacity = (q.head + n) % Capacity
Item(q, i) == q.elements[(q.head + i) % Capacity]

\* The outgoing queue holds n buffers that are sent, then the ones that the
\* card has, then the one that its sender has not handed over yet.
Own == IF Stage \in {"load", "store", "transmit"} THEN 1 ELSE 0
OutCount(n) == n + Len(card) + Own

\* A buffer that is sent, but not counted in outgoingPacketsToFree yet
Pending == IF \/ Stage \in {"allocate", "offer", "inLoad", "inStore", "free"}
              \/ "TRANSMIT_OK" \in status /\ isr \notin {"poll", "end"} THEN 1 ELSE 0

OutItems(n) ==
  /\ Ring(outq, OutCount(n))
  /\ \A i \in 0..(OutCount(n) - 1) : Item(outq, i) \in OutBuffers \ memory
  /\ \A i, j \in 0..(OutCount(n) - 1) : Item(outq, i) = Item(outq, j) => i = j
  /\ \A i \in 1..Len(card) : Item(outq, n + i - 1) = card[i]
  /\ Own = 1 => Item(outq, OutCount(n) - 1) = sender[outLock].buffer

\* The buffers of the senders that have not put them into the queue yet
OutWaiting(n) ==
  \A s \in Senders : sender[s].pc \in {"lock", "add"} =>
    /\ sender[s].buffer \in OutBuffers \ memory
    /\ \A i \in 0..(OutCount(n) - 1) : Item(outq, i) # sender[s].buffer
    /\ \A t \in Senders : sender[t].pc \in {"lock", "add"} /\ sender[t].buffer = sender[s].buffer => t = s

\* The length of the outgoing queue may be too large, since a decrement of the
\* handler gets lost, but never too small.
OutLength(n) ==
  /\ Stage \in {"load", "store"} => OutCount(n) <= outq.length + 1 /\ outq.length < Capacity
  /\ Stage = "store" => OutCount(n) <= sender[outLock].length + 1 /\ sender[outLock].length < Capacity
  /\ Stage \notin {"load", "store"} => OutCount(n) <= outq.length /\ outq.length <= Capacity

OutInv == \E n \in Nat : OutItems(n) /\ OutWaiting(n) /\ OutLength(n) /\ toFree + Pending <= n

\* The length of the incoming queue is at least 1 while the reader takes an
\* element.
ReaderInv ==
  /\ reader.pc = "load" => inq.length > 0
  /\ reader.pc = "store" => reader.length > 0

\* A buffer is free, in one slot of the incoming queue, or with the reader.
Reading == IF reader.pc \in {"load", "store", "copy", "process"} THEN 1 ELSE 0

InItems(m) ==
  /\ Ring(inq, m)
  /\ \A i \in 0..(m - 1) : Item(inq, i) \in InBuffers \ (pool \cup InReader)
  /\ \A i, j \in 0..(m - 1) : Item(inq, i) = Item(inq, j) => i = j
  /\ InReader \subseteq InBuffers \ pool
  /\ InBuffers \subseteq pool \cup InReader \cup {Item(inq, i) : i \in 0..(m - 1)}
  /\ Cardinality(pool) + m + Reading = PoolSize
  /\ reader.pc # "failed"

\* The reader has advanced the head, but the element is not overwritten.
InSlot == reader.pc \in {"load", "store", "copy"} => (reader.slot + 1) % Capacity = inq.head

\* The length of the incoming queue may be too small, since an increment of
\* the handler gets lost, but never too large.
InLength(m) ==
  /\ reader.pc \in {"load", "store"} => inq.length <= m + 1
  /\ reader.pc = "store" => reader.length <= m + 1
  /\ reader.pc \notin {"load", "store"} => inq.length <= m

InInv == driver = "Rtl8139" => InSlot /\ \E m \in Nat : InItems(m) /\ InLength(m)

IInv == TypeOK /\ LockInv /\ DriverInv /\ OutInv /\ ReaderInv /\ InInv

-----------------------------------------------------------------------------
\* Positions in a ring: the remainder, for a sum below twice the capacity.
LEMMA Remainder ==
  ASSUME NEW a \in Nat, a < 2 * Capacity
  PROVE  (a % Capacity) = IF a < Capacity THEN a ELSE a - Capacity
<1>1. Capacity \in Nat /\ Capacity > 0
  BY NetworkAssumption
<1> QED BY <1>1

\* An element at a position, without the remainder.
Turn(h, i) == IF h + i < Capacity THEN h + i ELSE h + i - Capacity

\* A ring in terms of Turn.
LEMMA RingTurn ==
  ASSUME NEW X, NEW q \in QueueType(X)
  PROVE  /\ \A i \in 0..Capacity : ((q.head + i) % Capacity) = Turn(q.head, i)
         /\ \A i \in 0..Capacity : Turn(q.head, i) \in Slots
         /\ \A i \in 0..Capacity : Item(q, i) = q.elements[Turn(q.head, i)]
         /\ \A n \in 0..Capacity : Ring(q, n) <=> Turn(q.tail, 1) = Turn(q.head, n)
         /\ ((q.tail + 1) % Capacity) = Turn(q.tail, 1)
         /\ ((q.head + 1) % Capacity) = Turn(q.head, 1)
         /\ q.head \in Slots /\ q.tail \in {-1} \cup Slots /\ Turn(q.tail, 1) \in Slots
<1>1. Capacity \in Nat /\ Capacity > 0
  BY NetworkAssumption
<1>2. q.head \in Slots /\ q.tail \in {-1} \cup Slots
  BY DEF QueueType
<1>3. \A i \in 0..Capacity : ((q.head + i) % Capacity) = Turn(q.head, i) /\ Turn(q.head, i) \in Slots
  BY <1>1, <1>2, Remainder DEF Turn, Slots
<1>4. ((q.tail + 1) % Capacity) = Turn(q.tail, 1) /\ Turn(q.tail, 1) \in Slots
  BY <1>1, <1>2, Remainder DEF Turn, Slots
<1> QED BY <1>1, <1>2, <1>3, <1>4 DEF Item, Ring

\* offer() puts the element behind the n elements that are in the ring.
LEMMA PutItem ==
  ASSUME NEW X, NEW q \in QueueType(X), NEW n \in Nat, n < Capacity, Ring(q, n), NEW x \in X
  PROVE  /\ Put(q, x) \in QueueType(X) /\ Put(q, x).length = q.length /\ Put(q, x).head = q.head
         /\ Ring(Put(q, x), n + 1)
         /\ \A i \in 0..n : Item(Put(q, x), i) = IF i = n THEN x ELSE Item(q, i)
         /\ \A k \in Slots : k # Turn(q.head, n) => Put(q, x).elements[k] = q.elements[k]
<1> DEFINE t == Turn(q.tail, 1)
           r == [q EXCEPT !.tail = t, !.elements[t] = x]
<1>1. Put(q, x) = r
  BY RingTurn DEF Put
<1>2. Capacity \in Nat /\ Capacity > 0
  BY NetworkAssumption
<1>3. t \in Slots /\ q.head \in Slots
  BY RingTurn
<1>4. /\ r \in QueueType(X) /\ r.length = q.length /\ r.head = q.head /\ r.tail = t
      /\ \A k \in Slots : r.elements[k] = IF k = t THEN x ELSE q.elements[k]
  BY <1>3 DEF QueueType
<1>5. t = Turn(q.head, n)
  BY <1>2, RingTurn
<1> HIDE DEF t, r
<1>6. Turn(t, 1) = Turn(q.head, n + 1)
  BY <1>2, <1>3, <1>5 DEF Turn, Slots
<1>7. Ring(r, n + 1)
  BY <1>2, <1>4, <1>6, RingTurn
<1>8. ASSUME NEW i \in 0..n
      PROVE  Item(r, i) = IF i = n THEN x ELSE Item(q, i)
  <2>1. Item(r, i) = r.elements[Turn(q.head, i)] /\ Item(q, i) = q.elements[Turn(q.head, i)]
    BY <1>2, <1>4, RingTurn
  <2>2. Turn(q.head, i) \in Slots
    BY <1>2, RingTurn
  <2>3. Turn(q.head, i) = t <=> i = n
    BY <1>2, <1>3, <1>5 DEF Turn, Slots
  <2> QED BY <1>4, <2>1, <2>2, <2>3
<1> QED BY <1>1, <1>4, <1>5, <1>7, <1>8

\* poll() leaves the elements behind the first one, one position earlier.
LEMMA AdvanceItem ==
  ASSUME NEW X, NEW q \in QueueType(X), NEW n \in Nat, 0 < n, Ring(q, n)
  PROVE  /\ Advance(q) \in QueueType(X) /\ Advance(q).length = q.length /\ Advance(q).elements = q.elements
         /\ Advance(q).head = ((q.head + 1) % Capacity)
         /\ Ring(Advance(q), n - 1)
         /\ \A i \in 0..(n - 2) : Item(Advance(q), i) = Item(q, i + 1)
         /\ Item(q, 0) = q.elements[q.head]
<1> DEFINE h == Turn(q.head, 1)
           r == [q EXCEPT !.head = h]
<1>1. Advance(q) = r /\ h = ((q.head + 1) % Capacity)
  BY RingTurn DEF Advance
<1>2. Capacity \in Nat /\ Capacity > 0 /\ n <= Capacity
  BY NetworkAssumption DEF Ring
<1>3. h \in Slots /\ q.head \in Slots
  BY <1>2, RingTurn
<1>4. /\ r \in QueueType(X) /\ r.length = q.length /\ r.elements = q.elements /\ r.head = h /\ r.tail = q.tail
  BY <1>3 DEF QueueType
<1>5. ASSUME NEW i \in 0..(n - 1)
      PROVE  Turn(h, i) = Turn(q.head, i + 1)
  <2>1. q.head \in 0..(Capacity - 1) /\ i \in 0..(Capacity - 1)
    BY <1>2, <1>3 DEF Slots
  <2> QED BY <1>2, <2>1 DEF Turn
<1> HIDE DEF h, r
<1>6. Ring(r, n - 1)
  <2>1. Turn(r.tail, 1) = Turn(q.head, n)
    BY <1>2, <1>4, RingTurn
  <2> QED BY <1>2, <1>4, <1>5, <2>1, RingTurn
<1>7. ASSUME NEW i \in 0..(n - 2)
      PROVE  Item(r, i) = Item(q, i + 1)
  <2>1. Item(r, i) = r.elements[Turn(h, i)]
    BY <1>2, <1>4, RingTurn
  <2>2. Item(q, i + 1) = q.elements[Turn(q.head, i + 1)]
    BY <1>2, RingTurn
  <2> QED BY <1>4, <1>5, <2>1, <2>2
<1>8. Item(q, 0) = q.elements[q.head]
  <2>1. Turn(q.head, 0) = q.head
    BY <1>2, <1>3 DEF Turn, Slots
  <2> QED BY <1>2, <2>1, RingTurn
<1> QED BY <1>1, <1>4, <1>6, <1>7, <1>8

\* The first free block is a free block.
LEMMA FirstFreeIsFree ==
  ASSUME pool \subseteq InBuffers, pool # {}
  PROVE  FirstFree \in pool
<1> DEFINE R == OpToRel(<, Nat)
<1>1. IsWellFoundedOn(R, Nat)
  BY NatLessThanWellFounded
<1>2. R = {ss \in Nat \X Nat : ss[1] < ss[2]}
  BY DEF OpToRel
<1> HIDE DEF R
<1>0. pool \subseteq Nat
  BY NetworkAssumption DEF InBuffers
<1>3. PICK b \in pool : \A c \in pool : ~(<<c, b>> \in R)
  BY <1>0, <1>1, WFMin
<1>4. ASSUME NEW c \in pool, c < b PROVE FALSE
  <2>1. <<c, b>> \in Nat \X Nat /\ <<c, b>>[1] = c /\ <<c, b>>[2] = b
    BY <1>0
  <2>2. <<c, b>> \in R
    BY <1>2, <1>4, <2>1
  <2> QED BY <1>3, <2>2
<1>5. \A c \in pool : b <= c
  BY <1>0, <1>4
<1> QED BY <1>5 DEF FirstFree

-----------------------------------------------------------------------------
\* The sender that holds the lock is the one with a stage.
LEMMA StageOf ==
  ASSUME TypeOK, LockInv
  PROVE  /\ \A s \in Senders : sender[s].pc \notin {"idle", "lock"} => outLock = s /\ Stage = sender[s].pc
         /\ Stage \notin {"idle", "lock"}
         /\ NoThread \notin Senders
         /\ Own \in 0..1 /\ Pending \in 0..1 /\ Len(card) \in Nat
         /\ \A n \in Nat : OutCount(n) \in Nat /\ n + Len(card) <= OutCount(n)
<1>1. NoThread \notin Senders
  BY NetworkAssumption
<1>2. Stage \notin {"idle", "lock"}
  BY DEF TypeOK, LockInv, Stage
<1>3. Own \in 0..1 /\ Pending \in 0..1 /\ Len(card) \in Nat
  BY DEF TypeOK, Own, Pending
<1>4. \A n \in Nat : OutCount(n) \in Nat /\ n + Len(card) <= OutCount(n)
  BY <1>3 DEF OutCount
<1>5. ASSUME NEW s \in Senders, sender[s].pc \notin {"idle", "lock"}
      PROVE  outLock = s /\ Stage = sender[s].pc
  <2>1. outLock = s
    BY <1>5 DEF LockInv
  <2> QED BY <1>1, <2>1 DEF Stage
<1> QED BY <1>1, <1>2, <1>3, <1>4, <1>5

\* What the reader does not concern
LEMMA InSame ==
  ASSUME InInv, ReaderInv, UNCHANGED <<driver, pool, inq, reader>>
  PROVE  InInv' /\ ReaderInv'
<1>1. ReaderInv'
  BY DEF ReaderInv
<1>2. InInv'
  BY DEF InInv, InSlot, InItems, InLength, Ring, Item, InReader, Leaving, Reading
<1> QED BY <1>1, <1>2

\* Steps that leave the outgoing queue and the senders alone.
LEMMA OutSame ==
  ASSUME TypeOK, LockInv, OutInv,
         UNCHANGED <<outq, memory, sender, outLock, toFree, card>>,
         Pending' <= Pending, Pending' \in 0..1
  PROVE  OutInv' /\ LockInv' /\ Stage' = Stage
<1>1. LockInv' /\ Stage' = Stage
  BY DEF LockInv, Stage
<1>2. Own' = Own /\ \A n \in Nat : OutCount(n)' = OutCount(n)
  BY <1>1 DEF Own, OutCount
<1>3. PICK n \in Nat : OutItems(n) /\ OutWaiting(n) /\ OutLength(n) /\ toFree + Pending <= n
  BY DEF OutInv
<1>4. OutCount(n)' = OutCount(n)
  BY <1>2
<1>5. OutItems(n)'
  BY <1>2, <1>3, <1>4 DEF OutItems, Ring, Item
<1>6. OutWaiting(n)'
  BY <1>2, <1>3, <1>4 DEF OutWaiting, Item
<1>7. OutLength(n)'
  BY <1>1, <1>3, <1>4 DEF OutLength
<1>8. toFree' + Pending' <= n
  <2>1. toFree \in Nat /\ toFree' = toFree /\ Pending \in 0..1
    BY StageOf DEF TypeOK
  <2>2. toFree + Pending <= n
    BY <1>3
  <2>3. Pending' \in 0..1 /\ (Pending' = 0 \/ (Pending' = 1 /\ Pending = 1))
    BY <2>1
  <2>4. CASE Pending' = 0
    BY <2>1, <2>2, <2>4
  <2>5. CASE Pending' = 1 /\ Pending = 1
    BY <2>1, <2>2, <2>5
  <2> QED BY <2>3, <2>4, <2>5
<1> QED BY <1>1, <1>5, <1>6, <1>7, <1>8 DEF OutInv

\* Steps that put nothing into the outgoing queue and take nothing out: n of
\* its elements were sent before, k are after the step.
LEMMA OutShift ==
  ASSUME NEW n \in Nat, NEW k \in Nat, OutItems(n), OutWaiting(n),
         OutCount(k)' = OutCount(n),
         outq'.elements = outq.elements, outq'.head = outq.head, outq'.tail = outq.tail,
         memory' = memory,
         \A s \in Senders : sender'[s].pc \in {"lock", "add"} =>
           sender[s].pc \in {"lock", "add"} /\ sender'[s].buffer = sender[s].buffer,
         \A i \in 1..Len(card') : Item(outq, k + i - 1) = card'[i],
         Own' = 1 => Item(outq, OutCount(n) - 1) = sender'[outLock'].buffer
  PROVE  OutItems(k)' /\ OutWaiting(k)'
<1>1. Ring(outq, OutCount(k))'
  BY DEF OutItems, Ring
<1>2. ASSUME NEW i PROVE Item(outq', i) = Item(outq, i)
  BY DEF Item
<1>3. OutItems(k)'
  <2>1. \A i \in 0..(OutCount(k)' - 1) : Item(outq', i) \in OutBuffers \ memory'
    BY <1>2 DEF OutItems
  <2>2. \A i, j \in 0..(OutCount(k)' - 1) : Item(outq', i) = Item(outq', j) => i = j
    BY <1>2 DEF OutItems
  <2>3. \A i \in 1..Len(card') : Item(outq', k + i - 1) = card'[i]
    BY <1>2
  <2>4. Own' = 1 => Item(outq', OutCount(k)' - 1) = sender'[outLock'].buffer
    BY <1>2
  <2> QED BY <1>1, <2>1, <2>2, <2>3, <2>4 DEF OutItems
<1>4. OutWaiting(k)'
  BY <1>2 DEF OutWaiting
<1> QED BY <1>3, <1>4

-----------------------------------------------------------------------------
\* Init
LEMMA InitInv == Init => IInv
<1> SUFFICES ASSUME Init PROVE IInv
  OBVIOUS
<1> USE DEF Init
<1>0. Capacity \in Nat /\ Capacity > 0 /\ PoolSize \in Nat /\ MaxArrived \in Nat /\ 0 \in Slots
  BY NetworkAssumption DEF Slots
<1>1. EmptyQueue \in QueueType(InBuffers) /\ EmptyQueue \in QueueType(OutBuffers)
  BY <1>0 DEF EmptyQueue, QueueType, Slots
<1>2. TypeOK
  BY <1>0, <1>1 DEF TypeOK
<1>3. LockInv
  BY NetworkAssumption DEF LockInv
<1>4. Stage = "none" /\ Own = 0 /\ Pending = 0 /\ Len(card) = 0 /\ OutCount(0) = 0
  BY DEF Stage, Own, Pending, OutCount
<1>5. DriverInv
  BY <1>4 DEF DriverInv
<1>6. EmptyQueue.head = 0 /\ EmptyQueue.tail = -1 /\ EmptyQueue.length = 0
  BY DEF EmptyQueue
<1>7. Ring(EmptyQueue, 0)
  BY <1>0, <1>6 DEF Ring
<1>8. OutInv
  <2>1. OutItems(0)
    BY <1>4, <1>7 DEF OutItems
  <2>2. OutWaiting(0)
    BY DEF OutWaiting
  <2>3. OutLength(0)
    BY <1>0, <1>4, <1>6 DEF OutLength
  <2> QED BY <1>4, <2>1, <2>2, <2>3 DEF OutInv
<1>9. ReaderInv
  BY DEF ReaderInv
<1>10. InInv
  <2>1. IsFiniteSet(pool) /\ Cardinality(pool) = PoolSize
    BY <1>0, FS_Interval DEF InBuffers
  <2>2. InReader = {} /\ Reading = 0
    BY DEF InReader, Leaving, Reading
  <2>3. InItems(0)
    BY <1>0, <1>7, <2>1, <2>2 DEF InItems
  <2>4. InLength(0) /\ InSlot
    BY <1>6 DEF InLength, InSlot
  <2> QED BY <2>3, <2>4 DEF InInv
<1> QED BY <1>2, <1>3, <1>5, <1>8, <1>9, <1>10 DEF IInv

-----------------------------------------------------------------------------
\* The reader leaves the senders, the driver and the card alone.
LEMMA ReaderKeeps ==
  ASSUME TypeOK, LockInv, DriverInv, OutInv,
         UNCHANGED <<outq, memory, sender, outLock, toFree, isr, hardware>>
  PROVE  LockInv' /\ DriverInv' /\ OutInv'
<1>1. Stage' = Stage
  BY DEF Stage
<1>2. Pending' = Pending /\ Pending \in 0..1
  BY <1>1 DEF Pending, hardware
<1>3. Pending' <= Pending /\ Pending' \in 0..1
  BY <1>2
<1>4. LockInv' /\ OutInv'
  BY <1>3, OutSame DEF hardware
<1>5. DriverInv'
  BY <1>1 DEF DriverInv, hardware
<1> QED BY <1>4, <1>5

\* The same buffers in the queue, in the pool and with the reader
LEMMA InShift ==
  ASSUME NEW m \in Nat, InItems(m), pool' = pool,
         inq'.elements = inq.elements, inq'.head = inq.head, inq'.tail = inq.tail,
         InReader' = InReader, Reading' = Reading, reader'.pc # "failed"
  PROVE  InItems(m)'
<1>1. \A i : Item(inq', i) = Item(inq, i)
  BY DEF Item
<1>2. Ring(inq', m)
  BY DEF InItems, Ring
<1> QED BY <1>1, <1>2 DEF InItems

\* poll() advances the head
LEMMA PollHeadKeeps ==
  ASSUME IInv, PollHead
  PROVE  IInv'
<1> USE DEF IInv
<1>0. /\ reader.pc = "wait" /\ inq.length # 0 /\ inq' = Advance(inq)
      /\ reader' = [reader EXCEPT !.pc = "load", !.slot = inq.head]
      /\ UNCHANGED <<pool, outq, memory, sender, outLock, toFree, isr, hardware>>
  BY DEF PollHead, Read
<1>1. LockInv' /\ DriverInv' /\ OutInv'
  BY <1>0, ReaderKeeps
<1>2. inq \in QueueType(InBuffers) /\ inq.length \in Nat /\ inq.head \in Slots /\ ((inq.head + 1) % Capacity) \in Slots
  <2>1. inq \in QueueType(InBuffers) /\ 1 \in 0..Capacity
    BY NetworkAssumption DEF TypeOK
  <2> QED BY <2>1, RingTurn DEF QueueType
<1>3. reader'.pc = "load" /\ reader'.slot = inq.head /\ inq'.length = inq.length /\ inq'.elements = inq.elements
      /\ inq' \in QueueType(InBuffers) /\ inq'.head = ((inq.head + 1) % Capacity)
  BY <1>0, <1>2 DEF TypeOK, Advance, QueueType
<1>4. TypeOK'
  BY <1>0, <1>2, <1>3 DEF TypeOK, hardware
<1>5. ReaderInv'
  BY <1>0, <1>2, <1>3 DEF ReaderInv
<1>6. ASSUME driver' = "Rtl8139"
      PROVE  InSlot' /\ \E m \in Nat : InItems(m)' /\ InLength(m)'
  <2>1. PICK m \in Nat : InItems(m) /\ InLength(m)
    BY <1>0, <1>6 DEF InInv, hardware
  <2>2. inq.length <= m /\ 0 < m /\ m - 1 \in Nat
    BY <1>0, <1>2, <2>1 DEF InLength
  <2>3. /\ Ring(inq', m - 1) /\ Item(inq, 0) = inq.elements[inq.head]
        /\ \A i \in 0..(m - 2) : Item(inq', i) = Item(inq, i + 1)
    BY <1>0, <1>2, <2>1, <2>2, AdvanceItem DEF InItems
  <2>4. InReader = {} /\ Reading = 0 /\ InReader' = {Item(inq, 0)} /\ Reading' = 1
    BY <1>0, <1>3, <2>3 DEF InReader, Leaving, Reading
  <2>5. InItems(m - 1)'
    <3>1. \A i \in 0..(m - 2) : Item(inq', i) \in InBuffers \ (pool' \cup InReader')
      BY <1>0, <2>1, <2>2, <2>3, <2>4 DEF InItems
    <3>2. \A i, j \in 0..(m - 2) : Item(inq', i) = Item(inq', j) => i = j
      <4> SUFFICES ASSUME NEW i \in 0..(m - 2), NEW j \in 0..(m - 2), Item(inq', i) = Item(inq', j)
                   PROVE  i = j
        OBVIOUS
      <4>1. Item(inq, i + 1) = Item(inq, j + 1) /\ i + 1 \in 0..(m - 1) /\ j + 1 \in 0..(m - 1)
        BY <2>2, <2>3
      <4>2. i + 1 = j + 1
        BY <2>1, <4>1 DEF InItems
      <4> QED BY <4>2
    <3>3. InReader' \subseteq InBuffers \ pool'
      BY <1>0, <2>1, <2>2, <2>4 DEF InItems
    <3>4. ASSUME NEW b \in InBuffers, b \notin pool', b \notin InReader'
          PROVE  b \in {Item(inq', i) : i \in 0..(m - 2)}
      <4>1. PICK i \in 0..(m - 1) : b = Item(inq, i)
        BY <1>0, <2>1, <2>4, <3>4 DEF InItems
      <4>2. i # 0 /\ i - 1 \in 0..(m - 2) /\ (i - 1) + 1 = i
        BY <2>2, <2>4, <3>4, <4>1
      <4>3. b = Item(inq', i - 1)
        BY <2>3, <4>1, <4>2
      <4> QED BY <4>2, <4>3
    <3>5. Cardinality(pool') + (m - 1) + Reading' = PoolSize
      <4>1. Cardinality(pool) + m + 0 = PoolSize /\ Cardinality(pool) \in Nat
        <5>1. IsFiniteSet(InBuffers) /\ pool \in SUBSET InBuffers
          BY FS_Interval, NetworkAssumption DEF InBuffers, TypeOK
        <5>2. Cardinality(pool) \in Nat
          BY <5>1, FS_Subset, FS_CardinalityType
        <5> QED BY <2>1, <2>4, <5>2 DEF InItems
      <4> QED BY <1>0, <2>4, <4>1
    <3>6. (m - 1) - 1 = m - 2
      BY <2>2
    <3> QED BY <1>3, <2>3, <3>1, <3>2, <3>3, <3>4, <3>5, <3>6 DEF InItems
  <2>6. InLength(m - 1)'
    BY <1>3, <2>2 DEF InLength
  <2>7. InSlot'
    BY <1>3 DEF InSlot
  <2> QED BY <2>2, <2>5, <2>6, <2>7
<1>7. InInv'
  BY <1>6 DEF InInv
<1> QED BY <1>1, <1>4, <1>5, <1>7

\* poll() loads the length ...
LEMMA PollLoadKeeps ==
  ASSUME IInv, PollLoad
  PROVE  IInv'
<1> USE DEF IInv
<1>0. /\ reader.pc = "load" /\ reader' = [reader EXCEPT !.pc = "store", !.length = inq.length]
      /\ UNCHANGED <<pool, inq, outq, memory, sender, outLock, toFree, isr, hardware>>
  BY DEF PollLoad, Read
<1>1. LockInv' /\ DriverInv' /\ OutInv'
  BY <1>0, ReaderKeeps
<1>2. inq.length \in Nat
  BY DEF TypeOK, QueueType
<1>3. reader'.pc = "store" /\ reader'.slot = reader.slot /\ reader'.length = inq.length
  BY <1>0 DEF TypeOK
<1>4. TypeOK'
  BY <1>0, <1>2, <1>3 DEF TypeOK, hardware
<1>5. ReaderInv'
  BY <1>0, <1>2, <1>3 DEF ReaderInv
<1>6. ASSUME driver' = "Rtl8139"
      PROVE  InSlot' /\ \E m \in Nat : InItems(m)' /\ InLength(m)'
  <2>1. PICK m \in Nat : InItems(m) /\ InLength(m)
    BY <1>0, <1>6 DEF InInv, hardware
  <2>2. InReader' = InReader /\ Reading' = Reading
    BY <1>0, <1>3 DEF InReader, Leaving, Reading
  <2>3. InItems(m)'
    BY <1>0, <1>3, <2>1, <2>2, InShift
  <2>4. InLength(m)'
    BY <1>0, <1>3, <2>1 DEF InLength
  <2>5. InSlot'
    BY <1>0, <1>3, <1>6 DEF InSlot, InInv, hardware
  <2> QED BY <2>3, <2>4, <2>5
<1>7. InInv'
  BY <1>6 DEF InInv
<1> QED BY <1>1, <1>4, <1>5, <1>7

\* ... and stores it decremented.
LEMMA PollStoreKeeps ==
  ASSUME IInv, PollStore
  PROVE  IInv'
<1> USE DEF IInv
<1>0. /\ reader.pc = "store" /\ reader' = [reader EXCEPT !.pc = "copy", !.length = 0]
      /\ inq' = [inq EXCEPT !.length = reader.length - 1]
      /\ UNCHANGED <<pool, outq, memory, sender, outLock, toFree, isr, hardware>>
  BY DEF PollStore, Read
<1>1. LockInv' /\ DriverInv' /\ OutInv'
  BY <1>0, ReaderKeeps
<1>2. reader.length \in Nat /\ reader.length - 1 \in Nat
  BY <1>0 DEF TypeOK, ReaderInv
<1>3. /\ reader'.pc = "copy" /\ reader'.slot = reader.slot /\ inq'.length = reader.length - 1
      /\ inq'.elements = inq.elements /\ inq'.head = inq.head /\ inq'.tail = inq.tail
      /\ inq' \in QueueType(InBuffers)
  BY <1>0, <1>2 DEF TypeOK, QueueType
<1>4. TypeOK'
  BY <1>0, <1>2, <1>3 DEF TypeOK, hardware
<1>5. ReaderInv'
  BY <1>3 DEF ReaderInv
<1>6. ASSUME driver' = "Rtl8139"
      PROVE  InSlot' /\ \E m \in Nat : InItems(m)' /\ InLength(m)'
  <2>1. PICK m \in Nat : InItems(m) /\ InLength(m)
    BY <1>0, <1>6 DEF InInv, hardware
  <2>2. InReader' = InReader /\ Reading' = Reading
    BY <1>0, <1>3 DEF InReader, Leaving, Reading
  <2>3. InItems(m)'
    BY <1>0, <1>3, <2>1, <2>2, InShift
  <2>4. InLength(m)'
    BY <1>0, <1>2, <1>3, <2>1 DEF InLength
  <2>5. InSlot'
    BY <1>0, <1>3, <1>6 DEF InSlot, InInv, hardware
  <2> QED BY <2>3, <2>4, <2>5
<1>7. InInv'
  BY <1>6 DEF InInv
<1> QED BY <1>1, <1>4, <1>5, <1>7

\* The reader copies the element.
LEMMA PollCopyKeeps ==
  ASSUME IInv, PollCopy
  PROVE  IInv'
<1> USE DEF IInv
<1>0. /\ reader.pc = "copy"
      /\ reader' = [reader EXCEPT !.pc = "process", !.slot = 0, !.buffer = inq.elements[reader.slot]]
      /\ UNCHANGED <<pool, inq, outq, memory, sender, outLock, toFree, isr, hardware>>
  BY DEF PollCopy, Read
<1>1. LockInv' /\ DriverInv' /\ OutInv'
  BY <1>0, ReaderKeeps
<1>2. inq.elements[reader.slot] \in InBuffers \cup {Garbage} /\ 0 \in Slots
  BY NetworkAssumption DEF TypeOK, QueueType, Slots
<1>3. reader'.pc = "process" /\ reader'.buffer = inq.elements[reader.slot]
  BY <1>0 DEF TypeOK
<1>4. TypeOK'
  BY <1>0, <1>2, <1>3 DEF TypeOK, hardware
<1>5. ReaderInv'
  BY <1>3 DEF ReaderInv
<1>6. ASSUME driver' = "Rtl8139"
      PROVE  InSlot' /\ \E m \in Nat : InItems(m)' /\ InLength(m)'
  <2>1. PICK m \in Nat : InItems(m) /\ InLength(m)
    BY <1>0, <1>6 DEF InInv, hardware
  <2>2. InReader' = InReader /\ Reading' = Reading
    BY <1>0, <1>3 DEF InReader, Leaving, Reading
  <2>3. InItems(m)'
    BY <1>0, <1>3, <2>1, <2>2, InShift
  <2>4. InLength(m)'
    BY <1>0, <1>3, <2>1 DEF InLength
  <2>5. InSlot'
    BY <1>3 DEF InSlot
  <2> QED BY <2>3, <2>4, <2>5
<1>7. InInv'
  BY <1>6 DEF InInv
<1> QED BY <1>1, <1>4, <1>5, <1>7

\* The pool is finite.
LEMMA PoolFinite ==
  ASSUME TypeOK
  PROVE  /\ IsFiniteSet(pool) /\ Cardinality(pool) \in Nat
         /\ pool # {} => Cardinality(pool) > 0
         /\ PoolSize \in Nat /\ Capacity \in Nat /\ 0 < Capacity /\ PoolSize < Capacity
<1>1. PoolSize \in Nat /\ Capacity \in Nat /\ 0 < Capacity /\ PoolSize < Capacity
  BY NetworkAssumption
<1>2. IsFiniteSet(InBuffers) /\ pool \in SUBSET InBuffers
  BY <1>1, FS_Interval DEF InBuffers, TypeOK
<1>3. IsFiniteSet(pool)
  BY <1>2, FS_Subset
<1>4. Cardinality(pool) \in Nat /\ (Cardinality(pool) = 0 <=> pool = {})
  BY <1>3, FS_CardinalityType, FS_EmptySet
<1> QED BY <1>1, <1>3, <1>4

\* freePacketBuffer() gets a buffer of the pool, and one that is not free.
LEMMA FreePacketBufferKeeps ==
  ASSUME IInv, FreePacketBuffer
  PROVE  IInv'
<1> USE DEF IInv
<1>0. /\ reader.pc = "process"
      /\ UNCHANGED <<inq, outq, memory, sender, outLock, toFree, isr, hardware>>
  BY DEF FreePacketBuffer, Read
<1>1. LockInv' /\ DriverInv' /\ OutInv'
  BY <1>0, ReaderKeeps
<1>2. CASE reader.buffer \in InBuffers
  <2>1. pool' = pool \cup {reader.buffer} /\ reader' = [reader EXCEPT !.pc = "wait", !.buffer = Garbage]
    BY <1>2 DEF FreePacketBuffer
  <2>2. reader'.pc = "wait"
    BY <2>1 DEF TypeOK
  <2>3. TypeOK'
    BY <1>0, <1>2, <2>1 DEF TypeOK, hardware
  <2>4. ReaderInv'
    BY <2>2 DEF ReaderInv
  <2>5. ASSUME driver' = "Rtl8139"
        PROVE  InSlot' /\ \E m \in Nat : InItems(m)' /\ InLength(m)'
    <3>1. PICK m \in Nat : InItems(m) /\ InLength(m)
      BY <1>0, <2>5 DEF InInv, hardware
    <3>2. InReader = {reader.buffer} /\ Reading = 1 /\ InReader' = {} /\ Reading' = 0
      BY <1>0, <2>2 DEF InReader, Leaving, Reading
    <3>3. \A i : Item(inq', i) = Item(inq, i)
      BY <1>0 DEF Item
    <3>4. Cardinality(pool') + m + Reading' = PoolSize
      <4>1. reader.buffer \notin pool
        BY <3>1, <3>2 DEF InItems
      <4>2. Cardinality(pool') = Cardinality(pool) + 1
        BY <2>1, <4>1, PoolFinite, FS_AddElement
      <4>3. Cardinality(pool) + m + 1 = PoolSize
        BY <3>1, <3>2 DEF InItems
      <4> QED BY <3>2, <4>2, <4>3, PoolFinite
    <3>5. Ring(inq', m)
      BY <1>0, <3>1 DEF InItems
    <3>6. InItems(m)'
      BY <2>1, <2>2, <3>1, <3>2, <3>3, <3>4, <3>5 DEF InItems
    <3>7. InLength(m)'
      BY <1>0, <2>2, <3>1 DEF InLength
    <3>8. InSlot'
      BY <2>2 DEF InSlot
    <3> QED BY <3>6, <3>7, <3>8
  <2>6. InInv'
    BY <2>5 DEF InInv
  <2> QED BY <1>1, <2>3, <2>4, <2>6
<1>3. CASE reader.buffer \notin InBuffers
  <2>1. reader' = [reader EXCEPT !.pc = "failed"] /\ pool' = pool
    BY <1>3 DEF FreePacketBuffer, ReaderStep
  <2>2. TypeOK'
    BY <1>0, <2>1 DEF TypeOK, hardware
  <2>3. ReaderInv'
    BY <2>1 DEF ReaderInv, TypeOK
  <2>4. driver # "Rtl8139"
    BY <1>0, <1>3 DEF InInv, InItems, InReader
  <2>5. InInv'
    BY <1>0, <2>4 DEF InInv, hardware
  <2> QED BY <1>1, <2>2, <2>3, <2>5
<1> QED BY <1>2, <1>3

-----------------------------------------------------------------------------
\* handleIncomingPacket(): the pool has fewer buffers than the queue has
\* slots, so that the element the reader is about to copy stays.
LEMMA ReceiveKeeps ==
  ASSUME IInv, Receive
  PROVE  IInv'
<1> USE DEF IInv
<1>0. /\ isr = "receive" /\ arrived > 0 /\ arrived' = arrived - 1
      /\ UNCHANGED <<outq, memory, reader, sender, outLock, toFree, isr, driver, card, status>>
  BY DEF Receive, threads
<1>1. LockInv' /\ DriverInv' /\ OutInv'
  <2>1. Stage' = Stage
    BY <1>0 DEF Stage
  <2>2. Pending' = Pending /\ Pending \in 0..1
    BY <1>0, <2>1 DEF Pending
  <2>3. Pending' <= Pending /\ Pending' \in 0..1
    BY <2>2
  <2>4. LockInv' /\ OutInv'
    BY <1>0, <2>3, OutSame
  <2>5. DriverInv'
    BY <1>0, <2>1 DEF DriverInv
  <2> QED BY <2>4, <2>5
<1>2. arrived' \in 0..MaxArrived
  BY <1>0, NetworkAssumption DEF TypeOK
<1>3. CASE UNCHANGED <<pool, inq>>
  <2>1. TypeOK'
    BY <1>0, <1>2, <1>3 DEF TypeOK
  <2>2. InInv' /\ ReaderInv'
    BY <1>0, <1>3, InSame
  <2> QED BY <1>1, <2>1, <2>2
<1>4. CASE pool # {} /\ inq.length # Capacity /\ pool' = pool \ {FirstFree} /\ inq' = Offered(inq, FirstFree)
  <2> DEFINE b == FirstFree
             r == Put(inq, b)
  <2>1. b \in pool /\ b \in InBuffers
    BY <1>4, FirstFreeIsFree DEF TypeOK
  <2>2. inq \in QueueType(InBuffers) /\ inq.length \in Nat
    BY DEF TypeOK, QueueType
  <2>3. r \in QueueType(InBuffers) /\ r.length = inq.length
    <3>1. ((inq.tail + 1) % Capacity) \in Slots
      BY <2>2, RingTurn
    <3> QED BY <2>1, <2>2, <3>1 DEF Put, QueueType
  <2>4. pool' = pool \ {b} /\ inq' = [r EXCEPT !.length = @ + 1]
    BY <1>4 DEF Offered
  <2> HIDE DEF b, r
  <2>5. /\ inq' \in QueueType(InBuffers) /\ inq'.length = inq.length + 1
        /\ inq'.elements = r.elements /\ inq'.head = r.head /\ inq'.tail = r.tail
    BY <2>2, <2>3, <2>4 DEF QueueType
  <2>6. TypeOK'
    BY <1>0, <1>2, <2>4, <2>5 DEF TypeOK
  <2>7. ReaderInv'
    BY <1>0, <2>2, <2>5 DEF ReaderInv
  <2>8. ASSUME driver' = "Rtl8139"
        PROVE  InSlot' /\ \E m \in Nat : InItems(m)' /\ InLength(m)'
    <3>1. PICK m \in Nat : InItems(m) /\ InLength(m)
      BY <1>0, <2>8 DEF InInv
    <3>2. Cardinality(pool) + m + Reading = PoolSize /\ Reading \in 0..1
      BY <3>1 DEF InItems, Reading
    <3>3. m + Reading < Capacity - 1 /\ m < Capacity
      BY <1>4, <3>2, PoolFinite
    <3>4. /\ Ring(r, m + 1) /\ r.head = inq.head
          /\ \A i \in 0..m : Item(r, i) = IF i = m THEN b ELSE Item(inq, i)
          /\ \A k \in Slots : k # Turn(inq.head, m) => r.elements[k] = inq.elements[k]
      BY <2>1, <2>2, <3>1, <3>3, PutItem DEF InItems, r
    <3>5. Ring(inq', m + 1)
      BY <2>5, <3>4 DEF Ring
    <3>6. \A i \in 0..m : Item(inq', i) = IF i = m THEN b ELSE Item(inq, i)
      <4>1. \A i : Item(inq', i) = Item(r, i)
        BY <2>5 DEF Item
      <4> QED BY <3>4, <4>1
    <3>7. reader.pc \in {"load", "store", "copy"} => inq'.elements[reader.slot] = inq.elements[reader.slot]
      <4> SUFFICES ASSUME reader.pc \in {"load", "store", "copy"}
                   PROVE  inq'.elements[reader.slot] = inq.elements[reader.slot]
        OBVIOUS
      <4>1. Reading = 1 /\ m < Capacity - 2
        BY <3>1, <3>3, PoolFinite DEF Reading
      <4>2. reader.slot \in Slots /\ ((reader.slot + 1) % Capacity) = inq.head
        BY <1>0, <2>8 DEF TypeOK, InInv, InSlot
      <4>3. inq.head = Turn(reader.slot, 1)
        BY <4>2, PoolFinite, Remainder DEF Turn, Slots
      <4>4. reader.slot # Turn(inq.head, m)
        BY <3>1, <4>1, <4>2, <4>3, PoolFinite DEF Turn, Slots
      <4> QED BY <2>5, <3>4, <4>2, <4>4
    <3>8. InReader' = InReader /\ Reading' = Reading
      BY <1>0, <3>7 DEF InReader, Leaving, Reading
    <3>9. InItems(m + 1)'
      <4>1. \A i \in 0..m : Item(inq', i) \in InBuffers \ (pool' \cup InReader')
        BY <2>1, <2>4, <3>1, <3>6, <3>8 DEF InItems
      <4>2. \A i, j \in 0..m : Item(inq', i) = Item(inq', j) => i = j
        <5>1. \A i \in 0..m : i = m \/ i \in 0..(m - 1)
          BY <3>1
        <5>2. \A i \in 0..(m - 1) : Item(inq, i) # b /\ i \in 0..m /\ i # m
          BY <2>1, <3>1 DEF InItems
        <5>3. \A i, j \in 0..(m - 1) : Item(inq, i) = Item(inq, j) => i = j
          BY <3>1 DEF InItems
        <5> QED BY <3>6, <5>1, <5>2, <5>3
      <4>3. InReader' \subseteq InBuffers \ pool'
        BY <2>4, <3>1, <3>8 DEF InItems
      <4>4. ASSUME NEW c \in InBuffers, c \notin pool', c \notin InReader'
            PROVE  c \in {Item(inq', i) : i \in 0..m}
        <5>1. CASE c = b
          <6>1. c = Item(inq', m) /\ m \in 0..m
            BY <3>1, <3>6, <5>1
          <6> QED BY <6>1
        <5>2. CASE c # b
          <6>1. PICK i \in 0..(m - 1) : c = Item(inq, i)
            BY <2>4, <3>1, <3>8, <4>4, <5>2 DEF InItems
          <6>2. c = Item(inq', i) /\ i \in 0..m
            BY <3>1, <3>6, <6>1
          <6> QED BY <6>2
        <5> QED BY <5>1, <5>2
      <4>5. Cardinality(pool') + (m + 1) + Reading' = PoolSize
        <5>1. Cardinality(pool') = Cardinality(pool) - 1
          BY <2>1, <2>4, PoolFinite, FS_RemoveElement
        <5> QED BY <3>1, <3>2, <3>8, <5>1, PoolFinite
      <4>6. (m + 1) - 1 = m
        BY <3>1
      <4>7. reader'.pc # "failed"
        BY <1>0, <3>1 DEF InItems
      <4> QED BY <3>5, <4>1, <4>2, <4>3, <4>4, <4>5, <4>6, <4>7 DEF InItems
    <3>10. InLength(m + 1)'
      BY <1>0, <2>2, <2>5, <3>1 DEF InLength, TypeOK
    <3>11. InSlot'
      BY <1>0, <2>5, <2>8, <3>4 DEF InSlot, InInv
    <3> QED BY <3>1, <3>9, <3>10, <3>11
  <2>9. InInv'
    BY <2>8 DEF InInv
  <2> QED BY <1>1, <2>6, <2>7, <2>9
<1> QED BY <1>3, <1>4 DEF Receive

-----------------------------------------------------------------------------
\* The steps of the handler and of the card that only concern the status
LEMMA StatusKeeps ==
  ASSUME IInv, Trigger \/ ReceiveLast \/ ReceiveEnd \/ SentEnd \/ Arrive
  PROVE  IInv'
<1> USE DEF IInv
<1>0. UNCHANGED <<pool, inq, outq, memory, reader, sender, outLock, toFree, driver, card>>
  BY DEF Trigger, ReceiveLast, ReceiveEnd, SentEnd, Arrive, threads, hardware
<1>1. Stage' = Stage
  BY <1>0 DEF Stage
<1>2. TypeOK'
  <2>1. isr' \in {"none", "receive", "clear", "sent", "poll", "end"}
    BY DEF TypeOK, Trigger, ReceiveLast, ReceiveEnd, SentEnd, Arrive
  <2>2. status' \subseteq {"RECEIVE_OK", "TRANSMIT_OK", "TRANSMIT_ERROR"}
    BY DEF TypeOK, Trigger, ReceiveLast, ReceiveEnd, SentEnd, Arrive, hardware
  <2>3. arrived' \in 0..MaxArrived
    BY NetworkAssumption DEF TypeOK, Trigger, ReceiveLast, ReceiveEnd, SentEnd, Arrive, hardware
  <2> QED BY <1>0, <2>1, <2>2, <2>3 DEF TypeOK
<1>3. driver # "Loopback"
  BY DEF DriverInv, Trigger, ReceiveLast, ReceiveEnd, SentEnd, Arrive
<1>4. Stage \notin {"allocate", "offer", "inLoad", "inStore", "free", "poll"}
  BY <1>3 DEF DriverInv
<1>5. Pending' \in 0..1 /\ Pending' <= Pending
  <2>1. Pending' = 1 => "TRANSMIT_OK" \in status' /\ isr' \notin {"poll", "end"}
    BY <1>1, <1>4 DEF Pending
  <2>2. ("TRANSMIT_OK" \in status' /\ isr' \notin {"poll", "end"}) => "TRANSMIT_OK" \in status /\ isr \notin {"poll", "end"}
    BY DEF Trigger, ReceiveLast, ReceiveEnd, SentEnd, Arrive, hardware
  <2>3. "TRANSMIT_OK" \in status /\ isr \notin {"poll", "end"} => Pending = 1
    BY DEF Pending
  <2>4. Pending' \in 0..1 /\ Pending \in 0..1
    BY DEF Pending
  <2>5. Pending' = 0 \/ Pending = 1
    BY <2>1, <2>2, <2>3, <2>4
  <2> QED BY <2>4, <2>5
<1>6. LockInv' /\ OutInv'
  BY <1>0, <1>5, OutSame
<1>7. DriverInv'
  <2>1. isr' = "sent" => "TRANSMIT_OK" \in status'
    BY DEF DriverInv, Trigger, ReceiveLast, ReceiveEnd, SentEnd, Arrive, hardware
  <2>2. isr' = "poll" => isr = "poll"
    BY DEF Trigger, ReceiveLast, ReceiveEnd, SentEnd, Arrive
  <2> QED BY <1>0, <1>1, <1>3, <2>1, <2>2 DEF DriverInv
<1>8. InInv' /\ ReaderInv'
  BY <1>0, InSame
<1> QED BY <1>2, <1>6, <1>7, <1>8

\* The card has sent its oldest buffer, or has failed to.
LEMMA CompleteKeeps ==
  ASSUME IInv, NEW result \in {"TRANSMIT_OK", "TRANSMIT_ERROR"}, Complete(result)
  PROVE  IInv'
<1> USE DEF IInv
<1>0. /\ card # <<>> /\ card' = Tail(card) /\ status' = status \cup {result}
      /\ UNCHANGED <<pool, inq, outq, memory, reader, sender, outLock, toFree, isr, driver, arrived>>
  BY DEF Complete, threads
<1>1. Stage' = Stage
  BY <1>0 DEF Stage
<1>2. card \in Seq(OutBuffers) /\ Len(card) \in Nat /\ Len(card) > 0
  BY <1>0 DEF TypeOK
<1>3. /\ card' \in Seq(OutBuffers) /\ Len(card') = Len(card) - 1
      /\ \A i \in 1..Len(card') : card'[i] = card[i + 1] /\ i + 1 \in 1..Len(card)
  BY <1>0, <1>2
<1>4. TypeOK'
  BY <1>0, <1>3 DEF TypeOK
<1>5. LockInv'
  BY <1>0 DEF LockInv
<1>6. driver # "Loopback"
  BY <1>0 DEF DriverInv
<1>7. DriverInv'
  BY <1>0, <1>1, <1>6 DEF DriverInv
<1>8. Own' = Own /\ Own \in 0..1 /\ Pending' \in 0..1 /\ Pending \in 0..1
  BY <1>1 DEF Own, Pending
<1>9. PICK n \in Nat : OutItems(n) /\ OutWaiting(n) /\ OutLength(n) /\ toFree + Pending <= n
  BY DEF OutInv
<1>10. OutCount(n + 1)' = OutCount(n)
  BY <1>2, <1>3, <1>8 DEF OutCount
<1>11. OutItems(n + 1)' /\ OutWaiting(n + 1)'
  <2>1. ASSUME NEW i \in 1..Len(card')
        PROVE  Item(outq, (n + 1) + i - 1) = card'[i]
    <3>1. Item(outq, n + (i + 1) - 1) = card[i + 1]
      BY <1>3, <1>9 DEF OutItems
    <3>2. (n + 1) + i - 1 = n + (i + 1) - 1
      BY <1>3
    <3> QED BY <1>3, <3>1, <3>2
  <2>2. Own' = 1 => Item(outq, OutCount(n) - 1) = sender'[outLock'].buffer
    BY <1>0, <1>8, <1>9 DEF OutItems
  <2>3. n + 1 \in Nat
    BY <1>9
  <2>4. \A s \in Senders : sender'[s].pc \in {"lock", "add"} =>
          sender[s].pc \in {"lock", "add"} /\ sender'[s].buffer = sender[s].buffer
    BY <1>0
  <2> QED BY <1>0, <1>9, <1>10, <2>1, <2>2, <2>3, <2>4, OutShift
<1>12. OutLength(n + 1)'
  BY <1>0, <1>1, <1>9, <1>10 DEF OutLength
<1>13. toFree' + Pending' <= n + 1
  <2>1. toFree \in Nat /\ toFree' = toFree /\ toFree <= n
    BY <1>0, <1>8, <1>9 DEF TypeOK
  <2>2. CASE Pending' = 0
    BY <1>9, <2>1, <2>2
  <2>3. CASE Pending' = 1
    BY <1>9, <2>1, <2>3
  <2> QED BY <1>8, <2>2, <2>3
<1>14. OutInv'
  <2>1. n + 1 \in Nat
    BY <1>9
  <2> QED BY <1>11, <1>12, <1>13, <2>1 DEF OutInv
<1>15. InInv' /\ ReaderInv'
  BY <1>0, InSame
<1> QED BY <1>4, <1>5, <1>7, <1>14, <1>15

-----------------------------------------------------------------------------
\* The loop of freeLastSendBuffer() deletes a buffer that is sent.
LEMMA DeleteKeeps ==
  ASSUME IInv, DeleteOldest, toFree > 0, card' = card, outLock' = outLock, Pending' = 0,
         Own' = Own, Stage' = Stage \/ {Stage, Stage'} \subseteq {"poll", "unlock"},
         \A s \in Senders : sender'[s].buffer = sender[s].buffer /\ sender'[s].length = sender[s].length,
         \A s \in Senders : sender'[s].pc \in {"lock", "add"} => sender[s].pc \in {"lock", "add"}
  PROVE  /\ OutInv' /\ memory' \subseteq OutBuffers /\ toFree' \in Nat /\ toFree' = toFree - 1
         /\ outq' \in QueueType(OutBuffers)
<1> USE DEF IInv
<1>0. /\ outq.length > 0 /\ memory' = memory \cup {outq.elements[outq.head]}
      /\ outq' = Polled(outq) /\ toFree' = toFree - 1
  BY DEF DeleteOldest
<1>1. toFree \in Nat /\ toFree - 1 \in Nat /\ outq.length \in Nat /\ outq \in QueueType(OutBuffers) /\ memory \subseteq OutBuffers
  BY DEF TypeOK, QueueType
<1>2. PICK n \in Nat : OutItems(n) /\ OutWaiting(n) /\ OutLength(n) /\ toFree + Pending <= n
  BY DEF OutInv
<1>3. n > 0 /\ n - 1 \in Nat /\ toFree <= n
  <2>1. Pending \in 0..1
    BY DEF Pending
  <2>2. toFree + Pending <= n
    BY <1>2
  <2>3. toFree <= n
    BY <1>1, <2>1, <2>2
  <2> QED BY <1>1, <2>3
<1> DEFINE N == OutCount(n)
           r == Advance(outq)
<1>4. N \in Nat /\ N >= 1 /\ n + Len(card) <= N /\ Len(card) \in Nat /\ Own \in 0..1
  <2>1. N \in Nat /\ n + Len(card) <= N /\ Len(card) \in Nat /\ Own \in 0..1
    BY <1>2, StageOf
  <2> QED BY <1>3, <2>1
<1>5. OutCount(n - 1)' = N - 1
  BY <1>3, <1>4 DEF OutCount
<1>6. Ring(outq, N) /\ N <= Capacity /\ Capacity \in Nat
  BY <1>2, NetworkAssumption DEF OutItems, Ring
<1> HIDE DEF N
<1>7. /\ r \in QueueType(OutBuffers) /\ r.length = outq.length /\ Ring(r, N - 1)
      /\ \A i \in 0..(N - 2) : Item(r, i) = Item(outq, i + 1)
      /\ Item(outq, 0) = outq.elements[outq.head]
  <2>1. N \in Nat /\ 0 < N
    BY <1>4
  <2> QED BY <1>1, <1>6, <2>1, AdvanceItem
<1>8. outq' = [r EXCEPT !.length = @ - 1]
  BY <1>0 DEF Polled
<1> HIDE DEF r
<1>9. /\ outq' \in QueueType(OutBuffers) /\ outq'.length = outq.length - 1
      /\ outq'.elements = r.elements /\ outq'.head = r.head /\ outq'.tail = r.tail
  BY <1>0, <1>1, <1>7, <1>8 DEF QueueType
<1>10. Ring(outq', N - 1) /\ \A i : Item(outq', i) = Item(r, i)
  BY <1>7, <1>9 DEF Ring, Item
<1>11. \A i \in 0..(N - 2) : Item(outq', i) = Item(outq, i + 1) /\ i + 1 \in 0..(N - 1)
  BY <1>4, <1>7, <1>10
<1>12. memory' = memory \cup {Item(outq, 0)} /\ Item(outq, 0) \in OutBuffers \ memory /\ 0 \in 0..(N - 1)
  BY <1>0, <1>2, <1>4, <1>7 DEF OutItems, N
<1>13. OutItems(n - 1)'
  <2>1. ASSUME NEW i \in 0..(N - 2) PROVE Item(outq', i) \in OutBuffers \ memory'
    <3>1. Item(outq, i + 1) \in OutBuffers \ memory /\ Item(outq, i + 1) # Item(outq, 0)
      <4>1. i + 1 \in 0..(N - 1) /\ i + 1 # 0
        BY <1>4
      <4> QED BY <1>2, <1>12, <4>1 DEF OutItems, N
    <3> QED BY <1>11, <1>12, <3>1
  <2>2. ASSUME NEW i \in 0..(N - 2), NEW j \in 0..(N - 2), Item(outq', i) = Item(outq', j) PROVE i = j
    <3>1. i + 1 = j + 1
      BY <1>2, <1>11, <2>2 DEF OutItems, N
    <3> QED BY <3>1
  <2>3. ASSUME NEW i \in 1..Len(card') PROVE Item(outq', (n - 1) + i - 1) = card'[i]
    <3>1. (n - 1) + i - 1 \in 0..(N - 2) /\ ((n - 1) + i - 1) + 1 = n + i - 1
      BY <1>3, <1>4
    <3>2. Item(outq, n + i - 1) = card[i]
      BY <1>2 DEF OutItems
    <3> QED BY <1>11, <3>1, <3>2
  <2>4. Own' = 1 => Item(outq', (N - 1) - 1) = sender'[outLock'].buffer
    <3> SUFFICES ASSUME Own' = 1 PROVE Item(outq', (N - 1) - 1) = sender'[outLock'].buffer
      OBVIOUS
    <3>1. N >= 2
      BY <1>3, <1>4 DEF N, OutCount
    <3>2. (N - 1) - 1 \in 0..(N - 2) /\ ((N - 1) - 1) + 1 = N - 1
      BY <1>4, <3>1
    <3>3. Item(outq, N - 1) = sender[outLock].buffer
      BY <1>2 DEF OutItems, N
    <3>4. outLock \in Senders
      BY StageOf DEF Own, Stage, TypeOK
    <3> QED BY <1>11, <3>2, <3>3, <3>4
  <2>5. (N - 1) - 1 = N - 2
    BY <1>4
  <2> QED BY <1>5, <1>10, <2>1, <2>2, <2>3, <2>4, <2>5 DEF OutItems
<1>14. OutWaiting(n - 1)'
  <2> SUFFICES ASSUME NEW s \in Senders, sender'[s].pc \in {"lock", "add"}
               PROVE  /\ sender'[s].buffer \in OutBuffers \ memory'
                      /\ \A i \in 0..(OutCount(n - 1)' - 1) : Item(outq', i) # sender'[s].buffer
                      /\ \A t \in Senders : sender'[t].pc \in {"lock", "add"} /\ sender'[t].buffer = sender'[s].buffer => t = s
    BY DEF OutWaiting
  <2>1. sender[s].pc \in {"lock", "add"} /\ sender'[s].buffer = sender[s].buffer
    OBVIOUS
  <2>2. sender[s].buffer \in OutBuffers \ memory /\ \A i \in 0..(N - 1) : Item(outq, i) # sender[s].buffer
    BY <1>2, <2>1 DEF OutWaiting, N
  <2>3. (N - 1) - 1 = N - 2
    BY <1>4
  <2>4. \A i \in 0..(OutCount(n - 1)' - 1) : Item(outq', i) # sender'[s].buffer
    BY <1>5, <1>11, <2>1, <2>2, <2>3
  <2>5. \A t \in Senders : sender'[t].pc \in {"lock", "add"} /\ sender'[t].buffer = sender'[s].buffer => t = s
    BY <1>2, <2>1 DEF OutWaiting
  <2> QED BY <1>12, <2>1, <2>2, <2>4, <2>5
<1>15. OutLength(n - 1)'
  <2>1. outLock \in Senders \/ Stage = "none"
    BY DEF Stage, TypeOK
  <2>2. Stage = "store" => sender[outLock].length \in Nat /\ sender'[outLock'].length = sender[outLock].length
    BY <2>1 DEF TypeOK
  <2>3. /\ Stage \in {"load", "store"} => N <= outq.length + 1 /\ outq.length < Capacity
        /\ Stage = "store" => N <= sender[outLock].length + 1 /\ sender[outLock].length < Capacity
        /\ Stage \notin {"load", "store"} => N <= outq.length /\ outq.length <= Capacity
    BY <1>2 DEF OutLength, N
  <2>4. Stage' \in {"load", "store"} => Stage' = Stage
    OBVIOUS
  <2>5. Stage' \notin {"load", "store"} => Stage \notin {"load", "store"}
    OBVIOUS
  <2>6. Stage' \in {"load", "store"} => N - 1 <= outq'.length + 1 /\ outq'.length < Capacity
    BY <1>1, <1>4, <1>6, <1>9, <2>3, <2>4
  <2>7. Stage' = "store" => N - 1 <= sender'[outLock'].length + 1 /\ sender'[outLock'].length < Capacity
    BY <1>1, <1>4, <1>6, <2>2, <2>3, <2>4
  <2>8. Stage' \notin {"load", "store"} => N - 1 <= outq'.length /\ outq'.length <= Capacity
    BY <1>1, <1>4, <1>6, <1>9, <2>3, <2>5
  <2> QED BY <1>5, <2>6, <2>7, <2>8 DEF OutLength
<1>16. toFree' + Pending' <= n - 1
  BY <1>0, <1>1, <1>3
<1>17. OutInv'
  BY <1>3, <1>13, <1>14, <1>15, <1>16 DEF OutInv
<1> QED BY <1>0, <1>1, <1>9, <1>12, <1>17

\* freeLastSendBuffer() counts the buffer that is sent.
LEMMA SentBeginKeeps ==
  ASSUME IInv, SentBegin
  PROVE  IInv'
<1> USE DEF IInv
<1>0. /\ isr = "sent" /\ isr' \in {"end", "poll"} /\ toFree' = toFree + 1
      /\ UNCHANGED <<pool, inq, outq, memory, reader, sender, outLock, driver, card, arrived, status>>
  BY DEF SentBegin, threads, hardware
<1>1. Stage' = Stage /\ toFree \in Nat
  BY <1>0 DEF Stage, TypeOK
<1>2. TypeOK'
  BY <1>0, <1>1 DEF TypeOK
<1>3. LockInv'
  BY <1>0 DEF LockInv
<1>4. driver # "Loopback" /\ "TRANSMIT_OK" \in status
      /\ Stage \notin {"allocate", "offer", "inLoad", "inStore", "free", "poll"}
  BY <1>0 DEF DriverInv
<1>5. DriverInv'
  BY <1>0, <1>1, <1>4 DEF DriverInv
<1>6. Pending = 1 /\ Pending' = 0 /\ Own' = Own
  BY <1>0, <1>1, <1>4 DEF Pending, Own
<1>7. PICK n \in Nat : OutItems(n) /\ OutWaiting(n) /\ OutLength(n) /\ toFree + Pending <= n
  BY DEF OutInv
<1>8. OutCount(n)' = OutCount(n)
  BY <1>0, <1>6 DEF OutCount
<1>9. OutItems(n)' /\ OutWaiting(n)'
  BY <1>0, <1>6, <1>7, <1>8, OutShift DEF OutItems
<1>10. OutLength(n)'
  BY <1>0, <1>1, <1>7, <1>8 DEF OutLength
<1>11. toFree' + Pending' <= n
  BY <1>0, <1>1, <1>6, <1>7
<1>12. OutInv'
  BY <1>7, <1>9, <1>10, <1>11 DEF OutInv
<1>13. InInv' /\ ReaderInv'
  BY <1>0, InSame
<1> QED BY <1>2, <1>3, <1>5, <1>12, <1>13

\* The handler deletes a buffer.
LEMMA SentPollKeeps ==
  ASSUME IInv, SentPoll
  PROVE  IInv'
<1> USE DEF IInv
<1>0. /\ isr = "poll" /\ DeleteOldest /\ isr' = IF toFree = 1 THEN "end" ELSE "poll"
      /\ UNCHANGED <<pool, inq, reader, sender, outLock, driver, card, arrived, status>>
  BY DEF SentPoll, threads, hardware
<1>1. Stage' = Stage /\ toFree \in Nat /\ toFree > 0
  BY <1>0 DEF Stage, TypeOK, DriverInv
<1>2. driver # "Loopback" /\ Stage \notin {"allocate", "offer", "inLoad", "inStore", "free", "poll"}
  BY <1>0 DEF DriverInv
<1>3. Pending' = 0 /\ Own' = Own
  BY <1>0, <1>1, <1>2 DEF Pending, Own
<1>4. /\ OutInv' /\ memory' \subseteq OutBuffers /\ toFree' \in Nat /\ toFree' = toFree - 1
      /\ outq' \in QueueType(OutBuffers)
  BY <1>0, <1>1, <1>3, DeleteKeeps
<1>5. TypeOK'
  BY <1>0, <1>4 DEF TypeOK
<1>6. LockInv'
  BY <1>0 DEF LockInv
<1>7. DriverInv'
  <2>1. isr' = "poll" => toFree' > 0
    BY <1>0, <1>1, <1>4
  <2> QED BY <1>0, <1>1, <1>2, <2>1 DEF DriverInv
<1>8. InInv' /\ ReaderInv'
  BY <1>0, InSame
<1> QED BY <1>4, <1>5, <1>6, <1>7, <1>8

-----------------------------------------------------------------------------
SenderRecords == [pc : {"idle", "lock", "add", "load", "store", "transmit", "allocate", "offer", "inLoad",
                        "inStore", "free", "poll", "unlock"},
                  buffer : OutBuffers \cup {Garbage}, length : Nat, packet : InBuffers \cup {Garbage}]

\* A step of the sender that holds the lock
LEMMA HolderStep ==
  ASSUME TypeOK, LockInv, NEW s \in Senders, sender[s].pc \notin {"idle", "lock"},
         outLock' = outLock, NEW x \in SenderRecords, sender' = [sender EXCEPT ![s] = x],
         x.pc \notin {"idle", "lock", "add"}
  PROVE  /\ LockInv' /\ outLock = s /\ Stage = sender[s].pc /\ Stage' = x.pc
         /\ sender' \in [Senders -> SenderRecords] /\ sender'[s] = x
         /\ \A t \in Senders : t # s => sender'[t] = sender[t] /\ sender[t].pc \in {"idle", "lock"}
         /\ \A t \in Senders : sender'[t].pc \in {"lock", "add"} =>
              sender[t].pc \in {"lock", "add"} /\ sender'[t].buffer = sender[t].buffer
<1>1. sender \in [Senders -> SenderRecords]
  BY DEF TypeOK, SenderRecords
<1>2. outLock = s /\ Stage = sender[s].pc /\ s # NoThread
  BY StageOf
<1>3. /\ sender' \in [Senders -> SenderRecords] /\ sender'[s] = x
      /\ \A t \in Senders : t # s => sender'[t] = sender[t]
  BY <1>1
<1>4. \A t \in Senders : t # s => sender[t].pc \in {"idle", "lock"}
  BY <1>2 DEF LockInv
<1>5. LockInv'
  BY <1>2, <1>3, <1>4 DEF LockInv
<1>6. Stage' = x.pc
  BY <1>2, <1>3 DEF Stage
<1> QED BY <1>2, <1>3, <1>4, <1>5, <1>6

\* sendPacket() gets memory for its buffer.
LEMMA SendBeginKeeps ==
  ASSUME IInv, NEW s \in Senders, SendBegin(s)
  PROVE  IInv'
<1> USE DEF IInv
<1>0. /\ sender[s].pc = "idle"
      /\ UNCHANGED <<pool, inq, outq, reader, outLock, toFree, isr, driver, card, arrived, status>>
  BY DEF SendBegin, Send, hardware
<1>1. PICK b \in memory : /\ memory' = memory \ {b}
                          /\ sender' = [sender EXCEPT ![s].pc = "lock", ![s].buffer = b]
  BY DEF SendBegin
<1>2. b \in OutBuffers /\ sender \in [Senders -> SenderRecords]
  BY <1>1 DEF TypeOK, SenderRecords
<1>3. /\ sender' \in [Senders -> SenderRecords] /\ sender'[s].pc = "lock" /\ sender'[s].buffer = b
      /\ \A t \in Senders : t # s => sender'[t] = sender[t]
  BY <1>1, <1>2 DEF SenderRecords
<1>4. TypeOK'
  BY <1>0, <1>1, <1>3 DEF TypeOK, SenderRecords
<1>5. outLock # s
  BY <1>0 DEF LockInv
<1>6. LockInv'
  BY <1>0, <1>3, <1>5 DEF LockInv
<1>7. outLock = NoThread \/ (outLock \in Senders /\ sender'[outLock'] = sender[outLock])
  BY <1>0, <1>3, <1>5 DEF TypeOK
<1>8. Stage' = Stage
  BY <1>0, <1>7 DEF Stage
<1>9. DriverInv'
  <2>1. \A t \in Senders : sender'[t].pc = "offer" => sender'[t].packet \in InBuffers
    BY <1>3 DEF DriverInv
  <2> QED BY <1>0, <1>8, <2>1 DEF DriverInv
<1>10. Own' = Own /\ Pending' = Pending
  BY <1>0, <1>8 DEF Own, Pending
<1>11. PICK n \in Nat : OutItems(n) /\ OutWaiting(n) /\ OutLength(n) /\ toFree + Pending <= n
  BY DEF OutInv
<1>12. OutCount(n)' = OutCount(n)
  BY <1>0, <1>10 DEF OutCount
<1>13. OutItems(n)'
  <2>1. Own = 1 => sender'[outLock'] = sender[outLock]
    BY <1>7 DEF Own, Stage
  <2> QED BY <1>0, <1>1, <1>10, <1>11, <1>12, <2>1 DEF OutItems
<1>14. OutWaiting(n)'
  <2>1. \A i \in 0..(OutCount(n) - 1) : Item(outq, i) # b
    BY <1>1, <1>11 DEF OutItems
  <2>2. \A t \in Senders : t # s /\ sender[t].pc \in {"lock", "add"} => sender[t].buffer # b
    BY <1>1, <1>11 DEF OutWaiting
  <2> QED BY <1>0, <1>1, <1>2, <1>3, <1>11, <1>12, <2>1, <2>2 DEF OutWaiting
<1>15. OutLength(n)'
  <2>1. Stage = "store" => sender'[outLock'] = sender[outLock]
    BY <1>7 DEF Stage
  <2> QED BY <1>0, <1>8, <1>11, <1>12, <2>1 DEF OutLength
<1>16. OutInv'
  BY <1>0, <1>10, <1>11, <1>13, <1>14, <1>15 DEF OutInv
<1>17. InInv' /\ ReaderInv'
  BY <1>0, InSame
<1> QED BY <1>4, <1>6, <1>9, <1>16, <1>17

\* It takes the lock.
LEMMA SendLockKeeps ==
  ASSUME IInv, NEW s \in Senders, SendLock(s)
  PROVE  IInv'
<1> USE DEF IInv
<1>0. /\ sender[s].pc = "lock" /\ outLock = NoThread /\ outLock' = s /\ sender' = [sender EXCEPT ![s].pc = "add"]
      /\ UNCHANGED <<pool, inq, outq, memory, reader, toFree, isr, driver, card, arrived, status>>
  BY DEF SendLock, Send, SenderStep, hardware
<1>1. sender \in [Senders -> SenderRecords] /\ s # NoThread
  BY NetworkAssumption DEF TypeOK, SenderRecords
<1>2. /\ sender' \in [Senders -> SenderRecords] /\ sender'[s].pc = "add" /\ sender'[s].buffer = sender[s].buffer
      /\ \A t \in Senders : t # s => sender'[t] = sender[t]
  BY <1>0, <1>1 DEF SenderRecords
<1>3. TypeOK'
  BY <1>0, <1>2 DEF TypeOK, SenderRecords
<1>4. LockInv'
  BY <1>0, <1>2, NetworkAssumption DEF LockInv
<1>5. Stage = "none" /\ Stage' = "add"
  BY <1>0, <1>1, <1>2 DEF Stage
<1>6. DriverInv'
  <2>1. \A t \in Senders : sender'[t].pc = "offer" => sender'[t].packet \in InBuffers
    BY <1>2 DEF DriverInv
  <2> QED BY <1>0, <1>5, <2>1 DEF DriverInv
<1>7. Own = 0 /\ Own' = 0 /\ Pending' = Pending
  BY <1>0, <1>5 DEF Own, Pending
<1>8. PICK n \in Nat : OutItems(n) /\ OutWaiting(n) /\ OutLength(n) /\ toFree + Pending <= n
  BY DEF OutInv
<1>9. OutCount(n)' = OutCount(n)
  BY <1>0, <1>7 DEF OutCount
<1>10. OutItems(n)' /\ OutWaiting(n)'
  <2>1. \A t \in Senders : sender'[t].pc \in {"lock", "add"} =>
          sender[t].pc \in {"lock", "add"} /\ sender'[t].buffer = sender[t].buffer
    BY <1>0, <1>2
  <2> QED BY <1>0, <1>7, <1>8, <1>9, <2>1, OutShift DEF OutItems
<1>11. OutLength(n)'
  BY <1>0, <1>5, <1>8, <1>9 DEF OutLength
<1>12. OutInv'
  BY <1>0, <1>7, <1>8, <1>10, <1>11 DEF OutInv
<1>13. InInv' /\ ReaderInv'
  BY <1>0, InSame
<1> QED BY <1>3, <1>4, <1>6, <1>12, <1>13

\* add() puts the buffer behind all others: the queue is not full, since its
\* length is not too small.
LEMMA SendPutKeeps ==
  ASSUME IInv, NEW s \in Senders, SendPut(s)
  PROVE  IInv'
<1> USE DEF IInv
<1> DEFINE b == sender[s].buffer
           x == [sender[s] EXCEPT !.pc = "load"]
<1>0. /\ sender[s].pc = "add" /\ outq.length # Capacity /\ outq' = Put(outq, b)
      /\ sender' = [sender EXCEPT ![s].pc = "load"]
      /\ UNCHANGED <<pool, inq, memory, reader, outLock, toFree, isr, driver, card, arrived, status>>
  BY DEF SendPut, Send, SenderStep, hardware
<1>1. sender[s] \in SenderRecords
  BY DEF TypeOK, SenderRecords
<1>2. x \in SenderRecords /\ x.pc = "load" /\ x.buffer = b /\ sender' = [sender EXCEPT ![s] = x]
  BY <1>0, <1>1 DEF SenderRecords
<1> HIDE DEF x, b
<1>3. /\ LockInv' /\ outLock = s /\ Stage = "add" /\ Stage' = "load"
      /\ sender' \in [Senders -> SenderRecords] /\ sender'[s] = x
      /\ \A t \in Senders : t # s => sender'[t] = sender[t] /\ sender[t].pc \in {"idle", "lock"}
      /\ \A t \in Senders : sender'[t].pc \in {"lock", "add"} =>
           sender[t].pc \in {"lock", "add"} /\ sender'[t].buffer = sender[t].buffer
  BY <1>0, <1>2, HolderStep
<1>4. PICK n \in Nat : OutItems(n) /\ OutWaiting(n) /\ OutLength(n) /\ toFree + Pending <= n
  BY DEF OutInv
<1> DEFINE N == OutCount(n)
<1>5. /\ N \in Nat /\ n + Len(card) <= N /\ Len(card) \in Nat /\ Own = 0 /\ Own' = 1
      /\ Pending' = Pending
  BY <1>0, <1>3, <1>4, StageOf DEF Own, Pending
<1>6. OutCount(n)' = N + 1
  BY <1>0, <1>4, <1>5 DEF OutCount
<1>7. N <= outq.length /\ outq.length < Capacity /\ outq.length \in Nat /\ Capacity \in Nat /\ N < Capacity
  <2>1. N <= outq.length /\ outq.length <= Capacity
    BY <1>3, <1>4 DEF OutLength
  <2>2. outq.length \in Nat /\ Capacity \in Nat
    BY NetworkAssumption DEF TypeOK, QueueType
  <2> QED BY <1>0, <1>5, <2>1, <2>2
<1>8. b \in OutBuffers \ memory /\ \A i \in 0..(N - 1) : Item(outq, i) # b
  BY <1>0, <1>4 DEF OutWaiting, b
<1>9. outq \in QueueType(OutBuffers) /\ Ring(outq, N)
  BY <1>4 DEF TypeOK, OutItems
<1> HIDE DEF N
<1>10. /\ outq' \in QueueType(OutBuffers) /\ outq'.length = outq.length /\ Ring(outq', N + 1)
       /\ \A i \in 0..N : Item(outq', i) = IF i = N THEN b ELSE Item(outq, i)
  BY <1>0, <1>5, <1>7, <1>8, <1>9, PutItem
<1>11. TypeOK'
  BY <1>0, <1>3, <1>10 DEF TypeOK, SenderRecords
<1>12. DriverInv'
  <2>1. \A t \in Senders : sender'[t].pc = "offer" => sender'[t].packet \in InBuffers
    BY <1>2, <1>3 DEF DriverInv
  <2> QED BY <1>0, <1>3, <2>1 DEF DriverInv
<1>13. OutItems(n)'
  <2>1. \A i \in 0..N : Item(outq', i) \in OutBuffers \ memory'
    BY <1>0, <1>4, <1>5, <1>8, <1>10 DEF OutItems, N
  <2>2. \A i, j \in 0..N : Item(outq', i) = Item(outq', j) => i = j
    <3>1. \A i \in 0..N : i = N \/ i \in 0..(N - 1)
      BY <1>5
    <3>2. \A i, j \in 0..(N - 1) : Item(outq, i) = Item(outq, j) => i = j
      BY <1>4 DEF OutItems, N
    <3> QED BY <1>5, <1>8, <1>10, <3>1, <3>2
  <2>3. ASSUME NEW i \in 1..Len(card') PROVE Item(outq', n + i - 1) = card'[i]
    <3>1. n + i - 1 \in 0..N /\ n + i - 1 # N /\ i \in 1..Len(card)
      BY <1>0, <1>4, <1>5
    <3>2. Item(outq, n + i - 1) = card[i]
      BY <1>4, <3>1 DEF OutItems
    <3> QED BY <1>0, <1>10, <3>1, <3>2
  <2>4. Item(outq', N) = sender'[outLock'].buffer
    <3>1. N \in 0..N
      BY <1>5
    <3>2. Item(outq', N) = b
      BY <1>10, <3>1
    <3> QED BY <1>0, <1>2, <1>3, <3>2
  <2>5. (N + 1) - 1 = N
    BY <1>5
  <2> QED BY <1>6, <1>10, <2>1, <2>2, <2>3, <2>4, <2>5 DEF OutItems
<1>14. OutWaiting(n)'
  <2> SUFFICES ASSUME NEW t \in Senders, sender'[t].pc \in {"lock", "add"}
               PROVE  /\ sender'[t].buffer \in OutBuffers \ memory'
                      /\ \A i \in 0..(OutCount(n)' - 1) : Item(outq', i) # sender'[t].buffer
                      /\ \A u \in Senders : sender'[u].pc \in {"lock", "add"} /\ sender'[u].buffer = sender'[t].buffer => u = t
    BY DEF OutWaiting
  <2>1. t # s /\ sender[t].pc \in {"lock", "add"} /\ sender'[t].buffer = sender[t].buffer
    BY <1>2, <1>3
  <2>2. sender[t].buffer \in OutBuffers \ memory /\ \A i \in 0..(N - 1) : Item(outq, i) # sender[t].buffer
    BY <1>4, <2>1 DEF OutWaiting, N
  <2>3. sender[t].buffer # b
    BY <1>0, <1>4, <2>1 DEF OutWaiting, b
  <2>4. (N + 1) - 1 = N /\ \A i \in 0..N : i = N \/ i \in 0..(N - 1)
    BY <1>5
  <2>5. \A i \in 0..(OutCount(n)' - 1) : Item(outq', i) # sender'[t].buffer
    BY <1>6, <1>10, <2>1, <2>2, <2>3, <2>4
  <2>6. \A u \in Senders : sender'[u].pc \in {"lock", "add"} /\ sender'[u].buffer = sender'[t].buffer => u = t
    BY <1>3, <1>4, <2>1 DEF OutWaiting
  <2> QED BY <1>0, <2>1, <2>2, <2>5, <2>6
<1>15. OutLength(n)'
  BY <1>3, <1>5, <1>6, <1>7, <1>10 DEF OutLength
<1>16. OutInv'
  BY <1>0, <1>4, <1>5, <1>13, <1>14, <1>15 DEF OutInv
<1>17. InInv' /\ ReaderInv'
  BY <1>0, InSame
<1> QED BY <1>3, <1>11, <1>12, <1>16, <1>17

\* Then the length is loaded, ...
LEMMA SendLoadKeeps ==
  ASSUME IInv, NEW s \in Senders, SendLoad(s)
  PROVE  IInv'
<1> USE DEF IInv
<1> DEFINE x == [sender[s] EXCEPT !.pc = "store", !.length = outq.length]
<1>0. /\ sender[s].pc = "load" /\ sender' = [sender EXCEPT ![s].pc = "store", ![s].length = outq.length]
      /\ UNCHANGED <<pool, inq, outq, memory, reader, outLock, toFree, isr, driver, card, arrived, status>>
  BY DEF SendLoad, Send, hardware
<1>1. sender[s] \in SenderRecords /\ outq.length \in Nat
  BY DEF TypeOK, SenderRecords, QueueType
<1>2. /\ x \in SenderRecords /\ x.pc = "store" /\ x.buffer = sender[s].buffer /\ x.length = outq.length
      /\ sender' = [sender EXCEPT ![s] = x]
  BY <1>0, <1>1 DEF SenderRecords
<1> HIDE DEF x
<1>3. /\ LockInv' /\ outLock = s /\ Stage = "load" /\ Stage' = "store"
      /\ sender' \in [Senders -> SenderRecords] /\ sender'[s] = x
      /\ \A t \in Senders : t # s => sender'[t] = sender[t] /\ sender[t].pc \in {"idle", "lock"}
      /\ \A t \in Senders : sender'[t].pc \in {"lock", "add"} =>
           sender[t].pc \in {"lock", "add"} /\ sender'[t].buffer = sender[t].buffer
  BY <1>0, <1>2, HolderStep
<1>4. TypeOK'
  BY <1>0, <1>3 DEF TypeOK, SenderRecords
<1>5. DriverInv'
  <2>1. \A t \in Senders : sender'[t].pc = "offer" => sender'[t].packet \in InBuffers
    BY <1>2, <1>3 DEF DriverInv
  <2> QED BY <1>0, <1>3, <2>1 DEF DriverInv
<1>6. PICK n \in Nat : OutItems(n) /\ OutWaiting(n) /\ OutLength(n) /\ toFree + Pending <= n
  BY DEF OutInv
<1>7. Own = 1 /\ Own' = 1 /\ Pending' = Pending
  BY <1>0, <1>3 DEF Own, Pending
<1>8. OutCount(n)' = OutCount(n)
  BY <1>0, <1>7 DEF OutCount
<1>9. OutItems(n)' /\ OutWaiting(n)'
  <2>1. Item(outq, OutCount(n) - 1) = sender'[outLock'].buffer
    BY <1>0, <1>2, <1>3, <1>6, <1>7 DEF OutItems
  <2>2. \A i \in 1..Len(card') : Item(outq, n + i - 1) = card'[i]
    BY <1>0, <1>6 DEF OutItems
  <2> QED BY <1>0, <1>3, <1>6, <1>8, <2>1, <2>2, OutShift
<1>10. OutLength(n)'
  BY <1>0, <1>2, <1>3, <1>6, <1>8 DEF OutLength
<1>11. OutInv'
  BY <1>0, <1>6, <1>7, <1>9, <1>10 DEF OutInv
<1>12. InInv' /\ ReaderInv'
  BY <1>0, InSame
<1> QED BY <1>3, <1>4, <1>5, <1>11, <1>12

\* ... and stored incremented.
LEMMA SendStoreKeeps ==
  ASSUME IInv, NEW s \in Senders, SendStore(s)
  PROVE  IInv'
<1> USE DEF IInv
<1> DEFINE p == IF driver = "Loopback" THEN "allocate" ELSE "transmit"
           x == [sender[s] EXCEPT !.pc = p, !.length = 0]
<1>0. /\ sender[s].pc = "store" /\ outq' = [outq EXCEPT !.length = sender[s].length + 1]
      /\ sender' = [sender EXCEPT ![s].pc = p, ![s].length = 0]
      /\ UNCHANGED <<pool, inq, memory, reader, outLock, toFree, isr, driver, card, arrived, status>>
  BY DEF SendStore, Send, hardware
<1>1. sender[s] \in SenderRecords /\ sender[s].length \in Nat /\ outq \in QueueType(OutBuffers)
  BY DEF TypeOK, SenderRecords
<1>2. /\ x \in SenderRecords /\ x.pc = p /\ x.buffer = sender[s].buffer
      /\ sender' = [sender EXCEPT ![s] = x] /\ p \in {"allocate", "transmit"}
  BY <1>0, <1>1 DEF SenderRecords
<1> HIDE DEF x, p
<1>3. /\ LockInv' /\ outLock = s /\ Stage = "store" /\ Stage' = p
      /\ sender' \in [Senders -> SenderRecords] /\ sender'[s] = x
      /\ \A t \in Senders : t # s => sender'[t] = sender[t] /\ sender[t].pc \in {"idle", "lock"}
      /\ \A t \in Senders : sender'[t].pc \in {"lock", "add"} =>
           sender[t].pc \in {"lock", "add"} /\ sender'[t].buffer = sender[t].buffer
  BY <1>0, <1>2, HolderStep
<1>4. /\ outq' \in QueueType(OutBuffers) /\ outq'.length = sender[s].length + 1
      /\ outq'.elements = outq.elements /\ outq'.head = outq.head /\ outq'.tail = outq.tail
  BY <1>0, <1>1 DEF QueueType
<1>5. TypeOK'
  BY <1>0, <1>3, <1>4 DEF TypeOK, SenderRecords
<1>6. DriverInv'
  <2>1. \A t \in Senders : sender'[t].pc = "offer" => sender'[t].packet \in InBuffers
    BY <1>2, <1>3 DEF DriverInv
  <2> QED BY <1>0, <1>3, <2>1 DEF DriverInv, p
<1>7. PICK n \in Nat : OutItems(n) /\ OutWaiting(n) /\ OutLength(n) /\ toFree + Pending <= n
  BY DEF OutInv
<1>8. Own = 1 /\ OutCount(n) = n + Len(card) + 1 /\ Len(card) \in Nat
  BY <1>3, StageOf DEF Own, OutCount
<1>9. OutCount(n) <= outq'.length /\ outq'.length <= Capacity
  <2>1. OutCount(n) <= sender[s].length + 1 /\ sender[s].length < Capacity
    BY <1>3, <1>7 DEF OutLength
  <2> QED BY <1>1, <1>4, <2>1, NetworkAssumption
<1>10. CASE driver = "Loopback"
  <2>1. card = <<>> /\ status = {} /\ isr = "none"
    BY <1>10 DEF DriverInv
  <2>2. Own' = 0 /\ Pending = 0 /\ Pending' = 1 /\ n + 1 \in Nat /\ Len(card') = 0
    BY <1>0, <1>3, <1>7, <1>10, <2>1 DEF Own, Pending, p
  <2>3. OutCount(n + 1)' = OutCount(n)
    <3>1. Len(card) = 0
      BY <2>1
    <3> QED BY <1>7, <1>8, <2>2, <3>1 DEF OutCount
  <2>4. OutItems(n + 1)' /\ OutWaiting(n + 1)'
    BY <1>0, <1>3, <1>4, <1>7, <2>2, <2>3, OutShift
  <2>5. OutLength(n + 1)'
    BY <1>2, <1>3, <1>9, <2>3 DEF OutLength
  <2>6. toFree' + Pending' <= n + 1
    BY <1>0, <1>7, <2>2 DEF TypeOK
  <2> QED BY <2>2, <2>4, <2>5, <2>6, <1>3, <1>5, <1>6, <1>0, InSame DEF OutInv
<1>11. CASE driver # "Loopback"
  <2>1. Own' = 1 /\ Pending' = Pending
    BY <1>0, <1>3, <1>11 DEF Own, Pending, p
  <2>2. OutCount(n)' = OutCount(n)
    BY <1>0, <1>8, <2>1 DEF OutCount
  <2>3. OutItems(n)' /\ OutWaiting(n)'
    <3>1. Item(outq, OutCount(n) - 1) = sender'[outLock'].buffer
      BY <1>0, <1>2, <1>3, <1>7, <1>8 DEF OutItems
    <3>2. \A i \in 1..Len(card') : Item(outq, n + i - 1) = card'[i]
      BY <1>0, <1>7 DEF OutItems
    <3> QED BY <1>0, <1>3, <1>4, <1>7, <2>2, <3>1, <3>2, OutShift
  <2>4. OutLength(n)'
    BY <1>2, <1>3, <1>9, <2>2 DEF OutLength
  <2> QED BY <1>0, <1>3, <1>5, <1>6, <1>7, <2>1, <2>3, <2>4, InSame DEF OutInv
<1> QED BY <1>10, <1>11

\* The card gets the buffer.
LEMMA TransmitKeeps ==
  ASSUME IInv, NEW s \in Senders, Transmit(s)
  PROVE  IInv'
<1> USE DEF IInv
<1> DEFINE x == [sender[s] EXCEPT !.pc = "unlock"]
<1>0. /\ sender[s].pc = "transmit" /\ card' = Append(card, sender[s].buffer)
      /\ sender' = [sender EXCEPT ![s].pc = "unlock"]
      /\ UNCHANGED <<pool, inq, outq, memory, reader, outLock, toFree, isr, driver, arrived, status>>
  BY DEF Transmit, Send, SenderStep
<1>1. sender[s] \in SenderRecords
  BY DEF TypeOK, SenderRecords
<1>2. x \in SenderRecords /\ x.pc = "unlock" /\ sender' = [sender EXCEPT ![s] = x]
  BY <1>0, <1>1 DEF SenderRecords
<1> HIDE DEF x
<1>3. /\ LockInv' /\ outLock = s /\ Stage = "transmit" /\ Stage' = "unlock"
      /\ sender' \in [Senders -> SenderRecords] /\ sender'[s] = x
      /\ \A t \in Senders : t # s => sender'[t] = sender[t] /\ sender[t].pc \in {"idle", "lock"}
      /\ \A t \in Senders : sender'[t].pc \in {"lock", "add"} =>
           sender[t].pc \in {"lock", "add"} /\ sender'[t].buffer = sender[t].buffer
  BY <1>0, <1>2, HolderStep
<1>4. PICK n \in Nat : OutItems(n) /\ OutWaiting(n) /\ OutLength(n) /\ toFree + Pending <= n
  BY DEF OutInv
<1>5. Own = 1 /\ Own' = 0 /\ Pending' = Pending /\ OutCount(n) = n + Len(card) + 1 /\ Len(card) \in Nat
  BY <1>0, <1>3, StageOf DEF Own, OutCount, Pending
<1>6. Item(outq, n + Len(card)) = sender[s].buffer /\ sender[s].buffer \in OutBuffers
  <2>1. OutCount(n) - 1 = n + Len(card) /\ n + Len(card) \in 0..(OutCount(n) - 1)
    BY <1>4, <1>5
  <2> QED BY <1>3, <1>4, <1>5, <2>1 DEF OutItems
<1>7. /\ card' \in Seq(OutBuffers) /\ Len(card') = Len(card) + 1
      /\ \A i \in 1..Len(card') : card'[i] = IF i \in 1..Len(card) THEN card[i] ELSE sender[s].buffer
  <2>1. card \in Seq(OutBuffers)
    BY DEF TypeOK
  <2> QED BY <1>0, <1>6, <2>1
<1>8. TypeOK'
  BY <1>0, <1>3, <1>7 DEF TypeOK, SenderRecords
<1>9. driver # "Loopback"
  BY <1>3 DEF DriverInv
<1>10. DriverInv'
  <2>1. \A t \in Senders : sender'[t].pc = "offer" => sender'[t].packet \in InBuffers
    BY <1>2, <1>3 DEF DriverInv
  <2> QED BY <1>0, <1>3, <1>9, <2>1 DEF DriverInv
<1>11. OutCount(n)' = OutCount(n)
  BY <1>4, <1>5, <1>7 DEF OutCount
<1>12. OutItems(n)' /\ OutWaiting(n)'
  <2>1. ASSUME NEW i \in 1..Len(card') PROVE Item(outq, n + i - 1) = card'[i]
    <3>1. CASE i \in 1..Len(card)
      BY <1>4, <1>7, <3>1 DEF OutItems
    <3>2. CASE i \notin 1..Len(card)
      <4>1. n + i - 1 = n + Len(card)
        BY <1>4, <1>5, <1>7, <3>2
      <4> QED BY <1>6, <1>7, <3>2, <4>1
    <3> QED BY <3>1, <3>2
  <2>2. \A i \in 1..Len(card') : Item(outq, n + i - 1) = card'[i]
    BY <2>1
  <2>3. Own' = 1 => Item(outq, OutCount(n) - 1) = sender'[outLock'].buffer
    BY <1>5
  <2>4. outq'.elements = outq.elements /\ outq'.head = outq.head /\ outq'.tail = outq.tail /\ memory' = memory
    BY <1>0
  <2>5. \A t \in Senders : sender'[t].pc \in {"lock", "add"} =>
          sender[t].pc \in {"lock", "add"} /\ sender'[t].buffer = sender[t].buffer
    BY <1>3
  <2> QED BY <1>4, <1>11, <2>2, <2>3, <2>4, <2>5, OutShift
<1>13. OutLength(n)'
  BY <1>0, <1>3, <1>4, <1>11 DEF OutLength
<1>14. OutInv'
  BY <1>0, <1>4, <1>5, <1>12, <1>13 DEF OutInv
<1>15. InInv' /\ ReaderInv'
  BY <1>0, InSame
<1> QED BY <1>3, <1>8, <1>10, <1>14, <1>15

\* The lock is released.
LEMMA SendUnlockKeeps ==
  ASSUME IInv, NEW s \in Senders, SendUnlock(s)
  PROVE  IInv'
<1> USE DEF IInv
<1>0. /\ sender[s].pc = "unlock" /\ outLock' = NoThread
      /\ sender' = [sender EXCEPT ![s].pc = "idle", ![s].buffer = Garbage]
      /\ UNCHANGED <<pool, inq, outq, memory, reader, toFree, isr, driver, card, arrived, status>>
  BY DEF SendUnlock, Send, hardware
<1>1. sender \in [Senders -> SenderRecords]
  BY DEF TypeOK, SenderRecords
<1>2. /\ sender' \in [Senders -> SenderRecords] /\ sender'[s].pc = "idle"
      /\ \A t \in Senders : t # s => sender'[t] = sender[t]
  BY <1>0, <1>1 DEF SenderRecords
<1>3. TypeOK'
  BY <1>0, <1>2 DEF TypeOK, SenderRecords
<1>4. outLock = s /\ Stage = "unlock" /\ Stage' = "none"
  BY <1>0, StageOf DEF Stage
<1>5. LockInv'
  BY <1>0, <1>2, <1>4, NetworkAssumption DEF LockInv
<1>6. DriverInv'
  <2>1. \A t \in Senders : sender'[t].pc = "offer" => sender'[t].packet \in InBuffers
    BY <1>2 DEF DriverInv
  <2> QED BY <1>0, <1>4, <2>1 DEF DriverInv
<1>7. Own = 0 /\ Own' = 0 /\ Pending' = Pending
  BY <1>0, <1>4 DEF Own, Pending
<1>8. PICK n \in Nat : OutItems(n) /\ OutWaiting(n) /\ OutLength(n) /\ toFree + Pending <= n
  BY DEF OutInv
<1>9. OutCount(n)' = OutCount(n)
  BY <1>0, <1>7 DEF OutCount
<1>10. OutItems(n)' /\ OutWaiting(n)'
  <2>1. \A t \in Senders : sender'[t].pc \in {"lock", "add"} =>
          sender[t].pc \in {"lock", "add"} /\ sender'[t].buffer = sender[t].buffer
    BY <1>2
  <2>2. \A i \in 1..Len(card') : Item(outq, n + i - 1) = card'[i]
    BY <1>0, <1>8 DEF OutItems
  <2>3. Own' = 1 => Item(outq, OutCount(n) - 1) = sender'[outLock'].buffer
    BY <1>7
  <2>4. outq'.elements = outq.elements /\ outq'.head = outq.head /\ outq'.tail = outq.tail /\ memory' = memory
    BY <1>0
  <2> QED BY <1>8, <1>9, <2>1, <2>2, <2>3, <2>4, OutShift
<1>11. OutLength(n)'
  BY <1>0, <1>4, <1>8, <1>9 DEF OutLength
<1>12. OutInv'
  BY <1>0, <1>7, <1>8, <1>10, <1>11 DEF OutInv
<1>13. InInv' /\ ReaderInv'
  BY <1>0, InSame
<1> QED BY <1>3, <1>5, <1>6, <1>12, <1>13

-----------------------------------------------------------------------------
\* The steps of the loopback driver that concern the incoming queue
LEMMA LoopKeeps ==
  ASSUME IInv, NEW s \in Senders, sender[s].pc \in {"allocate", "offer", "inLoad", "inStore"},
         NEW x \in SenderRecords, sender' = [sender EXCEPT ![s] = x],
         x.pc \in {"offer", "inLoad", "inStore", "free"}, x.pc = "offer" => x.packet \in InBuffers,
         UNCHANGED <<outq, memory, outLock, toFree, isr, hardware>>,
         pool' \subseteq InBuffers, inq' \in QueueType(InBuffers), reader' = reader, ReaderInv'
  PROVE  IInv'
<1> USE DEF IInv
<1>0. UNCHANGED <<outq, memory, outLock, toFree, isr, driver, card, arrived, status>>
  BY DEF hardware
<1>1. /\ LockInv' /\ outLock = s /\ Stage = sender[s].pc /\ Stage' = x.pc
      /\ sender' \in [Senders -> SenderRecords] /\ sender'[s] = x
      /\ \A t \in Senders : t # s => sender'[t] = sender[t] /\ sender[t].pc \in {"idle", "lock"}
      /\ \A t \in Senders : sender'[t].pc \in {"lock", "add"} =>
           sender[t].pc \in {"lock", "add"} /\ sender'[t].buffer = sender[t].buffer
  BY <1>0, HolderStep
<1>2. driver = "Loopback" /\ isr = "none"
  BY <1>1 DEF DriverInv
<1>3. TypeOK'
  BY <1>0, <1>1 DEF TypeOK, SenderRecords
<1>4. DriverInv'
  <2>1. \A t \in Senders : sender'[t].pc = "offer" => sender'[t].packet \in InBuffers
    BY <1>1 DEF DriverInv
  <2> QED BY <1>0, <1>1, <1>2, <2>1 DEF DriverInv
<1>5. Own = 0 /\ Own' = 0 /\ Pending = 1 /\ Pending' = 1
  BY <1>1 DEF Own, Pending
<1>6. PICK n \in Nat : OutItems(n) /\ OutWaiting(n) /\ OutLength(n) /\ toFree + Pending <= n
  BY DEF OutInv
<1>7. OutCount(n)' = OutCount(n)
  BY <1>0, <1>5 DEF OutCount
<1>8. OutItems(n)' /\ OutWaiting(n)'
  <2>1. \A i \in 1..Len(card') : Item(outq, n + i - 1) = card'[i]
    BY <1>0, <1>6 DEF OutItems
  <2> QED BY <1>0, <1>1, <1>5, <1>6, <1>7, <2>1, OutShift
<1>9. OutLength(n)'
  BY <1>0, <1>1, <1>6, <1>7 DEF OutLength
<1>10. OutInv'
  BY <1>0, <1>5, <1>6, <1>8, <1>9 DEF OutInv
<1>11. InInv'
  BY <1>0, <1>2 DEF InInv
<1> QED BY <1>1, <1>3, <1>4, <1>10, <1>11

\* The packet buffer for a packet that is looped back
LEMMA LoopAllocateKeeps ==
  ASSUME IInv, NEW s \in Senders, LoopAllocate(s)
  PROVE  IInv'
<1> USE DEF IInv
<1>0. sender[s].pc = "allocate" /\ UNCHANGED <<inq, outq, memory, reader, outLock, toFree, isr, hardware>>
  BY DEF LoopAllocate, Send
<1>1. sender[s] \in SenderRecords /\ pool \subseteq InBuffers /\ inq \in QueueType(InBuffers)
  BY DEF TypeOK, SenderRecords
<1>2. ReaderInv'
  BY <1>0 DEF ReaderInv
<1>3. CASE pool = {}
  <2> DEFINE x == [sender[s] EXCEPT !.pc = "free"]
  <2>1. sender' = [sender EXCEPT ![s] = x] /\ pool' = pool
    BY <1>3 DEF LoopAllocate, SenderStep
  <2>2. x \in SenderRecords /\ x.pc = "free"
    BY <1>1 DEF SenderRecords
  <2> HIDE DEF x
  <2> QED BY <1>0, <1>1, <1>2, <2>1, <2>2, LoopKeeps
<1>4. CASE pool # {}
  <2> DEFINE x == [sender[s] EXCEPT !.pc = "offer", !.packet = FirstFree]
  <2>1. FirstFree \in InBuffers
    BY <1>1, <1>4, FirstFreeIsFree
  <2>2. sender' = [sender EXCEPT ![s] = x] /\ pool' = pool \ {FirstFree}
    BY <1>4 DEF LoopAllocate
  <2>3. x \in SenderRecords /\ x.pc = "offer" /\ x.packet \in InBuffers
    BY <1>1, <2>1 DEF SenderRecords
  <2> HIDE DEF x
  <2>4. pool' \subseteq InBuffers
    BY <1>1, <2>2
  <2> QED BY <1>0, <1>1, <1>2, <2>2, <2>3, <2>4, LoopKeeps
<1> QED BY <1>3, <1>4

\* The packet is put into the incoming queue, or dropped.
LEMMA LoopOfferKeeps ==
  ASSUME IInv, NEW s \in Senders, LoopOffer(s)
  PROVE  IInv'
<1> USE DEF IInv
<1>0. sender[s].pc = "offer" /\ UNCHANGED <<outq, memory, reader, outLock, toFree, isr, hardware>>
  BY DEF LoopOffer, Send
<1>1. /\ sender[s] \in SenderRecords /\ pool \subseteq InBuffers /\ inq \in QueueType(InBuffers)
      /\ sender[s].packet \in InBuffers
  BY <1>0 DEF TypeOK, SenderRecords, DriverInv
<1>2. CASE inq.length = Capacity
  <2> DEFINE x == [sender[s] EXCEPT !.pc = "free", !.packet = Garbage]
  <2>1. sender' = [sender EXCEPT ![s] = x] /\ pool' = pool \cup {sender[s].packet} /\ inq' = inq
    BY <1>2 DEF LoopOffer
  <2>2. x \in SenderRecords /\ x.pc = "free"
    BY <1>1 DEF SenderRecords
  <2> HIDE DEF x
  <2>3. ReaderInv'
    BY <1>0, <2>1 DEF ReaderInv
  <2>4. pool' \subseteq InBuffers
    BY <1>1, <2>1
  <2> QED BY <1>0, <1>1, <2>1, <2>2, <2>3, <2>4, LoopKeeps
<1>3. CASE inq.length # Capacity
  <2> DEFINE x == [sender[s] EXCEPT !.pc = "inLoad", !.packet = Garbage]
  <2>1. sender' = [sender EXCEPT ![s] = x] /\ pool' = pool /\ inq' = Put(inq, sender[s].packet)
    BY <1>3 DEF LoopOffer
  <2>2. x \in SenderRecords /\ x.pc = "inLoad"
    BY <1>1 DEF SenderRecords
  <2> HIDE DEF x
  <2>3. inq' \in QueueType(InBuffers) /\ inq'.length = inq.length
    <3>1. ((inq.tail + 1) % Capacity) \in Slots
      BY <1>1, RingTurn
    <3> QED BY <1>1, <2>1, <3>1 DEF Put, QueueType
  <2>4. ReaderInv'
    BY <1>0, <2>3 DEF ReaderInv
  <2> QED BY <1>0, <1>1, <2>1, <2>2, <2>3, <2>4, LoopKeeps
<1> QED BY <1>2, <1>3

\* The length of the incoming queue is loaded and stored.
LEMMA LoopLengthKeeps ==
  ASSUME IInv, NEW s \in Senders, LoopLoad(s) \/ LoopStore(s)
  PROVE  IInv'
<1> USE DEF IInv
<1>1. /\ sender[s] \in SenderRecords /\ pool \subseteq InBuffers /\ inq \in QueueType(InBuffers)
      /\ sender[s].length \in Nat /\ inq.length \in Nat
  BY DEF TypeOK, SenderRecords, QueueType
<1>2. CASE LoopLoad(s)
  <2> DEFINE x == [sender[s] EXCEPT !.pc = "inStore", !.length = inq.length]
  <2>1. /\ sender[s].pc = "inLoad" /\ sender' = [sender EXCEPT ![s] = x]
        /\ UNCHANGED <<pool, inq, outq, memory, reader, outLock, toFree, isr, hardware>>
    BY <1>2 DEF LoopLoad, Send
  <2>2. x \in SenderRecords /\ x.pc = "inStore"
    BY <1>1 DEF SenderRecords
  <2> HIDE DEF x
  <2>3. ReaderInv'
    BY <2>1 DEF ReaderInv
  <2> QED BY <1>1, <2>1, <2>2, <2>3, LoopKeeps
<1>3. CASE LoopStore(s)
  <2> DEFINE x == [sender[s] EXCEPT !.pc = "free", !.length = 0]
  <2>1. /\ sender[s].pc = "inStore" /\ sender' = [sender EXCEPT ![s] = x]
        /\ inq' = [inq EXCEPT !.length = sender[s].length + 1]
        /\ UNCHANGED <<pool, outq, memory, reader, outLock, toFree, isr, hardware>>
    BY <1>3 DEF LoopStore, Send
  <2>2. x \in SenderRecords /\ x.pc = "free"
    BY <1>1 DEF SenderRecords
  <2> HIDE DEF x
  <2>3. inq' \in QueueType(InBuffers) /\ inq'.length = sender[s].length + 1
    BY <1>1, <2>1 DEF QueueType
  <2>4. ReaderInv'
    BY <1>1, <2>1, <2>3 DEF ReaderInv
  <2> QED BY <1>1, <2>1, <2>2, <2>3, <2>4, LoopKeeps
<1> QED BY <1>2, <1>3

\* freeLastSendBuffer() in the sending thread counts its buffer ...
LEMMA LoopFreeKeeps ==
  ASSUME IInv, NEW s \in Senders, LoopFree(s)
  PROVE  IInv'
<1> USE DEF IInv
<1>0. /\ sender[s].pc = "free" /\ toFree' = toFree + 1
      /\ UNCHANGED <<pool, inq, outq, memory, reader, outLock, isr, driver, card, arrived, status>>
  BY DEF LoopFree, Send, hardware
<1>1. PICK p \in {"unlock", "poll"} : sender' = [sender EXCEPT ![s].pc = p]
  BY DEF LoopFree, SenderStep
<1> DEFINE x == [sender[s] EXCEPT !.pc = p]
<1>2. sender[s] \in SenderRecords /\ toFree \in Nat
  BY DEF TypeOK, SenderRecords
<1>3. x \in SenderRecords /\ x.pc = p /\ sender' = [sender EXCEPT ![s] = x] /\ p \notin {"idle", "lock", "add"}
  BY <1>1, <1>2 DEF SenderRecords
<1> HIDE DEF x
<1>4. /\ LockInv' /\ outLock = s /\ Stage = "free" /\ Stage' = p
      /\ sender' \in [Senders -> SenderRecords] /\ sender'[s] = x
      /\ \A t \in Senders : t # s => sender'[t] = sender[t] /\ sender[t].pc \in {"idle", "lock"}
      /\ \A t \in Senders : sender'[t].pc \in {"lock", "add"} =>
           sender[t].pc \in {"lock", "add"} /\ sender'[t].buffer = sender[t].buffer
  BY <1>0, <1>3, HolderStep
<1>5. driver = "Loopback" /\ isr = "none" /\ status = {}
  BY <1>4 DEF DriverInv
<1>6. TypeOK'
  BY <1>0, <1>2, <1>4 DEF TypeOK, SenderRecords
<1>7. DriverInv'
  <2>1. \A t \in Senders : sender'[t].pc = "offer" => sender'[t].packet \in InBuffers
    BY <1>3, <1>4 DEF DriverInv
  <2>2. toFree' > 0
    BY <1>0, <1>2
  <2> QED BY <1>0, <1>1, <1>4, <1>5, <2>1, <2>2 DEF DriverInv
<1>8. Own = 0 /\ Own' = 0 /\ Pending = 1 /\ Pending' = 0
  BY <1>0, <1>1, <1>4, <1>5 DEF Own, Pending
<1>9. PICK n \in Nat : OutItems(n) /\ OutWaiting(n) /\ OutLength(n) /\ toFree + Pending <= n
  BY DEF OutInv
<1>10. OutCount(n)' = OutCount(n)
  BY <1>0, <1>8 DEF OutCount
<1>11. OutItems(n)' /\ OutWaiting(n)'
  <2>1. \A i \in 1..Len(card') : Item(outq, n + i - 1) = card'[i]
    BY <1>0, <1>9 DEF OutItems
  <2> QED BY <1>0, <1>4, <1>8, <1>9, <1>10, <2>1, OutShift
<1>12. OutLength(n)'
  BY <1>0, <1>1, <1>4, <1>9, <1>10 DEF OutLength
<1>13. toFree' + Pending' <= n
  BY <1>0, <1>2, <1>8, <1>9
<1>14. OutInv'
  BY <1>9, <1>11, <1>12, <1>13 DEF OutInv
<1>15. InInv' /\ ReaderInv'
  BY <1>0, InSame
<1> QED BY <1>4, <1>6, <1>7, <1>14, <1>15

\* ... and deletes all that are counted.
LEMMA LoopPollKeeps ==
  ASSUME IInv, NEW s \in Senders, LoopPoll(s)
  PROVE  IInv'
<1> USE DEF IInv
<1> DEFINE p == IF toFree = 1 THEN "unlock" ELSE "poll"
           x == [sender[s] EXCEPT !.pc = p]
<1>0. /\ sender[s].pc = "poll" /\ DeleteOldest /\ sender' = [sender EXCEPT ![s].pc = p]
      /\ UNCHANGED <<pool, inq, reader, outLock, isr, driver, card, arrived, status>>
  BY DEF LoopPoll, Send, SenderStep, hardware
<1>1. sender[s] \in SenderRecords /\ toFree \in Nat
  BY DEF TypeOK, SenderRecords
<1>2. p \in {"unlock", "poll"} /\ (p = "poll" => toFree # 1)
  OBVIOUS
<1> HIDE DEF p
<1>3. /\ x \in SenderRecords /\ x.pc = p /\ sender' = [sender EXCEPT ![s] = x]
      /\ x.buffer = sender[s].buffer /\ x.length = sender[s].length /\ p \notin {"idle", "lock", "add"}
  BY <1>0, <1>1, <1>2 DEF SenderRecords
<1> HIDE DEF x
<1>4. /\ LockInv' /\ outLock = s /\ Stage = "poll" /\ Stage' = p
      /\ sender' \in [Senders -> SenderRecords] /\ sender'[s] = x
      /\ \A t \in Senders : t # s => sender'[t] = sender[t] /\ sender[t].pc \in {"idle", "lock"}
      /\ \A t \in Senders : sender'[t].pc \in {"lock", "add"} =>
           sender[t].pc \in {"lock", "add"} /\ sender'[t].buffer = sender[t].buffer
  BY <1>0, <1>3, HolderStep
<1>5. driver = "Loopback" /\ isr = "none" /\ status = {} /\ toFree > 0
  BY <1>4 DEF DriverInv
<1>6. Own' = Own /\ Pending' = 0
  BY <1>0, <1>2, <1>4, <1>5 DEF Own, Pending
<1>7. \A t \in Senders : sender'[t].buffer = sender[t].buffer /\ sender'[t].length = sender[t].length
  BY <1>3, <1>4
<1>8. {Stage, Stage'} \subseteq {"poll", "unlock"}
  BY <1>2, <1>4
<1>9. /\ OutInv' /\ memory' \subseteq OutBuffers /\ toFree' \in Nat /\ toFree' = toFree - 1
      /\ outq' \in QueueType(OutBuffers)
  BY <1>0, <1>4, <1>5, <1>6, <1>7, <1>8, DeleteKeeps
<1>10. TypeOK'
  BY <1>0, <1>4, <1>9 DEF TypeOK, SenderRecords
<1>11. DriverInv'
  <2>1. \A t \in Senders : sender'[t].pc = "offer" => sender'[t].packet \in InBuffers
    BY <1>2, <1>3, <1>4 DEF DriverInv
  <2>2. p = "poll" => toFree' > 0
    BY <1>1, <1>2, <1>5, <1>9
  <2> QED BY <1>0, <1>2, <1>4, <1>5, <2>1, <2>2 DEF DriverInv
<1>12. InInv' /\ ReaderInv'
  BY <1>0, InSame
<1> QED BY <1>4, <1>9, <1>10, <1>11, <1>12

-----------------------------------------------------------------------------
\* A stuttering step
LEMMA StutterKeeps ==
  ASSUME IInv, UNCHANGED vars
  PROVE  IInv'
<1> USE DEF IInv
<1>0. UNCHANGED <<driver, pool, inq, outq, memory, reader, sender, outLock, toFree, isr, card, arrived, status>>
  BY DEF vars
<1>1. TypeOK'
  BY <1>0 DEF TypeOK
<1>2. LockInv' /\ DriverInv' /\ OutInv'
  BY <1>0, ReaderKeeps DEF hardware
<1>3. InInv' /\ ReaderInv'
  BY <1>0, InSame
<1> QED BY <1>1, <1>2, <1>3

\* IInv is inductive.
LEMMA StepInv == IInv /\ [Next]_vars => IInv'
<1> SUFFICES ASSUME IInv, [Next]_vars PROVE IInv'
  OBVIOUS
<1>1. CASE UNCHANGED vars
  BY <1>1, StutterKeeps
<1>2. CASE PollHead \/ PollLoad \/ PollStore \/ PollCopy \/ FreePacketBuffer
  BY <1>2, PollHeadKeeps, PollLoadKeeps, PollStoreKeeps, PollCopyKeeps, FreePacketBufferKeeps
<1>3. ASSUME NEW s \in Senders,
             \/ SendBegin(s) \/ SendLock(s) \/ SendPut(s) \/ SendLoad(s) \/ SendStore(s) \/ Transmit(s) \/ SendUnlock(s)
      PROVE  IInv'
  BY <1>3, SendBeginKeeps, SendLockKeeps, SendPutKeeps, SendLoadKeeps, SendStoreKeeps, TransmitKeeps, SendUnlockKeeps
<1>4. ASSUME NEW s \in Senders,
             \/ LoopAllocate(s) \/ LoopOffer(s) \/ LoopLoad(s) \/ LoopStore(s) \/ LoopFree(s) \/ LoopPoll(s)
      PROVE  IInv'
  BY <1>4, LoopAllocateKeeps, LoopOfferKeeps, LoopLengthKeeps, LoopFreeKeeps, LoopPollKeeps
<1>5. CASE Trigger \/ Receive \/ ReceiveLast \/ ReceiveEnd \/ SentBegin \/ SentPoll \/ SentEnd \/ Arrive
  BY <1>5, StatusKeeps, ReceiveKeeps, SentBeginKeeps, SentPollKeeps
<1>6. ASSUME NEW r \in {"TRANSMIT_OK", "TRANSMIT_ERROR"}, Complete(r)
      PROVE  IInv'
  BY <1>6, CompleteKeeps
<1> QED BY <1>1, <1>2, <1>3, <1>4, <1>5, <1>6 DEF Next

-----------------------------------------------------------------------------
\* The remainder of a difference
LEMMA NegativeRemainder ==
  ASSUME NEW a \in Int, -Capacity < a, a <= Capacity
  PROVE  (a % Capacity) = IF a < 0 THEN a + Capacity ELSE IF a < Capacity THEN a ELSE 0
<1>1. Capacity \in Nat /\ Capacity > 0
  BY NetworkAssumption
<1> QED BY <1>1

\* The occupied slots are the first m behind the head, one for each element.
LEMMA OccupiedSlots ==
  ASSUME NEW X, NEW q \in QueueType(X), NEW m \in Nat, m < Capacity, Ring(q, m)
  PROVE  /\ Occupied(q) = {(q.head + i) % Capacity : i \in 0..(m - 1)}
         /\ Cardinality(Occupied(q)) = m
<1>0. Capacity \in Nat /\ Capacity > 0 /\ m \in 0..Capacity
  BY NetworkAssumption
<1>1. q.head \in 0..(Capacity - 1) /\ q.tail \in -1..(Capacity - 1) /\ Turn(q.tail, 1) = Turn(q.head, m)
  <2>1. q.head \in Slots /\ q.tail \in {-1} \cup Slots
    BY RingTurn
  <2>2. Turn(q.tail, 1) = Turn(q.head, m)
    BY <1>0, RingTurn
  <2> QED BY <1>0, <2>1, <2>2 DEF Slots
<1>2. ((q.tail + 1 - q.head) % Capacity) = m
  <2> DEFINE a == q.tail + 1 - q.head
  <2>1. a \in Int /\ -Capacity < a /\ a <= Capacity
    BY <1>0, <1>1
  <2>2. (a % Capacity) = IF a < 0 THEN a + Capacity ELSE IF a < Capacity THEN a ELSE 0
    BY <2>1, NegativeRemainder
  <2>3. CASE q.head + m < Capacity
    <3>1. a = m \/ a = m + Capacity \/ a = m - Capacity
      BY <1>0, <1>1, <2>3 DEF Turn
    <3> QED BY <1>0, <2>1, <2>2, <3>1
  <2>4. CASE q.head + m >= Capacity
    <3>1. a = m \/ a = m + Capacity \/ a = m - Capacity
      BY <1>0, <1>1, <2>4 DEF Turn
    <3> QED BY <1>0, <2>1, <2>2, <3>1
  <2> QED BY <1>0, <1>1, <2>3, <2>4
<1>3. Occupied(q) = {(q.head + i) % Capacity : i \in 0..(m - 1)}
  BY <1>2 DEF Occupied
<1> DEFINE f == [i \in 0..(m - 1) |-> (q.head + i) % Capacity]
<1>4. \A i \in 0..(m - 1) : f[i] = Turn(q.head, i)
  BY <1>0, RingTurn
<1>5. \A i, j \in 0..(m - 1) : f[i] = f[j] => i = j
  <2> SUFFICES ASSUME NEW i \in 0..(m - 1), NEW j \in 0..(m - 1), f[i] = f[j] PROVE i = j
    OBVIOUS
  <2>1. Turn(q.head, i) = Turn(q.head, j)
    BY <1>4
  <2> QED BY <1>0, <1>1, <2>1 DEF Turn
<1>6. f \in Bijection(0..(m - 1), Occupied(q))
  <2>1. f \in [0..(m - 1) -> Occupied(q)] /\ \A y \in Occupied(q) : \E i \in 0..(m - 1) : f[i] = y
    BY <1>3
  <2> HIDE DEF f
  <2> QED BY <1>5, <2>1 DEF Bijection, Injection, IsInjective, Surjection
<1>7. IsFiniteSet(0..(m - 1)) /\ Cardinality(0..(m - 1)) = m
  BY FS_Interval
<1> QED BY <1>3, <1>6, <1>7, FS_Bijection DEF ExistsBijection

\* IInv is an invariant.
THEOREM InvHolds == Spec => []IInv
<1>1. Init => IInv
  BY InitInv
<1>2. IInv /\ [Next]_vars => IInv'
  BY StepInv
<1> QED BY <1>1, <1>2, PTL DEF Spec

\* Each packet buffer of the card's driver is free, in one slot of the incoming
\* queue or with the reader, for every size of the pool and the queue: the
\* handler overwrites no packet that is not read, though it and the reader
\* change the queue without a lock.  Nothing is claimed for Loopback.
THEOREM CardBuffersHaveOneOwner == Spec => []CardOneOwner
<1>1. IInv => CardOneOwner
  <2> SUFFICES ASSUME IInv, driver = "Rtl8139"
               PROVE  LET queued == {inq.elements[i] : i \in Occupied(inq)}
                      IN  /\ pool \cup queued \cup InReader = InBuffers
                          /\ Cardinality(pool) + Cardinality(Occupied(inq)) + Cardinality(InReader) = PoolSize
    BY DEF IInv, CardOneOwner
  <2>1. PICK m \in Nat : InItems(m)
    BY DEF IInv, InInv
  <2>2. inq \in QueueType(InBuffers) /\ pool \subseteq InBuffers
    BY DEF IInv, TypeOK
  <2>3. m < Capacity
    BY <2>1, PoolFinite DEF IInv, InItems, Reading
  <2>4. /\ Occupied(inq) = {(inq.head + i) % Capacity : i \in 0..(m - 1)}
        /\ Cardinality(Occupied(inq)) = m
    BY <2>1, <2>2, <2>3, OccupiedSlots DEF InItems
  <2>5. {inq.elements[i] : i \in Occupied(inq)} = {Item(inq, i) : i \in 0..(m - 1)}
    BY <2>4 DEF Item
  <2>6. Cardinality(InReader) = Reading
    <3>1. CASE reader.pc \in {"load", "store", "copy"}
      <4>1. InReader = {inq.elements[reader.slot]} /\ Reading = 1
        BY <3>1 DEF InReader, Leaving, Reading
      <4> QED BY <4>1, FS_Singleton
    <3>2. CASE reader.pc = "process"
      <4>1. InReader = {reader.buffer} /\ Reading = 1
        BY <3>2 DEF InReader, Leaving, Reading
      <4> QED BY <4>1, FS_Singleton
    <3>3. CASE reader.pc \notin {"load", "store", "copy", "process"}
      <4>1. InReader = {} /\ Reading = 0
        BY <3>3 DEF InReader, Leaving, Reading
      <4> QED BY <4>1, FS_EmptySet
    <3> QED BY <3>1, <3>2, <3>3
  <2>7. pool \cup {Item(inq, i) : i \in 0..(m - 1)} \cup InReader = InBuffers
    BY <2>1, <2>2 DEF InItems
  <2> QED BY <2>1, <2>4, <2>5, <2>6, <2>7 DEF InItems
<1> QED BY <1>1, InvHolds, PTL

\* A buffer that the card or a sender still has to send is not freed, however
\* many senders and descriptors there are and whatever interrupts are merged.
THEOREM InFlightIsKept == Spec => []InFlightKept
<1>1. IInv => InFlightKept
  <2> SUFFICES ASSUME IInv PROVE InFlightKept
    OBVIOUS
  <2> USE DEF IInv
  <2>1. PICK n \in Nat : OutItems(n) /\ OutWaiting(n)
    BY DEF OutInv
  <2> DEFINE N == OutCount(n)
  <2>2. N \in Nat /\ n + Len(card) <= N /\ Len(card) \in Nat /\ N = n + Len(card) + Own
    BY StageOf DEF OutCount
  <2>3. \A i \in 0..(N - 1) : Item(outq, i) \notin memory
    BY <2>1 DEF OutItems
  <2> HIDE DEF N
  <2>4. ASSUME NEW i \in 1..Len(card) PROVE card[i] \notin memory
    <3>1. n + i - 1 \in 0..(N - 1)
      BY <2>2
    <3> QED BY <2>1, <2>3, <3>1 DEF OutItems
  <2>5. ASSUME NEW s \in Senders, sender[s].pc \in {"load", "store", "transmit"}
        PROVE  sender[s].buffer \notin memory
    <3>1. outLock = s /\ Own = 1
      BY <2>5, StageOf DEF Own
    <3>2. Item(outq, N - 1) = sender[s].buffer
      BY <2>1, <3>1 DEF OutItems, N
    <3>3. N - 1 \in 0..(N - 1)
      BY <2>2, <3>1
    <3> QED BY <2>3, <3>2, <3>3
  <2>6. ASSUME NEW s \in Senders, sender[s].pc = "add"
        PROVE  sender[s].buffer \notin memory
    BY <2>1, <2>6 DEF OutWaiting
  <2> QED BY <2>4, <2>5, <2>6 DEF InFlightKept
<1> QED BY <1>1, InvHolds, PTL

\* freeLastSendBuffer() never polls an empty queue, although a decrement of
\* the handler gets lost when it interrupts the increment of a sender.
THEOREM HandlerNeverWaits == Spec => []NeverWaitsInHandler
<1>1. IInv => NeverWaitsInHandler
  <2> SUFFICES ASSUME IInv, isr = "poll" \/ \E s \in Senders : sender[s].pc = "poll"
               PROVE  outq.length > 0
    BY DEF NeverWaitsInHandler
  <2> USE DEF IInv
  <2>1. toFree \in Nat /\ toFree > 0 /\ outq.length \in Nat
    BY StageOf DEF DriverInv, TypeOK, QueueType
  <2>2. PICK n \in Nat : OutLength(n) /\ toFree + Pending <= n
    BY DEF OutInv
  <2>3. n > 0
    <3>1. Pending \in 0..1
      BY DEF Pending
    <3>2. toFree <= n
      BY <2>1, <2>2, <3>1
    <3> QED BY <2>1, <3>2
  <2>4. CASE Stage \in {"load", "store"}
    <3>1. OutCount(n) = n + Len(card) + 1 /\ Len(card) \in Nat
      BY <2>4, StageOf DEF OutCount, Own
    <3>2. OutCount(n) <= outq.length + 1
      BY <2>2, <2>4 DEF OutLength
    <3> QED BY <2>1, <2>3, <3>1, <3>2
  <2>5. CASE Stage \notin {"load", "store"}
    <3>1. OutCount(n) \in Nat /\ n + Len(card) <= OutCount(n) /\ Len(card) \in Nat
      BY StageOf
    <3>2. OutCount(n) <= outq.length
      BY <2>2, <2>5 DEF OutLength
    <3> QED BY <2>1, <2>3, <3>1, <3>2
  <2> QED BY <2>4, <2>5
<1> QED BY <1>1, InvHolds, PTL
=============================================================================
