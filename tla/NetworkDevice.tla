--------------------------- MODULE NetworkDevice ---------------------------
(***************************************************************************)
(* NetworkDevice with its packet reader thread and one of two drivers:     *)
(* Rtl8139, whose interrupt handler receives packets and frees sent ones,  *)
(* or Loopback, where the sending thread does both.                        *)
(*                                                                         *)
(* Both packet queues are ArrayBlockingQueues without a lock of their own. *)
(* An interrupt handler runs as a whole; a thread can be interrupted       *)
(* between two accesses to memory, also within length++ and length--.      *)
(***************************************************************************)
EXTENDS Integers, Sequences, FiniteSets

CONSTANTS
  Senders,          \* threads that call sendPacket()
  NoThread,
  Drivers,          \* the drivers to look at
  Capacity,         \* MAX_BUFFERED_PACKETS
  PoolSize,         \* packet buffers of incomingPacketMemoryManager
  OutBuffers,       \* memory for the buffers of sendPacket()
  Descriptors,      \* TRANSMIT_DESCRIPTOR_COUNT
  MaxArrived,       \* bound: packets in the receive buffer of the card
  Garbage           \* what an element holds that was never written

InBuffers == 1..PoolSize

ASSUME NetworkAssumption ==
  /\ NoThread \notin Senders
  /\ Drivers \subseteq {"Rtl8139", "Loopback"}
  /\ Capacity \in Nat \ {0} /\ PoolSize \in 1..(Capacity - 1)
  /\ Descriptors \in Nat \ {0} /\ MaxArrived \in Nat

VARIABLES
  driver,     \* the driver of this device
  pool,       \* the free packet buffers
  inq,        \* incomingPacketQueue
  outq,       \* outgoingPacketQueue
  memory,     \* free memory for outgoing buffers
  reader,     \* the packet reader: [pc, slot, length, buffer]
  sender,     \* each sender: [pc, buffer, length, packet]
  outLock,    \* the holder of outgoingPacketLock
  toFree,     \* outgoingPacketsToFree
  isr,        \* what the running interrupt handler is about to do, or "none"
  card,       \* the buffers that the card has to transmit, oldest first
  arrived,    \* the number of packets in the receive buffer of the card
  status      \* the interrupt status register

threads == <<reader, sender, outLock>>
hardware == <<driver, card, arrived, status>>
vars == <<driver, pool, inq, outq, memory, reader, sender, outLock, toFree, isr, card, arrived, status>>

\* ArrayBlockingQueue: tail starts at (uint32_t) -1.
EmptyQueue == [elements |-> [i \in 0..(Capacity - 1) |-> Garbage], head |-> 0, tail |-> -1, length |-> 0]

Put(q, x) ==
  LET t == (q.tail + 1) % Capacity
  IN  [q EXCEPT !.tail = t, !.elements[t] = x]

Advance(q) == [q EXCEPT !.head = (@ + 1) % Capacity]

\* offer() and poll() without an interruption
Offered(q, x) == [Put(q, x) EXCEPT !.length = @ + 1]
Polled(q) == [Advance(q) EXCEPT !.length = @ - 1]

\* BitmapMemoryManager::allocateBlock(): the first free block
FirstFree == CHOOSE b \in pool : \A c \in pool : b <= c

Init ==
  /\ driver \in Drivers
  /\ pool = InBuffers /\ memory = OutBuffers
  /\ inq = EmptyQueue /\ outq = EmptyQueue
  /\ reader = [pc |-> "wait", slot |-> 0, length |-> 0, buffer |-> Garbage]
  /\ sender = [s \in Senders |-> [pc |-> "idle", buffer |-> Garbage, length |-> 0, packet |-> Garbage]]
  /\ outLock = NoThread
  /\ toFree = 0 /\ isr = "none"
  /\ card = <<>> /\ arrived = 0 /\ status = {}

-----------------------------------------------------------------------------
(***************************************************************************)
(* The packet reader: getNextIncomingPacket(), readPacket(), free          *)
(***************************************************************************)
Read(from) == isr = "none" /\ reader.pc = from

ReaderStep(to) == reader' = [reader EXCEPT !.pc = to]

\* poll() refers to the element at the head and advances the head ...
PollHead ==
  /\ Read("wait") /\ inq.length # 0
  /\ reader' = [reader EXCEPT !.pc = "load", !.slot = inq.head]
  /\ inq' = Advance(inq)
  /\ UNCHANGED <<pool, outq, memory, sender, outLock, toFree, isr, hardware>>

\* ... then decrements the length ...
PollLoad ==
  /\ Read("load")
  /\ reader' = [reader EXCEPT !.pc = "store", !.length = inq.length]
  /\ UNCHANGED <<pool, inq, outq, memory, sender, outLock, toFree, isr, hardware>>

PollStore ==
  /\ Read("store")
  /\ inq' = [inq EXCEPT !.length = reader.length - 1]
  /\ reader' = [reader EXCEPT !.pc = "copy", !.length = 0]
  /\ UNCHANGED <<pool, outq, memory, sender, outLock, toFree, isr, hardware>>

\* Fault: the buffer is freed before the packet is read.
PollCopy_Free ==
  /\ Read("copy")
  /\ reader' = [reader EXCEPT !.pc = "process", !.slot = 0, !.buffer = inq.elements[reader.slot]]
  /\ pool' = pool \cup {inq.elements[reader.slot]}
  /\ UNCHANGED <<inq, outq, memory, sender, outLock, toFree, isr, hardware>>

\* ... and copies the element.
PollCopy ==
  /\ Read("copy")
  /\ reader' = [reader EXCEPT !.pc = "process", !.slot = 0, !.buffer = inq.elements[reader.slot]]
  /\ UNCHANGED <<pool, inq, outq, memory, sender, outLock, toFree, isr, hardware>>

\* freePacketBuffer() throws when the buffer is not one of the pool.
FreePacketBuffer ==
  /\ Read("process")
  /\ IF reader.buffer \in InBuffers
     THEN pool' = pool \cup {reader.buffer} /\ reader' = [reader EXCEPT !.pc = "wait", !.buffer = Garbage]
     ELSE ReaderStep("failed") /\ UNCHANGED pool
  /\ UNCHANGED <<inq, outq, memory, sender, outLock, toFree, isr, hardware>>

-----------------------------------------------------------------------------
(***************************************************************************)
(* sendPacket()                                                            *)
(***************************************************************************)
Send(s, from) == isr = "none" /\ sender[s].pc = from

SenderStep(s, to) == sender' = [sender EXCEPT ![s].pc = to]

SendBegin(s) ==
  /\ Send(s, "idle")
  /\ \E b \in memory :
       /\ memory' = memory \ {b}
       /\ sender' = [sender EXCEPT ![s].pc = "lock", ![s].buffer = b]
  /\ UNCHANGED <<pool, inq, outq, reader, outLock, toFree, isr, hardware>>

\* Fault: the lock is not taken.
SendLock_Free(s) ==
  /\ Send(s, "lock")
  /\ SenderStep(s, "add")
  /\ UNCHANGED <<pool, inq, outq, memory, reader, outLock, toFree, isr, hardware>>

SendLock(s) ==
  /\ Send(s, "lock") /\ outLock = NoThread
  /\ outLock' = s /\ SenderStep(s, "add")
  /\ UNCHANGED <<pool, inq, outq, memory, reader, toFree, isr, hardware>>

\* outgoingPacketQueue.add() waits while the queue is full.
SendPut(s) ==
  /\ Send(s, "add") /\ outq.length # Capacity
  /\ outq' = Put(outq, sender[s].buffer)
  /\ SenderStep(s, "load")
  /\ UNCHANGED <<pool, inq, memory, reader, outLock, toFree, isr, hardware>>

SendLoad(s) ==
  /\ Send(s, "load")
  /\ sender' = [sender EXCEPT ![s].pc = "store", ![s].length = outq.length]
  /\ UNCHANGED <<pool, inq, outq, memory, reader, outLock, toFree, isr, hardware>>

SendStore(s) ==
  /\ Send(s, "store")
  /\ outq' = [outq EXCEPT !.length = sender[s].length + 1]
  /\ sender' = [sender EXCEPT ![s].pc = IF driver = "Loopback" THEN "allocate" ELSE "transmit", ![s].length = 0]
  /\ UNCHANGED <<pool, inq, memory, reader, outLock, toFree, isr, hardware>>

\* Rtl8139::handleOutgoingPacket() waits for a descriptor and hands the buffer over.
Transmit(s) ==
  /\ Send(s, "transmit") /\ Len(card) < Descriptors
  /\ card' = Append(card, sender[s].buffer)
  /\ SenderStep(s, "unlock")
  /\ UNCHANGED <<pool, inq, outq, memory, reader, outLock, toFree, isr, driver, arrived, status>>

SendUnlock(s) ==
  /\ Send(s, "unlock")
  /\ outLock' = NoThread
  /\ sender' = [sender EXCEPT ![s].pc = "idle", ![s].buffer = Garbage]
  /\ UNCHANGED <<pool, inq, outq, memory, reader, toFree, isr, hardware>>

-----------------------------------------------------------------------------
(***************************************************************************)
(* Loopback::handleOutgoingPacket(): handleIncomingPacket() and then       *)
(* freeLastSendBuffer() in the sending thread                              *)
(***************************************************************************)
LoopAllocate(s) ==
  /\ Send(s, "allocate")
  /\ IF pool = {} THEN SenderStep(s, "free") /\ UNCHANGED pool
     ELSE /\ pool' = pool \ {FirstFree}
          /\ sender' = [sender EXCEPT ![s].pc = "offer", ![s].packet = FirstFree]
  /\ UNCHANGED <<inq, outq, memory, reader, outLock, toFree, isr, hardware>>

LoopOffer(s) ==
  /\ Send(s, "offer")
  /\ IF inq.length = Capacity
     THEN /\ pool' = pool \cup {sender[s].packet}
          /\ sender' = [sender EXCEPT ![s].pc = "free", ![s].packet = Garbage] /\ UNCHANGED inq
     ELSE /\ inq' = Put(inq, sender[s].packet)
          /\ sender' = [sender EXCEPT ![s].pc = "inLoad", ![s].packet = Garbage] /\ UNCHANGED pool
  /\ UNCHANGED <<outq, memory, reader, outLock, toFree, isr, hardware>>

LoopLoad(s) ==
  /\ Send(s, "inLoad")
  /\ sender' = [sender EXCEPT ![s].pc = "inStore", ![s].length = inq.length]
  /\ UNCHANGED <<pool, inq, outq, memory, reader, outLock, toFree, isr, hardware>>

LoopStore(s) ==
  /\ Send(s, "inStore")
  /\ inq' = [inq EXCEPT !.length = sender[s].length + 1]
  /\ sender' = [sender EXCEPT ![s].pc = "free", ![s].length = 0]
  /\ UNCHANGED <<pool, outq, memory, reader, outLock, toFree, isr, hardware>>

\* One more buffer is to be freed; it is, unless some other thread has locked
\* the kernel heap.
LoopFree(s) ==
  /\ Send(s, "free")
  /\ toFree' = toFree + 1
  /\ \E heapLocked \in BOOLEAN : SenderStep(s, IF heapLocked THEN "unlock" ELSE "poll")
  /\ UNCHANGED <<pool, inq, outq, memory, reader, outLock, isr, hardware>>

\* The loop of freeLastSendBuffer(): the oldest buffer is deleted.
DeleteOldest ==
  /\ outq.length > 0
  /\ memory' = memory \cup {outq.elements[outq.head]}
  /\ outq' = Polled(outq)
  /\ toFree' = toFree - 1

LoopPoll(s) ==
  /\ Send(s, "poll")
  /\ DeleteOldest
  /\ SenderStep(s, IF toFree = 1 THEN "unlock" ELSE "poll")
  /\ UNCHANGED <<pool, inq, reader, outLock, isr, hardware>>

-----------------------------------------------------------------------------
(***************************************************************************)
(* The interrupt handler Rtl8139::trigger() and the card                   *)
(***************************************************************************)
Trigger ==
  /\ isr = "none" /\ status # {}
  /\ isr' = IF "RECEIVE_OK" \in status THEN "receive" ELSE IF "TRANSMIT_OK" \in status THEN "sent" ELSE "none"
  /\ status' = IF status = {"TRANSMIT_ERROR"} THEN {} ELSE status
  /\ UNCHANGED <<pool, inq, outq, memory, threads, toFree, driver, card, arrived>>

\* handleIncomingPacket(), for as long as the card has packets
Receive ==
  /\ isr = "receive" /\ arrived > 0
  /\ arrived' = arrived - 1
  /\ IF pool = {} \/ inq.length = Capacity THEN UNCHANGED <<pool, inq>>
     ELSE pool' = pool \ {FirstFree} /\ inq' = Offered(inq, FirstFree)
  /\ UNCHANGED <<outq, memory, threads, toFree, isr, driver, card, status>>

\* The card has no more; another packet may still arrive before the status
\* is cleared.
ReceiveLast ==
  /\ isr = "receive" /\ arrived = 0
  /\ isr' = "clear"
  /\ UNCHANGED <<pool, inq, outq, memory, threads, toFree, hardware>>

ReceiveEnd ==
  /\ isr = "clear"
  /\ isr' = "none" /\ status' = status \ {"RECEIVE_OK"}
  /\ UNCHANGED <<pool, inq, outq, memory, threads, toFree, driver, card, arrived>>

\* freeLastSendBuffer()
SentBegin ==
  /\ isr = "sent"
  /\ toFree' = toFree + 1
  /\ \E heapLocked \in BOOLEAN : isr' = IF heapLocked THEN "end" ELSE "poll"
  /\ UNCHANGED <<pool, inq, outq, memory, threads, hardware>>

SentPoll ==
  /\ isr = "poll"
  /\ DeleteOldest
  /\ isr' = IF toFree = 1 THEN "end" ELSE "poll"
  /\ UNCHANGED <<pool, inq, threads, hardware>>

\* Fault: the interrupt is not acknowledged.
SentEnd_NoClear ==
  /\ isr = "end"
  /\ isr' = "none"
  /\ UNCHANGED <<pool, inq, outq, memory, threads, toFree, hardware>>

SentEnd ==
  /\ isr = "end"
  /\ isr' = "none" /\ status' = status \ {"TRANSMIT_OK"}
  /\ UNCHANGED <<pool, inq, outq, memory, threads, toFree, driver, card, arrived>>

\* A packet arrives; one is sent or fails, also while the handler runs.
Arrive ==
  /\ driver # "Loopback" /\ arrived < MaxArrived
  /\ arrived' = arrived + 1 /\ status' = status \cup {"RECEIVE_OK"}
  /\ UNCHANGED <<pool, inq, outq, memory, threads, toFree, isr, driver, card>>

Complete(result) ==
  /\ card # <<>>
  /\ card' = Tail(card) /\ status' = status \cup {result}
  /\ UNCHANGED <<pool, inq, outq, memory, threads, toFree, isr, driver, arrived>>

Next ==
  \/ PollHead \/ PollLoad \/ PollStore \/ PollCopy \/ FreePacketBuffer
  \/ \E s \in Senders :
       \/ SendBegin(s) \/ SendLock(s) \/ SendPut(s) \/ SendLoad(s) \/ SendStore(s) \/ Transmit(s) \/ SendUnlock(s)
       \/ LoopAllocate(s) \/ LoopOffer(s) \/ LoopLoad(s) \/ LoopStore(s) \/ LoopFree(s) \/ LoopPoll(s)
  \/ Trigger \/ Receive \/ ReceiveLast \/ ReceiveEnd \/ SentBegin \/ SentPoll \/ SentEnd
  \/ Arrive \/ (\E r \in {"TRANSMIT_OK", "TRANSMIT_ERROR"} : Complete(r))

Spec == Init /\ [][Next]_vars

-----------------------------------------------------------------------------
Slots == 0..(Capacity - 1)
QueueType(X) == [elements : [Slots -> X \cup {Garbage}], head : Slots, tail : {-1} \cup Slots, length : Nat]

TypeOK ==
  /\ driver \in Drivers
  /\ pool \subseteq InBuffers /\ memory \subseteq OutBuffers
  /\ inq \in QueueType(InBuffers) /\ outq \in QueueType(OutBuffers)
  /\ reader \in [pc : {"wait", "load", "store", "copy", "process", "failed"}, slot : Slots, length : Nat,
                 buffer : InBuffers \cup {Garbage}]
  /\ sender \in [Senders -> [pc : {"idle", "lock", "add", "load", "store", "transmit", "allocate", "offer", "inLoad",
                                  "inStore", "free", "poll", "unlock"},
                            buffer : OutBuffers \cup {Garbage}, length : Nat, packet : InBuffers \cup {Garbage}]]
  /\ outLock \in Senders \cup {NoThread}
  /\ toFree \in Nat /\ isr \in {"none", "receive", "clear", "sent", "poll", "end"}
  /\ card \in Seq(OutBuffers) /\ arrived \in 0..MaxArrived
  /\ status \subseteq {"RECEIVE_OK", "TRANSMIT_OK", "TRANSMIT_ERROR"}

\* The slots between head and tail, however wrong the length may be
Occupied(q) == {(q.head + i) % Capacity : i \in 0..(((q.tail + 1 - q.head) % Capacity) - 1)}

\* The element that the reader is about to copy
Leaving == IF reader.pc \in {"load", "store", "copy"} THEN {inq.elements[reader.slot]} ELSE {}

InReader == Leaving \cup (IF reader.pc = "process" THEN {reader.buffer} ELSE {})

\* With the driver of the card, every packet buffer of the pool is at one place:
\* free, in one slot of the queue or with the reader.  So no packet is
\* overwritten before it is read, although the interrupt handler and the reader
\* change the queue, and its length in particular, without a lock: an increment
\* of the handler that gets lost makes the queue seem shorter, and the pool has
\* fewer buffers than the queue has slots.
\* Nothing of the kind holds with Loopback (Loopback::handleOutgoingPacket()):
\* there the increment belongs to a thread, and when that is preempted within
\* length++ the reader's length-- gets lost instead.  The queue then seems longer
\* than it is, and the reader takes a buffer that it has already freed.
CardOneOwner ==
  /\ TypeOK
  /\ driver = "Rtl8139" =>
       LET queued == {inq.elements[i] : i \in Occupied(inq)}
       IN  /\ pool \cup queued \cup InReader = InBuffers
           /\ Cardinality(pool) + Cardinality(Occupied(inq)) + Cardinality(InReader) = PoolSize

\* A buffer that the card or a sender still has to send is not freed, whatever
\* interrupts are lost, merged or postponed because the heap is locked.
InFlightKept ==
  /\ \A i \in 1..Len(card) : card[i] \notin memory
  /\ \A s \in Senders : sender[s].pc \in {"add", "load", "store", "transmit"} => sender[s].buffer \notin memory

\* freeLastSendBuffer() never polls an empty queue: poll() would wait there,
\* in the interrupt handler, for a thread.
NeverWaitsInHandler ==
  (isr = "poll" \/ \E s \in Senders : sender[s].pc = "poll") => outq.length > 0
=============================================================================
