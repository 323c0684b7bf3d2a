---------------------------- MODULE PipedStream ----------------------------
(***************************************************************************)
(* PipedInputStream, the ring buffer behind pipes, terminals and the sound *)
(* card's stream: lib/util/io/stream/PipedInputStream.cpp, reached through *)
(* PipedOutputStream.                                                      *)
(*                                                                         *)
(* A step is one acquire() or release() of the lock, the copying in one    *)
(* round of a copy loop, the update of the positions that follows it, or   *)
(* one access to peekedCharacter, which no lock protects.                  *)
(***************************************************************************)
EXTENDS Integers, Sequences, FiniteSets

CONSTANTS
  Writers, Readers,
  NoThread,      \* the lock is free
  BufferSize,
  Lengths,       \* the lengths of the arrays that are written and read
  MaxBytes,      \* bound: bytes that one writer writes
  Calls,         \* what the readers call: "bulk", "byte", "peek"
  NoByte         \* peekedCharacter is -1

ASSUME PipeAssumption ==
  /\ BufferSize \in Nat \ {0}
  /\ Lengths \subseteq Nat \ {0}
  /\ MaxBytes \in Nat
  /\ Writers \cap Readers = {}
  /\ NoThread \notin Writers \cup Readers
  /\ Calls \subseteq {"bulk", "byte", "peek"}

Threads == Writers \cup Readers
Positions == 0..(BufferSize - 1)

\* The n-th byte that writer w writes.
Bytes == Writers \X Nat

ASSUME NoByteAssumption == NoByte \notin Bytes

VARIABLES
  buffer, inPosition, outPosition, lock, peekedCharacter,
  pc,          \* the next step of each thread
  remaining,   \* bytes that its call has still to copy
  toCopy,      \* bytes that this round copies
  taken,       \* bytes that a reader has copied in this round
  call,        \* which of the three read calls a reader is in
  result,      \* the byte that read() has taken from the buffer
  next,        \* the number of the next byte of each writer
  sent,        \* history: bytes copied into the buffer ...
  received,    \* ... and out of it ...
  delivered    \* ... and returned to a caller

ring == <<buffer, inPosition, outPosition>>
locals == <<remaining, toCopy, taken, call, result, next>>
history == <<sent, received, delivered>>
vars == <<buffer, inPosition, outPosition, lock, peekedCharacter, pc, remaining, toCopy, taken,
          call, result, next, sent, received, delivered>>

Labels == {"idle", "writeLock", "writeCopy", "writeMove",
           "readLock", "readCopy", "readMove", "return"}

TypeOK ==
  /\ buffer \in [Positions -> Bytes \cup {NoByte}]
  /\ inPosition \in Positions \cup {-1}
  /\ outPosition \in Positions
  /\ lock \in Threads \cup {NoThread}
  /\ peekedCharacter \in Bytes \cup {NoByte}
  /\ pc \in [Threads -> Labels]
  /\ remaining \in [Threads -> Nat] /\ toCopy \in [Threads -> Nat]
  /\ taken \in [Readers -> Seq(Bytes)]
  /\ call \in [Readers -> {"bulk", "byte", "peek"}]
  /\ result \in [Readers -> Bytes \cup {NoByte}]
  /\ next \in [Writers -> Nat]
  /\ sent \in Seq(Bytes) /\ received \in Seq(Bytes) /\ delivered \in Seq(Bytes)

-----------------------------------------------------------------------------
Init ==
  /\ buffer = [i \in Positions |-> NoByte]
  /\ inPosition = -1 /\ outPosition = 0
  /\ lock = NoThread
  /\ peekedCharacter = NoByte
  /\ pc = [t \in Threads |-> "idle"]
  /\ remaining = [t \in Threads |-> 0] /\ toCopy = [t \in Threads |-> 0]
  /\ taken = [r \in Readers |-> <<>>]
  /\ call = [r \in Readers |-> "bulk"]
  /\ result = [r \in Readers |-> NoByte]
  /\ next = [w \in Writers |-> 0]
  /\ sent = <<>> /\ received = <<>> /\ delivered = <<>>

Goto(t, l) == pc' = [pc EXCEPT ![t] = l]

\* lock.acquire(), whose waiting is not seen, and lock.release().
Acquire(t, l) == lock = NoThread /\ lock' = t /\ Goto(t, l)

Release(t, l) == lock' = NoThread /\ Goto(t, l)

Smaller(m, n) == IF m < n THEN m ELSE n

\* s followed by n bytes; the k-th of them is F(k), k = 0, 1, ...
Extend(s, n, F(_)) ==
  [j \in 1..(Len(s) + n) |-> IF j <= Len(s) THEN s[j] ELSE F(j - Len(s) - 1)]

-----------------------------------------------------------------------------
(***************************************************************************)
(* write(sourceBuffer, offset, length)                                     *)
(***************************************************************************)

WriteBegin(w, n) ==
  /\ pc[w] = "idle"
  /\ next[w] + n <= MaxBytes
  /\ remaining' = [remaining EXCEPT ![w] = n]
  /\ Goto(w, "writeLock")
  /\ UNCHANGED <<ring, lock, peekedCharacter, toCopy, taken, call, result, next, history>>

WriteLock(w) ==
  /\ pc[w] = "writeLock"
  /\ Acquire(w, "writeCopy")
  /\ UNCHANGED <<ring, peekedCharacter, locals, history>>

\* Fault: the lock is kept while the writer waits.
WriteWait_Locked(w) ==
  /\ pc[w] = "writeCopy" /\ remaining[w] > 0
  /\ inPosition = outPosition
  /\ UNCHANGED vars

\* The buffer is full: release the lock, yield and try again.
WriteWait(w) ==
  /\ pc[w] = "writeCopy" /\ remaining[w] > 0
  /\ inPosition = outPosition
  /\ Release(w, "writeLock")
  /\ UNCHANGED <<ring, peekedCharacter, locals, history>>

\* Fault: the distance to the reader is not considered.
WriteSize_NoLimit(p, n) == Smaller(n, BufferSize - p)

\* How many of n bytes can be copied at once to position p.
WriteSize(p, n) ==
  Smaller(n, IF p < outPosition THEN outPosition - p ELSE BufferSize - p)

\* The position behind the bytes up to p, at the end of the buffer its start.
Wrap(p) == IF p = BufferSize THEN 0 ELSE p

\* Copies into the buffer; an empty one is filled from its start.
WriteCopy(w) ==
  /\ pc[w] = "writeCopy" /\ remaining[w] > 0
  /\ inPosition # outPosition
  /\ LET p == IF inPosition < 0 THEN 0 ELSE inPosition
         n == WriteSize(p, remaining[w])
     IN  /\ buffer' = [i \in Positions |->
                         IF i >= p /\ i < p + n THEN <<w, next[w] + i - p>> ELSE buffer[i]]
         /\ inPosition' = p
         /\ toCopy' = [toCopy EXCEPT ![w] = n]
  /\ Goto(w, "writeMove")
  /\ UNCHANGED <<outPosition, lock, peekedCharacter, remaining, taken, call, result, next, history>>

\* Makes what was copied visible to the readers.
WriteMove(w) ==
  /\ pc[w] = "writeMove"
  /\ LET Byte(k) == <<w, next[w] + k>> IN sent' = Extend(sent, toCopy[w], Byte)
  /\ inPosition' = Wrap(inPosition + toCopy[w])
  /\ remaining' = [remaining EXCEPT ![w] = @ - toCopy[w]]
  /\ next' = [next EXCEPT ![w] = @ + toCopy[w]]
  /\ toCopy' = [toCopy EXCEPT ![w] = 0]
  /\ Goto(w, "writeCopy")
  /\ UNCHANGED <<buffer, outPosition, lock, peekedCharacter, taken, call, result, received,
                 delivered>>

WriteEnd(w) ==
  /\ pc[w] = "writeCopy" /\ remaining[w] = 0
  /\ Release(w, "idle")
  /\ UNCHANGED <<ring, peekedCharacter, locals, history>>

-----------------------------------------------------------------------------
(***************************************************************************)
(* read(targetBuffer, offset, length), read() and peek()                   *)
(***************************************************************************)

StartRead(r, c, n) ==
  /\ call' = [call EXCEPT ![r] = c]
  /\ remaining' = [remaining EXCEPT ![r] = n]
  /\ Goto(r, "readLock")

ReadBegin(r, n) ==
  /\ pc[r] = "idle" /\ "bulk" \in Calls
  /\ StartRead(r, "bulk", n)
  /\ UNCHANGED <<ring, lock, peekedCharacter, toCopy, taken, result, next, history>>

\* read() returns a peeked character first.
ByteBegin(r) ==
  /\ pc[r] = "idle" /\ "byte" \in Calls
  /\ IF peekedCharacter = NoByte
     THEN StartRead(r, "byte", 1) /\ UNCHANGED <<peekedCharacter, delivered>>
     ELSE /\ delivered' = Append(delivered, peekedCharacter)
          /\ peekedCharacter' = NoByte
          /\ UNCHANGED <<pc, remaining, call>>
  /\ UNCHANGED <<ring, lock, toCopy, taken, result, next, sent, received>>

\* Fault: a second peek() reads another character.
PeekBegin_Again(r) ==
  /\ pc[r] = "idle" /\ "peek" \in Calls
  /\ StartRead(r, "peek", 1)
  /\ UNCHANGED <<ring, lock, peekedCharacter, toCopy, taken, result, next, history>>

\* peek() reads a character when it does not have one.
PeekBegin(r) ==
  /\ pc[r] = "idle" /\ "peek" \in Calls
  /\ peekedCharacter = NoByte
  /\ StartRead(r, "peek", 1)
  /\ UNCHANGED <<ring, lock, peekedCharacter, toCopy, taken, result, next, history>>

ReadLock(r) ==
  /\ pc[r] = "readLock"
  /\ Acquire(r, "readCopy")
  /\ UNCHANGED <<ring, peekedCharacter, locals, history>>

\* Fault: a full buffer is taken for an empty one.
ReadWait_Full(r) ==
  /\ pc[r] = "readCopy"
  /\ inPosition < 0 \/ inPosition = outPosition
  /\ Release(r, "readLock")
  /\ UNCHANGED <<ring, peekedCharacter, locals, history>>

\* The buffer is empty: release the lock, yield and try again.
ReadWait(r) ==
  /\ pc[r] = "readCopy"
  /\ inPosition < 0
  /\ Release(r, "readLock")
  /\ UNCHANGED <<ring, peekedCharacter, locals, history>>

\* How many of n bytes can be copied at once.
ReadSize(n) ==
  Smaller(n, IF outPosition < inPosition THEN inPosition - outPosition
                                         ELSE BufferSize - outPosition)

\* The positions after a copy that ended at p: an empty buffer starts again.
AfterRead(p) == IF p = inPosition THEN [in |-> -1, out |-> 0]
                                  ELSE [in |-> inPosition, out |-> p]

\* Copies out of the buffer.
ReadCopy(r) ==
  /\ pc[r] = "readCopy"
  /\ inPosition >= 0
  /\ LET n == ReadSize(remaining[r])
     IN  /\ taken' = [taken EXCEPT ![r] = [j \in 1..n |-> buffer[outPosition + j - 1]]]
         /\ toCopy' = [toCopy EXCEPT ![r] = n]
  /\ Goto(r, "readMove")
  /\ UNCHANGED <<ring, lock, peekedCharacter, remaining, call, result, next, history>>

\* Frees what was copied.  A bulk read returns when it has all or the buffer is
\* empty.  read() and peek() have their byte, but not yet done anything with it.
ReadMove(r) ==
  /\ pc[r] = "readMove"
  /\ LET Byte(k) == taken[r][k + 1]
         after == AfterRead(Wrap(outPosition + toCopy[r]))
     IN  /\ received' = Extend(received, toCopy[r], Byte)
         /\ inPosition' = after.in
         /\ outPosition' = after.out
         /\ IF call[r] = "bulk"
            THEN delivered' = Extend(delivered, toCopy[r], Byte) /\ UNCHANGED result
            ELSE result' = [result EXCEPT ![r] = Byte(0)] /\ UNCHANGED delivered
         /\ IF remaining[r] = toCopy[r] \/ after.in = -1
            THEN Release(r, IF call[r] = "bulk" THEN "idle" ELSE "return")
            ELSE Goto(r, "readCopy") /\ UNCHANGED lock
  /\ remaining' = [remaining EXCEPT ![r] = @ - toCopy[r]]
  /\ toCopy' = [toCopy EXCEPT ![r] = 0]
  /\ taken' = [taken EXCEPT ![r] = <<>>]
  /\ UNCHANGED <<buffer, peekedCharacter, call, next, sent>>

\* read() returns its byte; peek() keeps it for the next read().
Return(r) ==
  /\ pc[r] = "return"
  /\ IF call[r] = "peek"
     THEN peekedCharacter' = result[r] /\ UNCHANGED delivered
     ELSE delivered' = Append(delivered, result[r]) /\ UNCHANGED peekedCharacter
  /\ result' = [result EXCEPT ![r] = NoByte]
  /\ Goto(r, "idle")
  /\ UNCHANGED <<ring, lock, remaining, toCopy, taken, call, next, sent, received>>

\* Fault: a full buffer counts as an empty one.
Available_Full ==
  IF inPosition < 0 THEN 0
  ELSE IF outPosition <= inPosition THEN inPosition - outPosition
  ELSE (BufferSize - outPosition) + inPosition

\* available()
Available ==
  IF inPosition < 0 THEN 0
  ELSE IF outPosition < inPosition THEN inPosition - outPosition
  ELSE (BufferSize - outPosition) + inPosition

-----------------------------------------------------------------------------
WriteStep(w) == WriteLock(w) \/ WriteWait(w) \/ WriteCopy(w) \/ WriteMove(w) \/ WriteEnd(w)

ReadStep(r) == ReadLock(r) \/ ReadWait(r) \/ ReadCopy(r) \/ ReadMove(r) \/ Return(r)

ReadCall(r) == (\E n \in Lengths : ReadBegin(r, n)) \/ ByteBegin(r) \/ PeekBegin(r)

Next ==
  \/ \E w \in Writers : WriteStep(w) \/ \E n \in Lengths : WriteBegin(w, n)
  \/ \E r \in Readers : ReadStep(r) \/ ReadCall(r)

Spec == Init /\ [][Next]_vars

\* The threads are scheduled round robin and nothing ties the timer to their
\* critical sections, so none finds the lock taken for ever.  The readers are
\* loops that read again.
FairSpec ==
  /\ Spec
  /\ \A w \in Writers : WF_vars(WriteStep(w)) /\ SF_vars(WriteLock(w))
  /\ \A r \in Readers : WF_vars(ReadStep(r)) /\ SF_vars(ReadLock(r)) /\ WF_vars(ReadCall(r))

-----------------------------------------------------------------------------
Fifo == INSTANCE Channel WITH Capacity <- BufferSize

\* The ring buffer is a FIFO channel: no byte is lost, doubled, reordered or
\* overwritten, over every wrap-around and for any number of writers and
\* readers that give up the lock in the middle of their calls.
ImplementsChannel == Fifo!Spec

\* Whoever can take the lock gets from available() the number of bytes that
\* were written and not yet read, in particular for the full buffer, whose
\* positions are equal.  Between the two steps of a write it is wrong.  A
\* peeked byte has left the buffer and counts as read here, although read()
\* will still return it: available() does not count it either.
AvailableExact == lock = NoThread => Available = Len(sent) - Len(received)

\* A reader that mixes the three calls gets every byte once: what has left the
\* buffer was returned to it, is the peeked character or is about to become
\* one of the two (PipedInputStream.cpp:59; peekedCharacter has no lock).
PeekedOnce ==
  /\ \A i, j \in 1..Len(delivered) : delivered[i] = delivered[j] => i = j
  /\ Len(received) = Len(delivered)
                     + Cardinality({r \in Readers : result[r] # NoByte})
                     + (IF peekedCharacter = NoByte THEN 0 ELSE 1)

\* Every write() returns although the buffer is smaller than what is written.
WriteReturns == \A w \in Writers : pc[w] # "idle" ~> pc[w] = "idle"

\* Every byte that was written reaches a reader.
AllDelivered == \A n \in 1..MaxBytes : Len(sent) >= n ~> Len(received) >= n
=============================================================================
