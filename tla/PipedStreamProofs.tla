-------------------------- MODULE PipedStreamProofs --------------------------
(***************************************************************************)
(* For any buffer size and any number of writers and readers: the ring     *)
(* buffer of PipedInputStream implements a FIFO channel.  For a single     *)
(* reader: each byte is returned once, whatever calls it mixes.            *)
(***************************************************************************)
EXTENDS PipedStream, FiniteSetTheorems, SequenceTheorems, TLAPS

Inside == {"writeCopy", "writeMove", "readCopy", "readMove"}

\* The threads between acquire() and release() are those that hold the lock.
LockInv == \A t \in Threads : pc[t] \in Inside <=> lock = t

\* A thread is at the labels of its own calls; a reader that is not finished
\* wants at least one more byte, and read() and peek() return a byte.
CallInv ==
  /\ \A w \in Writers : pc[w] \in {"idle", "writeLock", "writeCopy", "writeMove"}
  /\ \A r \in Readers :
       /\ pc[r] \in {"idle", "readLock", "readCopy", "readMove", "return"}
       /\ pc[r] \in {"readLock", "readCopy", "readMove"} => remaining[r] > 0
       /\ pc[r] = "return" => result[r] \in Bytes

Used == Len(sent) - Len(received)

\* The position k bytes behind the position o.
At(o, k) == IF o + k < BufferSize THEN o + k ELSE o + k - BufferSize

Place(k) == At(outPosition, k)

\* The positions say how many bytes are in the buffer ...
PositionInv ==
  /\ Used \in 0..BufferSize
  /\ Used = 0 => /\ outPosition = 0
                 /\ inPosition = -1 \/ (inPosition = 0 /\ \E w \in Writers : pc[w] = "writeMove")
  /\ Used > 0 => inPosition = Place(Used)

\* ... the buffer holds those that were sent and not received ...
ContentInv ==
  /\ \A k \in 0..(Used - 1) : buffer[Place(k)] = sent[Len(received) + k + 1]
  /\ \A i \in 1..Len(received) : received[i] = sent[i]

\* ... and a thread that has copied has copied the right ones, of which the
\* positions do not yet tell.
CopyInv ==
  /\ \A w \in Writers : pc[w] = "writeMove" =>
       /\ toCopy[w] \in 1..remaining[w]
       /\ inPosition >= 0 /\ inPosition + toCopy[w] <= BufferSize
       /\ Used + toCopy[w] <= BufferSize
       /\ \A k \in 0..(toCopy[w] - 1) : buffer[inPosition + k] = <<w, next[w] + k>>
  /\ \A r \in Readers : pc[r] = "readMove" =>
       /\ toCopy[r] \in 1..remaining[r] /\ toCopy[r] <= Used
       /\ outPosition + toCopy[r] <= BufferSize
       /\ Len(taken[r]) = toCopy[r]
       /\ \A j \in 1..toCopy[r] : taken[r][j] = sent[Len(received) + j]

IInv == TypeOK /\ LockInv /\ CallInv /\ PositionInv /\ ContentInv /\ CopyInv

-----------------------------------------------------------------------------
\* An empty stream.
LEMMA InitInv == Init => IInv
<1> SUFFICES ASSUME Init PROVE IInv
  OBVIOUS
<1> USE PipeAssumption, NoByteAssumption DEF Init, Threads
<1>1. TypeOK
  BY DEF TypeOK, Positions, Labels
<1>2. LockInv /\ CallInv
  BY DEF LockInv, CallInv, Inside
<1>3. PositionInv /\ ContentInv /\ CopyInv
  BY DEF PositionInv, ContentInv, CopyInv, Used, Place, At
<1> QED BY <1>1, <1>2, <1>3 DEF IInv

\* What Extend() builds from the bytes of a round is a sequence of bytes.
LEMMA ExtendType ==
  ASSUME NEW S, NEW s \in Seq(S), NEW n \in Nat, NEW f \in [0..(n - 1) -> S], NEW e,
         e = [j \in 1..(Len(s) + n) |-> IF j <= Len(s) THEN s[j] ELSE f[j - Len(s) - 1]]
  PROVE  /\ e \in Seq(S) /\ Len(e) = Len(s) + n
         /\ \A j \in 1..Len(s) : e[j] = s[j]
         /\ \A k \in 0..(n - 1) : e[Len(s) + k + 1] = f[k]
<1>1. \A j \in 1..(Len(s) + n) : (IF j <= Len(s) THEN s[j] ELSE f[j - Len(s) - 1]) \in S
  OBVIOUS
<1> QED BY <1>1

-----------------------------------------------------------------------------
(* Arithmetic of the ring, with o and i for the positions, u for the number *)
(* of bytes in the buffer and n for the length of one round.                *)

\* What write() computes in front of its copying stays clear of the bytes that
\* are waiting in the buffer.
LEMMA RoomToWrite ==
  ASSUME NEW o \in Positions, NEW u \in 1..BufferSize, NEW rest \in Nat \ {0},
         NEW i, i = At(o, u), i # o,
         NEW n, n = Smaller(rest, IF i < o THEN o - i ELSE BufferSize - i)
  PROVE  /\ i \in Positions /\ n \in 1..rest /\ i + n <= BufferSize /\ u + n <= BufferSize
         /\ \A k \in 0..(u - 1) : At(o, k) \in Positions /\ (At(o, k) < i \/ At(o, k) >= i + n)
BY PipeAssumption DEF At, Smaller, Positions

\* The step of inPosition that ends the round.
LEMMA WriteAdvances ==
  ASSUME NEW o \in Positions, NEW u \in 0..BufferSize, NEW n \in Nat \ {0},
         NEW i \in Positions, i = At(o, u), i + n <= BufferSize, u + n <= BufferSize
  PROVE  /\ Wrap(i + n) = At(o, u + n) /\ Wrap(i + n) \in Positions
         /\ \A k \in Int : u <= k /\ k < u + n => At(o, k) = i + (k - u)
BY PipeAssumption DEF At, Wrap, Positions

\* What read() computes in front of its copying is waiting in the buffer.
LEMMA BytesToRead ==
  ASSUME NEW o \in Positions, NEW u \in 1..BufferSize, NEW rest \in Nat \ {0},
         NEW i, i = At(o, u),
         NEW n, n = Smaller(rest, IF o < i THEN i - o ELSE BufferSize - o)
  PROVE  n \in 1..rest /\ n <= u /\ o + n <= BufferSize
BY PipeAssumption DEF At, Smaller, Positions

\* The step of outPosition that ends the round: it meets inPosition exactly when
\* the last byte was read.
LEMMA ReadAdvances ==
  ASSUME NEW o \in Positions, NEW u \in 1..BufferSize, NEW n \in 1..u,
         NEW i, i = At(o, u), o + n <= BufferSize
  PROVE  /\ i \in Positions
         /\ n = u => Wrap(o + n) = i
         /\ n < u => /\ Wrap(o + n) # i /\ Wrap(o + n) \in Positions
                     /\ i = At(Wrap(o + n), u - n)
                     /\ \A k \in 0..(u - n - 1) : At(Wrap(o + n), k) = At(o, n + k)
<1>1. i \in Positions /\ (n = u => Wrap(o + n) = i)
  BY PipeAssumption DEF At, Wrap, Positions
<1>2. n < u => Wrap(o + n) # i /\ Wrap(o + n) \in Positions
  BY PipeAssumption DEF At, Wrap, Positions
<1>3. n < u => i = At(Wrap(o + n), u - n)
  BY PipeAssumption DEF At, Wrap, Positions
<1>4. n < u => \A k \in 0..(u - n - 1) : At(Wrap(o + n), k) = At(o, n + k)
  BY PipeAssumption DEF At, Wrap, Positions
<1> QED BY <1>1, <1>2, <1>3, <1>4

\* The sequences' lengths are numbers, and so is their difference.
LEMMA UsedType == TypeOK => Used \in Int /\ Len(sent) \in Nat /\ Len(received) \in Nat
BY DEF TypeOK, Used

-----------------------------------------------------------------------------
\* A round of write() copies into free space.
LEMMA WriteCopyInv == ASSUME IInv, NEW w \in Writers, WriteCopy(w) PROVE IInv'
<1> DEFINE p == IF inPosition < 0 THEN 0 ELSE inPosition
           n == WriteSize(p, remaining[w])
<1>1. /\ pc[w] = "writeCopy" /\ remaining[w] > 0 /\ inPosition # outPosition
      /\ buffer' = [i \in Positions |->
                      IF i >= p /\ i < p + n THEN <<w, next[w] + i - p>> ELSE buffer[i]]
      /\ inPosition' = p /\ toCopy' = [toCopy EXCEPT ![w] = n]
      /\ pc' = [pc EXCEPT ![w] = "writeMove"]
      /\ outPosition' = outPosition /\ lock' = lock /\ peekedCharacter' = peekedCharacter
      /\ remaining' = remaining /\ taken' = taken /\ call' = call /\ result' = result
      /\ next' = next /\ sent' = sent /\ received' = received /\ delivered' = delivered
  BY DEF WriteCopy, Goto, history
<1>2. TypeOK /\ LockInv /\ CallInv /\ PositionInv /\ ContentInv
  BY DEF IInv
<1>3. /\ w \in Threads /\ \A t \in Threads : t # w => pc[t] \notin Inside
      /\ \A u \in Writers : pc[u] # "writeMove"
  BY <1>1, <1>2 DEF LockInv, Inside, Threads
<1>4. Used \in 0..BufferSize /\ Used \in Int /\ outPosition \in Positions /\ remaining[w] \in Nat \ {0}
  BY <1>1, <1>2, <1>3 DEF PositionInv, TypeOK
<1>5. Used = 0 => inPosition = -1 /\ outPosition = 0 /\ p = 0
  BY <1>2, <1>3 DEF PositionInv
<1>6. Used > 0 => inPosition = Place(Used) /\ inPosition >= 0 /\ p = inPosition
  BY <1>2, <1>4, PipeAssumption DEF PositionInv, Place, At, Positions
<1>7. /\ p \in Positions /\ n \in 1..remaining[w]
      /\ p + n <= BufferSize /\ Used + n <= BufferSize
      /\ \A k \in 0..(Used - 1) : Place(k) \in Positions /\ (Place(k) < p \/ Place(k) >= p + n)
  <2>1. CASE Used = 0
    BY <2>1, <1>4, <1>5, PipeAssumption DEF WriteSize, Smaller, Positions
  <2>2. CASE Used > 0
    BY <2>2, <1>1, <1>4, <1>6, RoomToWrite DEF WriteSize, Place
  <2> QED BY <1>4, <2>1, <2>2
<1> HIDE DEF p, n
<1>8. Used' = Used /\ \A k : Place(k)' = Place(k)
  BY <1>1 DEF Used, Place, At
<1>9. n \in Nat /\ p \in Nat
  BY <1>4, <1>7 DEF Positions
<1>10. TypeOK'
  <2>1. \A i \in Positions : i >= p => <<w, next[w] + i - p>> \in Bytes
    BY <1>2, <1>9 DEF TypeOK, Bytes, Positions
  <2>2. buffer' \in [Positions -> Bytes \cup {NoByte}]
    BY <1>1, <1>2, <2>1 DEF TypeOK
  <2>3. toCopy' \in [Threads -> Nat] /\ pc' \in [Threads -> Labels]
    BY <1>1, <1>2, <1>9 DEF TypeOK, Labels
  <2> QED BY <1>1, <1>2, <1>7, <2>2, <2>3 DEF TypeOK
<1>11. pc'[w] = "writeMove" /\ \A t \in Threads : t # w => pc'[t] = pc[t]
  BY <1>1, <1>2, <1>3 DEF TypeOK
<1>12. LockInv'
  BY <1>1, <1>2, <1>3, <1>11 DEF LockInv, Inside
<1>13. CallInv'
  BY <1>1, <1>2, <1>11, PipeAssumption DEF CallInv, Threads
<1>14. PositionInv'
  BY <1>1, <1>2, <1>4, <1>5, <1>6, <1>8, <1>11 DEF PositionInv
<1>15. ContentInv'
  <2>1. \A k \in 0..(Used - 1) : buffer'[Place(k)] = buffer[Place(k)]
    BY <1>1, <1>7, <1>9 DEF Positions
  <2> QED BY <1>1, <1>2, <1>8, <2>1 DEF ContentInv
<1>16. CopyInv'
  <2>1. \A k \in 0..(n - 1) : buffer'[p + k] = <<w, next[w] + k>>
    <3> SUFFICES ASSUME NEW k \in 0..(n - 1) PROVE buffer'[p + k] = <<w, next[w] + k>>
      OBVIOUS
    <3>1. p + k \in Positions /\ p + k >= p /\ p + k < p + n
      BY <1>7, <1>9, PipeAssumption DEF Positions
    <3>2. next[w] + (p + k) - p = next[w] + k
      BY <1>2, <1>9 DEF TypeOK
    <3> QED BY <1>1, <3>1, <3>2
  <2>2. toCopy'[w] = n
    BY <1>1, <1>2, <1>3 DEF TypeOK
  <2>3. /\ \A u \in Writers : pc'[u] = "writeMove" => u = w
        /\ \A r \in Readers : pc'[r] # "readMove"
    BY <1>3, <1>11 DEF Inside, Threads
  <2> QED BY <1>1, <1>7, <1>8, <1>9, <2>1, <2>2, <2>3 DEF CopyInv
<1> QED BY <1>10, <1>12, <1>13, <1>14, <1>15, <1>16 DEF IInv

\* The end of the round: what it copied has been sent.
LEMMA WriteMoveInv == ASSUME IInv, NEW w \in Writers, WriteMove(w) PROVE IInv'
<1> DEFINE Byte(k) == <<w, next[w] + k>>
<1>1. PICK n : n = toCopy[w]
  OBVIOUS
<1>2. /\ pc[w] = "writeMove" /\ sent' = Extend(sent, n, Byte) /\ inPosition' = Wrap(inPosition + n)
      /\ remaining' = [remaining EXCEPT ![w] = remaining[w] - n]
      /\ next' = [next EXCEPT ![w] = next[w] + n]
      /\ toCopy' = [toCopy EXCEPT ![w] = 0] /\ pc' = [pc EXCEPT ![w] = "writeCopy"]
      /\ buffer' = buffer /\ outPosition' = outPosition /\ lock' = lock
      /\ peekedCharacter' = peekedCharacter /\ taken' = taken /\ call' = call
      /\ result' = result /\ received' = received /\ delivered' = delivered
  BY <1>1 DEF WriteMove, Goto
<1>3. TypeOK /\ LockInv /\ CallInv /\ PositionInv /\ ContentInv
  BY DEF IInv
<1>4. w \in Threads /\ \A t \in Threads : t # w => pc[t] \notin Inside
  BY <1>2, <1>3 DEF LockInv, Inside, Threads
<1>5. /\ n \in Nat \ {0} /\ remaining[w] \in Nat /\ n <= remaining[w]
      /\ inPosition \in Positions /\ inPosition + n <= BufferSize /\ Used + n <= BufferSize
      /\ \A k \in 0..(n - 1) : buffer[inPosition + k] = Byte(k)
  <2>1. /\ remaining[w] \in Nat /\ n \in Nat
        /\ inPosition \in Positions \cup {-1} /\ BufferSize \in Nat
    BY <1>1, <1>3, <1>4, PipeAssumption DEF TypeOK
  <2>2. /\ n \in 1..remaining[w] /\ inPosition >= 0
        /\ inPosition + n <= BufferSize /\ Used + n <= BufferSize
        /\ \A k \in 0..(n - 1) : buffer[inPosition + k] = Byte(k)
    BY <1>1, <1>2 DEF IInv, CopyInv
  <2> QED BY <2>1, <2>2
<1>6. \A k \in 0..(n - 1) : Byte(k) \in Bytes
  BY <1>3, <1>5 DEF TypeOK, Bytes
<1> HIDE DEF Byte
<1>7. /\ sent' \in Seq(Bytes) /\ Len(sent') = Len(sent) + n
      /\ \A j \in 1..Len(sent) : sent'[j] = sent[j]
      /\ \A k \in 0..(n - 1) : sent'[Len(sent) + k + 1] = Byte(k)
  <2>1. n \in Nat /\ sent \in Seq(Bytes)
    BY <1>3, <1>5 DEF TypeOK
  <2> DEFINE f == [k \in 0..(n - 1) |-> Byte(k)]
  <2>2. f \in [0..(n - 1) -> Bytes]
    BY <1>6
  <2>3. sent' = [j \in 1..(Len(sent) + n) |->
                   IF j <= Len(sent) THEN sent[j] ELSE f[j - Len(sent) - 1]]
    BY <1>2, <2>1 DEF Extend
  <2>4. \A k \in 0..(n - 1) : f[k] = Byte(k)
    OBVIOUS
  <2> HIDE DEF f
  <2> QED BY <2>1, <2>2, <2>3, <2>4, ExtendType
<1>8. /\ Used \in Int /\ Len(sent) \in Nat /\ Len(received) \in Nat /\ outPosition \in Positions
      /\ Used = Len(sent) - Len(received)
  BY <1>3, UsedType DEF TypeOK, Used
<1>9. Used' = Used + n /\ \A k : Place(k)' = Place(k)
  BY <1>2, <1>5, <1>7, <1>8 DEF Used, Place, At
<1>10. Used \in 0..BufferSize /\ inPosition = Place(Used)
  BY <1>3, <1>5, <1>8, PipeAssumption DEF PositionInv, Place, At, Positions
<1>11. /\ inPosition' = Place(Used + n) /\ inPosition' \in Positions
       /\ \A k \in Int : Used <= k /\ k < Used + n => Place(k) = inPosition + (k - Used)
  BY <1>2, <1>5, <1>8, <1>10, WriteAdvances DEF Place
<1>12. TypeOK'
  <2>1. /\ remaining' \in [Threads -> Nat] /\ next' \in [Writers -> Nat]
        /\ toCopy' \in [Threads -> Nat] /\ pc' \in [Threads -> Labels]
    <3>1. remaining[w] - n \in Nat /\ next[w] + n \in Nat
      BY <1>3, <1>5 DEF TypeOK
    <3> QED BY <1>2, <1>3, <3>1 DEF TypeOK, Labels
  <2> QED BY <1>2, <1>3, <1>7, <1>11, <2>1 DEF TypeOK
<1>13. pc'[w] = "writeCopy" /\ \A t \in Threads : t # w => pc'[t] = pc[t]
  BY <1>2, <1>3, <1>4 DEF TypeOK
<1>14. LockInv'
  BY <1>2, <1>3, <1>4, <1>13 DEF LockInv, Inside
<1>15. CallInv'
  <2>1. \A r \in Readers : pc'[r] = pc[r] /\ remaining'[r] = remaining[r]
    BY <1>2, <1>3, <1>13, PipeAssumption DEF Threads, TypeOK
  <2> QED BY <1>2, <1>3, <1>13, <2>1, PipeAssumption DEF CallInv, Threads
<1>16. PositionInv'
  <2>1. Used' \in 0..BufferSize /\ Used' > 0
    BY <1>5, <1>9, <1>10, PipeAssumption
  <2>2. inPosition' = Place(Used)'
    BY <1>2, <1>9, <1>11 DEF Place, At
  <2> QED BY <2>1, <2>2 DEF PositionInv
<1>17. ContentInv'
  <2>1. \A i \in 1..Len(received) : received'[i] = sent'[i]
    BY <1>2, <1>3, <1>7, <1>8, <1>10 DEF ContentInv
  <2>2. ASSUME NEW k \in 0..(Used + n - 1) PROVE buffer[Place(k)] = sent'[Len(received) + k + 1]
    <3>1. CASE k < Used
      <4>1. Len(received) + k + 1 \in 1..Len(sent) /\ k \in 0..(Used - 1)
        BY <3>1, <1>5, <1>8
      <4> QED BY <4>1, <1>3, <1>7 DEF ContentInv
    <3>2. CASE k >= Used
      <4>1. k - Used \in 0..(n - 1) /\ Len(received) + k + 1 = Len(sent) + (k - Used) + 1
        BY <3>2, <1>5, <1>8, <1>10
      <4>2. Place(k) = inPosition + (k - Used)
        BY <3>2, <1>5, <1>8, <1>11
      <4> QED BY <4>1, <4>2, <1>5, <1>7
    <3> QED BY <3>1, <3>2, <1>5, <1>8
  <2>3. 0..(Used' - 1) = 0..(Used + n - 1)
    <3>1. Used' = Used + n
      BY <1>2, <1>5, <1>7, <1>8 DEF Used
    <3> QED BY <3>1, <1>5, <1>8
  <2>4. ASSUME NEW k \in 0..(Used' - 1) PROVE (buffer[Place(k)] = sent[Len(received) + k + 1])'
    <3>1. k \in 0..(Used + n - 1)
      BY <2>3
    <3>2. buffer[Place(k)] = sent'[Len(received) + k + 1]
      BY <2>2, <3>1
    <3> QED BY <1>2, <3>2 DEF Place, At
  <2> QED BY <1>2, <2>1, <2>4 DEF ContentInv
<1>18. CopyInv'
  BY <1>4, <1>13 DEF CopyInv, Inside, Threads
<1> QED BY <1>12, <1>14, <1>15, <1>16, <1>17, <1>18 DEF IInv

\* A round of read() copies bytes that are waiting in the buffer.
LEMMA ReadCopyInv == ASSUME IInv, NEW r \in Readers, ReadCopy(r) PROVE IInv'
<1>1. PICK n : n = ReadSize(remaining[r])
  OBVIOUS
<1> DEFINE copied == [j \in 1..n |-> buffer[outPosition + j - 1]]
<1>2. /\ pc[r] = "readCopy" /\ inPosition >= 0
      /\ taken' = [taken EXCEPT ![r] = copied] /\ toCopy' = [toCopy EXCEPT ![r] = n]
      /\ pc' = [pc EXCEPT ![r] = "readMove"]
      /\ buffer' = buffer /\ inPosition' = inPosition /\ outPosition' = outPosition
      /\ lock' = lock /\ peekedCharacter' = peekedCharacter /\ remaining' = remaining
      /\ call' = call /\ result' = result /\ next' = next
      /\ sent' = sent /\ received' = received /\ delivered' = delivered
  BY <1>1 DEF ReadCopy, Goto, ring, history
<1>3. TypeOK /\ LockInv /\ CallInv /\ PositionInv /\ ContentInv
  BY DEF IInv
<1>4. /\ r \in Threads /\ \A t \in Threads : t # r => pc[t] \notin Inside
      /\ \A w \in Writers : pc[w] # "writeMove"
  BY <1>2, <1>3, PipeAssumption DEF LockInv, Inside, Threads
<1>5. /\ Used \in Int /\ Len(sent) \in Nat /\ Len(received) \in Nat /\ outPosition \in Positions
      /\ Used = Len(sent) - Len(received) /\ remaining[r] \in Nat \ {0}
  BY <1>2, <1>3, <1>4, UsedType DEF TypeOK, CallInv, Used
<1>6. Used \in 1..BufferSize /\ inPosition = Place(Used)
  BY <1>2, <1>3, <1>4, <1>5 DEF PositionInv
<1>7. n \in Nat /\ n \in 1..remaining[r] /\ n <= Used /\ outPosition + n <= BufferSize
  <2>1. n = Smaller(remaining[r], IF outPosition < inPosition THEN inPosition - outPosition
                                                              ELSE BufferSize - outPosition)
    BY <1>1 DEF ReadSize
  <2>2. inPosition = At(outPosition, Used)
    BY <1>6 DEF Place
  <2>3. n \in 1..remaining[r] /\ n <= Used /\ outPosition + n <= BufferSize
    BY <1>5, <1>6, <2>1, <2>2, BytesToRead
  <2> QED BY <1>5, <2>3
<1>8. ASSUME NEW j \in 1..n
      PROVE  /\ buffer[outPosition + j - 1] = sent[Len(received) + j]
             /\ buffer[outPosition + j - 1] \in Bytes
  <2>1. /\ j - 1 \in 0..(Used - 1) /\ Place(j - 1) = outPosition + j - 1
        /\ Len(received) + (j - 1) + 1 = Len(received) + j
        /\ Len(received) + j \in 1..Len(sent)
    BY <1>5, <1>7, PipeAssumption DEF Place, At, Positions
  <2>2. buffer[outPosition + j - 1] = sent[Len(received) + j]
    BY <1>3, <2>1 DEF ContentInv
  <2> QED BY <1>3, <2>1, <2>2 DEF TypeOK
<1>9. copied \in Seq(Bytes) /\ Len(copied) = n /\ \A j \in 1..n : copied[j] = sent[Len(received) + j]
  BY <1>7, <1>8
<1> HIDE DEF copied
<1>10. TypeOK'
  BY <1>2, <1>3, <1>7, <1>9 DEF TypeOK, Labels
<1>11. /\ pc'[r] = "readMove" /\ toCopy'[r] = n /\ taken'[r] = copied
       /\ \A t \in Threads : t # r => pc'[t] = pc[t]
  BY <1>2, <1>3, <1>4 DEF TypeOK
<1>12. LockInv'
  BY <1>2, <1>3, <1>4, <1>11 DEF LockInv, Inside
<1>13. CallInv'
  BY <1>2, <1>3, <1>5, <1>11, PipeAssumption DEF CallInv, Threads
<1>14. Used' = Used /\ \A k : Place(k)' = Place(k)
  BY <1>2 DEF Used, Place, At
<1>15. PositionInv'
  BY <1>2, <1>3, <1>6, <1>14 DEF PositionInv
<1>16. ContentInv'
  BY <1>2, <1>3, <1>14 DEF ContentInv
<1>17. CopyInv'
  <2>1. /\ \A w \in Writers : pc'[w] # "writeMove"
        /\ \A q \in Readers : pc'[q] = "readMove" => q = r
    BY <1>4, <1>11, PipeAssumption DEF Inside, Threads
  <2> QED BY <1>2, <1>7, <1>9, <1>11, <1>14, <2>1 DEF CopyInv
<1> QED BY <1>10, <1>12, <1>13, <1>15, <1>16, <1>17 DEF IInv

\* The end of the round: what it copied has been received.
LEMMA ReadMoveInv == ASSUME IInv, NEW r \in Readers, ReadMove(r) PROVE IInv'
<1> DEFINE Byte(k) == taken[r][k + 1]
<1>1. PICK n, p : n = toCopy[r] /\ p = Wrap(outPosition + n)
  OBVIOUS
<1>2. /\ pc[r] = "readMove" /\ received' = Extend(received, n, Byte)
      /\ inPosition' = AfterRead(p).in /\ outPosition' = AfterRead(p).out
      /\ remaining' = [remaining EXCEPT ![r] = remaining[r] - n]
      /\ toCopy' = [toCopy EXCEPT ![r] = 0] /\ taken' = [taken EXCEPT ![r] = <<>>]
      /\ buffer' = buffer /\ peekedCharacter' = peekedCharacter /\ call' = call
      /\ next' = next /\ sent' = sent
  BY <1>1 DEF ReadMove
<1>3. IF call[r] = "bulk" THEN delivered' = Extend(delivered, n, Byte) /\ result' = result
                          ELSE delivered' = delivered /\ result' = [result EXCEPT ![r] = Byte(0)]
  BY <1>1 DEF ReadMove
<1>4. \/ /\ lock' = NoThread
         /\ pc' = [pc EXCEPT ![r] = IF call[r] = "bulk" THEN "idle" ELSE "return"]
      \/ remaining[r] # n /\ lock' = lock /\ pc' = [pc EXCEPT ![r] = "readCopy"]
  BY <1>1 DEF ReadMove, Release, Goto
<1>5. TypeOK /\ LockInv /\ CallInv /\ PositionInv /\ ContentInv
  BY DEF IInv
<1>6. r \in Threads /\ lock = r /\ \A t \in Threads : t # r => pc[t] \notin Inside
  BY <1>2, <1>5 DEF LockInv, Inside, Threads
<1>7. /\ n \in Nat \ {0} /\ remaining[r] \in Nat /\ n <= remaining[r] /\ n <= Used
      /\ outPosition + n <= BufferSize
      /\ \A j \in 1..n : taken[r][j] = sent[Len(received) + j]
  BY <1>1, <1>2, <1>6 DEF IInv, TypeOK, CopyInv
<1>8. /\ Used \in Int /\ Len(sent) \in Nat /\ Len(received) \in Nat /\ outPosition \in Positions
      /\ Used = Len(sent) - Len(received)
  BY <1>5, UsedType DEF TypeOK, Used
<1>9. ASSUME NEW k \in 0..(n - 1)
      PROVE  /\ Byte(k) = sent[Len(received) + k + 1] /\ Byte(k) \in Bytes
             /\ Len(received) + k + 1 \in 1..Len(sent)
  <2>1. k + 1 \in 1..n /\ Len(received) + (k + 1) = Len(received) + k + 1
    BY <1>7, <1>8
  <2>2. Len(received) + k + 1 \in 1..Len(sent)
    BY <1>7, <1>8
  <2>3. Byte(k) = sent[Len(received) + k + 1]
    BY <1>7, <2>1
  <2> QED BY <1>5, <2>2, <2>3 DEF TypeOK
<1>10. Byte(0) \in Bytes
  <2>1. 0 \in 0..(n - 1)
    BY <1>7
  <2> HIDE DEF Byte
  <2> QED BY <1>9, <2>1
<1> HIDE DEF Byte
<1>11. /\ received' \in Seq(Bytes) /\ Len(received') = Len(received) + n
       /\ \A j \in 1..Len(received) : received'[j] = received[j]
       /\ \A k \in 0..(n - 1) : received'[Len(received) + k + 1] = Byte(k)
       /\ Extend(delivered, n, Byte) \in Seq(Bytes)
  <2>1. n \in Nat /\ received \in Seq(Bytes) /\ delivered \in Seq(Bytes)
    BY <1>5, <1>7 DEF TypeOK
  <2>2. \A k \in 0..(n - 1) : Byte(k) \in Bytes
    BY <1>9
  <2> DEFINE f == [k \in 0..(n - 1) |-> Byte(k)]
  <2>3. f \in [0..(n - 1) -> Bytes]
    BY <2>2
  <2>4. received' = [j \in 1..(Len(received) + n) |->
                       IF j <= Len(received) THEN received[j] ELSE f[j - Len(received) - 1]]
    BY <1>2, <2>1 DEF Extend
  <2>5. Extend(delivered, n, Byte) =
          [j \in 1..(Len(delivered) + n) |->
             IF j <= Len(delivered) THEN delivered[j] ELSE f[j - Len(delivered) - 1]]
    BY <2>1 DEF Extend
  <2>6. \A k \in 0..(n - 1) : f[k] = Byte(k)
    OBVIOUS
  <2> HIDE DEF f
  <2>7. Extend(delivered, n, Byte) \in Seq(Bytes)
    BY <2>1, <2>3, <2>5, ExtendType
  <2>8. /\ received' \in Seq(Bytes) /\ Len(received') = Len(received) + n
        /\ \A j \in 1..Len(received) : received'[j] = received[j]
        /\ \A k \in 0..(n - 1) : received'[Len(received) + k + 1] = f[k]
    BY <2>1, <2>3, <2>4, ExtendType
  <2> QED BY <2>6, <2>7, <2>8
<1>12. Used \in 1..BufferSize /\ inPosition = Place(Used) /\ Used' = Used - n
  BY <1>2, <1>5, <1>7, <1>8, <1>11 DEF PositionInv, Used
<1>13. /\ inPosition \in Positions
       /\ n = Used => p = inPosition
       /\ n < Used => /\ p # inPosition /\ p \in Positions
                      /\ inPosition = At(p, Used - n)
                      /\ \A k \in 0..(Used - n - 1) : At(p, k) = At(outPosition, n + k)
  <2>1. n \in 1..Used
    BY <1>7, <1>8
  <2> QED BY <2>1, <1>1, <1>7, <1>8, <1>12, ReadAdvances DEF Place
<1>14. /\ n = Used => inPosition' = -1 /\ outPosition' = 0
       /\ n < Used => inPosition' = inPosition /\ outPosition' = p
  BY <1>2, <1>7, <1>8, <1>13 DEF AfterRead
<1>15. n = Used \/ n < Used
  BY <1>7, <1>8
<1>16. TypeOK'
  <2>1. inPosition' \in Positions \cup {-1} /\ outPosition' \in Positions
    BY <1>13, <1>14, <1>15, PipeAssumption DEF Positions
  <2>2. delivered' \in Seq(Bytes) /\ result' \in [Readers -> Bytes \cup {NoByte}]
    BY <1>3, <1>5, <1>10, <1>11 DEF TypeOK
  <2>3. /\ remaining' \in [Threads -> Nat] /\ toCopy' \in [Threads -> Nat]
        /\ taken' \in [Readers -> Seq(Bytes)]
    <3>1. remaining[r] - n \in Nat /\ <<>> \in Seq(Bytes)
      BY <1>7
    <3> QED BY <1>2, <1>5, <3>1 DEF TypeOK
  <2>4. lock' \in Threads \cup {NoThread} /\ pc' \in [Threads -> Labels]
    BY <1>4, <1>5 DEF TypeOK, Labels
  <2> QED BY <1>2, <1>5, <1>11, <2>1, <2>2, <2>3, <2>4 DEF TypeOK
<1>17. /\ \A t \in Threads : t # r => pc'[t] = pc[t]
       /\ \/ lock' = NoThread /\ pc'[r] = "idle"
          \/ lock' = NoThread /\ pc'[r] = "return" /\ call[r] # "bulk"
          \/ lock' = r /\ pc'[r] = "readCopy" /\ remaining[r] # n
  BY <1>4, <1>5, <1>6 DEF TypeOK
<1>18. LockInv'
  BY <1>5, <1>6, <1>17, PipeAssumption DEF LockInv, Inside, Threads
<1>19. CallInv'
  <2>1. \A w \in Writers : pc'[w] = pc[w]
    BY <1>17, PipeAssumption DEF Threads
  <2>2. ASSUME NEW q \in Readers, q # r
        PROVE  pc'[q] = pc[q] /\ remaining'[q] = remaining[q] /\ result'[q] = result[q]
    BY <1>2, <1>3, <1>5, <1>17, <2>2 DEF Threads, TypeOK
  <2>3. remaining'[r] = remaining[r] - n /\ (call[r] # "bulk" => result'[r] = Byte(0))
    BY <1>2, <1>3, <1>5, <1>6 DEF TypeOK
  <2>4. remaining[r] # n => remaining'[r] > 0
    BY <1>7, <2>3
  <2> QED BY <1>5, <1>10, <1>17, <2>1, <2>2, <2>3, <2>4 DEF CallInv
<1>20. PositionInv'
  <2>1. CASE n = Used
    BY <2>1, <1>7, <1>8, <1>12, <1>14, PipeAssumption DEF PositionInv
  <2>2. CASE n < Used
    <3>1. Used' \in 1..BufferSize
      BY <2>2, <1>7, <1>8, <1>12, PipeAssumption
    <3>2. inPosition' = Place(Used)'
      BY <2>2, <1>12, <1>13, <1>14 DEF Place
    <3> QED BY <3>1, <3>2 DEF PositionInv
  <2> QED BY <1>15, <2>1, <2>2
<1>21. ContentInv'
  <2>1. ASSUME NEW i \in 1..(Len(received) + n) PROVE received'[i] = sent[i]
    <3>1. CASE i <= Len(received)
      BY <3>1, <1>5, <1>7, <1>8, <1>11 DEF ContentInv
    <3>2. CASE i > Len(received)
      <4>1. i - Len(received) - 1 \in 0..(n - 1) /\ i = Len(received) + (i - Len(received) - 1) + 1
        BY <3>2, <1>7, <1>8
      <4> QED BY <4>1, <1>9, <1>11
    <3> QED BY <3>1, <3>2, <1>7, <1>8
  <2>2. ASSUME NEW k \in 0..(Used - n - 1)
        PROVE  buffer[Place(k)'] = sent[Len(received) + n + k + 1]
    <3>1. n < Used /\ n + k \in 0..(Used - 1)
      BY <1>7, <1>8
    <3>2. Place(k)' = Place(n + k)
      BY <3>1, <1>13, <1>14 DEF Place
    <3>3. Len(received) + n + k + 1 = Len(received) + (n + k) + 1
      BY <1>7, <1>8
    <3> QED BY <3>1, <3>2, <3>3, <1>5 DEF ContentInv
  <2> QED BY <1>2, <1>11, <1>12, <2>1, <2>2 DEF ContentInv
<1>22. CopyInv'
  BY <1>6, <1>17 DEF CopyInv, Inside, Threads
<1> QED BY <1>16, <1>18, <1>19, <1>20, <1>21, <1>22 DEF IInv

-----------------------------------------------------------------------------
\* A step that does not touch the ring, of a thread that is neither before nor
\* after it in the middle of a round.
LEMMA OutsideRound ==
  ASSUME IInv, UNCHANGED <<buffer, inPosition, outPosition, sent, received, next>>,
         NEW t \in Threads, pc[t] \notin {"writeMove", "readMove"},
         pc'[t] \notin {"writeMove", "readMove"},
         \A u \in Threads : u # t =>
           /\ pc'[u] = pc[u] /\ toCopy'[u] = toCopy[u] /\ remaining'[u] = remaining[u]
           /\ u \in Readers => taken'[u] = taken[u]
  PROVE  PositionInv' /\ ContentInv' /\ CopyInv'
<1>1. Used' = Used /\ \A k : Place(k)' = Place(k)
  BY DEF Used, Place, At
<1>2. \A w \in Writers : pc'[w] = "writeMove" <=> pc[w] = "writeMove"
  BY DEF Threads
<1>3. PositionInv'
  BY <1>1, <1>2 DEF IInv, PositionInv
<1>4. ContentInv'
  BY <1>1 DEF IInv, ContentInv
<1>5. ASSUME NEW w \in Writers, pc'[w] = "writeMove"
      PROVE  pc[w] = "writeMove" /\ toCopy'[w] = toCopy[w] /\ remaining'[w] = remaining[w]
  BY <1>5 DEF Threads
<1>6. ASSUME NEW r \in Readers, pc'[r] = "readMove"
      PROVE  /\ pc[r] = "readMove" /\ toCopy'[r] = toCopy[r] /\ remaining'[r] = remaining[r]
             /\ taken'[r] = taken[r]
  BY <1>6 DEF Threads
<1>7. CopyInv'
  BY <1>1, <1>5, <1>6 DEF IInv, CopyInv
<1> QED BY <1>3, <1>4, <1>7

\* One round of a copy loop, or any other step.
LEMMA StepInv == IInv /\ [Next]_vars => IInv'
<1> SUFFICES ASSUME IInv, [Next]_vars PROVE IInv'
  OBVIOUS
<1> USE PipeAssumption, NoByteAssumption
<1> USE DEF IInv, Goto, ring, locals, history, Threads
<1>1. ASSUME NEW w \in Writers, NEW n \in Lengths, WriteBegin(w, n) PROVE IInv'
  <2> USE <1>1 DEF WriteBegin
  <2>1. TypeOK'
    BY DEF TypeOK, CallInv, Labels, Positions
  <2>2. LockInv'
    BY DEF TypeOK, LockInv, CallInv, Inside
  <2>3. CallInv'
    BY DEF TypeOK, CallInv
  <2>4. PositionInv' /\ ContentInv' /\ CopyInv'
    <3>1. UNCHANGED <<buffer, inPosition, outPosition, sent, received, next>>
      OBVIOUS
    <3>2. /\ w \in Threads /\ pc[w] \notin {"writeMove", "readMove"}
          /\ pc'[w] \notin {"writeMove", "readMove"}
      BY DEF TypeOK
    <3>3. \A u \in Threads : u # w =>
            /\ pc'[u] = pc[u] /\ toCopy'[u] = toCopy[u] /\ remaining'[u] = remaining[u]
            /\ u \in Readers => taken'[u] = taken[u]
      BY DEF TypeOK
    <3> QED BY <3>1, <3>2, <3>3, OutsideRound
  <2> QED BY <2>1, <2>2, <2>3, <2>4
<1>2. ASSUME NEW w \in Writers, WriteLock(w) PROVE IInv'
  <2> USE <1>2 DEF WriteLock, Acquire
  <2>1. TypeOK'
    BY DEF TypeOK, CallInv, Labels, Positions
  <2>2. LockInv'
    BY DEF TypeOK, LockInv, CallInv, Inside
  <2>3. CallInv'
    BY DEF TypeOK, CallInv
  <2>4. PositionInv' /\ ContentInv' /\ CopyInv'
    <3>1. UNCHANGED <<buffer, inPosition, outPosition, sent, received, next>>
      OBVIOUS
    <3>2. /\ w \in Threads /\ pc[w] \notin {"writeMove", "readMove"}
          /\ pc'[w] \notin {"writeMove", "readMove"}
      BY DEF TypeOK
    <3>3. \A u \in Threads : u # w =>
            /\ pc'[u] = pc[u] /\ toCopy'[u] = toCopy[u] /\ remaining'[u] = remaining[u]
            /\ u \in Readers => taken'[u] = taken[u]
      BY DEF TypeOK
    <3> QED BY <3>1, <3>2, <3>3, OutsideRound
  <2> QED BY <2>1, <2>2, <2>3, <2>4
<1>3. ASSUME NEW w \in Writers, WriteWait(w) PROVE IInv'
  <2> USE <1>3 DEF WriteWait, Release
  <2>1. TypeOK'
    BY DEF TypeOK, CallInv, Labels, Positions
  <2>2. LockInv'
    BY DEF TypeOK, LockInv, CallInv, Inside
  <2>3. CallInv'
    BY DEF TypeOK, CallInv
  <2>4. PositionInv' /\ ContentInv' /\ CopyInv'
    <3>1. UNCHANGED <<buffer, inPosition, outPosition, sent, received, next>>
      OBVIOUS
    <3>2. /\ w \in Threads /\ pc[w] \notin {"writeMove", "readMove"}
          /\ pc'[w] \notin {"writeMove", "readMove"}
      BY DEF TypeOK
    <3>3. \A u \in Threads : u # w =>
            /\ pc'[u] = pc[u] /\ toCopy'[u] = toCopy[u] /\ remaining'[u] = remaining[u]
            /\ u \in Readers => taken'[u] = taken[u]
      BY DEF TypeOK
    <3> QED BY <3>1, <3>2, <3>3, OutsideRound
  <2> QED BY <2>1, <2>2, <2>3, <2>4
<1>4. ASSUME NEW w \in Writers, WriteCopy(w) PROVE IInv'
  BY <1>4, WriteCopyInv DEF IInv
<1>5. ASSUME NEW w \in Writers, WriteMove(w) PROVE IInv'
  BY <1>5, WriteMoveInv DEF IInv
<1>6. ASSUME NEW w \in Writers, WriteEnd(w) PROVE IInv'
  <2> USE <1>6 DEF WriteEnd, Release
  <2>1. TypeOK'
    BY DEF TypeOK, CallInv, Labels, Positions
  <2>2. LockInv'
    BY DEF TypeOK, LockInv, CallInv, Inside
  <2>3. CallInv'
    BY DEF TypeOK, CallInv
  <2>4. PositionInv' /\ ContentInv' /\ CopyInv'
    <3>1. UNCHANGED <<buffer, inPosition, outPosition, sent, received, next>>
      OBVIOUS
    <3>2. /\ w \in Threads /\ pc[w] \notin {"writeMove", "readMove"}
          /\ pc'[w] \notin {"writeMove", "readMove"}
      BY DEF TypeOK
    <3>3. \A u \in Threads : u # w =>
            /\ pc'[u] = pc[u] /\ toCopy'[u] = toCopy[u] /\ remaining'[u] = remaining[u]
            /\ u \in Readers => taken'[u] = taken[u]
      BY DEF TypeOK
    <3> QED BY <3>1, <3>2, <3>3, OutsideRound
  <2> QED BY <2>1, <2>2, <2>3, <2>4
<1>7. ASSUME NEW r \in Readers, NEW n \in Lengths, ReadBegin(r, n) PROVE IInv'
  <2> USE <1>7 DEF ReadBegin, StartRead
  <2>1. TypeOK'
    BY DEF TypeOK, CallInv, Labels, Positions
  <2>2. LockInv'
    BY DEF TypeOK, LockInv, CallInv, Inside
  <2>3. CallInv'
    BY DEF TypeOK, CallInv
  <2>4. PositionInv' /\ ContentInv' /\ CopyInv'
    <3>1. UNCHANGED <<buffer, inPosition, outPosition, sent, received, next>>
      OBVIOUS
    <3>2. /\ r \in Threads /\ pc[r] \notin {"writeMove", "readMove"}
          /\ pc'[r] \notin {"writeMove", "readMove"}
      BY DEF TypeOK
    <3>3. \A u \in Threads : u # r =>
            /\ pc'[u] = pc[u] /\ toCopy'[u] = toCopy[u] /\ remaining'[u] = remaining[u]
            /\ u \in Readers => taken'[u] = taken[u]
      BY DEF TypeOK
    <3> QED BY <3>1, <3>2, <3>3, OutsideRound
  <2> QED BY <2>1, <2>2, <2>3, <2>4
<1>8. ASSUME NEW r \in Readers, ByteBegin(r) PROVE IInv'
  <2> USE <1>8 DEF ByteBegin, StartRead
  <2>1. TypeOK'
    <3>1. /\ pc' \in [Threads -> Labels] /\ remaining' \in [Threads -> Nat]
          /\ call' \in [Readers -> {"bulk", "byte", "peek"}]
      <4>1. \/ UNCHANGED <<pc, remaining, call>>
            \/ /\ pc' = [pc EXCEPT ![r] = "readLock"] /\ remaining' = [remaining EXCEPT ![r] = 1]
               /\ call' = [call EXCEPT ![r] = "byte"]
        OBVIOUS
      <4>2. /\ pc \in [Threads -> Labels] /\ remaining \in [Threads -> Nat]
            /\ call \in [Readers -> {"bulk", "byte", "peek"}]
        BY DEF TypeOK
      <4> HIDE <1>8
      <4>3. CASE UNCHANGED <<pc, remaining, call>>
        BY <4>2, <4>3
      <4>4. CASE ~UNCHANGED <<pc, remaining, call>>
        BY <4>1, <4>2, <4>4 DEF Labels
      <4> QED BY <4>3, <4>4
    <3>2. peekedCharacter' \in Bytes \cup {NoByte}
      BY DEF TypeOK
    <3>3. delivered' = delivered \/ (peekedCharacter \in Bytes /\ delivered' = Append(delivered, peekedCharacter))
      BY DEF TypeOK
    <3>4. delivered' \in Seq(Bytes)
      <4>1. delivered \in Seq(Bytes)
        BY DEF TypeOK
      <4> HIDE <1>8
      <4> QED BY <3>3, <4>1, AppendProperties
    <3> QED BY <3>1, <3>2, <3>4 DEF TypeOK
  <2>2. LockInv'
    BY DEF TypeOK, LockInv, CallInv, Inside
  <2>3. CallInv'
    <3>1. CASE peekedCharacter = NoByte
      <4>1. /\ \A t \in Threads : t # r => pc'[t] = pc[t] /\ remaining'[t] = remaining[t]
            /\ pc'[r] = "readLock" /\ remaining'[r] = 1 /\ result' = result
        BY <3>1 DEF TypeOK
      <4> QED BY <4>1 DEF CallInv
    <3>2. CASE peekedCharacter # NoByte
      BY <3>2 DEF CallInv
    <3> QED BY <3>1, <3>2
  <2>4. PositionInv' /\ ContentInv' /\ CopyInv'
    <3>1. UNCHANGED <<buffer, inPosition, outPosition, sent, received, next>>
      OBVIOUS
    <3>2. /\ r \in Threads /\ pc[r] \notin {"writeMove", "readMove"}
          /\ pc'[r] \notin {"writeMove", "readMove"}
      BY DEF TypeOK
    <3>3. \A u \in Threads : u # r =>
            /\ pc'[u] = pc[u] /\ toCopy'[u] = toCopy[u] /\ remaining'[u] = remaining[u]
            /\ u \in Readers => taken'[u] = taken[u]
      BY DEF TypeOK
    <3> QED BY <3>1, <3>2, <3>3, OutsideRound
  <2> QED BY <2>1, <2>2, <2>3, <2>4
<1>9. ASSUME NEW r \in Readers, PeekBegin(r) PROVE IInv'
  <2> USE <1>9 DEF PeekBegin, StartRead
  <2>1. TypeOK'
    BY DEF TypeOK, CallInv, Labels, Positions
  <2>2. LockInv'
    BY DEF TypeOK, LockInv, CallInv, Inside
  <2>3. CallInv'
    BY DEF TypeOK, CallInv
  <2>4. PositionInv' /\ ContentInv' /\ CopyInv'
    <3>1. UNCHANGED <<buffer, inPosition, outPosition, sent, received, next>>
      OBVIOUS
    <3>2. /\ r \in Threads /\ pc[r] \notin {"writeMove", "readMove"}
          /\ pc'[r] \notin {"writeMove", "readMove"}
      BY DEF TypeOK
    <3>3. \A u \in Threads : u # r =>
            /\ pc'[u] = pc[u] /\ toCopy'[u] = toCopy[u] /\ remaining'[u] = remaining[u]
            /\ u \in Readers => taken'[u] = taken[u]
      BY DEF TypeOK
    <3> QED BY <3>1, <3>2, <3>3, OutsideRound
  <2> QED BY <2>1, <2>2, <2>3, <2>4
<1>10. ASSUME NEW r \in Readers, ReadLock(r) PROVE IInv'
  <2> USE <1>10 DEF ReadLock, Acquire
  <2>1. TypeOK'
    BY DEF TypeOK, CallInv, Labels, Positions
  <2>2. LockInv'
    BY DEF TypeOK, LockInv, CallInv, Inside
  <2>3. CallInv'
    BY DEF TypeOK, CallInv
  <2>4. PositionInv' /\ ContentInv' /\ CopyInv'
    <3>1. UNCHANGED <<buffer, inPosition, outPosition, sent, received, next>>
      OBVIOUS
    <3>2. /\ r \in Threads /\ pc[r] \notin {"writeMove", "readMove"}
          /\ pc'[r] \notin {"writeMove", "readMove"}
      BY DEF TypeOK
    <3>3. \A u \in Threads : u # r =>
            /\ pc'[u] = pc[u] /\ toCopy'[u] = toCopy[u] /\ remaining'[u] = remaining[u]
            /\ u \in Readers => taken'[u] = taken[u]
      BY DEF TypeOK
    <3> QED BY <3>1, <3>2, <3>3, OutsideRound
  <2> QED BY <2>1, <2>2, <2>3, <2>4
<1>11. ASSUME NEW r \in Readers, ReadWait(r) PROVE IInv'
  <2> USE <1>11 DEF ReadWait, Release
  <2>1. TypeOK'
    BY DEF TypeOK, CallInv, Labels, Positions
  <2>2. LockInv'
    BY DEF TypeOK, LockInv, CallInv, Inside
  <2>3. CallInv'
    BY DEF TypeOK, CallInv
  <2>4. PositionInv' /\ ContentInv' /\ CopyInv'
    <3>1. UNCHANGED <<buffer, inPosition, outPosition, sent, received, next>>
      OBVIOUS
    <3>2. /\ r \in Threads /\ pc[r] \notin {"writeMove", "readMove"}
          /\ pc'[r] \notin {"writeMove", "readMove"}
      BY DEF TypeOK
    <3>3. \A u \in Threads : u # r =>
            /\ pc'[u] = pc[u] /\ toCopy'[u] = toCopy[u] /\ remaining'[u] = remaining[u]
            /\ u \in Readers => taken'[u] = taken[u]
      BY DEF TypeOK
    <3> QED BY <3>1, <3>2, <3>3, OutsideRound
  <2> QED BY <2>1, <2>2, <2>3, <2>4
<1>12. ASSUME NEW r \in Readers, ReadCopy(r) PROVE IInv'
  BY <1>12, ReadCopyInv DEF IInv
<1>13. ASSUME NEW r \in Readers, ReadMove(r) PROVE IInv'
  BY <1>13, ReadMoveInv DEF IInv
<1>14. ASSUME NEW r \in Readers, Return(r) PROVE IInv'
  <2> USE <1>14 DEF Return
  <2>1. TypeOK'
    <3>1. result[r] \in Bytes
      BY DEF CallInv
    <3>2. delivered' \in Seq(Bytes) /\ peekedCharacter' \in Bytes \cup {NoByte}
      <4>1. delivered' = delivered \/ delivered' = Append(delivered, result[r])
        OBVIOUS
      <4>2. delivered' \in Seq(Bytes)
        <5>1. delivered \in Seq(Bytes)
          BY DEF TypeOK
        <5> HIDE <1>14
        <5> QED BY <3>1, <4>1, <5>1, AppendProperties
      <4>3. peekedCharacter' \in Bytes \cup {NoByte}
        BY <3>1 DEF TypeOK
      <4> QED BY <4>2, <4>3
    <3>3. pc' \in [Threads -> Labels] /\ result' \in [Readers -> Bytes \cup {NoByte}]
      BY DEF TypeOK, Labels
    <3> QED BY <3>2, <3>3 DEF TypeOK
  <2>2. LockInv'
    BY DEF TypeOK, LockInv, CallInv, Inside
  <2>3. CallInv'
    BY DEF TypeOK, CallInv
  <2>4. PositionInv' /\ ContentInv' /\ CopyInv'
    <3>1. UNCHANGED <<buffer, inPosition, outPosition, sent, received, next>>
      OBVIOUS
    <3>2. /\ r \in Threads /\ pc[r] \notin {"writeMove", "readMove"}
          /\ pc'[r] \notin {"writeMove", "readMove"}
      BY DEF TypeOK
    <3>3. \A u \in Threads : u # r =>
            /\ pc'[u] = pc[u] /\ toCopy'[u] = toCopy[u] /\ remaining'[u] = remaining[u]
            /\ u \in Readers => taken'[u] = taken[u]
      BY DEF TypeOK
    <3> QED BY <3>1, <3>2, <3>3, OutsideRound
  <2> QED BY <2>1, <2>2, <2>3, <2>4
<1>15. CASE UNCHANGED vars
  <2> USE <1>15 DEF vars
  <2>1. TypeOK' /\ LockInv' /\ CallInv'
    BY DEF TypeOK, LockInv, CallInv
  <2>2. PositionInv' /\ ContentInv'
    BY DEF PositionInv, ContentInv, Used, Place, At
  <2>3. CopyInv'
    BY DEF CopyInv, Used
  <2> QED BY <2>1, <2>2, <2>3
<1> QED
  BY <1>1, <1>2, <1>3, <1>4, <1>5, <1>6, <1>7, <1>8, <1>9, <1>10, <1>11, <1>12, <1>13, <1>14, <1>15
  DEF Next, WriteStep, ReadStep, ReadCall

-----------------------------------------------------------------------------
\* The positions, the buffer and what the threads have copied always agree with
\* what was written and read.
THEOREM InvHolds == Spec => []IInv
<1>1. Init => IInv
  BY InitInv
<1>2. IInv /\ [Next]_vars => IInv'
  BY StepInv
<1> QED BY <1>1, <1>2, PTL DEF Spec

\* Whoever can take the lock is told by available() how much was written and not
\* yet read.
THEOREM AvailableIsExact == Spec => []AvailableExact
<1>1. IInv => AvailableExact
  <2> SUFFICES ASSUME IInv, lock = NoThread PROVE Available = Used
    BY DEF AvailableExact, Used
  <2>1. \A w \in Writers : pc[w] # "writeMove"
    BY PipeAssumption DEF IInv, LockInv, Inside, Threads
  <2>2. Used \in Int /\ outPosition \in Positions /\ inPosition \in Positions \cup {-1}
    BY UsedType DEF IInv, TypeOK
  <2>3. CASE Used = 0
    BY <2>1, <2>3 DEF IInv, PositionInv, Available
  <2>4. CASE Used # 0
    <3>1. Used \in 1..BufferSize /\ inPosition = At(outPosition, Used)
      BY <2>2, <2>4 DEF IInv, PositionInv, Place
    <3> QED BY <2>2, <3>1, PipeAssumption DEF Available, At, Positions
  <2> QED BY <2>3, <2>4
<1> QED BY <1>1, InvHolds, PTL

\* The end of a round of write() appends to what was sent.
LEMMA SendsInOrder ==
  ASSUME IInv, IInv', NEW w \in Writers, WriteMove(w) PROVE Fifo!Send
<1> DEFINE Byte(k) == <<w, next[w] + k>>
<1>0. PICK n : n = toCopy[w]
  OBVIOUS
<1>1. sent' = Extend(sent, n, Byte) /\ received' = received /\ pc[w] = "writeMove"
  BY <1>0 DEF WriteMove
<1>2. n \in Nat \ {0} /\ sent \in Seq(Bytes) /\ sent' \in Seq(Bytes) /\ received \in Seq(Bytes)
  <2>1. n \in 1..remaining[w] /\ remaining[w] \in Nat
    BY <1>0, <1>1 DEF IInv, TypeOK, CopyInv, Threads
  <2> QED BY <2>1 DEF IInv, TypeOK
<1> HIDE DEF Byte
<1>3. Len(sent') = Len(sent) + n /\ \A j \in 1..Len(sent) : sent'[j] = sent[j]
  BY <1>1, <1>2 DEF Extend
<1>4. Len(sent') - Len(received) <= BufferSize /\ n \in 1..BufferSize
  <2>1. Len(sent) - Len(received) \in 0..BufferSize /\ Len(sent') - Len(received') \in 0..BufferSize
    BY DEF IInv, PositionInv, Used
  <2>2. Len(sent) \in Nat /\ Len(received) \in Nat /\ BufferSize \in Nat
    BY <1>2, PipeAssumption
  <2> QED BY <1>1, <1>2, <1>3, <2>1, <2>2
<1>5. SubSeq(sent', 1, Len(sent)) = sent
  <2>1. SubSeq(sent', 1, Len(sent)) = [j \in 1..Len(sent) |-> sent'[j]]
    BY <1>2, <1>3 
  <2> QED BY <1>2, <1>3, <2>1
<1> QED BY <1>1, <1>3, <1>4, <1>5 DEF Fifo!Send

\* The end of a round of read() takes the next bytes of what was sent.
LEMMA ReceivesInOrder ==
  ASSUME IInv, IInv', NEW r \in Readers, ReadMove(r) PROVE Fifo!Receive
<1> DEFINE Byte(k) == taken[r][k + 1]
<1>0. PICK n : n = toCopy[r]
  OBVIOUS
<1>1. sent' = sent /\ received' = Extend(received, n, Byte) /\ pc[r] = "readMove"
  BY <1>0 DEF ReadMove
<1>2. /\ n \in Nat \ {0} /\ sent \in Seq(Bytes) /\ received' \in Seq(Bytes)
      /\ received \in Seq(Bytes)
  <2>1. n \in 1..remaining[r] /\ remaining[r] \in Nat
    BY <1>0, <1>1 DEF IInv, TypeOK, CopyInv, Threads
  <2> QED BY <2>1 DEF IInv, TypeOK
<1> HIDE DEF Byte
<1>3. Len(received') = Len(received) + n
  BY <1>1, <1>2 DEF Extend
<1>4. Len(received) + n <= Len(sent) /\ n \in 1..BufferSize
  <2>1. Len(sent) - Len(received) \in 0..BufferSize /\ Len(sent') - Len(received') \in 0..BufferSize
    BY DEF IInv, PositionInv, Used
  <2>2. Len(sent) \in Nat /\ Len(received) \in Nat /\ BufferSize \in Nat
    BY <1>2, PipeAssumption
  <2> QED BY <1>1, <1>2, <1>3, <2>1, <2>2
<1>5. received' = SubSeq(sent, 1, Len(received) + n)
  <2>1. SubSeq(sent, 1, Len(received')) = [j \in 1..Len(received') |-> sent[j]]
    BY <1>2, <1>3, <1>4
  <2>2. \A j \in 1..Len(received') : received'[j] = sent[j]
    BY <1>1 DEF IInv, ContentInv
  <2> QED BY <1>2, <1>3, <2>1, <2>2
<1> QED BY <1>1, <1>4, <1>5 DEF Fifo!Receive

\* The ring buffer is a FIFO channel, whatever its size and however many threads
\* write to it and read from it.
THEOREM Refinement == Spec => ImplementsChannel
<1>1. Init => Fifo!Init
  BY DEF Init, Fifo!Init
<1>2. ASSUME IInv, IInv', [Next]_vars PROVE [Fifo!Next]_<<sent, received>>
  <2>1. ASSUME NEW w \in Writers, WriteMove(w) PROVE Fifo!Send
    BY <1>2, <2>1, SendsInOrder
  <2>2. ASSUME NEW r \in Readers, ReadMove(r) PROVE Fifo!Receive
    BY <1>2, <2>2, ReceivesInOrder
  <2>3. ASSUME NEW w \in Writers, NEW n \in Lengths, WriteBegin(w, n)
        PROVE  UNCHANGED <<sent, received>>
    BY <2>3 DEF WriteBegin, history
  <2>4. ASSUME NEW w \in Writers, WriteStep(w), ~WriteMove(w) PROVE UNCHANGED <<sent, received>>
    BY <2>4 DEF WriteStep, WriteLock, WriteWait, WriteCopy, WriteEnd, history
  <2>5. ASSUME NEW r \in Readers, ReadStep(r), ~ReadMove(r) PROVE UNCHANGED <<sent, received>>
    BY <2>5 DEF ReadStep, ReadLock, ReadWait, ReadCopy, Return, history
  <2>6. ASSUME NEW r \in Readers, ReadCall(r) PROVE UNCHANGED <<sent, received>>
    BY <2>6 DEF ReadCall, ReadBegin, ByteBegin, PeekBegin, history
  <2>7. CASE UNCHANGED vars
    BY <2>7 DEF vars
  <2> QED BY <1>2, <2>1, <2>2, <2>3, <2>4, <2>5, <2>6, <2>7 DEF Next, Fifo!Next
<1> QED BY <1>1, <1>2, InvHolds, PTL DEF Spec, ImplementsChannel, Fifo!Spec

-----------------------------------------------------------------------------
(***************************************************************************)
(* read() and peek(), which share peekedCharacter without a lock.          *)
(***************************************************************************)

\* No byte is sent twice: a writer has sent only those in front of its next one.
SentInv ==
  /\ \A i \in 1..Len(sent) : sent[i][2] < next[sent[i][1]]
  /\ \A i, j \in 1..Len(sent) : sent[i] = sent[j] => i = j

\* While a reader is in read() or peek(), no character is peeked; its byte is
\* kept in result between the release of the lock and the return.
ReturnInv ==
  \A r \in Readers :
    /\ pc[r] # "idle" /\ call[r] # "bulk" => peekedCharacter = NoByte
    /\ result[r] # NoByte <=> pc[r] = "return"
    /\ pc[r] = "return" => call[r] # "bulk"
    /\ pc[r] \in {"readLock", "readCopy", "readMove"} /\ call[r] # "bulk" => remaining[r] = 1

\* Byte b has left the buffer; b has been returned to a caller.
Left(b) == \E i \in 1..Len(received) : received[i] = b
Returned(b) == \E i \in 1..Len(delivered) : delivered[i] = b

\* The bytes that are neither in the buffer nor returned
Kept(b) == b \in Bytes /\ (b = peekedCharacter \/ \E r \in Readers : b = result[r])

\* Every byte that has left the buffer was returned once or is kept.
OnceInv ==
  /\ Len(received) = Len(delivered) + (IF \E b : Kept(b) THEN 1 ELSE 0)
  /\ \A i, j \in 1..Len(delivered) : delivered[i] = delivered[j] => i = j
  /\ \A b : Returned(b) => Left(b)
  /\ \A b : Kept(b) => Left(b) /\ ~Returned(b)

PeekInv == SentInv /\ ReturnInv /\ OnceInv

\* A step after which everything is sent, received, kept and returned as before.
LEMMA SameBytes ==
  ASSUME PeekInv, UNCHANGED <<sent, next, received, delivered, peekedCharacter, result>>, ReturnInv'
  PROVE  PeekInv'
<1>1. \A b : (Left(b)' <=> Left(b)) /\ (Returned(b)' <=> Returned(b)) /\ (Kept(b)' <=> Kept(b))
  BY DEF Left, Returned, Kept
<1>2. SentInv'
  BY DEF PeekInv, SentInv
<1>3. OnceInv'
  BY <1>1 DEF PeekInv, OnceInv
<1> QED BY <1>2, <1>3 DEF PeekInv

\* The writers' steps.
LEMMA WriterKeeps ==
  ASSUME IInv, PeekInv, NEW w \in Writers, WriteStep(w) \/ \E n \in Lengths : WriteBegin(w, n)
  PROVE  PeekInv'
<1>0. TypeOK /\ w \in Threads /\ \A r \in Readers : r # w /\ r \in Threads
  BY PipeAssumption DEF IInv, Threads
<1>1. /\ UNCHANGED <<received, delivered, peekedCharacter, result, call>>
      /\ \A r \in Readers : pc'[r] = pc[r] /\ remaining'[r] = remaining[r]
  BY <1>0 DEF WriteStep, WriteBegin, WriteLock, WriteWait, WriteCopy, WriteMove, WriteEnd, Acquire, Release, Goto,
              history, locals, TypeOK
<1>2. ReturnInv'
  BY <1>1 DEF PeekInv, ReturnInv
<1>3. CASE WriteMove(w)
  <2> DEFINE Byte(k) == <<w, next[w] + k>>
             n == toCopy[w]
  <2>1. n \in Nat /\ sent \in Seq(Bytes) /\ next \in [Writers -> Nat]
    BY <1>0 DEF TypeOK
  <2>2. sent' = Extend(sent, n, Byte) /\ next' = [next EXCEPT ![w] = next[w] + n]
    BY <1>3 DEF WriteMove
  <2> HIDE DEF n
  <2>3. /\ Len(sent') = Len(sent) + n
        /\ \A j \in 1..Len(sent) : sent'[j] = sent[j]
        /\ \A j \in 1..(Len(sent) + n) : j > Len(sent) => sent'[j] = <<w, next[w] + (j - Len(sent) - 1)>>
    BY <2>1, <2>2 DEF Extend
  <2>4. next'[w] = next[w] + n /\ \A x \in Writers \ {w} : next'[x] = next[x]
    BY <2>1, <2>2
  <2>5. ASSUME NEW i \in 1..Len(sent)
        PROVE  /\ sent[i] \in Bytes /\ sent[i][1] \in Writers /\ sent[i][2] \in Nat
               /\ sent[i][2] < next[sent[i][1]]
    BY <2>1 DEF PeekInv, SentInv, Bytes
  <2>6. ASSUME NEW i \in 1..Len(sent') PROVE sent'[i][2] < next'[sent'[i][1]]
    <3>1. CASE i <= Len(sent)
      <4>1. sent'[i] = sent[i] /\ i \in 1..Len(sent)
        BY <2>1, <2>3, <3>1
      <4> QED BY <2>1, <2>4, <2>5, <4>1
    <3>2. CASE i > Len(sent)
      <4>1. sent'[i] = <<w, next[w] + (i - Len(sent) - 1)>> /\ i - Len(sent) - 1 < n /\ i - Len(sent) - 1 \in Nat
        BY <2>1, <2>3, <3>2
      <4> QED BY <2>1, <2>4, <4>1
    <3> QED BY <2>1, <2>3, <3>1, <3>2
  <2>7. ASSUME NEW i \in 1..Len(sent'), NEW j \in 1..Len(sent'), sent'[i] = sent'[j], i < j PROVE FALSE
    <3>1. CASE j <= Len(sent)
      BY <2>1, <2>3, <2>7, <3>1 DEF PeekInv, SentInv
    <3>2. CASE j > Len(sent) /\ i > Len(sent)
      <4>1. /\ next[w] + (i - Len(sent) - 1) = next[w] + (j - Len(sent) - 1)
        BY <2>1, <2>3, <2>7, <3>2
      <4> QED BY <2>1, <2>3, <2>7, <3>2, <4>1
    <3>3. CASE j > Len(sent) /\ i <= Len(sent)
      <4>1. sent'[j] = <<w, next[w] + (j - Len(sent) - 1)>> /\ j - Len(sent) - 1 \in Nat
        BY <2>1, <2>3, <3>3
      <4>2. sent'[i] = sent[i] /\ i \in 1..Len(sent)
        BY <2>1, <2>3, <3>3
      <4>3. sent[i][1] = w /\ sent[i][2] = next[w] + (j - Len(sent) - 1)
        BY <2>7, <4>1, <4>2
      <4> QED BY <2>1, <2>5, <4>1, <4>2, <4>3
    <3> QED BY <2>1, <2>3, <3>1, <3>2, <3>3
  <2>8. SentInv'
    <3>1. \A i, j \in 1..Len(sent') : sent'[i] = sent'[j] => i = j
      BY <2>1, <2>3, <2>7
    <3> QED BY <2>6, <3>1 DEF SentInv
  <2>9. \A b : (Left(b)' <=> Left(b)) /\ (Returned(b)' <=> Returned(b)) /\ (Kept(b)' <=> Kept(b))
    BY <1>1 DEF Left, Returned, Kept
  <2>10. OnceInv'
    BY <1>1, <2>9 DEF PeekInv, OnceInv
  <2> QED BY <1>2, <2>8, <2>10 DEF PeekInv
<1>4. CASE ~WriteMove(w)
  <2>1. UNCHANGED <<sent, next>>
    BY <1>4 DEF WriteStep, WriteBegin, WriteLock, WriteWait, WriteCopy, WriteEnd, history, locals
  <2> QED BY <1>1, <1>2, <2>1, SameBytes
<1> QED BY <1>3, <1>4

\* What has left the buffer so far is not what a round of read() takes.
LEMMA NewBytes ==
  ASSUME IInv, SentInv, NEW r \in Readers, pc[r] = "readMove"
  PROVE  /\ toCopy[r] \in Nat \ {0} /\ toCopy[r] <= remaining[r] /\ Len(received) \in Nat
         /\ \A k \in 1..toCopy[r] : taken[r][k] \in Bytes /\ ~Left(taken[r][k])
         /\ \A k, m \in 1..toCopy[r] : taken[r][k] = taken[r][m] => k = m
<1>1. /\ sent \in Seq(Bytes) /\ received \in Seq(Bytes) /\ remaining[r] \in Nat /\ toCopy[r] \in Nat
  BY DEF IInv, TypeOK, Threads
<1>2. /\ toCopy[r] \in 1..remaining[r] /\ toCopy[r] <= Len(sent) - Len(received)
      /\ \A j \in 1..toCopy[r] : taken[r][j] = sent[Len(received) + j]
  BY DEF IInv, CopyInv, Used
<1>3. ASSUME NEW k \in 1..toCopy[r]
      PROVE  Len(received) + k \in 1..Len(sent) /\ taken[r][k] = sent[Len(received) + k]
  BY <1>1, <1>2
<1>4. ASSUME NEW k \in 1..toCopy[r], NEW i \in 1..Len(received) PROVE received[i] # taken[r][k]
  <2>1. received[i] = sent[i] /\ i \in 1..Len(sent) /\ i # Len(received) + k
    BY <1>1, <1>2 DEF IInv, ContentInv
  <2> QED BY <1>3, <2>1 DEF SentInv
<1>5. ASSUME NEW k \in 1..toCopy[r], NEW m \in 1..toCopy[r], taken[r][k] = taken[r][m] PROVE k = m
  <2>1. Len(received) + k = Len(received) + m
    BY <1>3, <1>5 DEF SentInv
  <2> QED BY <1>1, <2>1
<1>6. \A k \in 1..toCopy[r] : taken[r][k] \in Bytes
  BY <1>1, <1>3
<1> QED BY <1>1, <1>2, <1>4, <1>5, <1>6 DEF Left

\* With a single reader, the end of a round returns the new bytes or keeps one.
LEMMA ReadMoveKeeps ==
  ASSUME IInv, PeekInv, \A q1, q2 \in Readers : q1 = q2, NEW r \in Readers, ReadMove(r)
  PROVE  PeekInv'
<1> DEFINE Byte(k) == taken[r][k + 1]
           n == toCopy[r]
<1>0. /\ TypeOK /\ r \in Threads /\ pc[r] = "readMove" /\ delivered \in Seq(Bytes) /\ received \in Seq(Bytes)
      /\ UNCHANGED <<sent, next, peekedCharacter, call>>
  BY DEF IInv, TypeOK, Threads, ReadMove
<1>1. /\ n \in Nat \ {0} /\ n <= remaining[r] /\ Len(received) \in Nat
      /\ \A k \in 1..n : taken[r][k] \in Bytes /\ ~Left(taken[r][k])
      /\ \A k, m \in 1..n : taken[r][k] = taken[r][m] => k = m
  BY <1>0, NewBytes DEF PeekInv
<1>2. SentInv'
  BY <1>0 DEF PeekInv, SentInv
<1>3. result[r] = NoByte /\ result \in [Readers -> Bytes \cup {NoByte}]
  BY <1>0 DEF PeekInv, ReturnInv, TypeOK
<1>4. received' = Extend(received, n, Byte)
  BY DEF ReadMove
<1>5. IF call[r] = "bulk" THEN delivered' = Extend(delivered, n, Byte) /\ result' = result
                          ELSE delivered' = delivered /\ result' = [result EXCEPT ![r] = taken[r][1]]
  BY DEF ReadMove
<1>6. /\ call[r] = "bulk" => pc'[r] \in {"idle", "readCopy"}
      /\ call[r] # "bulk" /\ remaining[r] = n => pc'[r] = "return"
  BY <1>0 DEF ReadMove, Release, Goto, TypeOK
<1> HIDE DEF n
<1>7. /\ Len(received') = Len(received) + n
      /\ \A j \in 1..Len(received) : received'[j] = received[j]
      /\ \A j \in 1..(Len(received) + n) : j > Len(received) => received'[j] = taken[r][j - Len(received)]
  BY <1>0, <1>1, <1>4 DEF Extend
<1>8. \A b : Left(b)' <=> Left(b) \/ \E k \in 1..n : taken[r][k] = b
  <2> SUFFICES ASSUME NEW b PROVE Left(b)' <=> Left(b) \/ \E k \in 1..n : taken[r][k] = b
    OBVIOUS
  <2>1. ASSUME Left(b)' PROVE Left(b) \/ \E k \in 1..n : taken[r][k] = b
    <3>1. PICK j \in 1..Len(received') : received'[j] = b
      BY <2>1 DEF Left
    <3>2. CASE j <= Len(received)
      BY <1>1, <1>7, <3>1, <3>2 DEF Left
    <3>3. CASE j > Len(received)
      <4>1. j - Len(received) \in 1..n /\ taken[r][j - Len(received)] = b
        BY <1>1, <1>7, <3>1, <3>3
      <4> QED BY <4>1
    <3> QED BY <1>1, <1>7, <3>2, <3>3
  <2>2. ASSUME Left(b) PROVE Left(b)'
    <3>1. PICK j \in 1..Len(received) : received[j] = b
      BY <2>2 DEF Left
    <3>2. received'[j] = b /\ j \in 1..Len(received')
      BY <1>1, <1>7, <3>1
    <3> QED BY <3>2 DEF Left
  <2>3. ASSUME NEW k \in 1..n, taken[r][k] = b PROVE Left(b)'
    <3>1. Len(received) + k \in 1..Len(received') /\ Len(received) + k > Len(received)
          /\ Len(received) + k - Len(received) = k
      BY <1>1, <1>7
    <3>2. received'[Len(received) + k] = b
      BY <1>7, <2>3, <3>1
    <3> QED BY <3>1, <3>2 DEF Left
  <2> QED BY <2>1, <2>2, <2>3
<1>9. /\ \A b : Returned(b) => Left(b)
      /\ \A b : Kept(b) => Left(b) /\ ~Returned(b)
      /\ Len(received) = Len(delivered) + (IF \E b : Kept(b) THEN 1 ELSE 0)
      /\ \A i, j \in 1..Len(delivered) : delivered[i] = delivered[j] => i = j
  BY DEF PeekInv, OnceInv
<1>10. CASE call[r] = "bulk"
  <2>1. /\ Len(delivered') = Len(delivered) + n
        /\ \A j \in 1..Len(delivered) : delivered'[j] = delivered[j]
        /\ \A j \in 1..(Len(delivered) + n) : j > Len(delivered) => delivered'[j] = taken[r][j - Len(delivered)]
    BY <1>0, <1>1, <1>5, <1>10 DEF Extend
  <2>2. Len(delivered) \in Nat
    BY <1>0
  <2>3. \A b : Kept(b)' <=> Kept(b)
    BY <1>0, <1>5, <1>10 DEF Kept
  <2>4. \A b : Returned(b)' => Returned(b) \/ \E k \in 1..n : taken[r][k] = b
    <3> SUFFICES ASSUME NEW j \in 1..Len(delivered')
                 PROVE  Returned(delivered'[j]) \/ \E k \in 1..n : taken[r][k] = delivered'[j]
      BY DEF Returned
    <3>1. CASE j <= Len(delivered)
      BY <1>1, <2>1, <2>2, <3>1 DEF Returned
    <3>2. CASE j > Len(delivered)
      <4>1. j - Len(delivered) \in 1..n /\ taken[r][j - Len(delivered)] = delivered'[j]
        BY <1>1, <2>1, <2>2, <3>2
      <4> QED BY <4>1
    <3> QED BY <1>1, <2>1, <2>2, <3>1, <3>2
  <2>5. ASSUME NEW i \in 1..Len(delivered'), NEW j \in 1..Len(delivered'), delivered'[i] = delivered'[j], i < j
        PROVE  FALSE
    <3>1. CASE j <= Len(delivered)
      BY <1>1, <1>9, <2>1, <2>2, <2>5, <3>1
    <3>2. CASE j > Len(delivered) /\ i <= Len(delivered)
      <4>1. delivered'[i] = delivered[i] /\ i \in 1..Len(delivered)
        BY <1>1, <2>1, <2>2, <3>2
      <4>2. Left(delivered[i])
        BY <1>9, <4>1 DEF Returned
      <4>3. j - Len(delivered) \in 1..n /\ delivered'[j] = taken[r][j - Len(delivered)]
        BY <1>1, <2>1, <2>2, <3>2
      <4> QED BY <1>1, <2>5, <4>1, <4>2, <4>3
    <3>3. CASE i > Len(delivered)
      <4>1. /\ i - Len(delivered) \in 1..n /\ j - Len(delivered) \in 1..n
            /\ taken[r][i - Len(delivered)] = taken[r][j - Len(delivered)]
        BY <1>1, <2>1, <2>2, <2>5, <3>3
      <4>2. i - Len(delivered) = j - Len(delivered)
        BY <1>1, <4>1
      <4> QED BY <1>1, <2>1, <2>2, <2>5, <4>2
    <3> QED BY <1>1, <2>1, <2>2, <3>1, <3>2, <3>3
  <2>6. OnceInv'
    <3>1. Len(received') = Len(delivered') + (IF \E b : Kept(b)' THEN 1 ELSE 0)
      BY <1>1, <1>7, <1>9, <2>1, <2>2, <2>3
    <3>2. \A i, j \in 1..Len(delivered') : delivered'[i] = delivered'[j] => i = j
      BY <1>1, <2>1, <2>2, <2>5
    <3>3. \A b : Returned(b)' => Left(b)'
      BY <1>8, <1>9, <2>4
    <3>4. \A b : Kept(b)' => Left(b)' /\ ~Returned(b)'
      BY <1>1, <1>8, <1>9, <2>3, <2>4
    <3> QED BY <3>1, <3>2, <3>3, <3>4 DEF OnceInv
  <2>7. ReturnInv'
    BY <1>0, <1>3, <1>5, <1>6, <1>10 DEF ReturnInv
  <2> QED BY <1>2, <2>6, <2>7 DEF PeekInv
<1>11. CASE call[r] # "bulk"
  <2>1. peekedCharacter = NoByte /\ remaining[r] = 1 /\ n = 1 /\ pc'[r] = "return"
    BY <1>0, <1>1, <1>6, <1>11 DEF PeekInv, ReturnInv
  <2>2. taken[r][1] \in Bytes /\ ~Left(taken[r][1])
    BY <1>1, <2>1
  <2>3. result'[r] = taken[r][1] /\ delivered' = delivered
    BY <1>3, <1>5, <1>11
  <2>4. \A b : ~Kept(b)
    BY <1>3, <2>1, NoByteAssumption DEF Kept
  <2>5. \A b : Kept(b)' <=> b = taken[r][1]
    BY <1>0, <2>1, <2>2, <2>3, NoByteAssumption DEF Kept
  <2>6. \A b : Returned(b)' <=> Returned(b)
    BY <2>3 DEF Returned
  <2>7. OnceInv'
    <3>1. Len(received') = Len(delivered') + (IF \E b : Kept(b)' THEN 1 ELSE 0)
      <4>1. Len(received) = Len(delivered) /\ Len(delivered) \in Nat
        BY <1>0, <1>9, <2>4
      <4>2. \E b : Kept(b)'
        BY <2>5
      <4>3. Len(received') = Len(delivered') + 1
        BY <1>7, <2>1, <2>3, <4>1
      <4> QED BY <4>2, <4>3
    <3>2. \A b : Kept(b)' => Left(b)' /\ ~Returned(b)'
      BY <1>8, <1>9, <2>1, <2>2, <2>5, <2>6
    <3> QED BY <1>8, <1>9, <2>3, <2>6, <3>1, <3>2 DEF OnceInv
  <2>8. ReturnInv'
    BY <1>0, <1>11, <2>1, <2>2, <2>3, NoByteAssumption DEF ReturnInv
  <2> QED BY <1>2, <2>7, <2>8 DEF PeekInv
<1> QED BY <1>10, <1>11

\* A kept byte that is returned leaves no other one behind.
LEMMA GivesBack ==
  ASSUME IInv, PeekInv, NEW b \in Bytes, Kept(b), delivered' = Append(delivered, b),
         \A c : ~Kept(c)', UNCHANGED <<received, sent, next>>, ReturnInv'
  PROVE  PeekInv'
<1>0. delivered \in Seq(Bytes) /\ received \in Seq(Bytes)
  BY DEF IInv, TypeOK
<1>1. /\ \A c : Returned(c) => Left(c)
      /\ Left(b) /\ ~Returned(b)
      /\ Len(received) = Len(delivered) + 1
      /\ \A i, j \in 1..Len(delivered) : delivered[i] = delivered[j] => i = j
  BY DEF PeekInv, OnceInv
<1>2. /\ Len(delivered') = Len(delivered) + 1
      /\ \A i \in 1..Len(delivered) : delivered'[i] = delivered[i]
      /\ delivered'[Len(delivered) + 1] = b
  BY <1>0
<1>3. \A c : Returned(c)' => Returned(c) \/ c = b
  BY <1>0, <1>2 DEF Returned
<1>4. \A c : Left(c)' <=> Left(c)
  BY DEF Left
<1>5. \A i, j \in 1..Len(delivered') : delivered'[i] = delivered'[j] => i = j
  BY <1>0, <1>1, <1>2 DEF Returned
<1>6. Len(received') = Len(delivered')
  BY <1>1, <1>2
<1>7. OnceInv'
  <2>1. Len(received') = Len(delivered') + (IF \E c : Kept(c)' THEN 1 ELSE 0)
    BY <1>0, <1>2, <1>6
  <2>2. \A c : Returned(c)' => Left(c)'
    BY <1>1, <1>3, <1>4
  <2> QED BY <1>5, <2>1, <2>2 DEF OnceInv
<1>8. SentInv'
  BY DEF PeekInv, SentInv
<1> QED BY <1>7, <1>8 DEF PeekInv

\* The other steps of a single reader.
LEMMA ReaderKeeps ==
  ASSUME IInv, PeekInv, \A q1, q2 \in Readers : q1 = q2, NEW r \in Readers, ReadStep(r) \/ ReadCall(r)
  PROVE  PeekInv'
<1>0. /\ TypeOK /\ r \in Threads /\ \A q \in Readers : q = r
      /\ result[r] \in Bytes \cup {NoByte} /\ peekedCharacter \in Bytes \cup {NoByte}
  BY DEF IInv, TypeOK, Threads
<1>1. /\ pc[r] # "idle" /\ call[r] # "bulk" => peekedCharacter = NoByte
      /\ result[r] # NoByte <=> pc[r] = "return"
      /\ pc[r] = "return" => call[r] # "bulk"
      /\ pc[r] \in {"readLock", "readCopy", "readMove"} /\ call[r] # "bulk" => remaining[r] = 1
  BY DEF PeekInv, ReturnInv
<1>2. CASE ReadLock(r) \/ ReadWait(r) \/ ReadCopy(r)
  <2>1. /\ UNCHANGED <<sent, next, received, delivered, peekedCharacter, result, call, remaining>>
        /\ pc[r] \in {"readLock", "readCopy"} /\ pc'[r] \in {"readLock", "readCopy", "readMove"}
    BY <1>0, <1>2 DEF ReadLock, ReadWait, ReadCopy, Acquire, Release, Goto, history, locals, TypeOK
  <2>2. ReturnInv'
    BY <1>0, <1>1, <2>1 DEF ReturnInv
  <2> QED BY <2>1, <2>2, SameBytes
<1>3. CASE ReadMove(r)
  BY <1>3, ReadMoveKeeps
<1>4. CASE Return(r)
  <2>1. /\ pc[r] = "return" /\ UNCHANGED <<sent, next, received>> /\ pc'[r] = "idle" /\ result'[r] = NoByte
        /\ IF call[r] = "peek" THEN peekedCharacter' = result[r] /\ UNCHANGED delivered
           ELSE delivered' = Append(delivered, result[r]) /\ UNCHANGED peekedCharacter
    BY <1>0, <1>4 DEF Return, Goto, TypeOK
  <2>2. peekedCharacter = NoByte /\ result[r] \in Bytes
    BY <1>0, <1>1, <2>1
  <2>3. ReturnInv'
    BY <1>0, <2>1 DEF ReturnInv
  <2>4. \A b : Kept(b) <=> b = result[r]
    BY <1>0, <2>2, NoByteAssumption DEF Kept
  <2>5. CASE call[r] = "peek"
    <3>1. \A b : Kept(b)' <=> Kept(b)
      BY <1>0, <2>1, <2>2, <2>4, <2>5, NoByteAssumption DEF Kept
    <3>2. \A b : (Left(b)' <=> Left(b)) /\ (Returned(b)' <=> Returned(b))
      BY <2>1, <2>5 DEF Left, Returned
    <3>3. SentInv' /\ OnceInv'
      BY <2>1, <2>5, <3>1, <3>2 DEF PeekInv, SentInv, OnceInv
    <3> QED BY <2>3, <3>3 DEF PeekInv
  <2>6. CASE call[r] # "peek"
    <3>1. \A b : ~Kept(b)'
      BY <1>0, <2>1, <2>2, <2>6, NoByteAssumption DEF Kept
    <3> QED BY <2>1, <2>2, <2>3, <2>4, <2>6, <3>1, GivesBack
  <2> QED BY <2>5, <2>6
<1>5. CASE ByteBegin(r) /\ peekedCharacter # NoByte
  <2>1. /\ pc[r] = "idle" /\ UNCHANGED <<sent, next, received, result, pc, call, remaining>>
        /\ delivered' = Append(delivered, peekedCharacter) /\ peekedCharacter' = NoByte
    BY <1>5 DEF ByteBegin
  <2>2. ReturnInv'
    BY <1>0, <1>1, <2>1 DEF ReturnInv
  <2>3. Kept(peekedCharacter) /\ peekedCharacter \in Bytes /\ \A b : ~Kept(b)'
    BY <1>0, <1>1, <1>5, <2>1, NoByteAssumption DEF Kept
  <2> QED BY <2>1, <2>2, <2>3, GivesBack
<1>6. CASE (ByteBegin(r) /\ peekedCharacter = NoByte) \/ PeekBegin(r) \/ \E n \in Lengths : ReadBegin(r, n)
  <2>1. /\ UNCHANGED <<sent, next, received, delivered, peekedCharacter, result>>
        /\ pc[r] = "idle" /\ pc'[r] = "readLock"
        /\ call'[r] = "bulk" \/ (remaining'[r] = 1 /\ peekedCharacter = NoByte)
    BY <1>0, <1>6 DEF ByteBegin, PeekBegin, ReadBegin, StartRead, Goto, history, TypeOK
  <2>2. ReturnInv'
    BY <1>0, <1>1, <2>1 DEF ReturnInv
  <2> QED BY <2>1, <2>2, SameBytes
<1> QED BY <1>2, <1>3, <1>4, <1>5, <1>6 DEF ReadStep, ReadCall

\* A single reader that mixes read(), peek() and bulk reads gets every byte
\* once, whatever the writers do in between.
THEOREM BytesAreReturnedOnce == (\A q1, q2 \in Readers : q1 = q2) /\ Spec => []PeekedOnce
<1> SUFFICES ASSUME \A q1, q2 \in Readers : q1 = q2 PROVE Spec => []PeekedOnce
  OBVIOUS
<1>1. Init => PeekInv
  <2> SUFFICES ASSUME Init PROVE PeekInv
    OBVIOUS
  <2>1. \A b : ~Kept(b)
    BY NoByteAssumption DEF Init, Kept
  <2>2. Len(sent) = 0 /\ Len(received) = 0 /\ Len(delivered) = 0
    BY DEF Init
  <2>3. \A b : ~Returned(b)
    BY <2>2 DEF Returned
  <2>4. OnceInv /\ SentInv
    BY <2>1, <2>2, <2>3 DEF OnceInv, SentInv
  <2>5. ReturnInv
    BY DEF Init, ReturnInv, Threads
  <2> QED BY <2>4, <2>5 DEF PeekInv
<1>2. IInv /\ PeekInv /\ [Next]_vars => PeekInv'
  <2> SUFFICES ASSUME IInv, PeekInv, [Next]_vars PROVE PeekInv'
    OBVIOUS
  <2>1. CASE UNCHANGED vars
    <3>1. UNCHANGED <<sent, next, received, delivered, peekedCharacter, result, pc, call, remaining>>
      BY <2>1 DEF vars
    <3>2. ReturnInv'
      BY <3>1 DEF PeekInv, ReturnInv
    <3> QED BY <3>1, <3>2, SameBytes
  <2> QED BY <2>1, WriterKeeps, ReaderKeeps DEF Next
<1>3. IInv /\ PeekInv => PeekedOnce
  <2> SUFFICES ASSUME IInv, PeekInv PROVE PeekedOnce
    OBVIOUS
  <2> DEFINE R == {r \in Readers : result[r] # NoByte}
  <2>0. /\ \A r \in Readers : result[r] \in Bytes \cup {NoByte}
        /\ peekedCharacter \in Bytes \cup {NoByte} /\ delivered \in Seq(Bytes)
    BY DEF IInv, TypeOK
  <2>1. Len(received) = Len(delivered) + (IF \E b : Kept(b) THEN 1 ELSE 0) /\ Len(delivered) \in Nat
    BY <2>0 DEF PeekInv, OnceInv
  <2>2. CASE R = {}
    <3>1. (\E b : Kept(b)) <=> peekedCharacter # NoByte
      BY <2>0, <2>2, NoByteAssumption DEF Kept
    <3>2. Cardinality(R) = 0
      BY <2>2, FS_EmptySet
    <3> QED BY <2>1, <3>1, <3>2 DEF PeekedOnce, PeekInv, OnceInv
  <2>3. CASE R # {}
    <3>1. PICK r \in Readers : result[r] # NoByte
      BY <2>3
    <3>2. peekedCharacter = NoByte /\ Kept(result[r])
      BY <2>0, <3>1 DEF PeekInv, ReturnInv, Kept
    <3>3. R = {r}
      BY <3>1
    <3>4. Cardinality(R) = 1
      BY <3>3, FS_Singleton
    <3>5. \E b : Kept(b)
      BY <3>2
    <3> QED BY <2>1, <3>2, <3>4, <3>5 DEF PeekedOnce, PeekInv, OnceInv
  <2> QED BY <2>2, <2>3
<1> QED BY <1>1, <1>2, <1>3, InvHolds, PTL DEF Spec
=============================================================================
