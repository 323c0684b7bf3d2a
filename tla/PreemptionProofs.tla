-------------------------- MODULE PreemptionProofs --------------------------
(* For any set of threads: until a killed thread is made ready again, a     *)
(* thread computes with its own FPU registers and lastFpuThread is alive;   *)
(* a time that is read is not torn, and no interval of the timer is lost.   *)
EXTENDS Preemption, FiniteSetTheorems, TLAPS

(* The running thread is in no list; only kill() leaves a call of getTime() *)
(* unfinished.  Until a killed thread is made ready again, exactly those    *)
(* that still have to end are in the cleaner's queue.                       *)
LifeInv ==
  /\ life[current] \in {"ready", "exiting"}
  /\ \A t \in Threads : life[t] \in {"sleeping", "joining", "exiting"} => reader[t].pc = "out"
  /\ ~revived => \A t \in Threads : t \in doomed <=> life[t] \in {"exiting", "dead"}

(* The registers belong to lastFpuThread, everybody else's are saved.  With *)
(* the monitor disarmed the running thread is lastFpuThread, is about to    *)
(* end, or is the first thread before the first switch.                     *)
FpuInv == ~revived =>
  /\ last # NoThread => life[last] \in {"ready", "sleeping", "joining"}
  /\ last # NoThread => regs = own[last]
  /\ \A t \in Threads :
       life[t] \in {"ready", "sleeping", "joining"} /\ t # last => context[t] = own[t]
  /\ ~armed => \/ current = last
               \/ life[current] = "exiting"
               \/ current = First /\ regs = own[First]

(* Threads inside getTime(), killed ones included *)
Readers == {t \in Threads : life[t] # "free" /\ reader[t].pc # "out"}

(* readerCount counts them, and deleted ones; what they have copied is the  *)
(* time that the clock still shows.                                         *)
ReaderInv ==
  /\ IsFiniteSet(Readers) /\ Cardinality(Readers) <= readerCount
  /\ \A t \in Readers : /\ reader[t].pc = "second" => reader[t].ret.seconds = time.seconds
                        /\ reader[t].pc = "end" => reader[t].ret = time

IInv == NoTickLost /\ LifeInv /\ FpuInv /\ ReaderInv

-----------------------------------------------------------------------------
(* Division with remainder, for the carry of a timestamp.                   *)
LEMMA DivMod ==
  ASSUME NEW a \in Nat, NEW p \in Nat \ {0}
  PROVE  /\ a \div p \in Nat /\ a % p \in 0 .. p - 1
         /\ a = (a \div p) * p + (a % p)
BY SMT

(* Adding n intervals to a timestamp adds n to what it counts, and leaves a *)
(* fraction of less than a second.                                          *)
LEMMA PlusCounts ==
  ASSUME NEW stamp \in [seconds : Nat, fraction : 0 .. PerSecond - 1], NEW n \in Nat
  PROVE  /\ Plus(stamp, n) \in [seconds : Nat, fraction : 0 .. PerSecond - 1]
         /\ Count(Plus(stamp, n)) = Count(stamp) + n
<1> USE ClockAssumption
<1> DEFINE a == stamp.fraction + n
           q == a \div PerSecond
           r == a % PerSecond
<1>1. a \in Nat
  OBVIOUS
<1>2. q \in Nat /\ r \in 0 .. PerSecond - 1 /\ a = q * PerSecond + r
  BY <1>1, DivMod
<1>3. Plus(stamp, n).seconds = stamp.seconds + q /\ Plus(stamp, n).fraction = r
  BY DEF Plus
<1>4. Plus(stamp, n) \in [seconds : Nat, fraction : 0 .. PerSecond - 1]
  BY <1>2 DEF Plus
<1>5. a = stamp.fraction + n
  OBVIOUS
<1> HIDE DEF a, q, r
<1>6. (stamp.seconds + q) * PerSecond = stamp.seconds * PerSecond + q * PerSecond
  BY <1>2
<1>7. (stamp.seconds + q) * PerSecond + r = stamp.seconds * PerSecond + stamp.fraction + n
  <2> DEFINE x == stamp.seconds * PerSecond
             y == q * PerSecond
  <2>1. x \in Nat /\ y \in Nat
    BY <1>2
  <2>2. (stamp.seconds + q) * PerSecond = x + y /\ a = y + r
    BY <1>2, <1>6
  <2> HIDE DEF x, y
  <2>3. x + y + r = x + stamp.fraction + n
    BY <2>1, <2>2, <1>1, <1>2, <1>5
  <2> QED BY <2>2, <2>3 DEF x
<1> QED BY <1>3, <1>4, <1>7 DEF Count

(* A timestamp that counts at most MaxTicks has at most that many seconds.  *)
LEMMA SecondsBounded ==
  ASSUME NEW stamp \in [seconds : Nat, fraction : 0 .. PerSecond - 1], Count(stamp) <= MaxTicks
  PROVE  stamp \in Timestamps
<1>1. stamp.seconds <= stamp.seconds * PerSecond
  BY ClockAssumption, SMT
<1> QED BY <1>1, ClockAssumption DEF Count, Timestamps

-----------------------------------------------------------------------------
(* The boot leaves the first thread running and the clock at zero.          *)
LEMMA InitInv == Init => IInv
<1> SUFFICES ASSUME Init PROVE IInv
  OBVIOUS
<1> USE FpuAssumption, ClockAssumption
<1>1. NoTickLost
  <2>1. FpuTypeOK
    BY DEF Init, FpuInit, FpuTypeOK, Lives
  <2>2. Outside \in [pc : Steps, ret : Timestamps] /\ time \in Timestamps
    BY DEF Init, Timestamps, Steps, Outside
  <2>3. reader \in [Threads -> [pc : Steps, ret : Timestamps]]
    BY <2>2 DEF Init
  <2>4. Count(time) = 0
    BY DEF Count, Init
  <2>5. waiting \in BOOLEAN
    BY DEF Init
  <2>6. intervals = 0 /\ readerCount = 0 /\ sinceYield = 0 /\ ticks = 0
    BY DEF Init
  <2>7. TypeOK
    BY <2>1, <2>2, <2>3, <2>5, <2>6 DEF TypeOK
  <2> QED BY <2>4, <2>6, <2>7 DEF NoTickLost
<1>2. LifeInv
  BY DEF Init, FpuInit, LifeInv, Outside
<1>3. FpuInv
  BY DEF Init, FpuInit, FpuInv
<1>4. Readers = {}
  BY DEF Init, Readers, Outside
<1>5. ReaderInv
  BY <1>4, FS_EmptySet DEF ReaderInv, Init
<1> QED BY <1>1, <1>2, <1>3, <1>5 DEF IInv

-----------------------------------------------------------------------------
(* A step that leaves the clock alone and lets nobody into getTime() keeps  *)
(* the count of the readers.                                                *)
LEMMA FewerReaders ==
  ASSUME TypeOK, ReaderInv, Readers' \subseteq Readers, UNCHANGED <<time, readerCount>>,
         \A t \in Readers' : reader'[t] = reader[t]
  PROVE  ReaderInv'
<1>1. IsFiniteSet(Readers') /\ Cardinality(Readers') <= Cardinality(Readers)
  BY FS_Subset DEF ReaderInv
<1>2. Cardinality(Readers) \in Nat /\ Cardinality(Readers') \in Nat
  BY <1>1, FS_CardinalityType DEF ReaderInv
<1> QED BY <1>1, <1>2 DEF ReaderInv, TypeOK

(* The steps of the scheduler and of the FPU, which leave the clock alone   *)
(* and keep their own part of the invariant.                                *)
LEMMA YieldKeeps ==
  ASSUME TypeOK, FpuInv, LifeInv, NEW next \in Threads, Yield(next), UNCHANGED reader
  PROVE  FpuTypeOK' /\ LifeInv' /\ FpuInv' /\ Readers' = Readers
BY DEF Yield, listVars, SwitchTo, InQueue, TypeOK, FpuTypeOK, LifeInv, FpuInv, Readers

\* Nothing happens to the threads and the FPU.
LEMMA StandStillKeeps ==
  ASSUME TypeOK, FpuInv, LifeInv, UNCHANGED <<fpuVars, reader>>
  PROVE  FpuTypeOK' /\ LifeInv' /\ FpuInv' /\ Readers' = Readers
BY DEF fpuVars, listVars, TypeOK, FpuTypeOK, LifeInv, FpuInv, Readers

\* Scheduler::block().
LEMMA BlockKeeps ==
  ASSUME TypeOK, FpuInv, LifeInv, NEW next \in Threads, Block(next), UNCHANGED reader, reader[current].pc = "out"
  PROVE  FpuTypeOK' /\ LifeInv' /\ FpuInv' /\ Readers' \subseteq Readers
<1> USE DEF Block, listVars, SwitchTo, InQueue, TypeOK
<1>1. FpuTypeOK'
  BY DEF FpuTypeOK, Lives
<1>2. LifeInv'
  BY DEF FpuTypeOK, LifeInv
<1>3. FpuInv'
  BY FpuAssumption DEF FpuTypeOK, FpuInv, LifeInv
<1>4. Readers' \subseteq Readers
  BY DEF FpuTypeOK, Readers
<1> QED BY <1>1, <1>2, <1>3, <1>4

\* An FPU instruction of the current thread.
LEMMA UseFpuKeeps ==
  ASSUME TypeOK, FpuInv, LifeInv, NEW v \in Values, UseFpu(v), UNCHANGED reader
  PROVE  FpuTypeOK' /\ LifeInv' /\ FpuInv' /\ Readers' = Readers
BY FpuAssumption DEF UseFpu, listVars, Runs, TypeOK, FpuTypeOK, LifeInv, FpuInv, Readers

\* The #NM handler, switchFpuContext().
LEMMA SwitchFpuKeeps ==
  ASSUME TypeOK, FpuInv, LifeInv, SwitchFpuContext, UNCHANGED reader
  PROVE  FpuTypeOK' /\ LifeInv' /\ FpuInv' /\ Readers' = Readers
<1> USE FpuAssumption DEF SwitchFpuContext, listVars, Runs, TypeOK
<1>1. FpuTypeOK'
  <2>1. context' \in [Threads -> Values] /\ regs' \in Values /\ last' \in Threads \cup {NoThread}
    BY DEF FpuTypeOK
  <2> QED BY <2>1 DEF FpuTypeOK
<1>2. LifeInv'
  BY DEF LifeInv
<1>3. FpuInv'
  BY DEF FpuTypeOK, FpuInv, LifeInv
<1>4. Readers' = Readers
  BY DEF Readers
<1> QED BY <1>1, <1>2, <1>3, <1>4

\* Scheduler::join(), which ends in block().
LEMMA JoinKeeps ==
  ASSUME TypeOK, FpuInv, LifeInv, NEW t \in Threads, NEW next \in Threads, Join(t, next),
         UNCHANGED reader, reader[current].pc = "out"
  PROVE  FpuTypeOK' /\ LifeInv' /\ FpuInv' /\ Readers' \subseteq Readers
<1> USE DEF Join, SwitchTo, InQueue, Runs, TypeOK
<1>1. FpuTypeOK'
  BY DEF FpuTypeOK, Lives
<1>2. LifeInv'
  BY DEF FpuTypeOK, LifeInv
<1>3. FpuInv'
  BY FpuAssumption DEF FpuTypeOK, FpuInv, LifeInv
<1>4. Readers' \subseteq Readers
  BY DEF FpuTypeOK, Readers
<1> QED BY <1>1, <1>2, <1>3, <1>4

\* What exit() and kill() have in common: the joiners become ready.
LEMMA TerminateKeeps ==
  ASSUME TypeOK, FpuInv, LifeInv, NEW t \in Threads, NEW state \in {"exiting", "dead"},
         Terminate(t, state), life[t] \in {"ready", "sleeping", "joining"},
         t = current <=> state = "exiting", state = "exiting" => reader[t].pc = "out",
         t # First, UNCHANGED <<current, armed, regs, context, own, reader>>
  PROVE  FpuTypeOK' /\ LifeInv' /\ FpuInv' /\ Readers' \subseteq Readers
<1> USE DEF Terminate, ResetLast, TypeOK
<1>1. FpuTypeOK'
  <2>1. life' \in [Threads -> Lives]
    BY DEF FpuTypeOK, Lives
  <2> QED BY <2>1 DEF FpuTypeOK
<1>2. \A u \in Threads \ {t} :
        life'[u] = IF u \in joinList[t] /\ life[u] \in {"joining", "dead"} THEN "ready" ELSE life[u]
  BY DEF FpuTypeOK
<1>3. life'[t] = state
  BY DEF FpuTypeOK
<1>4. ~revived' => ~revived /\ \A u \in joinList[t] \ {t} : life[u] = "joining"
  OBVIOUS
<1>5. LifeInv'
  <2>1. life'[current'] \in {"ready", "exiting"}
    BY <1>2, <1>3 DEF FpuTypeOK, LifeInv
  <2>2. \A u \in Threads : life'[u] \in {"sleeping", "joining", "exiting"} => reader'[u].pc = "out"
    BY <1>2, <1>3 DEF LifeInv
  <2>3. ~revived' => \A u \in Threads : u \in doomed' <=> life'[u] \in {"exiting", "dead"}
    BY <1>2, <1>3, <1>4 DEF LifeInv
  <2> QED BY <2>1, <2>2, <2>3 DEF LifeInv
<1>6. FpuInv'
  <2> SUFFICES ASSUME ~revived' PROVE FpuInv'
    BY DEF FpuInv
  <2>1. \A u \in Threads \ {t} : life'[u] \in {"ready", "sleeping", "joining"}
                               <=> life[u] \in {"ready", "sleeping", "joining"}
    BY <1>2, <1>4
  <2>2. last' # NoThread => last' = last /\ last \in Threads \ {t}
    BY DEF FpuTypeOK
  <2>3. \A u \in Threads \ {t} : u # last' => u # last
    OBVIOUS
  <2> QED BY <1>2, <1>3, <1>4, <2>1, <2>2, <2>3 DEF FpuInv, FpuTypeOK, LifeInv
<1>7. Readers' \subseteq Readers
  BY <1>2, <1>3 DEF Readers
<1> QED BY <1>1, <1>5, <1>6, <1>7

\* Scheduler::exit() of the current thread.
LEMMA ExitKeeps ==
  ASSUME TypeOK, FpuInv, LifeInv, Exit, UNCHANGED reader, reader[current].pc = "out"
  PROVE  FpuTypeOK' /\ LifeInv' /\ FpuInv' /\ Readers' \subseteq Readers
<1>1. current \in Threads /\ life[current] = "ready" /\ current # First
  BY DEF TypeOK, FpuTypeOK, Exit, Runs
<1> QED BY <1>1, TerminateKeeps DEF Exit

\* Scheduler::kill() of another thread.
LEMMA KillKeeps ==
  ASSUME TypeOK, FpuInv, LifeInv, NEW t \in Threads, Kill(t), UNCHANGED reader
  PROVE  FpuTypeOK' /\ LifeInv' /\ FpuInv' /\ Readers' \subseteq Readers
BY TerminateKeeps DEF Kill

\* A thread that slept long enough becomes ready.
LEMMA WakeKeeps ==
  ASSUME TypeOK, FpuInv, LifeInv, NEW t \in Threads, Wake(t), UNCHANGED reader
  PROVE  FpuTypeOK' /\ LifeInv' /\ FpuInv' /\ Readers' \subseteq Readers
BY FpuAssumption DEF Wake, listVars, TypeOK, FpuTypeOK, Lives, LifeInv, FpuInv, Readers

\* The cleaner frees a thread.
LEMMA DeleteKeeps ==
  ASSUME TypeOK, FpuInv, LifeInv, NEW t \in Threads, Delete(t), UNCHANGED reader
  PROVE  FpuTypeOK' /\ LifeInv' /\ FpuInv' /\ Readers' \subseteq Readers
BY FpuAssumption DEF Delete, TypeOK, FpuTypeOK, Lives, LifeInv, FpuInv, Readers

\* A thread is created, perhaps at the address of a freed one.
LEMMA CreateKeeps ==
  ASSUME TypeOK, FpuInv, LifeInv, NEW t \in Threads, Create(t), reader' = [reader EXCEPT ![t] = Outside]
  PROVE  /\ FpuTypeOK' /\ LifeInv' /\ FpuInv' /\ Readers' \subseteq Readers
         /\ \A u \in Readers' : reader'[u] = reader[u]
<1> USE FpuAssumption DEF Create, TypeOK
<1>1. FpuTypeOK'
  BY DEF FpuTypeOK, Lives
<1>2. LifeInv'
  BY DEF FpuTypeOK, LifeInv, Outside
<1>3. FpuInv'
  BY DEF FpuTypeOK, FpuInv, LifeInv
<1>4. Readers' \subseteq Readers /\ \A u \in Readers' : reader'[u] = reader[u]
  BY DEF FpuTypeOK, Readers, Outside
<1> QED BY <1>1, <1>2, <1>3, <1>4

-----------------------------------------------------------------------------
(* The clock's part of the types, which a step of the scheduler leaves.     *)
LEMMA ClockKeeps ==
  ASSUME NoTickLost, FpuTypeOK', UNCHANGED <<time, intervals, readerCount, sinceYield, ticks>>, waiting' \in BOOLEAN,
         reader' \in [Threads -> [pc : Steps, ret : Timestamps]]
  PROVE  NoTickLost'
BY DEF NoTickLost, TypeOK, Count

(* The interrupt counts an interval or postpones it.                        *)
LEMMA AddIntervalsCounts ==
  ASSUME NoTickLost, AddIntervals, ticks < MaxTicks, ticks' = ticks + 1
  PROVE  /\ time' \in Timestamps /\ intervals' \in 0 .. MaxTicks /\ ticks' \in 0 .. MaxTicks
         /\ Count(time)' + intervals' = ticks'
<1> USE ClockAssumption
<1>1. time \in [seconds : Nat, fraction : 0 .. PerSecond - 1]
  BY DEF NoTickLost, TypeOK, Timestamps
<1>2. Count(time) \in Nat /\ intervals \in Nat /\ ticks \in Nat
  <2>1. time.seconds \in Nat /\ time.fraction \in Nat
    BY <1>1
  <2> QED BY <2>1 DEF Count, NoTickLost, TypeOK
<1>3. Count(time) + intervals = ticks
  BY DEF NoTickLost
<1>4. CASE readerCount = 0
  <2>1. time' = Plus(time, intervals + 1) /\ intervals' = 0
    BY <1>4 DEF AddIntervals
  <2>2. /\ time' \in [seconds : Nat, fraction : 0 .. PerSecond - 1]
        /\ Count(time') = Count(time) + (intervals + 1)
    BY <1>1, <1>2, <2>1, PlusCounts
  <2>3. Count(time') = ticks + 1 /\ ticks + 1 <= MaxTicks
    BY <1>2, <1>3, <2>2
  <2>4. time' \in Timestamps
    BY <1>2, <2>2, <2>3, SecondsBounded
  <2> QED BY <1>2, <2>1, <2>3, <2>4 DEF Count
<1>5. CASE readerCount # 0
  <2>1. time' = time /\ intervals' = intervals + 1
    BY <1>5 DEF AddIntervals
  <2> QED BY <1>2, <1>3, <2>1 DEF NoTickLost, TypeOK, Count
<1> QED BY <1>4, <1>5

(* The interrupt: the time is changed only when nobody is reading it.       *)
LEMMA TickKeeps == IInv /\ Tick => IInv'
<1> SUFFICES ASSUME IInv, Tick PROVE IInv'
  OBVIOUS
<1> USE ClockAssumption DEF IInv
<1>0. TypeOK
  BY DEF NoTickLost
<1>1. UNCHANGED reader /\ UNCHANGED readerCount
  BY DEF Tick
<1>2. FpuTypeOK' /\ LifeInv' /\ FpuInv' /\ Readers' = Readers
  <2>1. CASE \E next \in Threads : Yield(next)
    BY <1>0, <1>1, <2>1, YieldKeeps
  <2>2. CASE UNCHANGED fpuVars
    BY <1>0, <1>1, <2>2, StandStillKeeps
  <2> QED BY <2>1, <2>2 DEF Tick, YieldOrWait
<1>3. NoTickLost'
  <2>1. /\ time' \in Timestamps /\ intervals' \in 0 .. MaxTicks /\ ticks' \in 0 .. MaxTicks
        /\ Count(time)' + intervals' = ticks'
    BY AddIntervalsCounts DEF Tick
  <2>2. sinceYield' \in 0 .. YieldInterval
    BY <1>0 DEF Tick, TypeOK
  <2>3. waiting' \in BOOLEAN
    BY <1>0, Zenon DEF Tick, YieldOrWait, TypeOK
  <2> QED BY <1>0, <1>1, <1>2, <2>1, <2>2, <2>3 DEF NoTickLost, TypeOK
<1>4. ReaderInv'
  <2>1. CASE readerCount = 0
    <3>1. Readers = {}
      BY <2>1, FS_CardinalityType, FS_EmptySet DEF ReaderInv
    <3> QED BY <1>1, <1>2, <3>1 DEF ReaderInv
  <2>2. CASE readerCount # 0
    <3>1. UNCHANGED time
      BY <2>2 DEF Tick, AddIntervals
    <3> QED BY <1>0, <1>1, <1>2, <3>1, FewerReaders
  <2> QED BY <2>1, <2>2
<1> QED BY <1>2, <1>3, <1>4

(* getTime(): the caller counts as a reader from the first to the last step. *)
LEMMA ReadKeeps == IInv /\ (ReadBegin \/ ReadFirst \/ ReadSecond \/ ReadEnd) => IInv'
<1> SUFFICES ASSUME IInv, ReadBegin \/ ReadFirst \/ ReadSecond \/ ReadEnd PROVE IInv'
  OBVIOUS
<1> USE ClockAssumption DEF IInv, At, Runs
<1>0. TypeOK /\ FpuTypeOK /\ UNCHANGED fpuVars /\ UNCHANGED <<time, intervals, sinceYield, waiting, ticks>>
  BY DEF NoTickLost, TypeOK, ReadBegin, ReadFirst, ReadSecond, ReadEnd
<1>1. LifeInv'
  BY <1>0 DEF fpuVars, listVars, FpuTypeOK, LifeInv, TypeOK, ReadBegin, ReadFirst, ReadSecond, ReadEnd, Outside
<1>2. FpuInv' /\ FpuTypeOK'
  BY <1>0 DEF fpuVars, listVars, FpuTypeOK, FpuInv
<1>3. reader' \in [Threads -> [pc : Steps, ret : Timestamps]]
  <2>1. Outside \in [pc : Steps, ret : Timestamps]
    BY DEF Outside, Steps, Timestamps
  <2>2. time \in Timestamps /\ current \in Threads /\ reader \in [Threads -> [pc : Steps, ret : Timestamps]]
    BY <1>0 DEF TypeOK, FpuTypeOK
  <2>3. CASE ReadBegin
    BY <2>2, <2>3 DEF ReadBegin, Steps
  <2>4. CASE ReadFirst
    BY <2>2, <2>4 DEF ReadFirst, Steps, Timestamps
  <2>5. CASE ReadSecond
    BY <2>2, <2>5 DEF ReadSecond, Steps, Timestamps
  <2>6. CASE ReadEnd
    BY <2>1, <2>2, <2>6 DEF ReadEnd
  <2> QED BY <2>3, <2>4, <2>5, <2>6
<1>4. Cardinality(Readers) \in Nat /\ readerCount \in Nat
  BY <1>0, FS_CardinalityType DEF ReaderInv, TypeOK
<1>5. ReaderInv' /\ readerCount' \in Nat
  <2>1. CASE ReadBegin
    <3>1. Readers' = Readers \cup {current} /\ current \notin Readers
      BY <1>0, <2>1 DEF ReadBegin, fpuVars, listVars, Readers, TypeOK, FpuTypeOK
    <3>2. IsFiniteSet(Readers') /\ Cardinality(Readers') = Cardinality(Readers) + 1
      BY <3>1, FS_AddElement DEF ReaderInv
    <3>3. readerCount' = readerCount + 1
      BY <2>1 DEF ReadBegin
    <3>4. \A t \in Readers' : /\ reader'[t].pc = "second" => reader'[t].ret.seconds = time'.seconds
                              /\ reader'[t].pc = "end" => reader'[t].ret = time'
      BY <1>0, <2>1, <3>1 DEF ReadBegin, ReaderInv, Readers, TypeOK, FpuTypeOK
    <3> QED BY <1>4, <3>2, <3>3, <3>4 DEF ReaderInv
  <2>2. CASE ReadFirst
    <3>1. Readers' = Readers
      BY <1>0, <2>2 DEF ReadFirst, fpuVars, listVars, Readers, TypeOK, FpuTypeOK
    <3>2. reader'[current].pc = "second" /\ reader'[current].ret.seconds = time.seconds
      BY <1>0, <2>2 DEF ReadFirst, TypeOK, FpuTypeOK, Timestamps
    <3>3. \A t \in Threads : t # current => reader'[t] = reader[t]
      BY <1>0, <2>2 DEF ReadFirst, TypeOK, FpuTypeOK
    <3> QED BY <1>0, <1>4, <2>2, <3>1, <3>2, <3>3 DEF ReadFirst, ReaderInv, Readers
  <2>3. CASE ReadSecond
    <3>1. Readers' = Readers /\ current \in Readers
      BY <1>0, <2>3 DEF ReadSecond, fpuVars, listVars, Readers, TypeOK, FpuTypeOK
    <3>2. reader'[current].pc = "end" /\ reader'[current].ret.fraction = time.fraction
          /\ reader'[current].ret.seconds = reader[current].ret.seconds
      BY <1>0, <2>3 DEF ReadSecond, TypeOK, FpuTypeOK, Timestamps
    <3>3. reader[current].ret.seconds = time.seconds
      BY <2>3, <3>1 DEF ReadSecond, ReaderInv
    <3>4. reader'[current].ret = time
      <4>1. reader'[current].ret \in Timestamps /\ time \in Timestamps
        BY <1>0, <1>3 DEF TypeOK, FpuTypeOK
      <4> QED BY <3>2, <3>3, <4>1 DEF Timestamps
    <3>5. \A t \in Threads : t # current => reader'[t] = reader[t]
      BY <1>0, <2>3 DEF ReadSecond, TypeOK, FpuTypeOK
    <3> QED BY <1>0, <1>4, <2>3, <3>1, <3>2, <3>4, <3>5 DEF ReadSecond, ReaderInv, Readers
  <2>4. CASE ReadEnd
    <3>1. Readers' = Readers \ {current} /\ current \in Readers
      BY <1>0, <2>4 DEF ReadEnd, fpuVars, listVars, Readers, TypeOK, FpuTypeOK, Outside
    <3>2. IsFiniteSet(Readers') /\ Cardinality(Readers') = Cardinality(Readers) - 1
      BY <3>1, FS_RemoveElement DEF ReaderInv
    <3>3. readerCount' = readerCount - 1
      BY <2>4 DEF ReadEnd
    <3>4. Cardinality(Readers) # 0
      BY <3>1, FS_EmptySet DEF ReaderInv
    <3>5. \A t \in Readers' : reader'[t] = reader[t]
      BY <1>0, <2>4, <3>1 DEF ReadEnd, Readers, TypeOK, FpuTypeOK
    <3> QED BY <1>0, <1>4, <3>1, <3>2, <3>3, <3>4, <3>5 DEF ReaderInv
  <2> QED BY <2>1, <2>2, <2>3, <2>4
<1>6. NoTickLost'
  BY <1>0, <1>2, <1>3, <1>5 DEF NoTickLost, TypeOK, Count
<1> QED BY <1>1, <1>2, <1>5, <1>6

(* The other steps of a thread.                                             *)
LEMMA ThreadKeeps == IInv /\ Thread => IInv'
<1> SUFFICES ASSUME IInv, Thread PROVE IInv'
  OBVIOUS
<1> USE DEF IInv
<1>0. TypeOK /\ reader[current].pc = "out" /\ UNCHANGED <<time, intervals, readerCount, sinceYield, ticks>>
  BY DEF NoTickLost, Thread
<1>1. /\ FpuTypeOK' /\ LifeInv' /\ FpuInv' /\ Readers' \subseteq Readers
      /\ \A u \in Readers' : reader'[u] = reader[u]
      /\ reader' \in [Threads -> [pc : Steps, ret : Timestamps]]
      /\ waiting' \in BOOLEAN
  <2>1. CASE UNCHANGED reader /\ YieldOrWait
    <3>1. FpuTypeOK' /\ LifeInv' /\ FpuInv' /\ Readers' = Readers
      BY <1>0, <2>1, YieldKeeps, StandStillKeeps DEF YieldOrWait
    <3> QED BY <1>0, <2>1, <3>1 DEF TypeOK, YieldOrWait
  <2>2. CASE UNCHANGED <<reader, waiting>> /\ ThreadStep
    <3>1. FpuTypeOK' /\ LifeInv' /\ FpuInv' /\ Readers' \subseteq Readers
      BY <1>0, <2>2, KillKeeps, WakeKeeps, DeleteKeeps, BlockKeeps, JoinKeeps, UseFpuKeeps, SwitchFpuKeeps, ExitKeeps
      DEF ThreadStep
    <3> QED BY <1>0, <2>2, <3>1 DEF TypeOK
  <2>3. CASE /\ \E t \in Threads : Create(t) /\ reader' = [reader EXCEPT ![t] = Outside]
             /\ UNCHANGED waiting
    <3>1. PICK t \in Threads : Create(t) /\ reader' = [reader EXCEPT ![t] = Outside]
      BY <2>3
    <3>2. Outside \in [pc : Steps, ret : Timestamps]
      BY ClockAssumption DEF Outside, Steps, Timestamps
    <3> QED BY <1>0, <2>3, <3>1, <3>2, CreateKeeps DEF TypeOK
  <2> QED BY <2>1, <2>2, <2>3 DEF Thread
<1>2. NoTickLost'
  BY <1>0, <1>1, ClockKeeps
<1>3. ReaderInv'
  BY <1>0, <1>1, FewerReaders
<1> QED BY <1>1, <1>2, <1>3

(* The invariant holds in every reachable state.                            *)
THEOREM InvHolds == Spec => []IInv
<1>1. IInv /\ UNCHANGED vars => IInv'
  <2> SUFFICES ASSUME IInv, UNCHANGED vars PROVE IInv'
    OBVIOUS
  <2>1. TypeOK /\ UNCHANGED fpuVars /\ UNCHANGED clockVars
    BY DEF vars, IInv, NoTickLost
  <2>2. FpuTypeOK' /\ LifeInv' /\ FpuInv' /\ Readers' = Readers
    BY <2>1, StandStillKeeps DEF IInv, clockVars
  <2>3. NoTickLost'
    BY <2>1, <2>2, ClockKeeps DEF IInv, clockVars, TypeOK
  <2>4. ReaderInv'
    BY <2>1, <2>2, FewerReaders DEF IInv, clockVars
  <2> QED BY <2>2, <2>3, <2>4 DEF IInv
<1>2. IInv /\ [Next]_vars => IInv'
  BY <1>1, TickKeeps, ReadKeeps, ThreadKeeps DEF Next
<1> QED BY InitInv, <1>2, PTL DEF Spec

(* A thread that the monitor lets use the FPU finds its own registers, as   *)
(* long as no killed thread was made ready again                            *)
(* (Scheduler::switchFpuContext(), Fpu::switchContext()).                   *)
THEOREM RegistersAreOwn == Spec => []OwnRegisters
<1>1. IInv => OwnRegisters
  BY FpuAssumption DEF IInv, NoTickLost, TypeOK, FpuTypeOK, FpuInv, OwnRegisters, Runs
<1> QED BY <1>1, InvHolds, PTL

(* The trap handler does not write to the context of a terminated thread,   *)
(* as long as no killed thread was made ready again                         *)
(* (Scheduler::resetLastFpuThread()).                                       *)
THEOREM LastFpuThreadIsAlive == Spec => []LastFpuThreadAlive
<1>1. IInv => LastFpuThreadAlive
  BY DEF IInv, NoTickLost, TypeOK, FpuTypeOK, LifeInv, FpuInv, LastFpuThreadAlive
<1> QED BY <1>1, InvHolds, PTL

(* getTime() returns a time that the clock has shown (Pit::getTime()).      *)
THEOREM ReadsAreUntorn == Spec => []UntornRead
<1>1. IInv => UntornRead
  BY DEF IInv, ReaderInv, Readers, UntornRead
<1> QED BY <1>1, InvHolds, PTL

(* Types, and every interrupt is in the time or postponed (Pit::trigger()). *)
THEOREM TicksAreCounted == Spec => []NoTickLost
<1>1. IInv => NoTickLost
  BY DEF IInv
<1> QED BY <1>1, InvHolds, PTL
=============================================================================
