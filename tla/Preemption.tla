----------------------------- MODULE Preemption -----------------------------
(* The timer interrupt (device/time/pit/Pit.cpp): it counts the time, which *)
(* threads read at any moment without a lock, and preempts the running      *)
(* thread.  Composed with the lazy switch of the FPU, which every switch    *)
(* must prepare.  Only the running thread makes steps; the interrupt is one *)
(* step.  Time is a Timestamp of two words, so a copy takes two steps.      *)
EXTENDS LazyFpu, Naturals

CONSTANTS PerSecond,      \* timer intervals in a second
          YieldInterval,  \* timer intervals between two yields
          MaxTicks        \* bound on the interrupts of a run

ASSUME ClockAssumption ==
  PerSecond \in Nat \ {0} /\ YieldInterval \in Nat /\ MaxTicks \in Nat

VARIABLES time,           \* Pit::time: seconds and fraction
          intervals,      \* Pit::intervals
          readerCount,    \* Pit::readerCount
          sinceYield,     \* Pit::timeSinceLastYield
          waiting,        \* yield() waits in readyQueue.poll() for ever
          ticks,          \* interrupts so far (auxiliary)
          reader          \* reader[t]: the call of getTime() of thread t

clockVars == <<time, intervals, readerCount, sinceYield, waiting, ticks, reader>>
vars == <<fpuVars, clockVars>>

Timestamps == [seconds : 0 .. MaxTicks, fraction : 0 .. PerSecond - 1]
Steps == {"out", "first", "second", "end"}
Outside == [pc |-> "out", ret |-> [seconds |-> 0, fraction |-> 0]]

(* The types of the clock and of the FPU's state.                           *)
TypeOK ==
  /\ FpuTypeOK
  /\ time \in Timestamps
  /\ intervals \in 0 .. MaxTicks
  /\ readerCount \in Nat
  /\ sinceYield \in 0 .. YieldInterval
  /\ waiting \in BOOLEAN
  /\ ticks \in 0 .. MaxTicks
  /\ reader \in [Threads -> [pc : Steps, ret : Timestamps]]

Init ==
  /\ FpuInit
  /\ time = [seconds |-> 0, fraction |-> 0]
  /\ intervals = 0 /\ readerCount = 0 /\ sinceYield = 0 /\ waiting = FALSE /\ ticks = 0
  /\ reader = [t \in Threads |-> Outside]

Count(stamp) == stamp.seconds * PerSecond + stamp.fraction

(* n times time += timerInterval, with the carry of Timestamp::operator+=.  *)
Plus(stamp, n) ==
  [seconds |-> stamp.seconds + (stamp.fraction + n) \div PerSecond,
   fraction |-> (stamp.fraction + n) % PerSecond]

----------------------------------------------------------------------------
(* getTime(): the counter is raised, the two words are copied, the counter  *)
(* is lowered (both atomically).                                            *)

At(step) == Runs(current) /\ reader[current].pc = step

ReadBegin ==
  /\ At("out")
  /\ readerCount' = readerCount + 1
  /\ reader' = [reader EXCEPT ![current].pc = "first"]
  /\ UNCHANGED <<fpuVars, time, intervals, sinceYield, waiting, ticks>>

ReadFirst ==
  /\ At("first")
  /\ reader' = [reader EXCEPT ![current].pc = "second",
                              ![current].ret.seconds = time.seconds]
  /\ UNCHANGED <<fpuVars, time, intervals, readerCount, sinceYield, waiting, ticks>>

ReadSecond ==
  /\ At("second")
  /\ reader' = [reader EXCEPT ![current].pc = "end",
                              ![current].ret.fraction = time.fraction]
  /\ UNCHANGED <<fpuVars, time, intervals, readerCount, sinceYield, waiting, ticks>>

(* Fault: the counter is cleared, not lowered.                              *)
ReadEnd_Clear ==
  /\ At("end")
  /\ readerCount' = 0
  /\ reader' = [reader EXCEPT ![current] = Outside]
  /\ UNCHANGED <<fpuVars, time, intervals, sinceYield, waiting, ticks>>

ReadEnd ==
  /\ At("end")
  /\ readerCount' = readerCount - 1
  /\ reader' = [reader EXCEPT ![current] = Outside]
  /\ UNCHANGED <<fpuVars, time, intervals, sinceYield, waiting, ticks>>

----------------------------------------------------------------------------

(* Fault: the postponed intervals are forgotten.                            *)
AddIntervals_Dropped ==
  /\ time' = IF readerCount = 0 THEN Plus(time, 1) ELSE time
  /\ intervals' = 0

(* trigger(): without readers the postponed intervals are added, too.       *)
AddIntervals ==
  IF readerCount = 0
  THEN time' = Plus(time, intervals + 1) /\ intervals' = 0
  ELSE intervals' = intervals + 1 /\ UNCHANGED time

(* yield() with no other thread ready waits in readyQueue.poll(), and with  *)
(* readyQueueLock taken nobody ever offers one: the system stands still.    *)
YieldOrWait ==
  \/ (\E next \in Threads : Yield(next)) /\ UNCHANGED waiting
  \/ (\A t \in Threads : ~InQueue(t)) /\ waiting' = TRUE /\ UNCHANGED fpuVars

(* After more than yieldInterval the handler yields.                        *)
Tick ==
  /\ ticks < MaxTicks
  /\ ticks' = ticks + 1
  /\ AddIntervals
  /\ IF sinceYield < YieldInterval
     THEN sinceYield' = sinceYield + 1 /\ UNCHANGED <<fpuVars, waiting>>
     ELSE sinceYield' = 0 /\ YieldOrWait
  /\ UNCHANGED <<readerCount, reader>>

(* The other steps of the running thread, outside getTime().  A thread      *)
(* created at an address begins outside, too.                               *)
ThreadStep ==
  \/ \E t \in Threads : Kill(t) \/ Wake(t) \/ Delete(t)
  \/ \E next \in Threads : Block(next) \/ \E t \in Threads : Join(t, next)
  \/ \E v \in Values : UseFpu(v)
  \/ SwitchFpuContext \/ Exit

Thread ==
  /\ reader[current].pc = "out"
  /\ \/ YieldOrWait /\ UNCHANGED reader
     \/ ThreadStep /\ UNCHANGED <<reader, waiting>>
     \/ /\ \E t \in Threads : Create(t) /\ reader' = [reader EXCEPT ![t] = Outside]
        /\ UNCHANGED waiting
  /\ UNCHANGED <<time, intervals, readerCount, sinceYield, ticks>>

Next ==
  /\ ~waiting
  /\ Tick \/ ReadBegin \/ ReadFirst \/ ReadSecond \/ ReadEnd \/ Thread

Spec == Init /\ [][Next]_vars

----------------------------------------------------------------------------

(* A call of getTime() returns a time that the clock showed: the seconds    *)
(* and the fraction it copied belong together, although the interrupt may   *)
(* come between the two reads, and other threads may read meanwhile         *)
(* (Pit.cpp:70, 90).                                                        *)
UntornRead == \A t \in Threads :
  life[t] = "ready" /\ reader[t].pc = "end" => reader[t].ret = time

(* No interval is lost: the time and the postponed intervals together are   *)
(* the number of interrupts (Pit.cpp:68-74).                                *)
NoTickLost == TypeOK /\ Count(time) + intervals = ticks
=============================================================================
