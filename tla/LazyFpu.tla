------------------------------ MODULE LazyFpu ------------------------------
(* The FPU registers are switched lazily (kernel/process/Scheduler.cpp,     *)
(* device/cpu/Fpu.cpp).  A thread switch only arms the monitor (bit TS of   *)
(* CR0); the first FPU instruction after it traps, and the handler saves    *)
(* the registers into the context of the thread that used them last and     *)
(* loads those of the current one.  The handler runs behind an interrupt    *)
(* gate, so it is one step, and so are ready(), exit() up to its block()    *)
(* and kill(), which hold readyQueueLock and are not preempted under it     *)
(* (module Scheduler).  Threads are the addresses of Thread objects: an     *)
(* address is used again after its thread has been deleted.  kill() takes   *)
(* its victim out of the ready queue and the sleep list, but not out of a   *)
(* join list, so the victim may be made ready again.                        *)

CONSTANTS Threads,   \* addresses of Thread objects
          First,     \* the first thread the scheduler starts
          NoThread,  \* nullptr
          Values     \* contents of the registers
CONSTANT Default     \* the contents after fninit

(* First is the kernel's first ready thread; like every thread created      *)
(* while booting it is kernel code without a floating point instruction.    *)
ASSUME FpuAssumption ==
  First \in Threads /\ NoThread \notin Threads /\ Default \in Values

VARIABLES current,   \* Scheduler::currentThread
          life,      \* life[t]: where thread t is
          joinList,  \* joinList[t]: Scheduler::joinMap.get(t)
          doomed,    \* SchedulerCleaner::threadQueue
          revived,   \* a thread that no longer joined was made ready (history)
          last,      \* Scheduler::lastFpuThread
          armed,     \* CR0.TS
          regs,      \* the registers
          context,   \* context[t]: Thread::fpuContext
          own        \* own[t]: what t left in its registers (auxiliary)

listVars == <<joinList, doomed, revived>>
fpuVars == <<current, life, listVars, last, armed, regs, context, own>>

Lives == {"free", "ready", "sleeping", "joining", "exiting", "dead"}

FpuTypeOK ==
  /\ current \in Threads
  /\ life \in [Threads -> Lives]
  /\ joinList \in [Threads -> SUBSET Threads]
  /\ doomed \subseteq Threads
  /\ revived \in BOOLEAN
  /\ last \in Threads \cup {NoThread}
  /\ armed \in BOOLEAN
  /\ regs \in Values
  /\ context \in [Threads -> Values]
  /\ own \in [Threads -> Values]

(* Fpu's constructor leaves the monitor disarmed and nobody arms it before  *)
(* the first switch.                                                        *)
FpuInit ==
  /\ current = First
  /\ life = [t \in Threads |-> IF t = First THEN "ready" ELSE "free"]
  /\ joinList = [t \in Threads |-> {}] /\ doomed = {} /\ revived = FALSE
  /\ last = NoThread
  /\ armed = FALSE
  /\ regs = Default
  /\ context = [t \in Threads |-> Default]
  /\ own = [t \in Threads |-> Default]

Runs(t) == current = t /\ life[t] = "ready"

(* Threads that yield() or block() may poll: everybody in the ready queue   *)
(* but the running one.  An exiting thread that was preempted is in it.     *)
InQueue(t) == life[t] \in {"ready", "exiting"} /\ t # current

(* Fault: the monitor is not armed.                                         *)
SwitchTo_Unarmed(next) == InQueue(next) /\ current' = next /\ UNCHANGED armed
(* The end of yield() and block(): arm the monitor and switch.              *)
SwitchTo(next) ==
  /\ InQueue(next)
  /\ current' = next
  /\ armed' = TRUE

(* Fault: lastFpuThread stays.                                              *)
ResetLast_Never(t) == UNCHANGED last
(* resetLastFpuThread(): compare and set of the pointer.                    *)
ResetLast(t) == last' = IF last = t THEN NoThread ELSE last

(* The common part of exit() and kill(): every entry of the join list of t  *)
(* is offered to the ready queue, also that of a thread that was killed     *)
(* since and waits for its deletion: it runs again.  (An entry of a thread  *)
(* that is ready, sleeps or is freed already sets the history variable,     *)
(* too; what becomes of that thread is not followed.)  t itself gets into   *)
(* the queue of the cleaner.                                                *)
Terminate(t, state) ==
  /\ t \notin doomed
  /\ ResetLast(t)
  /\ life' = [u \in Threads |->
               IF u = t THEN state
               ELSE IF u \in joinList[t] /\ life[u] \in {"joining", "dead"}
                    THEN "ready" ELSE life[u]]
  /\ joinList' = [joinList EXCEPT ![t] = {}]
  /\ doomed' = doomed \cup {t}
  /\ revived' = (revived \/ \E u \in joinList[t] \ {t} : life[u] # "joining")

----------------------------------------------------------------------------

(* The constructor of Thread, and ready() by the thread that creates it.    *)
Create(t) ==
  /\ Runs(current) /\ life[t] = "free"
  /\ life' = [life EXCEPT ![t] = "ready"]
  /\ joinList' = [joinList EXCEPT ![t] = {}]
  /\ context' = [context EXCEPT ![t] = Default]
  /\ own' = [own EXCEPT ![t] = Default]
  /\ UNCHANGED <<current, doomed, revived, last, armed, regs>>

(* An FPU instruction of the running thread that the monitor lets through.  *)
UseFpu(v) ==
  /\ Runs(current) /\ current # First
  /\ ~armed
  /\ regs' = v
  /\ own' = [own EXCEPT ![current] = v]
  /\ UNCHANGED <<current, life, listVars, last, armed, context>>

(* handleFpuException() -> switchFpuContext() -> Fpu::switchContext().      *)
SwitchFpuContext ==
  /\ Runs(current) /\ current # First
  /\ armed
  /\ armed' = FALSE
  /\ IF current = last
     THEN UNCHANGED <<last, regs, context>>
     ELSE /\ context' = IF last = NoThread THEN context
                        ELSE [context EXCEPT ![last] = regs]
          /\ regs' = context[current]
          /\ last' = current
  /\ UNCHANGED <<current, life, listVars, own>>

(* exit() up to the release of readyQueueLock: the thread is in the queue   *)
(* of the cleaner, but it still has to block.                               *)
Exit ==
  /\ Runs(current) /\ current # First
  /\ Terminate(current, "exiting")
  /\ UNCHANGED <<current, armed, regs, context, own>>

(* kill() of another thread, in the ready queue or not.  The join lists     *)
(* keep a victim that waits in one.                                         *)
Kill(t) ==
  /\ Runs(current)
  /\ t \notin {current, First} /\ life[t] \in {"ready", "sleeping", "joining"}
  /\ Terminate(t, "dead")
  /\ UNCHANGED <<current, armed, regs, context, own>>

(* block() at the end of sleep() and exit().                                *)
Block(next) ==
  /\ SwitchTo(next)
  /\ life' = [life EXCEPT ![current] =
                IF life[current] = "exiting" THEN "dead" ELSE "sleeping"]
  /\ UNCHANGED <<listVars, last, regs, context, own>>

(* join() of a thread that has a join list, with the block() at its end.    *)
Join(t, next) ==
  /\ Runs(current) /\ life[t] # "free" /\ t \notin doomed
  /\ SwitchTo(next)
  /\ life' = [life EXCEPT ![current] = "joining"]
  /\ joinList' = [joinList EXCEPT ![t] = @ \cup {current}]
  /\ UNCHANGED <<doomed, revived, last, regs, context, own>>

(* The offer of checkSleepList().                                           *)
Wake(t) ==
  /\ life[t] = "sleeping"
  /\ life' = [life EXCEPT ![t] = "ready"]
  /\ UNCHANGED <<current, listVars, last, armed, regs, context, own>>

(* yield(): the running thread stays in the queue.                          *)
Yield(next) ==
  /\ SwitchTo(next)
  /\ UNCHANGED <<life, listVars, last, regs, context, own>>

(* The cleaner deletes a terminated thread, and with it its context.        *)
Delete(t) ==
  /\ Runs(current) /\ t \in doomed \ {current} /\ life[t] # "exiting"
  /\ life' = [life EXCEPT ![t] = "free"]
  /\ doomed' = doomed \ {t}
  /\ UNCHANGED <<current, joinList, revived, last, armed, regs, context, own>>

----------------------------------------------------------------------------

(* Until a killed thread is made ready again: a thread that can execute FPU *)
(* instructions (the monitor is disarmed) finds in the registers what it    *)
(* left there itself, or the initial contents when it has not used them     *)
(* yet: not what another thread, or an earlier thread at the same address,  *)
(* left.  Scheduler.cpp:212 compares addresses of threads.  A thread that   *)
(* was killed in a join list and runs again has lost its registers to       *)
(* resetLastFpuThread().                                                    *)
OwnRegisters == ~revived /\ ~armed /\ Runs(current) => regs = own[current]

(* Until a killed thread is made ready again: lastFpuThread points to a     *)
(* thread that is still there: switchContext() writes 512 bytes to its      *)
(* context (Fpu.cpp:125 and 139).  A thread that was killed in a join list  *)
(* and runs again may become lastFpuThread and then be deleted.             *)
LastFpuThreadAlive ==
  ~revived /\ last # NoThread =>
    life[last] \in {"ready", "sleeping", "joining"} /\ last \notin doomed
=============================================================================
