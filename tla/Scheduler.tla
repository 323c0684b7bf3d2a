----------------------------- MODULE Scheduler -----------------------------
(***************************************************************************)
(* The thread scheduler of the hhuOS kernel (kernel/process/Scheduler.cpp) *)
(* with the thread cleaner (kernel/process/SchedulerCleaner.cpp) and the   *)
(* calls of the kernel's threads that reach it.                            *)
(*                                                                         *)
(* One CPU runs one thread, currentThread.  A step of a thread is what it  *)
(* does between two points at which the timer interrupt may preempt it and *)
(* another thread can see the difference.  Code that runs while the thread *)
(* holds readyQueueLock is never preempted (yield() returns at once when   *)
(* the lock is taken), so it is one step, except where the code itself     *)
(* waits under that lock.  A thread that spins on another lock yields in   *)
(* every round (Spinlock::acquire): it waits by having no step but         *)
(* VoluntaryYield.                                                         *)
(***************************************************************************)
EXTENDS Naturals, Sequences, FiniteSets

CONSTANTS
  Threads,              \* every thread that exists or will be created
  NoThread,             \* a null pointer, and a free lock
  Cleaner,              \* the "Scheduler-Cleaner" thread
  Spinners,             \* threads that only poll and yield ("Packet-Reader")
  BootOrder,            \* the ready queue at the time of Scheduler::start()
  Ops,                  \* the calls that the other threads make
  Durations,            \* the arguments of their sleep(), in timer ticks
  CleanerPeriod,        \* the cleaner's sleep(), in timer ticks
  QueueCapacity,        \* capacity of readyQueue at start() (16, 32, ...)
  ThreadQueueCapacity   \* capacity of the cleaner's queue (16 in the code)

ASSUME ThreadsAssumption ==
  /\ IsFiniteSet(Threads)
  /\ NoThread \notin Threads
  /\ Cleaner \in Threads
  /\ Spinners \subseteq Threads \ {Cleaner}

ASSUME BootAssumption ==
  /\ BootOrder \in Seq(Threads) /\ BootOrder # <<>>
  /\ \A i, j \in DOMAIN BootOrder : BootOrder[i] = BootOrder[j] => i = j
  /\ \E i \in DOMAIN BootOrder : BootOrder[i] = Cleaner
  /\ \A s \in Spinners : \E i \in DOMAIN BootOrder : BootOrder[i] = s

ASSUME WorkloadAssumption ==
  /\ Ops \subseteq {"sleep", "join", "exit", "kill", "ready", "alloc"}
  /\ Durations \subseteq Nat /\ CleanerPeriod \in Nat

ASSUME CapacityAssumption ==
  /\ QueueCapacity \in Nat /\ QueueCapacity >= Len(BootOrder)
  /\ ThreadQueueCapacity \in Nat \ {0}

VARIABLES
  currentThread,   \* the running thread; NoThread before start()
  readyQueue,      \* FIFO of Thread*
  capacity,        \* of the ArrayList inside readyQueue
  readyQueueLock,  \* its holder, or NoThread
  sleepList,       \* sequence of [thread, left]: ticks until wakeupTime
  sleepQueueLock,
  live,            \* the key set of joinMap
  joinMap,         \* joinMap[t], t \in live: the threads waiting for t
  joinLock,
  heapLock,        \* the lock of the kernel heap's memory manager
  threadQueue,     \* the elements of the cleaner's queue of terminated threads
  ring,            \* its head, tail and length, and what the cleaner has loaded
  torn,            \* history: a termination has hit one of the cleaner's updates
  deleted,         \* threads whose object has been freed
  pc,              \* where in the kernel each thread is
  target,          \* the thread argument of its current call
  fault            \* how the machine came to a halt, or "none"

vars == <<currentThread, readyQueue, capacity, readyQueueLock, sleepList,
          sleepQueueLock, live, joinMap, joinLock, heapLock, threadQueue,
          ring, torn, deleted, pc, target, fault>>

Entries == [thread : Threads, left : Nat]

\* new: created but not yet given to ready();  run: executes its own code;
\* blocked: switched away from inside block();  the others name the line of
\* the kernel that the thread executes next.
Labels == {"new", "run", "blocked",
           "sleepAdd", "block", "blockLoop",
           "look", "lookSleep", "scanSleep", "join", "joinAdd",
           "kill", "killRemove", "alloc", "yield", "delete",
           "pollStore", "pollRead",
           "requeue", "addLoad", "addStore", "addSlot", "addLength", "addDone"}

\* growing:   waits for the heap lock with readyQueueLock held, in yield/block
\* polling:   waits in readyQueue.poll() with readyQueueLock held
\* stale:     switch_thread() loaded a stack pointer saved by an older switch
\* exception: an exception thrown with the scheduler's locks held
\* wild:      the cleaner has polled an empty slot or a thread it freed before
Faults == {"none", "growing", "polling", "stale", "exception", "wild"}

Slots == 0..(ThreadQueueCapacity - 1)

Ring == [head : Slots, tail : Nat, length : Nat, loaded : Nat]

TypeOK ==
  /\ currentThread \in Threads \cup {NoThread}
  /\ readyQueue \in Seq(Threads)
  /\ capacity \in Nat
  /\ readyQueueLock \in Threads \cup {NoThread}
  /\ sleepList \in Seq(Entries)
  /\ sleepQueueLock \in Threads \cup {NoThread}
  /\ live \subseteq Threads
  /\ joinMap \in [Threads -> Seq(Threads)]
  /\ joinLock \in Threads \cup {NoThread}
  /\ heapLock \in Threads \cup {NoThread}
  /\ threadQueue \in [Slots -> Threads \cup {NoThread}]
  /\ ring \in Ring
  /\ torn \in BOOLEAN
  /\ deleted \subseteq Threads
  /\ pc \in [Threads -> Labels]
  /\ target \in [Threads -> Threads \cup {NoThread}]
  /\ fault \in Faults

Workers == Threads \ (Spinners \cup {Cleaner})

InSeq(s, x) == \E i \in DOMAIN s : s[i] = x

Sleeping(t) == \E i \in DOMAIN sleepList : sleepList[i].thread = t

\* Fault: off by one, the element behind the first match is dropped.
DropFirst_Next(s, I) ==
  [j \in 1..(IF I = {} THEN Len(s) ELSE Len(s) - 1) |->
     IF \E i \in I : i < j THEN s[j + 1] ELSE s[j]]

\* ArrayList::remove when I are the positions that match: the first of them,
\* if there is one, is overwritten by moving up what follows it.
DropFirst(s, I) ==
  [j \in 1..(IF I = {} THEN Len(s) ELSE Len(s) - 1) |->
     IF \E i \in I : i <= j THEN s[j + 1] ELSE s[j]]

RemoveThread(queue, u) == DropFirst(queue, {i \in DOMAIN queue : queue[i] = u})

\* Sleep entries are compared by their thread.
RemoveSleeper(list, u) == DropFirst(list, {i \in DOMAIN list : list[i].thread = u})

-----------------------------------------------------------------------------
Init ==
  /\ currentThread = NoThread
  /\ readyQueue = BootOrder
  /\ capacity = QueueCapacity
  /\ readyQueueLock = NoThread
  /\ sleepList = <<>>
  /\ sleepQueueLock = NoThread
  /\ live = {BootOrder[i] : i \in DOMAIN BootOrder}
  /\ joinMap = [t \in Threads |-> <<>>]
  /\ joinLock = NoThread
  /\ heapLock = NoThread
  /\ threadQueue = [i \in Slots |-> NoThread]
  /\ ring = [head |-> 0, tail |-> ThreadQueueCapacity - 1, length |-> 0, loaded |-> 0]
  /\ torn = FALSE
  /\ deleted = {}
  /\ pc = [t \in Threads |-> IF InSeq(BootOrder, t) THEN "run" ELSE "new"]
  /\ target = [t \in Threads |-> NoThread]
  /\ fault = "none"

\* t is on the CPU, at label l.
Running(t, l) ==
  /\ fault = "none"
  /\ currentThread = t /\ t \notin deleted
  /\ pc[t] = l

Goto(t, l) == pc' = [pc EXCEPT ![t] = l]

-----------------------------------------------------------------------------
(***************************************************************************)
(* Thread switching: yield(), block() and the timer interrupt.             *)
(***************************************************************************)

\* The increasing enumerations of a set of positions: exactly one.
Increasing(I) ==
  {p \in [1..Cardinality(I) -> I] :
     /\ \A i, j \in DOMAIN p : i < j => p[i] < p[j]
     /\ \A k \in I : \E i \in DOMAIN p : p[i] = k}

\* checkSleepList(): the positions of the sleep list that one scan wakes, none
\* while another thread holds sleepQueueLock.  Those are the entries that are
\* due, without the ones that directly follow a removed one (the loop removes
\* entry i and goes on with i + 1, which used to be i + 2).
DuePositions(list) ==
  {W \in SUBSET DOMAIN list :
     \A k \in DOMAIN list :
       k \in W <=> (sleepQueueLock = NoThread /\ list[k].left = 0 /\ k - 1 \notin W)}

\* Fault: an entry is removed although its thread is not offered.
Woken_Lost(list, p) == <<>>

\* The threads that the scan offers to readyQueue ...
Woken(list, p) == [i \in DOMAIN p |-> list[p[i]].thread]

\* Fault: the entries that are due stay in the list.
Kept_All(list, q) == list

\* ... and the sleep list that remains.
Kept(list, q) == [i \in DOMAIN q |-> list[q[i]]]

\* ArrayList::ensureCapacity for a queue of n elements: double when full.
Grown(n) == IF n <= capacity THEN capacity ELSE 2 * capacity

\* readyQueue.offer() has to allocate while someone holds the heap's lock.
GrowthBlocked(q) == Len(q) > capacity /\ heapLock # NoThread

\* Fault: the thread that is switched to does not release readyQueueLock.
SwitchTo_Locked(t, l, next) ==
  /\ currentThread' = next
  /\ readyQueueLock' = t
  /\ pc' = [pc EXCEPT ![t] = l]
  /\ UNCHANGED target

\* switchThread(t, next): t stops at label l; next continues where it left
\* the CPU and releases readyQueueLock (release_scheduler_lock).
SwitchTo(t, l, next) ==
  /\ currentThread' = next
  /\ readyQueueLock' = NoThread
  /\ pc' = [u \in Threads |->
              IF u = next THEN IF pc[u] = "blocked" THEN "run" ELSE pc[u]
              ELSE IF u = t THEN l ELSE pc[u]]
  /\ target' = [target EXCEPT ![next] = IF pc[next] = "blocked" THEN NoThread ELSE @]

\* The machine never leaves the state it halts in: the thread keeps the lock.
Halt(t, reason) ==
  /\ fault' = reason
  /\ readyQueueLock' = t

\* Fault: the current thread is not offered back to the queue.
PolledAndOffered_Lost(q, t) == Tail(q)

\* yield() polls the next thread and offers the current one.
PolledAndOffered(q, t) == Append(Tail(q), t)

\* yield() with the ready queue q and the sleep list keep that checkSleepList()
\* leaves; list is the sleep list before it.
YieldWith(t, l, list, q, keep) ==
  \/ /\ GrowthBlocked(q)
     /\ Halt(t, "growing")
     /\ sleepList' = list
     /\ UNCHANGED <<currentThread, readyQueue, capacity, pc, target>>
  \/ /\ ~GrowthBlocked(q) /\ q = <<>>
     /\ Halt(t, "polling")
     /\ sleepList' = keep
     /\ UNCHANGED <<currentThread, readyQueue, capacity, pc, target>>
  \/ /\ ~GrowthBlocked(q) /\ q # <<>> /\ Head(q) = t
     /\ Halt(t, "stale")
     /\ sleepList' = keep
     /\ readyQueue' = PolledAndOffered(q, t)
     /\ capacity' = Grown(Len(q))
     /\ UNCHANGED <<currentThread, pc, target>>
  \/ /\ ~GrowthBlocked(q) /\ q # <<>> /\ Head(q) # t
     /\ SwitchTo(t, l, Head(q))
     /\ sleepList' = keep
     /\ readyQueue' = PolledAndOffered(q, t)
     /\ capacity' = Grown(Len(q))
     /\ UNCHANGED fault

\* yield() of the current thread t, which continues at label l; list is the
\* sleep list as the timer left it.
Yield(t, l, list) ==
  IF readyQueueLock # NoThread
  THEN /\ Goto(t, l)
       /\ sleepList' = list
       /\ UNCHANGED <<currentThread, readyQueue, capacity, readyQueueLock, target, fault>>
  ELSE \E W \in DuePositions(list) :
       \E p \in Increasing(W), r \in Increasing(DOMAIN list \ W) :
         YieldWith(t, l, list, readyQueue \o Woken(list, p), Kept(list, r))

\* Spinlock::acquire and lockReadyQueue give up the CPU while they wait.
SpinsOnLock(t) ==
  \/ pc[t] = "lookSleep" /\ sleepQueueLock # NoThread
  \/ pc[t] = "join" /\ joinLock # NoThread
  \/ pc[t] = "kill" /\ (joinLock # NoThread \/ heapLock # NoThread)
  \/ pc[t] = "delete" /\ heapLock # NoThread
  \/ pc[t] = "requeue" /\ ring.length = ThreadQueueCapacity

\* Thread::yield() called by the thread itself.
VoluntaryYield(t) ==
  \/ \E l \in {"run", "yield"} :
       /\ Running(t, l)
       /\ Yield(t, "run", sleepList)
       /\ UNCHANGED <<sleepQueueLock, live, joinMap, joinLock, heapLock, threadQueue, ring, torn, deleted>>
  \/ /\ SpinsOnLock(t)
     /\ Running(t, pc[t])
     /\ Yield(t, pc[t], sleepList)
     /\ UNCHANGED <<sleepQueueLock, live, joinMap, joinLock, heapLock, threadQueue, ring, torn, deleted>>

\* Fault: the remaining time wraps below zero.
Aged_Wrap == [i \in DOMAIN sleepList |->
                [thread |-> sleepList[i].thread, left |-> sleepList[i].left - 1]]

\* One timer tick brings every wake-up time one tick closer.
Aged == [i \in DOMAIN sleepList |->
           [thread |-> sleepList[i].thread,
            left   |-> IF sleepList[i].left = 0 THEN 0 ELSE sleepList[i].left - 1]]

\* A timer interrupt that does not reach the yield interval, or one of the PIT
\* while the APIC timer does the preemption: only the time advances.
TimerTick ==
  /\ currentThread # NoThread
  /\ sleepList' = Aged
  /\ UNCHANGED <<currentThread, readyQueue, capacity, readyQueueLock, sleepQueueLock, live,
                 joinMap, joinLock, heapLock, threadQueue, ring, torn, deleted, pc, target, fault>>

\* A timer interrupt that calls yield(true): the PIT advances the time first,
\* the APIC timer leaves the system time alone.
TimerPreempt ==
  /\ fault = "none"
  /\ currentThread \in Threads \ deleted
  /\ \E list \in {Aged, sleepList} : Yield(currentThread, pc[currentThread], list)
  /\ UNCHANGED <<sleepQueueLock, live, joinMap, joinLock, heapLock, threadQueue, ring, torn, deleted>>

\* Scheduler::start(), called once by the boot code.
Start ==
  /\ currentThread = NoThread
  /\ readyQueue # <<>>
  /\ currentThread' = Head(readyQueue)
  /\ readyQueue' = Tail(readyQueue)
  /\ UNCHANGED <<capacity, readyQueueLock, sleepList, sleepQueueLock, live, joinMap, joinLock,
                 heapLock, threadQueue, ring, torn, deleted, pc, target, fault>>

\* block(): takes readyQueueLock ...
BlockEnter(t) ==
  /\ Running(t, "block")
  /\ readyQueueLock = NoThread
  /\ readyQueueLock' = t
  /\ Goto(t, "blockLoop")
  /\ UNCHANGED <<currentThread, readyQueue, capacity, sleepList, sleepQueueLock, live, joinMap,
                 joinLock, heapLock, threadQueue, ring, torn, deleted, target, fault>>

\* ... scans the sleep list until a thread is ready, and leaves the CPU.  When
\* the first ready thread is the caller, block() returns without unlocking.
BlockWith(t, q, keep) ==
  \/ /\ GrowthBlocked(q)
     /\ Halt(t, "growing")
     /\ UNCHANGED <<currentThread, readyQueue, capacity, sleepList, pc, target>>
  \/ /\ ~GrowthBlocked(q) /\ Head(q) = t
     /\ Goto(t, "run")
     /\ target' = [target EXCEPT ![t] = NoThread]
     /\ readyQueue' = Tail(q)
     /\ capacity' = Grown(Len(q))
     /\ sleepList' = keep
     /\ UNCHANGED <<currentThread, readyQueueLock, fault>>
  \/ /\ ~GrowthBlocked(q) /\ Head(q) # t
     /\ SwitchTo(t, "blocked", Head(q))
     /\ readyQueue' = Tail(q)
     /\ capacity' = Grown(Len(q))
     /\ sleepList' = keep
     /\ UNCHANGED fault

BlockSwitch(t) ==
  /\ Running(t, "blockLoop")
  /\ \E W \in DuePositions(sleepList) :
     \E p \in Increasing(W), r \in Increasing(DOMAIN sleepList \ W) :
       /\ readyQueue \o Woken(sleepList, p) # <<>>
       /\ BlockWith(t, readyQueue \o Woken(sleepList, p), Kept(sleepList, r))
  /\ UNCHANGED <<sleepQueueLock, live, joinMap, joinLock, heapLock, threadQueue, ring, torn, deleted>>

-----------------------------------------------------------------------------
(***************************************************************************)
(* sleep(), ready(), exit() and allocations from the kernel heap.          *)
(***************************************************************************)

\* The cleaner sleeps when its queue is empty; other threads when they like.
MaySleep(t) == IF t = Cleaner THEN ring.length = 0 ELSE t \in Workers /\ "sleep" \in Ops

SleepEnter(t) ==
  /\ Running(t, "run")
  /\ MaySleep(t)
  /\ sleepQueueLock = NoThread
  /\ sleepQueueLock' = t
  /\ Goto(t, "sleepAdd")
  /\ UNCHANGED <<currentThread, readyQueue, capacity, readyQueueLock, sleepList, live, joinMap,
                 joinLock, heapLock, threadQueue, ring, torn, deleted, target, fault>>

SleepAdd(t) ==
  /\ Running(t, "sleepAdd")
  /\ \E d \in IF t = Cleaner THEN {CleanerPeriod} ELSE Durations :
       sleepList' = Append(sleepList, [thread |-> t, left |-> d])
  /\ sleepQueueLock' = NoThread
  /\ Goto(t, "block")
  /\ UNCHANGED <<currentThread, readyQueue, capacity, readyQueueLock, live, joinMap, joinLock,
                 heapLock, threadQueue, ring, torn, deleted, target, fault>>

\* What lockReadyQueue() and the loop around joinLock.tryAcquire() wait for:
\* between their rounds the thread yields with none of the locks held.
AllLocksFree == readyQueueLock = NoThread /\ heapLock = NoThread /\ joinLock = NoThread

Ready(t, u) ==
  /\ Running(t, "run") /\ t \in Workers /\ "ready" \in Ops
  /\ pc[u] = "new"
  /\ AllLocksFree
  /\ readyQueue' = Append(readyQueue, u)
  /\ capacity' = Grown(Len(readyQueue) + 1)
  /\ live' = live \cup {u}
  /\ joinMap' = [joinMap EXCEPT ![u] = <<>>]
  /\ Goto(u, "run")
  /\ UNCHANGED <<currentThread, readyQueueLock, sleepList, sleepQueueLock, joinLock, heapLock,
                 threadQueue, ring, torn, deleted, target, fault>>

\* The index behind i in the cleaner's ring buffer.
After(i) == (i + 1) % ThreadQueueCapacity

\* The cleaner polls and adds without a lock.  A termination spoils its queue
\* between a load and the store that belongs to it, and next to those when it
\* fills the queue.
Tears ==
  \/ pc[Cleaner] \in {"pollStore", "addStore", "addSlot", "addDone"}
  \/ pc[Cleaner] \in {"pollRead", "addLoad", "addLength"} /\ ring.length + 1 = ThreadQueueCapacity

\* The part that exit() and kill() share: wake the joiners of u, forget its
\* join list and hand it to the cleaner.  queue is the ready queue afterwards.
Terminate(u, queue) ==
  /\ readyQueue' = queue
  /\ capacity' = Grown(Len(readyQueue) + Len(joinMap[u]))
  /\ live' = live \ {u}
  /\ joinMap' = [joinMap EXCEPT ![u] = <<>>]
  /\ threadQueue' = [threadQueue EXCEPT ![After(ring.tail)] = u]
  /\ ring' = [ring EXCEPT !.tail = After(ring.tail), !.length = @ + 1]
  /\ torn' = (torn \/ Tears)

\* A thread that returns from run() or calls EXIT_THREAD.  An exception under
\* the scheduler's locks (no join list, cleaner's queue full) halts the kernel.
Exit(t) ==
  /\ Running(t, "run") /\ t \in Workers /\ "exit" \in Ops
  /\ AllLocksFree
  /\ IF t \in live /\ ring.length # ThreadQueueCapacity
     THEN /\ Terminate(t, readyQueue \o joinMap[t])
          /\ Goto(t, "block")
          /\ UNCHANGED <<readyQueueLock, fault>>
     ELSE /\ Halt(t, "exception")
          /\ UNCHANGED <<readyQueue, capacity, live, joinMap, threadQueue, ring, torn, pc>>
  /\ UNCHANGED <<currentThread, sleepList, sleepQueueLock, joinLock, heapLock, deleted, target>>

\* Any code path that holds the kernel heap's lock.
AllocEnter(t) ==
  /\ Running(t, "run") /\ t \in Workers /\ "alloc" \in Ops
  /\ heapLock = NoThread
  /\ heapLock' = t
  /\ Goto(t, "alloc")
  /\ UNCHANGED <<currentThread, readyQueue, capacity, readyQueueLock, sleepList, sleepQueueLock,
                 live, joinMap, joinLock, threadQueue, ring, torn, deleted, target, fault>>

AllocExit(t) ==
  /\ Running(t, "alloc")
  /\ heapLock' = NoThread
  /\ Goto(t, "run")
  /\ UNCHANGED <<currentThread, readyQueue, capacity, readyQueueLock, sleepList, sleepQueueLock,
                 live, joinMap, joinLock, threadQueue, ring, torn, deleted, target, fault>>

-----------------------------------------------------------------------------
(***************************************************************************)
(* kill(), called for every thread of a process that another process ends. *)
(***************************************************************************)

\* killProcess() goes through a copy of the process's list of threads: the
\* victim may have terminated by the time kill() reaches it.
KillBegin(t, u) ==
  /\ Running(t, "run") /\ t \in Workers /\ "kill" \in Ops
  /\ u \in (live \cap Workers) \ {t}
  /\ target' = [target EXCEPT ![t] = u]
  /\ Goto(t, "kill")
  /\ UNCHANGED <<currentThread, readyQueue, capacity, readyQueueLock, sleepList, sleepQueueLock,
                 live, joinMap, joinLock, heapLock, threadQueue, ring, torn, deleted, fault>>

KillLock(t) ==
  /\ Running(t, "kill")
  /\ AllLocksFree
  /\ readyQueueLock' = t
  /\ joinLock' = t
  /\ Goto(t, "killRemove")
  /\ UNCHANGED <<currentThread, readyQueue, capacity, sleepList, sleepQueueLock, live, joinMap,
                 heapLock, threadQueue, ring, torn, deleted, target, fault>>

\* Waits for sleepQueueLock with readyQueueLock held, then removes the victim.
KillRemove(t) ==
  /\ Running(t, "killRemove")
  /\ sleepQueueLock = NoThread
  /\ sleepList' = RemoveSleeper(sleepList, target[t])
  /\ IF target[t] \in live /\ ring.length # ThreadQueueCapacity
     THEN /\ Terminate(target[t], RemoveThread(readyQueue \o joinMap[target[t]], target[t]))
          /\ joinLock' = NoThread
          /\ readyQueueLock' = NoThread
          /\ target' = [target EXCEPT ![t] = NoThread]
          /\ Goto(t, "run")
          /\ UNCHANGED fault
     ELSE /\ Halt(t, "exception")
          /\ UNCHANGED <<readyQueue, capacity, live, joinMap, joinLock, threadQueue, ring, torn, pc, target>>
  /\ UNCHANGED <<currentThread, sleepQueueLock, heapLock, deleted>>

-----------------------------------------------------------------------------
(***************************************************************************)
(* getThread(), which JOIN_THREAD and the cleaner call first, and what the *)
(* two do with its result.                                                 *)
(***************************************************************************)

\* Fault: the cleaner frees a thread that is still queued.
Found_Delete(t) ==
  /\ Goto(t, IF t = Cleaner THEN "delete" ELSE "join")
  /\ UNCHANGED target

Found(t) ==
  /\ Goto(t, IF t = Cleaner THEN "requeue" ELSE "join")
  /\ UNCHANGED target

\* Fault: the cleaner forgets the thread it polled.
NotFound_Dropped(t) ==
  /\ Goto(t, "run")
  /\ target' = [target EXCEPT ![t] = NoThread]

NotFound(t) ==
  /\ Goto(t, IF t = Cleaner THEN "delete" ELSE "run")
  /\ target' = [target EXCEPT ![t] = IF t = Cleaner THEN @ ELSE NoThread]

LookReady(t) ==
  /\ Running(t, "look")
  /\ readyQueueLock = NoThread
  /\ IF InSeq(readyQueue, target[t])
     THEN Found(t)
     ELSE Goto(t, "lookSleep") /\ UNCHANGED target
  /\ UNCHANGED <<currentThread, readyQueue, capacity, readyQueueLock, sleepList, sleepQueueLock,
                 live, joinMap, joinLock, heapLock, threadQueue, ring, torn, deleted, fault>>

LookSleepLock(t) ==
  /\ Running(t, "lookSleep")
  /\ sleepQueueLock = NoThread
  /\ sleepQueueLock' = t
  /\ Goto(t, "scanSleep")
  /\ UNCHANGED <<currentThread, readyQueue, capacity, readyQueueLock, sleepList, live, joinMap,
                 joinLock, heapLock, threadQueue, ring, torn, deleted, target, fault>>

LookSleep(t) ==
  /\ Running(t, "scanSleep")
  /\ sleepQueueLock' = NoThread
  /\ IF Sleeping(target[t]) THEN Found(t) ELSE NotFound(t)
  /\ UNCHANGED <<currentThread, readyQueue, capacity, readyQueueLock, sleepList, live, joinMap,
                 joinLock, heapLock, threadQueue, ring, torn, deleted, fault>>

\* The JOIN_THREAD system call, with the id of any thread that was created.
JoinBegin(t, u) ==
  /\ Running(t, "run") /\ t \in Workers /\ "join" \in Ops
  /\ pc[u] # "new"
  /\ target' = [target EXCEPT ![t] = u]
  /\ Goto(t, "look")
  /\ UNCHANGED <<currentThread, readyQueue, capacity, readyQueueLock, sleepList, sleepQueueLock,
                 live, joinMap, joinLock, heapLock, threadQueue, ring, torn, deleted, fault>>

JoinLock(t) ==
  /\ Running(t, "join")
  /\ joinLock = NoThread
  /\ joinLock' = t
  /\ Goto(t, "joinAdd")
  /\ UNCHANGED <<currentThread, readyQueue, capacity, readyQueueLock, sleepList, sleepQueueLock,
                 live, joinMap, heapLock, threadQueue, ring, torn, deleted, target, fault>>

\* thread.getId() of a deleted thread reads freed memory: any id, or none.
JoinId(u) == IF u \in deleted THEN Threads \cup {NoThread} ELSE {u}

\* join(): when the thread has no join list any more, the call returns
\* without releasing joinLock.
JoinAdd(t) ==
  /\ Running(t, "joinAdd")
  /\ \E u \in JoinId(target[t]) :
       IF u \in live
       THEN /\ joinMap' = [joinMap EXCEPT ![u] = Append(@, t)]
            /\ joinLock' = NoThread
            /\ Goto(t, "block")
            /\ UNCHANGED target
       ELSE /\ Goto(t, "run")
            /\ target' = [target EXCEPT ![t] = NoThread]
            /\ UNCHANGED <<joinMap, joinLock>>
  /\ UNCHANGED <<currentThread, readyQueue, capacity, readyQueueLock, sleepList, sleepQueueLock,
                 live, heapLock, threadQueue, ring, torn, deleted, fault>>

(***************************************************************************)
(* The cleaner's threadQueue is an ArrayBlockingQueue that exit() and      *)
(* kill() fill under readyQueueLock and the cleaner uses without a lock:   *)
(* each access of the cleaner to a field that they write is a step.  Only  *)
(* the cleaner uses head.                                                  *)
(***************************************************************************)

\* Fault: the length is stored as it was loaded.
CleanerPoll_Full ==
  /\ Running(Cleaner, "run")
  /\ ring.length > 0
  /\ ring' = [ring EXCEPT !.loaded = ring.length]
  /\ Goto(Cleaner, "pollStore")
  /\ UNCHANGED <<currentThread, readyQueue, capacity, readyQueueLock, sleepList, sleepQueueLock,
                 live, joinMap, joinLock, heapLock, threadQueue, torn, deleted, target, fault>>

\* poll(): length--, a load ...
CleanerPoll ==
  /\ Running(Cleaner, "run")
  /\ ring.length > 0
  /\ ring' = [ring EXCEPT !.loaded = ring.length - 1]
  /\ Goto(Cleaner, "pollStore")
  /\ UNCHANGED <<currentThread, readyQueue, capacity, readyQueueLock, sleepList, sleepQueueLock,
                 live, joinMap, joinLock, heapLock, threadQueue, torn, deleted, target, fault>>

\* ... and a store ...
CleanerPollStore ==
  /\ Running(Cleaner, "pollStore")
  /\ ring' = [ring EXCEPT !.length = ring.loaded, !.loaded = 0]
  /\ Goto(Cleaner, "pollRead")
  /\ UNCHANGED <<currentThread, readyQueue, capacity, readyQueueLock, sleepList, sleepQueueLock,
                 live, joinMap, joinLock, heapLock, threadQueue, torn, deleted, target, fault>>

\* ... and the element is read last, through a reference to its slot.  The
\* cleaner dereferences what it finds there.
CleanerPollRead ==
  /\ Running(Cleaner, "pollRead")
  /\ ring' = [ring EXCEPT !.head = After(ring.head)]
  /\ IF threadQueue[ring.head] \in Threads \ deleted
     THEN /\ target' = [target EXCEPT ![Cleaner] = threadQueue[ring.head]]
          /\ Goto(Cleaner, "look")
          /\ UNCHANGED fault
     ELSE /\ fault' = "wild"
          /\ UNCHANGED <<target, pc>>
  /\ UNCHANGED <<currentThread, readyQueue, capacity, readyQueueLock, sleepList, sleepQueueLock,
                 live, joinMap, joinLock, heapLock, threadQueue, torn, deleted>>

\* add() of a thread that getThread() still finds: test for room ...
CleanerRequeue ==
  /\ Running(Cleaner, "requeue")
  /\ ring.length # ThreadQueueCapacity
  /\ Goto(Cleaner, "addLoad")
  /\ UNCHANGED <<currentThread, readyQueue, capacity, readyQueueLock, sleepList, sleepQueueLock,
                 live, joinMap, joinLock, heapLock, threadQueue, ring, torn, deleted, target, fault>>

\* ... tail = (tail + 1) % capacity, a load and a store ...
CleanerAddLoad ==
  /\ Running(Cleaner, "addLoad")
  /\ ring' = [ring EXCEPT !.loaded = After(ring.tail)]
  /\ Goto(Cleaner, "addStore")
  /\ UNCHANGED <<currentThread, readyQueue, capacity, readyQueueLock, sleepList, sleepQueueLock,
                 live, joinMap, joinLock, heapLock, threadQueue, torn, deleted, target, fault>>

CleanerAddStore ==
  /\ Running(Cleaner, "addStore")
  /\ ring' = [ring EXCEPT !.tail = ring.loaded, !.loaded = 0]
  /\ Goto(Cleaner, "addSlot")
  /\ UNCHANGED <<currentThread, readyQueue, capacity, readyQueueLock, sleepList, sleepQueueLock,
                 live, joinMap, joinLock, heapLock, threadQueue, torn, deleted, target, fault>>

\* ... elements[tail] = element ...
CleanerAddSlot ==
  /\ Running(Cleaner, "addSlot")
  /\ threadQueue' = [threadQueue EXCEPT ![ring.tail] = target[Cleaner]]
  /\ Goto(Cleaner, "addLength")
  /\ UNCHANGED <<currentThread, readyQueue, capacity, readyQueueLock, sleepList, sleepQueueLock,
                 live, joinMap, joinLock, heapLock, ring, torn, deleted, target, fault>>

\* ... and length++, before the cleaner yields.
CleanerAddLength ==
  /\ Running(Cleaner, "addLength")
  /\ ring' = [ring EXCEPT !.loaded = ring.length + 1]
  /\ Goto(Cleaner, "addDone")
  /\ UNCHANGED <<currentThread, readyQueue, capacity, readyQueueLock, sleepList, sleepQueueLock,
                 live, joinMap, joinLock, heapLock, threadQueue, torn, deleted, target, fault>>

CleanerAddDone ==
  /\ Running(Cleaner, "addDone")
  /\ ring' = [ring EXCEPT !.length = ring.loaded, !.loaded = 0]
  /\ target' = [target EXCEPT ![Cleaner] = NoThread]
  /\ Goto(Cleaner, "yield")
  /\ UNCHANGED <<currentThread, readyQueue, capacity, readyQueueLock, sleepList, sleepQueueLock,
                 live, joinMap, joinLock, heapLock, threadQueue, torn, deleted, fault>>

\* A thread that getThread() does not find is freed.
CleanerDelete ==
  /\ Running(Cleaner, "delete")
  /\ heapLock = NoThread
  /\ deleted' = deleted \cup {target[Cleaner]}
  /\ target' = [target EXCEPT ![Cleaner] = NoThread]
  /\ Goto(Cleaner, "run")
  /\ UNCHANGED <<currentThread, readyQueue, capacity, readyQueueLock, sleepList, sleepQueueLock,
                 live, joinMap, joinLock, heapLock, threadQueue, ring, torn, fault>>

-----------------------------------------------------------------------------
\* The steps of thread t that bring its own work forward.
ThreadStep(t) ==
  \/ BlockEnter(t) \/ BlockSwitch(t)
  \/ SleepEnter(t) \/ SleepAdd(t)
  \/ \E u \in Threads : Ready(t, u) \/ KillBegin(t, u) \/ JoinBegin(t, u)
  \/ Exit(t)
  \/ AllocEnter(t) \/ AllocExit(t)
  \/ KillLock(t) \/ KillRemove(t)
  \/ LookReady(t) \/ LookSleepLock(t) \/ LookSleep(t)
  \/ JoinLock(t) \/ JoinAdd(t)

CleanerStep ==
  \/ CleanerPoll \/ CleanerPollStore \/ CleanerPollRead
  \/ CleanerRequeue \/ CleanerAddLoad \/ CleanerAddStore \/ CleanerAddSlot
  \/ CleanerAddLength \/ CleanerAddDone
  \/ CleanerDelete

Next ==
  \/ Start
  \/ TimerTick
  \/ TimerPreempt
  \/ CleanerStep
  \/ \E t \in Threads : ThreadStep(t) \/ VoluntaryYield(t)

Spec == Init /\ [][Next]_vars

-----------------------------------------------------------------------------
(***************************************************************************)
(* Safety.                                                                 *)
(***************************************************************************)

\* Every lock of the scheduler has the holder that the code path of that
\* thread says it has: only the running thread can hold readyQueueLock, since
\* yield() refuses to switch while it is taken; at most one thread is between
\* acquire() and release() of sleepQueueLock, of joinLock and of the heap lock,
\* however the timer cuts those sections apart.
LockDiscipline ==
  /\ readyQueueLock \in {NoThread, currentThread}
  /\ \A t \in Threads :
       /\ pc[t] \in {"blockLoop", "killRemove"} => readyQueueLock = t
       /\ pc[t] \in {"sleepAdd", "scanSleep"} <=> sleepQueueLock = t
       /\ pc[t] \in {"joinAdd", "killRemove"} => joinLock = t
       /\ pc[t] = "alloc" <=> heapLock = t

Occurrences(s, t) == Cardinality({i \in DOMAIN s : s[i] = t})

\* The pending wake-ups of t: its places in the ready queue, the sleep list
\* and the join lists that a termination will put into the ready queue.
Wakeups(t) ==
  Occurrences(readyQueue, t)
  + Cardinality({i \in DOMAIN sleepList : sleepList[i].thread = t})
  + Cardinality(UNION {{u} \X {i \in DOMAIN joinMap[u] : joinMap[u][i] = t} : u \in live})

\* kill() halts on a full cleaner's queue or a missing join list after it has
\* taken its victim off the sleep list.
HalfKilled(t) == fault = "exception" /\ t = target[currentThread]

\* No wake-up is lost and none is delivered twice.  A thread is on the CPU or
\* has exactly one wake-up pending; between the moment it enters itself into
\* the sleep list or a join list and the moment block() takes it off the CPU
\* it has one more, even if the timer interrupt wakes it before it blocks.
TokenConservation ==
  \A t \in live : ~HalfKilled(t) =>
    Wakeups(t) + (IF t = currentThread THEN 1 ELSE 0)
      = IF pc[t] \in {"block", "blockLoop"} THEN 2 ELSE 1

\* A terminated thread is freed only when the scheduler does not refer to it
\* any more: it is not running, and no queue or list that the scheduler wakes
\* threads from holds it.  SchedulerCleaner.cpp:70 relies on getThread() for
\* this; a killed thread may still be in a join list.  It holds however the
\* terminations hit the cleaner's unprotected queue, up to the step at which
\* the cleaner dereferences a slot that is empty or holds a freed thread.
NoUseAfterFree ==
  \A t \in deleted :
    /\ t # currentThread
    /\ ~InSeq(readyQueue, t)
    /\ ~Sleeping(t)
    /\ \A u \in live : ~InSeq(joinMap[u], t)

\* The cleaner polls a pointer that is no thread's, or frees a thread twice,
\* only if a termination has hit one of the updates of tail and length that it
\* makes without a lock: any other interleaving of exit(), kill() and the
\* cleaner leaves the queue intact.
SoundUnlessTorn == fault = "wild" => torn

\* join() returns from block() only when the thread it waits for has
\* terminated: no left-over wake-up of an earlier sleep() ends it early.
JoinMeansExit ==
  [][\A t \in Threads :
       (pc[t] \in {"block", "blockLoop", "blocked"} /\ target[t] # NoThread /\ pc'[t] = "run")
         => target[t] \notin live']_vars

\* sleep() and join() return only after the scheduler has taken the thread off
\* the list it was on, whatever the timer does between the entry and block():
\* a thread in its own code is on no list.
NoEarlyReturn ==
  \A t \in live : pc[t] = "run" => /\ ~Sleeping(t)
                                   /\ \A u \in live : ~InSeq(joinMap[u], t)

\* With two threads that never block, readyQueue.poll() in yield() always
\* finds a thread.
NeverPollsEmptyQueue == fault # "polling"

(****************************************************************************)
(* Liveness.  The CPU executes the current thread, every time slice is long *)
(* enough for a step of it, and the timer keeps firing.                     *)
(****************************************************************************)

\* The steps that thread t takes once it is inside the kernel; all of those
\* of the cleaner, whose code leaves it no choice.
Progress(t) ==
  \/ (t = Cleaner \/ pc[t] # "run") /\ ThreadStep(t)
  \/ t = Cleaner /\ CleanerStep
  \/ pc[t] = "yield" /\ VoluntaryYield(t)

Fairness ==
  /\ WF_vars(Start)
  /\ WF_vars(TimerTick) /\ WF_vars(TimerPreempt)
  /\ \A t \in Threads \ Spinners : SF_vars(Progress(t))

FairSpec == Spec /\ Fairness

\* The ways out of normal operation that sleep() has in this code: a halt, and
\* readyQueueLock kept by a thread that has left the section it protects.
Derailed ==
  \/ fault # "none"
  \/ \E t \in Threads : readyQueueLock = t /\ pc[t] \notin {"blockLoop", "killRemove"}

\* Every sleeping thread runs again.
SleeperRunsAgain == \A t \in Threads \ Spinners : Sleeping(t) ~> (pc[t] = "run" \/ Derailed)

\* A terminated thread that has not been freed yet.
Terminated(t) == t \in Threads \ (live \cup deleted) /\ pc[t] # "new"

\* Every terminated thread is freed, unless a termination has hit one of the
\* cleaner's updates of its queue: then a thread may be lost.
TerminatedIsFreed == \A t \in Workers : Terminated(t) ~> (t \in deleted \/ Derailed \/ torn)
=============================================================================
