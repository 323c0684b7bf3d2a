-------------------------- MODULE SchedulerProofs --------------------------
(***************************************************************************)
(* Proofs about Scheduler, for every set of threads, every boot order and  *)
(* every workload that its assumptions admit.                              *)
(***************************************************************************)
EXTENDS Scheduler, FiniteSetTheorems, SequenceTheorems, TLAPS

\* The positions of a sequence are finitely many, and so is every choice of
\* positions that one scan of the sleep list makes.
LEMMA PositionsFinite ==
  ASSUME NEW S, NEW s \in Seq(S), NEW I \in SUBSET DOMAIN s
  PROVE  IsFiniteSet(I) /\ Cardinality(I) \in Nat
<1>1. IsFiniteSet(1..Len(s))
  BY FS_Interval
<1>2. DOMAIN s = 1..Len(s)
  OBVIOUS
<1>3. IsFiniteSet(I)
  BY <1>1, <1>2, FS_Subset
<1> QED BY <1>3, FS_CardinalityType

\* An enumeration of positions selects a sequence of elements.
LEMMA SelectionType ==
  ASSUME NEW S, NEW s \in Seq(S), NEW I \in SUBSET DOMAIN s, NEW p \in Increasing(I)
  PROVE  /\ p \in [1..Cardinality(I) -> I]
         /\ Cardinality(I) \in Nat
         /\ [i \in DOMAIN p |-> s[p[i]]] \in Seq(S)
<1>1. Cardinality(I) \in Nat
  BY PositionsFinite
<1>2. p \in [1..Cardinality(I) -> I]
  BY DEF Increasing
<1>3. \A i \in 1..Cardinality(I) : p[i] \in 1..Len(s)
  BY <1>2
<1>4. [i \in 1..Cardinality(I) |-> s[p[i]]] \in [1..Cardinality(I) -> S]
  BY <1>3
<1> QED BY <1>1, <1>2, <1>4

\* checkSleepList() offers threads and leaves a sleep list.
LEMMA CheckSleepListType ==
  ASSUME NEW list \in Seq(Entries), NEW W \in DuePositions(list),
         NEW p \in Increasing(W), NEW r \in Increasing(DOMAIN list \ W)
  PROVE  Woken(list, p) \in Seq(Threads) /\ Kept(list, r) \in Seq(Entries)
<1>1. W \in SUBSET DOMAIN list
  BY DEF DuePositions
<1>2. Kept(list, r) \in Seq(Entries)
  BY SelectionType DEF Kept
<1>3. p \in [1..Cardinality(W) -> W] /\ Cardinality(W) \in Nat
  BY <1>1, SelectionType
<1>4. \A k \in 1..Len(list) : list[k] \in Entries
  OBVIOUS
<1>5. \A k \in 1..Len(list) : list[k].thread \in Threads
  BY <1>4 DEF Entries
<1>6. \A i \in 1..Cardinality(W) : list[p[i]].thread \in Threads
  BY <1>1, <1>3, <1>5
<1>7. Woken(list, p) \in Seq(Threads)
  BY <1>3, <1>6 DEF Woken
<1> QED BY <1>2, <1>7

\* ArrayList::remove() leaves a sequence of the same elements.
LEMMA DropFirstType ==
  ASSUME NEW S, NEW s \in Seq(S), NEW I \in SUBSET DOMAIN s
  PROVE  DropFirst(s, I) \in Seq(S)
<1>1. CASE I = {}
  BY <1>1 DEF DropFirst
<1>2. CASE I # {}
  <2>1. Len(s) - 1 \in Nat
    BY <1>2
  <2>2. \A j \in 1..(Len(s) - 1) : s[j + 1] \in S /\ s[j] \in S
    BY <2>1
  <2> QED BY <1>2, <2>1, <2>2 DEF DropFirst
<1> QED BY <1>1, <1>2

\* kill() leaves a ready queue of threads ...
LEMMA RemoveThreadType ==
  ASSUME NEW queue \in Seq(Threads), NEW u
  PROVE  RemoveThread(queue, u) \in Seq(Threads)
BY DropFirstType DEF RemoveThread

\* ... and a sleep list of sleep entries.
LEMMA RemoveSleeperType ==
  ASSUME NEW list \in Seq(Entries), NEW u
  PROVE  RemoveSleeper(list, u) \in Seq(Entries)
BY DropFirstType DEF RemoveSleeper

\* The part of the type invariant that a thread switch can disturb.
SwitchTypeOK ==
  /\ currentThread \in Threads \cup {NoThread}
  /\ readyQueue \in Seq(Threads)
  /\ capacity \in Nat
  /\ readyQueueLock \in Threads \cup {NoThread}
  /\ sleepList \in Seq(Entries)
  /\ pc \in [Threads -> Labels]
  /\ target \in [Threads -> Threads \cup {NoThread}]
  /\ fault \in Faults

\* A timer tick brings the wake-up times nearer, but never below zero.
LEMMA AgedType ==
  ASSUME sleepList \in Seq(Entries)
  PROVE  Aged \in Seq(Entries)
<1>1. \A k \in 1..Len(sleepList) : sleepList[k] \in Entries
  OBVIOUS
<1>2. \A k \in 1..Len(sleepList) : sleepList[k].thread \in Threads /\ sleepList[k].left \in Nat
  BY <1>1 DEF Entries
<1>3. \A k \in 1..Len(sleepList) :
        [thread |-> sleepList[k].thread,
         left   |-> IF sleepList[k].left = 0 THEN 0 ELSE sleepList[k].left - 1] \in Entries
  BY <1>2 DEF Entries
<1> QED BY <1>3 DEF Aged

\* ensureCapacity() leaves a capacity that is a number.
LEMMA GrownType ==
  ASSUME capacity \in Nat, NEW n \in Nat
  PROVE  Grown(n) \in Nat
BY DEF Grown

\* switch_thread() changes the current thread, the labels and the lock, each within
\* its type.
LEMMA SwitchToType ==
  ASSUME TypeOK, NEW t \in Threads, NEW l \in Labels, NEW next \in Threads, SwitchTo(t, l, next)
  PROVE  /\ currentThread' \in Threads
         /\ readyQueueLock' = NoThread
         /\ pc' \in [Threads -> Labels]
         /\ target' \in [Threads -> Threads \cup {NoThread}]
BY DEF TypeOK, SwitchTo, Labels

\* yield() after any one scan of the sleep list keeps the types.
LEMMA YieldWithType ==
  ASSUME TypeOK, NEW t \in Threads, NEW l \in Labels, NEW list \in Seq(Entries),
         NEW q \in Seq(Threads), NEW keep \in Seq(Entries), YieldWith(t, l, list, q, keep)
  PROVE  SwitchTypeOK'
<1> USE DEF TypeOK
<1>1. CASE q = <<>>
  BY <1>1 DEF YieldWith, Halt, SwitchTypeOK, Faults
<1>2. CASE q # <<>>
  <2>1. Head(q) \in Threads /\ Tail(q) \in Seq(Threads) /\ Len(q) \in Nat
    BY <1>2
  <2>2. PolledAndOffered(q, t) \in Seq(Threads) /\ Grown(Len(q)) \in Nat
    BY <2>1, GrownType DEF PolledAndOffered
  <2>3. CASE SwitchTo(t, l, Head(q)) /\ fault' = fault /\ sleepList' = keep
             /\ readyQueue' = PolledAndOffered(q, t) /\ capacity' = Grown(Len(q))
    BY <2>1, <2>2, <2>3, SwitchToType DEF SwitchTypeOK
  <2>4. CASE Halt(t, "stale") /\ sleepList' = keep /\ UNCHANGED <<currentThread, pc, target>>
             /\ readyQueue' = PolledAndOffered(q, t) /\ capacity' = Grown(Len(q))
    BY <2>2, <2>4 DEF SwitchTypeOK, Halt, Faults
  <2>5. CASE Halt(t, "growing") /\ sleepList' = list
             /\ UNCHANGED <<currentThread, readyQueue, capacity, pc, target>>
    BY <2>5 DEF SwitchTypeOK, Halt, Faults
  <2> QED BY <1>2, <2>3, <2>4, <2>5 DEF YieldWith
<1> QED BY <1>1, <1>2

\* yield() keeps every variable that it writes in its type.
LEMMA YieldType ==
  ASSUME TypeOK, NEW t \in Threads, NEW l \in Labels, NEW list \in Seq(Entries), Yield(t, l, list)
  PROVE  SwitchTypeOK'
<1>1. CASE readyQueueLock # NoThread
  BY <1>1 DEF TypeOK, Yield, SwitchTypeOK, Goto
<1>2. CASE readyQueueLock = NoThread
  <2>0. PICK W \in DuePositions(list) :
          \E p \in Increasing(W), r \in Increasing(DOMAIN list \ W) :
            YieldWith(t, l, list, readyQueue \o Woken(list, p), Kept(list, r))
    BY <1>2 DEF Yield
  <2>1. PICK p \in Increasing(W), r \in Increasing(DOMAIN list \ W) :
          YieldWith(t, l, list, readyQueue \o Woken(list, p), Kept(list, r))
    BY <2>0
  <2>2. Woken(list, p) \in Seq(Threads) /\ Kept(list, r) \in Seq(Entries)
    BY CheckSleepListType
  <2>3. readyQueue \o Woken(list, p) \in Seq(Threads)
    BY <2>2 DEF TypeOK
  <2> QED BY <2>1, <2>2, <2>3, YieldWithType
<1> QED BY <1>1, <1>2

\* So does the switch at the end of block().
LEMMA BlockWithType ==
  ASSUME TypeOK, NEW t \in Threads, NEW q \in Seq(Threads), q # <<>>,
         NEW keep \in Seq(Entries), BlockWith(t, q, keep)
  PROVE  SwitchTypeOK'
<1> USE DEF TypeOK
<1>1. Head(q) \in Threads /\ Tail(q) \in Seq(Threads) /\ Len(q) \in Nat
  OBVIOUS
<1>2. Grown(Len(q)) \in Nat
  BY <1>1, GrownType
<1>3. CASE SwitchTo(t, "blocked", Head(q)) /\ fault' = fault /\ sleepList' = keep
           /\ readyQueue' = Tail(q) /\ capacity' = Grown(Len(q))
  <2>1. "blocked" \in Labels
    BY DEF Labels
  <2> QED BY <1>1, <1>2, <1>3, <2>1, SwitchToType DEF SwitchTypeOK
<1>4. CASE Goto(t, "run") /\ target' = [target EXCEPT ![t] = NoThread] /\ sleepList' = keep
           /\ readyQueue' = Tail(q) /\ capacity' = Grown(Len(q))
           /\ UNCHANGED <<currentThread, readyQueueLock, fault>>
  BY <1>1, <1>2, <1>4 DEF SwitchTypeOK, Goto, Labels
<1>5. CASE Halt(t, "growing") /\ UNCHANGED <<currentThread, readyQueue, capacity, sleepList, pc, target>>
  BY <1>5 DEF SwitchTypeOK, Halt, Faults
<1> QED BY <1>3, <1>4, <1>5 DEF BlockWith

\* A thread inside a call that names another thread has named one: without
\* this the queue of the cleaner could not be typed.
HasTarget ==
  \A t \in Threads :
    pc[t] \in {"look", "lookSleep", "scanSleep", "requeue", "addLoad", "addStore", "addSlot", "delete"} => target[t] \in Threads

\* The initial state is in the type.
LEMMA InitType == Init => TypeOK /\ HasTarget
<1> SUFFICES ASSUME Init PROVE TypeOK /\ HasTarget
  OBVIOUS
<1>1. live \subseteq Threads
  BY BootAssumption DEF Init
<1>2. capacity \in Nat /\ readyQueue \in Seq(Threads)
  BY BootAssumption, CapacityAssumption DEF Init
<1>3. HasTarget
  BY DEF Init, HasTarget
<1>4. ring \in Ring
  BY CapacityAssumption DEF Init, Ring, Slots
<1>5. threadQueue \in [Slots -> Threads \cup {NoThread}] /\ torn \in BOOLEAN
  BY DEF Init
<1>6. pc \in [Threads -> Labels] /\ target \in [Threads -> Threads \cup {NoThread}]
  BY DEF Init, Labels
<1>7. joinMap \in [Threads -> Seq(Threads)] /\ sleepList \in Seq(Entries) /\ deleted \subseteq Threads
  BY DEF Init
<1> QED BY <1>1, <1>2, <1>3, <1>4, <1>5, <1>6, <1>7, ThreadsAssumption DEF Init, TypeOK, Faults

\* The index behind another one is a slot of the cleaner's queue.
LEMMA AfterType ==
  ASSUME NEW i \in Nat
  PROVE  After(i) \in Slots /\ After(i) \in Nat
BY CapacityAssumption DEF After, Slots

\* length++ and length-- give numbers.
LEMMA LengthType ==
  ASSUME NEW n \in Nat
  PROVE  n + 1 \in Nat /\ (n > 0 => n - 1 \in Nat)
OBVIOUS

\* A termination keeps the type of the cleaner's queue.
LEMMA OfferType ==
  ASSUME TypeOK, NEW u \in Threads, NEW queue, Terminate(u, queue)
  PROVE  /\ threadQueue' \in [Slots -> Threads \cup {NoThread}]
         /\ ring' \in Ring
         /\ torn' \in BOOLEAN
<1>1. threadQueue' \in [Slots -> Threads \cup {NoThread}]
  BY DEF Terminate, TypeOK
<1>2. ring.tail \in Nat /\ ring.length + 1 \in Nat /\ ring \in Ring
  BY DEF TypeOK, Ring
<1>3. After(ring.tail) \in Nat
  BY <1>2, AfterType
<1>4. ring' \in Ring
  BY <1>2, <1>3 DEF Terminate, Ring
<1>5. torn' \in BOOLEAN
  BY DEF Terminate, Tears, TypeOK
<1> QED BY <1>1, <1>4, <1>5

\* Every step of a thread keeps the type.
LEMMA ThreadStepType ==
  ASSUME TypeOK, NEW t \in Threads, ThreadStep(t)
  PROVE  TypeOK'
<1> USE DEF TypeOK
<1>1. CASE BlockEnter(t)
  BY <1>1 DEF BlockEnter, Goto, Labels
<1>2. CASE BlockSwitch(t)
  <2>0. PICK W \in DuePositions(sleepList) :
          \E p \in Increasing(W), r \in Increasing(DOMAIN sleepList \ W) :
            /\ readyQueue \o Woken(sleepList, p) # <<>>
            /\ BlockWith(t, readyQueue \o Woken(sleepList, p), Kept(sleepList, r))
    BY <1>2 DEF BlockSwitch
  <2>1. PICK p \in Increasing(W), r \in Increasing(DOMAIN sleepList \ W) :
          /\ readyQueue \o Woken(sleepList, p) # <<>>
          /\ BlockWith(t, readyQueue \o Woken(sleepList, p), Kept(sleepList, r))
    BY <2>0
  <2>2. Woken(sleepList, p) \in Seq(Threads) /\ Kept(sleepList, r) \in Seq(Entries)
    BY CheckSleepListType
  <2>3. readyQueue \o Woken(sleepList, p) \in Seq(Threads)
    BY <2>2
  <2>4. SwitchTypeOK'
    BY <2>1, <2>2, <2>3, BlockWithType
  <2> QED BY <1>2, <2>4 DEF BlockSwitch, SwitchTypeOK
<1>3. CASE SleepEnter(t)
  BY <1>3 DEF SleepEnter, Goto, Labels
<1>4. CASE SleepAdd(t)
  <2>1. PICK d \in (IF t = Cleaner THEN {CleanerPeriod} ELSE Durations) :
          sleepList' = Append(sleepList, [thread |-> t, left |-> d])
    BY <1>4 DEF SleepAdd
  <2>2. [thread |-> t, left |-> d] \in Entries
    BY WorkloadAssumption DEF Entries
  <2>3. sleepList' \in Seq(Entries)
    BY <2>1, <2>2
  <2> QED BY <1>4, <2>3 DEF SleepAdd, Goto, Labels
<1>5. CASE \E u \in Threads : Ready(t, u)
  <2>1. PICK u \in Threads : Ready(t, u)
    BY <1>5
  <2>2. Len(readyQueue) + 1 \in Nat /\ Append(readyQueue, u) \in Seq(Threads)
    OBVIOUS
  <2>5. Grown(Len(readyQueue) + 1) \in Nat
    BY <2>2, GrownType
  <2>3. <<>> \in Seq(Threads)
    OBVIOUS
  <2>4. [joinMap EXCEPT ![u] = <<>>] \in [Threads -> Seq(Threads)]
    BY <2>3
  <2> QED BY <2>1, <2>2, <2>4, <2>5 DEF Ready, Goto, Labels
<1>6. CASE \E u \in Threads : KillBegin(t, u)
  BY <1>6 DEF KillBegin, Goto, Labels
<1>7. CASE \E u \in Threads : JoinBegin(t, u)
  BY <1>7 DEF JoinBegin, Goto, Labels
<1>8. CASE Exit(t)
  <2>1. Len(readyQueue) + Len(joinMap[t]) \in Nat /\ readyQueue \o joinMap[t] \in Seq(Threads)
    OBVIOUS
  <2>2. Grown(Len(readyQueue) + Len(joinMap[t])) \in Nat
    BY <2>1, GrownType
  <2>3. [joinMap EXCEPT ![t] = <<>>] \in [Threads -> Seq(Threads)]
    OBVIOUS
  <2>4. CASE Terminate(t, readyQueue \o joinMap[t]) /\ Goto(t, "block")
             /\ UNCHANGED <<readyQueueLock, fault>>
    <3>1. threadQueue' \in [Slots -> Threads \cup {NoThread}] /\ ring' \in Ring /\ torn' \in BOOLEAN
      BY <2>4, OfferType
    <3> QED BY <1>8, <2>1, <2>2, <2>3, <2>4, <3>1 DEF Exit, Terminate, Goto, Labels
  <2>5. CASE Halt(t, "exception")
             /\ UNCHANGED <<readyQueue, capacity, live, joinMap, threadQueue, ring, torn, pc>>
    BY <1>8, <2>5 DEF Exit, Halt, Faults
  <2> QED BY <1>8, <2>4, <2>5 DEF Exit
<1>9. CASE AllocEnter(t)
  BY <1>9 DEF AllocEnter, Goto, Labels
<1>10. CASE AllocExit(t)
  BY <1>10 DEF AllocExit, Goto, Labels
<1>11. CASE KillLock(t)
  BY <1>11 DEF KillLock, Goto, Labels
<1>12. CASE KillRemove(t)
  <2>1. RemoveSleeper(sleepList, target[t]) \in Seq(Entries)
    BY RemoveSleeperType
  <2>2. CASE target[t] \in live
    <3>1. /\ Len(readyQueue) + Len(joinMap[target[t]]) \in Nat
          /\ readyQueue \o joinMap[target[t]] \in Seq(Threads)
      BY <2>2
    <3>2. RemoveThread(readyQueue \o joinMap[target[t]], target[t]) \in Seq(Threads)
      BY <3>1, RemoveThreadType
    <3>3. target[t] \in Threads
      BY <2>2
    <3>4. Grown(Len(readyQueue) + Len(joinMap[target[t]])) \in Nat
      BY <3>1, GrownType
    <3>5. [joinMap EXCEPT ![target[t]] = <<>>] \in [Threads -> Seq(Threads)]
      <4>1. <<>> \in Seq(Threads)
        OBVIOUS
      <4> QED BY <3>3, <4>1
    <3>6. CASE ring.length # ThreadQueueCapacity
      <4>1. Terminate(target[t], RemoveThread(readyQueue \o joinMap[target[t]], target[t]))
        BY <1>12, <2>2, <3>6 DEF KillRemove
      <4>2. threadQueue' \in [Slots -> Threads \cup {NoThread}] /\ ring' \in Ring /\ torn' \in BOOLEAN
        BY <3>3, <4>1, OfferType
      <4> QED BY <1>12, <2>1, <2>2, <3>2, <3>3, <3>4, <3>5, <3>6, <4>2
              DEF KillRemove, Terminate, Goto, Labels
    <3>7. CASE ring.length = ThreadQueueCapacity
      BY <1>12, <2>1, <3>7 DEF KillRemove, Halt, Faults
    <3> QED BY <3>6, <3>7
  <2>3. CASE target[t] \notin live
    BY <1>12, <2>1, <2>3 DEF KillRemove, Halt, Faults
  <2> QED BY <2>2, <2>3
<1>13. CASE LookReady(t)
  BY <1>13 DEF LookReady, Found, Goto, Labels
<1>14. CASE LookSleepLock(t)
  BY <1>14 DEF LookSleepLock, Goto, Labels
<1>15. CASE LookSleep(t)
  BY <1>15 DEF LookSleep, Found, NotFound, Goto, Labels
<1>16. CASE JoinLock(t)
  BY <1>16 DEF JoinLock, Goto, Labels
<1>17. CASE JoinAdd(t)
  <2>1. PICK u \in JoinId(target[t]) :
          IF u \in live
          THEN /\ joinMap' = [joinMap EXCEPT ![u] = Append(@, t)]
               /\ joinLock' = NoThread
               /\ Goto(t, "block")
               /\ UNCHANGED target
          ELSE /\ Goto(t, "run")
               /\ target' = [target EXCEPT ![t] = NoThread]
               /\ UNCHANGED <<joinMap, joinLock>>
    BY <1>17 DEF JoinAdd
  <2>2. CASE u \in live
    <3>1. u \in Threads /\ joinMap[u] \in Seq(Threads)
      BY <2>2
    <3>2. Append(joinMap[u], t) \in Seq(Threads)
      BY <3>1
    <3>3. joinMap' \in [Threads -> Seq(Threads)]
      BY <2>1, <2>2, <3>1, <3>2
    <3> QED BY <1>17, <2>1, <2>2, <3>3 DEF JoinAdd, Goto, Labels
  <2>3. CASE u \notin live
    BY <1>17, <2>1, <2>3 DEF JoinAdd, Goto, Labels
  <2> QED BY <2>2, <2>3
<1> QED BY <1>1, <1>2, <1>3, <1>4, <1>5, <1>6, <1>7, <1>8, <1>9, <1>10, <1>11, <1>12,
           <1>13, <1>14, <1>15, <1>16, <1>17 DEF ThreadStep

\* The cleaner's steps on the fields of its queue keep the type.
LEMMA CleanerQueueType ==
  ASSUME TypeOK, HasTarget, CleanerStep
  PROVE  /\ ring' \in Ring
         /\ threadQueue' \in [Slots -> Threads \cup {NoThread}]
         /\ deleted' \subseteq Threads
         /\ target' \in [Threads -> Threads \cup {NoThread}]
<1> USE DEF TypeOK
<1>0. /\ ring \in Ring /\ ring.head \in Slots /\ ring.head \in Nat /\ ring.tail \in Nat
      /\ ring.length \in Nat /\ ring.loaded \in Nat /\ Cleaner \in Threads
  BY ThreadsAssumption, CapacityAssumption DEF Ring, Slots
<1>1. /\ After(ring.head) \in Slots /\ After(ring.tail) \in Nat /\ ring.length + 1 \in Nat
      /\ ring.length > 0 => ring.length - 1 \in Nat
  <2>1. After(ring.head) \in Slots
    BY <1>0, AfterType
  <2>2. After(ring.tail) \in Nat
    BY <1>0, AfterType
  <2>3. ring.length + 1 \in Nat /\ (ring.length > 0 => ring.length - 1 \in Nat)
    BY <1>0, LengthType
  <2> QED BY <2>1, <2>2, <2>3
<1>2. CASE CleanerPoll \/ CleanerAddLoad \/ CleanerAddLength
  <2>1. \A n \in Nat : [ring EXCEPT !.loaded = n] \in Ring
    BY <1>0 DEF Ring
  <2>2. \E n \in Nat : ring' = [ring EXCEPT !.loaded = n]
    BY <1>0, <1>1, <1>2 DEF CleanerPoll, CleanerAddLoad, CleanerAddLength
  <2> QED BY <1>2, <2>1, <2>2 DEF CleanerPoll, CleanerAddLoad, CleanerAddLength
<1>3. CASE CleanerPollStore \/ CleanerAddStore \/ CleanerAddDone
  <2>1. /\ [ring EXCEPT !.length = ring.loaded, !.loaded = 0] \in Ring
        /\ [ring EXCEPT !.tail = ring.loaded, !.loaded = 0] \in Ring
    BY <1>0 DEF Ring
  <2> QED BY <1>0, <1>3, <2>1 DEF CleanerPollStore, CleanerAddStore, CleanerAddDone
<1>4. CASE CleanerPollRead
  BY <1>0, <1>1, <1>4 DEF CleanerPollRead, Ring
<1>5. CASE CleanerRequeue
  BY <1>5 DEF CleanerRequeue
<1>6. CASE CleanerAddSlot \/ CleanerDelete
  <2>1. target[Cleaner] \in Threads
    BY <1>0, <1>6 DEF CleanerAddSlot, CleanerDelete, Running, HasTarget
  <2> QED BY <1>0, <1>6, <2>1 DEF CleanerAddSlot, CleanerDelete
<1> QED BY <1>2, <1>3, <1>4, <1>5, <1>6 DEF CleanerStep

\* Every step of the scheduler keeps the type.
LEMMA NextType ==
  ASSUME TypeOK, HasTarget, [Next]_vars
  PROVE  TypeOK'
<1> USE DEF TypeOK
<1>1. CASE Start
  BY <1>1 DEF Start
<1>2. CASE TimerTick
  BY <1>2, AgedType DEF TimerTick
<1>3. CASE TimerPreempt
  <2>1. PICK list \in {Aged, sleepList} : Yield(currentThread, pc[currentThread], list)
    BY <1>3 DEF TimerPreempt
  <2>2. currentThread \in Threads /\ pc[currentThread] \in Labels /\ list \in Seq(Entries)
    BY <1>3, AgedType DEF TimerPreempt
  <2>3. SwitchTypeOK'
    BY <2>1, <2>2, YieldType
  <2> QED BY <1>3, <2>3 DEF TimerPreempt, SwitchTypeOK
<1>4. CASE CleanerStep
  <2>1. /\ UNCHANGED <<currentThread, readyQueue, capacity, readyQueueLock, sleepList, sleepQueueLock,
                       live, joinMap, joinLock, heapLock, torn>>
        /\ fault' \in Faults /\ pc' \in [Threads -> Labels]
    BY <1>4 DEF CleanerStep, CleanerPoll, CleanerPollStore, CleanerPollRead, CleanerRequeue,
         CleanerAddLoad, CleanerAddStore, CleanerAddSlot, CleanerAddLength, CleanerAddDone, CleanerDelete,
         Goto, Labels, Faults
  <2> QED BY <1>4, <2>1, CleanerQueueType
<1>7. ASSUME NEW t \in Threads, ThreadStep(t)
      PROVE  TypeOK'
  BY <1>7, ThreadStepType
<1>8. ASSUME NEW t \in Threads, VoluntaryYield(t)
      PROVE  TypeOK'
  <2>1. PICK l \in Labels : Yield(t, l, sleepList)
    BY <1>8 DEF VoluntaryYield, Labels
  <2>2. SwitchTypeOK'
    BY <2>1, YieldType
  <2> QED BY <1>8, <2>2 DEF VoluntaryYield, SwitchTypeOK
<1>9. CASE UNCHANGED vars
  BY <1>9 DEF vars
<1> QED BY <1>1, <1>2, <1>3, <1>4, <1>7, <1>8, <1>9 DEF Next

\* A thread switch changes the target of a thread only when it returns from
\* block(), and its label only to one that needs no target.
LEMMA YieldTarget ==
  ASSUME TypeOK, HasTarget, NEW t \in Threads, NEW l \in Labels, NEW list,
         l = pc[t] \/ l = "run", Yield(t, l, list)
  PROVE  HasTarget'
<1>1. CASE UNCHANGED <<pc, target>>
  BY <1>1 DEF HasTarget
<1>2. CASE Goto(t, l) /\ UNCHANGED target
  BY <1>2 DEF HasTarget, Goto, TypeOK
<1>3. ASSUME NEW q, SwitchTo(t, l, Head(q))
      PROVE  HasTarget'
  BY <1>3 DEF HasTarget, SwitchTo, TypeOK
<1> QED BY <1>1, <1>2, <1>3 DEF Yield, YieldWith

\* Every step keeps a target in each thread that is about to use one: the cleaner
\* has polled a thread, kill() and join() were given one.
LEMMA NextTarget ==
  ASSUME TypeOK, HasTarget, [Next]_vars
  PROVE  HasTarget'
<1> USE DEF TypeOK, HasTarget
<1>1. CASE Start \/ TimerTick \/ UNCHANGED vars
  BY <1>1 DEF Start, TimerTick, vars
<1>2. CASE TimerPreempt
  BY <1>2, YieldTarget DEF TimerPreempt
<1>3. CASE CleanerStep
  <2>1. CASE CleanerPollRead
    <3>1. CASE UNCHANGED <<pc, target>>
      BY <3>1
    <3>2. CASE /\ threadQueue[ring.head] \in Threads /\ Goto(Cleaner, "look")
               /\ target' = [target EXCEPT ![Cleaner] = threadQueue[ring.head]]
      BY <3>2, ThreadsAssumption DEF Goto
    <3> QED BY <2>1, <3>1, <3>2 DEF CleanerPollRead
  <2>2. CASE CleanerPoll \/ CleanerPollStore \/ CleanerAddLength \/ CleanerAddDone
    BY <2>2, ThreadsAssumption DEF CleanerPoll, CleanerPollStore, CleanerAddLength, CleanerAddDone, Goto
  <2>3. CASE CleanerRequeue \/ CleanerAddLoad \/ CleanerAddStore
    BY <2>3, ThreadsAssumption DEF CleanerRequeue, CleanerAddLoad, CleanerAddStore, Running, Goto
  <2>4. CASE CleanerAddSlot \/ CleanerDelete
    BY <2>4, ThreadsAssumption DEF CleanerAddSlot, CleanerDelete, Goto
  <2> QED BY <1>3, <2>1, <2>2, <2>3, <2>4 DEF CleanerStep
<1>4. ASSUME NEW t \in Threads, VoluntaryYield(t)
      PROVE  HasTarget'
  BY <1>4, YieldTarget DEF VoluntaryYield, Labels
<1>5. ASSUME NEW t \in Threads, ThreadStep(t)
      PROVE  HasTarget'
  <2>1. CASE BlockSwitch(t)
    <3>1. CASE UNCHANGED <<pc, target>>
      BY <3>1
    <3>2. CASE Goto(t, "run") /\ target' = [target EXCEPT ![t] = NoThread]
      BY <3>2 DEF Goto
    <3>3. ASSUME NEW q, SwitchTo(t, "blocked", Head(q))
          PROVE  HasTarget'
      BY <3>3 DEF SwitchTo
    <3> QED BY <2>1, <3>1, <3>2, <3>3 DEF BlockSwitch, BlockWith
  <2>2. CASE BlockEnter(t) \/ SleepEnter(t) \/ SleepAdd(t) \/ AllocEnter(t) \/ AllocExit(t)
    <3>1. UNCHANGED target
      BY <2>2 DEF BlockEnter, SleepEnter, SleepAdd, AllocEnter, AllocExit
    <3>2. \E l \in {"blockLoop", "sleepAdd", "block", "alloc", "run"} : Goto(t, l)
      BY <2>2 DEF BlockEnter, SleepEnter, SleepAdd, AllocEnter, AllocExit
    <3> QED BY <3>1, <3>2 DEF Goto
  <2>3. CASE \E u \in Threads : Ready(t, u) \/ KillBegin(t, u) \/ JoinBegin(t, u)
    <3>1. PICK u \in Threads : Ready(t, u) \/ KillBegin(t, u) \/ JoinBegin(t, u)
      BY <2>3
    <3>2. CASE Ready(t, u)
      BY <3>2 DEF Ready, Goto
    <3>3. CASE KillBegin(t, u)
      BY <3>3 DEF KillBegin, Goto
    <3>4. CASE JoinBegin(t, u)
      BY <3>4 DEF JoinBegin, Goto
    <3> QED BY <3>1, <3>2, <3>3, <3>4
  <2>4. CASE Exit(t) \/ KillLock(t) \/ KillRemove(t)
    BY <2>4 DEF Exit, KillLock, KillRemove, Goto
  <2>5. CASE LookReady(t)
    BY <2>5 DEF LookReady, Running, Found, Goto
  <2>6. CASE LookSleepLock(t)
    BY <2>6 DEF LookSleepLock, Running, Goto
  <2>7. CASE LookSleep(t)
    BY <2>7 DEF LookSleep, Running, Found, NotFound, Goto
  <2>8. CASE JoinLock(t) \/ JoinAdd(t)
    BY <2>8 DEF JoinLock, JoinAdd, Goto
  <2> QED BY <1>5, <2>1, <2>2, <2>3, <2>4, <2>5, <2>6, <2>7, <2>8 DEF ThreadStep
<1> QED BY <1>1, <1>2, <1>3, <1>4, <1>5 DEF Next

\* Every variable of the scheduler keeps its type in every reachable state.
THEOREM TypeCorrect == Spec => []TypeOK
<1>1. TypeOK /\ HasTarget /\ [Next]_vars => TypeOK' /\ HasTarget'
  BY NextType, NextTarget
<1> QED BY <1>1, InitType, PTL DEF Spec

-----------------------------------------------------------------------------
(***************************************************************************)
(* The locks.  LockDiscipline is inductive together with TypeOK.           *)
(***************************************************************************)

\* What a change of labels has to respect: a thread enters or leaves a locked
\* section only together with the lock.
LEMMA LabelChangeLocks ==
  ASSUME TypeOK, LockDiscipline, NEW t \in Threads, NEW l \in Labels,
         pc[t] \notin {"blockLoop", "killRemove", "sleepAdd", "scanSleep", "joinAdd", "alloc"},
         l \notin {"blockLoop", "killRemove", "sleepAdd", "scanSleep", "joinAdd", "alloc"},
         Goto(t, l),
         UNCHANGED <<currentThread, readyQueueLock, sleepQueueLock, joinLock, heapLock>>
  PROVE  LockDiscipline'
BY DEF LockDiscipline, Goto, TypeOK

\* yield() with readyQueueLock taken changes nothing; otherwise no thread is
\* inside a section that needs it, and the switch leaves it free.
LEMMA YieldLocks ==
  ASSUME TypeOK, LockDiscipline, NEW t \in Threads, currentThread = t,
         NEW l \in Labels, l = pc[t] \/ (l = "run" /\ pc[t] \in {"run", "yield"}),
         NEW list, Yield(t, l, list),
         UNCHANGED <<sleepQueueLock, joinLock, heapLock>>
  PROVE  LockDiscipline'
<1>1. CASE readyQueueLock # NoThread
  BY <1>1 DEF Yield, Goto, LockDiscipline, TypeOK
<1>2. CASE readyQueueLock = NoThread
  <2>1. \A u \in Threads : pc[u] \notin {"blockLoop", "killRemove"}
    BY <1>2, ThreadsAssumption DEF LockDiscipline
  <2>2. CASE (\E reason \in Faults : Halt(t, reason)) /\ UNCHANGED <<currentThread, pc>>
    BY <2>1, <2>2 DEF Halt, LockDiscipline
  <2>3. ASSUME NEW q, SwitchTo(t, l, Head(q))
        PROVE  LockDiscipline'
    BY <2>1, <2>3 DEF SwitchTo, LockDiscipline, TypeOK
  <2> QED BY <1>2, <2>2, <2>3 DEF Yield, YieldWith, Faults
<1> QED BY <1>1, <1>2

\* The switch at the end of block() hands readyQueueLock over, or keeps it when
\* block() returns at once.
LEMMA BlockSwitchLocks ==
  ASSUME TypeOK, LockDiscipline, NEW t \in Threads, BlockSwitch(t)
  PROVE  LockDiscipline'
<1>1. currentThread = t /\ pc[t] = "blockLoop" /\ readyQueueLock = t
  BY DEF BlockSwitch, Running, LockDiscipline
<1>2. \A u \in Threads \ {t} : pc[u] \notin {"blockLoop", "killRemove"}
  BY <1>1 DEF LockDiscipline
<1>3. CASE Halt(t, "growing") /\ UNCHANGED <<currentThread, pc>>
  BY <1>1, <1>2, <1>3 DEF BlockSwitch, Halt, LockDiscipline
<1>4. CASE Goto(t, "run") /\ UNCHANGED <<currentThread, readyQueueLock>>
  BY <1>1, <1>2, <1>4 DEF BlockSwitch, Goto, LockDiscipline, TypeOK
<1>5. ASSUME NEW q, Head(q) # t, SwitchTo(t, "blocked", Head(q))
      PROVE  LockDiscipline'
  BY <1>1, <1>2, <1>5 DEF BlockSwitch, SwitchTo, LockDiscipline, TypeOK
<1> QED BY <1>3, <1>4, <1>5 DEF BlockSwitch, BlockWith

\* Every other step of a thread.
LEMMA ThreadStepLocks ==
  ASSUME TypeOK, LockDiscipline, NEW t \in Threads, ThreadStep(t)
  PROVE  LockDiscipline'
<1> USE ThreadsAssumption
<1>1. CASE BlockEnter(t)
  <2>1. \A u \in Threads : pc[u] \notin {"blockLoop", "killRemove"}
    BY <1>1 DEF BlockEnter, LockDiscipline
  <2> QED BY <1>1, <2>1 DEF BlockEnter, Running, Goto, LockDiscipline, TypeOK
<1>2. CASE BlockSwitch(t)
  BY <1>2, BlockSwitchLocks
<1>3. CASE SleepEnter(t)
  BY <1>3 DEF SleepEnter, Running, Goto, LockDiscipline, TypeOK
<1>4. CASE SleepAdd(t)
  BY <1>4 DEF SleepAdd, Running, Goto, LockDiscipline, TypeOK
<1>5. ASSUME NEW u \in Threads, Ready(t, u)
      PROVE  LockDiscipline'
  BY <1>5, LabelChangeLocks DEF Ready, Labels
<1>6. ASSUME NEW u \in Threads, KillBegin(t, u) \/ JoinBegin(t, u)
      PROVE  LockDiscipline'
  BY <1>6, LabelChangeLocks DEF KillBegin, JoinBegin, Running, Labels
<1>7. CASE Exit(t)
  <2>1. CASE Goto(t, "block") /\ UNCHANGED readyQueueLock
    BY <1>7, <2>1, LabelChangeLocks DEF Exit, Running, Labels
  <2>2. CASE Halt(t, "exception") /\ UNCHANGED pc
    BY <1>7, <2>2 DEF Exit, Running, Halt, AllLocksFree, LockDiscipline
  <2> QED BY <1>7, <2>1, <2>2 DEF Exit
<1>8. CASE AllocEnter(t)
  BY <1>8 DEF AllocEnter, Running, Goto, LockDiscipline, TypeOK
<1>9. CASE AllocExit(t)
  BY <1>9 DEF AllocExit, Running, Goto, LockDiscipline, TypeOK
<1>10. CASE KillLock(t)
  BY <1>10 DEF KillLock, AllLocksFree, Running, Goto, LockDiscipline, TypeOK
<1>11. CASE KillRemove(t)
  <2>1. CASE Goto(t, "run") /\ readyQueueLock' = NoThread /\ joinLock' = NoThread
    BY <1>11, <2>1 DEF KillRemove, Running, Goto, LockDiscipline, TypeOK
  <2>2. CASE Halt(t, "exception") /\ UNCHANGED <<joinLock, pc>>
    BY <1>11, <2>2 DEF KillRemove, Running, Halt, LockDiscipline
  <2> QED BY <1>11, <2>1, <2>2 DEF KillRemove
<1>12. CASE LookReady(t)
  BY <1>12, LabelChangeLocks DEF LookReady, Found, Running, Labels
<1>13. CASE LookSleepLock(t)
  BY <1>13 DEF LookSleepLock, Running, Goto, LockDiscipline, TypeOK
<1>14. CASE LookSleep(t)
  <2>1. /\ currentThread = t /\ pc[t] = "scanSleep" /\ sleepQueueLock = t /\ sleepQueueLock' = NoThread
        /\ UNCHANGED <<currentThread, readyQueueLock, joinLock, heapLock>>
    BY <1>14 DEF LookSleep, Running, LockDiscipline
  <2>2. PICK l \in {"requeue", "join", "delete", "run"} : Goto(t, l)
    BY <1>14 DEF LookSleep, Found, NotFound
  <2> QED BY <2>1, <2>2 DEF Goto, LockDiscipline, TypeOK
<1>15. CASE JoinLock(t)
  BY <1>15 DEF JoinLock, Running, Goto, LockDiscipline, TypeOK
<1>16. CASE JoinAdd(t)
  <2>1. /\ currentThread = t /\ pc[t] = "joinAdd" /\ joinLock = t
        /\ UNCHANGED <<currentThread, readyQueueLock, sleepQueueLock, heapLock>>
    BY <1>16 DEF JoinAdd, Running, LockDiscipline
  <2>2. \A u \in Threads \ {t} : pc[u] \notin {"joinAdd", "killRemove"}
    BY <2>1 DEF LockDiscipline
  <2>3. CASE Goto(t, "block") /\ joinLock' = NoThread
    BY <2>1, <2>2, <2>3 DEF Goto, LockDiscipline, TypeOK
  <2>4. CASE Goto(t, "run") /\ UNCHANGED joinLock
    BY <2>1, <2>2, <2>4 DEF Goto, LockDiscipline, TypeOK
  <2> QED BY <1>16, <2>3, <2>4 DEF JoinAdd
<1> QED BY <1>1, <1>2, <1>3, <1>4, <1>5, <1>6, <1>7, <1>8, <1>9, <1>10, <1>11, <1>12,
           <1>13, <1>14, <1>15, <1>16 DEF ThreadStep

\* Every section of the scheduler that a lock protects is executed by at most
\* one thread, and nobody but the running thread holds readyQueueLock, for
\* every set of threads and every workload.
THEOREM LocksHold == Spec => []LockDiscipline
<1>1. Init => LockDiscipline
  BY ThreadsAssumption DEF Init, LockDiscipline
<1>2. TypeOK /\ LockDiscipline /\ [Next]_vars => LockDiscipline'
  <2> SUFFICES ASSUME TypeOK, LockDiscipline, [Next]_vars PROVE LockDiscipline'
    OBVIOUS
  <2>1. CASE Start
    BY <2>1, ThreadsAssumption DEF Start, LockDiscipline
  <2>2. CASE TimerTick \/ UNCHANGED vars
    BY <2>2 DEF TimerTick, vars, LockDiscipline
  <2>3. CASE TimerPreempt
    <3>1. pc[currentThread] \in Labels
      BY <2>3 DEF TimerPreempt, TypeOK
    <3> QED BY <2>3, <3>1, YieldLocks DEF TimerPreempt
  <2>4. CASE CleanerStep
    <3>1. CASE UNCHANGED pc /\ UNCHANGED <<currentThread, readyQueueLock, sleepQueueLock, joinLock, heapLock>>
      BY <3>1 DEF LockDiscipline
    <3> QED BY <2>4, <3>1, ThreadsAssumption, LabelChangeLocks
       DEF CleanerStep, CleanerPoll, CleanerPollStore, CleanerPollRead, CleanerRequeue,
         CleanerAddLoad, CleanerAddStore, CleanerAddSlot, CleanerAddLength, CleanerAddDone, CleanerDelete, Running, Labels
  <2>5. ASSUME NEW t \in Threads, ThreadStep(t)
        PROVE  LockDiscipline'
    BY <2>5, ThreadStepLocks
  <2>6. ASSUME NEW t \in Threads, VoluntaryYield(t)
        PROVE  LockDiscipline'
    <3>1. pc[t] \in Labels /\ "run" \in Labels
      BY DEF TypeOK, Labels
    <3> QED BY <2>6, <3>1, YieldLocks DEF VoluntaryYield, Running
  <2> QED BY <2>1, <2>2, <2>3, <2>4, <2>5, <2>6 DEF Next
<1> QED BY <1>1, <1>2, TypeCorrect, PTL DEF Spec

-----------------------------------------------------------------------------
(***************************************************************************)
(* Wake-ups.                                                               *)
(***************************************************************************)

\* Sets that are matched one to one have the same size.
LEMMA SameSize ==
  ASSUME NEW A, NEW B, IsFiniteSet(A), NEW f \in [A -> B],
         \A x, y \in A : f[x] = f[y] => x = y,
         \A y \in B : \E x \in A : f[x] = y
  PROVE  IsFiniteSet(B) /\ Cardinality(B) = Cardinality(A)
<1>1. f \in Bijection(A, B)
  BY DEF Bijection, Injection, Surjection, IsInjective
<1>2. ExistsBijection(A, B)
  BY <1>1 DEF ExistsBijection
<1> QED BY <1>2, FS_Bijection

\* Two finite sets that do not meet: the sizes add up.
LEMMA DisjointSizes ==
  ASSUME NEW A, NEW B, IsFiniteSet(A), IsFiniteSet(B), A \cap B = {}
  PROVE  /\ IsFiniteSet(A \cup B)
         /\ Cardinality(A) \in Nat /\ Cardinality(B) \in Nat
         /\ Cardinality(A \cup B) = Cardinality(A) + Cardinality(B)
<1>1. Cardinality(A) \in Nat /\ Cardinality(B) \in Nat
  BY FS_CardinalityType
<1>2. Cardinality(A \cap B) = 0
  BY FS_EmptySet
<1>3. /\ IsFiniteSet(A \cup B)
      /\ Cardinality(A \cup B) = Cardinality(A) + Cardinality(B) - Cardinality(A \cap B)
  BY FS_Union
<1> QED BY <1>1, <1>2, <1>3

\* The number of places is a number, zero for a value that has none.
LEMMA OccurrencesType ==
  ASSUME NEW S, NEW s \in Seq(S), NEW t
  PROVE  /\ IsFiniteSet({i \in DOMAIN s : s[i] = t})
         /\ Occurrences(s, t) \in Nat
         /\ Occurrences(s, t) = 0 <=> ~InSeq(s, t)
<1>1. {i \in DOMAIN s : s[i] = t} \in SUBSET DOMAIN s
  OBVIOUS
<1>2. IsFiniteSet({i \in DOMAIN s : s[i] = t}) /\ Occurrences(s, t) \in Nat
  BY <1>1, PositionsFinite DEF Occurrences
<1>3. Occurrences(s, t) = 0 <=> {i \in DOMAIN s : s[i] = t} = {}
  BY <1>2, FS_EmptySet DEF Occurrences
<1> QED BY <1>2, <1>3 DEF InSeq

\* A sequence of one element.
LEMMA OccurrencesOne ==
  ASSUME NEW x, NEW t
  PROVE  Occurrences(<<x>>, t) = IF x = t THEN 1 ELSE 0
<1>1. CASE x = t
  <2>1. {i \in DOMAIN <<x>> : <<x>>[i] = t} = {1}
    BY <1>1
  <2> QED BY <1>1, <2>1, FS_Singleton DEF Occurrences
<1>2. CASE x # t
  <2>1. {i \in DOMAIN <<x>> : <<x>>[i] = t} = {}
    BY <1>2
  <2> QED BY <1>2, <2>1, FS_EmptySet DEF Occurrences
<1> QED BY <1>1, <1>2

\* offer()ing all elements of one sequence behind those of another.
LEMMA OccurrencesConcat ==
  ASSUME NEW S, NEW a \in Seq(S), NEW b \in Seq(S), NEW t
  PROVE  /\ a \o b \in Seq(S)
         /\ Occurrences(a \o b, t) = Occurrences(a, t) + Occurrences(b, t)
<1> DEFINE A == {i \in DOMAIN a : a[i] = t}
           B == {i \in DOMAIN b : b[i] = t}
           C == {i \in DOMAIN (a \o b) : (a \o b)[i] = t}
           D == {i \in C : i > Len(a)}
           f == [i \in B |-> i + Len(a)]
<1>1. IsFiniteSet(A) /\ IsFiniteSet(B) /\ IsFiniteSet(C) /\ a \o b \in Seq(S)
  <2>1. a \o b \in Seq(S)
    OBVIOUS
  <2> QED BY <2>1, OccurrencesType
<1>2. f \in [B -> D]
  OBVIOUS
<1>3. \A x, y \in B : f[x] = f[y] => x = y
  OBVIOUS
<1>4. \A y \in D : \E x \in B : f[x] = y
  <2> SUFFICES ASSUME NEW y \in D PROVE \E x \in B : f[x] = y
    OBVIOUS
  <2>1. y - Len(a) \in B
    OBVIOUS
  <2>2. f[y - Len(a)] = y
    BY <2>1
  <2> QED BY <2>1, <2>2
<1>5. IsFiniteSet(D) /\ Cardinality(D) = Cardinality(B)
  <2> HIDE DEF B, D, f
  <2> QED BY <1>1, <1>2, <1>3, <1>4, SameSize
<1>6. C = A \cup D /\ A \cap D = {}
  OBVIOUS
<1>7. Cardinality(C) = Cardinality(A) + Cardinality(D)
  <2> HIDE DEF A, C, D
  <2> QED BY <1>1, <1>5, <1>6, DisjointSizes
<1> QED BY <1>1, <1>5, <1>7 DEF Occurrences

\* offer() of one element.
LEMMA OccurrencesAppend ==
  ASSUME NEW S, NEW q \in Seq(S), NEW x \in S, NEW t
  PROVE  /\ Append(q, x) \in Seq(S)
         /\ Occurrences(Append(q, x), t) = Occurrences(q, t) + (IF x = t THEN 1 ELSE 0)
<1> DEFINE one == <<x>>
<1>1. Append(q, x) = q \o one /\ one \in Seq(S)
  OBVIOUS
<1>2. Occurrences(one, t) = IF x = t THEN 1 ELSE 0
  BY OccurrencesOne
<1> HIDE DEF one
<1>3. Occurrences(q \o one, t) = Occurrences(q, t) + Occurrences(one, t)
  BY <1>1, OccurrencesConcat
<1>4. Append(q, x) \in Seq(S)
  OBVIOUS
<1> QED BY <1>1, <1>2, <1>3, <1>4

\* poll() takes one place of the thread that it returns.
LEMMA OccurrencesTail ==
  ASSUME NEW S, NEW q \in Seq(S), q # <<>>, NEW t
  PROVE  /\ Head(q) \in S /\ Tail(q) \in Seq(S)
         /\ Occurrences(q, t) = Occurrences(Tail(q), t) + (IF Head(q) = t THEN 1 ELSE 0)
<1> DEFINE one == <<Head(q)>>
           rest == Tail(q)
<1>1. Head(q) \in S /\ rest \in Seq(S) /\ one \in Seq(S)
  OBVIOUS
<1>2. q = one \o rest
  BY <1>1
<1>3. Occurrences(one, t) = IF Head(q) = t THEN 1 ELSE 0
  BY OccurrencesOne
<1>4. rest = Tail(q)
  OBVIOUS
<1> HIDE DEF one, rest
<1>5. Occurrences(one \o rest, t) = Occurrences(one, t) + Occurrences(rest, t)
  BY <1>1, OccurrencesConcat
<1>6. Occurrences(rest, t) \in Nat
  BY <1>1, OccurrencesType
<1>7. Occurrences(q, t) = Occurrences(rest, t) + (IF Head(q) = t THEN 1 ELSE 0)
  BY <1>2, <1>3, <1>5, <1>6
<1> QED BY <1>1, <1>4, <1>7

\* The places of t in a list of sleepers
SleepCount(list, t) == Cardinality({i \in DOMAIN list : list[i].thread = t})

\* The steps of the enumeration p that select one of the places A
Hits(p, A) == {i \in DOMAIN p : p[i] \in A}

\* Of the places A, an enumeration of the positions I selects those in both.
LEMMA SelectedPlaces ==
  ASSUME NEW n \in Nat, NEW I, \A k \in I : k \in 1..n, NEW p \in Increasing(I), NEW A
  PROVE  Cardinality(Hits(p, A)) = Cardinality(I \cap A)
<1> DEFINE C == {i \in DOMAIN p : p[i] \in A}
           f == [i \in C |-> p[i]]
<1>1. IsFiniteSet(1..n)
  BY FS_Interval
<1>2. Cardinality(I) \in Nat
  <2>1. I \in SUBSET (1..n)
    OBVIOUS
  <2> QED BY <1>1, <2>1, FS_Subset, FS_CardinalityType
<1>3. /\ p \in [1..Cardinality(I) -> I]
      /\ \A i, j \in DOMAIN p : i < j => p[i] < p[j]
      /\ \A k \in I : \E i \in DOMAIN p : p[i] = k
  BY DEF Increasing
<1>4. IsFiniteSet(C)
  <2>1. IsFiniteSet(1..Cardinality(I))
    BY <1>2, FS_Interval
  <2>2. C \in SUBSET (1..Cardinality(I))
    BY <1>3
  <2> HIDE DEF C
  <2> QED BY <2>1, <2>2, FS_Subset
<1>5. f \in [C -> I \cap A]
  BY <1>3
<1>6. \A x, y \in C : f[x] = f[y] => x = y
  <2> SUFFICES ASSUME NEW x \in C, NEW y \in C, p[x] = p[y] PROVE x = y
    OBVIOUS
  <2>1. x \in 1..Cardinality(I) /\ y \in 1..Cardinality(I) /\ DOMAIN p = 1..Cardinality(I)
    BY <1>3
  <2>2. p[x] \in I /\ p[y] \in I
    BY <1>3, <2>1
  <2>3. p[x] \in Nat /\ p[y] \in Nat
    BY <2>2
  <2>4. x \in Nat /\ y \in Nat
    BY <1>2, <2>1
  <2>5. x < y => p[x] < p[y]
    BY <1>3, <2>1
  <2>6. y < x => p[y] < p[x]
    BY <1>3, <2>1
  <2> QED BY <2>3, <2>4, <2>5, <2>6
<1>7. \A y \in I \cap A : \E x \in C : f[x] = y
  BY <1>3
<1>8. Cardinality(I \cap A) = Cardinality(C)
  <2> HIDE DEF C, f
  <2> QED BY <1>4, <1>5, <1>6, <1>7, SameSize
<1> QED BY <1>8 DEF Hits

\* The number of sleep entries of a thread is a number.
LEMMA SleepCountType ==
  ASSUME NEW list \in Seq(Entries), NEW t
  PROVE  /\ IsFiniteSet({i \in DOMAIN list : list[i].thread = t})
         /\ SleepCount(list, t) \in Nat
         /\ SleepCount(list, t) = 0 <=> ~\E i \in DOMAIN list : list[i].thread = t
<1>1. {i \in DOMAIN list : list[i].thread = t} \in SUBSET DOMAIN list
  OBVIOUS
<1>2. IsFiniteSet({i \in DOMAIN list : list[i].thread = t}) /\ SleepCount(list, t) \in Nat
  BY <1>1, PositionsFinite DEF SleepCount
<1>3. SleepCount(list, t) = 0 <=> {i \in DOMAIN list : list[i].thread = t} = {}
  BY <1>2, FS_EmptySet DEF SleepCount
<1> QED BY <1>2, <1>3

\* checkSleepList(): what leaves the sleep list arrives in the ready queue.
LEMMA ScanCount ==
  ASSUME NEW list \in Seq(Entries), NEW W \in DuePositions(list),
         NEW p \in Increasing(W), NEW r \in Increasing(DOMAIN list \ W), NEW t
  PROVE  Occurrences(Woken(list, p), t) + SleepCount(Kept(list, r), t) = SleepCount(list, t)
<1> DEFINE A == {k \in DOMAIN list : list[k].thread = t}
           V == DOMAIN list \ W
<1>1. W \in SUBSET DOMAIN list
  BY DEF DuePositions
<1>2. DOMAIN list = 1..Len(list) /\ Len(list) \in Nat
  OBVIOUS
<1>3. p \in [1..Cardinality(W) -> W] /\ r \in [1..Cardinality(V) -> V]
  BY DEF Increasing
<1>4. {i \in DOMAIN Woken(list, p) : Woken(list, p)[i] = t} = Hits(p, A)
  BY <1>1, <1>3 DEF Woken, Hits
<1>5. {i \in DOMAIN Kept(list, r) : Kept(list, r)[i].thread = t} = Hits(r, A)
  BY <1>1, <1>3 DEF Kept, Hits
<1>6. W \in SUBSET (1..Len(list)) /\ V \in SUBSET (1..Len(list)) /\ A \in SUBSET (1..Len(list))
  BY <1>1, <1>2
<1>7. r \in Increasing(V)
  OBVIOUS
<1>8. A = (W \cap A) \cup (V \cap A) /\ (W \cap A) \cap (V \cap A) = {}
  BY <1>1
<1>9. IsFiniteSet(1..Len(list))
  BY <1>2, FS_Interval
<1>10. SleepCount(list, t) = Cardinality(A)
  BY DEF SleepCount
<1> HIDE DEF A, V
<1>11. (\A k \in W : k \in 1..Len(list)) /\ (\A k \in V : k \in 1..Len(list))
  BY <1>6
<1>12. Cardinality(Hits(p, A)) = Cardinality(W \cap A)
  BY <1>2, <1>11, SelectedPlaces
<1>13. Cardinality(Hits(r, A)) = Cardinality(V \cap A)
  BY <1>2, <1>7, <1>11, SelectedPlaces
<1>14. IsFiniteSet(W \cap A) /\ IsFiniteSet(V \cap A)
  BY <1>6, <1>9, FS_Subset
<1>15. Cardinality(A) = Cardinality(W \cap A) + Cardinality(V \cap A)
  BY <1>8, <1>14, DisjointSizes
<1> QED BY <1>4, <1>5, <1>10, <1>12, <1>13, <1>15 DEF Occurrences, SleepCount

\* Time passing changes no entry's thread.
LEMMA AgedCount ==
  ASSUME sleepList \in Seq(Entries), NEW t
  PROVE  SleepCount(Aged, t) = SleepCount(sleepList, t)
<1>1. {i \in DOMAIN Aged : Aged[i].thread = t} = {i \in DOMAIN sleepList : sleepList[i].thread = t}
  BY DEF Aged
<1> QED BY <1>1 DEF SleepCount

\* sleep() adds one entry.
LEMMA SleepCountAppend ==
  ASSUME NEW list \in Seq(Entries), NEW e \in Entries, NEW t
  PROVE  SleepCount(Append(list, e), t) = SleepCount(list, t) + (IF e.thread = t THEN 1 ELSE 0)
<1> DEFINE A == {k \in DOMAIN list : list[k].thread = t}
           B == {k \in DOMAIN Append(list, e) : Append(list, e)[k].thread = t}
           n == Len(list) + 1
<1>1. IsFiniteSet(A)
  BY SleepCountType
<1>2. n \notin A
  OBVIOUS
<1>3. CASE e.thread = t
  <2>1. B = A \cup {n}
    BY <1>3
  <2>2. Cardinality(A \cup {n}) = Cardinality(A) + 1
    <3> HIDE DEF A, n
    <3> QED BY <1>1, <1>2, FS_AddElement
  <2> QED BY <1>3, <2>1, <2>2 DEF SleepCount
<1>4. CASE e.thread # t
  <2>1. B = A
    BY <1>4
  <2>2. Cardinality(A) \in Nat
    BY <1>1, FS_CardinalityType
  <2>3. SleepCount(Append(list, e), t) = SleepCount(list, t) /\ SleepCount(list, t) \in Nat
    BY <2>1, <2>2 DEF SleepCount
  <2> QED BY <1>4, <2>3
<1> QED BY <1>3, <1>4

\* The first of the matching positions.
LEMMA FirstPosition ==
  ASSUME NEW I \in SUBSET Nat, I # {}
  PROVE  \E m \in I : \A i \in I : m <= i
<1> DEFINE R == OpToRel(<, Nat)
<1>1. IsWellFoundedOn(R, Nat)
  BY NatLessThanWellFounded
<1>2. R = {ss \in Nat \X Nat : ss[1] < ss[2]}
  BY DEF OpToRel
<1> HIDE DEF R
<1>3. PICK m \in I : \A i \in I : ~(<<i, m>> \in R)
  BY <1>1, WFMin
<1>4. ASSUME NEW i \in I, i < m PROVE FALSE
  <2>1. <<i, m>> \in Nat \X Nat /\ <<i, m>>[1] = i /\ <<i, m>>[2] = m
    OBVIOUS
  <2>2. <<i, m>> \in R
    BY <1>2, <1>4, <2>1
  <2> QED BY <1>3, <2>2
<1>5. \A i \in I : m <= i
  BY <1>4
<1> QED BY <1>5

\* Where the element at position j of the shortened list was before
Moved(j, m) == IF j < m THEN j ELSE j + 1

\* ArrayList::remove of the element at position m: the other places move up.
LEMMA PlacesMove ==
  ASSUME NEW n \in Nat, NEW m \in 1..n, NEW A, \A k \in A : k \in 1..n,
         NEW B, \A k \in B : k \in 1..(n - 1),
         \A j \in 1..(n - 1) : j \in B <=> Moved(j, m) \in A
  PROVE  Cardinality(B) = Cardinality(A) - (IF m \in A THEN 1 ELSE 0)
<1> DEFINE f == [j \in B |-> Moved(j, m)]
<1>1. n - 1 \in Nat
  OBVIOUS
<1>2. IsFiniteSet(1..n) /\ IsFiniteSet(1..(n - 1))
  BY <1>1, FS_Interval
<1>3. IsFiniteSet(A) /\ IsFiniteSet(B)
  <2>1. A \in SUBSET (1..n) /\ B \in SUBSET (1..(n - 1))
    OBVIOUS
  <2> QED BY <1>2, <2>1, FS_Subset
<1>4. \A j \in B : Moved(j, m) \in A \ {m}
  BY <1>1 DEF Moved
<1>5. f \in [B -> A \ {m}]
  BY <1>4
<1>6. \A x, y \in B : f[x] = f[y] => x = y
  BY <1>1 DEF Moved
<1>7. \A y \in A \ {m} : \E x \in B : f[x] = y
  <2> SUFFICES ASSUME NEW y \in A, y # m PROVE \E x \in B : Moved(x, m) = y
    OBVIOUS
  <2>1. CASE y < m
    <3>1. y \in 1..(n - 1) /\ Moved(y, m) = y
      BY <2>1 DEF Moved
    <3> QED BY <3>1
  <2>2. CASE y > m
    <3>1. y - 1 \in 1..(n - 1) /\ Moved(y - 1, m) = y
      BY <2>2 DEF Moved
    <3> QED BY <3>1
  <2> QED BY <2>1, <2>2
<1>8. Cardinality(A \ {m}) = Cardinality(B)
  <2> HIDE DEF f
  <2> QED BY <1>3, <1>5, <1>6, <1>7, SameSize
<1>9. Cardinality(A) \in Nat
  BY <1>3, FS_CardinalityType
<1>10. Cardinality(A \ {m}) = IF m \in A THEN Cardinality(A) - 1 ELSE Cardinality(A)
  BY <1>3, FS_RemoveElement
<1> QED BY <1>8, <1>9, <1>10

\* What ArrayList::remove leaves, by position.
LEMMA DropFirstElements ==
  ASSUME NEW S, NEW s \in Seq(S), NEW I \in SUBSET DOMAIN s, I # {}
  PROVE  \E m \in I : /\ DOMAIN DropFirst(s, I) = 1..(Len(s) - 1)
                      /\ \A j \in 1..(Len(s) - 1) : DropFirst(s, I)[j] = s[Moved(j, m)]
<1>1. I \in SUBSET Nat
  OBVIOUS
<1>2. PICK m \in I : \A i \in I : m <= i
  BY <1>1, FirstPosition
<1>3. DOMAIN DropFirst(s, I) = 1..(Len(s) - 1)
  BY DEF DropFirst
<1>4. ASSUME NEW j \in 1..(Len(s) - 1)
      PROVE  DropFirst(s, I)[j] = s[Moved(j, m)]
  <2>1. (\E i \in I : i <= j) <=> ~(j < m)
    <3>1. j \in Nat /\ m \in Nat
      OBVIOUS
    <3>2. CASE j < m
      <4>1. ASSUME NEW i \in I, i <= j PROVE FALSE
        <5>1. m <= i /\ i \in Nat
          BY <1>2
        <5> QED BY <3>1, <3>2, <4>1, <5>1
      <4> QED BY <3>2, <4>1
    <3>3. CASE ~(j < m)
      <4>1. m <= j
        BY <3>1, <3>3
      <4> QED BY <3>3, <4>1
    <3> QED BY <3>2, <3>3
  <2>2. DropFirst(s, I)[j] = IF \E i \in I : i <= j THEN s[j + 1] ELSE s[j]
    BY DEF DropFirst
  <2> QED BY <2>1, <2>2 DEF Moved
<1> QED BY <1>3, <1>4

\* kill(): the ready queue loses one place of the victim, if it has one.
LEMMA RemoveThreadCount ==
  ASSUME NEW q \in Seq(Threads), NEW u, NEW t
  PROVE  Occurrences(RemoveThread(q, u), t) =
           Occurrences(q, t) - (IF t = u /\ InSeq(q, u) THEN 1 ELSE 0)
<1> DEFINE I == {i \in DOMAIN q : q[i] = u}
           d == DropFirst(q, I)
           A == {i \in DOMAIN q : q[i] = t}
           B == {i \in DOMAIN d : d[i] = t}
<1>1. I \in SUBSET DOMAIN q /\ (I # {} <=> InSeq(q, u))
  BY DEF InSeq
<1>2. Occurrences(q, t) \in Nat
  BY OccurrencesType
<1>3. CASE I = {}
  <2>1. d = q
    BY <1>3 DEF DropFirst
  <2> QED BY <1>1, <1>2, <1>3, <2>1 DEF RemoveThread
<1>4. CASE I # {}
  <2>1. PICK m \in I : /\ DOMAIN d = 1..(Len(q) - 1)
                       /\ \A j \in 1..(Len(q) - 1) : d[j] = q[Moved(j, m)]
    <3> HIDE DEF I
    <3> QED BY <1>1, <1>4, DropFirstElements
  <2>2. Len(q) \in Nat /\ m \in 1..Len(q) /\ (\A k \in A : k \in 1..Len(q)) /\ q[m] = u
    OBVIOUS
  <2> HIDE DEF d, I
  <2>3. \A k \in B : k \in 1..(Len(q) - 1)
    BY <2>1
  <2>4. \A j \in 1..(Len(q) - 1) : Moved(j, m) \in DOMAIN q
    BY <2>2 DEF Moved
  <2>5. \A j \in 1..(Len(q) - 1) : j \in B <=> Moved(j, m) \in A
    BY <2>1, <2>4
  <2>6. m \in A <=> t = u
    BY <2>2
  <2>7. Occurrences(q, t) = Cardinality(A) /\ Occurrences(RemoveThread(q, u), t) = Cardinality(B)
    BY DEF Occurrences, RemoveThread, d, I
  <2> HIDE DEF A, B
  <2>8. Cardinality(B) = Cardinality(A) - (IF m \in A THEN 1 ELSE 0)
    BY <2>2, <2>3, <2>5, PlacesMove
  <2> QED BY <1>1, <1>4, <2>6, <2>7, <2>8
<1> QED BY <1>3, <1>4

\* The sleep list loses one entry of the victim, if it has one.
LEMMA RemoveSleeperCount ==
  ASSUME NEW list \in Seq(Entries), NEW u, NEW t
  PROVE  SleepCount(RemoveSleeper(list, u), t) =
           SleepCount(list, t) - (IF t = u /\ SleepCount(list, u) # 0 THEN 1 ELSE 0)
<1> DEFINE I == {i \in DOMAIN list : list[i].thread = u}
           d == DropFirst(list, I)
           A == {i \in DOMAIN list : list[i].thread = t}
           B == {i \in DOMAIN d : d[i].thread = t}
<1>1. I \in SUBSET DOMAIN list /\ (I # {} <=> SleepCount(list, u) # 0)
  BY SleepCountType
<1>2. SleepCount(list, t) \in Nat
  BY SleepCountType
<1>3. CASE I = {}
  <2>1. d = list
    BY <1>3 DEF DropFirst
  <2> QED BY <1>1, <1>2, <1>3, <2>1 DEF RemoveSleeper
<1>4. CASE I # {}
  <2>1. PICK m \in I : /\ DOMAIN d = 1..(Len(list) - 1)
                       /\ \A j \in 1..(Len(list) - 1) : d[j] = list[Moved(j, m)]
    <3> HIDE DEF I
    <3> QED BY <1>1, <1>4, DropFirstElements
  <2>2. Len(list) \in Nat /\ m \in 1..Len(list) /\ (\A k \in A : k \in 1..Len(list)) /\ list[m].thread = u
    OBVIOUS
  <2> HIDE DEF d, I
  <2>3. \A k \in B : k \in 1..(Len(list) - 1)
    BY <2>1
  <2>4. \A j \in 1..(Len(list) - 1) : Moved(j, m) \in DOMAIN list
    BY <2>2 DEF Moved
  <2>5. \A j \in 1..(Len(list) - 1) : j \in B <=> Moved(j, m) \in A
    BY <2>1, <2>4
  <2>6. m \in A <=> t = u
    BY <2>2
  <2>7. SleepCount(list, t) = Cardinality(A) /\ SleepCount(RemoveSleeper(list, u), t) = Cardinality(B)
    BY DEF SleepCount, RemoveSleeper, d, I
  <2> HIDE DEF A, B
  <2>8. Cardinality(B) = Cardinality(A) - (IF m \in A THEN 1 ELSE 0)
    BY <2>2, <2>3, <2>5, PlacesMove
  <2> QED BY <1>1, <1>4, <2>6, <2>7, <2>8
<1> QED BY <1>3, <1>4

-----------------------------------------------------------------------------
\* The places of t in the join list of u, and in those of all threads of lv
Waits(jm, u, t) == {u} \X {i \in DOMAIN jm[u] : jm[u][i] = t}
JoinCount(jm, lv, t) == Cardinality(UNION {Waits(jm, u, t) : u \in lv})

\* The places in one join list.
LEMMA WaitsCount ==
  ASSUME NEW jm \in [Threads -> Seq(Threads)], NEW u \in Threads, NEW t
  PROVE  IsFiniteSet(Waits(jm, u, t)) /\ Cardinality(Waits(jm, u, t)) = Occurrences(jm[u], t)
<1> DEFINE A == {i \in DOMAIN jm[u] : jm[u][i] = t}
           B == {u} \X A
           f == [i \in A |-> <<u, i>>]
<1>1. jm[u] \in Seq(Threads)
  OBVIOUS
<1>2. IsFiniteSet(A) /\ Cardinality(A) = Occurrences(jm[u], t)
  BY <1>1, OccurrencesType DEF Occurrences
<1>3. Waits(jm, u, t) = B
  BY DEF Waits
<1> HIDE DEF A
<1>4. f \in [A -> B]
  OBVIOUS
<1>5. \A x, y \in A : f[x] = f[y] => x = y
  OBVIOUS
<1>6. \A y \in B : \E x \in A : f[x] = y
  OBVIOUS
<1> HIDE DEF f, B
<1> QED BY <1>2, <1>3, <1>4, <1>5, <1>6, SameSize

\* Finitely many threads have finitely many places.
LEMMA AllWaitsFinite ==
  ASSUME NEW jm \in [Threads -> Seq(Threads)], NEW lv \in SUBSET Threads, NEW t
  PROVE  IsFiniteSet(UNION {Waits(jm, u, t) : u \in lv})
<1> DEFINE C == {Waits(jm, u, t) : u \in lv}
           f == [u \in lv |-> Waits(jm, u, t)]
<1>1. IsFiniteSet(lv)
  BY ThreadsAssumption, FS_Subset
<1>2. f \in Surjection(lv, C)
  BY DEF Surjection
<1>3. IsFiniteSet(C)
  <2> HIDE DEF C, f
  <2> QED BY <1>1, <1>2, FS_Surjection
<1>4. \A w \in C : IsFiniteSet(w)
  BY WaitsCount
<1> HIDE DEF C
<1>5. IsFiniteSet(UNION C)
  BY <1>3, <1>4, FS_UNION
<1> QED BY <1>5 DEF C

\* The join list of one thread is apart from those of the others.
LEMMA JoinCountSplit ==
  ASSUME NEW jm \in [Threads -> Seq(Threads)], NEW lv \in SUBSET Threads, NEW u \in lv, NEW t
  PROVE  /\ JoinCount(jm, lv \ {u}, t) \in Nat
         /\ JoinCount(jm, lv, t) = JoinCount(jm, lv \ {u}, t) + Occurrences(jm[u], t)
<1> DEFINE A == Waits(jm, u, t)
           B == UNION {Waits(jm, v, t) : v \in lv \ {u}}
           C == UNION {Waits(jm, v, t) : v \in lv}
<1>1. IsFiniteSet(A) /\ Cardinality(A) = Occurrences(jm[u], t)
  BY WaitsCount
<1>2. lv \ {u} \in SUBSET Threads
  OBVIOUS
<1>3. IsFiniteSet(B)
  BY <1>2, AllWaitsFinite
<1>4. C = B \cup A
  OBVIOUS
<1>5. \A v : \A w \in Waits(jm, v, t) : w[1] = v
  BY DEF Waits
<1>6. B \cap A = {}
  BY <1>5
<1>7. JoinCount(jm, lv \ {u}, t) = Cardinality(B) /\ JoinCount(jm, lv, t) = Cardinality(C)
  BY DEF JoinCount
<1> HIDE DEF A, B, C
<1>8. Cardinality(B) \in Nat /\ Cardinality(B \cup A) = Cardinality(B) + Cardinality(A)
  BY <1>1, <1>3, <1>6, DisjointSizes
<1> QED BY <1>1, <1>4, <1>7, <1>8

\* The number of places in the join lists is a number.
LEMMA JoinCountType ==
  ASSUME NEW jm \in [Threads -> Seq(Threads)], NEW lv \in SUBSET Threads, NEW t
  PROVE  /\ JoinCount(jm, lv, t) \in Nat
         /\ JoinCount(jm, lv, t) = 0 <=> \A u \in lv : ~InSeq(jm[u], t)
<1> DEFINE C == UNION {Waits(jm, v, t) : v \in lv}
<1>1. IsFiniteSet(C)
  BY AllWaitsFinite
<1>2. C = {} <=> \A u \in lv : ~InSeq(jm[u], t)
  <2>1. \A u \in lv : Waits(jm, u, t) = {} <=> ~InSeq(jm[u], t)
    <3> SUFFICES ASSUME NEW u \in lv PROVE Waits(jm, u, t) = {} <=> ~InSeq(jm[u], t)
      OBVIOUS
    <3>1. ASSUME NEW i \in DOMAIN jm[u], jm[u][i] = t PROVE Waits(jm, u, t) # {}
      <4>1. <<u, i>> \in Waits(jm, u, t)
        BY <3>1 DEF Waits
      <4> QED BY <4>1
    <3>2. ASSUME NEW w \in Waits(jm, u, t) PROVE InSeq(jm[u], t)
      BY <3>2 DEF Waits, InSeq
    <3> QED BY <3>1, <3>2 DEF InSeq
  <2>2. C = {} <=> \A u \in lv : Waits(jm, u, t) = {}
    OBVIOUS
  <2> QED BY <2>1, <2>2
<1>3. JoinCount(jm, lv, t) = Cardinality(C)
  BY DEF JoinCount
<1> HIDE DEF C
<1> QED BY <1>1, <1>2, <1>3, FS_CardinalityType, FS_EmptySet

\* Only the join lists of live threads count.
LEMMA JoinCountSame ==
  ASSUME NEW jm, NEW km, NEW lv, \A u \in lv : jm[u] = km[u], NEW t
  PROVE  JoinCount(jm, lv, t) = JoinCount(km, lv, t)
<1>1. \A u \in lv : Waits(jm, u, t) = Waits(km, u, t)
  BY DEF Waits
<1>2. {Waits(jm, u, t) : u \in lv} = {Waits(km, u, t) : u \in lv}
  BY <1>1
<1> QED BY <1>2 DEF JoinCount

\* The pending wake-ups of a thread are the sum of three numbers.
LEMMA WakeupsSum ==
  ASSUME TypeOK, NEW t
  PROVE  /\ Occurrences(readyQueue, t) \in Nat
         /\ SleepCount(sleepList, t) \in Nat
         /\ JoinCount(joinMap, live, t) \in Nat
         /\ Wakeups(t) = Occurrences(readyQueue, t) + SleepCount(sleepList, t) + JoinCount(joinMap, live, t)
<1>1. Occurrences(readyQueue, t) \in Nat /\ SleepCount(sleepList, t) \in Nat /\ JoinCount(joinMap, live, t) \in Nat
  BY OccurrencesType, SleepCountType, JoinCountType DEF TypeOK
<1>2. Wakeups(t) = Occurrences(readyQueue, t) + SleepCount(sleepList, t) + JoinCount(joinMap, live, t)
  BY DEF Wakeups, SleepCount, JoinCount, Waits
<1> QED BY <1>1, <1>2

\* What thread t holds: its pending wake-ups and the CPU
Count(q, list, jm, lv, cur, t) ==
  Occurrences(q, t) + SleepCount(list, t) + JoinCount(jm, lv, t) + (IF t = cur THEN 1 ELSE 0)

Tokens(t) == Count(readyQueue, sleepList, joinMap, live, currentThread, t)

InBlock == {"block", "blockLoop", "blocked"}

Due(t) == IF pc[t] \in {"block", "blockLoop"} THEN 2 ELSE 1

\* No thread, terminated or not, has more wake-ups than it needs; one that is
\* alive has exactly those, unless kill() failed half-way.
TokenInv ==
  \A t \in Threads :
    /\ Tokens(t) <= Due(t)
    /\ t \in live /\ fault # "exception" => Tokens(t) = Due(t)
    /\ pc[t] = "new" => t \notin live /\ Tokens(t) = 0

\* Only a thread in block() is on a list.
AwakeInv ==
  \A t \in Threads : pc[t] \notin InBlock =>
    SleepCount(sleepList, t) = 0 /\ JoinCount(joinMap, live, t) = 0

\* A thread that joins another one is in its join list for as long as the
\* other one is alive.
JoinInv ==
  \A t \in Threads :
    pc[t] \in InBlock /\ target[t] \in live => Occurrences(joinMap[target[t]], t) # 0

\* The thread that a call is about
TargetInv ==
  \A t \in Threads :
    /\ pc[t] \in {"new", "run", "sleepAdd", "alloc", "yield"} => target[t] = NoThread
    /\ target[t] # NoThread => pc[target[t]] # "new"

\* Terminated threads on their way to the cleaner
CleanerInv ==
  /\ \A i \in DOMAIN threadQueue : threadQueue[i] = NoThread \/ (threadQueue[i] \notin live /\ pc[threadQueue[i]] # "new")
  /\ pc[Cleaner] \in {"look", "lookSleep", "scanSleep", "requeue", "addLoad", "addStore", "addSlot", "delete"} =>
       target[Cleaner] \notin live /\ pc[target[Cleaner]] # "new"
  /\ \A t \in deleted : t \notin live /\ pc[t] # "new"

WakeInv == TokenInv /\ AwakeInv /\ JoinInv /\ TargetInv /\ CleanerInv

-----------------------------------------------------------------------------
\* What a thread holds is a number, made of three numbers and the CPU.
LEMMA CountSum ==
  ASSUME NEW q \in Seq(Threads), NEW list \in Seq(Entries), NEW jm \in [Threads -> Seq(Threads)],
         NEW lv \in SUBSET Threads, NEW cur, NEW t
  PROVE  /\ Occurrences(q, t) \in Nat
         /\ SleepCount(list, t) \in Nat
         /\ JoinCount(jm, lv, t) \in Nat
         /\ Count(q, list, jm, lv, cur, t) \in Nat
         /\ Count(q, list, jm, lv, cur, t) =
              Occurrences(q, t) + SleepCount(list, t) + JoinCount(jm, lv, t) + (IF t = cur THEN 1 ELSE 0)
<1>1. Occurrences(q, t) \in Nat /\ SleepCount(list, t) \in Nat /\ JoinCount(jm, lv, t) \in Nat
  BY OccurrencesType, SleepCountType, JoinCountType
<1> QED BY <1>1 DEF Count

\* The same in the current state ...
LEMMA TokensSum ==
  ASSUME TypeOK, NEW t
  PROVE  /\ Occurrences(readyQueue, t) \in Nat
         /\ SleepCount(sleepList, t) \in Nat
         /\ JoinCount(joinMap, live, t) \in Nat
         /\ Tokens(t) \in Nat
         /\ Tokens(t) = Occurrences(readyQueue, t) + SleepCount(sleepList, t)
                          + JoinCount(joinMap, live, t) + (IF t = currentThread THEN 1 ELSE 0)
<1>1. readyQueue \in Seq(Threads) /\ sleepList \in Seq(Entries) /\ joinMap \in [Threads -> Seq(Threads)]
      /\ live \in SUBSET Threads
  BY DEF TypeOK
<1> QED BY <1>1, CountSum DEF Tokens

\* ... and in the next one.
LEMMA TokensSumNext ==
  ASSUME TypeOK', NEW t
  PROVE  /\ Occurrences(readyQueue', t) \in Nat
         /\ SleepCount(sleepList', t) \in Nat
         /\ JoinCount(joinMap', live', t) \in Nat
         /\ Tokens(t)' \in Nat
         /\ Tokens(t)' = Occurrences(readyQueue', t) + SleepCount(sleepList', t)
                          + JoinCount(joinMap', live', t) + (IF t = currentThread' THEN 1 ELSE 0)
<1>1. readyQueue' \in Seq(Threads) /\ sleepList' \in Seq(Entries) /\ joinMap' \in [Threads -> Seq(Threads)]
      /\ live' \in SUBSET Threads
  BY DEF TypeOK
<1> QED BY <1>1, CountSum DEF Tokens

\* checkSleepList() moves wake-ups from the sleep list to the ready queue.
LEMMA ScanKeeps ==
  ASSUME TypeOK, NEW list \in Seq(Entries), NEW W \in DuePositions(list),
         NEW p \in Increasing(W), NEW r \in Increasing(DOMAIN list \ W), NEW v
  PROVE  /\ readyQueue \o Woken(list, p) \in Seq(Threads)
         /\ Kept(list, r) \in Seq(Entries)
         /\ SleepCount(list, v) \in Nat
         /\ SleepCount(Kept(list, r), v) \in Nat
         /\ Occurrences(readyQueue \o Woken(list, p), v) \in Nat
         /\ Occurrences(readyQueue, v) \in Nat
         /\ Occurrences(readyQueue \o Woken(list, p), v) + SleepCount(Kept(list, r), v)
              = Occurrences(readyQueue, v) + SleepCount(list, v)
         /\ SleepCount(Kept(list, r), v) <= SleepCount(list, v)
<1> DEFINE woken == Woken(list, p)
           kept == Kept(list, r)
<1>1. woken \in Seq(Threads) /\ kept \in Seq(Entries)
  BY CheckSleepListType
<1>2. Occurrences(woken, v) + SleepCount(kept, v) = SleepCount(list, v)
  BY ScanCount
<1> HIDE DEF woken, kept
<1>3. readyQueue \in Seq(Threads)
  BY DEF TypeOK
<1>4. /\ readyQueue \o woken \in Seq(Threads)
      /\ Occurrences(readyQueue \o woken, v) = Occurrences(readyQueue, v) + Occurrences(woken, v)
  BY <1>1, <1>3, OccurrencesConcat
<1>5. Occurrences(readyQueue, v) \in Nat /\ Occurrences(woken, v) \in Nat
  BY <1>1, <1>3, OccurrencesType
<1>6. SleepCount(list, v) \in Nat /\ SleepCount(kept, v) \in Nat
  BY <1>1, SleepCountType
<1>7. /\ Occurrences(readyQueue \o woken, v) \in Nat
      /\ Occurrences(readyQueue \o woken, v) + SleepCount(kept, v) = Occurrences(readyQueue, v) + SleepCount(list, v)
      /\ SleepCount(kept, v) <= SleepCount(list, v)
  BY <1>2, <1>4, <1>5, <1>6
<1> QED BY <1>1, <1>4, <1>5, <1>6, <1>7 DEF woken, kept

\* yield() after one scan: no thread gains or loses anything but time.
LEMMA YieldWithTokens ==
  ASSUME TypeOK, TypeOK', NEW t \in Threads, currentThread = t, NEW l, NEW list \in Seq(Entries),
         NEW q \in Seq(Threads), NEW keep \in Seq(Entries), NEW v,
         SleepCount(list, v) = SleepCount(sleepList, v),
         Occurrences(q, v) + SleepCount(keep, v) = Occurrences(readyQueue, v) + SleepCount(list, v),
         SleepCount(keep, v) <= SleepCount(list, v),
         q = <<>> => readyQueue = <<>>,
         YieldWith(t, l, list, q, keep), UNCHANGED <<live, joinMap>>
  PROVE  Tokens(v)' = Tokens(v) /\ SleepCount(sleepList', v) <= SleepCount(sleepList, v)
<1>1. /\ Occurrences(readyQueue, v) \in Nat /\ SleepCount(sleepList, v) \in Nat
      /\ JoinCount(joinMap, live, v) \in Nat
      /\ Tokens(v) = Occurrences(readyQueue, v) + SleepCount(sleepList, v)
                       + JoinCount(joinMap, live, v) + (IF v = currentThread THEN 1 ELSE 0)
  BY TokensSum
<1>2. /\ Occurrences(readyQueue', v) \in Nat /\ SleepCount(sleepList', v) \in Nat
      /\ Tokens(v)' = Occurrences(readyQueue', v) + SleepCount(sleepList', v)
                       + JoinCount(joinMap', live', v) + (IF v = currentThread' THEN 1 ELSE 0)
  BY TokensSumNext
<1>3. Occurrences(q, v) \in Nat /\ SleepCount(keep, v) \in Nat
  BY OccurrencesType, SleepCountType
<1>4. JoinCount(joinMap', live', v) = JoinCount(joinMap, live, v)
  OBVIOUS
<1>5. CASE sleepList' = list /\ UNCHANGED <<currentThread, readyQueue>>
  BY <1>1, <1>2, <1>4, <1>5
<1>6. CASE q = <<>> /\ sleepList' = keep /\ UNCHANGED <<currentThread, readyQueue>>
  <2>1. readyQueue = q
    BY <1>6
  <2> QED BY <1>1, <1>2, <1>3, <1>4, <1>6, <2>1
<1>7. CASE q # <<>> /\ sleepList' = keep /\ readyQueue' = PolledAndOffered(q, t) /\ currentThread' = Head(q)
  <2> DEFINE rest == Tail(q)
  <2>1. rest \in Seq(Threads) /\ Occurrences(q, v) = Occurrences(rest, v) + (IF Head(q) = v THEN 1 ELSE 0)
    BY <1>7, OccurrencesTail
  <2>2. readyQueue' = Append(rest, t)
    BY <1>7 DEF PolledAndOffered
  <2> HIDE DEF rest
  <2>3. Occurrences(readyQueue', v) = Occurrences(rest, v) + (IF t = v THEN 1 ELSE 0)
    BY <2>1, <2>2, OccurrencesAppend
  <2>4. Occurrences(rest, v) \in Nat
    BY <2>1, OccurrencesType
  <2>5. SleepCount(sleepList', v) <= SleepCount(sleepList, v)
    BY <1>7
  <2>6. /\ Occurrences(readyQueue', v) = Occurrences(q, v) - (IF Head(q) = v THEN 1 ELSE 0) + (IF t = v THEN 1 ELSE 0)
        /\ Occurrences(q, v) + SleepCount(sleepList', v) = Occurrences(readyQueue, v) + SleepCount(sleepList, v)
    BY <1>3, <1>7, <2>1, <2>3, <2>4
  <2>7. /\ v = currentThread <=> t = v
        /\ v = currentThread' <=> Head(q) = v
    BY <1>7
  <2>8. Tokens(v)' = Tokens(v)
    <3> DEFINE ro == Occurrences(readyQueue, v)
               rn == Occurrences(readyQueue', v)
               so == SleepCount(sleepList, v)
               sn == SleepCount(sleepList', v)
               j == JoinCount(joinMap, live, v)
               n == Occurrences(q, v)
    <3>1. ro \in Nat /\ rn \in Nat /\ so \in Nat /\ sn \in Nat /\ j \in Nat /\ n \in Nat
      BY <1>1, <1>2, <1>3
    <3>2. Tokens(v) = ro + so + j + (IF t = v THEN 1 ELSE 0)
      BY <1>1, <2>7
    <3>3. Tokens(v)' = rn + sn + j + (IF Head(q) = v THEN 1 ELSE 0)
      BY <1>2, <1>4, <2>7
    <3>4. n + sn = ro + so
      BY <2>6
    <3>5. rn = n - (IF Head(q) = v THEN 1 ELSE 0) + (IF t = v THEN 1 ELSE 0)
      BY <2>6
    <3> HIDE DEF ro, rn, so, sn, j, n
    <3> QED BY <3>1, <3>2, <3>3, <3>4, <3>5
  <2> QED BY <2>5, <2>8
<1> QED BY <1>5, <1>6, <1>7 DEF YieldWith, SwitchTo

\* yield() as a whole.
LEMMA YieldTokens ==
  ASSUME TypeOK, TypeOK', NEW t \in Threads, currentThread = t, NEW l, NEW list \in Seq(Entries),
         \A v : SleepCount(list, v) = SleepCount(sleepList, v),
         Yield(t, l, list), UNCHANGED <<live, joinMap>>
  PROVE  \A v : Tokens(v)' = Tokens(v) /\ SleepCount(sleepList', v) <= SleepCount(sleepList, v)
<1> SUFFICES ASSUME NEW v
             PROVE  Tokens(v)' = Tokens(v) /\ SleepCount(sleepList', v) <= SleepCount(sleepList, v)
  OBVIOUS
<1>1. CASE readyQueueLock # NoThread
  <2>1. sleepList' = list /\ UNCHANGED <<currentThread, readyQueue>>
    BY <1>1 DEF Yield
  <2>2. SleepCount(list, v) \in Nat /\ SleepCount(list, v) = SleepCount(sleepList, v)
    BY SleepCountType
  <2> QED BY <2>1, <2>2 DEF Tokens, Count
<1>2. CASE readyQueueLock = NoThread
  <2>0. PICK W \in DuePositions(list) :
          \E p \in Increasing(W), r \in Increasing(DOMAIN list \ W) :
            YieldWith(t, l, list, readyQueue \o Woken(list, p), Kept(list, r))
    BY <1>2 DEF Yield
  <2>1. PICK p \in Increasing(W), r \in Increasing(DOMAIN list \ W) :
          YieldWith(t, l, list, readyQueue \o Woken(list, p), Kept(list, r))
    BY <2>0
  <2> DEFINE q == readyQueue \o Woken(list, p)
             keep == Kept(list, r)
  <2>2. /\ q \in Seq(Threads) /\ keep \in Seq(Entries)
        /\ Occurrences(q, v) + SleepCount(keep, v) = Occurrences(readyQueue, v) + SleepCount(list, v)
        /\ SleepCount(keep, v) <= SleepCount(list, v)
    BY ScanKeeps
  <2>3. q = <<>> => readyQueue = <<>>
    <3>1. Woken(list, p) \in Seq(Threads) /\ readyQueue \in Seq(Threads)
      BY CheckSleepListType DEF TypeOK
    <3> QED BY <3>1
  <2>4. YieldWith(t, l, list, q, keep)
    BY <2>1
  <2> HIDE DEF q, keep
  <2>5. SleepCount(list, v) = SleepCount(sleepList, v)
    OBVIOUS
  <2> QED BY <2>2, <2>3, <2>4, <2>5, YieldWithTokens
<1> QED BY <1>1, <1>2

\* block() that is not held up uses one wake-up of the caller.
LEMMA BlockWithTokens ==
  ASSUME TypeOK, TypeOK', NEW t \in Threads, currentThread = t,
         NEW q \in Seq(Threads), q # <<>>, NEW keep \in Seq(Entries), NEW v,
         Occurrences(q, v) + SleepCount(keep, v) = Occurrences(readyQueue, v) + SleepCount(sleepList, v),
         SleepCount(keep, v) <= SleepCount(sleepList, v),
         readyQueue' = Tail(q), sleepList' = keep, currentThread' = Head(q), UNCHANGED <<live, joinMap>>
  PROVE  /\ Tokens(v)' = Tokens(v) - (IF v = t THEN 1 ELSE 0)
         /\ SleepCount(sleepList', v) <= SleepCount(sleepList, v)
<1> DEFINE ro == Occurrences(readyQueue, v)
           rn == Occurrences(readyQueue', v)
           so == SleepCount(sleepList, v)
           sn == SleepCount(sleepList', v)
           j == JoinCount(joinMap, live, v)
           n == Occurrences(q, v)
<1>1. ro \in Nat /\ so \in Nat /\ j \in Nat /\ Tokens(v) = ro + so + j + (IF v = t THEN 1 ELSE 0)
  BY TokensSum
<1>2. rn \in Nat /\ sn \in Nat /\ Tokens(v)' = rn + sn + j + (IF Head(q) = v THEN 1 ELSE 0)
  <2>1. Tokens(v)' = rn + sn + JoinCount(joinMap', live', v) + (IF v = currentThread' THEN 1 ELSE 0)
    BY TokensSumNext
  <2>2. JoinCount(joinMap', live', v) = j
    OBVIOUS
  <2> QED BY <2>1, <2>2, TokensSumNext
<1>3. n \in Nat /\ n = rn + (IF Head(q) = v THEN 1 ELSE 0)
  BY OccurrencesType, OccurrencesTail
<1>4. n + sn = ro + so /\ sn <= so
  OBVIOUS
<1> HIDE DEF ro, rn, so, sn, j, n
<1>5. Tokens(v)' = Tokens(v) - (IF v = t THEN 1 ELSE 0)
  BY <1>1, <1>2, <1>3, <1>4
<1> QED BY <1>4, <1>5 DEF so, sn

\* block() as a whole: the kernel halts, or the caller leaves block() at once,
\* or it leaves the CPU to the first thread of the ready queue.
LEMMA BlockSwitchTokens ==
  ASSUME TypeOK, TypeOK', NEW t \in Threads, BlockSwitch(t)
  PROVE  \/ /\ fault' = "growing"
            /\ UNCHANGED <<currentThread, readyQueue, sleepList, live, joinMap, pc, target>>
         \/ /\ fault' = fault
            /\ \A v : /\ Tokens(v)' = Tokens(v) - (IF v = t THEN 1 ELSE 0)
                      /\ SleepCount(sleepList', v) <= SleepCount(sleepList, v)
            /\ \/ /\ currentThread' = t
                  /\ Goto(t, "run") /\ target' = [target EXCEPT ![t] = NoThread]
               \/ /\ currentThread' # t /\ currentThread' \in Threads
                  /\ SwitchTo(t, "blocked", currentThread')
<1>0. currentThread = t /\ UNCHANGED <<live, joinMap>>
  BY DEF BlockSwitch, Running
<1>1. PICK W \in DuePositions(sleepList) :
        \E p \in Increasing(W), r \in Increasing(DOMAIN sleepList \ W) :
          /\ readyQueue \o Woken(sleepList, p) # <<>>
          /\ BlockWith(t, readyQueue \o Woken(sleepList, p), Kept(sleepList, r))
  BY DEF BlockSwitch
<1>2. PICK p \in Increasing(W), r \in Increasing(DOMAIN sleepList \ W) :
          /\ readyQueue \o Woken(sleepList, p) # <<>>
          /\ BlockWith(t, readyQueue \o Woken(sleepList, p), Kept(sleepList, r))
  BY <1>1
<1> DEFINE q == readyQueue \o Woken(sleepList, p)
           keep == Kept(sleepList, r)
<1>3. sleepList \in Seq(Entries)
  BY DEF TypeOK
<1>4. \A v : /\ Occurrences(q, v) + SleepCount(keep, v) = Occurrences(readyQueue, v) + SleepCount(sleepList, v)
             /\ SleepCount(keep, v) <= SleepCount(sleepList, v)
  BY <1>3, ScanKeeps
<1>5. q \in Seq(Threads) /\ keep \in Seq(Entries)
  BY <1>3, ScanKeeps
<1>6. q # <<>> /\ BlockWith(t, q, keep)
  BY <1>2
<1> HIDE DEF q, keep
<1>7. CASE readyQueue' = Tail(q) /\ sleepList' = keep /\ currentThread' = Head(q)
  <2>1. ASSUME NEW v
        PROVE  /\ Tokens(v)' = Tokens(v) - (IF v = t THEN 1 ELSE 0)
               /\ SleepCount(sleepList', v) <= SleepCount(sleepList, v)
    BY <1>0, <1>4, <1>5, <1>6, <1>7, BlockWithTokens
  <2>2. \/ /\ Head(q) = t /\ currentThread' = t /\ fault' = fault
           /\ Goto(t, "run") /\ target' = [target EXCEPT ![t] = NoThread]
        \/ /\ Head(q) # t /\ fault' = fault
           /\ SwitchTo(t, "blocked", Head(q))
        \/ /\ fault' = "growing"
           /\ UNCHANGED <<currentThread, readyQueue, sleepList, live, joinMap, pc, target>>
    BY <1>0, <1>6 DEF BlockWith, Halt
  <2>3. Head(q) \in Threads
    BY <1>5, <1>6
  <2> QED BY <1>7, <2>1, <2>2, <2>3
<1>8. CASE Halt(t, "growing") /\ UNCHANGED <<currentThread, readyQueue, sleepList, pc, target>>
  BY <1>0, <1>8 DEF Halt
<1> QED BY <1>0, <1>6, <1>7, <1>8 DEF BlockWith, SwitchTo

\* What yield() does to the labels, and which thread it brings back.
LEMMA YieldLabels ==
  ASSUME TypeOK, NEW t \in Threads, currentThread = t, fault = "none", NEW l, NEW list, Yield(t, l, list)
  PROVE  /\ fault' # "exception"
         /\ \A v \in Threads :
              \/ pc'[v] = pc[v] /\ target'[v] = target[v]
              \/ v = t /\ pc'[v] = l /\ target'[v] = target[v]
              \/ pc[v] = "blocked" /\ pc'[v] = "run" /\ v = currentThread' /\ target'[v] = NoThread
<1>1. CASE Goto(t, l) /\ UNCHANGED <<target, fault>>
  BY <1>1 DEF TypeOK, Goto
<1>2. CASE (\E reason \in {"growing", "polling", "stale"} : Halt(t, reason)) /\ UNCHANGED <<pc, target>>
  BY <1>2 DEF Halt
<1>3. ASSUME NEW q, SwitchTo(t, l, Head(q)), fault' = fault
      PROVE  /\ fault' # "exception"
             /\ \A v \in Threads :
                  \/ pc'[v] = pc[v] /\ target'[v] = target[v]
                  \/ v = t /\ pc'[v] = l /\ target'[v] = target[v]
                  \/ pc[v] = "blocked" /\ pc'[v] = "run" /\ v = currentThread' /\ target'[v] = NoThread
  BY <1>3 DEF SwitchTo, TypeOK
<1> QED BY <1>1, <1>2, <1>3 DEF Yield, YieldWith

\* A thread that is on the CPU and has no more than it needs is on no list.
LEMMA OnCpuIsAwake ==
  ASSUME TypeOK', NEW v, v = currentThread', Tokens(v)' <= 1
  PROVE  SleepCount(sleepList', v) = 0 /\ JoinCount(joinMap', live', v) = 0
BY TokensSumNext

\* yield() keeps the wake-ups.
LEMMA YieldWake ==
  ASSUME TypeOK, TypeOK', HasTarget, WakeInv, NEW t \in Threads, currentThread = t, fault = "none",
         NEW l, l = pc[t] \/ (l = "run" /\ pc[t] \in {"run", "yield"}),
         NEW list \in Seq(Entries), \A v : SleepCount(list, v) = SleepCount(sleepList, v),
         Yield(t, l, list), UNCHANGED <<live, joinMap, threadQueue, deleted>>
  PROVE  WakeInv'
<1>1. \A v : Tokens(v)' = Tokens(v) /\ SleepCount(sleepList', v) <= SleepCount(sleepList, v)
  BY YieldTokens
<1>2. /\ fault' # "exception"
      /\ \A v \in Threads :
           \/ pc'[v] = pc[v] /\ target'[v] = target[v]
           \/ v = t /\ pc'[v] = l /\ target'[v] = target[v]
           \/ pc[v] = "blocked" /\ pc'[v] = "run" /\ v = currentThread' /\ target'[v] = NoThread
  BY YieldLabels
<1>3. \A v \in Threads : /\ Due(v)' = Due(v)
                         /\ pc'[v] = "new" <=> pc[v] = "new"
  BY <1>2 DEF Due
<1>4. TokenInv'
  <2>1. \A v \in Threads : /\ Tokens(v)' <= Due(v)'
                           /\ v \in live' => Tokens(v)' = Due(v)'
                           /\ pc'[v] = "new" => v \notin live' /\ Tokens(v)' = 0
    BY <1>1, <1>3 DEF WakeInv, TokenInv
  <2> QED BY <2>1 DEF TokenInv
<1>5. AwakeInv'
  <2> SUFFICES ASSUME NEW v \in Threads, pc'[v] \notin InBlock
               PROVE  SleepCount(sleepList', v) = 0 /\ JoinCount(joinMap', live', v) = 0
    BY DEF AwakeInv
  <2>1. CASE pc[v] \in InBlock
    <3>1. v = currentThread' /\ pc'[v] = "run"
      BY <1>2, <2>1 DEF InBlock
    <3>2. Tokens(v)' <= 1
      BY <1>4, <3>1 DEF TokenInv, Due
    <3> QED BY <3>1, <3>2, OnCpuIsAwake
  <2>2. CASE pc[v] \notin InBlock
    <3>1. SleepCount(sleepList, v) = 0 /\ JoinCount(joinMap, live, v) = 0
      BY <2>2 DEF WakeInv, AwakeInv
    <3>2. SleepCount(sleepList', v) <= 0 /\ SleepCount(sleepList', v) \in Nat
      BY <1>1, <3>1, TokensSumNext
    <3> QED BY <3>1, <3>2
  <2> QED BY <2>1, <2>2
<1>6. JoinInv'
  <2> SUFFICES ASSUME NEW v \in Threads, pc'[v] \in InBlock, target'[v] \in live
               PROVE  Occurrences(joinMap[target'[v]], v) # 0
    BY DEF JoinInv
  <2>1. pc[v] \in InBlock /\ target'[v] = target[v]
    BY <1>2 DEF InBlock
  <2> QED BY <2>1 DEF WakeInv, JoinInv
<1>7. TargetInv'
  <2> SUFFICES ASSUME NEW v \in Threads
               PROVE  /\ pc'[v] \in {"new", "run", "sleepAdd", "alloc", "yield"} => target'[v] = NoThread
                      /\ target'[v] # NoThread => pc'[target'[v]] # "new"
    BY DEF TargetInv
  <2>1. pc'[v] \in {"new", "run", "sleepAdd", "alloc", "yield"} => target'[v] = NoThread
    BY <1>2 DEF WakeInv, TargetInv
  <2>2. target'[v] # NoThread => target'[v] = target[v] /\ target[v] \in Threads
    BY <1>2 DEF TypeOK
  <2>3. target'[v] # NoThread => pc'[target'[v]] # "new"
    BY <1>3, <2>2 DEF WakeInv, TargetInv
  <2> QED BY <2>1, <2>3
<1>8. CleanerInv'
  <2>1. \A i \in DOMAIN threadQueue : threadQueue[i] \in Threads \cup {NoThread}
    BY DEF TypeOK
  <2>2. \A i \in DOMAIN threadQueue : threadQueue[i] = NoThread \/ (threadQueue[i] \notin live /\ pc'[threadQueue[i]] # "new")
    BY <1>3, <2>1 DEF WakeInv, CleanerInv
  <2>3. \A v \in deleted : v \notin live /\ pc'[v] # "new"
    BY <1>3 DEF WakeInv, CleanerInv, TypeOK
  <2>4. ASSUME pc'[Cleaner] \in {"look", "lookSleep", "scanSleep", "requeue", "addLoad", "addStore", "addSlot", "delete"}
        PROVE  target'[Cleaner] \notin live /\ pc'[target'[Cleaner]] # "new"
    <3>1. pc[Cleaner] = pc'[Cleaner] /\ target'[Cleaner] = target[Cleaner]
      BY <1>2, <2>4, ThreadsAssumption
    <3>2. target[Cleaner] \notin live /\ pc[target[Cleaner]] # "new"
      BY <2>4, <3>1 DEF WakeInv, CleanerInv
    <3>3. target[Cleaner] \in Threads
      BY <2>4, <3>1, ThreadsAssumption DEF HasTarget
    <3> QED BY <1>3, <3>1, <3>2, <3>3
  <2> QED BY <2>2, <2>3, <2>4 DEF CleanerInv
<1> QED BY <1>4, <1>5, <1>6, <1>7, <1>8 DEF WakeInv

\* A terminated thread on its way to the cleaner, or freed
Gone(v) == v \in Threads /\ v \notin live /\ pc[v] # "new"

\* The cleaner's queue and the freed threads are terminated ones.
LEMMA QueueIsGone ==
  ASSUME TypeOK, WakeInv
  PROVE  /\ \A i \in DOMAIN threadQueue : threadQueue[i] = NoThread \/ Gone(threadQueue[i])
         /\ \A v \in deleted : Gone(v)
<1>1. \A i \in DOMAIN threadQueue : threadQueue[i] \in Threads \cup {NoThread}
  BY DEF TypeOK
<1>2. deleted \subseteq Threads
  BY DEF TypeOK
<1> QED BY <1>1, <1>2 DEF WakeInv, CleanerInv, Gone

\* A thread enters, continues or ends a call that is about thread x.
LEMMA CallKeeps ==
  ASSUME TypeOK, HasTarget, WakeInv, NEW t \in Threads, NEW l, NEW x,
         Goto(t, l), pc[t] # "new", l # "new",
         target' = [target EXCEPT ![t] = x],
         x = NoThread \/ (x \in Threads /\ pc[x] # "new"),
         l \in {"run", "sleepAdd", "alloc", "yield"} => x = NoThread,
         t = Cleaner /\ l \in {"look", "lookSleep", "scanSleep", "requeue", "addLoad", "addStore", "addSlot", "delete"} => Gone(x),
         live' \subseteq live,
         \A i \in DOMAIN threadQueue' :
           threadQueue'[i] = NoThread \/ (threadQueue'[i] \in Threads /\ threadQueue'[i] \notin live' /\ pc[threadQueue'[i]] # "new"),
         \A v \in deleted' : Gone(v)
  PROVE  TargetInv' /\ CleanerInv'
<1>1. \A v \in Threads : pc'[v] = "new" <=> pc[v] = "new"
  BY DEF Goto, TypeOK
<1>2. \A v \in Threads : target[v] # NoThread => target[v] \in Threads /\ pc[target[v]] # "new"
  BY DEF TypeOK, WakeInv, TargetInv
<1>3. \A v \in Threads : target'[v] # NoThread => target'[v] \in Threads /\ pc[target'[v]] # "new"
  BY <1>2 DEF TypeOK
<1>4. \A v \in Threads : pc'[v] \in {"new", "run", "sleepAdd", "alloc", "yield"} => target'[v] = NoThread
  BY DEF TypeOK, Goto, WakeInv, TargetInv
<1>5. TargetInv'
  BY <1>1, <1>3, <1>4 DEF TargetInv
<1>6. ASSUME pc'[Cleaner] \in {"look", "lookSleep", "scanSleep", "requeue", "addLoad", "addStore", "addSlot", "delete"}
      PROVE  target'[Cleaner] \notin live' /\ pc'[target'[Cleaner]] # "new"
  <2>1. CASE t = Cleaner
    <3>1. target'[Cleaner] = x /\ pc'[Cleaner] = l
      BY <2>1 DEF TypeOK, Goto
    <3> QED BY <1>1, <1>6, <2>1, <3>1 DEF Gone
  <2>2. CASE t # Cleaner
    <3>1. target'[Cleaner] = target[Cleaner] /\ pc'[Cleaner] = pc[Cleaner]
      BY <2>2, ThreadsAssumption DEF TypeOK, Goto
    <3>2. target[Cleaner] \in Threads /\ target[Cleaner] \notin live /\ pc[target[Cleaner]] # "new"
      BY <1>6, <3>1, ThreadsAssumption DEF HasTarget, WakeInv, CleanerInv
    <3> QED BY <1>1, <3>1, <3>2
  <2> QED BY <2>1, <2>2
<1>7. CleanerInv'
  <2>1. \A i \in DOMAIN threadQueue' : threadQueue'[i] = NoThread \/ (threadQueue'[i] \notin live' /\ pc'[threadQueue'[i]] # "new")
    BY <1>1
  <2>2. \A v \in deleted' : v \notin live' /\ pc'[v] # "new"
    BY <1>1 DEF Gone
  <2> QED BY <1>6, <2>1, <2>2 DEF CleanerInv
<1> QED BY <1>5, <1>7

\* The same when nothing reaches or leaves the cleaner.
LEMMA CallKeepsQueue ==
  ASSUME TypeOK, HasTarget, WakeInv, NEW t \in Threads, NEW l, NEW x,
         Goto(t, l), pc[t] # "new", l # "new",
         target' = [target EXCEPT ![t] = x],
         x = NoThread \/ (x \in Threads /\ pc[x] # "new"),
         l \in {"run", "sleepAdd", "alloc", "yield"} => x = NoThread,
         t = Cleaner /\ l \in {"look", "lookSleep", "scanSleep", "requeue", "addLoad", "addStore", "addSlot", "delete"} => Gone(x),
         UNCHANGED <<live, threadQueue, deleted>>
  PROVE  TargetInv' /\ CleanerInv'
<1>1. /\ \A i \in DOMAIN threadQueue' :
           threadQueue'[i] = NoThread \/ (threadQueue'[i] \in Threads /\ threadQueue'[i] \notin live' /\ pc[threadQueue'[i]] # "new")
      /\ \A v \in deleted' : Gone(v)
  BY QueueIsGone DEF Gone
<1>2. live' \subseteq live
  OBVIOUS
<1> QED BY <1>1, <1>2, CallKeeps

\* A step outside block() that moves no wake-up.
LEMMA LabelWake ==
  ASSUME TypeOK, WakeInv, NEW t \in Threads, NEW l, Goto(t, l),
         pc[t] \notin InBlock \cup {"new"}, l \notin InBlock \cup {"new"},
         \A v \in Threads \ {t} : target'[v] = target[v],
         UNCHANGED <<currentThread, readyQueue, sleepList, live, joinMap, fault>>
  PROVE  TokenInv' /\ AwakeInv' /\ JoinInv'
<1>1. \A v \in Threads : Tokens(v)' = Tokens(v)
  BY DEF Tokens
<1>2. \A v \in Threads : /\ Due(v)' = Due(v)
                         /\ pc'[v] = "new" <=> pc[v] = "new"
                         /\ pc'[v] \in InBlock <=> pc[v] \in InBlock
                         /\ pc'[v] \in InBlock => v # t
  BY DEF Due, InBlock, Goto, TypeOK
<1>3. TokenInv'
  BY <1>1, <1>2 DEF WakeInv, TokenInv
<1>4. AwakeInv'
  BY <1>2 DEF WakeInv, AwakeInv
<1>5. JoinInv'
  BY <1>2 DEF WakeInv, JoinInv
<1> QED BY <1>3, <1>4, <1>5

\* Calls that neither add nor use a wake-up.
LEMMA CallWake ==
  ASSUME TypeOK, HasTarget, WakeInv, NEW t \in Threads,
         \/ SleepEnter(t) \/ AllocEnter(t) \/ AllocExit(t) \/ KillLock(t)
         \/ LookReady(t) \/ LookSleepLock(t) \/ LookSleep(t) \/ JoinLock(t)
         \/ \E u \in Threads : KillBegin(t, u) \/ JoinBegin(t, u)
  PROVE  WakeInv'
<1> DEFINE old == {"run", "alloc", "kill", "look", "lookSleep", "scanSleep", "join"}
           calls == {"sleepAdd", "alloc", "run", "killRemove", "requeue", "join", "lookSleep", "delete",
                     "scanSleep", "joinAdd", "kill", "look"}
<1>0. target = [target EXCEPT ![t] = target[t]]
  BY DEF TypeOK
<1>1. /\ pc[t] \in old
      /\ UNCHANGED <<currentThread, readyQueue, sleepList, live, joinMap, fault, threadQueue, deleted>>
  BY DEF SleepEnter, AllocEnter, AllocExit, KillLock, LookReady, LookSleepLock, LookSleep, JoinLock,
         KillBegin, JoinBegin, Running
<1>2. target[t] = NoThread \/ (target[t] \in Threads /\ pc[target[t]] # "new")
  BY DEF TypeOK, WakeInv, TargetInv
<1>3. pc[t] \in {"run", "alloc"} => target[t] = NoThread
  BY DEF WakeInv, TargetInv
<1>4. t = Cleaner /\ pc[t] \in {"look", "lookSleep", "scanSleep"} => Gone(target[t])
  BY DEF WakeInv, CleanerInv, HasTarget, Gone
<1>5. \E l \in calls, x \in Threads \cup {NoThread} :
        /\ Goto(t, l) /\ target' = [target EXCEPT ![t] = x]
        /\ x = NoThread \/ (x \in Threads /\ pc[x] # "new")
        /\ l \in {"run", "sleepAdd", "alloc", "yield"} => x = NoThread
        /\ t = Cleaner /\ l \in {"look", "lookSleep", "scanSleep", "requeue", "addLoad", "addStore", "addSlot", "delete"} => Gone(x)
  <2>1. CASE SleepEnter(t) \/ AllocEnter(t) \/ AllocExit(t)
    BY <1>0, <1>3, <2>1 DEF SleepEnter, AllocEnter, AllocExit, Running
  <2>2. CASE KillLock(t) \/ JoinLock(t)
    BY <1>0, <1>2, <2>2 DEF KillLock, JoinLock, TypeOK
  <2>3. CASE LookReady(t) \/ LookSleepLock(t)
    <3>1. PICK l \in {"requeue", "join", "lookSleep", "scanSleep"} : Goto(t, l)
      BY <2>3 DEF LookReady, LookSleepLock, Found
    <3>2. pc[t] \in {"look", "lookSleep"} /\ target' = target
      BY <2>3 DEF LookReady, LookSleepLock, Found, Running
    <3> QED BY <1>0, <1>2, <1>4, <3>1, <3>2 DEF TypeOK
  <2>4. CASE LookSleep(t)
    <3>1. CASE Found(t)
      BY <1>0, <1>2, <1>4, <2>4, <3>1 DEF LookSleep, Found, Running, TypeOK
    <3>2. CASE NotFound(t) /\ t = Cleaner
      BY <1>0, <1>2, <1>4, <2>4, <3>2 DEF LookSleep, NotFound, Running, TypeOK
    <3>3. CASE NotFound(t) /\ t # Cleaner
      BY <2>4, <3>3 DEF LookSleep, NotFound
    <3> QED BY <2>4, <3>1, <3>2, <3>3 DEF LookSleep
  <2>5. ASSUME NEW u \in Threads, KillBegin(t, u)
        PROVE  /\ Goto(t, "kill") /\ target' = [target EXCEPT ![t] = u]
               /\ pc[u] # "new" /\ t # Cleaner
    BY <2>5 DEF KillBegin, Workers, WakeInv, TokenInv
  <2>6. ASSUME NEW u \in Threads, JoinBegin(t, u)
        PROVE  /\ Goto(t, "look") /\ target' = [target EXCEPT ![t] = u]
               /\ pc[u] # "new" /\ t # Cleaner
    BY <2>6 DEF JoinBegin, Workers
  <2> QED BY <2>1, <2>2, <2>3, <2>4, <2>5, <2>6
<1>6. PICK l \in calls, x \in Threads \cup {NoThread} :
        /\ Goto(t, l) /\ target' = [target EXCEPT ![t] = x]
        /\ x = NoThread \/ (x \in Threads /\ pc[x] # "new")
        /\ l \in {"run", "sleepAdd", "alloc", "yield"} => x = NoThread
        /\ t = Cleaner /\ l \in {"look", "lookSleep", "scanSleep", "requeue", "addLoad", "addStore", "addSlot", "delete"} => Gone(x)
  BY <1>5
<1>7. TargetInv' /\ CleanerInv'
  BY <1>1, <1>6, CallKeepsQueue
<1>8. TokenInv' /\ AwakeInv' /\ JoinInv'
  <2>1. pc[t] \notin InBlock \cup {"new"} /\ l \notin InBlock \cup {"new"}
    BY <1>1 DEF InBlock
  <2>2. \A v \in Threads \ {t} : target'[v] = target[v]
    BY <1>6 DEF TypeOK
  <2> QED BY <1>1, <1>6, <2>1, <2>2, LabelWake
<1> QED BY <1>7, <1>8 DEF WakeInv

\* The cleaner's own steps.
LEMMA CleanerWake ==
  ASSUME TypeOK, HasTarget, WakeInv, CleanerStep
  PROVE  WakeInv'
<1>0. Cleaner \in Threads
  BY ThreadsAssumption
<1>1. /\ \A i \in DOMAIN threadQueue : threadQueue[i] = NoThread \/ Gone(threadQueue[i])
      /\ \A v \in deleted : Gone(v)
  BY QueueIsGone
<1>2. /\ UNCHANGED <<currentThread, readyQueue, sleepList, live, joinMap>>
      /\ pc[Cleaner] \notin InBlock \cup {"new"} /\ fault = "none" /\ currentThread = Cleaner
  BY DEF CleanerStep, CleanerPoll, CleanerPollStore, CleanerPollRead, CleanerRequeue,
         CleanerAddLoad, CleanerAddStore, CleanerAddSlot, CleanerAddLength, CleanerAddDone, CleanerDelete,
         Running, InBlock
<1>3. CASE fault' = "wild" /\ UNCHANGED <<pc, target, threadQueue, deleted>>
  BY <1>2, <1>3 DEF WakeInv, TokenInv, AwakeInv, JoinInv, TargetInv, CleanerInv, Tokens, Due
<1>4. ASSUME NEW l, NEW x, Goto(Cleaner, l), l \notin InBlock \cup {"new"}, UNCHANGED fault,
             target' = [target EXCEPT ![Cleaner] = x],
             x = NoThread \/ (x \in Threads /\ pc[x] # "new"),
             l \in {"run", "yield"} => x = NoThread,
             l \notin {"sleepAdd", "alloc"},
             l \in {"look", "lookSleep", "scanSleep", "requeue", "addLoad", "addStore", "addSlot", "delete"} => Gone(x),
             \A i \in DOMAIN threadQueue' : threadQueue'[i] = NoThread \/ Gone(threadQueue'[i]),
             \A v \in deleted' : Gone(v)
      PROVE  WakeInv'
  <2>1. TargetInv' /\ CleanerInv'
    BY <1>0, <1>2, <1>4, CallKeeps DEF InBlock, Gone
  <2>2. \A v \in Threads \ {Cleaner} : target'[v] = target[v]
    BY <1>4 DEF TypeOK
  <2>3. TokenInv' /\ AwakeInv' /\ JoinInv'
    BY <1>0, <1>2, <1>4, <2>2, LabelWake
  <2> QED BY <2>1, <2>3 DEF WakeInv
<1>5. target = [target EXCEPT ![Cleaner] = target[Cleaner]] /\ (target[Cleaner] = NoThread \/ target[Cleaner] \in Threads)
  BY <1>0 DEF TypeOK
<1>6. CASE CleanerPoll \/ CleanerPollStore \/ CleanerAddLength
  <2>1. target[Cleaner] = NoThread \/ (target[Cleaner] \in Threads /\ pc[target[Cleaner]] # "new")
    BY <1>0, <1>5 DEF WakeInv, TargetInv
  <2>2. /\ UNCHANGED <<target, threadQueue, deleted, fault>>
        /\ \E l \in {"pollStore", "pollRead", "addDone"} : Goto(Cleaner, l)
    BY <1>6 DEF CleanerPoll, CleanerPollStore, CleanerAddLength
  <2> QED BY <1>1, <1>4, <1>5, <2>1, <2>2 DEF InBlock
<1>11. CASE CleanerAddDone
  <2>1. /\ Goto(Cleaner, "yield") /\ target' = [target EXCEPT ![Cleaner] = NoThread]
        /\ UNCHANGED <<threadQueue, deleted, fault>>
    BY <1>11 DEF CleanerAddDone
  <2> QED BY <1>1, <1>4, <2>1 DEF InBlock
<1>7. CASE CleanerPollRead
  <2>1. CASE threadQueue[ring.head] \in Threads \ deleted
    <3>1. /\ Goto(Cleaner, "look") /\ target' = [target EXCEPT ![Cleaner] = threadQueue[ring.head]]
          /\ UNCHANGED <<threadQueue, deleted, fault>>
      BY <1>7, <2>1 DEF CleanerPollRead
    <3>2. ring.head \in DOMAIN threadQueue /\ threadQueue[ring.head] # NoThread
      BY <2>1, ThreadsAssumption DEF TypeOK, Ring
    <3>3. Gone(threadQueue[ring.head])
      BY <1>1, <3>2
    <3> QED BY <1>1, <1>4, <3>1, <3>3 DEF InBlock, Gone
  <2>2. CASE threadQueue[ring.head] \notin Threads \ deleted
    BY <1>3, <1>7, <2>2 DEF CleanerPollRead
  <2> QED BY <2>1, <2>2
<1>8. CASE CleanerRequeue \/ CleanerAddLoad \/ CleanerAddStore
  <2>1. Gone(target[Cleaner])
    BY <1>0, <1>8 DEF CleanerRequeue, CleanerAddLoad, CleanerAddStore, Running, HasTarget, WakeInv, CleanerInv, Gone
  <2>2. /\ UNCHANGED <<target, threadQueue, deleted, fault>>
        /\ \E l \in {"addLoad", "addStore", "addSlot"} : Goto(Cleaner, l)
    BY <1>8 DEF CleanerRequeue, CleanerAddLoad, CleanerAddStore
  <2> QED BY <1>1, <1>4, <1>5, <2>1, <2>2 DEF InBlock, Gone
<1>9. CASE CleanerAddSlot
  <2>1. Gone(target[Cleaner])
    BY <1>0, <1>9 DEF CleanerAddSlot, Running, HasTarget, WakeInv, CleanerInv, Gone
  <2>2. \A i \in DOMAIN threadQueue' : threadQueue'[i] = NoThread \/ Gone(threadQueue'[i])
    BY <1>1, <1>9, <2>1 DEF CleanerAddSlot, TypeOK
  <2>3. Goto(Cleaner, "addLength") /\ UNCHANGED <<target, deleted, fault>>
    BY <1>9 DEF CleanerAddSlot
  <2> QED BY <1>1, <1>4, <1>5, <2>1, <2>2, <2>3 DEF InBlock, Gone
<1>10. CASE CleanerDelete
  <2>1. Gone(target[Cleaner])
    BY <1>0, <1>10 DEF CleanerDelete, Running, HasTarget, WakeInv, CleanerInv, Gone
  <2>2. \A v \in deleted' : Gone(v)
    BY <1>1, <1>10, <2>1 DEF CleanerDelete
  <2>3. /\ Goto(Cleaner, "run") /\ target' = [target EXCEPT ![Cleaner] = NoThread]
        /\ UNCHANGED <<threadQueue, fault>>
    BY <1>10 DEF CleanerDelete
  <2> QED BY <1>1, <1>4, <2>2, <2>3 DEF InBlock
<1> QED BY <1>6, <1>7, <1>8, <1>9, <1>10, <1>11 DEF CleanerStep

\* block() keeps the wake-ups: the caller uses the one it had too many.
LEMMA BlockSwitchWake ==
  ASSUME TypeOK, TypeOK', HasTarget, WakeInv, NEW t \in Threads, BlockSwitch(t)
  PROVE  WakeInv'
<1>0. /\ currentThread = t /\ pc[t] = "blockLoop" /\ fault = "none"
      /\ UNCHANGED <<live, joinMap, threadQueue, deleted>>
  BY DEF BlockSwitch, Running
<1>1. CASE /\ fault' = "growing"
           /\ UNCHANGED <<currentThread, readyQueue, sleepList, live, joinMap, pc, target>>
  BY <1>0, <1>1 DEF WakeInv, TokenInv, AwakeInv, JoinInv, TargetInv, CleanerInv, Tokens, Due
<1>2. CASE /\ fault' = fault
           /\ \A v : /\ Tokens(v)' = Tokens(v) - (IF v = t THEN 1 ELSE 0)
                     /\ SleepCount(sleepList', v) <= SleepCount(sleepList, v)
           /\ \/ /\ currentThread' = t
                 /\ Goto(t, "run") /\ target' = [target EXCEPT ![t] = NoThread]
              \/ /\ currentThread' # t /\ currentThread' \in Threads
                 /\ SwitchTo(t, "blocked", currentThread')
  <2>1. \A v \in Threads :
          \/ v # t /\ pc'[v] = pc[v] /\ target'[v] = target[v]
          \/ v = t /\ pc'[v] = "blocked" /\ target'[v] = target[v]
          \/ v = currentThread' /\ pc'[v] = "run" /\ pc[v] = (IF v = t THEN "blockLoop" ELSE "blocked")
             /\ target'[v] = NoThread
    <3>1. CASE currentThread' = t /\ Goto(t, "run") /\ target' = [target EXCEPT ![t] = NoThread]
      BY <1>0, <3>1 DEF Goto, TypeOK
    <3>2. CASE currentThread' # t /\ currentThread' \in Threads /\ SwitchTo(t, "blocked", currentThread')
      BY <1>0, <3>2 DEF SwitchTo, TypeOK
    <3> QED BY <1>2, <3>1, <3>2
  <2>2. \A v \in Threads : /\ Due(v)' = Due(v) - (IF v = t THEN 1 ELSE 0)
                           /\ pc'[v] = "new" <=> pc[v] = "new"
    BY <1>0, <2>1 DEF Due
  <2>3. TokenInv'
    <3> SUFFICES ASSUME NEW v \in Threads
                 PROVE  /\ Tokens(v)' <= Due(v)'
                        /\ v \in live' => Tokens(v)' = Due(v)'
                        /\ pc'[v] = "new" => v \notin live' /\ Tokens(v)' = 0
      BY DEF TokenInv
    <3>1. /\ Tokens(v) \in Nat /\ Tokens(v) <= Due(v) /\ (v \in live => Tokens(v) = Due(v))
          /\ pc[v] = "new" => v \notin live /\ Tokens(v) = 0
      BY <1>0, TokensSum DEF WakeInv, TokenInv
    <3>2. Tokens(v)' = Tokens(v) - (IF v = t THEN 1 ELSE 0)
      BY <1>2
    <3>3. Due(v)' = Due(v) - (IF v = t THEN 1 ELSE 0)
      BY <2>2
    <3>4. Due(v) \in Nat
      BY DEF Due
    <3>5. CASE v = t
      <4>1. pc'[v] # "new"
        BY <1>0, <2>2, <3>5
      <4> QED BY <1>0, <3>1, <3>2, <3>3, <3>4, <3>5, <4>1
    <3>6. CASE v # t
      <4>1. Tokens(v)' = Tokens(v) /\ Due(v)' = Due(v)
        BY <3>1, <3>2, <3>3, <3>4, <3>6
      <4> QED BY <1>0, <2>2, <3>1, <4>1
    <3> QED BY <3>5, <3>6
  <2>4. AwakeInv'
    <3> SUFFICES ASSUME NEW v \in Threads, pc'[v] \notin InBlock
                 PROVE  SleepCount(sleepList', v) = 0 /\ JoinCount(joinMap', live', v) = 0
      BY DEF AwakeInv
    <3>1. CASE pc[v] \in InBlock
      <4>1. v = currentThread' /\ pc'[v] = "run"
        BY <2>1, <3>1 DEF InBlock
      <4>2. Tokens(v)' <= 1
        BY <2>3, <4>1 DEF TokenInv, Due
      <4> QED BY <4>1, <4>2, OnCpuIsAwake
    <3>2. CASE pc[v] \notin InBlock
      <4>1. SleepCount(sleepList, v) = 0 /\ JoinCount(joinMap, live, v) = 0
        BY <3>2 DEF WakeInv, AwakeInv
      <4>2. SleepCount(sleepList', v) <= 0 /\ SleepCount(sleepList', v) \in Nat
        BY <1>2, <4>1, TokensSumNext
      <4> QED BY <1>0, <4>1, <4>2
    <3> QED BY <3>1, <3>2
  <2>5. JoinInv'
    <3> SUFFICES ASSUME NEW v \in Threads, pc'[v] \in InBlock, target'[v] \in live
                 PROVE  Occurrences(joinMap[target'[v]], v) # 0
      BY <1>0 DEF JoinInv
    <3>1. pc[v] \in InBlock /\ target'[v] = target[v]
      BY <1>0, <2>1 DEF InBlock
    <3> QED BY <3>1 DEF WakeInv, JoinInv
  <2>6. TargetInv'
    <3> SUFFICES ASSUME NEW v \in Threads
                 PROVE  /\ pc'[v] \in {"new", "run", "sleepAdd", "alloc", "yield"} => target'[v] = NoThread
                        /\ target'[v] # NoThread => pc'[target'[v]] # "new"
      BY DEF TargetInv
    <3>1. pc'[v] \in {"new", "run", "sleepAdd", "alloc", "yield"} => target'[v] = NoThread
      BY <2>1 DEF WakeInv, TargetInv
    <3>2. target'[v] # NoThread => target'[v] = target[v] /\ target[v] \in Threads
      BY <2>1 DEF TypeOK
    <3>3. target'[v] # NoThread => pc'[target'[v]] # "new"
      BY <2>2, <3>2 DEF WakeInv, TargetInv
    <3> QED BY <3>1, <3>3
  <2>7. CleanerInv'
    <3>1. /\ \A i \in DOMAIN threadQueue : threadQueue[i] = NoThread \/ Gone(threadQueue[i])
          /\ \A v \in deleted : Gone(v)
      BY QueueIsGone
    <3>2. \A i \in DOMAIN threadQueue' : threadQueue'[i] = NoThread \/ (threadQueue'[i] \notin live' /\ pc'[threadQueue'[i]] # "new")
      BY <1>0, <2>2, <3>1 DEF Gone
    <3>3. \A v \in deleted' : v \notin live' /\ pc'[v] # "new"
      BY <1>0, <2>2, <3>1 DEF Gone
    <3>4. ASSUME pc'[Cleaner] \in {"look", "lookSleep", "scanSleep", "requeue", "addLoad", "addStore", "addSlot", "delete"}
          PROVE  target'[Cleaner] \notin live' /\ pc'[target'[Cleaner]] # "new"
      <4>1. pc[Cleaner] = pc'[Cleaner] /\ target'[Cleaner] = target[Cleaner]
        BY <2>1, <3>4, ThreadsAssumption
      <4>2. target[Cleaner] \notin live /\ pc[target[Cleaner]] # "new"
        BY <3>4, <4>1 DEF WakeInv, CleanerInv
      <4>3. target[Cleaner] \in Threads
        BY <3>4, <4>1, ThreadsAssumption DEF HasTarget
      <4> QED BY <1>0, <2>2, <4>1, <4>2, <4>3
    <3> QED BY <3>2, <3>3, <3>4 DEF CleanerInv
  <2> QED BY <2>3, <2>4, <2>5, <2>6, <2>7 DEF WakeInv
<1> QED BY <1>1, <1>2, BlockSwitchTokens

\* A thread that has entered itself into a list is in block() with one wake-up
\* more than before.
LEMMA EnterBlock ==
  ASSUME TypeOK, TypeOK', WakeInv, NEW t \in Threads, Goto(t, "block"), pc[t] \notin InBlock \cup {"new"},
         \A v : Tokens(v)' = Tokens(v) + (IF v = t THEN 1 ELSE 0),
         UNCHANGED <<live, fault>>
  PROVE  TokenInv'
<1> SUFFICES ASSUME NEW v \in Threads
             PROVE  /\ Tokens(v)' <= Due(v)'
                    /\ v \in live' /\ fault' # "exception" => Tokens(v)' = Due(v)'
                    /\ pc'[v] = "new" => v \notin live' /\ Tokens(v)' = 0
  BY DEF TokenInv
<1>1. /\ Tokens(v) \in Nat /\ Tokens(v) <= Due(v)
      /\ v \in live /\ fault # "exception" => Tokens(v) = Due(v)
      /\ pc[v] = "new" => v \notin live /\ Tokens(v) = 0
  BY TokensSum DEF WakeInv, TokenInv
<1>2. Tokens(v)' = Tokens(v) + (IF v = t THEN 1 ELSE 0)
  OBVIOUS
<1>3. CASE v = t
  <2>1. Due(v) = 1 /\ Due(v)' = 2 /\ pc'[v] # "new"
    BY <1>3 DEF Due, Goto, InBlock, TypeOK
  <2> QED BY <1>1, <1>2, <1>3, <2>1
<1>4. CASE v # t
  <2>1. Due(v)' = Due(v) /\ pc'[v] = pc[v]
    BY <1>4 DEF Due, Goto, TypeOK
  <2>2. Tokens(v)' = Tokens(v)
    BY <1>1, <1>2, <1>4
  <2> QED BY <1>1, <2>1, <2>2
<1> QED BY <1>3, <1>4

\* sleep() enters the caller into the sleep list.
LEMMA SleepAddTokens ==
  ASSUME TypeOK, TypeOK', NEW t \in Threads, SleepAdd(t)
  PROVE  \A v : /\ SleepCount(sleepList', v) = SleepCount(sleepList, v) + (IF t = v THEN 1 ELSE 0)
               /\ Tokens(v)' = Tokens(v) + (IF v = t THEN 1 ELSE 0)
<1>0. UNCHANGED <<currentThread, readyQueue, live, joinMap>>
  BY DEF SleepAdd
<1>1. PICK d \in (IF t = Cleaner THEN {CleanerPeriod} ELSE Durations) :
        sleepList' = Append(sleepList, [thread |-> t, left |-> d])
  BY DEF SleepAdd
<1> DEFINE e == [thread |-> t, left |-> d]
<1>2. e \in Entries /\ e.thread = t
  BY WorkloadAssumption DEF Entries
<1>3. sleepList \in Seq(Entries)
  BY DEF TypeOK
<1> HIDE DEF e
<1>4. \A v : SleepCount(sleepList', v) = SleepCount(sleepList, v) + (IF t = v THEN 1 ELSE 0)
  BY <1>1, <1>2, <1>3, SleepCountAppend DEF e
<1>5. ASSUME NEW v PROVE Tokens(v)' = Tokens(v) + (IF v = t THEN 1 ELSE 0)
  <2>1. /\ Tokens(v) = Occurrences(readyQueue, v) + SleepCount(sleepList, v)
                          + JoinCount(joinMap, live, v) + (IF v = currentThread THEN 1 ELSE 0)
        /\ Occurrences(readyQueue, v) \in Nat /\ SleepCount(sleepList, v) \in Nat
        /\ JoinCount(joinMap, live, v) \in Nat
    BY TokensSum
  <2>2. Tokens(v)' = Occurrences(readyQueue, v) + SleepCount(sleepList', v)
                          + JoinCount(joinMap, live, v) + (IF v = currentThread THEN 1 ELSE 0)
    BY <1>0, TokensSumNext
  <2> QED BY <1>4, <2>1, <2>2
<1> QED BY <1>4, <1>5

\* That is its wake-up: it goes on to block().
LEMMA SleepAddWake ==
  ASSUME TypeOK, TypeOK', HasTarget, WakeInv, NEW t \in Threads, SleepAdd(t)
  PROVE  WakeInv'
<1>0. /\ pc[t] = "sleepAdd" /\ Goto(t, "block") /\ target[t] = NoThread
      /\ UNCHANGED <<currentThread, readyQueue, live, joinMap, threadQueue, deleted, target, fault>>
  BY DEF SleepAdd, Running, WakeInv, TargetInv
<1>4. \A v : SleepCount(sleepList', v) = SleepCount(sleepList, v) + (IF t = v THEN 1 ELSE 0)
  BY SleepAddTokens
<1>5. \A v : Tokens(v)' = Tokens(v) + (IF v = t THEN 1 ELSE 0)
  BY SleepAddTokens
<1>6. pc[t] \notin InBlock \cup {"new"}
  BY <1>0 DEF InBlock
<1>7. TokenInv'
  BY <1>0, <1>5, <1>6, EnterBlock
<1>8. AwakeInv'
  <2> SUFFICES ASSUME NEW v \in Threads, pc'[v] \notin InBlock
               PROVE  SleepCount(sleepList', v) = 0 /\ JoinCount(joinMap', live', v) = 0
    BY DEF AwakeInv
  <2>1. v # t /\ pc[v] \notin InBlock
    BY <1>0 DEF Goto, InBlock, TypeOK
  <2>2. SleepCount(sleepList, v) = 0 /\ JoinCount(joinMap, live, v) = 0
    BY <2>1 DEF WakeInv, AwakeInv
  <2> QED BY <1>0, <1>4, <2>1, <2>2
<1>9. JoinInv'
  <2>1. NoThread \notin live
    BY ThreadsAssumption DEF TypeOK
  <2> QED BY <1>0, <2>1 DEF WakeInv, JoinInv, Goto, TypeOK
<1>10. target' = [target EXCEPT ![t] = NoThread]
  BY <1>0 DEF TypeOK
<1>11. TargetInv' /\ CleanerInv'
  BY <1>0, <1>10, CallKeepsQueue
<1> QED BY <1>7, <1>8, <1>9, <1>11 DEF WakeInv

\* join() enters the caller t into the join list of u.
Joins(t, u) ==
  /\ joinMap' = [joinMap EXCEPT ![u] = Append(joinMap[u], t)]
  /\ UNCHANGED <<currentThread, readyQueue, sleepList, live>>

\* That adds one place, in one join list.
LEMMA JoinAddTokens ==
  ASSUME TypeOK, TypeOK', NEW t \in Threads, NEW u \in live, Joins(t, u)
  PROVE  /\ joinMap'[u] = Append(joinMap[u], t) /\ \A v \in Threads \ {u} : joinMap'[v] = joinMap[v]
         /\ \A v : Occurrences(joinMap'[u], v) = Occurrences(joinMap[u], v) + (IF t = v THEN 1 ELSE 0)
         /\ \A v : JoinCount(joinMap', live, v) = JoinCount(joinMap, live, v) + (IF t = v THEN 1 ELSE 0)
         /\ \A v : Tokens(v)' = Tokens(v) + (IF v = t THEN 1 ELSE 0)
<1>0. UNCHANGED <<currentThread, readyQueue, sleepList, live>>
  BY DEF Joins
<1>2. u \in Threads /\ joinMap[u] \in Seq(Threads) /\ joinMap \in [Threads -> Seq(Threads)]
      /\ live \in SUBSET Threads /\ joinMap' \in [Threads -> Seq(Threads)]
  BY DEF TypeOK
<1>3. joinMap'[u] = Append(joinMap[u], t) /\ \A v \in Threads \ {u} : joinMap'[v] = joinMap[v]
  BY <1>2 DEF Joins
<1>4. \A v : Occurrences(joinMap'[u], v) = Occurrences(joinMap[u], v) + (IF t = v THEN 1 ELSE 0)
  BY <1>2, <1>3, OccurrencesAppend
<1>5. ASSUME NEW v
      PROVE  JoinCount(joinMap', live, v) = JoinCount(joinMap, live, v) + (IF t = v THEN 1 ELSE 0)
  <2>1. /\ JoinCount(joinMap, live \ {u}, v) \in Nat
        /\ JoinCount(joinMap, live, v) = JoinCount(joinMap, live \ {u}, v) + Occurrences(joinMap[u], v)
    BY <1>2, JoinCountSplit
  <2>2. JoinCount(joinMap', live, v) = JoinCount(joinMap', live \ {u}, v) + Occurrences(joinMap'[u], v)
    BY <1>2, JoinCountSplit
  <2>3. \A w \in live \ {u} : joinMap'[w] = joinMap[w]
    BY <1>2, <1>3
  <2>4. JoinCount(joinMap', live \ {u}, v) = JoinCount(joinMap, live \ {u}, v)
    BY <2>3, JoinCountSame
  <2>5. Occurrences(joinMap[u], v) \in Nat
    BY <1>2, OccurrencesType
  <2> QED BY <1>4, <2>1, <2>2, <2>4, <2>5
<1>6. ASSUME NEW v PROVE Tokens(v)' = Tokens(v) + (IF v = t THEN 1 ELSE 0)
  <2>1. /\ Tokens(v) = Occurrences(readyQueue, v) + SleepCount(sleepList, v)
                          + JoinCount(joinMap, live, v) + (IF v = currentThread THEN 1 ELSE 0)
        /\ Occurrences(readyQueue, v) \in Nat /\ SleepCount(sleepList, v) \in Nat
        /\ JoinCount(joinMap, live, v) \in Nat
    BY TokensSum
  <2>2. Tokens(v)' = Occurrences(readyQueue, v) + SleepCount(sleepList, v)
                          + JoinCount(joinMap', live, v) + (IF v = currentThread THEN 1 ELSE 0)
    BY <1>0, TokensSumNext
  <2> QED BY <1>5, <2>1, <2>2
<1> QED BY <1>3, <1>4, <1>5, <1>6

\* join() enters the caller into the join list of a live thread, or returns.
LEMMA JoinAddWake ==
  ASSUME TypeOK, TypeOK', HasTarget, WakeInv, NEW t \in Threads, JoinAdd(t)
  PROVE  WakeInv'
<1>0. /\ pc[t] = "joinAdd"
      /\ UNCHANGED <<currentThread, readyQueue, sleepList, live, threadQueue, deleted, fault>>
  BY DEF JoinAdd, Running
<1>1. PICK u \in JoinId(target[t]) :
        IF u \in live
        THEN /\ joinMap' = [joinMap EXCEPT ![u] = Append(@, t)]
             /\ joinLock' = NoThread
             /\ Goto(t, "block")
             /\ UNCHANGED target
        ELSE /\ Goto(t, "run")
             /\ target' = [target EXCEPT ![t] = NoThread]
             /\ UNCHANGED <<joinMap, joinLock>>
  BY DEF JoinAdd
<1>2. CASE u \notin live
  <2>1. Goto(t, "run") /\ target' = [target EXCEPT ![t] = NoThread] /\ UNCHANGED joinMap
    BY <1>1, <1>2
  <2>2. pc[t] \notin InBlock \cup {"new"} /\ "run" \notin InBlock \cup {"new"}
    BY <1>0 DEF InBlock
  <2>3. \A v \in Threads \ {t} : target'[v] = target[v]
    BY <2>1 DEF TypeOK
  <2>4. TokenInv' /\ AwakeInv' /\ JoinInv'
    BY <1>0, <2>1, <2>2, <2>3, LabelWake
  <2>5. TargetInv' /\ CleanerInv'
    BY <1>0, <2>1, CallKeepsQueue
  <2> QED BY <2>4, <2>5 DEF WakeInv
<1>3. CASE u \in live
  <2>1. joinMap' = [joinMap EXCEPT ![u] = Append(joinMap[u], t)] /\ Goto(t, "block") /\ UNCHANGED target
    BY <1>1, <1>3
  <2>2. u \in Threads /\ joinMap[u] \in Seq(Threads) /\ joinMap \in [Threads -> Seq(Threads)]
        /\ live \in SUBSET Threads /\ joinMap' \in [Threads -> Seq(Threads)]
    BY <1>3 DEF TypeOK
  <2>0. Joins(t, u)
    BY <1>0, <2>1 DEF Joins
  <2>3. joinMap'[u] = Append(joinMap[u], t) /\ \A v \in Threads \ {u} : joinMap'[v] = joinMap[v]
    BY <1>3, <2>0, JoinAddTokens
  <2>4. \A v : Occurrences(joinMap'[u], v) = Occurrences(joinMap[u], v) + (IF t = v THEN 1 ELSE 0)
    BY <1>3, <2>0, JoinAddTokens
  <2>5. \A v : JoinCount(joinMap', live, v) = JoinCount(joinMap, live, v) + (IF t = v THEN 1 ELSE 0)
    BY <1>3, <2>0, JoinAddTokens
  <2>6. \A v : Tokens(v)' = Tokens(v) + (IF v = t THEN 1 ELSE 0)
    BY <1>3, <2>0, JoinAddTokens
  <2>7. pc[t] \notin InBlock \cup {"new"}
    BY <1>0 DEF InBlock
  <2>8. TokenInv'
    BY <1>0, <2>1, <2>6, <2>7, EnterBlock
  <2>9. AwakeInv'
    <3> SUFFICES ASSUME NEW v \in Threads, pc'[v] \notin InBlock
                 PROVE  SleepCount(sleepList', v) = 0 /\ JoinCount(joinMap', live', v) = 0
      BY DEF AwakeInv
    <3>1. v # t /\ pc[v] \notin InBlock
      BY <2>1 DEF Goto, InBlock, TypeOK
    <3>2. SleepCount(sleepList, v) = 0 /\ JoinCount(joinMap, live, v) = 0
      BY <3>1 DEF WakeInv, AwakeInv
    <3>3. JoinCount(joinMap', live, v) = JoinCount(joinMap, live, v) + (IF t = v THEN 1 ELSE 0)
      BY <2>5
    <3> QED BY <1>0, <3>1, <3>2, <3>3
  <2>10. JoinInv'
    <3> SUFFICES ASSUME NEW v \in Threads, pc'[v] \in InBlock, target[v] \in live
                 PROVE  Occurrences(joinMap'[target[v]], v) # 0
      BY <1>0, <2>1 DEF JoinInv
    <3>0. target[v] \in Threads /\ Occurrences(joinMap[u], v) \in Nat
      BY <2>2, OccurrencesType
    <3>1. CASE v = t
      <4>1. target[t] \notin deleted
        BY <3>1 DEF WakeInv, CleanerInv
      <4>2. u = target[t]
        BY <4>1 DEF JoinId
      <4> QED BY <2>4, <3>0, <3>1, <4>2
    <3>2. CASE v # t
      <4>1. pc[v] \in InBlock
        BY <2>1, <3>2 DEF Goto, TypeOK
      <4>2. Occurrences(joinMap[target[v]], v) # 0
        BY <4>1 DEF WakeInv, JoinInv
      <4>3. CASE target[v] = u
        BY <2>4, <3>0, <3>2, <4>2, <4>3
      <4>4. CASE target[v] # u
        BY <2>3, <3>0, <4>2, <4>4
      <4> QED BY <4>3, <4>4
    <3> QED BY <3>1, <3>2
  <2>11. target' = [target EXCEPT ![t] = target[t]]
    BY <2>1 DEF TypeOK
  <2>12. target[t] = NoThread \/ (target[t] \in Threads /\ pc[target[t]] # "new")
    BY DEF TypeOK, WakeInv, TargetInv
  <2>13. TargetInv' /\ CleanerInv'
    BY <1>0, <2>1, <2>11, <2>12, CallKeepsQueue
  <2> QED BY <2>8, <2>9, <2>10, <2>13 DEF WakeInv
<1> QED BY <1>2, <1>3

\* The joiners of a terminated thread: out of its join list, into the ready queue.
LEMMA TerminateCount ==
  ASSUME TypeOK, NEW u \in live, NEW v
  PROVE  /\ readyQueue \o joinMap[u] \in Seq(Threads)
         /\ Occurrences(readyQueue \o joinMap[u], v) \in Nat
         /\ JoinCount([joinMap EXCEPT ![u] = <<>>], live \ {u}, v) \in Nat
         /\ JoinCount([joinMap EXCEPT ![u] = <<>>], live \ {u}, v) <= JoinCount(joinMap, live, v)
         /\ Occurrences(readyQueue \o joinMap[u], v)
              + JoinCount([joinMap EXCEPT ![u] = <<>>], live \ {u}, v)
              = Occurrences(readyQueue, v) + JoinCount(joinMap, live, v)
<1> DEFINE jm == [joinMap EXCEPT ![u] = <<>>]
           wait == joinMap[u]
<1>1. /\ readyQueue \in Seq(Threads) /\ wait \in Seq(Threads) /\ joinMap \in [Threads -> Seq(Threads)]
      /\ live \in SUBSET Threads
  BY DEF TypeOK
<1>2. \A w \in live \ {u} : jm[w] = joinMap[w]
  BY <1>1
<1>3. /\ JoinCount(joinMap, live \ {u}, v) \in Nat
      /\ JoinCount(joinMap, live, v) = JoinCount(joinMap, live \ {u}, v) + Occurrences(wait, v)
  BY <1>1, JoinCountSplit
<1> HIDE DEF jm, wait
<1>4. JoinCount(jm, live \ {u}, v) = JoinCount(joinMap, live \ {u}, v)
  BY <1>2, JoinCountSame
<1>5. /\ readyQueue \o wait \in Seq(Threads)
      /\ Occurrences(readyQueue \o wait, v) = Occurrences(readyQueue, v) + Occurrences(wait, v)
  BY <1>1, OccurrencesConcat
<1>6. Occurrences(readyQueue, v) \in Nat /\ Occurrences(wait, v) \in Nat
  BY <1>1, OccurrencesType
<1>7. /\ Occurrences(readyQueue \o wait, v) \in Nat
      /\ JoinCount(jm, live \ {u}, v) \in Nat
      /\ JoinCount(jm, live \ {u}, v) <= JoinCount(joinMap, live, v)
      /\ Occurrences(readyQueue \o wait, v) + JoinCount(jm, live \ {u}, v)
           = Occurrences(readyQueue, v) + JoinCount(joinMap, live, v)
  BY <1>3, <1>4, <1>5, <1>6
<1> QED BY <1>5, <1>7 DEF jm, wait

\* exit() and kill(): u leaves, thread t continues at label l.
LEMMA TerminateWake ==
  ASSUME TypeOK, TypeOK', HasTarget, WakeInv, NEW t \in Threads, NEW u \in live, NEW l,
         l = "run" \/ (l = "block" /\ u = t),
         Goto(t, l), pc[t] \notin InBlock \cup {"new"},
         target' = [target EXCEPT ![t] = NoThread],
         live' = live \ {u}, joinMap' = [joinMap EXCEPT ![u] = <<>>],
         threadQueue' = [threadQueue EXCEPT ![After(ring.tail)] = u], UNCHANGED <<deleted, fault>>,
         \A v : Tokens(v)' <= Tokens(v) /\ (v # u => Tokens(v)' = Tokens(v)),
         \A v : SleepCount(sleepList', v) <= SleepCount(sleepList, v)
  PROVE  WakeInv'
<1>1. u \in Threads /\ NoThread \notin live /\ pc[u] # "new"
  BY ThreadsAssumption DEF TypeOK, WakeInv, TokenInv
<1>2. \A v \in Threads : /\ v # t => Due(v)' = Due(v)
                         /\ pc'[v] = "new" <=> pc[v] = "new"
                         /\ v # t => pc'[v] = pc[v] /\ target'[v] = target[v]
                         /\ v = t => Due(v) = 1 /\ pc'[v] = l /\ target'[v] = NoThread
                         /\ v = t => Due(v)' = (IF l = "run" THEN 1 ELSE 2)
  BY DEF Due, InBlock, Goto, TypeOK
<1>3. TokenInv'
  <2> SUFFICES ASSUME NEW v \in Threads
               PROVE  /\ Tokens(v)' <= Due(v)'
                      /\ v \in live' /\ fault' # "exception" => Tokens(v)' = Due(v)'
                      /\ pc'[v] = "new" => v \notin live' /\ Tokens(v)' = 0
    BY DEF TokenInv
  <2>1. /\ Tokens(v) \in Nat /\ Tokens(v) <= Due(v)
        /\ v \in live /\ fault # "exception" => Tokens(v) = Due(v)
        /\ pc[v] = "new" => v \notin live /\ Tokens(v) = 0
    BY TokensSum DEF WakeInv, TokenInv
  <2>2. Tokens(v)' <= Tokens(v) /\ (v # u => Tokens(v)' = Tokens(v)) /\ Tokens(v)' \in Nat
    BY TokensSumNext
  <2>3. CASE v = t
    BY <1>2, <2>1, <2>2, <2>3
  <2>4. CASE v # t
    <3>1. Due(v)' = Due(v) /\ Due(v) \in Nat
      BY <1>2, <2>4 DEF Due
    <3> QED BY <1>2, <2>1, <2>2, <2>4, <3>1
  <2> QED BY <2>3, <2>4
<1>4. AwakeInv'
  <2> SUFFICES ASSUME NEW v \in Threads, pc'[v] \notin InBlock
               PROVE  SleepCount(sleepList', v) = 0 /\ JoinCount(joinMap', live', v) = 0
    BY DEF AwakeInv
  <2>1. pc[v] \notin InBlock
    BY <1>2
  <2>2. SleepCount(sleepList, v) = 0 /\ JoinCount(joinMap, live, v) = 0
    BY <2>1 DEF WakeInv, AwakeInv
  <2>3. SleepCount(sleepList', v) <= 0 /\ JoinCount(joinMap', live', v) <= 0
    BY <2>2, TerminateCount
  <2>4. SleepCount(sleepList', v) \in Nat /\ JoinCount(joinMap', live', v) \in Nat
    BY TokensSumNext
  <2> QED BY <2>3, <2>4
<1>5. JoinInv'
  <2> SUFFICES ASSUME NEW v \in Threads, pc'[v] \in InBlock, target'[v] \in live \ {u}
               PROVE  Occurrences(joinMap'[target'[v]], v) # 0
    BY DEF JoinInv
  <2>1. v # t
    BY <1>1, <1>2
  <2>2. pc[v] \in InBlock /\ target'[v] = target[v]
    BY <1>2, <2>1
  <2>3. joinMap'[target[v]] = joinMap[target[v]]
    BY <2>2 DEF TypeOK
  <2> QED BY <2>2, <2>3 DEF WakeInv, JoinInv
<1>6. \A i \in DOMAIN threadQueue' :
        threadQueue'[i] = NoThread \/ (threadQueue'[i] \in Threads /\ threadQueue'[i] \notin live' /\ pc[threadQueue'[i]] # "new")
  <2>1. \A i \in DOMAIN threadQueue : threadQueue[i] = NoThread \/ Gone(threadQueue[i])
    BY QueueIsGone
  <2> QED BY <1>1, <2>1 DEF Gone, TypeOK
<1>7. TargetInv' /\ CleanerInv'
  <2>1. \A v \in deleted' : Gone(v)
    BY QueueIsGone
  <2>2. live' \subseteq live
    OBVIOUS
  <2>3. pc[t] # "new" /\ l # "new"
    OBVIOUS
  <2>4. l \notin {"look", "lookSleep", "scanSleep", "requeue", "addLoad", "addStore", "addSlot", "delete"}
    OBVIOUS
  <2> QED BY <1>6, <2>1, <2>2, <2>3, <2>4, CallKeeps
<1> QED BY <1>3, <1>4, <1>5, <1>7 DEF WakeInv

\* exit() moves the joiners' wake-ups from the join list to the ready queue.
LEMMA ExitTokens ==
  ASSUME TypeOK, TypeOK', NEW t \in live, Terminate(t, readyQueue \o joinMap[t]),
         UNCHANGED <<currentThread, sleepList>>
  PROVE  \A v : /\ Tokens(v)' = Tokens(v)
               /\ JoinCount(joinMap', live', v) <= JoinCount(joinMap, live, v)
<1> SUFFICES ASSUME NEW v
             PROVE  Tokens(v)' = Tokens(v) /\ JoinCount(joinMap', live', v) <= JoinCount(joinMap, live, v)
  OBVIOUS
<1>1. /\ readyQueue' = readyQueue \o joinMap[t]
      /\ live' = live \ {t} /\ joinMap' = [joinMap EXCEPT ![t] = <<>>]
  BY DEF Terminate
<1>2. /\ Tokens(v) = Occurrences(readyQueue, v) + SleepCount(sleepList, v)
                        + JoinCount(joinMap, live, v) + (IF v = currentThread THEN 1 ELSE 0)
      /\ Occurrences(readyQueue, v) \in Nat /\ SleepCount(sleepList, v) \in Nat
      /\ JoinCount(joinMap, live, v) \in Nat
  BY TokensSum
<1>3. /\ Tokens(v)' = Occurrences(readyQueue', v) + SleepCount(sleepList, v)
                        + JoinCount(joinMap', live', v) + (IF v = currentThread THEN 1 ELSE 0)
      /\ Occurrences(readyQueue', v) \in Nat /\ JoinCount(joinMap', live', v) \in Nat
  BY TokensSumNext
<1>4. /\ Occurrences(readyQueue', v) + JoinCount(joinMap', live', v)
           = Occurrences(readyQueue, v) + JoinCount(joinMap, live, v)
      /\ JoinCount(joinMap', live', v) <= JoinCount(joinMap, live, v)
  BY <1>1, TerminateCount
<1> QED BY <1>2, <1>3, <1>4

\* exit() keeps the wake-ups: the joiners get theirs from the join list.
LEMMA ExitWake ==
  ASSUME TypeOK, TypeOK', HasTarget, WakeInv, NEW t \in Threads, Exit(t)
  PROVE  WakeInv'
<1>0. pc[t] = "run" /\ target[t] = NoThread /\ UNCHANGED <<currentThread, sleepList, deleted, target>>
  BY DEF Exit, Running, WakeInv, TargetInv
<1>1. CASE /\ t \in live /\ Terminate(t, readyQueue \o joinMap[t]) /\ Goto(t, "block")
           /\ UNCHANGED fault
  <2>1. /\ readyQueue' = readyQueue \o joinMap[t]
        /\ live' = live \ {t} /\ joinMap' = [joinMap EXCEPT ![t] = <<>>]
        /\ threadQueue' = [threadQueue EXCEPT ![After(ring.tail)] = t]
    BY <1>1 DEF Terminate
  <2>2. \A v : Tokens(v)' = Tokens(v)
    BY <1>0, <1>1, ExitTokens
  <2>3. \A v : Tokens(v)' <= Tokens(v) /\ (v # t => Tokens(v)' = Tokens(v))
    BY <2>2, TokensSum
  <2>4. \A v : SleepCount(sleepList', v) <= SleepCount(sleepList, v)
    BY <1>0, TokensSum
  <2>5. target' = [target EXCEPT ![t] = NoThread]
    BY <1>0 DEF TypeOK
  <2>6. pc[t] \notin InBlock \cup {"new"}
    BY <1>0 DEF InBlock
  <2> QED BY <1>0, <1>1, <2>1, <2>3, <2>4, <2>5, <2>6, TerminateWake
<1>2. CASE /\ fault' = "exception"
           /\ UNCHANGED <<readyQueue, live, joinMap, threadQueue, pc>>
  BY <1>0, <1>2 DEF WakeInv, TokenInv, AwakeInv, JoinInv, TargetInv, CleanerInv, Tokens, Due
<1> QED BY <1>1, <1>2 DEF Exit, Halt

\* kill() takes wake-ups from nobody but its victim.
LEMMA KillRemoveWake ==
  ASSUME TypeOK, TypeOK', HasTarget, WakeInv, NEW t \in Threads, KillRemove(t)
  PROVE  WakeInv'
<1> DEFINE u == target[t]
<1>0. /\ pc[t] = "killRemove" /\ UNCHANGED <<currentThread, deleted>>
      /\ sleepList' = RemoveSleeper(sleepList, u)
  BY DEF KillRemove, Running
<1>1. sleepList \in Seq(Entries)
  BY DEF TypeOK
<1>2. \A v : /\ SleepCount(sleepList', v) <= SleepCount(sleepList, v)
             /\ v # u => SleepCount(sleepList', v) = SleepCount(sleepList, v)
  <2> SUFFICES ASSUME NEW v
               PROVE  /\ SleepCount(sleepList', v) <= SleepCount(sleepList, v)
                      /\ v # u => SleepCount(sleepList', v) = SleepCount(sleepList, v)
    OBVIOUS
  <2>1. SleepCount(sleepList, v) \in Nat
    BY TokensSum
  <2>2. SleepCount(sleepList', v) =
          SleepCount(sleepList, v) - (IF v = u /\ SleepCount(sleepList, u) # 0 THEN 1 ELSE 0)
    BY <1>0, <1>1, RemoveSleeperCount
  <2> QED BY <2>1, <2>2
<1>3. CASE /\ u \in live /\ Terminate(u, RemoveThread(readyQueue \o joinMap[u], u))
           /\ target' = [target EXCEPT ![t] = NoThread] /\ Goto(t, "run") /\ UNCHANGED fault
  <2> DEFINE q == readyQueue \o joinMap[u]
  <2>1. /\ readyQueue' = RemoveThread(q, u)
        /\ live' = live \ {u} /\ joinMap' = [joinMap EXCEPT ![u] = <<>>]
        /\ threadQueue' = [threadQueue EXCEPT ![After(ring.tail)] = u]
    BY <1>3 DEF Terminate
  <2>2. ASSUME NEW v PROVE Tokens(v)' <= Tokens(v) /\ (v # u => Tokens(v)' = Tokens(v))
    <3>1. /\ Tokens(v) = Occurrences(readyQueue, v) + SleepCount(sleepList, v)
                            + JoinCount(joinMap, live, v) + (IF v = currentThread THEN 1 ELSE 0)
          /\ Occurrences(readyQueue, v) \in Nat /\ SleepCount(sleepList, v) \in Nat
          /\ JoinCount(joinMap, live, v) \in Nat
      BY TokensSum
    <3>2. /\ Tokens(v)' = Occurrences(readyQueue', v) + SleepCount(sleepList', v)
                            + JoinCount(joinMap', live', v) + (IF v = currentThread THEN 1 ELSE 0)
          /\ Occurrences(readyQueue', v) \in Nat /\ JoinCount(joinMap', live', v) \in Nat
          /\ SleepCount(sleepList', v) \in Nat
      BY <1>0, TokensSumNext
    <3>3. /\ q \in Seq(Threads) /\ Occurrences(q, v) \in Nat
          /\ Occurrences(q, v) + JoinCount(joinMap', live', v)
               = Occurrences(readyQueue, v) + JoinCount(joinMap, live, v)
      BY <1>3, <2>1, TerminateCount
    <3> HIDE DEF q
    <3>4. Occurrences(readyQueue', v) = Occurrences(q, v) - (IF v = u /\ InSeq(q, u) THEN 1 ELSE 0)
      BY <2>1, <3>3, RemoveThreadCount
    <3>5. /\ SleepCount(sleepList', v) <= SleepCount(sleepList, v)
          /\ v # u => SleepCount(sleepList', v) = SleepCount(sleepList, v)
      BY <1>2
    <3> DEFINE ro == Occurrences(readyQueue, v)
               rn == Occurrences(readyQueue', v)
               so == SleepCount(sleepList, v)
               sn == SleepCount(sleepList', v)
               jo == JoinCount(joinMap, live, v)
               jn == JoinCount(joinMap', live', v)
               n == Occurrences(q, v)
               c == IF v = currentThread THEN 1 ELSE 0
    <3>6. /\ ro \in Nat /\ rn \in Nat /\ so \in Nat /\ sn \in Nat /\ jo \in Nat /\ jn \in Nat /\ n \in Nat
          /\ c \in Nat
      BY <3>1, <3>2, <3>3
    <3>7. /\ Tokens(v) = ro + so + jo + c /\ Tokens(v)' = rn + sn + jn + c
          /\ n + jn = ro + jo /\ sn <= so
      BY <3>1, <3>2, <3>3, <3>5
    <3>8. rn <= n /\ (v # u => rn = n)
      BY <3>4, <3>6
    <3>9. v # u => sn = so
      BY <3>5
    <3> HIDE DEF ro, rn, so, sn, jo, jn, n, c, u
    <3> QED BY <3>6, <3>7, <3>8, <3>9
  <2>3. \A v : SleepCount(sleepList', v) <= SleepCount(sleepList, v)
    BY <1>2
  <2>4. pc[t] \notin InBlock \cup {"new"}
    BY <1>0 DEF InBlock
  <2> QED BY <1>0, <1>3, <2>1, <2>2, <2>3, <2>4, TerminateWake
<1>4. CASE /\ fault' = "exception"
           /\ UNCHANGED <<readyQueue, live, joinMap, threadQueue, pc, target>>
  <2>1. ASSUME NEW v PROVE Tokens(v)' <= Tokens(v) /\ Tokens(v) \in Nat /\ Tokens(v)' \in Nat
    <3>1. /\ Tokens(v) = Occurrences(readyQueue, v) + SleepCount(sleepList, v)
                            + JoinCount(joinMap, live, v) + (IF v = currentThread THEN 1 ELSE 0)
          /\ Occurrences(readyQueue, v) \in Nat /\ SleepCount(sleepList, v) \in Nat
          /\ JoinCount(joinMap, live, v) \in Nat /\ Tokens(v) \in Nat
      BY TokensSum
    <3>2. /\ Tokens(v)' = Occurrences(readyQueue, v) + SleepCount(sleepList', v)
                            + JoinCount(joinMap, live, v) + (IF v = currentThread THEN 1 ELSE 0)
          /\ SleepCount(sleepList', v) \in Nat /\ Tokens(v)' \in Nat
      BY <1>0, <1>4, TokensSumNext
    <3>3. SleepCount(sleepList', v) <= SleepCount(sleepList, v)
      BY <1>2
    <3> QED BY <3>1, <3>2, <3>3
  <2>2. TokenInv'
    <3> SUFFICES ASSUME NEW v \in Threads
                 PROVE  /\ Tokens(v)' <= Due(v)'
                        /\ pc'[v] = "new" => v \notin live' /\ Tokens(v)' = 0
      BY <1>4 DEF TokenInv
    <3>1. Due(v)' = Due(v) /\ Due(v) \in Nat
      BY <1>4 DEF Due
    <3>2. Tokens(v) <= Due(v) /\ (pc[v] = "new" => v \notin live /\ Tokens(v) = 0)
      BY DEF WakeInv, TokenInv
    <3> QED BY <1>4, <2>1, <3>1, <3>2
  <2>3. AwakeInv'
    <3> SUFFICES ASSUME NEW v \in Threads, pc'[v] \notin InBlock
                 PROVE  SleepCount(sleepList', v) = 0 /\ JoinCount(joinMap', live', v) = 0
      BY DEF AwakeInv
    <3>1. SleepCount(sleepList, v) = 0 /\ JoinCount(joinMap, live, v) = 0
      BY <1>4 DEF WakeInv, AwakeInv
    <3>2. SleepCount(sleepList', v) <= 0 /\ SleepCount(sleepList', v) \in Nat
      BY <1>2, <3>1, TokensSumNext
    <3> QED BY <1>4, <3>1, <3>2
  <2> QED BY <1>0, <1>4, <2>2, <2>3 DEF WakeInv, JoinInv, TargetInv, CleanerInv
<1> QED BY <1>3, <1>4 DEF KillRemove, Halt

\* ready() gives a new thread an empty join list and its first wake-up.
LEMMA ReadyTokens ==
  ASSUME TypeOK, TypeOK', NEW t \in Threads, NEW u \in Threads, u \notin live, Ready(t, u)
  PROVE  /\ joinMap'[u] = <<>> /\ \A w \in Threads \ {u} : joinMap'[w] = joinMap[w]
         /\ \A v : JoinCount(joinMap', live', v) = JoinCount(joinMap, live, v)
         /\ \A v : Tokens(v)' = Tokens(v) + (IF v = u THEN 1 ELSE 0)
<1>0. /\ readyQueue' = Append(readyQueue, u)
      /\ live' = live \cup {u}
      /\ joinMap' = [joinMap EXCEPT ![u] = <<>>]
      /\ UNCHANGED <<currentThread, sleepList>>
  BY DEF Ready
<1>2. /\ joinMap \in [Threads -> Seq(Threads)] /\ live \in SUBSET Threads
      /\ readyQueue \in Seq(Threads) /\ joinMap' \in [Threads -> Seq(Threads)] /\ live' \in SUBSET Threads
  BY DEF TypeOK
<1>3. joinMap'[u] = <<>> /\ \A w \in Threads \ {u} : joinMap'[w] = joinMap[w]
  BY <1>0, <1>2
<1>4. ASSUME NEW v PROVE JoinCount(joinMap', live', v) = JoinCount(joinMap, live, v)
  <2>1. u \in live' /\ live' \ {u} = live
    BY <1>0
  <2>2. /\ JoinCount(joinMap', live', v) = JoinCount(joinMap', live, v) + Occurrences(joinMap'[u], v)
        /\ JoinCount(joinMap', live, v) \in Nat
    <3>1. /\ JoinCount(joinMap', live', v) = JoinCount(joinMap', live' \ {u}, v) + Occurrences(joinMap'[u], v)
          /\ JoinCount(joinMap', live' \ {u}, v) \in Nat
      <4>1. u \in live'
        BY <2>1
      <4> QED BY <1>2, <4>1, JoinCountSplit
    <3> QED BY <2>1, <3>1
  <2>3. Occurrences(joinMap'[u], v) = 0
    <3> DEFINE e == joinMap'[u]
    <3>1. e \in Seq(Threads) /\ ~InSeq(e, v)
      BY <1>3 DEF InSeq
    <3> HIDE DEF e
    <3>2. Occurrences(e, v) = 0
      BY <3>1, OccurrencesType
    <3> QED BY <3>2 DEF e
  <2>4. \A w \in live : joinMap'[w] = joinMap[w]
    BY <1>2, <1>3
  <2>5. JoinCount(joinMap', live, v) = JoinCount(joinMap, live, v)
    BY <2>4, JoinCountSame
  <2> QED BY <2>2, <2>3, <2>5
<1>5. ASSUME NEW v PROVE Tokens(v)' = Tokens(v) + (IF v = u THEN 1 ELSE 0)
  <2>1. /\ Tokens(v) = Occurrences(readyQueue, v) + SleepCount(sleepList, v)
                          + JoinCount(joinMap, live, v) + (IF v = currentThread THEN 1 ELSE 0)
        /\ Occurrences(readyQueue, v) \in Nat /\ SleepCount(sleepList, v) \in Nat
        /\ JoinCount(joinMap, live, v) \in Nat
    BY TokensSum
  <2>2. Tokens(v)' = Occurrences(readyQueue', v) + SleepCount(sleepList, v)
                       + JoinCount(joinMap, live, v) + (IF v = currentThread THEN 1 ELSE 0)
    BY <1>0, <1>4, TokensSumNext
  <2>3. Occurrences(readyQueue', v) = Occurrences(readyQueue, v) + (IF u = v THEN 1 ELSE 0)
    BY <1>0, <1>2, OccurrencesAppend
  <2> QED BY <2>1, <2>2, <2>3
<1> QED BY <1>3, <1>4, <1>5

\* ready() gives a new thread its first wake-up.
LEMMA ReadyWake ==
  ASSUME TypeOK, TypeOK', HasTarget, WakeInv, NEW t \in Threads, NEW u \in Threads, Ready(t, u)
  PROVE  WakeInv'
<1>0. /\ pc[u] = "new" /\ Goto(u, "run")
      /\ readyQueue' = Append(readyQueue, u)
      /\ live' = live \cup {u}
      /\ joinMap' = [joinMap EXCEPT ![u] = <<>>]
      /\ UNCHANGED <<currentThread, sleepList, threadQueue, deleted, target, fault>>
  BY DEF Ready
<1>1. /\ u \notin live /\ Tokens(u) = 0 /\ target[u] = NoThread
      /\ SleepCount(sleepList, u) = 0 /\ JoinCount(joinMap, live, u) = 0
  BY <1>0 DEF WakeInv, TokenInv, TargetInv, AwakeInv, InBlock
<1>2. /\ joinMap \in [Threads -> Seq(Threads)] /\ live \in SUBSET Threads
      /\ readyQueue \in Seq(Threads) /\ joinMap' \in [Threads -> Seq(Threads)] /\ live' \in SUBSET Threads
  BY DEF TypeOK
<1>3. joinMap'[u] = <<>> /\ \A w \in Threads \ {u} : joinMap'[w] = joinMap[w]
  BY <1>1, ReadyTokens
<1>4. \A v : JoinCount(joinMap', live', v) = JoinCount(joinMap, live, v)
  BY <1>1, ReadyTokens
<1>5. \A v : Tokens(v)' = Tokens(v) + (IF v = u THEN 1 ELSE 0)
  BY <1>1, ReadyTokens
<1>6. \A v \in Threads : /\ v # u => pc'[v] = pc[v] /\ Due(v)' = Due(v)
                         /\ v = u => pc'[v] = "run" /\ Due(v)' = 1
  BY <1>0 DEF Goto, Due, TypeOK
<1>7. TokenInv'
  <2> SUFFICES ASSUME NEW v \in Threads
               PROVE  /\ Tokens(v)' <= Due(v)'
                      /\ v \in live' /\ fault' # "exception" => Tokens(v)' = Due(v)'
                      /\ pc'[v] = "new" => v \notin live' /\ Tokens(v)' = 0
    BY DEF TokenInv
  <2>1. CASE v = u
    BY <1>1, <1>5, <1>6, <2>1
  <2>2. CASE v # u
    <3>1. /\ Tokens(v) \in Nat /\ Tokens(v) <= Due(v)
          /\ v \in live /\ fault # "exception" => Tokens(v) = Due(v)
          /\ pc[v] = "new" => v \notin live /\ Tokens(v) = 0
      BY TokensSum DEF WakeInv, TokenInv
    <3>2. Tokens(v)' = Tokens(v)
      BY <1>5, <2>2, <3>1
    <3> QED BY <1>0, <1>6, <2>2, <3>1, <3>2
  <2> QED BY <2>1, <2>2
<1>8. AwakeInv'
  BY <1>0, <1>1, <1>4, <1>6 DEF WakeInv, AwakeInv
<1>9. \A v \in Threads : target[v] # u
  BY <1>0, ThreadsAssumption DEF WakeInv, TargetInv
<1>10. JoinInv'
  BY <1>0, <1>2, <1>3, <1>6, <1>9 DEF WakeInv, JoinInv, InBlock
<1>11. TargetInv'
  <2>1. \A v \in Threads : target[v] # NoThread => target[v] \in Threads
    BY DEF TypeOK
  <2> QED BY <1>0, <1>1, <1>6, <1>9, <2>1 DEF WakeInv, TargetInv
<1>12. CleanerInv'
  <2>1. /\ \A i \in DOMAIN threadQueue : threadQueue[i] = NoThread \/ Gone(threadQueue[i])
        /\ \A v \in deleted : Gone(v)
    BY QueueIsGone
  <2>2. \A i \in DOMAIN threadQueue' : threadQueue'[i] = NoThread \/ (threadQueue'[i] \notin live' /\ pc'[threadQueue'[i]] # "new")
    BY <1>0, <1>6, <2>1 DEF Gone
  <2>3. \A v \in deleted' : v \notin live' /\ pc'[v] # "new"
    BY <1>0, <1>6, <2>1 DEF Gone
  <2>4. ASSUME pc'[Cleaner] \in {"look", "lookSleep", "scanSleep", "requeue", "addLoad", "addStore", "addSlot", "delete"}
        PROVE  target'[Cleaner] \notin live' /\ pc'[target'[Cleaner]] # "new"
    <3>1. pc[Cleaner] = pc'[Cleaner]
      BY <1>6, <2>4, ThreadsAssumption
    <3>2. target[Cleaner] \notin live /\ pc[target[Cleaner]] # "new"
      BY <2>4, <3>1 DEF WakeInv, CleanerInv
    <3>3. target[Cleaner] \in Threads
      BY <2>4, <3>1, ThreadsAssumption DEF HasTarget
    <3> QED BY <1>0, <1>6, <3>2, <3>3
  <2> QED BY <2>2, <2>3, <2>4 DEF CleanerInv
<1> QED BY <1>7, <1>8, <1>10, <1>11, <1>12 DEF WakeInv

\* block() takes readyQueueLock, and the wake-ups stay where they are.
LEMMA BlockEnterWake ==
  ASSUME TypeOK, HasTarget, WakeInv, NEW t \in Threads, BlockEnter(t)
  PROVE  WakeInv'
<1>0. /\ pc[t] = "block" /\ Goto(t, "blockLoop")
      /\ UNCHANGED <<currentThread, readyQueue, sleepList, live, joinMap, threadQueue, deleted, target, fault>>
  BY DEF BlockEnter, Running
<1>1. \A v \in Threads : Tokens(v)' = Tokens(v)
  BY <1>0 DEF Tokens
<1>2. \A v \in Threads : /\ Due(v)' = Due(v)
                         /\ pc'[v] = "new" <=> pc[v] = "new"
                         /\ pc'[v] \in InBlock <=> pc[v] \in InBlock
  BY <1>0 DEF Due, InBlock, Goto, TypeOK
<1>3. TokenInv'
  BY <1>0, <1>1, <1>2 DEF WakeInv, TokenInv
<1>4. AwakeInv' /\ JoinInv'
  BY <1>0, <1>2 DEF WakeInv, AwakeInv, JoinInv
<1>5. target' = [target EXCEPT ![t] = target[t]]
  BY <1>0 DEF TypeOK
<1>6. target[t] = NoThread \/ (target[t] \in Threads /\ pc[target[t]] # "new")
  BY DEF TypeOK, WakeInv, TargetInv
<1>7. TargetInv' /\ CleanerInv'
  BY <1>0, <1>5, <1>6, CallKeepsQueue
<1> QED BY <1>3, <1>4, <1>7 DEF WakeInv

\* Steps that change no label and move no wake-up between threads: time passes,
\* and start() turns the first wake-up of the queue into the CPU.
LEMMA QuietWake ==
  ASSUME TypeOK, TypeOK', WakeInv, UNCHANGED <<live, joinMap, threadQueue, deleted, pc, target, fault>>,
         \A v : Tokens(v)' = Tokens(v) /\ SleepCount(sleepList', v) = SleepCount(sleepList, v)
  PROVE  WakeInv'
<1>1. \A v \in Threads : Due(v)' = Due(v)
  BY DEF Due
<1>2. TokenInv'
  BY <1>1 DEF WakeInv, TokenInv
<1> QED BY <1>2 DEF WakeInv, AwakeInv, JoinInv, TargetInv, CleanerInv

\* Scheduler::start() turns the first place of the queue into the CPU.
LEMMA StartTokens ==
  ASSUME TypeOK, TypeOK', Start
  PROVE  \A v \in Threads : Tokens(v)' = Tokens(v)
<1>1. /\ readyQueue \in Seq(Threads) /\ readyQueue # <<>> /\ currentThread = NoThread
      /\ currentThread' = Head(readyQueue) /\ readyQueue' = Tail(readyQueue)
      /\ UNCHANGED <<sleepList, live, joinMap>>
  BY DEF Start, TypeOK
<1>2. ASSUME NEW v \in Threads PROVE Tokens(v)' = Tokens(v)
  <2>1. /\ Tokens(v) = Occurrences(readyQueue, v) + SleepCount(sleepList, v)
                          + JoinCount(joinMap, live, v) + (IF v = currentThread THEN 1 ELSE 0)
        /\ Occurrences(readyQueue, v) \in Nat /\ SleepCount(sleepList, v) \in Nat
        /\ JoinCount(joinMap, live, v) \in Nat
    BY TokensSum
  <2>2. /\ Tokens(v)' = Occurrences(readyQueue', v) + SleepCount(sleepList, v)
                       + JoinCount(joinMap, live, v) + (IF v = currentThread' THEN 1 ELSE 0)
        /\ Occurrences(readyQueue', v) \in Nat
    BY <1>1, TokensSumNext
  <2>3. Occurrences(readyQueue, v) = Occurrences(readyQueue', v) + (IF Head(readyQueue) = v THEN 1 ELSE 0)
    BY <1>1, OccurrencesTail
  <2>4. v # currentThread /\ (v = currentThread' <=> Head(readyQueue) = v)
    BY <1>1, ThreadsAssumption
  <2> QED BY <2>1, <2>2, <2>3, <2>4
<1> QED BY <1>2

\* So no thread loses or gains a wake-up.
LEMMA StartWake ==
  ASSUME TypeOK, TypeOK', WakeInv, Start
  PROVE  WakeInv'
<1>1. UNCHANGED <<sleepList, live, joinMap, threadQueue, deleted, pc, target, fault>>
  BY DEF Start
<1>2. \A v \in Threads : Tokens(v)' = Tokens(v)
  BY StartTokens
<1>3. \A v \in Threads : Due(v)' = Due(v)
  BY <1>1 DEF Due
<1>4. TokenInv'
  BY <1>1, <1>2, <1>3 DEF WakeInv, TokenInv
<1> QED BY <1>1, <1>4 DEF WakeInv, AwakeInv, JoinInv, TargetInv, CleanerInv

\* A timer tick.
LEMMA TickWake ==
  ASSUME TypeOK, TypeOK', WakeInv, TimerTick
  PROVE  WakeInv'
<1>1. /\ sleepList' = Aged
      /\ UNCHANGED <<currentThread, readyQueue, live, joinMap, threadQueue, deleted, pc, target, fault>>
  BY DEF TimerTick
<1>2. \A v : SleepCount(sleepList', v) = SleepCount(sleepList, v)
  BY <1>1, AgedCount DEF TypeOK
<1>3. \A v : Tokens(v)' = Tokens(v)
  BY <1>1, <1>2 DEF Tokens, Count
<1> QED BY <1>1, <1>2, <1>3, QuietWake

\* Every thread of the boot order is in the ready queue once.
LEMMA InitWake == Init => WakeInv
<1> SUFFICES ASSUME Init PROVE WakeInv
  OBVIOUS
<1>0. TypeOK
  BY InitType
<1>1. \A v : SleepCount(sleepList, v) = 0
  <2>1. sleepList \in Seq(Entries)
    BY <1>0 DEF TypeOK
  <2>2. \A v : ~\E i \in DOMAIN sleepList : sleepList[i].thread = v
    BY DEF Init
  <2> QED BY <2>1, <2>2, SleepCountType
<1>2. \A v : JoinCount(joinMap, live, v) = 0
  <2>1. \A u \in live : \A v : ~InSeq(joinMap[u], v)
    BY <1>0 DEF Init, TypeOK, InSeq
  <2>2. joinMap \in [Threads -> Seq(Threads)] /\ live \in SUBSET Threads
    BY <1>0 DEF TypeOK
  <2> QED BY <2>1, <2>2, JoinCountType
<1>3. ASSUME NEW v \in Threads
      PROVE  Occurrences(readyQueue, v) = IF InSeq(BootOrder, v) THEN 1 ELSE 0
  <2>1. readyQueue = BootOrder /\ BootOrder \in Seq(Threads)
        /\ \A i, j \in DOMAIN BootOrder : BootOrder[i] = BootOrder[j] => i = j
    BY BootAssumption DEF Init
  <2>2. CASE InSeq(BootOrder, v)
    <3>1. PICK i \in DOMAIN BootOrder : BootOrder[i] = v
      BY <2>2 DEF InSeq
    <3>2. {k \in DOMAIN BootOrder : BootOrder[k] = v} = {i}
      BY <2>1, <3>1
    <3> QED BY <2>1, <2>2, <3>2, FS_Singleton DEF Occurrences
  <2>3. CASE ~InSeq(BootOrder, v)
    BY <2>1, <2>3, OccurrencesType
  <2> QED BY <2>2, <2>3
<1>4. \A v \in Threads : /\ pc[v] = (IF InSeq(BootOrder, v) THEN "run" ELSE "new")
                         /\ v \in live <=> InSeq(BootOrder, v)
                         /\ v # currentThread /\ target[v] = NoThread
  BY ThreadsAssumption DEF Init, InSeq
<1>5. \A v \in Threads : Tokens(v) = IF InSeq(BootOrder, v) THEN 1 ELSE 0
  BY <1>1, <1>2, <1>3, <1>4 DEF Tokens, Count
<1>6. TokenInv
  BY <1>4, <1>5 DEF TokenInv, Due
<1>7. AwakeInv
  BY <1>1, <1>2 DEF AwakeInv
<1>8. JoinInv
  BY <1>4 DEF JoinInv, InBlock
<1>9. TargetInv
  BY <1>4 DEF TargetInv
<1>10. CleanerInv
  BY <1>4, ThreadsAssumption DEF CleanerInv, Init
<1> QED BY <1>6, <1>7, <1>8, <1>9, <1>10 DEF WakeInv

\* Every step keeps the wake-ups.
LEMMA NextWake ==
  ASSUME TypeOK, TypeOK', HasTarget, WakeInv, [Next]_vars
  PROVE  WakeInv'
<1>0. sleepList \in Seq(Entries) /\ Aged \in Seq(Entries)
  BY AgedType DEF TypeOK
<1>1. \A list \in {Aged, sleepList} : \A v : SleepCount(list, v) = SleepCount(sleepList, v)
  BY <1>0, AgedCount
<1>2. CASE Start
  BY <1>2, StartWake
<1>3. CASE TimerTick
  BY <1>3, TickWake
<1>4. CASE TimerPreempt
  <2>1. PICK list \in {Aged, sleepList} : Yield(currentThread, pc[currentThread], list)
    BY <1>4 DEF TimerPreempt
  <2>2. PICK t \in Threads : t = currentThread
    BY <1>4 DEF TimerPreempt
  <2>3. /\ fault = "none" /\ UNCHANGED <<live, joinMap, threadQueue, deleted>>
        /\ list \in Seq(Entries) /\ Yield(t, pc[t], list)
        /\ \A v : SleepCount(list, v) = SleepCount(sleepList, v)
    BY <1>0, <1>1, <1>4, <2>1, <2>2 DEF TimerPreempt
  <2> QED BY <2>2, <2>3, YieldWake
<1>5. CASE CleanerStep
  BY <1>5, CleanerWake
<1>6. ASSUME NEW t \in Threads, VoluntaryYield(t)
      PROVE  WakeInv'
  <2>1. /\ currentThread = t /\ fault = "none" /\ UNCHANGED <<live, joinMap, threadQueue, deleted>>
        /\ \E l : /\ Yield(t, l, sleepList)
                  /\ l = pc[t] \/ (l = "run" /\ pc[t] \in {"run", "yield"})
    BY <1>6 DEF VoluntaryYield, Running
  <2> QED BY <1>0, <2>1, YieldWake
<1>7. ASSUME NEW t \in Threads, ThreadStep(t)
      PROVE  WakeInv'
  <2>1. CASE BlockEnter(t)
    BY <2>1, BlockEnterWake
  <2>2. CASE BlockSwitch(t)
    BY <2>2, BlockSwitchWake
  <2>3. CASE SleepAdd(t)
    BY <2>3, SleepAddWake
  <2>4. CASE \E u \in Threads : Ready(t, u)
    BY <2>4, ReadyWake
  <2>5. CASE Exit(t)
    BY <2>5, ExitWake
  <2>6. CASE KillRemove(t)
    BY <2>6, KillRemoveWake
  <2>7. CASE JoinAdd(t)
    BY <2>7, JoinAddWake
  <2>8. CASE \/ SleepEnter(t) \/ AllocEnter(t) \/ AllocExit(t) \/ KillLock(t)
             \/ LookReady(t) \/ LookSleepLock(t) \/ LookSleep(t) \/ JoinLock(t)
             \/ \E u \in Threads : KillBegin(t, u) \/ JoinBegin(t, u)
    BY <2>8, CallWake
  <2> QED BY <1>7, <2>1, <2>2, <2>3, <2>4, <2>5, <2>6, <2>7, <2>8 DEF ThreadStep
<1>8. CASE UNCHANGED vars
  <2>1. UNCHANGED <<currentThread, readyQueue, sleepList, live, joinMap, threadQueue, deleted, pc, target, fault>>
    BY <1>8 DEF vars
  <2>2. \A v : Tokens(v)' = Tokens(v) /\ SleepCount(sleepList', v) = SleepCount(sleepList, v)
    BY <2>1 DEF Tokens
  <2> QED BY <2>1, <2>2, QuietWake
<1> QED BY <1>2, <1>3, <1>4, <1>5, <1>6, <1>7, <1>8 DEF Next

\* The inductive invariant of the wake-ups.
IInv == TypeOK /\ HasTarget /\ WakeInv

\* It holds in every reachable state: no call of the scheduler and no interrupt
\* of one breaks it.
THEOREM InvHolds == Spec => []IInv
<1>1. Init => IInv
  BY InitType, InitWake DEF IInv
<1>2. IInv /\ [Next]_vars => IInv'
  BY NextType, NextTarget, NextWake DEF IInv
<1> QED BY <1>1, <1>2, PTL DEF Spec

\* Every step that halts the kernel with an exception takes a wake-up from
\* nobody but the victim of kill(), and the machine stays in that state.
HaltInv ==
  fault = "exception" =>
    /\ currentThread \in Threads
    /\ \A t \in live : t # target[currentThread] => Tokens(t) = Due(t)

\* Thread switches halt for other reasons.
LEMMA YieldHalts ==
  ASSUME NEW t, NEW l, NEW list, Yield(t, l, list), fault = "none"
  PROVE  fault' # "exception"
BY DEF Yield, YieldWith, Halt

\* Only exit() and kill() halt with an exception.
LEMMA NextHalts ==
  ASSUME IInv, TypeOK', HaltInv, [Next]_vars
  PROVE  HaltInv'
<1> SUFFICES ASSUME fault' = "exception"
             PROVE  /\ currentThread' \in Threads
                    /\ \A v \in live' : v # target'[currentThread'] => Tokens(v)' = Due(v)'
  BY DEF HaltInv
<1>0. TypeOK /\ live \subseteq Threads /\ sleepList \in Seq(Entries)
  BY DEF IInv, TypeOK
<1>1. CASE Start
  BY <1>1, ThreadsAssumption DEF Start, HaltInv
<1>2. CASE TimerTick \/ UNCHANGED vars
  <2>1. /\ sleepList' \in {Aged, sleepList}
        /\ UNCHANGED <<currentThread, readyQueue, live, joinMap, pc, target, fault>>
    BY <1>2 DEF TimerTick, vars
  <2>2. \A v : SleepCount(sleepList', v) = SleepCount(sleepList, v)
    BY <1>0, <2>1, AgedCount
  <2>3. \A v : Tokens(v)' = Tokens(v)
    BY <2>1, <2>2 DEF Tokens, Count
  <2> QED BY <2>1, <2>3 DEF HaltInv, Due
<1>3. CASE TimerPreempt
  BY <1>3, YieldHalts DEF TimerPreempt
<1>4. CASE CleanerStep
  BY <1>4 DEF CleanerStep, CleanerPoll, CleanerPollStore, CleanerPollRead, CleanerRequeue,
         CleanerAddLoad, CleanerAddStore, CleanerAddSlot, CleanerAddLength, CleanerAddDone, CleanerDelete, Running
<1>5. ASSUME NEW t \in Threads, VoluntaryYield(t) PROVE FALSE
  BY <1>5, YieldHalts DEF VoluntaryYield, Running
<1>6. ASSUME NEW t \in Threads, ThreadStep(t)
      PROVE  /\ currentThread' \in Threads
             /\ \A v \in live' : v # target'[currentThread'] => Tokens(v)' = Due(v)'
  <2>1. CASE Exit(t)
    <3>1. UNCHANGED <<currentThread, readyQueue, sleepList, live, joinMap, pc>> /\ fault = "none"
          /\ currentThread = t
      BY <2>1 DEF Exit, Running
    <3>2. \A v \in live : Tokens(v)' = Tokens(v) /\ Due(v)' = Due(v) /\ Tokens(v) = Due(v)
      BY <1>0, <3>1 DEF Tokens, Due, IInv, WakeInv, TokenInv
    <3> QED BY <3>1, <3>2
  <2>2. CASE KillRemove(t)
    <3>1. /\ UNCHANGED <<currentThread, readyQueue, live, joinMap, pc, target>> /\ fault = "none"
          /\ currentThread = t /\ sleepList' = RemoveSleeper(sleepList, target[t])
      BY <2>2 DEF KillRemove, Running
    <3>2. ASSUME NEW v \in live, v # target[t] PROVE Tokens(v)' = Due(v)'
      <4>1. SleepCount(sleepList, v) \in Nat
        BY <1>0, TokensSum
      <4>2. SleepCount(sleepList', v) = SleepCount(sleepList, v)
        BY <1>0, <3>1, <3>2, <4>1, RemoveSleeperCount
      <4>3. Tokens(v)' = Tokens(v) /\ Due(v)' = Due(v)
        BY <3>1, <4>2 DEF Tokens, Count, Due
      <4> QED BY <1>0, <3>1, <4>3 DEF IInv, WakeInv, TokenInv
    <3> QED BY <3>1, <3>2
  <2>3. CASE BlockSwitch(t)
    BY <2>3 DEF BlockSwitch, BlockWith, Halt, Running
  <2>4. CASE \/ BlockEnter(t) \/ SleepEnter(t) \/ SleepAdd(t) \/ AllocEnter(t) \/ AllocExit(t) \/ KillLock(t)
             \/ LookReady(t) \/ LookSleepLock(t) \/ LookSleep(t) \/ JoinLock(t) \/ JoinAdd(t)
             \/ \E u \in Threads : Ready(t, u) \/ KillBegin(t, u) \/ JoinBegin(t, u)
    BY <2>4 DEF BlockEnter, SleepEnter, SleepAdd, AllocEnter, AllocExit, KillLock, LookReady, LookSleepLock,
                LookSleep, JoinLock, JoinAdd, Ready, KillBegin, JoinBegin, Running
  <2> QED BY <1>6, <2>1, <2>2, <2>3, <2>4 DEF ThreadStep
<1> QED BY <1>1, <1>2, <1>3, <1>4, <1>5, <1>6 DEF Next

\* No wake-up is lost and none is delivered twice, whatever the interleaving of
\* sleep(), join(), exit(), kill(), block() and the timer's yield().
THEOREM WakeupsAreConserved == Spec => []TokenConservation
<1>1. Init => HaltInv
  BY DEF Init, HaltInv
<1>2. IInv /\ IInv' /\ HaltInv /\ [Next]_vars => HaltInv'
  BY NextHalts DEF IInv
<1>3. IInv /\ HaltInv => TokenConservation
  <2> SUFFICES ASSUME IInv, HaltInv, NEW t \in live, ~HalfKilled(t)
               PROVE  Wakeups(t) + (IF t = currentThread THEN 1 ELSE 0)
                        = IF pc[t] \in {"block", "blockLoop"} THEN 2 ELSE 1
    BY DEF TokenConservation
  <2>1. TypeOK /\ t \in Threads
    BY DEF IInv, TypeOK
  <2>2. Tokens(t) = Due(t)
    BY <2>1 DEF IInv, WakeInv, TokenInv, HaltInv, HalfKilled
  <2>3. Wakeups(t) = Occurrences(readyQueue, t) + SleepCount(sleepList, t) + JoinCount(joinMap, live, t)
    BY <2>1, WakeupsSum
  <2>4. Tokens(t) = Wakeups(t) + (IF t = currentThread THEN 1 ELSE 0)
    BY <2>1, <2>3, TokensSum
  <2> QED BY <2>2, <2>4 DEF Due
<1> QED BY <1>1, <1>2, <1>3, InvHolds, PTL DEF Spec

\* A thread in its own code is on no list.
THEOREM ReturnsAreNotEarly == Spec => []NoEarlyReturn
<1>1. IInv => NoEarlyReturn
  <2> SUFFICES ASSUME IInv, NEW t \in live, pc[t] = "run"
               PROVE  ~Sleeping(t) /\ \A u \in live : ~InSeq(joinMap[u], t)
    BY DEF NoEarlyReturn
  <2>1. t \in Threads /\ sleepList \in Seq(Entries) /\ joinMap \in [Threads -> Seq(Threads)]
        /\ live \in SUBSET Threads
    BY DEF IInv, TypeOK
  <2>2. SleepCount(sleepList, t) = 0 /\ JoinCount(joinMap, live, t) = 0
    BY <2>1 DEF IInv, WakeInv, AwakeInv, InBlock
  <2>3. ~Sleeping(t)
    BY <2>1, <2>2, SleepCountType DEF Sleeping
  <2>4. \A u \in live : ~InSeq(joinMap[u], t)
    BY <2>1, <2>2, JoinCountType
  <2> QED BY <2>3, <2>4
<1> QED BY <1>1, InvHolds, PTL

\* A thread leaves block() only by a thread switch, which ends no thread.
LEMMA LeavesBlock ==
  ASSUME TypeOK, HasTarget, [Next]_vars, NEW t \in Threads, pc[t] \in InBlock, pc'[t] = "run"
  PROVE  UNCHANGED <<live, joinMap>>
<1> USE DEF InBlock
<1>1. CASE Start \/ TimerTick \/ UNCHANGED vars
  BY <1>1 DEF Start, TimerTick, vars
<1>2. CASE TimerPreempt
  BY <1>2 DEF TimerPreempt
<1>3. CASE CleanerStep
  BY <1>3 DEF CleanerStep, CleanerPoll, CleanerPollStore, CleanerPollRead, CleanerRequeue,
         CleanerAddLoad, CleanerAddStore, CleanerAddSlot, CleanerAddLength, CleanerAddDone, CleanerDelete
<1>4. ASSUME NEW v \in Threads, VoluntaryYield(v)
      PROVE  UNCHANGED <<live, joinMap>>
  BY <1>4 DEF VoluntaryYield
<1>5. ASSUME NEW v \in Threads, ThreadStep(v)
      PROVE  UNCHANGED <<live, joinMap>>
  <2>1. CASE \/ BlockEnter(v) \/ BlockSwitch(v) \/ SleepEnter(v) \/ SleepAdd(v) \/ AllocEnter(v) \/ AllocExit(v)
             \/ KillLock(v) \/ LookReady(v) \/ LookSleepLock(v) \/ LookSleep(v) \/ JoinLock(v)
             \/ \E u \in Threads : KillBegin(v, u) \/ JoinBegin(v, u)
    BY <2>1 DEF BlockEnter, BlockSwitch, SleepEnter, SleepAdd, AllocEnter, AllocExit, KillLock, LookReady,
                LookSleepLock, LookSleep, JoinLock, KillBegin, JoinBegin
  <2>2. ASSUME NEW u \in Threads, Ready(v, u) PROVE FALSE
    BY <2>2 DEF Ready, Goto, TypeOK
  <2>3. CASE Exit(v)
    BY <2>3 DEF Exit, Running, Goto, TypeOK
  <2>4. CASE KillRemove(v)
    BY <2>4 DEF KillRemove, Running, Goto, TypeOK
  <2>5. CASE JoinAdd(v)
    BY <2>5 DEF JoinAdd, Running, Goto, TypeOK
  <2> QED BY <1>5, <2>1, <2>2, <2>3, <2>4, <2>5 DEF ThreadStep
<1> QED BY <1>1, <1>2, <1>3, <1>4, <1>5 DEF Next

\* join() returns from block() only when the thread it waits for has
\* terminated (Scheduler::join, Scheduler::block).
THEOREM JoinReturnsAfterExit == Spec => JoinMeansExit
<1>1. IInv /\ IInv' /\ [Next]_vars =>
        [\A t \in Threads :
           (pc[t] \in {"block", "blockLoop", "blocked"} /\ target[t] # NoThread /\ pc'[t] = "run")
             => target[t] \notin live']_vars
  <2> SUFFICES ASSUME IInv, IInv', [Next]_vars, NEW t \in Threads, pc[t] \in InBlock, pc'[t] = "run",
                      target[t] \in live'
               PROVE  FALSE
    BY DEF InBlock
  <2>1. UNCHANGED <<live, joinMap>>
    BY LeavesBlock DEF IInv
  <2>2. Occurrences(joinMap[target[t]], t) # 0
    BY <2>1 DEF IInv, WakeInv, JoinInv
  <2>3. joinMap \in [Threads -> Seq(Threads)] /\ live \in SUBSET Threads
    BY DEF IInv, TypeOK
  <2>4. JoinCount(joinMap, live, t) = 0
    BY <2>1 DEF IInv, WakeInv, AwakeInv, InBlock
  <2>5. ~InSeq(joinMap[target[t]], t)
    BY <2>1, <2>3, <2>4, JoinCountType
  <2>6. joinMap[target[t]] \in Seq(Threads)
    BY <2>1, <2>3
  <2> QED BY <2>2, <2>5, <2>6, OccurrencesType
<1> QED BY <1>1, InvHolds, PTL DEF Spec, JoinMeansExit

-----------------------------------------------------------------------------
\* The threads that only poll and yield stay in their own code, and nobody
\* kills them.
SpinnerInv ==
  /\ \A s \in Spinners : pc[s] = "run" /\ s \in live
  /\ \A t \in Threads : pc[t] \in {"kill", "killRemove"} => target[t] \notin Spinners
  /\ fault # "polling"

\* yield() changes no label but to "run" for a spinner, and finds a thread.
LEMMA YieldSpins ==
  ASSUME IInv, SpinnerInv, \E s1, s2 \in Spinners : s1 # s2,
         NEW t \in Threads, currentThread = t, fault = "none",
         NEW l, l = pc[t] \/ (l = "run" /\ pc[t] \in {"run", "yield"}), NEW list \in Seq(Entries),
         Yield(t, l, list), UNCHANGED live
  PROVE  SpinnerInv'
<1>0. TypeOK /\ \A s \in Spinners : s \in Threads
  BY ThreadsAssumption DEF IInv
<1>1. \A v \in Threads :
        \/ pc'[v] = pc[v] /\ target'[v] = target[v]
        \/ v = t /\ pc'[v] = l /\ target'[v] = target[v]
        \/ pc[v] = "blocked" /\ pc'[v] = "run" /\ v = currentThread' /\ target'[v] = NoThread
  BY <1>0, YieldLabels
<1>2. PICK s \in Spinners : s # t
  OBVIOUS
<1>3. readyQueue # <<>>
  <2>1. Tokens(s) = 1
    BY <1>0 DEF IInv, WakeInv, TokenInv, SpinnerInv, Due
  <2>2. SleepCount(sleepList, s) = 0 /\ JoinCount(joinMap, live, s) = 0
    BY <1>0 DEF IInv, WakeInv, AwakeInv, SpinnerInv, InBlock
  <2>3. Occurrences(readyQueue, s) # 0
    BY <1>0, <1>2, <2>1, <2>2, TokensSum
  <2>4. InSeq(readyQueue, s)
    BY <1>0, <2>3, OccurrencesType DEF TypeOK
  <2> QED BY <2>4 DEF InSeq
<1>4. fault' # "polling"
  <2>1. CASE readyQueueLock # NoThread
    BY <2>1 DEF Yield
  <2>2. ASSUME NEW W \in DuePositions(list), NEW p \in Increasing(W), NEW r \in Increasing(DOMAIN list \ W),
               YieldWith(t, l, list, readyQueue \o Woken(list, p), Kept(list, r))
        PROVE  fault' # "polling"
    <3>1. Woken(list, p) \in Seq(Threads) /\ readyQueue \in Seq(Threads)
      BY <1>0, CheckSleepListType DEF TypeOK
    <3>2. readyQueue \o Woken(list, p) # <<>>
      BY <1>3, <3>1
    <3> QED BY <2>2, <3>2 DEF YieldWith, Halt
  <2> QED BY <2>1, <2>2 DEF Yield
<1>5. \A s1 \in Spinners : pc'[s1] = "run"
  BY <1>0, <1>1 DEF SpinnerInv
<1>6. \A v \in Threads : pc'[v] \in {"kill", "killRemove"} => target'[v] \notin Spinners
  BY <1>1 DEF SpinnerInv
<1> QED BY <1>4, <1>5, <1>6 DEF SpinnerInv

\* The steps of the other threads leave the spinners alone.
LEMMA NextSpins ==
  ASSUME IInv, SpinnerInv, \E s1, s2 \in Spinners : s1 # s2, [Next]_vars
  PROVE  SpinnerInv'
<1>0. TypeOK /\ (\A s \in Spinners : s \in Threads /\ s # Cleaner /\ s \notin Workers) /\ Cleaner \in Threads
      /\ sleepList \in Seq(Entries) /\ Aged \in Seq(Entries)
  BY ThreadsAssumption, AgedType DEF IInv, TypeOK, Workers
<1>1. CASE Start \/ TimerTick \/ UNCHANGED vars
  BY <1>1 DEF Start, TimerTick, vars, SpinnerInv
<1>2. CASE TimerPreempt
  <2>1. PICK list \in {Aged, sleepList} : Yield(currentThread, pc[currentThread], list)
    BY <1>2 DEF TimerPreempt
  <2>2. PICK t \in Threads : t = currentThread
    BY <1>2 DEF TimerPreempt
  <2>3. /\ fault = "none" /\ UNCHANGED live
        /\ list \in Seq(Entries) /\ Yield(t, pc[t], list)
    BY <1>0, <1>2, <2>1, <2>2 DEF TimerPreempt
  <2> QED BY <2>2, <2>3, YieldSpins
<1>3. CASE CleanerStep
  BY <1>0, <1>3 DEF CleanerStep, CleanerPoll, CleanerPollStore, CleanerPollRead, CleanerRequeue,
         CleanerAddLoad, CleanerAddStore, CleanerAddSlot, CleanerAddLength, CleanerAddDone, CleanerDelete, Goto, TypeOK, SpinnerInv
<1>4. ASSUME NEW t \in Threads, VoluntaryYield(t)
      PROVE  SpinnerInv'
  <2>1. /\ currentThread = t /\ fault = "none" /\ UNCHANGED live
        /\ \E l : /\ Yield(t, l, sleepList)
                  /\ l = pc[t] \/ (l = "run" /\ pc[t] \in {"run", "yield"})
    BY <1>4 DEF VoluntaryYield, Running
  <2> QED BY <1>0, <2>1, YieldSpins
<1>5. ASSUME NEW t \in Threads, ThreadStep(t)
      PROVE  SpinnerInv'
  <2>1. CASE BlockSwitch(t)
    <3>0. pc[t] = "blockLoop" /\ UNCHANGED live
      BY <2>1 DEF BlockSwitch, Running
    <3>1. CASE Halt(t, "growing") /\ UNCHANGED <<pc, target>>
      BY <3>0, <3>1 DEF Halt, SpinnerInv
    <3>2. CASE Goto(t, "run") /\ target' = [target EXCEPT ![t] = NoThread] /\ fault' = fault
      BY <1>0, <3>0, <3>2 DEF Goto, SpinnerInv, TypeOK
    <3>3. ASSUME NEW q, SwitchTo(t, "blocked", Head(q)), fault' = fault
          PROVE  SpinnerInv'
      BY <1>0, <3>0, <3>3 DEF SwitchTo, SpinnerInv, TypeOK
    <3> QED BY <2>1, <3>1, <3>2, <3>3 DEF BlockSwitch, BlockWith
  <2>2. CASE BlockEnter(t) \/ SleepAdd(t) \/ AllocExit(t) \/ LookSleepLock(t) \/ JoinLock(t)
    BY <1>0, <2>2 DEF BlockEnter, SleepAdd, AllocExit, LookSleepLock, JoinLock, Running, Goto, SpinnerInv, TypeOK
  <2>3. CASE SleepEnter(t) \/ AllocEnter(t)
    BY <1>0, <2>3 DEF SleepEnter, MaySleep, AllocEnter, Running, Goto, SpinnerInv, TypeOK
  <2>4. CASE LookReady(t)
    BY <1>0, <2>4 DEF LookReady, Found, Running, Goto, SpinnerInv, TypeOK
  <2>5. CASE LookSleep(t)
    <3>1. PICK l \in {"requeue", "join", "delete", "run"} : Goto(t, l)
      BY <2>5 DEF LookSleep, Found, NotFound
    <3>2. pc[t] = "scanSleep" /\ UNCHANGED <<live, fault>> /\ \A v \in Threads \ {t} : target'[v] = target[v]
      BY <1>0, <2>5 DEF LookSleep, Running, Found, NotFound, TypeOK
    <3> QED BY <1>0, <3>1, <3>2 DEF Goto, SpinnerInv, TypeOK
  <2>6. CASE JoinAdd(t)
    <3>1. PICK l \in {"block", "run"} : Goto(t, l)
      BY <2>6 DEF JoinAdd
    <3>2. pc[t] = "joinAdd" /\ UNCHANGED <<live, fault>> /\ \A v \in Threads \ {t} : target'[v] = target[v]
      BY <1>0, <2>6 DEF JoinAdd, Running, TypeOK
    <3> QED BY <1>0, <3>1, <3>2 DEF Goto, SpinnerInv, TypeOK
  <2>7. CASE KillLock(t)
    BY <1>0, <2>7 DEF KillLock, Running, Goto, SpinnerInv, TypeOK
  <2>8. ASSUME NEW u \in Threads, KillBegin(t, u) \/ JoinBegin(t, u)
        PROVE  SpinnerInv'
    <3>1. CASE KillBegin(t, u)
      BY <1>0, <3>1 DEF KillBegin, Running, Goto, SpinnerInv, TypeOK
    <3>2. CASE JoinBegin(t, u)
      BY <1>0, <3>2 DEF JoinBegin, Running, Goto, SpinnerInv, TypeOK
    <3> QED BY <2>8, <3>1, <3>2
  <2>9. ASSUME NEW u \in Threads, Ready(t, u)
        PROVE  SpinnerInv'
    BY <1>0, <2>9 DEF Ready, Goto, SpinnerInv, TypeOK
  <2>10. CASE Exit(t)
    <3>1. CASE Terminate(t, readyQueue \o joinMap[t]) /\ Goto(t, "block") /\ UNCHANGED fault
      BY <1>0, <2>10, <3>1 DEF Exit, Terminate, Running, Goto, SpinnerInv, TypeOK
    <3>2. CASE Halt(t, "exception") /\ UNCHANGED <<live, pc>>
      BY <2>10, <3>2 DEF Exit, Halt, SpinnerInv
    <3> QED BY <2>10, <3>1, <3>2 DEF Exit
  <2>11. CASE KillRemove(t)
    <3>0. target[t] \notin Spinners /\ pc[t] = "killRemove"
      BY <2>11 DEF KillRemove, Running, SpinnerInv
    <3>1. CASE /\ Terminate(target[t], RemoveThread(readyQueue \o joinMap[target[t]], target[t]))
               /\ target' = [target EXCEPT ![t] = NoThread] /\ Goto(t, "run") /\ UNCHANGED fault
      BY <1>0, <3>0, <3>1 DEF Terminate, Goto, SpinnerInv, TypeOK
    <3>2. CASE Halt(t, "exception") /\ UNCHANGED <<live, pc, target>>
      BY <3>2 DEF Halt, SpinnerInv
    <3> QED BY <2>11, <3>1, <3>2 DEF KillRemove
  <2> QED BY <1>5, <2>1, <2>2, <2>3, <2>4, <2>5, <2>6, <2>7, <2>8, <2>9, <2>10, <2>11 DEF ThreadStep
<1> QED BY <1>1, <1>2, <1>3, <1>4, <1>5 DEF Next

\* With two threads that never block, yield() always finds a thread.
THEOREM YieldFindsThread ==
  (\E s1, s2 \in Spinners : s1 # s2) /\ Spec => []NeverPollsEmptyQueue
<1> SUFFICES ASSUME \E s1, s2 \in Spinners : s1 # s2
             PROVE  Spec => []NeverPollsEmptyQueue
  OBVIOUS
<1>1. Init => SpinnerInv
  <2> SUFFICES ASSUME Init PROVE SpinnerInv
    OBVIOUS
  <2>1. \A s \in Spinners : s \in Threads /\ InSeq(BootOrder, s)
    BY ThreadsAssumption, BootAssumption DEF InSeq
  <2>2. \A t \in Threads : pc[t] \notin {"kill", "killRemove"}
    BY DEF Init
  <2> QED BY <2>1, <2>2 DEF Init, SpinnerInv, InSeq
<1>2. IInv /\ SpinnerInv /\ [Next]_vars => SpinnerInv'
  BY NextSpins
<1>3. SpinnerInv => NeverPollsEmptyQueue
  BY DEF SpinnerInv, NeverPollsEmptyQueue
<1> QED BY <1>1, <1>2, <1>3, InvHolds, PTL DEF Spec

-----------------------------------------------------------------------------
(***************************************************************************)
(* Freeing of terminated threads.                                          *)
(***************************************************************************)

\* Without kill(), a terminated thread only has to leave the CPU: no list holds
\* it, and it will not come back.
EndInv ==
  /\ \A t \in Threads : Gone(t) =>
       /\ pc[t] \in InBlock /\ target[t] = NoThread
       /\ SleepCount(sleepList, t) = 0 /\ JoinCount(joinMap, live, t) = 0
       /\ Tokens(t) = IF pc[t] = "blocked" THEN 0 ELSE 1
  /\ \A t \in Threads : pc[t] \notin {"kill", "killRemove"}
  /\ Cleaner \in live

\* A thread that has left the CPU for good stays away.
StaysAway == \A t \in Threads : Gone(t) /\ pc[t] = "blocked" => pc'[t] = "blocked"

\* Steps after which the terminated threads are the same and hold the same.
LEMMA EndSame ==
  ASSUME EndInv,
         \A v \in Threads : Gone(v)' => Gone(v) /\ pc'[v] = pc[v] /\ target'[v] = target[v],
         \A v \in Threads : Gone(v) => pc'[v] = pc[v],
         \A v \in Threads : Gone(v)' =>
           /\ Tokens(v)' = Tokens(v)
           /\ SleepCount(sleepList', v) = SleepCount(sleepList, v)
           /\ JoinCount(joinMap', live', v) = JoinCount(joinMap, live, v),
         \A v \in Threads : pc'[v] \notin {"kill", "killRemove"},
         Cleaner \in live'
  PROVE  EndInv' /\ StaysAway
<1>1. ASSUME NEW v \in Threads, Gone(v)'
      PROVE  /\ pc'[v] \in InBlock /\ target'[v] = NoThread
             /\ SleepCount(sleepList', v) = 0 /\ JoinCount(joinMap', live', v) = 0
             /\ Tokens(v)' = IF pc'[v] = "blocked" THEN 0 ELSE 1
  <2>1. Gone(v) /\ pc'[v] = pc[v] /\ target'[v] = target[v]
    BY <1>1
  <2>2. /\ pc[v] \in InBlock /\ target[v] = NoThread
        /\ SleepCount(sleepList, v) = 0 /\ JoinCount(joinMap, live, v) = 0
        /\ Tokens(v) = IF pc[v] = "blocked" THEN 0 ELSE 1
    BY <2>1 DEF EndInv
  <2> QED BY <1>1, <2>1, <2>2
<1>2. EndInv'
  BY <1>1 DEF EndInv
<1>3. StaysAway
  BY DEF StaysAway
<1> QED BY <1>2, <1>3

\* A thread that is switched to was not terminated: it would hold nothing.
LEMMA YieldEnds ==
  ASSUME TypeOK, TypeOK', EndInv, NEW t \in Threads, currentThread = t, fault = "none",
         NEW l, l = pc[t] \/ (l = "run" /\ pc[t] \in {"run", "yield"}),
         NEW list \in Seq(Entries), \A v : SleepCount(list, v) = SleepCount(sleepList, v),
         Yield(t, l, list), UNCHANGED <<live, joinMap>>
  PROVE  EndInv' /\ StaysAway
<1>1. \A v : Tokens(v)' = Tokens(v) /\ SleepCount(sleepList', v) <= SleepCount(sleepList, v)
  BY YieldTokens
<1>2. \A v \in Threads :
        \/ pc'[v] = pc[v] /\ target'[v] = target[v]
        \/ v = t /\ pc'[v] = l /\ target'[v] = target[v]
        \/ pc[v] = "blocked" /\ pc'[v] = "run" /\ v = currentThread' /\ target'[v] = NoThread
  BY YieldLabels
<1>3. \A v \in Threads : Gone(v)' <=> Gone(v)
  BY <1>2 DEF Gone
<1>4. ASSUME NEW v \in Threads, Gone(v) PROVE pc'[v] = pc[v] /\ target'[v] = target[v]
  <2>1. pc[v] \in InBlock /\ Tokens(v) = IF pc[v] = "blocked" THEN 0 ELSE 1
    BY <1>4 DEF EndInv
  <2>2. CASE pc[v] = "blocked" /\ v = currentThread'
    <3>1. Tokens(v)' = 0
      BY <1>1, <2>1, <2>2
    <3> QED BY <2>2, <3>1, TokensSumNext
  <2> QED BY <1>2, <2>1, <2>2 DEF InBlock
<1>5. ASSUME NEW v \in Threads, Gone(v)' PROVE SleepCount(sleepList', v) = SleepCount(sleepList, v)
  <2>1. SleepCount(sleepList, v) = 0
    BY <1>3, <1>5 DEF EndInv
  <2> QED BY <1>1, <2>1, TokensSumNext
<1>6. \A v \in Threads : pc'[v] \notin {"kill", "killRemove"}
  BY <1>2 DEF EndInv
<1>7. \A v \in Threads : Gone(v)' =>
        /\ Tokens(v)' = Tokens(v)
        /\ SleepCount(sleepList', v) = SleepCount(sleepList, v)
        /\ JoinCount(joinMap', live', v) = JoinCount(joinMap, live, v)
  BY <1>1, <1>5
<1>8. Cleaner \in live'
  BY DEF EndInv
<1> QED BY <1>3, <1>4, <1>6, <1>7, <1>8, EndSame

\* block() takes a terminated thread off the CPU, and brings none back.
LEMMA BlockSwitchEnds ==
  ASSUME TypeOK, TypeOK', EndInv, NEW t \in Threads, BlockSwitch(t)
  PROVE  EndInv' /\ StaysAway
<1>0. /\ currentThread = t /\ pc[t] = "blockLoop" /\ fault = "none"
      /\ UNCHANGED <<live, joinMap>>
  BY DEF BlockSwitch, Running
<1>1. CASE /\ fault' = "growing"
           /\ UNCHANGED <<currentThread, readyQueue, sleepList, live, joinMap, pc, target>>
  BY <1>0, <1>1 DEF EndInv, StaysAway, Gone, Tokens
<1>2. CASE /\ fault' = fault
           /\ \A v : /\ Tokens(v)' = Tokens(v) - (IF v = t THEN 1 ELSE 0)
                     /\ SleepCount(sleepList', v) <= SleepCount(sleepList, v)
           /\ \/ /\ currentThread' = t
                 /\ Goto(t, "run") /\ target' = [target EXCEPT ![t] = NoThread]
              \/ /\ currentThread' # t /\ currentThread' \in Threads
                 /\ SwitchTo(t, "blocked", currentThread')
  <2>1. \A v \in Threads :
          \/ v # t /\ pc'[v] = pc[v] /\ target'[v] = target[v]
          \/ v = t /\ pc'[v] = "blocked" /\ target'[v] = target[v]
          \/ v = currentThread' /\ pc'[v] = "run" /\ pc[v] = (IF v = t THEN "blockLoop" ELSE "blocked")
    <3>1. CASE currentThread' = t /\ Goto(t, "run") /\ target' = [target EXCEPT ![t] = NoThread]
      BY <1>0, <3>1 DEF Goto, TypeOK
    <3>2. CASE currentThread' # t /\ currentThread' \in Threads /\ SwitchTo(t, "blocked", currentThread')
      BY <1>0, <3>2 DEF SwitchTo, TypeOK
    <3> QED BY <1>2, <3>1, <3>2
  <2>2. \A v \in Threads : Gone(v)' <=> Gone(v)
    BY <1>0, <2>1 DEF Gone
  <2>3. ASSUME NEW v \in Threads, Gone(v)
        PROVE  /\ pc'[v] = (IF v = t THEN "blocked" ELSE pc[v]) /\ target'[v] = target[v]
               /\ SleepCount(sleepList', v) = 0 /\ JoinCount(joinMap', live', v) = 0
               /\ Tokens(v)' = IF pc'[v] = "blocked" THEN 0 ELSE 1
               /\ pc[v] \in InBlock /\ target[v] = NoThread
    <3>1. /\ pc[v] \in InBlock /\ Tokens(v) = (IF pc[v] = "blocked" THEN 0 ELSE 1) /\ target[v] = NoThread
          /\ SleepCount(sleepList, v) = 0 /\ JoinCount(joinMap, live, v) = 0
      BY <2>3 DEF EndInv
    <3>2. Tokens(v)' = Tokens(v) - (IF v = t THEN 1 ELSE 0) /\ SleepCount(sleepList', v) <= 0
      BY <1>2, <3>1
    <3>3. SleepCount(sleepList', v) = 0
      BY <3>2, TokensSumNext
    <3>4. CASE v = t
      <4>1. Tokens(v)' = 0
        BY <1>0, <3>1, <3>2, <3>4
      <4>2. v # currentThread'
        BY <4>1, TokensSumNext
      <4> QED BY <1>0, <2>1, <3>1, <3>3, <3>4, <4>1, <4>2
    <3>5. CASE v # t
      <4>1. Tokens(v)' = Tokens(v)
        BY <3>1, <3>2, <3>5
      <4>2. pc[v] = "blocked" => v # currentThread'
        BY <3>1, <4>1, TokensSumNext
      <4> QED BY <1>0, <2>1, <3>1, <3>3, <3>5, <4>1, <4>2
    <3> QED BY <3>4, <3>5
  <2>4. \A v \in Threads : pc'[v] \notin {"kill", "killRemove"}
    BY <2>1 DEF EndInv
  <2>5. EndInv'
    <3>1. ASSUME NEW v \in Threads, Gone(v)'
          PROVE  /\ pc'[v] \in InBlock /\ target'[v] = NoThread
                 /\ SleepCount(sleepList', v) = 0 /\ JoinCount(joinMap', live', v) = 0
                 /\ Tokens(v)' = IF pc'[v] = "blocked" THEN 0 ELSE 1
      <4>1. Gone(v)
        BY <2>2, <3>1
      <4> QED BY <2>3, <4>1 DEF InBlock
    <3>2. Cleaner \in live'
      BY <1>0 DEF EndInv
    <3> QED BY <2>4, <3>1, <3>2 DEF EndInv
  <2>6. StaysAway
    BY <1>0, <2>3 DEF StaysAway
  <2> QED BY <2>5, <2>6
<1> QED BY <1>1, <1>2, BlockSwitchTokens

\* Steps of a thread outside block() that move no wake-up, or only its own.
LEMMA CallEnds ==
  ASSUME EndInv, TypeOK, NEW t \in Threads, NEW l \in Labels \ {"new", "kill", "killRemove"}, Goto(t, l),
         pc[t] \notin InBlock \cup {"new"},
         \A v \in Threads \ {t} : target'[v] = target[v],
         \A v \in Threads \ {t} : /\ Tokens(v)' = Tokens(v)
                                  /\ SleepCount(sleepList', v) = SleepCount(sleepList, v)
                                  /\ JoinCount(joinMap', live', v) = JoinCount(joinMap, live, v),
         UNCHANGED live
  PROVE  EndInv' /\ StaysAway
<1>1. ~Gone(t)
  BY DEF EndInv
<1>2. \A v \in Threads \ {t} : pc'[v] = pc[v]
  BY DEF Goto, TypeOK
<1>3. pc'[t] = l /\ ~Gone(t)'
  BY <1>1 DEF Goto, TypeOK, Gone
<1>4. \A v \in Threads : Gone(v)' => v # t /\ Gone(v) /\ pc'[v] = pc[v] /\ target'[v] = target[v]
  BY <1>2, <1>3 DEF Gone
<1>5. \A v \in Threads : Gone(v) => pc'[v] = pc[v]
  BY <1>1, <1>2
<1>6. \A v \in Threads : pc'[v] \notin {"kill", "killRemove"}
  BY <1>2, <1>3 DEF EndInv
<1>7. \A v \in Threads : Gone(v)' =>
        /\ Tokens(v)' = Tokens(v)
        /\ SleepCount(sleepList', v) = SleepCount(sleepList, v)
        /\ JoinCount(joinMap', live', v) = JoinCount(joinMap, live, v)
  BY <1>4
<1>8. Cleaner \in live'
  BY DEF EndInv
<1> QED BY <1>4, <1>5, <1>6, <1>7, <1>8, EndSame

\* exit() ends a thread that is on no list.
LEMMA ExitEnds ==
  ASSUME IInv, TypeOK', EndInv, NEW t \in Threads, Exit(t)
  PROVE  EndInv' /\ StaysAway
<1>0. /\ pc[t] = "run" /\ target[t] = NoThread /\ t # Cleaner /\ fault = "none" /\ TypeOK
      /\ UNCHANGED <<currentThread, sleepList, target>>
  BY DEF Exit, Running, IInv, WakeInv, TargetInv, Workers
<1>1. CASE t \in live /\ Terminate(t, readyQueue \o joinMap[t]) /\ Goto(t, "block")
  <2>1. \A v : Tokens(v)' = Tokens(v) /\ JoinCount(joinMap', live', v) <= JoinCount(joinMap, live, v)
    BY <1>0, <1>1, ExitTokens
  <2>2. live' = live \ {t}
    BY <1>1 DEF Terminate
  <2>3. pc'[t] = "block" /\ \A v \in Threads \ {t} : pc'[v] = pc[v]
    BY <1>0, <1>1 DEF Goto, TypeOK
  <2>4. ASSUME NEW v \in Threads, Gone(v)'
        PROVE  /\ pc'[v] \in InBlock /\ target'[v] = NoThread
               /\ SleepCount(sleepList', v) = 0 /\ JoinCount(joinMap', live', v) = 0
               /\ Tokens(v)' = IF pc'[v] = "blocked" THEN 0 ELSE 1
    <3>1. CASE v = t
      <4>1. SleepCount(sleepList, v) = 0 /\ JoinCount(joinMap, live, v) = 0
        BY <1>0, <3>1 DEF IInv, WakeInv, AwakeInv, InBlock
      <4>2. Tokens(v) = 1
        BY <1>0, <1>1, <3>1 DEF IInv, WakeInv, TokenInv, Due
      <4>3. JoinCount(joinMap', live', v) = 0
        BY <2>1, <4>1, TokensSumNext
      <4> QED BY <1>0, <2>1, <2>3, <3>1, <4>1, <4>2, <4>3 DEF InBlock
    <3>2. CASE v # t
      <4>1. Gone(v) /\ pc'[v] = pc[v]
        BY <2>2, <2>3, <2>4, <3>2 DEF Gone
      <4>2. /\ pc[v] \in InBlock /\ target[v] = NoThread
            /\ SleepCount(sleepList, v) = 0 /\ JoinCount(joinMap, live, v) = 0
            /\ Tokens(v) = IF pc[v] = "blocked" THEN 0 ELSE 1
        BY <4>1 DEF EndInv
      <4>3. JoinCount(joinMap', live', v) = 0
        BY <2>1, <4>2, TokensSumNext
      <4> QED BY <1>0, <2>1, <4>1, <4>2, <4>3
    <3> QED BY <3>1, <3>2
  <2>5. Cleaner \in live' /\ \A v \in Threads : pc'[v] \notin {"kill", "killRemove"}
    BY <1>0, <2>2, <2>3 DEF EndInv
  <2>6. EndInv'
    BY <2>4, <2>5 DEF EndInv
  <2>7. StaysAway
    BY <1>0, <2>3 DEF StaysAway
  <2> QED BY <2>6, <2>7
<1>2. CASE UNCHANGED <<readyQueue, live, joinMap, pc>>
  BY <1>0, <1>2 DEF EndInv, StaysAway, Gone, Tokens
<1> QED BY <1>1, <1>2 DEF Exit

\* ready() starts a thread that was never alive.
LEMMA ReadyEnds ==
  ASSUME IInv, TypeOK', EndInv, NEW t \in Threads, NEW u \in Threads, Ready(t, u)
  PROVE  EndInv' /\ StaysAway
<1>0. /\ TypeOK /\ pc[u] = "new" /\ u \notin live /\ live' = live \cup {u} /\ Goto(u, "run")
      /\ UNCHANGED <<sleepList, target>>
  BY DEF Ready, IInv, WakeInv, TokenInv
<1>1. /\ \A v : JoinCount(joinMap', live', v) = JoinCount(joinMap, live, v)
      /\ \A v : Tokens(v)' = Tokens(v) + (IF v = u THEN 1 ELSE 0)
  BY <1>0, ReadyTokens
<1>2. pc'[u] = "run" /\ \A v \in Threads \ {u} : pc'[v] = pc[v]
  BY <1>0 DEF Goto, TypeOK
<1>3. \A v \in Threads : Gone(v)' => v # u /\ Gone(v) /\ pc'[v] = pc[v] /\ target'[v] = target[v]
  BY <1>0, <1>2 DEF Gone
<1>4. \A v \in Threads : Gone(v) => pc'[v] = pc[v]
  BY <1>0, <1>2 DEF Gone
<1>5. \A v \in Threads : v # u => Tokens(v)' = Tokens(v)
  BY <1>0, <1>1, TokensSum
<1>6. \A v \in Threads : Gone(v)' =>
        /\ Tokens(v)' = Tokens(v)
        /\ SleepCount(sleepList', v) = SleepCount(sleepList, v)
        /\ JoinCount(joinMap', live', v) = JoinCount(joinMap, live, v)
  BY <1>0, <1>1, <1>3, <1>5
<1>7. Cleaner \in live' /\ \A v \in Threads : pc'[v] \notin {"kill", "killRemove"}
  BY <1>0, <1>2 DEF EndInv
<1> QED BY <1>3, <1>4, <1>6, <1>7, EndSame

\* sleep() and join() put only the caller on a list.
LEMMA WaitEnds ==
  ASSUME IInv, TypeOK', EndInv, NEW t \in Threads, SleepAdd(t) \/ JoinAdd(t)
  PROVE  EndInv' /\ StaysAway
<1>0. /\ TypeOK /\ pc[t] \in {"sleepAdd", "joinAdd"} /\ UNCHANGED <<currentThread, readyQueue, live>>
  BY DEF SleepAdd, JoinAdd, Running, IInv
<1>1. pc[t] \notin InBlock \cup {"new"}
  BY <1>0 DEF InBlock
<1>2. CASE SleepAdd(t)
  <2>1. \A v : /\ SleepCount(sleepList', v) = SleepCount(sleepList, v) + (IF t = v THEN 1 ELSE 0)
               /\ Tokens(v)' = Tokens(v) + (IF v = t THEN 1 ELSE 0)
    BY <1>0, <1>2, SleepAddTokens
  <2>2. \A v : SleepCount(sleepList, v) \in Nat /\ Tokens(v) \in Nat
    BY <1>0, TokensSum
  <2>3. \A v \in Threads \ {t} : SleepCount(sleepList', v) = SleepCount(sleepList, v) /\ Tokens(v)' = Tokens(v)
    BY <2>1, <2>2
  <2>4. Goto(t, "block") /\ UNCHANGED <<joinMap, target>> /\ "block" \in Labels \ {"new", "kill", "killRemove"}
    BY <1>2 DEF SleepAdd, Labels
  <2> QED BY <1>0, <1>1, <2>3, <2>4, CallEnds
<1>3. CASE JoinAdd(t)
  <2>0. sleepList' = sleepList
    BY <1>3 DEF JoinAdd
  <2>1. PICK u \in JoinId(target[t]) :
          IF u \in live
          THEN /\ joinMap' = [joinMap EXCEPT ![u] = Append(@, t)]
               /\ joinLock' = NoThread
               /\ Goto(t, "block")
               /\ UNCHANGED target
          ELSE /\ Goto(t, "run")
               /\ target' = [target EXCEPT ![t] = NoThread]
               /\ UNCHANGED <<joinMap, joinLock>>
    BY <1>3 DEF JoinAdd
  <2>2. CASE u \in live
    <3>1. Joins(t, u)
      BY <1>0, <2>0, <2>1, <2>2, <1>3 DEF Joins, JoinAdd
    <3>2. \A v : JoinCount(joinMap', live, v) = JoinCount(joinMap, live, v) + (IF t = v THEN 1 ELSE 0)
      BY <1>0, <2>2, <3>1, JoinAddTokens
    <3>3. \A v : Tokens(v)' = Tokens(v) + (IF v = t THEN 1 ELSE 0)
      BY <1>0, <2>2, <3>1, JoinAddTokens
    <3>4. \A v : JoinCount(joinMap, live, v) \in Nat /\ Tokens(v) \in Nat
      BY <1>0, TokensSum
    <3>5. \A v \in Threads \ {t} : JoinCount(joinMap', live', v) = JoinCount(joinMap, live, v) /\ Tokens(v)' = Tokens(v)
      BY <1>0, <3>2, <3>3, <3>4
    <3>6. Goto(t, "block") /\ UNCHANGED target /\ "block" \in Labels \ {"new", "kill", "killRemove"}
      BY <2>1, <2>2 DEF Labels
    <3> QED BY <1>0, <1>1, <2>0, <3>5, <3>6, CallEnds
  <2>3. CASE u \notin live
    <3>1. /\ Goto(t, "run") /\ UNCHANGED joinMap /\ "run" \in Labels \ {"new", "kill", "killRemove"}
          /\ \A v \in Threads \ {t} : target'[v] = target[v]
      BY <1>0, <2>1, <2>3 DEF Labels, TypeOK
    <3>2. \A v \in Threads \ {t} : Tokens(v)' = Tokens(v)
      BY <1>0, <2>0, <3>1 DEF Tokens
    <3> QED BY <1>0, <1>1, <2>0, <3>1, <3>2, CallEnds
  <2> QED BY <2>2, <2>3
<1> QED BY <1>2, <1>3

\* Calls that neither add nor use a wake-up.
LEMMA OtherCallEnds ==
  ASSUME IInv, EndInv, NEW t \in Threads,
         \/ SleepEnter(t) \/ AllocEnter(t) \/ AllocExit(t)
         \/ LookReady(t) \/ LookSleepLock(t) \/ LookSleep(t) \/ JoinLock(t)
         \/ \E u \in Threads : JoinBegin(t, u)
         \/ t = Cleaner /\ CleanerStep
  PROVE  EndInv' /\ StaysAway
<1> DEFINE calls == {"sleepAdd", "alloc", "run", "requeue", "join", "lookSleep", "delete",
                     "scanSleep", "joinAdd", "look", "yield", "pollStore", "pollRead",
                     "addLoad", "addStore", "addSlot", "addLength", "addDone"}
<1>0. TypeOK
  BY DEF IInv
<1>1. /\ pc[t] \in calls
      /\ UNCHANGED <<currentThread, readyQueue, sleepList, live, joinMap>>
  BY DEF SleepEnter, AllocEnter, AllocExit, LookReady, LookSleepLock, LookSleep, JoinLock,
         JoinBegin, CleanerStep, CleanerPoll, CleanerPollStore, CleanerPollRead, CleanerRequeue,
         CleanerAddLoad, CleanerAddStore, CleanerAddSlot, CleanerAddLength, CleanerAddDone, CleanerDelete, Running
<1>2. PICK l \in calls : Goto(t, l)
  <2>1. CASE UNCHANGED pc
    BY <1>0, <1>1, <2>1 DEF Goto, TypeOK
  <2> QED BY <2>1 DEF SleepEnter, AllocEnter, AllocExit, LookReady, LookSleepLock, LookSleep, JoinLock, Found, NotFound,
         JoinBegin, CleanerStep, CleanerPoll, CleanerPollStore, CleanerPollRead, CleanerRequeue,
         CleanerAddLoad, CleanerAddStore, CleanerAddSlot, CleanerAddLength, CleanerAddDone, CleanerDelete
<1>3. \A v \in Threads \ {t} : target'[v] = target[v]
  BY <1>0 DEF SleepEnter, AllocEnter, AllocExit, LookReady, LookSleepLock, LookSleep, JoinLock, Found, NotFound,
         JoinBegin, CleanerStep, CleanerPoll, CleanerPollStore, CleanerPollRead, CleanerRequeue,
         CleanerAddLoad, CleanerAddStore, CleanerAddSlot, CleanerAddLength, CleanerAddDone, CleanerDelete, TypeOK
<1>4. \A v \in Threads \ {t} : Tokens(v)' = Tokens(v)
  BY <1>1 DEF Tokens
<1>5. pc[t] \notin InBlock \cup {"new"} /\ l \in Labels \ {"new", "kill", "killRemove"}
  BY <1>1 DEF InBlock, Labels
<1> QED BY <1>0, <1>1, <1>2, <1>3, <1>4, <1>5, CallEnds

\* Every step keeps terminated threads off the lists, as long as nobody kills.
LEMMA NextEnds ==
  ASSUME IInv, IInv', EndInv, "kill" \notin Ops, [Next]_vars
  PROVE  EndInv' /\ StaysAway
<1>0. /\ TypeOK /\ TypeOK' /\ sleepList \in Seq(Entries) /\ Aged \in Seq(Entries)
  BY AgedType DEF IInv, TypeOK
<1>1. \A list \in {Aged, sleepList} : \A v : SleepCount(list, v) = SleepCount(sleepList, v)
  BY <1>0, AgedCount
<1>2. CASE Start
  <2>1. /\ readyQueue \in Seq(Threads) /\ readyQueue # <<>> /\ currentThread = NoThread
        /\ currentThread' = Head(readyQueue) /\ readyQueue' = Tail(readyQueue)
        /\ UNCHANGED <<sleepList, live, joinMap, pc, target>>
    BY <1>0, <1>2 DEF Start, TypeOK
  <2>2. \A v \in Threads : Tokens(v)' = Tokens(v)
    BY <1>0, <1>2, StartTokens
  <2>3. \A v \in Threads : Gone(v)' <=> Gone(v)
    BY <2>1 DEF Gone
  <2>4. Cleaner \in live' /\ \A v \in Threads : pc'[v] \notin {"kill", "killRemove"}
    BY <2>1 DEF EndInv
  <2> QED BY <2>1, <2>2, <2>3, <2>4, EndSame
<1>3. CASE TimerTick \/ UNCHANGED vars
  <2>1. /\ sleepList' \in {Aged, sleepList}
        /\ UNCHANGED <<currentThread, readyQueue, live, joinMap, pc, target>>
    BY <1>3 DEF TimerTick, vars
  <2>2. \A v : SleepCount(sleepList', v) = SleepCount(sleepList, v)
    BY <1>1, <2>1
  <2>3. \A v : Tokens(v)' = Tokens(v)
    BY <2>1, <2>2 DEF Tokens, Count
  <2>4. \A v \in Threads : Gone(v)' <=> Gone(v)
    BY <2>1 DEF Gone
  <2>5. Cleaner \in live' /\ \A v \in Threads : pc'[v] \notin {"kill", "killRemove"}
    BY <2>1 DEF EndInv
  <2> QED BY <2>1, <2>2, <2>3, <2>4, <2>5, EndSame
<1>4. CASE TimerPreempt
  <2>1. PICK list \in {Aged, sleepList} : Yield(currentThread, pc[currentThread], list)
    BY <1>4 DEF TimerPreempt
  <2>2. PICK t \in Threads : t = currentThread
    BY <1>4 DEF TimerPreempt
  <2>3. /\ fault = "none" /\ UNCHANGED <<live, joinMap>>
        /\ list \in Seq(Entries) /\ Yield(t, pc[t], list)
        /\ \A v : SleepCount(list, v) = SleepCount(sleepList, v)
    BY <1>0, <1>1, <1>4, <2>1, <2>2 DEF TimerPreempt
  <2> QED BY <1>0, <2>2, <2>3, YieldEnds
<1>5. CASE CleanerStep
  BY <1>5, OtherCallEnds, ThreadsAssumption
<1>6. ASSUME NEW t \in Threads, VoluntaryYield(t)
      PROVE  EndInv' /\ StaysAway
  <2>1. /\ currentThread = t /\ fault = "none" /\ UNCHANGED <<live, joinMap>>
        /\ \E l : /\ Yield(t, l, sleepList)
                  /\ l = pc[t] \/ (l = "run" /\ pc[t] \in {"run", "yield"})
    BY <1>6 DEF VoluntaryYield, Running
  <2> QED BY <1>0, <2>1, YieldEnds
<1>7. ASSUME NEW t \in Threads, ThreadStep(t)
      PROVE  EndInv' /\ StaysAway
  <2>1. CASE BlockEnter(t)
    <3>1. /\ pc[t] = "block" /\ Goto(t, "blockLoop")
          /\ UNCHANGED <<currentThread, readyQueue, sleepList, live, joinMap, target>>
      BY <2>1 DEF BlockEnter, Running
    <3>2. \A v \in Threads : Tokens(v)' = Tokens(v)
      BY <3>1 DEF Tokens
    <3>3. \A v \in Threads : /\ pc'[v] \in InBlock <=> pc[v] \in InBlock
                             /\ pc'[v] = "blocked" <=> pc[v] = "blocked"
                             /\ pc'[v] = "new" <=> pc[v] = "new"
                             /\ pc'[v] \in {"kill", "killRemove"} <=> pc[v] \in {"kill", "killRemove"}
      BY <1>0, <3>1 DEF Goto, TypeOK, InBlock
    <3>4. \A v \in Threads : Gone(v)' <=> Gone(v)
      BY <3>1, <3>3 DEF Gone
    <3>5. EndInv'
      BY <3>1, <3>2, <3>3, <3>4 DEF EndInv
    <3> QED BY <3>3, <3>5 DEF StaysAway
  <2>2. CASE BlockSwitch(t)
    BY <1>0, <2>2, BlockSwitchEnds
  <2>3. CASE SleepAdd(t) \/ JoinAdd(t)
    BY <1>0, <2>3, WaitEnds
  <2>4. CASE \E u \in Threads : Ready(t, u)
    BY <1>0, <2>4, ReadyEnds
  <2>5. CASE Exit(t)
    BY <1>0, <2>5, ExitEnds
  <2>6. CASE KillLock(t) \/ KillRemove(t) \/ \E u \in Threads : KillBegin(t, u)
    BY <2>6 DEF KillLock, KillRemove, KillBegin, Running, EndInv
  <2>7. CASE \/ SleepEnter(t) \/ AllocEnter(t) \/ AllocExit(t)
             \/ LookReady(t) \/ LookSleepLock(t) \/ LookSleep(t) \/ JoinLock(t)
             \/ \E u \in Threads : JoinBegin(t, u)
    BY <2>7, OtherCallEnds
  <2> QED BY <1>7, <2>1, <2>2, <2>3, <2>4, <2>5, <2>6, <2>7 DEF ThreadStep
<1> QED BY <1>2, <1>3, <1>4, <1>5, <1>6, <1>7 DEF Next

\* The labels at which the cleaner has a terminated thread in its hands ...
Checking == {"look", "lookSleep", "scanSleep", "requeue", "addLoad", "addStore", "addSlot", "delete"}

\* ... and those at which it has seen that the thread is not in the ready queue.
Checked == {"lookSleep", "scanSleep", "delete"}

\* The cleaner frees a thread only after it has left the CPU.
FreeInv ==
  /\ pc[Cleaner] \in Checked => pc[target[Cleaner]] = "blocked"
  /\ \A t \in deleted : pc[t] = "blocked"

\* The threads that the cleaner knows of are terminated.
LEMMA CleanerHasGone ==
  ASSUME IInv
  PROVE  /\ \A t \in deleted : Gone(t)
         /\ pc[Cleaner] \in Checking => Gone(target[Cleaner])
<1>1. deleted \subseteq Threads
  BY DEF IInv, TypeOK
<1> QED BY <1>1, ThreadsAssumption DEF IInv, HasTarget, WakeInv, CleanerInv, Gone, Checking

\* Steps that leave the thread in the cleaner's hands and the freed threads alone.
LEMMA FreeSame ==
  ASSUME IInv, FreeInv, StaysAway, UNCHANGED deleted,
         pc'[Cleaner] \in Checked => pc[Cleaner] \in Checked /\ target'[Cleaner] = target[Cleaner]
  PROVE  FreeInv'
<1>1. \A t \in deleted' : pc'[t] = "blocked"
  BY CleanerHasGone DEF FreeInv, StaysAway, Gone
<1>2. pc'[Cleaner] \in Checked => pc'[target'[Cleaner]] = "blocked"
  BY CleanerHasGone DEF FreeInv, StaysAway, Gone, Checking, Checked
<1> QED BY <1>1, <1>2 DEF FreeInv

\* getThread() misses a terminated thread in the ready queue only when it has
\* left the CPU: nothing else holds it.
LEMMA LookReadyFrees ==
  ASSUME IInv, EndInv, FreeInv, StaysAway, NEW t \in Threads, LookReady(t)
  PROVE  FreeInv'
<1>0. TypeOK /\ currentThread = t /\ pc[t] = "look" /\ UNCHANGED <<threadQueue, deleted, target>>
  BY DEF IInv, LookReady, Running, Found
<1>1. CASE t = Cleaner /\ ~InSeq(readyQueue, target[t])
  <2>1. Gone(target[t]) /\ Goto(t, "lookSleep")
    BY <1>0, <1>1, CleanerHasGone DEF LookReady, Checking
  <2>2. /\ SleepCount(sleepList, target[t]) = 0 /\ JoinCount(joinMap, live, target[t]) = 0
        /\ Tokens(target[t]) = IF pc[target[t]] = "blocked" THEN 0 ELSE 1
    BY <2>1 DEF EndInv, Gone
  <2>3. target[t] # currentThread
    BY <1>0, <1>1, <2>1 DEF EndInv, Gone
  <2>4. Occurrences(readyQueue, target[t]) = 0
    BY <1>0, <1>1, OccurrencesType DEF TypeOK
  <2>5. pc[target[t]] = "blocked"
    BY <1>0, <2>2, <2>3, <2>4, TokensSum
  <2>6. pc'[Cleaner] = "lookSleep" /\ pc'[target[t]] = "blocked"
    BY <1>0, <1>1, <2>1, <2>5 DEF Goto, TypeOK, StaysAway, Gone
  <2>7. \A v \in deleted' : pc'[v] = "blocked"
    BY <1>0, CleanerHasGone DEF FreeInv, StaysAway, Gone
  <2> QED BY <1>0, <1>1, <2>6, <2>7 DEF FreeInv, InSeq, Checking
<1>2. CASE t = Cleaner /\ InSeq(readyQueue, target[t])
  <2>1. pc'[Cleaner] = "requeue"
    BY <1>0, <1>2 DEF LookReady, Found, Goto, TypeOK
  <2> QED BY <1>0, <1>2, <2>1, FreeSame DEF Checking, Checked
<1>3. CASE t # Cleaner
  <2>1. pc'[Cleaner] = pc[Cleaner]
    BY <1>0, <1>3, ThreadsAssumption DEF LookReady, Found, Goto, TypeOK
  <2> QED BY <1>0, <2>1, FreeSame
<1> QED BY <1>1, <1>2, <1>3

\* exit() does not touch what the cleaner has in its hands.
LEMMA ExitFrees ==
  ASSUME IInv, FreeInv, StaysAway, NEW t \in Threads, Exit(t)
  PROVE  FreeInv'
<1>1. pc'[Cleaner] = pc[Cleaner] /\ UNCHANGED <<deleted, target>>
  BY ThreadsAssumption DEF IInv, TypeOK, Exit, Running, Workers, Goto
<1> QED BY <1>1, FreeSame

\* The cleaner frees what it has checked; what it polls it checks first.
LEMMA CleanerFrees ==
  ASSUME IInv, FreeInv, StaysAway, CleanerStep
  PROVE  FreeInv'
<1>0. TypeOK /\ Cleaner \in Threads
  BY ThreadsAssumption DEF IInv
<1>1. CASE CleanerDelete
  <2>1. /\ pc[Cleaner] = "delete" /\ pc'[Cleaner] = "run" /\ deleted' = deleted \cup {target[Cleaner]}
    BY <1>0, <1>1 DEF CleanerDelete, Goto, TypeOK, Running
  <2>2. pc[target[Cleaner]] = "blocked" /\ Gone(target[Cleaner])
    BY <2>1, CleanerHasGone DEF FreeInv, Checked, Checking
  <2>3. pc'[target[Cleaner]] = "blocked"
    BY <2>2 DEF StaysAway, Gone
  <2>4. \A v \in deleted : pc'[v] = "blocked"
    BY CleanerHasGone DEF FreeInv, StaysAway, Gone
  <2> QED BY <2>1, <2>3, <2>4 DEF FreeInv, Checked
<1>2. CASE CleanerPollRead
  <2>1. deleted' = deleted /\ (pc'[Cleaner] = "look" \/ pc'[Cleaner] = "pollRead")
    BY <1>0, <1>2 DEF CleanerPollRead, Running, Goto, TypeOK
  <2> QED BY <2>1, FreeSame DEF Checked
<1>3. CASE \/ CleanerPoll \/ CleanerPollStore \/ CleanerRequeue \/ CleanerAddLoad \/ CleanerAddStore
           \/ CleanerAddSlot \/ CleanerAddLength \/ CleanerAddDone
  <2>1. deleted' = deleted /\ pc'[Cleaner] \notin Checked
    BY <1>0, <1>3 DEF CleanerPoll, CleanerPollStore, CleanerRequeue, CleanerAddLoad, CleanerAddStore,
                      CleanerAddSlot, CleanerAddLength, CleanerAddDone, Goto, TypeOK, Checked
  <2> QED BY <2>1, FreeSame
<1> QED BY <1>1, <1>2, <1>3 DEF CleanerStep

\* Every step keeps the cleaner's book-keeping, as long as nobody kills.
LEMMA NextFrees ==
  ASSUME IInv, IInv', EndInv, FreeInv, StaysAway, "kill" \notin Ops, [Next]_vars
  PROVE  FreeInv'
<1>0. TypeOK /\ TypeOK' /\ Cleaner \in Threads /\ sleepList \in Seq(Entries) /\ Aged \in Seq(Entries)
  BY ThreadsAssumption, AgedType DEF IInv, TypeOK
<1>1. CASE Start \/ TimerTick \/ UNCHANGED vars
  <2>1. UNCHANGED <<pc, target, threadQueue, deleted>>
    BY <1>1 DEF Start, TimerTick, vars
  <2> QED BY <2>1, FreeSame
<1>2. ASSUME NEW t \in Threads, NEW l, NEW list \in Seq(Entries), Yield(t, l, list),
             currentThread = t, fault = "none",
             l = pc[t] \/ (l = "run" /\ pc[t] \in {"run", "yield"}),
             \A v : SleepCount(list, v) = SleepCount(sleepList, v),
             UNCHANGED <<live, joinMap, threadQueue, deleted>>
      PROVE  FreeInv'
  <2>1. \/ pc'[Cleaner] = pc[Cleaner] /\ target'[Cleaner] = target[Cleaner]
        \/ pc'[Cleaner] = "run"
    BY <1>0, <1>2, YieldLabels
  <2> QED BY <1>2, <2>1, FreeSame DEF Checking, Checked
<1>3. CASE TimerPreempt
  <2>1. PICK list \in {Aged, sleepList} : Yield(currentThread, pc[currentThread], list)
    BY <1>3 DEF TimerPreempt
  <2>2. PICK t \in Threads : t = currentThread
    BY <1>3 DEF TimerPreempt
  <2>3. /\ fault = "none" /\ UNCHANGED <<live, joinMap, threadQueue, deleted>>
        /\ list \in Seq(Entries) /\ Yield(t, pc[t], list)
        /\ \A v : SleepCount(list, v) = SleepCount(sleepList, v)
    BY <1>0, <1>3, <2>1, <2>2, AgedCount DEF TimerPreempt
  <2> QED BY <1>2, <2>2, <2>3
<1>4. CASE CleanerStep
  BY <1>4, CleanerFrees
<1>5. ASSUME NEW t \in Threads, VoluntaryYield(t)
      PROVE  FreeInv'
  <2>1. /\ currentThread = t /\ fault = "none" /\ UNCHANGED <<live, joinMap, threadQueue, deleted>>
        /\ \E l : /\ Yield(t, l, sleepList)
                  /\ l = pc[t] \/ (l = "run" /\ pc[t] \in {"run", "yield"})
    BY <1>5 DEF VoluntaryYield, Running
  <2> QED BY <1>0, <1>2, <2>1
<1>6. ASSUME NEW t \in Threads, ThreadStep(t)
      PROVE  FreeInv'
  <2>1. CASE BlockSwitch(t)
    <3>1. UNCHANGED <<threadQueue, deleted>> /\ pc[t] = "blockLoop"
      BY <2>1 DEF BlockSwitch, Running
    <3>2. \/ pc'[Cleaner] = pc[Cleaner] /\ target'[Cleaner] = target[Cleaner]
          \/ pc'[Cleaner] \in {"run", "blocked"}
      <4>1. CASE UNCHANGED <<pc, target>>
        BY <4>1
      <4>2. CASE Goto(t, "run") /\ target' = [target EXCEPT ![t] = NoThread]
        BY <1>0, <4>2 DEF Goto, TypeOK
      <4>3. CASE currentThread' \in Threads /\ SwitchTo(t, "blocked", currentThread')
        BY <1>0, <4>3 DEF SwitchTo, TypeOK
      <4> QED BY <1>0, <2>1, <4>1, <4>2, <4>3, BlockSwitchTokens
    <3> QED BY <3>1, <3>2, FreeSame DEF Checking, Checked
  <2>2. CASE LookReady(t)
    BY <2>2, LookReadyFrees
  <2>3. CASE Exit(t)
    BY <2>3, ExitFrees
  <2>4. CASE KillLock(t) \/ KillRemove(t) \/ \E u \in Threads : KillBegin(t, u)
    BY <2>4 DEF KillLock, KillRemove, KillBegin, Running, EndInv
  <2>5. ASSUME NEW u \in Threads, Ready(t, u)
        PROVE  FreeInv'
    <3>1. UNCHANGED <<threadQueue, deleted, target>> /\ pc'[Cleaner] \in {pc[Cleaner], "run"}
      BY <1>0, <2>5 DEF Ready, Goto, TypeOK
    <3> QED BY <3>1, FreeSame DEF Checking, Checked
  <2>6. CASE \/ BlockEnter(t) \/ SleepEnter(t) \/ SleepAdd(t) \/ AllocEnter(t) \/ AllocExit(t) \/ JoinLock(t)
    <3>1. UNCHANGED <<threadQueue, deleted, target>>
          /\ \E l \in {"blockLoop", "sleepAdd", "block", "alloc", "run", "joinAdd"} : Goto(t, l)
      BY <2>6 DEF BlockEnter, SleepEnter, SleepAdd, AllocEnter, AllocExit, JoinLock
    <3>2. pc'[Cleaner] \in {pc[Cleaner], "blockLoop", "sleepAdd", "block", "alloc", "run", "joinAdd"}
      BY <1>0, <3>1 DEF Goto, TypeOK
    <3> QED BY <3>1, <3>2, FreeSame DEF Checking, Checked
  <2>7. CASE LookSleepLock(t) \/ LookSleep(t)
    <3>1. UNCHANGED <<threadQueue, deleted>> /\ pc[t] \in {"lookSleep", "scanSleep"}
      BY <2>7 DEF LookSleepLock, LookSleep, Running
    <3>2. CASE t = Cleaner
      <4>1. target'[Cleaner] = target[Cleaner]
        BY <1>0, <2>7, <3>2 DEF LookSleepLock, LookSleep, Found, NotFound, TypeOK
      <4> QED BY <3>1, <3>2, <4>1, FreeSame DEF Checking, Checked
    <3>3. CASE t # Cleaner
      <4>1. target'[Cleaner] = target[Cleaner] /\ pc'[Cleaner] = pc[Cleaner]
        BY <1>0, <2>7, <3>3 DEF LookSleepLock, LookSleep, Found, NotFound, Goto, TypeOK
      <4> QED BY <3>1, <4>1, FreeSame
    <3> QED BY <3>2, <3>3
  <2>8. ASSUME NEW u \in Threads, JoinBegin(t, u)
        PROVE  FreeInv'
    <3>1. UNCHANGED <<threadQueue, deleted>> /\ pc'[Cleaner] = pc[Cleaner] /\ target'[Cleaner] = target[Cleaner]
      BY <1>0, <2>8 DEF JoinBegin, Workers, Goto, TypeOK
    <3> QED BY <3>1, FreeSame
  <2>9. CASE JoinAdd(t)
    <3>1. UNCHANGED <<threadQueue, deleted>>
      BY <2>9 DEF JoinAdd
    <3>2. \/ Goto(t, "run") /\ target' = [target EXCEPT ![t] = NoThread]
          \/ Goto(t, "block") /\ UNCHANGED target
      BY <2>9 DEF JoinAdd
    <3>3. \/ pc'[Cleaner] = pc[Cleaner] /\ target'[Cleaner] = target[Cleaner]
          \/ pc'[Cleaner] \in {"run", "block"}
      BY <1>0, <3>2 DEF Goto, TypeOK
    <3> QED BY <3>1, <3>3, FreeSame DEF Checking, Checked
  <2> QED BY <1>6, <2>1, <2>2, <2>3, <2>4, <2>5, <2>6, <2>7, <2>8, <2>9 DEF ThreadStep
<1> QED BY <1>1, <1>3, <1>4, <1>5, <1>6 DEF Next

\* Without kill(), a thread is freed only when the scheduler does not refer to it
\* any more: getThread() of the cleaner is a sufficient check (SchedulerCleaner.cpp:69),
\* also for what the cleaner polls from a queue that a termination has torn.  That
\* it frees no thread twice is not part of it.
THEOREM FreedIsUnused == ("kill" \notin Ops) /\ Spec => []NoUseAfterFree
<1> SUFFICES ASSUME "kill" \notin Ops PROVE Spec => []NoUseAfterFree
  OBVIOUS
<1>1. Init => EndInv /\ FreeInv
  <2> SUFFICES ASSUME Init PROVE EndInv /\ FreeInv
    OBVIOUS
  <2>1. \A t \in Threads : ~Gone(t) /\ pc[t] \in {"run", "new"}
    BY DEF Init, Gone, InSeq
  <2>2. Cleaner \in live
    BY BootAssumption DEF Init
  <2>3. deleted = {} /\ pc[Cleaner] \in {"run", "new"}
    BY <2>1, ThreadsAssumption DEF Init
  <2> QED BY <2>1, <2>2, <2>3 DEF EndInv, FreeInv, Checking, Checked
<1>2. IInv /\ IInv' /\ EndInv /\ FreeInv /\ [Next]_vars => EndInv' /\ FreeInv'
  BY NextEnds, NextFrees
<1>3. IInv /\ EndInv /\ FreeInv => NoUseAfterFree
  <2> SUFFICES ASSUME IInv, EndInv, FreeInv, NEW t \in deleted
               PROVE  /\ t # currentThread
                      /\ ~InSeq(readyQueue, t)
                      /\ ~Sleeping(t)
                      /\ \A u \in live : ~InSeq(joinMap[u], t)
    BY DEF NoUseAfterFree
  <2>1. TypeOK /\ Gone(t) /\ pc[t] = "blocked"
    BY CleanerHasGone DEF IInv, FreeInv
  <2>2. SleepCount(sleepList, t) = 0 /\ JoinCount(joinMap, live, t) = 0 /\ Tokens(t) = 0
    BY <2>1 DEF EndInv, Gone
  <2>3. t # currentThread /\ Occurrences(readyQueue, t) = 0
    BY <2>1, <2>2, TokensSum
  <2>4. /\ readyQueue \in Seq(Threads) /\ sleepList \in Seq(Entries)
        /\ joinMap \in [Threads -> Seq(Threads)] /\ live \in SUBSET Threads
    BY <2>1 DEF TypeOK
  <2>5. ~InSeq(readyQueue, t)
    BY <2>3, <2>4, OccurrencesType
  <2>6. ~Sleeping(t)
    BY <2>2, <2>4, SleepCountType DEF Sleeping
  <2>7. \A u \in live : ~InSeq(joinMap[u], t)
    BY <2>2, <2>4, JoinCountType
  <2> QED BY <2>3, <2>5, <2>6, <2>7
<1> QED BY <1>1, <1>2, <1>3, InvHolds, PTL DEF Spec
=============================================================================
