-------------------------- MODULE ProcessLifecycle --------------------------
(***************************************************************************)
(* The end of a process: its threads are terminated by a thread of its own *)
(* (exitCurrentProcess) or of another process (killProcess), an            *)
(* AddressSpaceCleaner thread unmaps its memory once it is alone, and the  *)
(* scheduler cleaner frees the Process.  Threads of other processes, which *)
(* are not terminated here, may join it meanwhile, and the threads of the  *)
(* process may join each other.                                            *)
(*                                                                         *)
(* ready(), exit() and kill() of the scheduler are atomic here: they run   *)
(* with readyQueueLock (module Scheduler has their steps).  Between them   *)
(* every thread may be preempted.                                          *)
(***************************************************************************)
EXTENDS Integers, FiniteSets

CONSTANTS
  Loader, Main, Workers,  \* the threads of the process
  Killers, Joiners,       \* threads of other processes
  None

User == {Main} \cup Workers

\* Threads that can terminate the process; each starts a cleaner for it.
Terminators == User \cup {Loader} \cup Killers
Cleaner(t) == [cleans |-> t]
Cleaners == {Cleaner(t) : t \in Terminators}
Members == User \cup {Loader} \cup Cleaners
Actors == Members \cup Killers \cup Joiners

ASSUME ProcessAssumption ==
  /\ Loader \notin User /\ Main \notin Workers /\ None \notin User \cup {Loader}
  /\ (Killers \cup Joiners) \cap (User \cup {Loader, None}) = {} /\ Killers \cap Joiners = {}
  /\ Cleaners \cap (Terminators \cup Joiners \cup {None}) = {}
  /\ IsFiniteSet(Workers \cup Killers)

VARIABLES
  system,     \* "ok", or what has stopped the system
  status,     \* of each thread of the process: new, ready, blocking, gone,
              \* freed, or revived: gone and made ready again
  joins,      \* the thread that each of them has found for a join or whose join
              \* list it is in
  joinLocked, \* whether joinLock is taken for ever
  revived,    \* history: whether a terminated thread was made ready again
  threads,    \* threads of Process; joinMap contains the same ones
  mainThread,
  finished,
  listed,     \* whether processList contains the process
  unmapped,   \* whether its user memory is unmapped
  queued,     \* how often processQueue of the scheduler cleaner contains it
  freed,      \* whether the Process is deleted
  sweeper,    \* the scheduler cleaner: "threads" or "processes"
  pc, todo    \* the next step of each thread and the threads it has yet to kill

lists == <<joins, joinLocked, revived>>
process == <<mainThread, finished, listed, unmapped, queued, freed>>
vars == <<system, status, joins, joinLocked, revived, threads, mainThread, finished, listed, unmapped, queued, freed, sweeper, pc, todo>>

Init ==
  /\ system = "ok"
  /\ status = [t \in Members |-> IF t = Loader THEN "ready" ELSE "new"]
  /\ joins = [t \in Members |-> None] /\ joinLocked = FALSE /\ revived = FALSE
  /\ threads = {Loader} /\ mainThread = None
  /\ finished = FALSE /\ listed = TRUE /\ unmapped = FALSE /\ queued = 0 /\ freed = FALSE
  /\ sweeper = "threads"
  /\ pc = [t \in Actors |-> "run"] /\ todo = [t \in Actors |-> {}]

-----------------------------------------------------------------------------
\* A thread of another process always runs, one of this process until it is
\* terminated.  (One that was made ready again is back in user mode; what it
\* does there is not followed.)
At(t, l) == system = "ok" /\ pc[t] = l /\ (t \in Members => status[t] = "ready")

Goto(t, l) == pc' = [pc EXCEPT ![t] = l]

\* The system stops: readyQueueLock is never released, or memory that is free
\* is used.
Stop(why) == system' = why /\ UNCHANGED <<status, lists, threads, process, sweeper, pc, todo>>

\* Scheduler::ready(), which waits for joinLock
Ready(t) ==
  /\ ~joinLocked
  /\ status' = [status EXCEPT ![t] = "ready"] /\ threads' = threads \cup {t}

\* The threads of the process in the join list of t
Waiting(t) == {u \in Members : joins[u] = t /\ pc[u] # "found"}

\* Scheduler::exit() and kill(), which wait for joinLock, too, forget the thread
\* and make all ready that are in its join list.  A thread that was killed in
\* the list is still there and runs again; it may even be freed.  The thread
\* itself stays in the list that it waits in.
Terminated(t, l, unkilled) ==
  /\ ~joinLocked
  /\ system' = IF \E u \in Waiting(t) : status[u] = "freed" THEN "threadUsed" ELSE "ok"
  /\ status' = [u \in Members |-> IF u = t THEN l
                                  ELSE IF u \in Waiting(t) /\ status[u] = "gone" THEN "revived" ELSE status[u]]
  /\ revived' = (revived \/ \E u \in Waiting(t) \ {t} : status[u] \in {"gone", "freed"})
  /\ joins' = [u \in Members |-> IF u \in Waiting(t) \/ (u = t /\ pc[t] # "joined") THEN None ELSE joins[u]]
  /\ threads' = threads \ {t}
  /\ pc' = [u \in Actors |-> IF u = t THEN "run"
                             ELSE IF u \in Joiners /\ pc[u] = "joined" /\ t = mainThread THEN "returned"
                             ELSE IF u \in Waiting(t) THEN "run" ELSE pc[u]]
  /\ todo' = [unkilled EXCEPT ![t] = {}]
  /\ UNCHANGED joinLocked

-----------------------------------------------------------------------------
(***************************************************************************)
(* The threads of the process                                              *)
(***************************************************************************)
\* BinaryLoader::run() sets the main thread, ...
SetMain ==
  /\ At(Loader, "run")
  /\ mainThread' = Main /\ Goto(Loader, "ready")
  /\ UNCHANGED <<system, status, lists, threads, finished, listed, unmapped, queued, freed, sweeper, todo>>

\* ... starts it and ends.
ReadyMain ==
  /\ At(Loader, "ready")
  /\ Ready(Main) /\ Goto(Loader, "exit")
  /\ UNCHANGED <<system, lists, process, sweeper, todo>>

CreateThread(t, u) ==
  /\ t \in User /\ At(t, "run") /\ u \in Workers /\ status[u] = "new"
  /\ Ready(u)
  /\ UNCHANGED <<system, lists, process, sweeper, pc, todo>>

\* JOIN_THREAD: getThread() finds a thread that is ready or sleeps, ...
FindThread(t, u) ==
  /\ t \in User /\ At(t, "run") /\ u \in User \ {t}
  /\ status[u] \in {"ready", "blocking", "revived"} /\ pc[u] # "joined"
  /\ joins' = [joins EXCEPT ![t] = u] /\ Goto(t, "found")
  /\ UNCHANGED <<system, status, joinLocked, revived, threads, process, sweeper, todo>>

\* ... and Scheduler::join() waits for it, or returns and keeps joinLock when
\* the thread has terminated since and is not in joinMap.
JoinThread(t) ==
  /\ At(t, "found") /\ ~joinLocked
  /\ IF status[joins[t]] = "freed" THEN Stop("threadUsed")
     ELSE /\ IF joins[t] \in threads THEN Goto(t, "joined") /\ UNCHANGED <<joins, joinLocked>>
             ELSE Goto(t, "run") /\ joins' = [joins EXCEPT ![t] = None] /\ joinLocked' = TRUE
          /\ UNCHANGED <<system, status, revived, threads, process, sweeper, todo>>

\* EXIT_THREAD, or the run() of a kernel thread returns
ExitThread(t) ==
  /\ At(t, "exit") \/ (t \in Workers /\ At(t, "run"))
  /\ ~joinLocked
  /\ IF freed THEN Stop("processUsed")
     ELSE Terminated(t, "blocking", todo) /\ UNCHANGED <<process, sweeper>>

\* block() at the end of Scheduler::exit(): the thread never runs again.
Block(t) ==
  /\ system = "ok" /\ status[t] = "blocking"
  /\ status' = [status EXCEPT ![t] = "gone"]
  /\ UNCHANGED <<system, lists, threads, process, sweeper, pc, todo>>

-----------------------------------------------------------------------------
(***************************************************************************)
(* exitCurrentProcess() and killProcess()                                  *)
(***************************************************************************)
\* killAllThreadsButCurrent() iterates over a copy of the list.  The loader
\* fails when there is no such file.
ExitProcess(t) ==
  /\ t \in User \cup {Loader} /\ At(t, "run")
  /\ todo' = [todo EXCEPT ![t] = threads \ {t}]
  /\ Goto(t, "kill")
  /\ UNCHANGED <<system, status, lists, threads, process, sweeper>>

\* KILL_PROCESS: getProcess() finds the process in the list.
GetProcess(k) ==
  /\ At(k, "run") /\ listed
  /\ Goto(k, "snapshot")
  /\ UNCHANGED <<system, status, lists, threads, process, sweeper, todo>>

KillProcess(k) ==
  /\ At(k, "snapshot")
  /\ IF freed THEN Stop("processUsed")
     ELSE /\ todo' = [todo EXCEPT ![k] = threads]
          /\ Goto(k, "kill")
          /\ UNCHANGED <<system, status, lists, threads, process, sweeper>>

\* Scheduler::kill(): joinMap has no entry for a thread that has terminated
\* already; the exception is handled with readyQueueLock held.
Kill(t, u) ==
  /\ At(t, "kill") /\ u \in todo[t]
  /\ CASE status[u] = "freed" -> Stop("threadUsed")
       [] status[u] # "freed" /\ u \notin threads -> ~joinLocked /\ Stop("killedTwice")
       [] status[u] # "freed" /\ u \in threads -> Terminated(u, "gone", [todo EXCEPT ![t] = @ \ {u}])
                                                 /\ UNCHANGED <<process, sweeper>>

ReadyCleaner(t) ==
  /\ At(t, "kill") /\ todo[t] = {}
  /\ IF freed THEN Stop("processUsed")
     ELSE Ready(Cleaner(t)) /\ Goto(t, "finish") /\ UNCHANGED <<system, lists, process, sweeper, todo>>

\* setExitCode() and removal from the list
Finish(t) ==
  /\ At(t, "finish")
  /\ IF freed THEN Stop("processUsed")
     ELSE /\ finished' = TRUE /\ listed' = FALSE
          /\ Goto(t, IF t \in Killers THEN "returned" ELSE "exit")
          /\ UNCHANGED <<system, status, lists, threads, mainThread, unmapped, queued, freed, sweeper, todo>>

-----------------------------------------------------------------------------
(***************************************************************************)
(* AddressSpaceCleaner::run()                                              *)
(***************************************************************************)
\* Fault: the cleaner does not count itself.
Alone_Early == Cardinality(threads) <= 2

Alone == Cardinality(threads) <= 1

AwaitAlone(c) ==
  /\ c \in Cleaners /\ At(c, "run")
  /\ IF freed THEN Stop("processUsed")
     ELSE Alone /\ Goto(c, "unmap") /\ UNCHANGED <<system, status, lists, threads, process, sweeper, todo>>

Unmap(c) ==
  /\ At(c, "unmap")
  /\ unmapped' = TRUE /\ Goto(c, "cleanup")
  /\ UNCHANGED <<system, status, lists, threads, mainThread, finished, listed, queued, freed, sweeper, todo>>

\* Fault: the process is not handed over.
Cleanup_Forgotten(c) ==
  /\ At(c, "cleanup")
  /\ Goto(c, "exit")
  /\ UNCHANGED <<system, status, lists, threads, process, sweeper, todo>>

Cleanup(c) ==
  /\ At(c, "cleanup")
  /\ queued' = queued + 1 /\ Goto(c, "exit")
  /\ UNCHANGED <<system, status, lists, threads, mainThread, finished, listed, unmapped, freed, sweeper, todo>>

-----------------------------------------------------------------------------
(***************************************************************************)
(* SchedulerCleaner::run(): all threads, then all processes                *)
(***************************************************************************)
Sweeping(l) == system = "ok" /\ sweeper = l

\* The cleaner waits for a thread that getThread() still finds.
DeleteThread(t) ==
  /\ Sweeping("threads") /\ status[t] = "gone"
  /\ status' = [status EXCEPT ![t] = "freed"]
  /\ UNCHANGED <<system, lists, threads, process, sweeper, pc, todo>>

ThreadsDone ==
  /\ Sweeping("threads") /\ \A t \in Members : status[t] \notin {"blocking", "gone", "revived"}
  /\ sweeper' = "processes"
  /\ UNCHANGED <<system, status, lists, threads, process, pc, todo>>

DeleteProcess ==
  /\ Sweeping("processes") /\ queued > 0
  /\ IF freed THEN Stop("processUsed")
     ELSE /\ freed' = TRUE /\ queued' = queued - 1
          /\ UNCHANGED <<system, status, lists, threads, mainThread, finished, listed, unmapped, sweeper, pc, todo>>

ProcessesDone ==
  /\ Sweeping("processes") /\ queued = 0
  /\ sweeper' = "threads"
  /\ UNCHANGED <<system, status, lists, threads, process, pc, todo>>

-----------------------------------------------------------------------------
(***************************************************************************)
(* JOIN_PROCESS                                                            *)
(***************************************************************************)
JoinProcess(j) ==
  /\ At(j, "run") /\ listed
  /\ Goto(j, "await")
  /\ UNCHANGED <<system, status, lists, threads, process, sweeper, todo>>

\* Fault: a finished process is not waited for.
JoinStep_Finished == IF finished THEN "returned" ELSE IF mainThread # None THEN "join" ELSE "await"

\* Process::join() waits for the main thread, unless there will be none.
JoinStep == IF mainThread # None THEN "join" ELSE IF finished THEN "returned" ELSE "await"

AwaitMain(j) ==
  /\ At(j, "await")
  /\ IF freed THEN Stop("processUsed")
     ELSE /\ JoinStep # "await" /\ Goto(j, JoinStep)
          /\ UNCHANGED <<system, status, lists, threads, process, sweeper, todo>>

\* Scheduler::join() returns and keeps joinLock when the thread is not in
\* joinMap, because it has terminated or because it is not yet ready.
JoinMain(j) ==
  /\ At(j, "join") /\ ~joinLocked
  /\ IF freed \/ status[mainThread] = "freed" THEN Stop("threadUsed")
     ELSE /\ IF mainThread \in threads THEN Goto(j, "joined") /\ UNCHANGED joinLocked
             ELSE Goto(j, "returned") /\ joinLocked' = TRUE
          /\ UNCHANGED <<system, status, joins, revived, threads, process, sweeper, todo>>

-----------------------------------------------------------------------------
\* What a thread does once it has begun
Proceed(t) ==
  \/ ReadyCleaner(t) \/ Finish(t) \/ \E u \in Members : Kill(t, u)
  \/ t \in Members /\ (Block(t) \/ JoinThread(t) \/ (pc[t] = "exit" /\ ExitThread(t)))
  \/ AwaitAlone(t) \/ Unmap(t) \/ Cleanup(t)
  \/ t \in Killers /\ KillProcess(t)
  \/ t \in Joiners /\ (AwaitMain(t) \/ JoinMain(t))

Sweep == ThreadsDone \/ DeleteProcess \/ ProcessesDone \/ \E t \in Members : DeleteThread(t)

Next ==
  \/ SetMain \/ ReadyMain \/ Sweep
  \/ \E t \in Members :
       \/ ExitProcess(t) \/ ExitThread(t)
       \/ \E u \in Workers : CreateThread(t, u)
       \/ \E u \in User : FindThread(t, u)
  \/ \E k \in Killers : GetProcess(k)
  \/ \E j \in Joiners : JoinProcess(j)
  \/ \E t \in Actors : Proceed(t)

Spec == Init /\ [][Next]_vars

\* The scheduler runs every ready thread again; nothing makes a thread of the
\* user end.
FairSpec == Spec /\ WF_vars(Sweep) /\ \A t \in Actors : WF_vars(Proceed(t))

-----------------------------------------------------------------------------
(***************************************************************************)
(* Properties                                                              *)
(***************************************************************************)
\* Types of the variables; the list of the process and joinMap hold exactly
\* the threads that are started and not terminated (Scheduler::ready(), exit(),
\* kill()).
TypeOK ==
  /\ system \in {"ok", "killedTwice", "threadUsed", "processUsed"}
  /\ status \in [Members -> {"new", "ready", "blocking", "gone", "freed", "revived"}]
  /\ joins \in [Members -> User \cup {None}] /\ {joinLocked, revived} \subseteq BOOLEAN
  /\ threads = {t \in Members : status[t] = "ready"}
  /\ mainThread \in {None, Main} /\ {finished, listed, unmapped, freed} \subseteq BOOLEAN
  /\ queued \in 0..Cardinality(Cleaners) /\ sweeper \in {"threads", "processes"}
  /\ pc \in [Actors -> {"run", "ready", "exit", "found", "snapshot", "kill", "finish", "unmap", "cleanup",
                        "await", "join", "joined", "returned"}]
  /\ todo \in [Actors -> SUBSET Members]

\* The user memory of a process is unmapped, and the Process is freed, only
\* when none of its threads can return to user mode, however the process is
\* terminated and by whom, and whatever threads it creates meanwhile
\* (AddressSpaceCleaner::run()).  It ends where kill() or exit() make a thread
\* ready again that was killed while it waited in a join list
\* (Scheduler.cpp:129-131, 162-164): the process no longer counts that one.
UserMemoryKept ==
  /\ TypeOK
  /\ ~revived /\ (unmapped \/ queued > 0 \/ freed)
       => \A t \in User \cup {Loader} : status[t] \notin {"ready", "revived"}

\* When Process::join() has returned, the main thread does not run any more: it
\* has terminated, or the process has ended without one.  Where it returns
\* before the main thread is started, because setMainThread() comes before
\* ready() (BinaryLoader.cpp:98-99), the main thread never will be started:
\* the join has left joinLock taken (Scheduler.cpp:275).
JoinMeansEnd ==
  ~revived => \A j \in Joiners : pc[j] = "returned" =>
    IF mainThread = None THEN finished
    ELSE status[mainThread] \in {"blocking", "gone", "freed"} \/ (status[mainThread] = "new" /\ joinLocked)

\* Nothing of a terminated process is left: the Process is freed, unless a
\* thread that it created meanwhile stays, two cleaners wait for each other,
\* joinLock stays taken or a killed thread runs again
\* (exitCurrentProcess(), killProcess(), SchedulerCleaner::run()).
Undisturbed ==
  /\ system = "ok" /\ ~joinLocked /\ ~revived
  /\ finished => /\ Cardinality(threads \cap Cleaners) <= 1
                 /\ \A t \in User : status[t] = "ready" => pc[t] \in {"kill", "finish", "exit"}
CleanedUp == []Undisturbed => (finished ~> freed)
=============================================================================
