----------------------- MODULE ProcessLifecycleProofs -----------------------
(***************************************************************************)
(* For any number of threads of the process, of threads that kill it and   *)
(* of threads that join it: until a killed thread is made ready again, no   *)
(* thread of the process can return to user mode once its memory is        *)
(* unmapped, and a join returns after the end.                             *)
(***************************************************************************)
EXTENDS ProcessLifecycle, TLAPS, FiniteSetTheorems

\* A cleaner is started once, by the thread that it is for: that one never
\* gets back to the state in which it could terminate the process again.
CleanerInv ==
  /\ \A t \in Actors : pc[t] = "kill" => t \in Terminators
  /\ \A t \in Actors : pc[t] \in {"unmap", "cleanup"} => t \in Cleaners
  /\ \A t \in Terminators :
       pc[t] \in {"run", "found", "joined", "snapshot", "kill"} /\ (t \in Members => status[t] \in {"new", "ready"})
         => status[Cleaner(t)] = "new"

\* Only threads that have been started are killed.
TodoInv == \A t \in Actors : \A u \in todo[t] : status[u] # "new"

\* The main thread is started once, by the loader.
MainInv ==
  /\ status[Loader] = "ready" /\ pc[Loader] \in {"run", "ready"} => status[Main] = "new"
  /\ pc[Loader] = "ready" => mainThread = Main

\* Who terminates the process has killed the loader, or is the loader, so that
\* no main thread is set after the end.
LoaderInv ==
  /\ \A t \in Actors : pc[t] = "kill" => t = Loader \/ status[Loader] # "ready" \/ Loader \in todo[t]
  /\ \A t \in Actors : pc[t] = "finish" => t = Loader \/ status[Loader] # "ready"
  /\ finished => status[Loader] # "ready" \/ pc[Loader] # "run"
  /\ status[Loader] # "new"

\* A cleaner that found itself alone is still alone, but for other cleaners.
AloneInv ==
  (unmapped \/ queued > 0 \/ freed \/ \E c \in Actors : pc[c] \in {"unmap", "cleanup"})
    => \A t \in User \cup {Loader} : status[t] # "ready"

\* A thread is in a join list only while it waits there, or once it is
\* terminated; only the threads of the user join each other.
ListInv ==
  /\ \A t \in Members : status[t] = "revived" => revived
  /\ \A t \in Members : joins[t] # None =>
       t \in User /\ (status[t] \in {"new", "ready"} => pc[t] \in {"found", "joined"})
  /\ \A t \in Members : pc[t] \in {"found", "joined"} => t \in User
  /\ \A j \in Joiners : pc[j] = "join" => mainThread = Main

\* Each cleaner hands the process over at most once.
Handed == {c \in Cleaners : pc[c] = "exit" \/ status[c] \in {"blocking", "gone", "freed"}}
QueueInv == queued <= Cardinality(Handed)

IInv == TypeOK /\ CleanerInv /\ TodoInv /\ MainInv /\ LoaderInv /\ AloneInv /\ ListInv /\ QueueInv /\ JoinMeansEnd

-----------------------------------------------------------------------------
\* The threads are different from each other.
LEMMA Names ==
  /\ Loader \in Members /\ Main \in Members /\ Workers \subseteq Members /\ Loader # Main
  /\ Loader \notin Workers /\ Main \notin Workers /\ Main # None
  /\ Members \subseteq Actors /\ Killers \subseteq Actors /\ Joiners \subseteq Actors
  /\ Terminators \subseteq Actors
  /\ \A t \in Terminators : Cleaner(t) \in Cleaners
  /\ \A t, u \in Terminators : Cleaner(t) = Cleaner(u) => t = u
  /\ Cleaners \subseteq Members
  /\ \A c \in Cleaners : c \notin User \cup {Loader} /\ c \notin Killers /\ c \notin Joiners /\ c \notin Terminators
  /\ \A k \in Killers \cup Joiners : k \notin Members
  /\ Killers \cap Joiners = {} /\ None \notin Members
  /\ User \cup {Loader} \cup Killers = Terminators
<1>1. \A t, u \in Terminators : Cleaner(t) = Cleaner(u) => t = u
  BY DEF Cleaner
<1> QED BY <1>1, ProcessAssumption DEF Members, Actors, Cleaners, User, Terminators

\* The sets of cleaners are finite, so that their sizes can be compared.
LEMMA CleanersFinite ==
  /\ IsFiniteSet(Cleaners) /\ IsFiniteSet(Members) /\ Cardinality(Cleaners) \in Nat
  /\ \A A, B \in SUBSET Cleaners : A \subseteq B => Cardinality(A) <= Cardinality(B)
  /\ \A A \in SUBSET Cleaners : Cardinality(A) \in Nat
<1>1. IsFiniteSet(Terminators)
  <2>1. Terminators = (Workers \cup Killers) \cup ({Main, Loader})
    BY DEF Terminators, User
  <2>2. IsFiniteSet({Main, Loader})
    <3>1. IsFiniteSet({Main}) /\ IsFiniteSet({Loader}) /\ {Main, Loader} = {Main} \cup {Loader}
      BY FS_Singleton
    <3> QED BY <3>1, FS_Union
  <2> QED BY <2>1, <2>2, FS_Union, ProcessAssumption
<1>2. IsFiniteSet(Cleaners)
  <2> DEFINE f == [t \in Terminators |-> Cleaner(t)]
  <2>1. f \in Surjection(Terminators, Cleaners)
    BY DEF Surjection, Cleaners
  <2> QED BY <1>1, <2>1, FS_Surjection
<1>3. IsFiniteSet(Members)
  <2>1. IsFiniteSet(User \cup {Loader})
    BY <1>1, FS_Subset DEF Terminators
  <2> QED BY <1>2, <2>1, FS_Union DEF Members
<1>4. \A A \in SUBSET Cleaners : Cardinality(A) \in Nat /\ IsFiniteSet(A)
  BY <1>2, FS_Subset, FS_CardinalityType
<1>5. \A A, B \in SUBSET Cleaners : A \subseteq B => Cardinality(A) <= Cardinality(B)
  BY <1>4, FS_Subset
<1> QED BY <1>2, <1>3, <1>4, <1>5

\* A step that hands over no process.
LEMMA QueueKept ==
  ASSUME QueueInv, TypeOK, queued' = queued, Handed \subseteq Handed'
  PROVE  QueueInv'
<1>1. Handed \in SUBSET Cleaners /\ Handed' \in SUBSET Cleaners
  BY DEF Handed
<1> QED BY <1>1, CleanersFinite DEF QueueInv, TypeOK

\* The cleaner's queue is no longer than the number of cleaners.
LEMMA QueueBound ==
  ASSUME QueueInv', queued' \in Nat
  PROVE  queued' \in 0..Cardinality(Cleaners)
<1>1. Handed' \in SUBSET Cleaners
  BY DEF Handed
<1> QED BY <1>1, CleanersFinite DEF QueueInv

-----------------------------------------------------------------------------
\* Only the loader runs at the beginning.
LEMMA InitInv == Init => IInv
<1> SUFFICES ASSUME Init PROVE IInv
  OBVIOUS
<1> USE Names DEF Init
<1>1. QueueInv
  <2>1. Handed \in SUBSET Cleaners
    BY DEF Handed
  <2> QED BY <2>1, CleanersFinite DEF QueueInv
<1>2. TypeOK
  <2>1. queued \in 0..Cardinality(Cleaners)
    BY CleanersFinite
  <2>2. threads = {t \in Members : status[t] = "ready"}
    OBVIOUS
  <2> QED BY <2>1, <2>2 DEF TypeOK
<1>3. CleanerInv /\ TodoInv /\ MainInv
  BY DEF CleanerInv, TodoInv, MainInv
<1>4. LoaderInv /\ AloneInv /\ ListInv /\ JoinMeansEnd
  BY DEF LoaderInv, AloneInv, ListInv, JoinMeansEnd
<1> QED BY <1>1, <1>2, <1>3, <1>4 DEF IInv

-----------------------------------------------------------------------------
\* The system has stopped, or nothing happens.
LEMMA StopKeeps ==
  ASSUME IInv, system' \in {"ok", "killedTwice", "threadUsed", "processUsed"},
         sweeper' \in {"threads", "processes"},
         UNCHANGED <<status, lists, threads, process, pc, todo>>
  PROVE  IInv'
<1> USE DEF process, lists
<1>1. TypeOK'
  BY DEF IInv, TypeOK
<1>2. CleanerInv' /\ TodoInv' /\ MainInv' /\ LoaderInv' /\ JoinMeansEnd'
  BY DEF IInv, CleanerInv, TodoInv, MainInv, LoaderInv, JoinMeansEnd
<1>3. AloneInv' /\ ListInv'
  BY DEF IInv, AloneInv, ListInv
<1>4. QueueInv'
  BY DEF IInv, QueueInv, Handed
<1> QED BY <1>1, <1>2, <1>3, <1>4 DEF IInv

\* A thread of another process goes on, without a list of threads to kill.
LEMMA OtherKeeps ==
  ASSUME IInv, NEW t \in Killers \cup Joiners, NEW l \in {"snapshot", "await", "join", "joined", "returned"},
         pc' = [pc EXCEPT ![t] = l],
         l = "snapshot" => t \in Killers /\ pc[t] = "run",
         l = "join" => mainThread = Main,
         l = "returned" => \/ mainThread = None /\ finished
                           \/ mainThread = Main /\ status[Main] \in {"blocking", "gone", "freed", "revived"}
                           \/ mainThread = Main /\ status[Main] = "new" /\ joinLocked',
         t \in Killers => l = "snapshot", joinLocked' \in BOOLEAN, joinLocked => joinLocked',
         UNCHANGED <<system, status, joins, revived, threads, process, sweeper, todo>>
  PROVE  IInv'
<1> USE Names DEF process, lists, IInv
<1>1. \A u \in Actors : pc'[u] = IF u = t THEN l ELSE pc[u]
  BY DEF TypeOK
<1>2. TypeOK'
  BY DEF TypeOK
<1>3. CleanerInv'
  <2>1. t \in Terminators => l = "snapshot" /\ pc[t] = "run"
    BY DEF Members
  <2> QED BY <1>1, <2>1 DEF CleanerInv
<1>4. TodoInv' /\ MainInv'
  BY <1>1 DEF TodoInv, MainInv
<1>5. LoaderInv'
  BY <1>1 DEF LoaderInv
<1>6. AloneInv'
  BY <1>1 DEF AloneInv
<1>7. QueueInv'
  <2>1. \A c \in Cleaners : pc'[c] = pc[c]
    BY <1>1
  <2> QED BY <2>1, QueueKept DEF Handed
<1>8. JoinMeansEnd'
  BY <1>1 DEF JoinMeansEnd, ListInv
<1>9. ListInv'
  BY <1>1 DEF ListInv
<1> QED BY <1>2, <1>3, <1>4, <1>5, <1>6, <1>7, <1>8, <1>9

-----------------------------------------------------------------------------
\* The loader sets the main thread: the process has not been terminated, ...
LEMMA SetMainKeeps ==
  ASSUME IInv, SetMain
  PROVE  IInv'
<1> USE Names DEF IInv, SetMain, At, Goto, lists
<1>1. \A u \in Actors : pc'[u] = IF u = Loader THEN "ready" ELSE pc[u]
  BY DEF TypeOK
<1>2. TypeOK'
  BY DEF TypeOK
<1>3. CleanerInv'
  BY <1>1 DEF CleanerInv
<1>4. TodoInv' /\ MainInv'
  BY <1>1 DEF TodoInv, MainInv
<1>5. LoaderInv'
  BY <1>1 DEF LoaderInv
<1>6. AloneInv'
  BY <1>1 DEF AloneInv
<1>7. QueueInv'
  <2>1. \A c \in Cleaners : pc'[c] = pc[c]
    BY <1>1
  <2> QED BY <2>1, QueueKept DEF Handed
<1>8. JoinMeansEnd'
  <2>1. mainThread = None => ~finished
    BY DEF LoaderInv
  <2>2. status[Main] = "new" /\ mainThread \in {None, Main}
    BY DEF MainInv, TypeOK
  <2> QED BY <1>1, <2>1, <2>2 DEF JoinMeansEnd
<1>9. ListInv'
  BY <1>1 DEF ListInv
<1> QED BY <1>2, <1>3, <1>4, <1>5, <1>6, <1>7, <1>8, <1>9

\* ... and starts it, once.
LEMMA ReadyMainKeeps ==
  ASSUME IInv, ReadyMain
  PROVE  IInv'
<1> USE Names DEF IInv, ReadyMain, At, Goto, Ready, process, lists
<1>0. /\ status[Loader] = "ready" /\ status[Main] = "new" /\ mainThread = Main
  BY DEF MainInv
<1>1. /\ \A u \in Actors : pc'[u] = IF u = Loader THEN "exit" ELSE pc[u]
      /\ \A u \in Members : status'[u] = IF u = Main THEN "ready" ELSE status[u]
  BY DEF TypeOK
<1>2. TypeOK'
  <2>1. threads' = {t \in Members : status'[t] = "ready"}
    BY <1>1 DEF TypeOK
  <2> QED BY <2>1 DEF TypeOK
<1>3. CleanerInv'
  BY <1>0, <1>1 DEF CleanerInv, Cleaners, User
<1>4. TodoInv' /\ MainInv'
  BY <1>1 DEF TodoInv, MainInv, TypeOK
<1>5. LoaderInv'
  BY <1>1 DEF LoaderInv
<1>6. AloneInv'
  BY <1>0, <1>1 DEF AloneInv
<1>7. QueueInv'
  <2>1. \A c \in Cleaners : pc'[c] = pc[c] /\ status'[c] = status[c]
    BY <1>1 DEF User
  <2> QED BY <2>1, QueueKept DEF Handed
<1>8. JoinMeansEnd'
  BY <1>0, <1>1 DEF JoinMeansEnd
<1>9. ListInv'
  BY <1>0, <1>1 DEF ListInv, User
<1> QED BY <1>2, <1>3, <1>4, <1>5, <1>6, <1>7, <1>8, <1>9

\* A thread of the process creates another one: it is not terminated itself.
LEMMA CreateKeeps ==
  ASSUME IInv, NEW t \in Members, NEW u \in Workers, CreateThread(t, u)
  PROVE  IInv'
<1> USE Names DEF IInv, CreateThread, At, Ready, process, lists
<1>0. status[u] = "new" /\ status[t] = "ready" /\ t \in User /\ u \in Members /\ u # Main /\ u # Loader /\ u \in User
  BY DEF User
<1>1. \A v \in Members : status'[v] = IF v = u THEN "ready" ELSE status[v]
  BY DEF TypeOK
<1>2. TypeOK'
  <2>1. threads' = {v \in Members : status'[v] = "ready"}
    BY <1>0, <1>1 DEF TypeOK
  <2> QED BY <1>0, <2>1 DEF TypeOK
<1>3. CleanerInv'
  BY <1>0, <1>1 DEF CleanerInv
<1>4. TodoInv' /\ MainInv'
  BY <1>0, <1>1 DEF TodoInv, MainInv, TypeOK
<1>5. LoaderInv'
  BY <1>0, <1>1 DEF LoaderInv
<1>6. AloneInv'
  BY <1>0, <1>1 DEF AloneInv
<1>7. QueueInv'
  <2>1. \A c \in Cleaners : pc'[c] = pc[c] /\ status'[c] = status[c]
    BY <1>0, <1>1
  <2> QED BY <2>1, QueueKept DEF Handed
<1>8. JoinMeansEnd'
  BY <1>0, <1>1 DEF JoinMeansEnd, TypeOK
<1>9. ListInv'
  BY <1>0, <1>1 DEF ListInv
<1> QED BY <1>2, <1>3, <1>4, <1>5, <1>6, <1>7, <1>8, <1>9

\* A thread of the process has found another one for a join, ...
LEMMA FindThreadKeeps ==
  ASSUME IInv, NEW t \in Members, NEW u \in User, FindThread(t, u)
  PROVE  IInv'
<1> USE Names DEF IInv, FindThread, At, Goto, process
<1>0. t \in User /\ status[t] = "ready" /\ pc[t] = "run"
  OBVIOUS
<1>1. /\ \A v \in Actors : pc'[v] = IF v = t THEN "found" ELSE pc[v]
      /\ \A v \in Members : joins'[v] = IF v = t THEN u ELSE joins[v]
  BY DEF TypeOK
<1>2. TypeOK'
  BY DEF TypeOK
<1>3. CleanerInv'
  BY <1>0, <1>1 DEF CleanerInv
<1>4. TodoInv' /\ MainInv'
  BY <1>1 DEF TodoInv, MainInv
<1>5. LoaderInv'
  BY <1>1 DEF LoaderInv
<1>6. AloneInv'
  BY <1>1 DEF AloneInv
<1>7. QueueInv'
  <2>1. \A c \in Cleaners : c \in Handed => pc'[c] = "exit" \/ status'[c] \in {"blocking", "gone", "freed"}
    BY <1>0, <1>1 DEF Handed
  <2> QED BY <2>1, QueueKept DEF Handed
<1>8. JoinMeansEnd'
  BY <1>0, <1>1 DEF JoinMeansEnd
<1>9. ListInv'
  BY <1>0, <1>1 DEF ListInv
<1> QED BY <1>2, <1>3, <1>4, <1>5, <1>6, <1>7, <1>8, <1>9

\* ... and waits for it, or goes on and leaves joinLock taken.
LEMMA JoinThreadKeeps ==
  ASSUME IInv, NEW t \in Members, JoinThread(t), status[joins[t]] # "freed"
  PROVE  IInv'
<1> USE Names DEF IInv, At, process
<1>0. /\ t \in User /\ status[t] = "ready" /\ pc[t] = "found" /\ ~joinLocked
      /\ UNCHANGED <<system, status, revived, threads, process, sweeper, todo>>
  BY DEF JoinThread, ListInv
<1>1. PICK l \in {"joined", "run"} :
        /\ pc' = [pc EXCEPT ![t] = l] /\ joinLocked' \in BOOLEAN
        /\ l = "joined" => joins' = joins
        /\ l = "run" => joins' = [joins EXCEPT ![t] = None]
  <2>1. CASE joins[t] \in threads
    <3>1. pc' = [pc EXCEPT ![t] = "joined"] /\ joins' = joins /\ joinLocked' = FALSE
      BY <1>0, <2>1 DEF JoinThread, Goto, TypeOK
    <3> QED BY <3>1
  <2>2. CASE joins[t] \notin threads
    <3>1. pc' = [pc EXCEPT ![t] = "run"] /\ joins' = [joins EXCEPT ![t] = None] /\ joinLocked' = TRUE
      BY <1>0, <2>2 DEF JoinThread, Goto
    <3> QED BY <3>1
  <2> QED BY <2>1, <2>2
<1>2. /\ \A v \in Actors : pc'[v] = IF v = t THEN l ELSE pc[v]
      /\ \A v \in Members : joins'[v] = IF v = t /\ l = "run" THEN None ELSE joins[v]
      /\ joins' \in [Members -> User \cup {None}]
  BY <1>1 DEF TypeOK
<1>3. TypeOK'
  BY <1>0, <1>1, <1>2 DEF TypeOK
<1>4. CleanerInv'
  BY <1>0, <1>2 DEF CleanerInv
<1>5. TodoInv' /\ MainInv'
  BY <1>0, <1>2 DEF TodoInv, MainInv, User
<1>6. LoaderInv'
  BY <1>0, <1>2 DEF LoaderInv, User
<1>7. AloneInv'
  BY <1>0, <1>2 DEF AloneInv
<1>8. QueueInv'
  <2>1. \A c \in Cleaners : c \in Handed => pc'[c] = "exit" \/ status'[c] \in {"blocking", "gone", "freed"}
    BY <1>0, <1>2 DEF Handed
  <2> QED BY <1>0, <2>1, QueueKept DEF Handed
<1>9. JoinMeansEnd'
  BY <1>0, <1>2 DEF JoinMeansEnd
<1>10. ListInv'
  BY <1>0, <1>2 DEF ListInv
<1> QED BY <1>3, <1>4, <1>5, <1>6, <1>7, <1>8, <1>9, <1>10

\* A terminated thread leaves the list of the process; the threads that join
\* the process return when it was the main thread, and the threads in its join
\* list go on, even when they are terminated.
LEMMA TerminatedKeeps ==
  ASSUME IInv, NEW t \in Members, status[t] = "ready", NEW l \in {"blocking", "gone"}, NEW unkilled \in [Actors -> SUBSET Members],
         Terminated(t, l, unkilled),
         \A u \in Actors : unkilled[u] \subseteq todo[u] /\ todo[u] \subseteq unkilled[u] \cup {t},
         UNCHANGED <<process, sweeper>>
  PROVE  IInv'
<1> USE Names DEF IInv, process
<1>0. /\ Waiting(t) \subseteq User /\ Loader \notin Waiting(t)
      /\ \A c \in Cleaners : c \notin Waiting(t)
      /\ \A u \in Waiting(t) : u \in Members /\ (status[u] \in {"new", "ready"} => pc[u] = "joined")
  BY DEF Waiting, ListInv, TypeOK, User
<1>1. /\ \A u \in Members : status'[u] = IF u = t THEN l
                                         ELSE IF u \in Waiting(t) /\ status[u] = "gone" THEN "revived" ELSE status[u]
      /\ \A u \in Actors : todo'[u] = IF u = t THEN {} ELSE unkilled[u]
      /\ \A u \in Members : joins'[u] = IF u \in Waiting(t) \/ (u = t /\ pc[t] # "joined") THEN None ELSE joins[u]
      /\ \A u \in Actors : pc'[u] = IF u = t THEN "run"
                                    ELSE IF u \in Joiners /\ pc[u] = "joined" /\ t = mainThread THEN "returned"
                                    ELSE IF u \in Waiting(t) THEN "run" ELSE pc[u]
  BY DEF Terminated, TypeOK
<1>2. /\ \A u \in Members : u # t => status'[u] = status[u] \/ (status[u] = "gone" /\ status'[u] = "revived")
      /\ \A u \in Actors : pc'[u] \in {pc[u], "run", "returned"}
      /\ \A u \in Joiners : u # t /\ u \notin Waiting(t)
      /\ pc'[Loader] = IF Loader = t THEN "run" ELSE pc[Loader]
      /\ ~revived' => ~revived /\ \A u \in Waiting(t) : u # t => status[u] # "gone"
  <2>1. \A u \in Members : u # t => status'[u] = status[u] \/ (status[u] = "gone" /\ status'[u] = "revived")
    BY <1>1
  <2>2. \A u \in Actors : pc'[u] \in {pc[u], "run", "returned"}
    BY <1>1
  <2>3. \A u \in Joiners : u # t /\ u \notin Waiting(t)
    BY <1>0
  <2>4. pc'[Loader] = IF Loader = t THEN "run" ELSE pc[Loader]
    BY <1>0, <1>1
  <2>5. ~revived' => ~revived /\ \A u \in Waiting(t) : u # t => status[u] # "gone"
    BY DEF Terminated
  <2> QED BY <2>1, <2>2, <2>3, <2>4, <2>5
<1>3. TypeOK'
  <2>1. threads' = {v \in Members : status'[v] = "ready"}
    BY <1>1 DEF TypeOK, Terminated
  <2>2. pc' \in [Actors -> {"run", "ready", "exit", "found", "snapshot", "kill", "finish", "unmap", "cleanup",
                            "await", "join", "joined", "returned"}]
    BY DEF TypeOK, Terminated
  <2>3. /\ todo' \in [Actors -> SUBSET Members]
        /\ status' \in [Members -> {"new", "ready", "blocking", "gone", "freed", "revived"}]
        /\ joins' \in [Members -> User \cup {None}]
    BY DEF TypeOK, Terminated
  <2>4. joinLocked' \in BOOLEAN /\ revived' \in BOOLEAN /\ system' \in {"ok", "threadUsed"}
    BY DEF TypeOK, Terminated
  <2> QED BY <2>1, <2>2, <2>3, <2>4 DEF TypeOK
<1>4. CleanerInv'
  <2>1. ASSUME NEW u \in Actors, pc'[u] = "kill" PROVE u \in Terminators
    BY <1>2, <2>1 DEF CleanerInv
  <2>2. ASSUME NEW u \in Terminators, pc'[u] \in {"run", "found", "joined", "snapshot", "kill"},
               u \in Members => status'[u] \in {"new", "ready"}
        PROVE  status'[Cleaner(u)] = "new"
    <3>1. u # t /\ (u \in Members => status[u] \in {"new", "ready"})
      BY <1>1, <2>2
    <3>2. pc[u] \in {"run", "found", "joined", "snapshot", "kill"}
      BY <1>0, <1>1, <2>2, <3>1
    <3>3. status[Cleaner(u)] = "new"
      BY <3>1, <3>2 DEF CleanerInv
    <3> QED BY <1>1, <3>3
  <2>3. ASSUME NEW u \in Actors, pc'[u] \in {"unmap", "cleanup"} PROVE u \in Cleaners
    BY <1>2, <2>3 DEF CleanerInv
  <2> QED BY <2>1, <2>2, <2>3 DEF CleanerInv
<1>5. TodoInv'
  BY <1>1, <1>2 DEF TodoInv, TypeOK
<1>6. MainInv'
  BY <1>1, <1>2 DEF MainInv
<1>7. LoaderInv'
  <2>0. status'[Loader] = IF Loader = t THEN l ELSE status[Loader]
    BY <1>0, <1>1
  <2>1. ASSUME NEW u \in Actors, pc'[u] = "kill", u # Loader, status'[Loader] = "ready" PROVE Loader \in todo'[u]
    <3>1. u # t /\ pc[u] = "kill" /\ Loader # t /\ status[Loader] = "ready"
      BY <1>1, <2>0, <2>1
    <3> QED BY <1>1, <2>1, <3>1 DEF LoaderInv
  <2>2. ASSUME NEW u \in Actors, pc'[u] = "finish" PROVE u = Loader \/ status'[Loader] # "ready"
    BY <1>1, <2>0, <2>2 DEF LoaderInv
  <2>3. (finished => status[Loader] # "ready" \/ pc[Loader] # "run")' /\ status'[Loader] # "new"
    BY <1>2, <2>0 DEF LoaderInv
  <2> QED BY <2>1, <2>2, <2>3 DEF LoaderInv
<1>8. AloneInv'
  BY <1>1, <1>2 DEF AloneInv, User, TypeOK
<1>9. QueueInv'
  <2>1. \A c \in Cleaners : c \in Handed => c \in Handed'
    <3> SUFFICES ASSUME NEW c \in Cleaners, c \in Handed PROVE pc'[c] = "exit" \/ status'[c] \in {"blocking", "gone", "freed"}
      BY DEF Handed
    <3>1. CASE c = t
      BY <1>1, <3>1
    <3>2. CASE c # t
      BY <1>0, <1>1, <3>2 DEF Handed
    <3> QED BY <3>1, <3>2
  <2> QED BY <2>1, QueueKept DEF Handed
<1>10. JoinMeansEnd'
  <2> SUFFICES ASSUME NEW j \in Joiners, pc'[j] = "returned", ~revived'
               PROVE  IF mainThread = None THEN finished
                      ELSE \/ status'[mainThread] \in {"blocking", "gone", "freed"}
                           \/ status'[mainThread] = "new" /\ joinLocked'
    BY DEF JoinMeansEnd
  <2>1. mainThread \in {None, Main} /\ j # t /\ joinLocked' = joinLocked
    BY DEF TypeOK, Terminated
  <2>2. CASE pc[j] = "returned"
    BY <1>1, <1>2, <2>1, <2>2 DEF JoinMeansEnd
  <2>3. CASE pc[j] # "returned"
    <3>1. t = mainThread
      BY <1>1, <1>2, <2>1, <2>3
    <3> QED BY <1>1, <2>1, <3>1
  <2> QED BY <2>2, <2>3
<1>11. ListInv'
  <2>1. ASSUME NEW u \in Members, status'[u] = "revived" PROVE revived'
    <3>1. revived => revived'
      BY DEF Terminated
    <3>2. CASE status[u] = "revived"
      BY <3>1, <3>2 DEF ListInv
    <3>3. CASE status[u] # "revived"
      BY <1>1, <1>2, <2>1, <3>3 DEF TypeOK
    <3> QED BY <3>2, <3>3
  <2>2. ASSUME NEW u \in Members, joins'[u] # None
        PROVE  u \in User /\ (status'[u] \in {"new", "ready"} => pc'[u] \in {"found", "joined"})
    BY <1>0, <1>1, <2>2 DEF ListInv
  <2>3. ASSUME NEW u \in Members, pc'[u] \in {"found", "joined"} PROVE u \in User
    BY <1>2, <2>3 DEF ListInv
  <2>4. ASSUME NEW j \in Joiners, pc'[j] = "join" PROVE mainThread' = Main
    BY <1>2, <2>4 DEF ListInv
  <2> QED BY <2>1, <2>2, <2>3, <2>4 DEF ListInv
<1> QED BY <1>3, <1>4, <1>5, <1>6, <1>7, <1>8, <1>9, <1>10, <1>11

\* Block() and DeleteThread() for a thread that is terminated already.
LEMMA GoneKeeps ==
  ASSUME IInv, NEW t \in Members, status[t] \in {"blocking", "gone"}, NEW l \in {"gone", "freed"},
         status' = [status EXCEPT ![t] = l],
         UNCHANGED <<system, lists, threads, process, sweeper, pc, todo>>
  PROVE  IInv'
<1> USE Names DEF IInv, process, lists
<1>1. \A u \in Members : status'[u] = IF u = t THEN l ELSE status[u]
  BY DEF TypeOK
<1>2. TypeOK'
  <2>1. threads' = {v \in Members : status'[v] = "ready"}
    BY <1>1 DEF TypeOK
  <2> QED BY <2>1 DEF TypeOK
<1>3. CleanerInv'
  BY <1>1 DEF CleanerInv
<1>4. TodoInv' /\ MainInv'
  BY <1>1 DEF TodoInv, MainInv, TypeOK
<1>5. LoaderInv'
  BY <1>1 DEF LoaderInv
<1>6. AloneInv'
  BY <1>1 DEF AloneInv, User
<1>7. QueueInv'
  BY <1>1, QueueKept DEF Handed
<1>8. JoinMeansEnd'
  BY <1>1 DEF JoinMeansEnd, TypeOK
<1>9. ListInv'
  BY <1>1 DEF ListInv
<1> QED BY <1>2, <1>3, <1>4, <1>5, <1>6, <1>7, <1>8, <1>9

\* killAllThreads(): the copy of the list contains the loader if it can run.
LEMMA SnapshotKeeps ==
  ASSUME IInv, NEW t \in Terminators, NEW S, S \in {threads, threads \ {t}},
         pc[t] \in {"run", "snapshot"}, t \in Members => status[t] = "ready",
         t \in Killers => S = threads,
         pc' = [pc EXCEPT ![t] = "kill"], todo' = [todo EXCEPT ![t] = S],
         UNCHANGED <<system, status, lists, threads, process, sweeper>>
  PROVE  IInv'
<1> USE Names DEF IInv, process, lists
<1>1. /\ \A u \in Actors : pc'[u] = IF u = t THEN "kill" ELSE pc[u]
      /\ \A u \in Actors : todo'[u] = IF u = t THEN S ELSE todo[u]
  BY DEF TypeOK
<1>2. threads = {v \in Members : status[v] = "ready"}
  BY DEF TypeOK
<1>3. TypeOK'
  BY <1>2 DEF TypeOK
<1>4. CleanerInv'
  BY <1>1 DEF CleanerInv
<1>5. TodoInv' /\ MainInv'
  BY <1>1, <1>2 DEF TodoInv, MainInv
<1>6. LoaderInv'
  BY <1>1, <1>2 DEF LoaderInv
<1>7. AloneInv'
  BY <1>1 DEF AloneInv
<1>8. QueueInv'
  <2>1. \A c \in Cleaners : pc'[c] = pc[c]
    BY <1>1
  <2> QED BY <2>1, QueueKept DEF Handed
<1>9. JoinMeansEnd'
  BY <1>1 DEF JoinMeansEnd
<1>10. ListInv'
  BY <1>1 DEF ListInv
<1> QED BY <1>3, <1>4, <1>5, <1>6, <1>7, <1>8, <1>9, <1>10

\* All threads are killed: the cleaner starts, which was never started before.
LEMMA ReadyCleanerKeeps ==
  ASSUME IInv, NEW t \in Actors, ReadyCleaner(t), ~freed
  PROVE  IInv'
<1> USE Names DEF IInv, process, lists, ReadyCleaner, At, Ready, Goto
<1> DEFINE c == Cleaner(t)
<1>0. /\ t \in Terminators /\ status[c] = "new" /\ c \in Cleaners /\ c \in Members
      /\ t \in Members => status[t] = "ready"
  BY DEF CleanerInv
<1> HIDE DEF c
<1>1. /\ \A u \in Actors : pc'[u] = IF u = t THEN "finish" ELSE pc[u]
      /\ \A u \in Members : status'[u] = IF u = c THEN "ready" ELSE status[u]
      /\ threads' = threads \cup {c}
  BY DEF TypeOK, c
<1>2. TypeOK'
  <2>1. threads' = {v \in Members : status'[v] = "ready"}
    BY <1>0, <1>1 DEF TypeOK
  <2>2. status' \in [Members -> {"new", "ready", "blocking", "gone", "freed", "revived"}]
    BY DEF TypeOK
  <2> QED BY <2>1, <2>2 DEF TypeOK
<1>3. CleanerInv'
  <2>1. ASSUME NEW u \in Terminators, pc'[u] \in {"run", "found", "joined", "snapshot", "kill"},
               u \in Members => status'[u] \in {"new", "ready"}
        PROVE  status'[Cleaner(u)] = "new"
    <3>1. u # t /\ u # c
      BY <1>0, <1>1, <2>1
    <3>2. Cleaner(u) # c
      BY <1>0, <3>1 DEF c
    <3> QED BY <1>1, <2>1, <3>1, <3>2 DEF CleanerInv
  <2>2. ASSUME NEW u \in Actors, pc'[u] = "kill" PROVE u \in Terminators
    BY <1>1, <2>2 DEF CleanerInv
  <2>3. ASSUME NEW u \in Actors, pc'[u] \in {"unmap", "cleanup"} PROVE u \in Cleaners
    BY <1>1, <2>3 DEF CleanerInv
  <2> QED BY <2>1, <2>2, <2>3 DEF CleanerInv
<1>4. TodoInv' /\ MainInv'
  BY <1>0, <1>1 DEF TodoInv, MainInv, TypeOK, User
<1>5. LoaderInv'
  <2>1. c # Loader
    BY <1>0
  <2> QED BY <1>0, <1>1, <2>1 DEF LoaderInv
<1>6. AloneInv'
  BY <1>0, <1>1 DEF AloneInv, User
<1>7. QueueInv'
  <2>1. \A d \in Cleaners : d \in Handed => pc'[d] = "exit" \/ status'[d] \in {"blocking", "gone", "freed"}
    BY <1>0, <1>1 DEF Handed
  <2> QED BY <2>1, QueueKept DEF Handed
<1>8. JoinMeansEnd'
  BY <1>0, <1>1 DEF JoinMeansEnd, TypeOK, User
<1>9. ListInv'
  BY <1>0, <1>1 DEF ListInv
<1> QED BY <1>2, <1>3, <1>4, <1>5, <1>6, <1>7, <1>8, <1>9

\* The process is finished: its loader is dead or is the one who ends it.
LEMMA FinishKeeps ==
  ASSUME IInv, NEW t \in Actors, Finish(t), ~freed
  PROVE  IInv'
<1> USE Names DEF IInv, process, lists, Finish, At, Goto
<1> DEFINE l == IF t \in Killers THEN "returned" ELSE "exit"
<1>1. /\ \A u \in Actors : pc'[u] = IF u = t THEN l ELSE pc[u]
      /\ finished' = TRUE /\ listed' = FALSE
  BY DEF TypeOK
<1>2. TypeOK'
  <2>1. pc' \in [Actors -> {"run", "ready", "exit", "found", "snapshot", "kill", "finish", "unmap", "cleanup",
                            "await", "join", "joined", "returned"}]
    BY DEF TypeOK
  <2>2. {finished', listed', unmapped', freed'} \subseteq BOOLEAN
    BY <1>1 DEF TypeOK
  <2> QED BY <2>1, <2>2 DEF TypeOK
<1>3. CleanerInv'
  BY <1>1 DEF CleanerInv
<1>4. TodoInv' /\ MainInv'
  BY <1>1 DEF TodoInv, MainInv
<1>5. LoaderInv'
  BY <1>1 DEF LoaderInv
<1>6. AloneInv'
  BY <1>1 DEF AloneInv
<1>7. QueueInv'
  <2>1. \A d \in Cleaners : d \in Handed => pc'[d] = "exit" \/ status'[d] \in {"blocking", "gone", "freed"}
    BY <1>1 DEF Handed
  <2> QED BY <2>1, QueueKept DEF Handed
<1>8. JoinMeansEnd'
  BY <1>1 DEF JoinMeansEnd
<1>9. ListInv'
  BY <1>1 DEF ListInv
<1> QED BY <1>2, <1>3, <1>4, <1>5, <1>6, <1>7, <1>8, <1>9

-----------------------------------------------------------------------------
\* AddressSpaceCleaner::run(): a cleaner that is the only thread in the list.
LEMMA AwaitAloneKeeps ==
  ASSUME IInv, NEW c \in Actors, AwaitAlone(c), ~freed
  PROVE  IInv'
<1> USE Names DEF IInv, process, lists, AwaitAlone, At, Goto, Alone
<1>0. c \in Cleaners /\ status[c] = "ready" /\ pc[c] = "run" /\ Cardinality(threads) <= 1
  OBVIOUS
<1>1. \A u \in Actors : pc'[u] = IF u = c THEN "unmap" ELSE pc[u]
  BY DEF TypeOK
<1>2. \A t \in User \cup {Loader} : status[t] # "ready"
  <2> SUFFICES ASSUME NEW t \in User \cup {Loader}, status[t] = "ready" PROVE FALSE
    OBVIOUS
  <2>1. t \in threads /\ c \in threads /\ t # c /\ threads \subseteq Members
    BY <1>0 DEF TypeOK, Members
  <2>2. IsFiniteSet(threads) /\ Cardinality(threads) \in Nat
    BY <2>1, CleanersFinite, FS_Subset, FS_CardinalityType
  <2>3. IsFiniteSet({c}) /\ Cardinality({c}) = 1
    BY FS_Singleton
  <2>4. {c} \subseteq threads /\ {c} # threads
    BY <2>1
  <2>5. Cardinality({c}) < Cardinality(threads)
    BY <2>2, <2>3, <2>4, FS_Subset
  <2> QED BY <1>0, <2>2, <2>3, <2>5
<1>3. TypeOK'
  BY DEF TypeOK
<1>4. CleanerInv' /\ TodoInv'
  BY <1>1 DEF CleanerInv, TodoInv
<1>5. MainInv' /\ LoaderInv'
  BY <1>0, <1>1 DEF MainInv, LoaderInv
<1>6. AloneInv'
  BY <1>2 DEF AloneInv
<1>7. QueueInv'
  <2>1. \A d \in Cleaners : d \in Handed => pc'[d] = "exit" \/ status'[d] \in {"blocking", "gone", "freed"}
    BY <1>0, <1>1 DEF Handed
  <2> QED BY <2>1, QueueKept DEF Handed
<1>8. JoinMeansEnd'
  BY <1>0, <1>1 DEF JoinMeansEnd
<1>9. ListInv'
  BY <1>0, <1>1 DEF ListInv
<1> QED BY <1>3, <1>4, <1>5, <1>6, <1>7, <1>8, <1>9

\* The memory is unmapped and the process handed over.
LEMMA UnmapKeeps ==
  ASSUME IInv, NEW c \in Actors, Unmap(c)
  PROVE  IInv'
<1> USE Names DEF IInv, process, lists, Unmap, At, Goto
<1>1. \A u \in Actors : pc'[u] = IF u = c THEN "cleanup" ELSE pc[u]
  BY DEF TypeOK
<1>2. \A t \in User \cup {Loader} : status[t] # "ready"
  BY DEF AloneInv
<1>3. TypeOK'
  BY DEF TypeOK
<1>4. CleanerInv' /\ TodoInv'
  BY <1>1 DEF CleanerInv, TodoInv
<1>5. MainInv' /\ LoaderInv'
  BY <1>1 DEF MainInv, LoaderInv
<1>6. AloneInv'
  BY <1>2 DEF AloneInv
<1>7. QueueInv'
  <2>1. \A d \in Cleaners : d \in Handed => pc'[d] = "exit" \/ status'[d] \in {"blocking", "gone", "freed"}
    BY <1>1 DEF Handed
  <2> QED BY <2>1, QueueKept DEF Handed
<1>8. JoinMeansEnd'
  BY <1>1 DEF JoinMeansEnd
<1>9. ListInv'
  BY <1>1 DEF ListInv
<1> QED BY <1>3, <1>4, <1>5, <1>6, <1>7, <1>8, <1>9

\* cleanup() of the scheduler cleaner: one more process in its queue.
LEMMA CleanupKeeps ==
  ASSUME IInv, NEW c \in Actors, Cleanup(c)
  PROVE  IInv'
<1> USE Names DEF IInv, process, lists, Cleanup, At, Goto
<1>0. c \in Cleaners /\ status[c] = "ready" /\ pc[c] = "cleanup"
  BY DEF CleanerInv
<1>1. \A u \in Actors : pc'[u] = IF u = c THEN "exit" ELSE pc[u]
  BY DEF TypeOK
<1>2. \A t \in User \cup {Loader} : status[t] # "ready"
  BY DEF AloneInv
<1>3. queued' \in Nat /\ queued' = queued + 1 /\ queued \in Nat
  BY DEF TypeOK
<1>4. QueueInv'
  <2>1. Handed' = Handed \cup {c}
    BY <1>0, <1>1 DEF Handed
  <2>2. c \notin Handed /\ Handed \subseteq Cleaners
    BY <1>0 DEF Handed
  <2>3. IsFiniteSet(Handed) /\ Cardinality(Handed) \in Nat
    BY <2>2, CleanersFinite, FS_Subset, FS_CardinalityType
  <2>4. Cardinality(Handed') = Cardinality(Handed) + 1
    BY <2>1, <2>2, <2>3, FS_AddElement
  <2> QED BY <1>3, <2>3, <2>4 DEF QueueInv
<1>5. TypeOK'
  BY <1>3, <1>4, QueueBound DEF TypeOK
<1>6. CleanerInv' /\ TodoInv'
  BY <1>0, <1>1 DEF CleanerInv, TodoInv
<1>7. MainInv' /\ LoaderInv'
  BY <1>0, <1>1 DEF MainInv, LoaderInv
<1>8. AloneInv'
  BY <1>2 DEF AloneInv
<1>9. JoinMeansEnd'
  BY <1>0, <1>1 DEF JoinMeansEnd
<1>10. ListInv'
  BY <1>0, <1>1 DEF ListInv
<1> QED BY <1>4, <1>5, <1>6, <1>7, <1>8, <1>9, <1>10

\* The scheduler cleaner frees the Process.
LEMMA DeleteProcessKeeps ==
  ASSUME IInv, DeleteProcess, ~freed
  PROVE  IInv'
<1> USE Names DEF IInv, process, lists, DeleteProcess, Sweeping
<1>1. queued' \in Nat /\ queued' = queued - 1 /\ queued \in Nat
  BY DEF TypeOK
<1>2. QueueInv'
  <2>1. Handed' = Handed /\ Handed \in SUBSET Cleaners
    BY DEF Handed
  <2> QED BY <1>1, <2>1, CleanersFinite DEF QueueInv
<1>3. TypeOK'
  BY <1>1, <1>2, QueueBound DEF TypeOK
<1>4. CleanerInv' /\ TodoInv' /\ MainInv' /\ LoaderInv' /\ JoinMeansEnd'
  BY DEF CleanerInv, TodoInv, MainInv, LoaderInv, JoinMeansEnd
<1>5. AloneInv'
  BY DEF AloneInv
<1>6. ListInv'
  BY DEF ListInv
<1> QED BY <1>2, <1>3, <1>4, <1>5, <1>6

-----------------------------------------------------------------------------
\* Every step of a thread that has begun, ...
LEMMA ProceedKeeps ==
  ASSUME IInv, NEW t \in Actors, Proceed(t)
  PROVE  IInv'
<1> USE Names DEF At, Goto
<1>0. TypeOK
  BY DEF IInv
<1>1. ASSUME NEW why \in {"killedTwice", "threadUsed", "processUsed"}, Stop(why) PROVE IInv'
  <2>1. /\ system' \in {"ok", "killedTwice", "threadUsed", "processUsed"}
        /\ sweeper' \in {"threads", "processes"}
        /\ UNCHANGED <<status, lists, threads, process, pc, todo>>
    BY <1>0, <1>1 DEF Stop, TypeOK
  <2> QED BY <2>1, StopKeeps
<1>2. CASE ReadyCleaner(t)
  BY <1>1, <1>2, ReadyCleanerKeeps DEF ReadyCleaner
<1>3. CASE Finish(t)
  BY <1>1, <1>3, FinishKeeps DEF Finish
<1>4. ASSUME NEW u \in Members, Kill(t, u) PROVE IInv'
  <2>1. u \in todo[t] /\ status[u] # "new"
    BY <1>4 DEF Kill, IInv, TodoInv
  <2>2. CASE status[u] # "ready"
    BY <1>0, <1>1, <1>4, <2>2 DEF Kill, TypeOK
  <2>3. CASE status[u] = "ready"
    <3> DEFINE unkilled == [todo EXCEPT ![t] = @ \ {u}]
    <3>1. Terminated(u, "gone", unkilled) /\ UNCHANGED <<process, sweeper>>
      BY <1>0, <1>4, <2>3 DEF Kill, TypeOK
    <3>2. unkilled \in [Actors -> SUBSET Members]
      BY <1>0 DEF TypeOK
    <3>3. \A v \in Actors : unkilled[v] \subseteq todo[v] /\ todo[v] \subseteq unkilled[v] \cup {u}
      BY <1>0 DEF TypeOK
    <3> HIDE DEF unkilled
    <3> QED BY <2>3, <3>1, <3>2, <3>3, TerminatedKeeps
  <2> QED BY <1>0, <2>1, <2>2, <2>3 DEF TypeOK
<1>5. CASE t \in Members /\ Block(t)
  BY <1>5, GoneKeeps DEF Block
<1>6. CASE t \in Members /\ pc[t] = "exit" /\ ExitThread(t)
  <2>1. CASE freed
    BY <1>1, <1>6, <2>1 DEF ExitThread
  <2>2. CASE ~freed
    <3>1. /\ status[t] = "ready" /\ Terminated(t, "blocking", todo) /\ UNCHANGED <<process, sweeper>>
      BY <1>6, <2>2 DEF ExitThread
    <3>2. todo \in [Actors -> SUBSET Members]
      BY <1>0 DEF TypeOK
    <3> QED BY <1>6, <3>1, <3>2, TerminatedKeeps
  <2> QED BY <2>1, <2>2
<1>7. CASE t \in Members /\ JoinThread(t)
  BY <1>1, <1>7, JoinThreadKeeps DEF JoinThread
<1>8. CASE AwaitAlone(t)
  BY <1>1, <1>8, AwaitAloneKeeps DEF AwaitAlone
<1>9. CASE Unmap(t) \/ Cleanup(t)
  BY <1>9, UnmapKeeps, CleanupKeeps
<1>10. CASE t \in Killers /\ KillProcess(t)
  <2>1. CASE freed
    BY <1>1, <1>10, <2>1 DEF KillProcess
  <2>2. CASE ~freed
    <3>1. /\ t \in Terminators /\ pc[t] = "snapshot" /\ t \notin Members
          /\ pc' = [pc EXCEPT ![t] = "kill"] /\ todo' = [todo EXCEPT ![t] = threads]
          /\ UNCHANGED <<system, status, lists, threads, process, sweeper>>
      BY <1>10, <2>2 DEF KillProcess
    <3> QED BY <3>1, SnapshotKeeps
  <2> QED BY <2>1, <2>2
<1>11. CASE t \in Joiners /\ AwaitMain(t)
  <2>1. CASE freed
    BY <1>1, <1>11, <2>1 DEF AwaitMain
  <2>2. CASE ~freed
    <3>1. /\ JoinStep \in {"join", "returned"} /\ pc' = [pc EXCEPT ![t] = JoinStep]
          /\ JoinStep = "returned" => mainThread = None /\ finished
          /\ JoinStep = "join" => mainThread # None
          /\ UNCHANGED <<system, status, lists, threads, process, sweeper, todo>>
      BY <1>11, <2>2 DEF AwaitMain, JoinStep
    <3>2. mainThread \in {None, Main} /\ joinLocked \in BOOLEAN /\ UNCHANGED <<joins, joinLocked, revived>>
      BY <1>0, <3>1 DEF TypeOK, lists
    <3> QED BY <1>11, <3>1, <3>2, OtherKeeps
  <2> QED BY <2>1, <2>2
<1>12. CASE t \in Joiners /\ JoinMain(t)
  <2>1. CASE Stop("threadUsed")
    BY <1>1, <2>1
  <2>2. CASE ~ (freed \/ status[mainThread] = "freed")
    <3>0. /\ mainThread = Main /\ ~joinLocked /\ pc[t] = "join"
          /\ UNCHANGED <<system, status, joins, revived, threads, process, sweeper, todo>>
      BY <1>12, <2>2 DEF JoinMain, IInv, ListInv
    <3>1. CASE Main \in threads
      BY <1>0, <1>12, <2>2, <3>0, <3>1, OtherKeeps DEF JoinMain, TypeOK
    <3>2. CASE Main \notin threads
      <4>1. joinLocked' = TRUE /\ pc' = [pc EXCEPT ![t] = "returned"]
        BY <1>12, <2>2, <3>0, <3>2 DEF JoinMain
      <4>2. status[Main] \in {"new", "blocking", "gone", "revived"}
        BY <1>0, <2>2, <3>0, <3>2 DEF TypeOK
      <4> QED BY <1>12, <3>0, <4>1, <4>2, OtherKeeps
    <3> QED BY <3>1, <3>2
  <2> QED BY <1>12, <2>1, <2>2 DEF JoinMain
<1> QED BY <1>2, <1>3, <1>4, <1>5, <1>6, <1>8, <1>9, <1>10, <1>11, <1>12, <1>7 DEF Proceed

\* ... of a thread that begins to end or to join the process, ...
LEMMA BeginKeeps ==
  ASSUME IInv, \/ SetMain \/ ReadyMain
               \/ \E t \in Members : ExitProcess(t) \/ ExitThread(t) \/ (\E u \in Workers : CreateThread(t, u)) \/ \E u \in User : FindThread(t, u)
               \/ \E k \in Killers : GetProcess(k)
               \/ \E j \in Joiners : JoinProcess(j)
  PROVE  IInv'
<1> USE Names DEF At, Goto
<1>0. TypeOK
  BY DEF IInv
<1>1. CASE SetMain \/ ReadyMain
  BY <1>1, SetMainKeeps, ReadyMainKeeps
<1>2. ASSUME NEW t \in Members, ExitProcess(t) PROVE IInv'
  <2>1. /\ t \in Terminators /\ t \notin Killers /\ pc[t] = "run" /\ status[t] = "ready"
        /\ pc' = [pc EXCEPT ![t] = "kill"] /\ todo' = [todo EXCEPT ![t] = threads \ {t}]
        /\ UNCHANGED <<system, status, lists, threads, process, sweeper>>
    BY <1>2 DEF ExitProcess
  <2> QED BY <2>1, SnapshotKeeps
<1>3. ASSUME NEW t \in Members, ExitThread(t) PROVE IInv'
  <2>1. CASE freed
    <3>1. /\ system' \in {"ok", "killedTwice", "threadUsed", "processUsed"}
          /\ sweeper' \in {"threads", "processes"}
          /\ UNCHANGED <<status, lists, threads, process, pc, todo>>
      BY <1>0, <1>3, <2>1 DEF ExitThread, Stop, TypeOK
    <3> QED BY <3>1, StopKeeps
  <2>2. CASE ~freed
    <3>1. /\ status[t] = "ready" /\ Terminated(t, "blocking", todo) /\ UNCHANGED <<process, sweeper>>
      BY <1>3, <2>2 DEF ExitThread
    <3>2. todo \in [Actors -> SUBSET Members]
      BY <1>0 DEF TypeOK
    <3> QED BY <3>1, <3>2, TerminatedKeeps
  <2> QED BY <2>1, <2>2
<1>4. ASSUME NEW t \in Members, NEW u \in Workers, CreateThread(t, u) PROVE IInv'
  BY <1>4, CreateKeeps
<1>5. ASSUME NEW t \in Members, NEW u \in User, FindThread(t, u) PROVE IInv'
  BY <1>5, FindThreadKeeps
<1>6. ASSUME NEW k \in Killers, GetProcess(k) PROVE IInv'
  BY <1>0, <1>6, OtherKeeps DEF GetProcess, TypeOK, lists
<1>7. ASSUME NEW j \in Joiners, JoinProcess(j) PROVE IInv'
  BY <1>0, <1>7, OtherKeeps DEF JoinProcess, TypeOK, lists
<1> QED BY <1>1, <1>2, <1>3, <1>4, <1>5, <1>6, <1>7

\* ... and of the scheduler cleaner keeps the invariant.
LEMMA SweepKeeps ==
  ASSUME IInv, Sweep
  PROVE  IInv'
<1>0. TypeOK
  BY DEF IInv
<1>1. CASE ThreadsDone \/ ProcessesDone
  <2>1. /\ system' \in {"ok", "killedTwice", "threadUsed", "processUsed"}
        /\ sweeper' \in {"threads", "processes"}
        /\ UNCHANGED <<status, lists, threads, process, pc, todo>>
    BY <1>0, <1>1 DEF ThreadsDone, ProcessesDone, TypeOK, Sweeping
  <2> QED BY <2>1, StopKeeps
<1>2. CASE DeleteProcess
  <2>1. CASE freed
    <3>1. /\ system' \in {"ok", "killedTwice", "threadUsed", "processUsed"}
          /\ sweeper' \in {"threads", "processes"}
          /\ UNCHANGED <<status, lists, threads, process, pc, todo>>
      BY <1>0, <1>2, <2>1 DEF DeleteProcess, Stop, TypeOK
    <3> QED BY <3>1, StopKeeps
  <2> QED BY <1>2, <2>1, DeleteProcessKeeps
<1>3. ASSUME NEW t \in Members, DeleteThread(t) PROVE IInv'
  BY <1>3, GoneKeeps DEF DeleteThread
<1> QED BY <1>1, <1>2, <1>3 DEF Sweep

\* Every step keeps the invariant: one fact per action.
LEMMA StepInv == IInv /\ [Next]_vars => IInv'
<1> SUFFICES ASSUME IInv, [Next]_vars PROVE IInv'
  OBVIOUS
<1>1. CASE UNCHANGED vars
  <2>1. /\ system' \in {"ok", "killedTwice", "threadUsed", "processUsed"}
        /\ sweeper' \in {"threads", "processes"}
        /\ UNCHANGED <<status, lists, threads, process, pc, todo>>
    BY <1>1 DEF vars, IInv, TypeOK, process, lists
  <2> QED BY <2>1, StopKeeps
<1> QED BY <1>1, BeginKeeps, ProceedKeeps, SweepKeeps DEF Next

\* The inductive invariant of the end of a process.
THEOREM InvHolds == Spec => []IInv
BY InitInv, StepInv, PTL DEF Spec

\* However the process is terminated, by whom and how often, and whatever
\* threads it creates meanwhile: once its memory is unmapped or the Process is
\* queued or freed, none of its threads can return to user mode, until exit()
\* or kill() make a thread ready again that was killed in a join list.
THEOREM MemoryOutlivesThreads == Spec => []UserMemoryKept
<1>1. IInv => UserMemoryKept
  BY Names DEF IInv, UserMemoryKept, AloneInv, ListInv, Members
<1> QED BY <1>1, InvHolds, PTL

\* Process::join() does not return before the main thread has terminated or
\* the process has ended without one, until a killed thread is made ready again.
\* Where it returns before the main thread is started, that one never will be:
\* joinLock is taken for ever.
THEOREM JoinWaitsForEnd == Spec => []JoinMeansEnd
<1>1. IInv => JoinMeansEnd
  BY DEF IInv
<1> QED BY <1>1, InvHolds, PTL
=============================================================================
