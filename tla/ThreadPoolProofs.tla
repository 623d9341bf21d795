-------------------------- MODULE ThreadPoolProofs --------------------------
(***************************************************************************)
(* Proofs about ThreadPool, for any set of threads, tasks and requests.    *)
(*                                                                         *)
(* The size of the pool is governed by LoopInv (how a thread's place in    *)
(* loop() relates to its slot) and ActiveCount (the shared counter is the  *)
(* number of slots not told to drain out); together with the typing they   *)
(* are inductive, and every other invariant follows from them step by      *)
(* step.                                                                   *)
(***************************************************************************)
EXTENDS ThreadPool, FiniteSetTheorems, TLAPS

SizeInv == TypeOK /\ LoopInv /\ ActiveCount /\ NeverUnderstaffed

-----------------------------------------------------------------------------
(* The slots of the vector form a finite set.                              *)
LEMMA LiveFinite ==
    ASSUME TypeOK
    PROVE  /\ IsFiniteSet(Live)
           /\ Live \subseteq threads
           /\ Cardinality(Live) \in Nat
<1>1. Live \in SUBSET Threads /\ Live \subseteq threads
  BY DEF TypeOK, Live
<1>2. IsFiniteSet(Live)
  BY <1>1, PoolAssumption, FS_Subset
<1> QED BY <1>1, <1>2, FS_CardinalityType

(* Initially the pool has the hardware concurrency, and so does the count. *)
LEMMA SizeInit == Init => SizeInv
<1> SUFFICES ASSUME Init PROVE SizeInv
  OBVIOUS
<1> USE PoolAssumption DEF Init
<1>1. TypeOK
  <2>1. pc \in [Threads -> Places]
    BY DEF Places
  <2>2. queue \in Seq(Tasks)
    OBVIOUS
  <2>3. Concurrency \in Nat
    <3>1. Cardinality(Threads) \in Nat
      BY FS_CardinalityType
    <3> QED BY <3>1
  <2>4. threads \in SUBSET Threads
    OBVIOUS
  <2>5. num_threads \in Int /\ num_active_threads \in Nat
    BY <2>3
  <2>6. /\ done \in [Threads -> BOOLEAN]
        /\ held \in [Threads -> Tasks \cup {NoTask}]
    OBVIOUS
  <2>7. /\ shutting_down \in BOOLEAN /\ finished \in SUBSET Tasks
        /\ status \in {"up", "crashed", "destroyed"}
    OBVIOUS
  <2> HIDE DEF Init
  <2> QED BY <2>1, <2>2, <2>4, <2>5, <2>6, <2>7 DEF TypeOK
<1>2. LoopInv
  BY DEF LoopInv
<1>3. Live = threads
  BY DEF Live
<1>4. ActiveCount /\ NeverUnderstaffed
  BY <1>3 DEF ActiveCount, NeverUnderstaffed
<1> QED BY <1>1, <1>2, <1>4 DEF SizeInv

(* Resizing: the erased slots are those of drained threads, the survivors  *)
(* are counted by num_active_threads, and the new threads add to both.     *)
LEMMA SizeSetNumThreads ==
    ASSUME SizeInv, NEW n \in Requests, SetNumThreads(n)
    PROVE  SizeInv' /\ status' = "up"
<1> PICK fresh \in SUBSET (Threads \ Live) :
           /\ Cardinality(fresh) = NewThreads(n)
           /\ threads' = Live \cup fresh
           /\ pc' = [t \in Threads |-> IF t \in fresh THEN "check"
                                       ELSE IF t \in Live THEN pc[t] ELSE "unborn"]
  BY DEF SetNumThreads
<1>1. /\ IsFiniteSet(Live) /\ Live \subseteq threads /\ Cardinality(Live) \in Nat
      /\ IsFiniteSet(fresh) /\ Cardinality(fresh) \in Nat
  <2>1. IsFiniteSet(fresh)
    BY PoolAssumption, FS_Subset, fresh \in SUBSET Threads
  <2> QED BY <2>1, LiveFinite, FS_CardinalityType DEF SizeInv
<1>2. /\ done' = [t \in Threads |-> FALSE]
      /\ num_threads' = n
      /\ num_active_threads' = num_active_threads + Cardinality(fresh)
      /\ status' = IF NewThreads(n) > 0 /\ Cardinality(Live) # num_active_threads
                   THEN "crashed" ELSE "up"
      /\ UNCHANGED <<queue, held, finished, shutting_down>>
      /\ \A t \in threads : done[t] => pc[t] = "exited"
  BY DEF SetNumThreads, queueVars
<1>3. Live' = Live \cup fresh
  BY <1>1, <1>2 DEF Live, SizeInv, TypeOK
<1>4. Cardinality(Live \cup fresh) = Cardinality(Live) + Cardinality(fresh)
  <2>1. Live \cap fresh = {}
    OBVIOUS
  <2>2. Cardinality(Live \cap fresh) = 0
    BY <2>1, FS_EmptySet
  <2>3. Cardinality(Live \cup fresh)
          = Cardinality(Live) + Cardinality(fresh) - Cardinality(Live \cap fresh)
    BY <1>1, FS_Union
  <2> QED BY <2>2, <2>3, <1>1
<1>5. num_active_threads = Cardinality(Live) /\ n \in Int /\ num_threads \in Int
  BY PoolAssumption DEF SizeInv, ActiveCount, TypeOK
<1>6. ActiveCount' /\ status' = "up"
  BY <1>2, <1>3, <1>4, <1>5 DEF ActiveCount
<1>7. NeverUnderstaffed'
  BY <1>1, <1>2, <1>5 DEF NeverUnderstaffed, SizeInv, NewThreads
<1>8. TypeOK'
  <2>1. pc' \in [Threads -> Places]
    BY DEF SizeInv, TypeOK, Places
  <2>2. num_active_threads' \in Nat /\ num_threads' \in Int
    BY <1>1, <1>2, <1>5
  <2>3. threads' \in SUBSET Threads
    BY <1>1 DEF SizeInv, TypeOK
  <2> QED BY <2>1, <2>2, <2>3, <1>2, <1>6 DEF SizeInv, TypeOK
<1>9. LoopInv'
  <2> SUFFICES ASSUME NEW t \in Threads
               PROVE  /\ t \in threads' <=> pc'[t] # "unborn"
                      /\ pc'[t] = "run" <=> held'[t] # NoTask
                      /\ done'[t] => t \in threads' /\ pc'[t] \in {"check", "exited"}
    BY DEF LoopInv
  <2>1. ~done'[t] /\ held'[t] = held[t]
    BY <1>2
  <2>2. t \in Live <=> pc[t] # "unborn" /\ ~done[t]
    BY DEF Live, SizeInv, LoopInv
  <2>3. pc[t] = "run" <=> held[t] # NoTask
    BY DEF SizeInv, LoopInv
  <2>4. t \notin Live => held[t] = NoTask
    BY <2>2, <2>3, <1>2 DEF SizeInv, LoopInv
  <2>5. t \in fresh => t \notin Live
    OBVIOUS
  <2>6. t \in threads' <=> pc'[t] # "unborn"
    BY <2>2
  <2>7. pc'[t] = "run" <=> held'[t] # NoTask
    BY <2>1, <2>3, <2>4, <2>5
  <2> QED BY <2>1, <2>6, <2>7
<1> QED BY <1>6, <1>7, <1>8, <1>9 DEF SizeInv

(* Draining out: the thread at that point is live, so one slot leaves the  *)
(* count, and only when the pool has a surplus.                            *)
LEMMA SizeDrain ==
    ASSUME SizeInv, NEW t \in Threads, Drain(t)
    PROVE  SizeInv'
<1>1. /\ pc[t] = "drain"
      /\ pc' = [pc EXCEPT ![t] = "check"]
      /\ UNCHANGED <<queue, held, finished, threads, num_threads, shutting_down, status>>
  BY DEF Drain, DrainIf, queueVars
<1>2. t \in Live
  BY <1>1 DEF SizeInv, LoopInv, Live
<1>3. IsFiniteSet(Live) /\ Cardinality(Live) \in Nat
  BY LiveFinite DEF SizeInv
<1>4. LoopInv' /\ pc' \in [Threads -> Places]
  BY <1>1, <1>2 DEF SizeInv, LoopInv, TypeOK, Places, Drain, DrainIf, Live
<1>5. CASE num_active_threads > num_threads
  <2>1. /\ done' = [done EXCEPT ![t] = TRUE]
        /\ num_active_threads' = num_active_threads - 1
    BY <1>5 DEF Drain, DrainIf
  <2>2. Live' = Live \ {t}
    BY <1>1, <2>1 DEF Live, SizeInv, TypeOK
  <2>3. Cardinality(Live') = Cardinality(Live) - 1 /\ Cardinality(Live') \in Nat
    BY <2>2, <1>2, <1>3, FS_RemoveElement, FS_CardinalityType
  <2>4. ActiveCount' /\ num_active_threads' \in Nat
    BY <2>1, <2>3, <1>3 DEF ActiveCount, SizeInv
  <2>5. NeverUnderstaffed'
    BY <2>1, <1>1, <1>5 DEF NeverUnderstaffed, SizeInv, TypeOK
  <2>6. TypeOK'
    BY <1>1, <1>4, <2>1, <2>4 DEF SizeInv, TypeOK
  <2> QED BY <1>4, <2>4, <2>5, <2>6 DEF SizeInv
<1>6. CASE ~(num_active_threads > num_threads)
  <2>1. UNCHANGED <<done, num_active_threads>>
    BY <1>6 DEF Drain, DrainIf
  <2>2. Live' = Live
    BY <1>1, <2>1 DEF Live
  <2> QED BY <1>1, <1>4, <2>1, <2>2 DEF SizeInv, TypeOK, ActiveCount, NeverUnderstaffed
<1> QED BY <1>5, <1>6

(* Every other step leaves the slots, their flags and both counters alone. *)
LEMMA SizeOther ==
    ASSUME SizeInv, UNCHANGED sizeVars, TypeOK', LoopInv'
    PROVE  SizeInv'
<1>1. Live' = Live
  BY DEF sizeVars, Live
<1> QED BY <1>1 DEF sizeVars, SizeInv, ActiveCount, NeverUnderstaffed

(* The size invariant is inductive.                                        *)
LEMMA SizeStep == SizeInv /\ [Next]_vars => SizeInv'
<1> SUFFICES ASSUME SizeInv, [Next]_vars PROVE SizeInv'
  OBVIOUS
<1> USE DEF SizeInv
<1>1. ASSUME NEW k \in Tasks, Submit(k) PROVE SizeInv'
  <2>1. TypeOK' /\ LoopInv'
    BY <1>1 DEF Submit, sizeVars, TypeOK, LoopInv
  <2> QED BY <1>1, <2>1, SizeOther DEF Submit
<1>2. ASSUME NEW n \in Requests, SetNumThreads(n) PROVE SizeInv'
  BY <1>2, SizeSetNumThreads
<1>3. ASSUME NEW t \in Threads, Check(t) PROVE SizeInv'
  <2>1. TypeOK' /\ LoopInv'
    BY <1>3 DEF Check, CheckIf, queueVars, sizeVars, TypeOK, LoopInv, Places
  <2> QED BY <1>3, <2>1, SizeOther DEF Check, CheckIf
<1>4. ASSUME NEW t \in Threads, Pop(t) PROVE SizeInv'
  <2>1. CASE queue = <<>>
    <3>1. TypeOK' /\ LoopInv'
      BY <1>4, <2>1 DEF Pop, PopTaking, sizeVars, TypeOK, LoopInv, Places
    <3> QED BY <1>4, <3>1, SizeOther DEF Pop, PopTaking
  <2>2. CASE queue # <<>>
    <3>1. Head(queue) \in Tasks /\ Tail(queue) \in Seq(Tasks)
      BY <2>2 DEF TypeOK
    <3>2. TypeOK'
      BY <1>4, <2>2, <3>1 DEF Pop, PopTaking, sizeVars, TypeOK, Places
    <3>3. LoopInv'
      BY <1>4, <2>2, <3>1, PoolAssumption DEF Pop, PopTaking, sizeVars, TypeOK, LoopInv
    <3> QED BY <1>4, <3>2, <3>3, SizeOther DEF Pop, PopTaking
  <2> QED BY <2>1, <2>2
<1>5. ASSUME NEW t \in Threads, Return(t) PROVE SizeInv'
  <2>1. held[t] \in Tasks
    BY <1>5 DEF Return, TypeOK, LoopInv
  <2>2. TypeOK' /\ LoopInv'
    BY <1>5, <2>1 DEF Return, sizeVars, TypeOK, LoopInv, Places
  <2> QED BY <1>5, <2>2, SizeOther DEF Return
<1>6. ASSUME NEW t \in Threads, Throw(t) PROVE SizeInv'
  <2>1. TypeOK' /\ LoopInv'
    BY <1>6 DEF Throw, queueVars, sizeVars, TypeOK, LoopInv
  <2> QED BY <1>6, <2>1, SizeOther DEF Throw
<1>7. ASSUME NEW t \in Threads, Drain(t) PROVE SizeInv'
  BY <1>7, SizeDrain
<1>8. CASE BeginShutdown \/ Destroy
  <2>1. TypeOK' /\ LoopInv'
    BY <1>8 DEF BeginShutdown, Destroy, queueVars, sizeVars, TypeOK, LoopInv
  <2> QED BY <1>8, <2>1, SizeOther DEF BeginShutdown, Destroy
<1>9. CASE UNCHANGED vars
  <2>1. TypeOK' /\ LoopInv'
    BY <1>9 DEF vars, TypeOK, LoopInv
  <2> QED BY <1>9, <2>1, SizeOther DEF vars, sizeVars
<1> QED BY <1>1, <1>2, <1>3, <1>4, <1>5, <1>6, <1>7, <1>8, <1>9 DEF Next

(* The state of the pool always has its type.                              *)
THEOREM TypeCorrect == Spec => []TypeOK
<1>1. SizeInv => TypeOK
  BY DEF SizeInv
<1> QED BY SizeInit, SizeStep, <1>1, PTL DEF Spec

(* The shared counter is always the number of slots that survive the next  *)
(* erasure, so a resize never overwrites a live thread nor leaves a slot   *)
(* empty.                                                                  *)
THEOREM CountCorrect == Spec => []ActiveCount
<1>1. SizeInv => ActiveCount
  BY DEF SizeInv
<1> QED BY SizeInit, SizeStep, <1>1, PTL DEF Spec

(* Draining threads never take the pool below the size asked for.          *)
THEOREM Staffed == Spec => []NeverUnderstaffed
<1>1. SizeInv => NeverUnderstaffed
  BY DEF SizeInv
<1> QED BY SizeInit, SizeStep, <1>1, PTL DEF Spec

-----------------------------------------------------------------------------
(* Where the tasks are.                                                    *)

TaskInv == OnePlacePerTask /\ OnlyTasksCrash /\ QuietWhenDestroyed

LEMMA TaskInit == Init => TaskInv
<1> SUFFICES ASSUME Init PROVE TaskInv
  OBVIOUS
<1>1. Taken = {} /\ Queued = {} /\ finished = {}
  BY DEF Init, Taken, Queued
<1> QED BY <1>1 DEF Init, TaskInv, OnePlacePerTask, OnlyTasksCrash, QuietWhenDestroyed

(* A step that leaves queue, held and finished alone moves no task.        *)
LEMMA TasksStay ==
    ASSUME TaskInv, UNCHANGED queueVars
    PROVE  OnePlacePerTask' /\ Taken' = Taken /\ Queued' = Queued
BY DEF TaskInv, OnePlacePerTask, queueVars, Taken, Queued

(* Submitting appends a task that is nowhere yet.                          *)
LEMMA TaskSubmit ==
    ASSUME SizeInv, TaskInv, NEW k \in Tasks, Submit(k)
    PROVE  OnePlacePerTask' /\ Taken' = Taken
<1>1. /\ k \notin Queued /\ k \notin Taken /\ k \notin finished
      /\ queue' = Append(queue, k)
      /\ held' = held /\ finished' = finished
      /\ queue \in Seq(Tasks)
  BY DEF Submit, SizeInv, TypeOK
<1>2. Taken' = Taken
  BY <1>1 DEF Taken
<1>3. /\ Len(queue') = Len(queue) + 1
      /\ \A i \in 1 .. Len(queue) : queue'[i] = queue[i]
      /\ queue'[Len(queue) + 1] = k
      /\ DOMAIN queue = 1 .. Len(queue)
      /\ DOMAIN queue' = 1 .. Len(queue')
      /\ Len(queue) \in Nat
  BY <1>1
<1>4. Queued' = Queued \cup {k}
  BY <1>3 DEF Queued
<1>5. \A i, j \in DOMAIN queue' : queue'[i] = queue'[j] => i = j
  <2> SUFFICES ASSUME NEW i \in DOMAIN queue', NEW j \in DOMAIN queue',
                      queue'[i] = queue'[j]
               PROVE  i = j
    OBVIOUS
  <2>1. i \in DOMAIN queue \/ i = Len(queue) + 1
    BY <1>3
  <2>2. j \in DOMAIN queue \/ j = Len(queue) + 1
    BY <1>3
  <2>3. \A m \in DOMAIN queue : queue'[m] = queue[m] /\ queue[m] # k
    BY <1>1, <1>3 DEF Queued
  <2> QED BY <1>3, <2>1, <2>2, <2>3 DEF TaskInv, OnePlacePerTask
<1> QED BY <1>1, <1>2, <1>4, <1>5 DEF TaskInv, OnePlacePerTask

(* Popping moves the front task from the queue to the thread.              *)
LEMMA TaskPop ==
    ASSUME SizeInv, TaskInv, NEW t \in Threads, Pop(t), queue # <<>>
    PROVE  OnePlacePerTask' /\ Taken' = Taken \cup {Head(queue)}
<1>1. /\ pc[t] = "pop"
      /\ held' = [held EXCEPT ![t] = Head(queue)]
      /\ queue' = Tail(queue)
      /\ finished' = finished
      /\ queue \in Seq(Tasks) /\ held \in [Threads -> Tasks \cup {NoTask}]
  BY DEF Pop, PopTaking, SizeInv, TypeOK
<1>2. held[t] = NoTask
  BY <1>1 DEF SizeInv, LoopInv
<1>3. /\ Head(queue) = queue[1]
      /\ Len(queue') = Len(queue) - 1
      /\ \A i \in 1 .. Len(queue') : queue'[i] = queue[i + 1]
      /\ DOMAIN queue = 1 .. Len(queue)
      /\ DOMAIN queue' = 1 .. Len(queue')
      /\ Len(queue) \in Nat \ {0}
      /\ Head(queue) \in Tasks
  BY <1>1
<1>4. Head(queue) # NoTask
  BY <1>3, PoolAssumption
<1>5. Taken' = Taken \cup {Head(queue)}
  BY <1>1, <1>2, <1>4 DEF Taken
<1>6. Head(queue) \in Queued /\ Head(queue) \notin Queued'
  BY <1>3 DEF Queued, TaskInv, OnePlacePerTask
<1>7. Queued' \subseteq Queued
  BY <1>3 DEF Queued
<1>8. \A i, j \in DOMAIN queue' : queue'[i] = queue'[j] => i = j
  <2> SUFFICES ASSUME NEW i \in DOMAIN queue', NEW j \in DOMAIN queue',
                      queue'[i] = queue'[j]
               PROVE  i = j
    OBVIOUS
  <2>1. queue[i + 1] = queue[j + 1] /\ i + 1 \in DOMAIN queue /\ j + 1 \in DOMAIN queue
    BY <1>3
  <2>2. i + 1 = j + 1
    BY <2>1 DEF TaskInv, OnePlacePerTask
  <2> QED BY <1>3, <2>2
<1>9. \A s, u \in Threads : held'[s] = held'[u] /\ held'[s] # NoTask => s = u
  <2> SUFFICES ASSUME NEW s \in Threads, NEW u \in Threads,
                      held'[s] = held'[u], held'[s] # NoTask
               PROVE  s = u
    OBVIOUS
  <2>1. \A v \in Threads : v # t => held'[v] = held[v]
    BY <1>1
  <2>2. held'[t] = Head(queue)
    BY <1>1
  <2>3. \A v \in Threads : held[v] # Head(queue)
    BY <1>4, <1>6 DEF TaskInv, OnePlacePerTask, Taken
  <2> QED BY <2>1, <2>2, <2>3 DEF TaskInv, OnePlacePerTask
<1>10. /\ Queued' \cap Taken' = {}
       /\ Queued' \cap finished' = {}
       /\ Taken' \cap finished' = {}
  BY <1>1, <1>5, <1>6, <1>7 DEF TaskInv, OnePlacePerTask
<1> QED BY <1>5, <1>8, <1>9, <1>10 DEF OnePlacePerTask

(* Returning moves the thread's task to the finished ones.                 *)
LEMMA TaskReturn ==
    ASSUME SizeInv, TaskInv, NEW t \in Threads, Return(t)
    PROVE  /\ OnePlacePerTask'
           /\ held[t] \in Taken
           /\ Taken' = Taken \ {held[t]}
<1>1. /\ pc[t] = "run"
      /\ finished' = finished \cup {held[t]}
      /\ held' = [held EXCEPT ![t] = NoTask]
      /\ queue' = queue
      /\ held \in [Threads -> Tasks \cup {NoTask}]
  BY DEF Return, SizeInv, TypeOK
<1>2. held[t] # NoTask /\ held[t] \in Taken
  BY <1>1 DEF SizeInv, LoopInv, Taken
<1>3. Taken' = Taken \ {held[t]}
  BY <1>1, <1>2 DEF Taken, TaskInv, OnePlacePerTask
<1>4. Queued' = Queued
  BY <1>1 DEF Queued
<1> QED BY <1>1, <1>2, <1>3, <1>4 DEF TaskInv, OnePlacePerTask

(* The task invariant is preserved, given the size invariant.              *)
LEMMA TaskStep == SizeInv /\ TaskInv /\ [Next]_vars => TaskInv'
<1> SUFFICES ASSUME SizeInv, TaskInv, [Next]_vars PROVE TaskInv'
  OBVIOUS
<1>1. ASSUME status' = "up", OnePlacePerTask' PROVE TaskInv'
  BY <1>1 DEF TaskInv, OnlyTasksCrash, QuietWhenDestroyed
<1>2. ASSUME NEW k \in Tasks, Submit(k) PROVE TaskInv'
  BY <1>1, <1>2, TaskSubmit DEF Submit
<1>3. ASSUME NEW n \in Requests, SetNumThreads(n) PROVE TaskInv'
  BY <1>1, <1>3, SizeSetNumThreads, TasksStay DEF SetNumThreads
<1>4. ASSUME NEW t \in Threads, Check(t) PROVE TaskInv'
  BY <1>1, <1>4, TasksStay DEF Check, CheckIf
<1>5. ASSUME NEW t \in Threads, Pop(t) PROVE TaskInv'
  <2>1. CASE queue = <<>>
    BY <1>1, <1>5, <2>1, TasksStay DEF Pop, PopTaking, queueVars
  <2>2. CASE queue # <<>>
    BY <1>1, <1>5, <2>2, TaskPop DEF Pop, PopTaking
  <2> QED BY <2>1, <2>2
<1>6. ASSUME NEW t \in Threads, Return(t) PROVE TaskInv'
  BY <1>1, <1>6, TaskReturn DEF Return
<1>7. ASSUME NEW t \in Threads, Throw(t) PROVE TaskInv'
  <2>1. held[t] \in Throwing /\ UNCHANGED queueVars /\ status' = "crashed"
    BY <1>7 DEF Throw
  <2>2. held[t] \in Taken \cap Throwing
    BY <2>1, PoolAssumption DEF Taken
  <2> QED BY <2>1, <2>2, TasksStay DEF TaskInv, OnlyTasksCrash, QuietWhenDestroyed
<1>8. ASSUME NEW t \in Threads, Drain(t) PROVE TaskInv'
  BY <1>1, <1>8, TasksStay DEF Drain, DrainIf
<1>9. CASE BeginShutdown
  BY <1>1, <1>9, TasksStay DEF BeginShutdown
<1>10. CASE Destroy
  <2>1. /\ \A t \in threads : pc[t] = "exited"
        /\ status' = "destroyed" /\ UNCHANGED <<queueVars, pc>>
    BY <1>10 DEF Destroy
  <2>2. \A t \in Threads : pc[t] \in {"unborn", "exited"} /\ held[t] = NoTask
    BY <2>1 DEF SizeInv, LoopInv
  <2>3. Taken = {}
    BY <2>2 DEF Taken
  <2> QED BY <2>1, <2>2, <2>3, TasksStay DEF TaskInv, OnlyTasksCrash, QuietWhenDestroyed
<1>11. CASE UNCHANGED vars
  <2>1. UNCHANGED queueVars /\ UNCHANGED <<pc, status>>
    BY <1>11 DEF vars, queueVars
  <2> QED BY <2>1, TasksStay DEF TaskInv, OnlyTasksCrash, QuietWhenDestroyed
<1> QED BY <1>2, <1>3, <1>4, <1>5, <1>6, <1>7, <1>8, <1>9, <1>10, <1>11 DEF Next

(* The two invariants hold together in every state of every behaviour.     *)
LEMMA PoolInvariant == Spec => [](SizeInv /\ TaskInv)
BY SizeInit, SizeStep, TaskInit, TaskStep, PTL DEF Spec

(* No task is lost to two threads, run twice or run again once finished.   *)
THEOREM TasksOnce == Spec => []OnePlacePerTask
<1>1. TaskInv => OnePlacePerTask
  BY DEF TaskInv
<1> QED BY PoolInvariant, <1>1, PTL

(* Whatever the interleaving of resizes and draining threads, the process  *)
(* only ever aborts because a task threw.                                  *)
THEOREM ResizeSafe == Spec => []OnlyTasksCrash
<1>1. TaskInv => OnlyTasksCrash
  BY DEF TaskInv
<1> QED BY PoolInvariant, <1>1, PTL

(* The destructor returns only when no thread can touch a task any more.   *)
THEOREM DestroyedQuiet == Spec => []QuietWhenDestroyed
<1>1. TaskInv => QuietWhenDestroyed
  BY DEF TaskInv
<1> QED BY PoolInvariant, <1>1, PTL

-----------------------------------------------------------------------------
(* The pool implements Executor.                                           *)

(* A thread that holds no task leaves room for one more: the tasks taken   *)
(* are fewer than the active threads.                                      *)
LEMMA IdleRoom ==
    ASSUME SizeInv, NEW t \in Live, held[t] = NoTask
    PROVE  Cardinality(Taken) < num_active_threads
<1> DEFINE busy == {s \in Threads : held[s] # NoTask}
           f == [s \in busy |-> held[s]]
<1>1. busy \subseteq Live \ {t}
  BY DEF SizeInv, LoopInv, Live
<1>2. IsFiniteSet(Live) /\ Cardinality(Live) \in Nat
  BY LiveFinite DEF SizeInv
<1>3. /\ IsFiniteSet(Live \ {t})
      /\ Cardinality(Live \ {t}) = Cardinality(Live) - 1
  BY <1>2, FS_RemoveElement
<1>4. IsFiniteSet(busy) /\ Cardinality(busy) <= Cardinality(Live \ {t})
  BY <1>1, <1>3, FS_Subset
<1>5. f \in Surjection(busy, Taken)
  BY DEF Surjection, Taken
<1>6. IsFiniteSet(Taken) /\ Cardinality(Taken) <= Cardinality(busy)
  BY <1>4, <1>5, FS_Surjection
<1>7. Cardinality(Taken) \in Nat /\ Cardinality(busy) \in Nat
  BY <1>4, <1>6, FS_CardinalityType
<1> QED BY <1>2, <1>3, <1>4, <1>6, <1>7 DEF SizeInv, ActiveCount

(* The executor counts with the same cardinality.                          *)
LEMMA SameCardinality == \A S : Abstract!Cardinality(S) = Cardinality(S)
BY DEF Cardinality, Abstract!Cardinality

LEMMA AbstractInit == Init => Abstract!Init
<1> SUFFICES ASSUME Init PROVE Abstract!Init
  OBVIOUS
<1>1. Taken = {}
  BY DEF Init, Taken
<1> QED BY <1>1 DEF Init, Abstract!Init

(* Every step of the pool is a step of the executor or a stutter.          *)
LEMMA AbstractStep ==
    SizeInv /\ TaskInv /\ [Next]_vars => [Abstract!Next]_(Abstract!vars)
<1> SUFFICES ASSUME SizeInv, TaskInv, [Next]_vars
             PROVE  [Abstract!Next]_(Abstract!vars)
  OBVIOUS
<1>1. ASSUME NEW k \in Tasks, Submit(k) PROVE Abstract!Accept(k)
  <2>1. /\ k \notin Taken \cup finished
        /\ \A i \in DOMAIN queue : queue[i] # k
    BY <1>1 DEF Submit, Queued
  <2> QED BY <1>1, <2>1, TaskSubmit DEF Submit, sizeVars, Abstract!Accept
<1>2. ASSUME NEW n \in Requests, SetNumThreads(n) PROVE Abstract!Resize(n)
  <2>1. status' = "up" /\ Taken' = Taken
    BY <1>2, SizeSetNumThreads, TasksStay DEF SetNumThreads
  <2>2. n \in Int /\ num_active_threads \in Nat /\ num_threads \in Int
    BY PoolAssumption DEF SizeInv, TypeOK
  <2>3. num_threads <= num_active_threads
    BY DEF SizeInv, NeverUnderstaffed
  <2>4. num_active_threads' = IF n > num_active_threads THEN n ELSE num_active_threads
    BY <1>2, <2>2, <2>3 DEF SetNumThreads, NewThreads
  <2> QED BY <1>2, <2>1, <2>4 DEF SetNumThreads, queueVars, Abstract!Resize
<1>3. ASSUME NEW t \in Threads, Check(t) PROVE UNCHANGED Abstract!vars
  BY <1>3, TasksStay DEF Check, CheckIf, queueVars, sizeVars, Abstract!vars
<1>4. ASSUME NEW t \in Threads, Pop(t) PROVE [Abstract!Start]_(Abstract!vars)
  <2>1. CASE queue = <<>>
    BY <1>4, <2>1, TasksStay DEF Pop, PopTaking, queueVars, sizeVars, Abstract!vars
  <2>2. CASE queue # <<>>
    <3>1. t \in Live /\ held[t] = NoTask
      BY <1>4 DEF Pop, PopTaking, SizeInv, LoopInv, Live
    <3>2. Cardinality(Taken) < num_active_threads
      BY <3>1, IdleRoom
    <3>3. Taken' = Taken \cup {Head(queue)}
      BY <1>4, <2>2, TaskPop
    <3>4. Abstract!Start
      BY <1>4, <2>2, <3>2, <3>3, SameCardinality DEF Pop, PopTaking, sizeVars, Abstract!Start
    <3> QED BY <3>4
  <2> QED BY <2>1, <2>2
<1>5. ASSUME NEW t \in Threads, Return(t) PROVE Abstract!Finish(held[t])
  BY <1>5, TaskReturn DEF Return, sizeVars, Abstract!Finish
<1>6. ASSUME NEW t \in Threads, Return(t) PROVE held[t] \in Tasks
  BY <1>6 DEF Return, SizeInv, LoopInv, TypeOK
<1>7. ASSUME NEW t \in Threads, Throw(t) PROVE Abstract!GoDown
  <2>1. held[t] \in Taken \cap Throwing
    BY <1>7, PoolAssumption DEF Throw, Taken
  <2>2. Taken' = Taken
    BY <1>7, TasksStay DEF Throw
  <2> QED BY <1>7, <2>1, <2>2 DEF Throw, queueVars, sizeVars, Abstract!GoDown
<1>8. ASSUME NEW t \in Threads, Drain(t) PROVE [Abstract!Retire]_(Abstract!vars)
  <2>1. Taken' = Taken
    BY <1>8, TasksStay DEF Drain, DrainIf
  <2>2. CASE num_active_threads > num_threads
    <3>1. t \in Live /\ held[t] = NoTask
      BY <1>8 DEF Drain, DrainIf, SizeInv, LoopInv, Live
    <3>2. Cardinality(Taken) < num_active_threads
      BY <3>1, IdleRoom
    <3>3. Abstract!Retire
      BY <1>8, <2>1, <2>2, <3>2, SameCardinality DEF Drain, DrainIf, queueVars, Abstract!Retire
    <3> QED BY <3>3
  <2>3. CASE ~(num_active_threads > num_threads)
    BY <1>8, <2>1, <2>3 DEF Drain, DrainIf, queueVars, Abstract!vars
  <2> QED BY <2>2, <2>3
<1>9. ASSUME BeginShutdown PROVE Abstract!Close
  BY <1>9, TasksStay DEF BeginShutdown, queueVars, sizeVars, Abstract!Close
<1>10. ASSUME Destroy PROVE Abstract!GoDown
  <2>1. Taken = {} /\ Taken' = {}
    <3>1. \A t \in Threads : held[t] = NoTask
      BY <1>10 DEF Destroy, SizeInv, LoopInv
    <3> QED BY <3>1, <1>10 DEF Destroy, queueVars, Taken
  <2> QED BY <1>10, <2>1 DEF Destroy, queueVars, sizeVars, Abstract!GoDown
<1>11. ASSUME UNCHANGED vars PROVE UNCHANGED Abstract!vars
  BY <1>11 DEF vars, Taken, Abstract!vars
<1> QED
  BY <1>1, <1>2, <1>3, <1>4, <1>5, <1>6, <1>7, <1>8, <1>9, <1>10, <1>11
     DEF Next, Abstract!Next

(* The pool keeps the promise stated in Executor: FIFO start, each task    *)
(* once, bounded concurrency, and a gradual and bounded drain.             *)
THEOREM PoolRefinesExecutor == Spec => RefinesExecutor
BY PoolInvariant, AbstractInit, AbstractStep, PTL DEF Spec, RefinesExecutor, Abstract!Spec

=============================================================================
