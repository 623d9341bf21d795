----------------------------- MODULE ThreadPool -----------------------------
(***************************************************************************)
(* The process-wide thread pool of qristal::thread_pool.  Clients push     *)
(* tasks on a FIFO queue; worker threads run loop(), each iteration of     *)
(* which reads the two exit flags, pops at most one task under queue_m,    *)
(* runs it, and under threads_m decides whether this thread must drain     *)
(* out because the pool was shrunk.  set_num_threads() grows or shrinks    *)
(* the pool while the workers run; the destructor raises shutting_down and *)
(* joins every thread.                                                     *)
(*                                                                         *)
(* Each critical section is one atomic step.  Only the indices of the      *)
(* vector `threads' are abstracted: it is the set of the threads that own  *)
(* a slot, and a slot that would be overwritten or left empty by the index *)
(* arithmetic of a resize aborts the process.                              *)
(*                                                                         *)
(* An operator Action_Variation is a mutated form of Action that some      *)
(* property must reject (PROJECT.json pairs them); no specification uses   *)
(* it.                                                                     *)
(***************************************************************************)
EXTENDS Integers, Sequences, FiniteSets

CONSTANTS
    Threads,      \* std::thread objects; a joined one may be created again
    Tasks,        \* submitted functions, each with a promise of its own
    NoTask,       \* what a thread holds between two tasks
    Throwing,     \* the tasks that may exit by an exception
    Requests,     \* arguments of set_num_threads, any int
    Concurrency   \* std::thread::hardware_concurrency(), which may be 0

ASSUME PoolAssumption ==
    /\ IsFiniteSet(Threads)
    /\ NoTask \notin Tasks
    /\ Throwing \subseteq Tasks
    /\ Requests \subseteq Int
    /\ \A n \in Requests : n <= Cardinality(Threads)
    /\ Concurrency \in 0 .. Cardinality(Threads)

VARIABLES
    queue,               \* tasks waiting, front first
    threads,             \* the threads that own a slot of the vector
    done,                \* the shared flag paired with each thread
    pc,                  \* where each thread is in loop()
    held,                \* the task a thread took and has not finished
    finished,            \* tasks whose promise has been fulfilled
    num_threads,         \* the size asked for
    num_active_threads,  \* the threads the pool believes are running
    shutting_down,       \* raised by the destructor
    status               \* of the process: "up", "crashed" or "destroyed"

vars == <<queue, threads, done, pc, held, finished, num_threads,
          num_active_threads, shutting_down, status>>

queueVars  == <<queue, held, finished>>
sizeVars   == <<threads, done, num_threads, num_active_threads>>

Places == {"unborn", "check", "pop", "run", "drain", "exited"}

TypeOK ==
    /\ queue \in Seq(Tasks)
    /\ threads \in SUBSET Threads
    /\ done \in [Threads -> BOOLEAN]
    /\ pc \in [Threads -> Places]
    /\ held \in [Threads -> Tasks \cup {NoTask}]
    /\ finished \in SUBSET Tasks
    /\ num_threads \in Int
    /\ num_active_threads \in Nat
    /\ shutting_down \in BOOLEAN
    /\ status \in {"up", "crashed", "destroyed"}

(* The threads of the vector that have not been told to drain out: those   *)
(* that survive an erasure.                                                *)
Live_NoErase == threads
Live == {t \in threads : ~done[t]}

(* The tasks some thread has taken off the queue and not finished.         *)
Taken == {held[t] : t \in Threads} \ {NoTask}

Queued == {queue[i] : i \in DOMAIN queue}

-----------------------------------------------------------------------------
(* The constructor: hardware_concurrency threads enter loop().             *)
Init ==
    /\ queue = <<>>
    /\ threads \in {S \in SUBSET Threads : Cardinality(S) = Concurrency}
    /\ done = [t \in Threads |-> FALSE]
    /\ pc = [t \in Threads |-> IF t \in threads THEN "check" ELSE "unborn"]
    /\ held = [t \in Threads |-> NoTask]
    /\ finished = {}
    /\ num_threads = Concurrency
    /\ num_active_threads = Concurrency
    /\ shutting_down = FALSE
    /\ status = "up"

(* internal_submit(): any thread pushes a task that was not pushed before. *)
Submit(k) ==
    /\ status = "up"
    /\ k \notin Queued \cup Taken \cup finished
    /\ queue' = Append(queue, k)
    /\ UNCHANGED <<sizeVars, pc, held, finished, shutting_down, status>>

(* set_num_threads_internal(), under threads_m.  It joins the threads that *)
(* have drained out (so it waits until they have left loop()) and erases   *)
(* them; then, for more threads than are active, it fills the slots        *)
(* num_active_threads .. n-1, which are the empty ones only if exactly     *)
(* num_active_threads slots survived the erasure.                          *)
NewThreads_None(n) == 0
NewThreads(n) ==
    IF num_threads # n /\ n > num_active_threads THEN n - num_active_threads ELSE 0

SetNumThreads(n) ==
    /\ status = "up"
    /\ ~shutting_down
    /\ \A t \in threads : done[t] => pc[t] = "exited"
    /\ \E fresh \in SUBSET (Threads \ Live) :
         /\ Cardinality(fresh) = NewThreads(n)
         /\ threads' = Live \cup fresh
         /\ pc' = [t \in Threads |-> IF t \in fresh THEN "check"
                                     ELSE IF t \in Live THEN pc[t] ELSE "unborn"]
    /\ num_active_threads' = num_active_threads + NewThreads(n)
    /\ status' = IF NewThreads(n) > 0 /\ Cardinality(Live) # num_active_threads
                 THEN "crashed" ELSE "up"
    /\ done' = [t \in Threads |-> FALSE]
    /\ num_threads' = n
    /\ UNCHANGED <<queueVars, shutting_down>>

-----------------------------------------------------------------------------
(* One iteration of loop() on thread t.                                    *)

CheckIf(t, leave) ==
    /\ status = "up"
    /\ pc[t] = "check"
    /\ pc' = [pc EXCEPT ![t] = IF leave THEN "exited" ELSE "pop"]
    /\ UNCHANGED <<queueVars, sizeVars, shutting_down, status>>

Check_IgnoresShutdown(t) == CheckIf(t, done[t])
Check(t) == CheckIf(t, shutting_down \/ done[t])

PopTaking(t, k, rest) ==
    /\ status = "up"
    /\ pc[t] = "pop"
    /\ IF queue = <<>>
       THEN /\ pc' = [pc EXCEPT ![t] = "drain"]
            /\ UNCHANGED <<queue, held>>
       ELSE /\ pc' = [pc EXCEPT ![t] = "run"]
            /\ held' = [held EXCEPT ![t] = k]
            /\ queue' = rest
    /\ UNCHANGED <<finished, sizeVars, shutting_down, status>>

Pop_Newest(t) == PopTaking(t, queue[Len(queue)], SubSeq(queue, 1, Len(queue) - 1))
Pop(t) == PopTaking(t, Head(queue), Tail(queue))

(* The task returns and its promise is set.                                *)
Return(t) ==
    /\ status = "up"
    /\ pc[t] = "run"
    /\ finished' = finished \cup {held[t]}
    /\ held' = [held EXCEPT ![t] = NoTask]
    /\ pc' = [pc EXCEPT ![t] = "drain"]
    /\ UNCHANGED <<queue, sizeVars, shutting_down, status>>

(* The task throws: nothing between it and the thread's entry point        *)
(* catches, so the process terminates.                                     *)
Throw(t) ==
    /\ status = "up"
    /\ pc[t] = "run"
    /\ held[t] \in Throwing
    /\ status' = "crashed"
    /\ UNCHANGED <<queueVars, sizeVars, pc, shutting_down>>

DrainIf(t, surplus) ==
    /\ status = "up"
    /\ pc[t] = "drain"
    /\ pc' = [pc EXCEPT ![t] = "check"]
    /\ IF surplus
       THEN /\ done' = [done EXCEPT ![t] = TRUE]
            /\ num_active_threads' = num_active_threads - 1
       ELSE UNCHANGED <<done, num_active_threads>>
    /\ UNCHANGED <<queueVars, threads, num_threads, shutting_down, status>>

Drain_AtTarget(t) == DrainIf(t, num_active_threads >= num_threads)
Drain_OneShort(t) == DrainIf(t, num_active_threads > num_threads + 1)
Drain(t) == DrainIf(t, num_active_threads > num_threads)

-----------------------------------------------------------------------------
(* The destructor raises the flag and then joins every thread in turn.     *)
BeginShutdown ==
    /\ status = "up"
    /\ ~shutting_down
    /\ shutting_down' = TRUE
    /\ UNCHANGED <<queueVars, sizeVars, pc, status>>

Destroy ==
    /\ status = "up"
    /\ shutting_down
    /\ \A t \in threads : pc[t] = "exited"
    /\ status' = "destroyed"
    /\ UNCHANGED <<queueVars, sizeVars, pc, shutting_down>>

Work(t) == Check(t) \/ Pop(t) \/ Return(t) \/ Throw(t) \/ Drain(t)

Next ==
    \/ \E k \in Tasks : Submit(k)
    \/ \E n \in Requests : SetNumThreads(n)
    \/ \E t \in Threads : Check(t)
    \/ \E t \in Threads : Pop(t)
    \/ \E t \in Threads : Return(t)
    \/ \E t \in Threads : Throw(t)
    \/ \E t \in Threads : Drain(t)
    \/ BeginShutdown
    \/ Destroy

Spec == Init /\ [][Next]_vars

(* Every thread keeps taking steps and obtains a mutex it waits for, tasks *)
(* end, and a destructor that may return does.  Clients owe nothing.       *)
Fairness ==
    /\ \A t \in Threads : WF_vars(Work(t))
    /\ WF_vars(Destroy)

FairSpec == Spec /\ Fairness

-----------------------------------------------------------------------------
(* The counter the workers and set_num_threads() share is exactly the      *)
(* number of slots whose thread has not been told to drain out: what the   *)
(* index arithmetic of the next resize relies on.                          *)
ActiveCount == num_active_threads = Cardinality(Live)

(* However many threads drain out at once, never more than the surplus.    *)
NeverUnderstaffed == num_active_threads >= num_threads

(* Every task is in at most one place, and only once: waiting, held by one *)
(* thread, or finished.                                                    *)
OnePlacePerTask ==
    /\ \A i, j \in DOMAIN queue : queue[i] = queue[j] => i = j
    /\ \A s, t \in Threads : held[s] = held[t] /\ held[s] # NoTask => s = t
    /\ Queued \cap Taken = {}
    /\ Queued \cap finished = {}
    /\ Taken \cap finished = {}

(* Resizing never aborts the process: only a task that throws does.        *)
OnlyTasksCrash == status = "crashed" => Taken \cap Throwing # {}

(* Once the destructor returns no thread is left that could touch a task.  *)
QuietWhenDestroyed ==
    status = "destroyed" =>
        Taken = {} /\ \A t \in Threads : pc[t] \in {"unborn", "exited"}

(* A submitted task is started, unless the process goes down first or the  *)
(* pool is at some point asked to keep no thread.                          *)
EveryTaskStarts ==
    \A k \in Tasks :
        k \in Queued ~> \/ k \in Taken \cup finished
                        \/ shutting_down \/ status # "up" \/ num_threads <= 0

(* Shrinking takes effect: again and again the pool has the size asked     *)
(* for (or none, for a negative request), until it goes down.              *)
PoolConverges ==
    []<>(\/ num_active_threads = (IF num_threads > 0 THEN num_threads ELSE 0)
         \/ shutting_down \/ status # "up")

(* The destructor returns, however the pool was resized before.            *)
ShutdownCompletes == shutting_down ~> status # "up"

-----------------------------------------------------------------------------
(* How a thread's place in loop() relates to its slot, its flag and the    *)
(* task it holds; the strengthening that makes the invariants inductive.   *)
LoopInv ==
    \A t \in Threads :
        /\ t \in threads <=> pc[t] # "unborn"
        /\ pc[t] = "run" <=> held[t] # NoTask
        /\ done[t] => t \in threads /\ pc[t] \in {"check", "exited"}

-----------------------------------------------------------------------------
(* What the pool promises, see Executor.                                   *)
Abstract == INSTANCE Executor WITH
    pending  <- queue,
    running  <- Taken,
    capacity <- num_active_threads,
    target   <- num_threads,
    open     <- ~shutting_down,
    up       <- status = "up"

RefinesExecutor == Abstract!Spec

=============================================================================
