----------------------------- MODULE JobHandle ------------------------------
(***************************************************************************)
(* Asynchronous jobs of the Python interface.  run_async() makes a         *)
(* JobHandle and posts its session on the thread pool; the worker takes    *)
(* Python's global interpreter lock (GIL), runs the session, and gives the *)
(* lock back for its last few assignments.  A job on a local simulator     *)
(* ends with that task; a job on AWS Braket only leaves a handle behind,   *)
(* whose done() polls the remote task and, once that has completed, posts  *)
(* the post-processing callbacks on the same pool.  Meanwhile Python       *)
(* threads call complete(), get() and terminate(), which the binding runs  *)
(* with the GIL held.                                                      *)
(*                                                                         *)
(* The pool is the abstract Executor that ThreadPool implements.           *)
(*                                                                         *)
(* An operator Action_Variation is a mutated form of Action that some      *)
(* property must reject; no specification uses it.                         *)
(***************************************************************************)
EXTENDS Integers, Sequences, FiniteSets

CONSTANTS
    Clients,      \* Python threads
    LocalJobs,    \* handles whose session runs on a local simulator
    RemoteJobs,   \* handles whose session runs on AWS Braket
    Failing,      \* jobs whose session may throw
    PoolSize,     \* worker threads at the start
    PoolSizes,    \* values Python gives to num_threads
    Patient,      \* TRUE: get() is only called once the task left the pool
    Nobody        \* the GIL is free; a client is not inside a call

Jobs == LocalJobs \cup RemoteJobs
Run(j) == <<"run", j>>
Callbacks(j) == <<"callbacks", j>>
Tasks == {Run(j) : j \in Jobs} \cup {Callbacks(j) : j \in RemoteJobs}

ASSUME JobAssumption ==
    /\ LocalJobs \cap RemoteJobs = {}
    /\ Failing \subseteq Jobs
    /\ PoolSize \in Nat
    /\ PoolSizes \subseteq Int
    /\ Patient \in BOOLEAN
    /\ Nobody \notin Clients \cup Tasks \cup ({"future", "poll"} \X Jobs)
    /\ Clients \cap Tasks = {}

VARIABLES
    pending, running, finished,  \* the pool's tasks
    capacity, target, open,      \* and its size, see Executor
    alive,             \* FALSE once an exception left a pool task
    gil,               \* who holds the interpreter lock
    place,             \* where each task is
    doing,             \* the blocking call each client is inside, if any
    m_thread_running, m_handle,  \* the fields of each JobHandle
    results,           \* jobs whose session holds its results
    remote,            \* state of each Braket task
    reported,          \* jobs a client was told are complete
    returned           \* jobs whose get() returned

sizeVars   == <<capacity, target, open>>
poolVars   == <<pending, running, finished, sizeVars, alive>>
handleVars == <<m_thread_running, m_handle>>
seenVars   == <<reported, returned>>
vars == <<poolVars, gil, place, doing, handleVars, results, remote, seenVars>>

Pool == INSTANCE Executor WITH
    Throwing <- Tasks, Requests <- PoolSizes, Concurrency <- PoolSize, up <- alive

Init ==
    /\ Pool!Init
    /\ gil = Nobody
    /\ place = [t \in Tasks |-> "none"]
    /\ doing = [c \in Clients |-> Nobody]
    /\ m_thread_running = [j \in Jobs |-> FALSE] /\ m_handle = [j \in Jobs |-> FALSE]
    /\ results = {}
    /\ remote = [j \in RemoteJobs |-> "none"]
    /\ reported = {} /\ returned = {}

-----------------------------------------------------------------------------
(* The interpreter lock.  A client is always either running Python code or *)
(* inside a call; it hands the lock over between two bytecodes, while it   *)
(* sleeps, and during the network requests of a Braket call.  So does a    *)
(* task inside Braket's Python code.  Nothing else gives the lock away.    *)

WantsGil(p) ==
    IF p \in Clients THEN doing[p] \notin {"future"} \X Jobs
                     ELSE place[p] \in {"acquire", "reacquire"}

Acquire(p) ==
    /\ alive
    /\ gil = Nobody
    /\ WantsGil(p)
    /\ gil' = p
    /\ UNCHANGED <<poolVars, place, doing, handleVars, results, remote, seenVars>>

InPython(p) ==
    \/ p \in Clients /\ WantsGil(p)
    \/ p \in {Run(j) : j \in RemoteJobs} \cup {Callbacks(j) : j \in RemoteJobs}
       /\ place[p] = "acquire"

Yield(p) ==
    /\ alive
    /\ gil = p
    /\ InPython(p)
    /\ gil' = Nobody
    /\ UNCHANGED <<poolVars, place, doing, handleVars, results, remote, seenVars>>

-----------------------------------------------------------------------------
(* The task posted by post_async(), on a pool thread.                      *)

Start ==
    /\ Pool!Start
    /\ place' = [place EXCEPT ![Head(pending)] = "acquire"]
    /\ UNCHANGED <<gil, doing, handleVars, results, remote, seenVars>>

(* A pool thread drains out after a shrink.                                *)
Retire ==
    /\ Pool!Retire
    /\ UNCHANGED <<gil, place, doing, handleVars, results, remote, seenVars>>

(* session::run() under the GIL: a local simulation from start to end, or  *)
(* the submission of a Braket task; then the GIL is released.              *)
RunSession(j) ==
    /\ alive
    /\ place[Run(j)] = "acquire" /\ gil = Run(j)
    /\ IF j \in LocalJobs
       THEN results' = results \cup {j} /\ UNCHANGED remote
       ELSE remote' = [remote EXCEPT ![j] = "RUNNING"] /\ UNCHANGED results
    /\ place' = [place EXCEPT ![Run(j)] = "clear"]
    /\ gil' = Nobody
    /\ UNCHANGED <<poolVars, doing, handleVars, seenVars>>

(* An exception of session::run() leaves the pool task and ends the        *)
(* process.                                                                *)
SessionThrows(j) ==
    /\ alive
    /\ j \in Failing
    /\ place[Run(j)] = "acquire" /\ gil = Run(j)
    /\ alive' = FALSE
    /\ UNCHANGED <<pending, running, finished, sizeVars, gil, place, doing,
                   handleVars, results, remote, seenVars>>

(* m_thread_running = false, without the GIL; a local job then only has to *)
(* take the GIL back to leave the function.                                *)
ClearFlag_BeforeRun(j) ==
    /\ alive
    /\ place[Run(j)] \in {"acquire", "clear"}
    /\ m_thread_running' = [m_thread_running EXCEPT ![j] = FALSE]
    /\ place' = [place EXCEPT ![Run(j)] = IF @ = "acquire" THEN @ ELSE "reacquire"]
    /\ UNCHANGED <<poolVars, gil, doing, m_handle, results, remote, seenVars>>

ClearFlag(j) ==
    /\ alive
    /\ place[Run(j)] = "clear"
    /\ m_thread_running' = [m_thread_running EXCEPT ![j] = FALSE]
    /\ place' = [place EXCEPT ![Run(j)] = IF j \in LocalJobs THEN "reacquire" ELSE "store"]
    /\ UNCHANGED <<poolVars, gil, doing, m_handle, results, remote, seenVars>>

StoreHandle(j) ==
    /\ alive
    /\ place[Run(j)] = "store"
    /\ m_handle' = [m_handle EXCEPT ![j] = TRUE]
    /\ place' = [place EXCEPT ![Run(j)] = "reacquire"]
    /\ UNCHANGED <<poolVars, gil, doing, m_thread_running, results, remote, seenVars>>

(* The destructor of gil_scoped_release took the GIL back; that of         *)
(* gil_scoped_acquire releases it for good.                                *)
Leave_KeepsGil(j) ==
    /\ alive
    /\ place[Run(j)] = "reacquire" /\ gil = Run(j)
    /\ place' = [place EXCEPT ![Run(j)] = "set"]
    /\ UNCHANGED <<poolVars, gil, doing, handleVars, results, remote, seenVars>>

Leave(j) ==
    /\ alive
    /\ place[Run(j)] = "reacquire" /\ gil = Run(j)
    /\ gil' = Nobody
    /\ place' = [place EXCEPT ![Run(j)] = "set"]
    /\ UNCHANGED <<poolVars, doing, handleVars, results, remote, seenVars>>

(* The pool fulfils the task's promise.                                    *)
SetValue(t) ==
    /\ place[t] = "set"
    /\ Pool!Finish(t)
    /\ place' = [place EXCEPT ![t] = "ended"]
    /\ UNCHANGED <<gil, doing, handleVars, results, remote, seenVars>>

(* The callbacks of a completed Braket task, under the GIL: load the       *)
(* counts and post-process them into the session.                          *)
RunCallbacks(j) ==
    /\ alive
    /\ place[Callbacks(j)] = "acquire" /\ gil = Callbacks(j)
    /\ results' = results \cup {j}
    /\ gil' = Nobody
    /\ place' = [place EXCEPT ![Callbacks(j)] = "set"]
    /\ UNCHANGED <<poolVars, doing, handleVars, remote, seenVars>>

(* The Braket service.                                                     *)
RemoteEnds(j) ==
    /\ alive
    /\ \/ remote[j] = "RUNNING" /\ \E s \in {"COMPLETED", "FAILED"} :
                                       remote' = [remote EXCEPT ![j] = s]
       \/ remote[j] = "CANCELLING" /\ \E s \in {"COMPLETED", "CANCELLED"} :
                                       remote' = [remote EXCEPT ![j] = s]
    /\ UNCHANGED <<poolVars, gil, place, doing, handleVars, results, seenVars>>

-----------------------------------------------------------------------------
(* Calls of a Python thread.                                               *)

InPythonCode(c) == alive /\ gil = c /\ doing[c] = Nobody
Posted(j) == place[Run(j)] # "none"

PostAsync(c, j) ==
    /\ InPythonCode(c)
    /\ Pool!Accept(Run(j))
    /\ place' = [place EXCEPT ![Run(j)] = "queued"]
    /\ m_thread_running' = [m_thread_running EXCEPT ![j] = TRUE]
    /\ UNCHANGED <<gil, doing, m_handle, results, remote, seenVars>>

(* The session's num_threads property resizes the shared pool.             *)
SetNumThreads(c, n) ==
    /\ InPythonCode(c)
    /\ Pool!Resize(n)
    /\ UNCHANGED <<gil, place, doing, handleVars, results, remote, seenVars>>

(* aws_async_job_handle::done(): the first call that finds the task        *)
(* completed posts the callbacks; the answer is whether they have run.     *)
(* Any other final state counts as not done.                               *)
DoneAnswer_WhenCompleted(j) == remote[j] = "COMPLETED"
DoneAnswer(j) == remote[j] = "COMPLETED" /\ place[Callbacks(j)] = "ended"

DoneEffect_NeverPosts(j) == UNCHANGED <<poolVars, place>>
DoneEffect(j) ==
    IF remote[j] = "COMPLETED" /\ place[Callbacks(j)] = "none"
    THEN /\ Pool!Accept(Callbacks(j))
         /\ place' = [place EXCEPT ![Callbacks(j)] = "queued"]
    ELSE UNCHANGED <<poolVars, place>>

CompleteAnswer(j) == IF m_handle[j] THEN DoneAnswer(j) ELSE ~m_thread_running[j]

CompleteEffect(j) == IF m_handle[j] THEN DoneEffect(j) ELSE UNCHANGED <<poolVars, place>>

Complete(c, j) ==
    /\ InPythonCode(c)
    /\ Posted(j)
    /\ CompleteEffect(j)
    /\ reported' = IF CompleteAnswer(j) THEN reported \cup {j} ELSE reported
    /\ UNCHANGED <<gil, doing, handleVars, results, remote, returned>>

(* get(): with a handle, poll it; without one, block on the future of the  *)
(* pool task (a second such get() raises std::future_error instead).       *)
(* Both keep the GIL.                                                      *)
Get(c, j) ==
    /\ InPythonCode(c)
    /\ Posted(j)
    /\ Patient => place[Run(j)] = "ended"
    /\ m_handle[j] \/ j \notin returned
    /\ doing' = [doing EXCEPT ![c] = <<IF m_handle[j] THEN "poll" ELSE "future", j>>]
    /\ UNCHANGED <<poolVars, gil, place, handleVars, results, remote, seenVars>>

FutureReady(c, j) ==
    /\ alive
    /\ doing[c] = <<"future", j>>
    /\ place[Run(j)] = "ended"
    /\ doing' = [doing EXCEPT ![c] = Nobody]
    /\ returned' = returned \cup {j}
    /\ UNCHANGED <<poolVars, gil, place, handleVars, results, remote, reported>>

Poll(c, j) ==
    /\ alive
    /\ gil = c
    /\ doing[c] = <<"poll", j>>
    /\ DoneEffect(j)
    /\ IF DoneAnswer(j)
       THEN /\ doing' = [doing EXCEPT ![c] = Nobody]
            /\ returned' = returned \cup {j}
       ELSE UNCHANGED <<doing, returned>>
    /\ UNCHANGED <<gil, handleVars, results, remote, reported>>

(* terminate(): nothing for a job that says it is complete, a request to   *)
(* Braket for one with a handle.  Otherwise session::cancel_run(), which   *)
(* asks the accelerator of a session that is not inside its accelerator:   *)
(* a local run never gives the GIL up between start and end, and           *)
(* AWSAccelerator has no cancel() of its own.                              *)
Terminate(c, j) ==
    /\ InPythonCode(c)
    /\ Posted(j)
    /\ CompleteEffect(j)
    /\ IF ~CompleteAnswer(j) /\ m_handle[j] /\ remote[j] = "RUNNING"
       THEN remote' = [remote EXCEPT ![j] = "CANCELLING"]
       ELSE UNCHANGED remote
    /\ UNCHANGED <<gil, doing, handleVars, results, seenVars>>

-----------------------------------------------------------------------------
Next ==
    \/ \E p \in Clients \cup Tasks : Acquire(p)
    \/ \E p \in Clients \cup Tasks : Yield(p)
    \/ Start
    \/ Retire
    \/ \E j \in Jobs : RunSession(j)
    \/ \E j \in Jobs : SessionThrows(j)
    \/ \E j \in Jobs : ClearFlag(j)
    \/ \E j \in RemoteJobs : StoreHandle(j)
    \/ \E j \in Jobs : Leave(j)
    \/ \E t \in Tasks : SetValue(t)
    \/ \E j \in RemoteJobs : RunCallbacks(j)
    \/ \E j \in RemoteJobs : RemoteEnds(j)
    \/ \E c \in Clients, j \in Jobs : PostAsync(c, j)
    \/ \E c \in Clients, n \in PoolSizes : SetNumThreads(c, n)
    \/ \E c \in Clients, j \in Jobs : Complete(c, j)
    \/ \E c \in Clients, j \in Jobs : Get(c, j)
    \/ \E c \in Clients, j \in Jobs : FutureReady(c, j)
    \/ \E c \in Clients, j \in RemoteJobs : Poll(c, j)
    \/ \E c \in Clients, j \in Jobs : Terminate(c, j)

Spec == Init /\ [][Next]_vars

(* Pool threads run, the interpreter lock is passed on and reaches every   *)
(* thread that waits for it (CPython's switch request forces the holder to *)
(* let another thread in), and Braket tasks end.  A client that is not     *)
(* inside a call owes nothing but the lock.                                *)
Fairness ==
    /\ WF_vars(Start) /\ WF_vars(Retire)
    /\ \A p \in Clients \cup Tasks : SF_vars(Acquire(p)) /\ WF_vars(Yield(p))
    /\ \A j \in Jobs : /\ SF_vars(RunSession(j) \/ SessionThrows(j))
                       /\ WF_vars(ClearFlag(j))
                       /\ WF_vars(Leave(j))
    /\ \A j \in RemoteJobs : /\ WF_vars(StoreHandle(j))
                             /\ SF_vars(RunCallbacks(j))
                             /\ WF_vars(RemoteEnds(j))
    /\ \A t \in Tasks : WF_vars(SetValue(t))
    /\ \A c \in Clients, j \in Jobs : WF_vars(FutureReady(c, j))
    /\ \A c \in Clients, j \in RemoteJobs : SF_vars(Poll(c, j))

FairSpec == Spec /\ Fairness

-----------------------------------------------------------------------------
(* A local job a client was told is complete has its results: the flag is  *)
(* cleared only after the run.                                             *)
LocalCompleteMeansResults == reported \cap LocalJobs \subseteq results

(* get() never hands out a session without its results: the dummy value a  *)
(* remote task returns is unreachable, because by the time the future is   *)
(* ready the handle is stored and get() waits for that instead.            *)
GetReturnsResults == returned \subseteq results

(* What clients are told and given, by complete() and by get().            *)
ClientsSeeResults == LocalCompleteMeansResults /\ GetReturnsResults

(* Every job that is posted leaves the pool, however the clients poll and  *)
(* terminate jobs, unless the process goes down.                           *)
EveryJobEnds == \A j \in Jobs : Posted(j) ~> place[Run(j)] = "ended" \/ ~alive

(* get() returns, for a Braket job when the remote task completes.         *)
GetReturnsIfCompleted ==
    \A c \in Clients, j \in Jobs :
        doing[c] \in {<<"future", j>>, <<"poll", j>>} ~>
            \/ doing[c] = Nobody \/ ~alive
            \/ j \in RemoteJobs /\ remote[j] \in {"FAILED", "CANCELLED"}

-----------------------------------------------------------------------------
(* What the comments and the bindings' help texts say.                     *)

(* get(): "Blocking if the job is not completed yet", so it returns when   *)
(* a local job completes.                                                  *)
LocalGetReturns ==
    \A c \in Clients, j \in LocalJobs :
        doing[c] = <<"future", j>> ~> doing[c] = Nobody

=============================================================================
